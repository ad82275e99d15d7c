---- MODULE MCRaidLayout ----
(* RaidLayout on every request of a few stripes, for odd and even numbers  *)
(* of devices.                                                             *)
EXTENDS RaidLayout

AllLevels  == {"raid0", "raid1", "raid4", "raid5"}
ThreeFour  == {3, 4}
OneTwoFour == {1, 2, 4}
====
