----------------------------- MODULE MCLifecycle ----------------------------
(* Targets of two names, one name of a device, two pids: a pid is used         *)
(* again, and devices of one name follow each other.                           *)
EXTENDS Lifecycle
=============================================================================
