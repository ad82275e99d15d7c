---- MODULE MCCfq ----
(* Cfq with a ring of a few slots that wraps many times.                   *)
EXTENDS Cfq

Letters == {"a", "b", "c"}
====
