------------------------------ MODULE LossyMap ------------------------------
(***************************************************************************)
(* What the users of a cache may rely on: a lookup gives nothing, or what  *)
(* was stored last under the key.  Anything may be dropped when something  *)
(* else is stored.                                                         *)
(***************************************************************************)
CONSTANTS Keys, Data, None
VARIABLE store      \* store[k]: what a lookup of k gives, None if nothing

Stores == [Keys -> Data \cup {None}]

Put(k, d) ==
    store' \in {f \in Stores :
                  f[k] = d /\ \A x \in Keys \ {k} : f[x] \in {store[x], None}}

Remove == store' \in {f \in Stores : \A x \in Keys : f[x] \in {store[x], None}}

Init == store = [k \in Keys |-> None]

Next == Remove \/ \E k \in Keys, d \in Data : Put(k, d)

Spec == Init /\ [][Next]_store
=============================================================================
