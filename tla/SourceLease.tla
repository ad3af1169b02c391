----------------------------- MODULE SourceLease -----------------------------
(***************************************************************************)
(* What the run rows of one source promise: a lease.  One run at a time    *)
(* holds it, and only its holder is inside (scanning the source).  A lease *)
(* expires when live work is believed dead: from then on nobody keeps the  *)
(* others out, but still at most one run holds it.                         *)
(***************************************************************************)
CONSTANT Runs

VARIABLES holders, inside, expired

lease == <<holders, inside, expired>>

Init == holders = {} /\ inside = {} /\ expired = FALSE

Acquire(r) ==
    /\ holders = {} /\ inside = {}
    /\ holders' = {r}
    /\ UNCHANGED <<inside, expired>>

Enter(r) ==
    /\ r \in holders
    /\ inside' = inside \union {r}
    /\ UNCHANGED <<holders, expired>>

(* The work is over, and perhaps the run with it.                          *)
Leave(r) ==
    /\ r \in inside
    /\ inside' = inside \ {r}
    /\ holders' \in {holders, holders \ {r}}
    /\ UNCHANGED expired

Release(r) ==
    /\ r \in holders \ inside
    /\ holders' = holders \ {r}
    /\ UNCHANGED <<inside, expired>>

Expire ==
    /\ expired' = TRUE
    /\ UNCHANGED <<holders, inside>>

Overrun ==
    /\ expired
    /\ \/ holders' \subseteq holders
       \/ holders = {} /\ \E r \in Runs : holders' = {r}
    /\ inside' \in SUBSET Runs
    /\ UNCHANGED expired

Next ==
    \/ \E r \in Runs : Acquire(r) \/ Enter(r) \/ Leave(r) \/ Release(r)
    \/ Expire \/ Overrun

Spec == Init /\ [][Next]_lease
=============================================================================
