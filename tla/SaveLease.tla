----------------------------- MODULE SaveLease -----------------------------
(***************************************************************************)
(* What the media library may rely on when it asks VerifySavePermission:   *)
(* every granted click on a save button gives its token one lease, a lease *)
(* ends once, by itself, and the token may save exactly while it holds a   *)
(* lease.  When the process dies all leases of its token end together.     *)
(***************************************************************************)
EXTENDS Naturals

CONSTANT Token

VARIABLE leases    \* leases[t]: the grants of token t that have not ended

Init == leases = [t \in Token |-> 0]

Grant(t) == leases' = [leases EXCEPT ![t] = @ + 1]

Expire(t) ==
    /\ leases[t] > 0
    /\ leases' = [leases EXCEPT ![t] = @ - 1]

RevokeAll(T) == leases' = [t \in Token |-> IF t \in T THEN 0 ELSE leases[t]]

Next ==
    \/ \E t \in Token : Grant(t) \/ Expire(t)
    \/ \E T \in SUBSET Token : RevokeAll(T)

\* The safety part of the promise, and the promise that every lease ends.
Safety == Init /\ [][Next]_leases
Spec == Safety /\ \A t \in Token : WF_leases(Expire(t))
=============================================================================
