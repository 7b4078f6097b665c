--------------------------- MODULE AppPermission ---------------------------
(***************************************************************************)
(* The location and paste permissions of SecCompPermManager                *)
(* (sec_comp_perm_manager.cpp).  They are granted in and revoked from the  *)
(* access token service; grantMap_ remembers what was granted so that it   *)
(* can be revoked, at once when the process dies, or by a task the event   *)
(* handler runs DELAY_REVOKE_MILLISECONDS after it went to the background. *)
(*                                                                         *)
(* Every operator below is one section under grantMtx_ or one call of the  *)
(* event handler.  It primes only the variables named in its comment, and  *)
(* takes a set of tokens where the code loops over processes.              *)
(***************************************************************************)
EXTENDS Naturals

CONSTANT Token

VARIABLES
    grantMap,      \* grantMap_
    held,          \* per token: the permissions the access token service has granted
    revokeTasks    \* per token: "RevokeAll"<token> tasks waiting in the event handler

appVars == <<grantMap, held, revokeTasks>>

Perm == {"APPROXIMATELY_LOCATION", "LOCATION", "SECURE_PASTE"}

AppInit ==
    /\ grantMap = [t \in Token |-> {}]
    /\ held = [t \in Token |-> {}]
    /\ revokeTasks = [t \in Token |-> 0]

AppTypeOK ==
    /\ grantMap \in [Token -> SUBSET Perm]
    /\ held \in [Token -> SUBSET Perm]
    /\ revokeTasks \in [Token -> Nat]
-----------------------------------------------------------------------------
(* Faulty variants.                                                        *)

\* The record is forgotten on the second permission.
RecordFirstOnly(t, perm, ok) ==
    /\ held' = IF ok THEN [held EXCEPT ![t] = @ \cup {perm}] ELSE held
    /\ grantMap' = [grantMap EXCEPT ![t] = IF @ = {} THEN {perm} ELSE @]

\* The pending task of a token survives its process.
RevokeWithoutCancel(T) ==
    /\ held' = [t \in Token |-> IF t \in T THEN held[t] \ grantMap[t] ELSE held[t]]
    /\ grantMap' = [t \in Token |-> IF t \in T THEN {} ELSE grantMap[t]]
    /\ UNCHANGED revokeTasks

\* The record is dropped and nothing revoked.
ForgetPermissions(T) ==
    /\ grantMap' = [t \in Token |-> IF t \in T THEN {} ELSE grantMap[t]]
    /\ UNCHANGED held
-----------------------------------------------------------------------------
(* The operations.                                                         *)

(* held, grantMap: the record is made whether or not the grant succeeded.  *)
GrantAppPermission(t, perm, ok) ==
    /\ held' = IF ok THEN [held EXCEPT ![t] = @ \cup {perm}] ELSE held
    /\ grantMap' = [grantMap EXCEPT ![t] = @ \cup {perm}]

(* held, grantMap: a grant that failed and the revoke of another           *)
(* permission that answers for it (the LOCATION half of GrantTempPermission *)
(* failed, APPROXIMATELY_LOCATION is taken back).                          *)
FailAndTakeBack(t, failed, other) ==
    /\ held' = [held EXCEPT ![t] = @ \ {other}]
    /\ grantMap' = [grantMap EXCEPT ![t] = (@ \cup {failed}) \ {other}]

(* held, grantMap *)
RevokeAppPermisionsImmediately(T) ==
    /\ held' = [t \in Token |-> IF t \in T THEN held[t] \ grantMap[t] ELSE held[t]]
    /\ grantMap' = [t \in Token |-> IF t \in T THEN {} ELSE grantMap[t]]

(* revokeTasks: the task is posted beside any earlier one of its name *)
RevokeAppPermisionsDelayed(t) ==
    revokeTasks' = [revokeTasks EXCEPT ![t] = @ + 1]

(* revokeTasks: all tasks of the name are removed *)
CancelAppRevokingPermisions(T) ==
    revokeTasks' = [t \in Token |-> IF t \in T THEN 0 ELSE revokeTasks[t]]

(* held, grantMap, revokeTasks *)
RevokeAppPermissions(T) ==
    /\ RevokeAppPermisionsImmediately(T)
    /\ CancelAppRevokingPermisions(T)

(* revokeTasks: the handler takes one due task out of its queue *)
FireRevokeTask(t) ==
    /\ revokeTasks[t] > 0
    /\ revokeTasks' = [revokeTasks EXCEPT ![t] = @ - 1]
-----------------------------------------------------------------------------
\* Whatever a token holds through a security component is in grantMap_, so
\* the next revoke of the token finds it.
HeldIsRecorded == \A t \in Token : held[t] \subseteq grantMap[t]
=============================================================================
