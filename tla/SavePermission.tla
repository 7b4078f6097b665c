--------------------------- MODULE SavePermission ---------------------------
(***************************************************************************)
(* The temporary save permission of SecCompPermManager                     *)
(* (sec_comp_perm_manager.cpp): a count of live grants per token, a deque  *)
(* of the names of their revoke tasks, and the tasks themselves, which     *)
(* wait in the event handler for DELAY_SAVE_REVOKE_MILLISECONDS.           *)
(*                                                                         *)
(* The count and the deque are guarded by mutex_, but a grant posts its    *)
(* task BEFORE it takes mutex_, and the handler takes a due task out of    *)
(* its queue BEFORE the task takes mutex_.  Both gaps are steps here.      *)
(*                                                                         *)
(* Two paths reach GrantTempSavePermission.  "click" runs under            *)
(* componentInfoLock_ (StartDialog), "dialog" under useMapMutex_           *)
(* (GrantDialogWaitEntity): each path is serial, the two are concurrent.   *)
(***************************************************************************)
EXTENDS Naturals, Sequences

CONSTANTS
    Token,           \* access tokens of the applications
    Path,            \* the grant paths in use, a subset of {"click", "dialog"}
    MaxSaveGrants,   \* bound: number of grants in a behaviour
    NoName           \* "no task name"

(***************************************************************************)
(* A task name is the token and the time of the grant.  The id stands for  *)
(* that time: ids grow in the order of the posts, and since every task has *)
(* the same delay they are also the order in which the tasks are due.      *)
(***************************************************************************)
Name == [token : Token, id : 1..MaxSaveGrants]

ASSUME SaveAssumption ==
    /\ Path \subseteq {"click", "dialog"}
    /\ MaxSaveGrants \in Nat
    /\ NoName \notin Name

VARIABLES
    applySaveCount,  \* applySaveCountMap_ (0: no entry, entries are erased at 0)
    saveTaskDeque,   \* saveTaskDequeMap_
    saveTasks,       \* names of the revoke tasks waiting in the event handler
    firedSave,       \* the task the handler thread runs, still without mutex_
    grantingSave,    \* per path: the name posted and not yet pushed
    issued           \* number of names used so far

saveVars == <<applySaveCount, saveTaskDeque, saveTasks, firedSave,
              grantingSave, issued>>

InDeque(n) == \E i \in DOMAIN saveTaskDeque[n.token] : saveTaskDeque[n.token][i] = n

SaveInit ==
    /\ applySaveCount = [t \in Token |-> 0]
    /\ saveTaskDeque = [t \in Token |-> <<>>]
    /\ saveTasks = {}
    /\ firedSave = NoName
    /\ grantingSave = [p \in Path |-> NoName]
    /\ issued = 0
-----------------------------------------------------------------------------
(* Faulty variants: each is a plausible bug, used to see a property fail.  *)

\* The deque is left behind when the process dies.
KeepDequeOnDeath(T) ==
    /\ saveTasks' = {n \in saveTasks : n.token \in T => ~InDeque(n)}
    /\ applySaveCount' = [t \in Token |-> IF t \in T THEN 0 ELSE applySaveCount[t]]
    /\ UNCHANGED <<saveTaskDeque, firedSave, grantingSave, issued>>

\* The count survives the process.
KeepCountOnDeath(T) ==
    /\ saveTasks' = {n \in saveTasks : n.token \in T => ~InDeque(n)}
    /\ saveTaskDeque' = [t \in Token |-> IF t \in T THEN <<>> ELSE saveTaskDeque[t]]
    /\ UNCHANGED <<applySaveCount, firedSave, grantingSave, issued>>

\* The name is pushed at the front.
PushFront(p) ==
    LET n == grantingSave[p]
    IN  /\ n # NoName
        /\ saveTaskDeque' = [saveTaskDeque EXCEPT ![n.token] = <<n>> \o @]
        /\ applySaveCount' = [applySaveCount EXCEPT ![n.token] = @ + 1]
        /\ grantingSave' = [grantingSave EXCEPT ![p] = NoName]
        /\ UNCHANGED <<saveTasks, firedSave, issued>>

\* The count is lowered even when nothing is left to end.
CountBelowZero ==
    LET t == firedSave.token
    IN  /\ firedSave # NoName
        /\ firedSave' = NoName
        /\ applySaveCount' = [applySaveCount EXCEPT ![t] = @ - 1]
        /\ IF saveTaskDeque[t] = <<>>
             THEN UNCHANGED <<saveTaskDeque, saveTasks>>
             ELSE /\ saveTasks' = saveTasks \ {Head(saveTaskDeque[t])}
                  /\ saveTaskDeque' = [saveTaskDeque EXCEPT ![t] = Tail(@)]
        /\ UNCHANGED <<grantingSave, issued>>

\* The last name is popped, and its task removed, instead of the first.
PopBack ==
    LET t == firedSave.token
        d == saveTaskDeque[t]
    IN  /\ firedSave # NoName
        /\ firedSave' = NoName
        /\ IF applySaveCount[t] = 0 \/ d = <<>>
             THEN UNCHANGED <<applySaveCount, saveTaskDeque, saveTasks>>
             ELSE /\ saveTasks' = saveTasks \ {d[Len(d)]}
                  /\ saveTaskDeque' = [saveTaskDeque EXCEPT ![t] = SubSeq(d, 1, Len(d) - 1)]
                  /\ applySaveCount' = [applySaveCount EXCEPT ![t] = @ - 1]
        /\ UNCHANGED <<grantingSave, issued>>
-----------------------------------------------------------------------------
(* The operations.                                                         *)

\* GrantTempSavePermission up to and including the post of the revoke task.
DelaySaveRevokePermission(p, t) ==
    LET n == [token |-> t, id |-> issued + 1]
    IN  /\ issued < MaxSaveGrants
        /\ grantingSave[p] = NoName
        /\ issued' = issued + 1
        /\ saveTasks' = saveTasks \cup {n}
        /\ grantingSave' = [grantingSave EXCEPT ![p] = n]
        /\ UNCHANGED <<applySaveCount, saveTaskDeque, firedSave>>

\* The rest of GrantTempSavePermission, under mutex_.
PushSaveTask(p) ==
    LET n == grantingSave[p]
    IN  /\ n # NoName
        /\ saveTaskDeque' = [saveTaskDeque EXCEPT ![n.token] = Append(@, n)]
        /\ applySaveCount' = [applySaveCount EXCEPT ![n.token] = @ + 1]
        /\ grantingSave' = [grantingSave EXCEPT ![p] = NoName]
        /\ UNCHANGED <<saveTasks, firedSave, issued>>

\* Environment: a grant reaches mutex_ within 60 s of posting its task.
PushBeatsTimeout(n) == \A p \in Path : grantingSave[p] # n

\* The handler thread takes the task that is due first out of its queue.
FireSaveTask ==
    /\ firedSave = NoName
    /\ \E n \in saveTasks :
          /\ \A m \in saveTasks : n.id <= m.id
          /\ PushBeatsTimeout(n)
          /\ saveTasks' = saveTasks \ {n}
          /\ firedSave' = n
    /\ UNCHANGED <<applySaveCount, saveTaskDeque, grantingSave, issued>>

\* The task itself: it pops the FRONT name, whichever task it is, and
\* removes the task of that name.
RevokeTempSavePermissionCount ==
    LET t == firedSave.token
    IN  /\ firedSave # NoName
        /\ firedSave' = NoName
        /\ IF applySaveCount[t] = 0 \/ saveTaskDeque[t] = <<>>
             THEN UNCHANGED <<applySaveCount, saveTaskDeque, saveTasks>>
             ELSE /\ saveTasks' = saveTasks \ {Head(saveTaskDeque[t])}
                  /\ saveTaskDeque' = [saveTaskDeque EXCEPT ![t] = Tail(@)]
                  /\ applySaveCount' = [applySaveCount EXCEPT ![t] = @ - 1]
        /\ UNCHANGED <<grantingSave, issued>>

\* The processes of the tokens in T died: everything pushed is dropped.
RevokeTempSavePermission(T) ==
    /\ saveTasks' = {n \in saveTasks : n.token \in T => ~InDeque(n)}
    /\ saveTaskDeque' = [t \in Token |-> IF t \in T THEN <<>> ELSE saveTaskDeque[t]]
    /\ applySaveCount' = [t \in Token |-> IF t \in T THEN 0 ELSE applySaveCount[t]]
    /\ UNCHANGED <<firedSave, grantingSave, issued>>

\* What the media library is told.
VerifySavePermission(t) == applySaveCount[t] # 0
-----------------------------------------------------------------------------
(* The component on its own.  NotifyProcessDied, for the token of one      *)
(* process, and ExitWhenAppMgrDied, for those of all, hold                 *)
(* componentInfoLock_, which a grant of the click path holds too.  A grant *)
(* of the dialog path does not hold them up: ExitWhenAppMgrDied takes no   *)
(* other lock, and NotifyProcessDied has given useMapMutex_ back before it *)
(* revokes, so a dialog of another process of the token may be in the      *)
(* middle of its grant.                                                    *)

ProcessesDie(T) ==
    /\ \A p \in Path \cap {"click"} : grantingSave[p] = NoName
    /\ RevokeTempSavePermission(T)

Next ==
    \/ \E p \in Path, t \in Token : DelaySaveRevokePermission(p, t)
    \/ \E p \in Path : PushSaveTask(p)
    \/ FireSaveTask
    \/ RevokeTempSavePermissionCount
    \/ \E T \in SUBSET Token : ProcessesDie(T)

\* A thread that posted goes on to push, and the handler thread runs due tasks.
Fairness ==
    /\ \A p \in Path : WF_saveVars(PushSaveTask(p))
    /\ WF_saveVars(FireSaveTask)
    /\ WF_saveVars(RevokeTempSavePermissionCount)

SafeSpec == SaveInit /\ [][Next]_saveVars
Spec == SafeSpec /\ Fairness
-----------------------------------------------------------------------------
(* Properties.                                                             *)

SaveTypeOK ==
    /\ applySaveCount \in [Token -> Nat]
    /\ saveTaskDeque \in [Token -> Seq(Name)]
    /\ saveTasks \in SUBSET Name
    /\ firedSave \in Name \cup {NoName}
    /\ grantingSave \in [Path -> Name \cup {NoName}]
    /\ issued \in 0..MaxSaveGrants

\* applySaveCountMap_ and saveTaskDequeMap_ are kept apart and updated by
\* four functions; they agree whenever mutex_ is free, so no grant is counted
\* without a name to revoke it by.
CountMatchesDeque == \A t \in Token : applySaveCount[t] = Len(saveTaskDeque[t])

\* Every live grant still has its own revoke task, in the queue or, for the
\* oldest one, in the hands of the handler thread: no pop cancels the task of
\* a grant that stays.
OwnTaskPending ==
    \A t \in Token : \A i \in DOMAIN saveTaskDeque[t] :
        \/ saveTaskDeque[t][i] \in saveTasks
        \/ i = 1 /\ firedSave = saveTaskDeque[t][1]

\* A task that has fired ends its own grant: if that grant is still live it
\* is the front of the deque, although the task pops without looking.
FiredIsFront ==
    firedSave # NoName /\ InDeque(firedSave) =>
        Head(saveTaskDeque[firedSave.token]) = firedSave

\* A save permission is temporary: it is taken back without any action of the
\* application.
SaveExpires == \A t \in Token : VerifySavePermission(t) ~> ~VerifySavePermission(t)

\* The count implements the leases of SaveLease: every grant adds one lease
\* and every lease ends.
Lease == INSTANCE SaveLease WITH leases <- applySaveCount
LeaseSafety == Lease!Safety
LeaseSpec == Lease!Spec
=============================================================================
