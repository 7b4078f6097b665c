--------------------------- MODULE SecCompManager ---------------------------
(***************************************************************************)
(* The security component service: SecCompManager with the permission      *)
(* manager, the first-use dialog, the list of malicious processes, the     *)
(* delayed exit and the foreground observer it works with.                 *)
(*                                                                         *)
(* Threads, and the locks that cut their work into steps:                  *)
(*   - IPC threads (Caller) run the calls of applications; a call checks   *)
(*     its caller, then takes componentInfoLock_ (lock C);                 *)
(*   - the observer thread delivers the application manager's reports one  *)
(*     after the other: it updates the foreground set, then takes lock C;  *)
(*   - dialogs report their close on IPC threads of their own, which take  *)
(*     useMapMutex_ (lock U) and never lock C;                             *)
(*   - one handler thread runs the delayed tasks, one after the other.     *)
(* A section that does nothing else under its lock is one step.  Granting  *)
(* takes two steps (two sections of the permission manager) during which   *)
(* the granting thread keeps lock C or lock U.                             *)
(***************************************************************************)
EXTENDS Integers, FiniteSets

CONSTANTS
    Pid, Token,
    TokensOf,        \* per pid: the tokens a process of this pid may run under
    ScId,            \* component ids, a set of numbers
    Type,            \* subset of {"LOCATION", "PASTE", "SAVE"}
    Caller,          \* IPC threads
    Calls,           \* the kinds of calls applications make, a subset of CallKind
    EnhanceResult,   \* subset of BOOLEAN: what the vendor's checks may answer
    GrantResult,     \* subset of BOOLEAN: what GrantPermission may answer
    UnloadResult,    \* subset of BOOLEAN: what UnloadSystemAbility may answer
    AppMgrMayDie,    \* TRUE: the application manager may die
    LateCalls,       \* TRUE: a call may outlive the process that made it, and
                     \* a pid may be reused before its death is handled
    MaxComponents,   \* MAX_SINGLE_PROC_COMP_SIZE
    MaxDialogs,      \* bound: dialogs open at a time
    RootPid, MaxFail,
    Path, MaxSaveGrants, NoName

CallKind == {"register", "preRegister", "update", "unregister", "click"}

ASSUME ManagerAssumption ==
    /\ TokensOf \in [Pid -> (SUBSET Token) \ {{}}]
    /\ ScId \subseteq Nat
    /\ Type \subseteq {"LOCATION", "PASTE", "SAVE"}
    /\ Type # {}
    /\ Calls \subseteq CallKind
    /\ EnhanceResult \subseteq BOOLEAN
    /\ GrantResult \subseteq BOOLEAN
    /\ UnloadResult \subseteq BOOLEAN
    /\ AppMgrMayDie \in BOOLEAN
    /\ LateCalls \in BOOLEAN
    /\ MaxComponents \in Nat
    /\ MaxDialogs \in Nat
    /\ RootPid \subseteq Pid
    /\ MaxFail \in Nat
    /\ Path = {"click", "dialog"}
    /\ MaxSaveGrants \in Nat
    /\ NoName \notin [token : Token, id : 1..MaxSaveGrants]

VARIABLES
    \* the applications, as reported by the application manager
    live,            \* pids of running processes
    procToken,       \* per pid: token of its last process
    fgProc,          \* AppStateObserver::foregrandProcList_
    observing,       \* the report the observer thread is about to hand over
    appMgrAlive,
    \* SecCompManager
    registered,      \* the keys of componentMap_
    entryToken,      \* per pid: ProcessCompInfos::tokenId
    compList,        \* per pid: ProcessCompInfos::compList
    isSaExit,
    service,         \* "running", "unloading" or "stopped"
    call,            \* per IPC thread: the call it runs, or NoCall
    \* FirstUseDialog
    dialogWait,      \* the entities of dialogWaitMap_
    openDialogs,     \* dialogs shown and not yet closed
    closing,         \* the grant made under lock U, or NoGrant
    confirmed,       \* entities granted by a dialog, their type not yet read again
    noting,          \* those that were a save button then, not yet in firstUseMap_
    \* SecCompEntity
    compType,        \* per id: the type in the componentInfo_ of its entity
    retyped,         \* history: tokens one of whose components became, or ceased
                     \* to be, a save button
    \* the handler thread
    exitTasks,       \* "DelayExitTask" tasks waiting
    running,         \* the task taken out of the queue that still wants its lock
    \* the parts modelled in modules of their own
    grantMap, held, revokeTasks,
    applySaveCount, saveTaskDeque, saveTasks, firedSave, grantingSave, issued,
    maliciousFailCount, maliciousAppList,
    firstUseMap, recordTasks, saving, cfgRecord

App == INSTANCE AppPermission
Save == INSTANCE SavePermission
Malicious == INSTANCE MaliciousApps
Record == INSTANCE FirstUseRecord

procVars == <<live, procToken, fgProc, appMgrAlive>>
tableVars == <<registered, entryToken, compList>>
exitVars == <<isSaExit, service>>
dialogVars == <<dialogWait, openDialogs, closing, confirmed, noting>>
typeVars == <<compType, retyped>>
appVars == <<grantMap, held, revokeTasks>>
saveVars == <<applySaveCount, saveTaskDeque, saveTasks, firedSave,
              grantingSave, issued>>
maliciousVars == <<maliciousFailCount, maliciousAppList>>
recordVars == <<firstUseMap, recordTasks, saving, cfgRecord>>

vars == <<procVars, observing, tableVars, exitVars, call, dialogVars,
          typeVars, exitTasks, running, appVars, saveVars, maliciousVars, recordVars>>

\* A SecCompEntity: its id and its owner.  What is in its componentInfo_, the
\* type that decides about the grant among it, every update and every click
\* replaces by what the application reports.
Entity == [id : ScId, pid : Pid, token : Token]
NoEntity == [id |-> "none"]
INVALID_SC_ID == -1

\* A grant a dialog has begun: the type is read once, at its start.
Grant == [comp : Entity, type : {"LOCATION", "SAVE"}]
NoGrant == [comp |-> NoEntity]

\* A call in flight.  id: the id it names, if any; comp: the entity it
\* registers, or found under lock C.  A click goes on from "begun" to "checked"
\* when its report is accepted, to "asked" when firstUseMap_ was looked at and
\* to "granting" in the middle of a save grant.
\* Two histories.  tracked: its process has been in componentMap_ ever since
\* the caller was checked; aged: it began before the last time its token went
\* to the background.
Stage == {"begun", "checked", "asked", "granting"}
Call == [kind : Calls, stage : Stage, pid : Pid, token : Token,
         id : ScId \cup {INVALID_SC_ID}, comp : Entity \cup {NoEntity},
         tracked : BOOLEAN, aged : BOOLEAN]
NoCall == [kind |-> "none"]
InFlight(c) == call[c] # NoCall

Idle == [task |-> "idle"]
Exiting == [task |-> "exit"]
Revoking(t) == [task |-> "revoke", token |-> t]
HandlerIdle == running = Idle /\ firedSave = NoName /\ saving = {}

Silent == [report |-> "none"]
Report(kind, p) == [report |-> kind, pid |-> p]

\* A click whose report was accepted keeps lock C until it is done, a dialog
\* that grants keeps lock U, and the observer keeps lock C while it clears up
\* after a process ("clearing").
LockFreeC ==
    /\ \A c \in Caller : InFlight(c) => call[c].stage = "begun"
    /\ observing.report # "clearing"
LockFreeU == closing = NoGrant

Init ==
    /\ live = {}
    /\ procToken \in [Pid -> Token]
    /\ \A p \in Pid : procToken[p] \in TokensOf[p]
    /\ fgProc = {}
    /\ observing = Silent
    /\ appMgrAlive = TRUE
    /\ registered = {}
    /\ entryToken = procToken
    /\ compList = [p \in Pid |-> {}]
    /\ isSaExit = FALSE
    /\ service = "running"
    /\ call = [c \in Caller |-> NoCall]
    /\ dialogWait = {}
    /\ openDialogs = {}
    /\ closing = NoGrant
    /\ confirmed = {}
    /\ noting = {}
    /\ compType = [id \in ScId |-> CHOOSE ty \in Type : TRUE]   \* set when the id is given
    /\ retyped = {}
    /\ exitTasks = 1          \* Initialize starts the delayed exit
    /\ running = Idle
    /\ App!AppInit
    /\ Save!SaveInit
    /\ Malicious!MaliciousInit
    /\ Record!RecordInit
-----------------------------------------------------------------------------
(* DelayExitTask: tasks of its one name are posted beside each other and    *)
(* removed together.                                                       *)

\* Faulty variant: the task is not posted.
StartLost == UNCHANGED exitTasks

DelayExitStart == exitTasks' = exitTasks + 1
DelayExitStop == exitTasks' = 0
-----------------------------------------------------------------------------
(* Applications and the observer.                                          *)

ProcessStart(p) ==
    /\ p \notin live
    /\ LateCalls \/ observing \notin {Report("died", p), Report("clearing", p)}
    /\ live' = live \cup {p}
    /\ \E t \in TokensOf[p] : procToken' = [procToken EXCEPT ![p] = t]
    /\ UNCHANGED <<fgProc, appMgrAlive, observing, tableVars, exitVars, call,
                   dialogVars, typeVars, exitTasks, running, appVars, saveVars,
                   maliciousVars, recordVars>>

\* OnProcessStateChanged, OnProcessDied and OnAppCacheStateChanged up to the
\* point where the report is handed to the manager.
OnProcessForeground(p) ==
    /\ p \in live \ fgProc
    /\ fgProc' = fgProc \cup {p}
    /\ observing' = Report("foreground", p)
    /\ UNCHANGED <<live, maliciousVars>>

OnProcessBackground(p) ==
    /\ p \in live \cap fgProc
    /\ fgProc' = fgProc \ {p}
    /\ observing' = Report("background", p)
    /\ UNCHANGED <<live, maliciousVars>>

OnProcessDied(p) ==
    /\ p \in live
    /\ LateCalls \/ \A c \in Caller : InFlight(c) => call[c].pid # p
    /\ live' = live \ {p}
    /\ fgProc' = fgProc \ {p}
    /\ Malicious!RemoveAppFromMaliciousAppList(p)
    /\ observing' = Report("died", p)

OnAppCacheStateChanged(p) ==
    /\ p \in live
    /\ fgProc' = fgProc \ {p}
    /\ observing' = Report("died", p)
    /\ UNCHANGED <<live, maliciousVars>>

AppMgrReports(p) ==
    /\ appMgrAlive
    /\ observing = Silent
    /\ \/ OnProcessForeground(p)
       \/ OnProcessBackground(p)
       \/ OnProcessDied(p)
       \/ OnAppCacheStateChanged(p)
    /\ UNCHANGED <<procToken, appMgrAlive, tableVars, exitVars, call, dialogVars,
                   typeVars, exitTasks, running, appVars, saveVars, recordVars>>

\* The report of a process that is not in componentMap_ changes nothing.
IgnoreReport ==
    /\ observing # Silent
    /\ LockFreeC
    /\ observing.pid \notin registered
    /\ observing' = Silent
    /\ UNCHANGED <<procVars, tableVars, exitVars, call, dialogVars, typeVars,
                   exitTasks, running, appVars, saveVars, maliciousVars,
                   recordVars>>

NotifyProcessForeground ==
    /\ observing # Silent
    /\ LockFreeC
    /\ observing.report = "foreground"
    /\ observing.pid \in registered
    /\ App!CancelAppRevokingPermisions({entryToken[observing.pid]})
    /\ observing' = Silent
    /\ UNCHANGED <<procVars, tableVars, exitVars, call, dialogVars, typeVars,
                   exitTasks, running, grantMap, held, saveVars, maliciousVars,
                   recordVars>>

\* The calls of the token that are in flight now will be over before the
\* task posted here is due.
NotifyProcessBackground ==
    LET t == entryToken[observing.pid]
    IN  /\ observing # Silent
        /\ LockFreeC
        /\ observing.report = "background"
        /\ observing.pid \in registered
        /\ App!RevokeAppPermisionsDelayed(t)
        /\ call' = [c \in Caller |->
                       IF InFlight(c) /\ call[c].token = t
                         THEN [call[c] EXCEPT !.aged = TRUE]
                         ELSE call[c]]
        /\ observing' = Silent
        /\ UNCHANGED <<procVars, tableVars, exitVars, dialogVars, typeVars,
                       exitTasks, running, grantMap, held, saveVars,
                       maliciousVars, recordVars>>

\* Faulty variant: the dialogs of the process keep waiting.
DiedKeepsDialogs ==
    /\ observing # Silent
    /\ LockFreeC
    /\ LockFreeU
    /\ observing.report = "died"
    /\ observing.pid \in registered
    /\ observing' = Report("clearing", observing.pid)
    /\ UNCHANGED <<procVars, tableVars, exitVars, call, dialogVars, typeVars,
                   exitTasks, running, appVars, saveVars, maliciousVars,
                   recordVars>>

\* NotifyProcessDied up to the end of its section under lock U; lock C is kept.
RemoveDialogWaitEntitys ==
    /\ observing # Silent
    /\ LockFreeC
    /\ LockFreeU
    /\ observing.report = "died"
    /\ observing.pid \in registered
    /\ dialogWait' = {e \in dialogWait : e.pid # observing.pid}
    /\ observing' = Report("clearing", observing.pid)
    /\ UNCHANGED <<procVars, tableVars, exitVars, call, openDialogs, closing,
                   confirmed, noting, typeVars, exitTasks, running, appVars,
                   saveVars, maliciousVars, recordVars>>

\* Faulty variant: the process stays in componentMap_.
DiedKeepsEntry ==
    LET p == observing.pid
        t == entryToken[p]
    IN  /\ observing # Silent
        /\ observing.report = "clearing"
        /\ compList' = [compList EXCEPT ![p] = {}]
        /\ App!RevokeAppPermissions({t})
        /\ Save!RevokeTempSavePermission({t})
        /\ DelayExitStart
        /\ observing' = Silent
        /\ UNCHANGED <<procVars, registered, entryToken, exitVars, call,
                       dialogVars, typeVars, running, maliciousVars, recordVars>>

\* p leaves componentMap_ (history).
Untrack(p) ==
    call' = [c \in Caller |-> IF InFlight(c) /\ call[c].pid = p
                                THEN [call[c] EXCEPT !.tracked = FALSE]
                                ELSE call[c]]

NotifyProcessDied ==
    LET p == observing.pid
        t == entryToken[p]
    IN  /\ observing # Silent
        /\ observing.report = "clearing"
        /\ compList' = [compList EXCEPT ![p] = {}]
        /\ App!RevokeAppPermissions({t})
        /\ Save!RevokeTempSavePermission({t})
        /\ registered' = registered \ {p}
        /\ DelayExitStart
        /\ Untrack(p)
        /\ observing' = Silent
        /\ UNCHANGED <<procVars, entryToken, exitVars, dialogVars, typeVars,
                       running, maliciousVars, recordVars>>

\* The application manager dies: every process is treated as dead, except
\* that the dialogs go on waiting.
ExitWhenAppMgrDied ==
    LET T == {entryToken[p] : p \in registered}
    IN  /\ AppMgrMayDie
        /\ appMgrAlive
        /\ LockFreeC
        /\ appMgrAlive' = FALSE
        /\ compList' = [p \in Pid |-> {}]
        /\ App!RevokeAppPermissions(T)
        /\ Save!RevokeTempSavePermission(T)
        /\ registered' = {}
        /\ isSaExit' = TRUE
        /\ \E ok \in UnloadResult : service' = IF ok THEN "unloading" ELSE service
        /\ UNCHANGED <<live, procToken, fgProc, observing, entryToken, call,
                       dialogVars, typeVars, exitTasks, running, maliciousVars,
                       recordVars>>
-----------------------------------------------------------------------------
(* Calls of applications.  Begin... is what a call does before it takes    *)
(* lock C.                                                                 *)

\* Faulty variant: where the process is does not matter.
CallerRuns(p) == p \in live

\* GetCallerInfo: only a process in the foreground set may update, click or
\* register its process.
CallerAllowed(p) == p \in live /\ p \in fgProc \cup RootPid

Begin(c, kind, p, id, comp) ==
    /\ kind \in Calls
    /\ ~InFlight(c)
    /\ call' = [call EXCEPT ![c] =
                   [kind |-> kind, stage |-> "begun", pid |-> p,
                    token |-> procToken[p], id |-> id, comp |-> comp,
                    tracked |-> p \in registered, aged |-> FALSE]]

Answer(c) == call' = [call EXCEPT ![c] = NoCall]

\* c runs a call of this kind and may enter lock C.
Enters(c, kind) ==
    /\ InFlight(c)
    /\ call[c].kind = kind
    /\ LockFreeC

\* GetSecurityComponentFromList: the components of the caller with the id the
\* call names, looked up under lock C.
Named(c) == {e \in compList[call[c].pid] : e.id = call[c].id}

\* The ids of all entities that something still refers to.  An id a call merely
\* names is not kept: applications may name any id, also one that comes to be
\* given while the call is on its way.
InFlightComps == {call[c].comp : c \in {d \in Caller : InFlight(d)}} \ {NoEntity}
IdsInUse ==
    {e.id : e \in (UNION {compList[p] : p \in Pid}) \cup InFlightComps
                  \cup dialogWait \cup {d.comp : d \in openDialogs}
                  \cup ({closing.comp} \ {NoEntity}) \cup confirmed \cup noting}

\* CreateScId: an id that no component has.
CreateScId(id) ==
    /\ id \in ScId \ IdsInUse
    /\ \A j \in ScId \ IdsInUse : id <= j

\* RegisterSecurityComponent up to AddSecurityComponentToList.  The caller
\* need not be in the foreground.
BeginRegister(c, p) ==
    /\ p \in live
    /\ ~Malicious!IsInMaliciousAppList(p)
    /\ \/ /\ TRUE \in EnhanceResult
          /\ Malicious!ResetAppMaliciousFailCount(p)
          /\ \E id \in ScId, ty \in Type :
                LET e == [id |-> id, pid |-> p, token |-> procToken[p]]
                IN  /\ CreateScId(id)
                    /\ Begin(c, "register", p, INVALID_SC_ID, e)
                    /\ compType' = [compType EXCEPT ![id] = ty]
       \/ /\ FALSE \in EnhanceResult
          /\ "register" \in Calls
          /\ ~InFlight(c)
          /\ Malicious!AddAppToMaliciousAppList(p)
          /\ UNCHANGED <<call, compType>>
    /\ UNCHANGED <<procVars, observing, tableVars, exitVars, dialogVars, retyped,
                   exitTasks, running, appVars, saveVars, recordVars>>

\* The part before the lock of AddSecurityComponentProcess stops the exit.
BeginPreRegister(c, p) ==
    /\ CallerAllowed(p)
    /\ Begin(c, "preRegister", p, INVALID_SC_ID, NoEntity)
    /\ DelayExitStop
    /\ UNCHANGED <<procVars, observing, tableVars, exitVars, dialogVars, typeVars,
                   running, appVars, saveVars, maliciousVars, recordVars>>

\* Update, click and unregister name whatever id the application likes.
BeginUpdateOrClick(c, p) ==
    /\ CallerAllowed(p)
    /\ ~Malicious!IsInMaliciousAppList(p)
    /\ \E id \in ScId, kind \in {"update", "click"} : Begin(c, kind, p, id, NoEntity)
    /\ UNCHANGED <<procVars, observing, tableVars, exitVars, dialogVars, typeVars,
                   exitTasks, running, appVars, saveVars, maliciousVars,
                   recordVars>>

BeginUnregister(c, p) ==
    /\ p \in live
    /\ \E id \in ScId : Begin(c, "unregister", p, id, NoEntity)
    /\ UNCHANGED <<procVars, observing, tableVars, exitVars, dialogVars, typeVars,
                   exitTasks, running, appVars, saveVars, maliciousVars,
                   recordVars>>

\* Faulty variant: the exit is not looked at.
AddDuringExit(c) ==
    LET p == call[c].pid
    IN  /\ Enters(c, "register")
        /\ Answer(c)
        /\ p \in registered => Cardinality(compList[p]) <= MaxComponents
        /\ registered' = registered \cup {p}
        /\ entryToken' = IF p \in registered THEN entryToken
                         ELSE [entryToken EXCEPT ![p] = call[c].token]
        /\ compList' = [compList EXCEPT ![p] = @ \cup {call[c].comp}]
        /\ DelayExitStop
        /\ UNCHANGED <<procVars, observing, exitVars, dialogVars, typeVars,
                       running, appVars, saveVars, maliciousVars, recordVars>>

\* The size test comes before the append and is a "greater than".
AddSecurityComponentToList(c) ==
    LET p == call[c].pid
        refused == \/ isSaExit
                   \/ p \in registered /\ Cardinality(compList[p]) > MaxComponents
    IN  /\ Enters(c, "register")
        /\ Answer(c)
        /\ \/ refused /\ UNCHANGED <<tableVars, exitTasks>>
           \/ /\ ~refused
              /\ registered' = registered \cup {p}
              /\ entryToken' = IF p \in registered THEN entryToken
                               ELSE [entryToken EXCEPT ![p] = call[c].token]
              /\ compList' = [compList EXCEPT ![p] = @ \cup {call[c].comp}]
              /\ DelayExitStop
        /\ UNCHANGED <<procVars, observing, exitVars, dialogVars, typeVars,
                       running, appVars, saveVars, maliciousVars, recordVars>>

\* Faulty variant: the process is left to its first component to add.
PreRegisterOnlyStops(c) ==
    /\ Enters(c, "preRegister")
    /\ Answer(c)
    /\ UNCHANGED <<procVars, observing, tableVars, exitVars, dialogVars, typeVars,
                   exitTasks, running, appVars, saveVars, maliciousVars,
                   recordVars>>

AddSecurityComponentProcess(c) ==
    LET p == call[c].pid
    IN  /\ Enters(c, "preRegister")
        /\ Answer(c)
        /\ \/ (isSaExit \/ p \in registered) /\ UNCHANGED tableVars
           \/ /\ ~isSaExit
              /\ p \notin registered
              /\ registered' = registered \cup {p}
              /\ entryToken' = [entryToken EXCEPT ![p] = call[c].token]
              /\ UNCHANGED compList
        /\ UNCHANGED <<procVars, observing, exitVars, dialogVars, typeVars,
                       exitTasks, running, appVars, saveVars, maliciousVars,
                       recordVars>>

\* The process stays in componentMap_ when its last component goes.
DeleteSecurityComponentFromList(c) ==
    LET p == call[c].pid
    IN  /\ Enters(c, "unregister")
        /\ Answer(c)
        /\ \/ Named(c) = {} /\ UNCHANGED <<compList, exitTasks>>
           \/ \E e \in Named(c) :
                 /\ compList' = [compList EXCEPT ![p] = @ \ {e}]
                 /\ DelayExitStart
        /\ UNCHANGED <<procVars, observing, registered, entryToken, exitVars,
                       dialogVars, typeVars, running, appVars, saveVars,
                       maliciousVars, recordVars>>

\* The reported info takes the place of the stored one.  Nothing compares the
\* types of the two.
StoreInfo(e, ty) ==
    /\ compType' = [compType EXCEPT ![e.id] = ty]
    /\ retyped' = IF ty = "SAVE" <=> compType[e.id] = "SAVE"
                    THEN retyped
                    ELSE retyped \cup {e.token}

\* Of the checks of a report only the outcome matters here.
UpdateSecurityComponent(c) ==
    LET p == call[c].pid
    IN  /\ Enters(c, "update")
        /\ Answer(c)
        /\ \/ UNCHANGED <<maliciousVars, typeVars>>      \* not found, or invalid
           \/ /\ TRUE \in EnhanceResult
              /\ Malicious!ResetAppMaliciousFailCount(p)
              /\ \E e \in Named(c), ty \in Type : StoreInfo(e, ty)
           \/ /\ FALSE \in EnhanceResult
              /\ Named(c) # {}
              /\ Malicious!AddAppToMaliciousAppList(p)
              /\ UNCHANGED typeVars
        /\ UNCHANGED <<procVars, observing, tableVars, exitVars, dialogVars,
                       exitTasks, running, appVars, saveVars, recordVars>>
-----------------------------------------------------------------------------
(* ReportSecurityComponentClickEvent, all of it under lock C.              *)

\* Nothing happens: the component is not found, the report is invalid, or a
\* paste click of a caller that may read the pasteboard anyway.
RefuseClick(c) ==
    /\ Enters(c, "click")
    /\ Answer(c)
    /\ UNCHANGED <<procVars, observing, tableVars, exitVars, dialogVars, typeVars,
                   exitTasks, running, appVars, saveVars, maliciousVars,
                   recordVars>>

\* The report failed the vendor's check, and is not stored; or it was stored
\* and the click event did not pass, or passed and there is no dialog callback
\* or no grant.
FailClick(c) ==
    LET p == call[c].pid
    IN  /\ Enters(c, "click")
        /\ Answer(c)
        /\ \E e \in Named(c) :
              \/ /\ FALSE \in EnhanceResult
                 /\ Malicious!AddAppToMaliciousAppList(p)
                 /\ UNCHANGED typeVars
              \/ /\ FALSE \in EnhanceResult
                 /\ Malicious!ResetThenAdd(p)
                 /\ \E ty \in Type : StoreInfo(e, ty)
              \/ /\ Malicious!ResetAppMaliciousFailCount(p)
                 /\ \E ty \in Type : StoreInfo(e, ty)
        /\ UNCHANGED <<procVars, observing, tableVars, exitVars, dialogVars,
                       exitTasks, running, appVars, saveVars, recordVars>>

\* The report is stored and all checks pass.
AcceptClick(c) ==
    /\ Enters(c, "click")
    /\ \E e \in Named(c), ty \in Type :
          /\ StoreInfo(e, ty)
          /\ call' = [call EXCEPT ![c].stage = "checked", ![c].comp = e]
    /\ Malicious!ResetAppMaliciousFailCount(call[c].pid)
    /\ UNCHANGED <<procVars, observing, tableVars, exitVars, dialogVars,
                   exitTasks, running, appVars, saveVars, recordVars>>

\* c runs a click that has come to this stage; it has lock C.
ClickAt(c, stage) ==
    /\ InFlight(c)
    /\ call[c].kind = "click"
    /\ call[c].stage = stage

\* StartDialog of a paste button: no dialog, the grant.
ClickPaste(c) ==
    LET e == call[c].comp
    IN  /\ ClickAt(c, "checked")
        /\ compType[e.id] = "PASTE"
        /\ \E ok \in GrantResult : App!GrantAppPermission(e.token, "SECURE_PASTE", ok)
        /\ Answer(c)
        /\ UNCHANGED <<procVars, observing, tableVars, exitVars, dialogVars,
                       typeVars, exitTasks, running, revokeTasks, saveVars,
                       maliciousVars, recordVars>>

\* NotifyFirstUseDialog of a save button whose user confirmed the dialog once:
\* a toast, under lock U, ...
ClickToast(c) ==
    LET e == call[c].comp
    IN  /\ ClickAt(c, "checked")
        /\ LockFreeU
        /\ compType[e.id] = "SAVE"
        /\ Record!NoNeedNotify(e.token)
        /\ call' = [call EXCEPT ![c].stage = "asked"]
        /\ UNCHANGED <<procVars, observing, tableVars, exitVars, dialogVars,
                       typeVars, exitTasks, running, appVars, saveVars,
                       maliciousVars, recordVars>>

\* ... and, lock U given back, the two halves of the grant.
ClickSave(c) ==
    /\ ClickAt(c, "asked")
    /\ Save!DelaySaveRevokePermission("click", call[c].comp.token)
    /\ call' = [call EXCEPT ![c].stage = "granting"]
    /\ UNCHANGED <<procVars, observing, tableVars, exitVars, dialogVars, typeVars,
                   exitTasks, running, appVars, maliciousVars, recordVars>>

ClickSaveEnd(c) ==
    /\ ClickAt(c, "granting")
    /\ Save!PushSaveTask("click")
    /\ Answer(c)
    /\ UNCHANGED <<procVars, observing, tableVars, exitVars, dialogVars, typeVars,
                   exitTasks, running, appVars, maliciousVars, recordVars>>

\* StartDialogAbility: the entity waits, then the dialog is shown.  When the
\* display info cannot be had the entity goes on waiting without a dialog;
\* when the extension does not start it is taken out.
ClickDialog(c) ==
    LET e == call[c].comp
    IN  /\ ClickAt(c, "checked")
        /\ LockFreeU
        /\ \/ compType[e.id] = "LOCATION"
           \/ compType[e.id] = "SAVE" /\ ~Record!NoNeedNotify(e.token)
        /\ \/ /\ \E n \in 1..MaxDialogs :
                    /\ \A m \in 1..MaxDialogs :
                          [comp |-> e, no |-> m] \in openDialogs <=> m < n
                    /\ openDialogs' = openDialogs \cup {[comp |-> e, no |-> n]}
              /\ dialogWait' = dialogWait \cup {e}
           \/ dialogWait' = dialogWait \cup {e} /\ UNCHANGED openDialogs
           \/ dialogWait' = dialogWait \ {e} /\ UNCHANGED openDialogs
        /\ Answer(c)
        /\ UNCHANGED <<procVars, observing, tableVars, exitVars, closing,
                       confirmed, noting, typeVars, exitTasks, running, appVars,
                       saveVars, maliciousVars, recordVars>>
-----------------------------------------------------------------------------
(* SecCompDialogSrvCallback::OnDialogClosed, under lock U only.            *)

\* The user declined, or the entity no longer waits.
CloseWithoutGrant(d) ==
    /\ d \in openDialogs
    /\ openDialogs' = openDialogs \ {d}
    /\ UNCHANGED <<procVars, observing, tableVars, exitVars, call, dialogWait,
                   closing, confirmed, noting, typeVars, exitTasks, running,
                   appVars, saveVars, maliciousVars, recordVars>>

\* GrantDialogWaitEntity up to the middle of the grant, or to its end when it
\* has one part only or fails.  Whether the process is still in the foreground
\* is not asked, and the type is the one of now, not of the click.
GrantDialogWaitEntity(d) ==
    LET e == d.comp
        type == compType[e.id]
    IN  /\ d \in openDialogs
        /\ LockFreeU
        /\ e \in dialogWait
        /\ openDialogs' = openDialogs \ {d}
        /\ \/ /\ type = "LOCATION"
              /\ TRUE \in GrantResult
              /\ App!GrantAppPermission(e.token, "APPROXIMATELY_LOCATION", TRUE)
              /\ closing' = [comp |-> e, type |-> type]
              /\ UNCHANGED <<dialogWait, confirmed, saveVars>>
           \/ /\ type = "PASTE"
              /\ TRUE \in GrantResult
              /\ App!GrantAppPermission(e.token, "SECURE_PASTE", TRUE)
              /\ dialogWait' = dialogWait \ {e}
              /\ confirmed' = confirmed \cup {e}
              /\ UNCHANGED <<closing, saveVars>>
           \/ /\ FALSE \in GrantResult       \* no grant, or a DLP sandbox may not save
              /\ \/ /\ type = "LOCATION"
                    /\ App!GrantAppPermission(e.token, "APPROXIMATELY_LOCATION", FALSE)
                 \/ /\ type = "PASTE"
                    /\ App!GrantAppPermission(e.token, "SECURE_PASTE", FALSE)
                 \/ type = "SAVE" /\ UNCHANGED <<grantMap, held>>
              /\ dialogWait' = dialogWait \ {e}
              /\ UNCHANGED <<closing, confirmed, saveVars>>
           \/ /\ type = "SAVE"
              /\ Save!DelaySaveRevokePermission("dialog", e.token)
              /\ closing' = [comp |-> e, type |-> type]
              /\ UNCHANGED <<dialogWait, confirmed, grantMap, held>>
        /\ UNCHANGED <<procVars, observing, tableVars, exitVars, call, noting,
                       typeVars, exitTasks, running, revokeTasks, maliciousVars,
                       recordVars>>

GrantDialogWaitEntityEnd ==
    LET e == closing.comp
    IN  /\ closing # NoGrant
        /\ closing' = NoGrant
        /\ dialogWait' = dialogWait \ {e}
        /\ \/ /\ closing.type = "LOCATION"
              /\ TRUE \in GrantResult
              /\ App!GrantAppPermission(e.token, "LOCATION", TRUE)
              /\ confirmed' = confirmed \cup {e}
              /\ UNCHANGED saveVars
           \/ /\ closing.type = "LOCATION"
              /\ FALSE \in GrantResult
              /\ App!FailAndTakeBack(e.token, "LOCATION", "APPROXIMATELY_LOCATION")
              /\ UNCHANGED <<confirmed, saveVars>>
           \/ /\ closing.type = "SAVE"
              /\ Save!PushSaveTask("dialog")
              /\ confirmed' = confirmed \cup {e}
              /\ UNCHANGED <<grantMap, held>>
        /\ UNCHANGED <<procVars, observing, tableVars, exitVars, call,
                       openDialogs, noting, typeVars, exitTasks, running,
                       revokeTasks, maliciousVars, recordVars>>

\* SetFirstUseMap reads the type once more, without a lock, ...
ReadConfirmedType(e) ==
    /\ e \in confirmed
    /\ confirmed' = confirmed \ {e}
    /\ noting' = IF compType[e.id] = "SAVE" THEN noting \cup {e} ELSE noting
    /\ UNCHANGED <<procVars, observing, tableVars, exitVars, call, dialogWait,
                   openDialogs, closing, typeVars, exitTasks, running, appVars,
                   saveVars, maliciousVars, recordVars>>

\* ... and notes the first use of a save button under lock U.
SetFirstUseMap(e) ==
    /\ e \in noting
    /\ LockFreeU
    /\ noting' = noting \ {e}
    /\ Record!SetFirstUseMap(e.token)
    /\ UNCHANGED <<procVars, observing, tableVars, exitVars, call, dialogWait,
                   openDialogs, closing, confirmed, typeVars, exitTasks, running,
                   appVars, saveVars, maliciousVars>>
-----------------------------------------------------------------------------
(* The handler thread.  A task is first taken out of the queue, after which *)
(* it can no longer be cancelled, and then waits for its lock.             *)

DispatchExit ==
    /\ HandlerIdle
    /\ exitTasks > 0
    /\ exitTasks' = exitTasks - 1
    /\ running' = Exiting
    /\ UNCHANGED <<procVars, observing, tableVars, exitVars, call, dialogVars,
                   typeVars, appVars, saveVars, maliciousVars, recordVars>>

\* Only components count: a process without any does not hold the exit up.
IsCompExist == \E p \in Pid : compList[p] # {}

ExitSaProcess ==
    /\ running = Exiting
    /\ LockFreeC
    /\ running' = Idle
    /\ \/ IsCompExist /\ UNCHANGED exitVars
       \/ /\ ~IsCompExist
          /\ isSaExit' = TRUE
          /\ \E ok \in UnloadResult : service' = IF ok THEN "unloading" ELSE service
    /\ UNCHANGED <<procVars, observing, tableVars, call, dialogVars, typeVars,
                   exitTasks, appVars, saveVars, maliciousVars, recordVars>>

\* Environment: a call is over within 10 s, so a call that began before the
\* token went to the background is over when the revoke posted then is due.
CallsOutrunRevoke(t) ==
    \A c \in Caller : InFlight(c) /\ call[c].token = t => ~call[c].aged

DispatchRevoke(t) ==
    /\ HandlerIdle
    /\ CallsOutrunRevoke(t)
    /\ App!FireRevokeTask(t)
    /\ running' = Revoking(t)
    /\ UNCHANGED <<procVars, observing, tableVars, exitVars, call, dialogVars,
                   typeVars, exitTasks, grantMap, held, saveVars, maliciousVars,
                   recordVars>>

RevokeAll ==
    /\ running.task = "revoke"
    /\ running' = Idle
    /\ App!RevokeAppPermisionsImmediately({running.token})
    /\ UNCHANGED <<procVars, observing, tableVars, exitVars, call, dialogVars,
                   typeVars, exitTasks, revokeTasks, saveVars, maliciousVars,
                   recordVars>>

DispatchSaveRevoke ==
    /\ HandlerIdle
    /\ Save!FireSaveTask
    /\ UNCHANGED <<procVars, observing, tableVars, exitVars, call, dialogVars,
                   typeVars, exitTasks, running, appVars, maliciousVars,
                   recordVars>>

SaveRevoke ==
    /\ Save!RevokeTempSavePermissionCount
    /\ UNCHANGED <<procVars, observing, tableVars, exitVars, call, dialogVars,
                   typeVars, exitTasks, running, appVars, maliciousVars,
                   recordVars>>

SaveFirstUseRecord ==
    /\ HandlerIdle
    /\ LockFreeU
    /\ Record!SaveFirstUseRecord(Token)
    /\ UNCHANGED <<procVars, observing, tableVars, exitVars, call, dialogVars,
                   typeVars, exitTasks, running, appVars, saveVars,
                   maliciousVars>>

WriteCfgContent ==
    /\ Record!WriteCfgContent
    /\ UNCHANGED <<procVars, observing, tableVars, exitVars, call, dialogVars,
                   typeVars, exitTasks, running, appVars, saveVars,
                   maliciousVars>>

\* The system ability manager ends the service; waiting tasks are lost with it.
ServiceStops ==
    /\ service = "unloading"
    /\ service' = "stopped"
    /\ UNCHANGED <<procVars, observing, tableVars, isSaExit, call, dialogVars,
                   typeVars, exitTasks, running, appVars, saveVars, maliciousVars,
                   recordVars>>
-----------------------------------------------------------------------------
CallerBegins(c) ==
    \E p \in Pid :
        \/ BeginRegister(c, p)
        \/ BeginPreRegister(c, p)
        \/ BeginUpdateOrClick(c, p)
        \/ BeginUnregister(c, p)

CallerEnds(c) ==
    \/ AddSecurityComponentToList(c)
    \/ AddSecurityComponentProcess(c)
    \/ DeleteSecurityComponentFromList(c)
    \/ UpdateSecurityComponent(c)
    \/ RefuseClick(c)
    \/ FailClick(c)
    \/ AcceptClick(c)
    \/ ClickPaste(c)
    \/ ClickToast(c)
    \/ ClickSave(c)
    \/ ClickSaveEnd(c)
    \/ ClickDialog(c)

ObserverStep ==
    \/ IgnoreReport
    \/ NotifyProcessForeground
    \/ NotifyProcessBackground
    \/ RemoveDialogWaitEntitys
    \/ NotifyProcessDied

DialogStep ==
    \/ GrantDialogWaitEntityEnd
    \/ \E e \in confirmed : ReadConfirmedType(e)
    \/ \E e \in noting : SetFirstUseMap(e)

UserClosesDialog ==
    \E d \in openDialogs : CloseWithoutGrant(d) \/ GrantDialogWaitEntity(d)

HandlerStep ==
    \/ DispatchExit
    \/ ExitSaProcess
    \/ \E t \in Token : DispatchRevoke(t)
    \/ RevokeAll
    \/ DispatchSaveRevoke
    \/ SaveRevoke
    \/ SaveFirstUseRecord
    \/ WriteCfgContent

Next ==
    /\ service # "stopped"
    /\ \/ \E p \in Pid : ProcessStart(p) \/ AppMgrReports(p)
       \/ \E c \in Caller : CallerBegins(c) \/ CallerEnds(c)
       \/ ObserverStep
       \/ ExitWhenAppMgrDied
       \/ UserClosesDialog
       \/ DialogStep
       \/ HandlerStep
       \/ ServiceStops

(* Threads of the service go on, the handler thread runs every task that   *)
(* is due: its queue is in due order, so a task is not overtaken for ever  *)
(* by younger ones (strong fairness).  Applications, users and the two     *)
(* system services are free to do nothing.                                 *)
Running(A) == service # "stopped" /\ A

Fairness ==
    /\ \A c \in Caller : WF_vars(Running(CallerEnds(c)))
    /\ WF_vars(Running(ObserverStep))
    /\ WF_vars(Running(DialogStep))
    /\ WF_vars(Running(ExitSaProcess \/ RevokeAll \/ SaveRevoke \/ WriteCfgContent))
    /\ SF_vars(Running(DispatchExit))
    /\ \A t \in Token : SF_vars(Running(DispatchRevoke(t)))
    /\ SF_vars(Running(DispatchSaveRevoke))
    /\ SF_vars(Running(SaveFirstUseRecord))

SafeSpec == Init /\ [][Next]_vars
Spec == SafeSpec /\ Fairness
-----------------------------------------------------------------------------
(* Properties.                                                             *)

ProcTypeOK ==
    /\ live \in SUBSET Pid
    /\ procToken \in [Pid -> Token]
    /\ fgProc \in SUBSET Pid
    /\ observing \in {Silent} \cup
          [report : {"foreground", "background", "died", "clearing"}, pid : Pid]
    /\ appMgrAlive \in BOOLEAN

TableTypeOK ==
    /\ registered \in SUBSET Pid
    /\ entryToken \in [Pid -> Token]
    /\ compList \in [Pid -> SUBSET Entity]
    /\ isSaExit \in BOOLEAN
    /\ service \in {"running", "unloading", "stopped"}
    /\ call \in [Caller -> Call \cup {NoCall}]

DialogTypeOK ==
    /\ dialogWait \in SUBSET Entity
    /\ openDialogs \in SUBSET [comp : Entity, no : 1..MaxDialogs]
    /\ closing \in Grant \cup {NoGrant}
    /\ confirmed \in SUBSET Entity
    /\ noting \in SUBSET Entity

InfoTypeOK ==
    /\ compType \in [ScId -> Type]
    /\ retyped \in SUBSET Token

HandlerTypeOK ==
    /\ exitTasks \in Nat
    /\ running \in {Idle, Exiting} \cup {Revoking(t) : t \in Token}

TypeOK ==
    /\ ProcTypeOK
    /\ TableTypeOK
    /\ DialogTypeOK
    /\ InfoTypeOK
    /\ HandlerTypeOK
    /\ App!AppTypeOK
    /\ Save!SaveTypeOK
    /\ Malicious!MaliciousTypeOK
    /\ Record!RecordTypeOK

\* Once the service has decided to exit no component is there and none can
\* come: a registration that raced with the decision is refused (and retried
\* by the client) instead of being lost with the service.
NoComponentAfterExit == isSaExit => \A p \in Pid : compList[p] = {}

\* A service no process uses is on its way out: the exit task is waiting or
\* running, unless a process is just being added, which stopped it.
ExitArmedWhenIdle ==
    registered = {} =>
        \/ isSaExit
        \/ exitTasks > 0
        \/ running = Exiting
        \/ \E c \in Caller : InFlight(c) /\ call[c].kind = "preRegister"

\* A delayed revoke waits only for a token one of whose registered processes
\* is in the background, or is just being reported back in the foreground:
\* coming back cancels it and dying does not leave it behind.
NoStrayRevoke ==
    \A t \in Token : revokeTasks[t] > 0 =>
        \E p \in registered :
            /\ entryToken[p] = t
            /\ p \notin fgProc \/ observing = Report("foreground", p)

\* Only entities of registered processes wait for a dialog, so none is
\* granted for a process whose death has been handled.
WaitersRegistered == appMgrAlive => \A e \in dialogWait : e.pid \in registered

Granted(t) == held[t] # {} \/ Save!VerifySavePermission(t)

\* What is granted can be taken back: while the application manager lives, a
\* token that was granted anything, by a click or by a dialog, has a process in
\* componentMap_, whose next background or death report revokes it.
GrantsRevocable ==
    appMgrAlive =>
        \A t \in Token : Granted(t) => \E p \in registered : entryToken[p] = t

\* Nothing is saved before the user was asked once: a token with a live save
\* permission is in firstUseMap_, or the dialog that asked is about to put it
\* there, also when clicks and dialogs of it are granted in between.  It is true
\* of tokens whose components kept the type they were registered with: an update
\* between the click and the close makes a location dialog grant save, and one
\* between the grant and SetFirstUseMap leaves it unnoted.
FirstSaveAsks ==
    \A t \in Token \ retyped : Save!VerifySavePermission(t) =>
        Record!NoNeedNotify(t) \/ \E e \in confirmed \cup noting : e.token = t

\* A component is listed under the token it will be granted under.
EntitiesMatchEntry ==
    \A p \in Pid : \A e \in compList[p] : e.pid = p /\ e.token = entryToken[p]

\* A pid that is used again starts with a clean record: neither its place on
\* the list of malicious processes nor a started row of failures outlives the
\* process that earned it.
CleanStart ==
    \A p \in Pid \ live : p \notin maliciousAppList /\ maliciousFailCount[p] = 0

HeldIsRecorded == App!HeldIsRecorded
RecordReachesFile == Record!RecordReachesFile
CountMatchesDeque == Save!CountMatchesDeque
LeaseSafety == Save!LeaseSafety

Foreground(t) == \E p \in fgProc : procToken[p] = t

\* The tokens only one process can run under, if that is no root process.
SoleTokens ==
    {t \in Token : \A p, q \in Pid :
                      t \in TokensOf[p] \cap TokensOf[q] => p = q /\ p \notin RootPid}

\* The report that p left the foreground, or ended, is being handed over.
Leaving(p) ==
    observing \in {Report(kind, p) : kind \in {"background", "died", "clearing"}}

RevokeAhead(t) ==
    \/ revokeTasks[t] > 0
    \/ running = Revoking(t)
    \/ \E p \in registered : entryToken[p] = t /\ Leaving(p)

\* A permission of a token in the background no revoke is ahead of.
Escaped(t) == appMgrAlive /\ held[t] # {} /\ ~Foreground(t) /\ ~RevokeAhead(t)

\* A dialog opened for the token is closed, or its grant ends.
DialogCloses(t) ==
    \/ \E d \in openDialogs : d.comp.token = t /\ openDialogs' = openDialogs \ {d}
    \/ closing # NoGrant /\ closing.comp.token = t /\ closing' = NoGrant

\* A click of the token ends whose process was not in componentMap_ all the time
\* since its caller was checked: it named an id that was given to it later.
UntrackedClick(t) ==
    \E c \in Caller :
        /\ ClickAt(c, "checked")
        /\ call[c].token = t
        /\ ~call[c].tracked
        /\ Answer(c)

\* A permission comes to stay in the background in two ways only, both when
\* nothing was granted any more: the close of a dialog (the finding of
\* location_background), and a click that was let in before its process had an
\* entry, so that the report that it left the foreground was passed over.  No
\* other click, report, task or death lets one slip through, in particular no
\* click that is overtaken by the report on its process.
TwoWaysToEscape ==
    [][\A t \in SoleTokens :
          ~Escaped(t) /\ Escaped(t)' =>
              held[t] = {} /\ (DialogCloses(t) \/ UntrackedClick(t))]_vars


\* An application that leaves the foreground, or dies, and does not come
\* back loses what it was granted.
BackgroundEndsGrant ==
    \A t \in Token : (held[t] # {} /\ ~Foreground(t)) ~> (held[t] = {} \/ Foreground(t))

\* When no application runs the service ends.
ServiceExits == (live = {}) ~> (isSaExit \/ live # {})
=============================================================================
