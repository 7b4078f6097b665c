--------------------- MODULE SecCompManagerTypes_proofs ---------------------
(***************************************************************************)
(* Proofs about SecCompManager: what each family of steps leaves alone,    *)
(* that the state keeps its types, and that the service as a whole keeps   *)
(* what SavePermission and FirstUseRecord promise.                         *)
(***************************************************************************)
EXTENDS SecCompManager, SequenceTheorems, TLAPS

(* Frames: the variables the families of Next leave alone.                 *)

LEMMA CallerBeginsFrame ==
    ASSUME NEW c \in Caller, CallerBegins(c)
    PROVE  UNCHANGED <<procVars, observing, tableVars, exitVars, dialogVars, retyped, running,
                       appVars, saveVars, recordVars>>
BY DEF typeVars, CallerBegins, BeginRegister, BeginPreRegister, BeginUpdateOrClick, BeginUnregister

LEMMA CallerEndsFrame ==
    ASSUME NEW c \in Caller, CallerEnds(c)
    PROVE  UNCHANGED <<procVars, observing, exitVars, closing, confirmed, noting, running,
                       revokeTasks, recordVars>>
<1> USE DEF dialogVars, appVars
<1>1. CASE \/ AddSecurityComponentToList(c)
           \/ AddSecurityComponentProcess(c)
           \/ DeleteSecurityComponentFromList(c)
           \/ UpdateSecurityComponent(c)
  BY <1>1 DEF AddSecurityComponentToList, AddSecurityComponentProcess,
              DeleteSecurityComponentFromList, UpdateSecurityComponent
<1>2. CASE RefuseClick(c) \/ FailClick(c) \/ AcceptClick(c) \/ ClickPaste(c)
  BY <1>2 DEF RefuseClick, FailClick, AcceptClick, ClickPaste
<1>3. CASE ClickToast(c) \/ ClickSave(c) \/ ClickSaveEnd(c) \/ ClickDialog(c)
  BY <1>3 DEF ClickToast, ClickSave, ClickSaveEnd, ClickDialog
<1> QED
  BY <1>1, <1>2, <1>3 DEF CallerEnds

LEMMA ObserverFrame ==
    ASSUME ObserverStep
    PROVE  UNCHANGED <<procVars, entryToken, exitVars, openDialogs, closing, confirmed, noting,
                       typeVars, running, maliciousVars, recordVars>>
<1> USE DEF tableVars, dialogVars
<1>1. CASE IgnoreReport \/ NotifyProcessForeground \/ NotifyProcessBackground
  BY <1>1 DEF IgnoreReport, NotifyProcessForeground, NotifyProcessBackground
<1>2. CASE RemoveDialogWaitEntitys \/ NotifyProcessDied
  BY <1>2 DEF RemoveDialogWaitEntitys, NotifyProcessDied
<1> QED
  BY <1>1, <1>2 DEF ObserverStep

LEMMA UserClosesFrame ==
    ASSUME UserClosesDialog
    PROVE  UNCHANGED <<procVars, observing, tableVars, exitVars, call, noting, typeVars,
                       exitTasks, running, revokeTasks, maliciousVars, recordVars>>
BY DEF UserClosesDialog, CloseWithoutGrant, GrantDialogWaitEntity, dialogVars, appVars

LEMMA DialogFrame ==
    ASSUME DialogStep
    PROVE  UNCHANGED <<procVars, observing, tableVars, exitVars, call, openDialogs, typeVars,
                       exitTasks, running, revokeTasks, maliciousVars>>
BY DEF DialogStep, GrantDialogWaitEntityEnd, ReadConfirmedType, SetFirstUseMap, dialogVars,
       appVars

LEMMA HandlerFrame ==
    ASSUME HandlerStep
    PROVE  UNCHANGED <<procVars, observing, tableVars, call, dialogVars, typeVars,
                       maliciousVars>>
<1>1. CASE DispatchExit \/ ExitSaProcess
  BY <1>1 DEF DispatchExit, ExitSaProcess
<1>2. CASE RevokeAll \/ \E t \in Token : DispatchRevoke(t)
  BY <1>2 DEF RevokeAll, DispatchRevoke
<1>3. CASE DispatchSaveRevoke \/ SaveRevoke \/ SaveFirstUseRecord \/ WriteCfgContent
  BY <1>3 DEF DispatchSaveRevoke, SaveRevoke, SaveFirstUseRecord, WriteCfgContent
<1> QED
  BY <1>1, <1>2, <1>3 DEF HandlerStep
-----------------------------------------------------------------------------
(* Types.                                                                  *)

\* A registration has a component to add, a click whose report was accepted the
\* one it found.
CallsName ==
    \A c \in Caller :
        InFlight(c) /\ (call[c].kind = "register" \/ call[c].stage # "begun")
            => call[c].comp \in Entity

TypesInv == TypeOK /\ CallsName

LEMMA InFlightCall ==
    ASSUME TypeOK, NEW c \in Caller, InFlight(c)
    PROVE  /\ call[c] \in Call
           /\ call[c].pid \in Pid /\ call[c].token \in Token
           /\ call[c].kind \in CallKind
BY ManagerAssumption DEF TypeOK, TableTypeOK, InFlight, Call

\* What a call finds is a component.
LEMMA NamedEntity ==
    ASSUME TypeOK, NEW c \in Caller, InFlight(c), NEW e \in Named(c)
    PROVE  /\ e \in Entity /\ e.id \in ScId /\ e.token \in Token
           /\ call[c].pid \in Pid
<1>1. call[c].pid \in Pid
  BY InFlightCall
<1>2. e \in Entity
  BY <1>1 DEF Named, TypeOK, TableTypeOK
<1> QED
  BY <1>1, <1>2 DEF Entity

\* The component of a click that goes on.
LEMMA ClickEntity ==
    ASSUME TypeOK, CallsName, NEW c \in Caller, NEW stage, ClickAt(c, stage), stage # "begun"
    PROVE  /\ call[c].comp \in Entity
           /\ call[c].comp.token \in Token
           /\ call[c].comp.id \in ScId
<1>1. call[c].comp \in Entity
  BY DEF CallsName, ClickAt
<1> QED
  BY <1>1 DEF Entity

LEMMA ObservedPid ==
    ASSUME TypeOK, observing # Silent
    PROVE  observing.pid \in Pid /\ entryToken[observing.pid] \in Token
BY DEF TypeOK, ProcTypeOK, TableTypeOK

LEMMA ProcTyped == TypeOK /\ [Next]_vars => ProcTypeOK'
<1> SUFFICES ASSUME TypeOK, [Next]_vars
             PROVE  ProcTypeOK'
  OBVIOUS
<1>0. ProcTypeOK
  BY DEF TypeOK
<1> USE DEF procVars
<1>1. ASSUME UNCHANGED <<procVars, observing>>
      PROVE  ProcTypeOK'
  BY <1>0, <1>1 DEF ProcTypeOK
<1>2. ASSUME NEW p \in Pid, ProcessStart(p)
      PROVE  ProcTypeOK'
  <2>1. TokensOf[p] \subseteq Token
    BY ManagerAssumption
  <2> QED
    BY <1>0, <1>2, <2>1 DEF ProcessStart, ProcTypeOK
<1>3. ASSUME NEW p \in Pid, AppMgrReports(p)
      PROVE  ProcTypeOK'
  <2>1. \E kind \in {"foreground", "background", "died"} : observing' = Report(kind, p)
    BY <1>3 DEF AppMgrReports, OnProcessForeground, OnProcessBackground, OnProcessDied,
                OnAppCacheStateChanged
  <2>2. observing' \in {Silent} \cup
           [report : {"foreground", "background", "died", "clearing"}, pid : Pid]
    BY <2>1 DEF Report
  <2>3. live' \in SUBSET Pid /\ fgProc' \in SUBSET Pid
    BY <1>0, <1>3 DEF AppMgrReports, OnProcessForeground, OnProcessBackground, OnProcessDied,
                      OnAppCacheStateChanged, ProcTypeOK
  <2>4. UNCHANGED <<procToken, appMgrAlive>>
    BY <1>3 DEF AppMgrReports
  <2> QED
    BY <1>0, <2>2, <2>3, <2>4 DEF ProcTypeOK
<1>4. CASE ObserverStep
  <2>1. observing' = Silent \/ observing' = Report("clearing", observing.pid)
    BY <1>4 DEF ObserverStep, IgnoreReport, NotifyProcessForeground, NotifyProcessBackground,
                RemoveDialogWaitEntitys, NotifyProcessDied
  <2>2. observing # Silent
    BY <1>4 DEF ObserverStep, IgnoreReport, NotifyProcessForeground, NotifyProcessBackground,
                RemoveDialogWaitEntitys, NotifyProcessDied
  <2>3. observing' \in {Silent} \cup
           [report : {"foreground", "background", "died", "clearing"}, pid : Pid]
    BY <2>1, <2>2, ObservedPid DEF Report
  <2> QED
    BY <1>0, <1>4, <2>3, ObserverFrame DEF ProcTypeOK
<1>5. CASE ExitWhenAppMgrDied
  BY <1>0, <1>5 DEF ExitWhenAppMgrDied, ProcTypeOK
<1>6. CASE ServiceStops
  BY <1>1, <1>6 DEF ServiceStops
<1>7. CASE UNCHANGED vars
  BY <1>1, <1>7 DEF vars
<1> QED
  BY <1>1, <1>2, <1>3, <1>4, <1>5, <1>6, <1>7, CallerBeginsFrame, CallerEndsFrame,
     UserClosesFrame, DialogFrame, HandlerFrame DEF Next

LEMMA DialogTyped == TypesInv /\ [Next]_vars => DialogTypeOK'
<1> SUFFICES ASSUME TypeOK, CallsName, [Next]_vars
             PROVE  DialogTypeOK'
  BY DEF TypesInv
<1>0. DialogTypeOK
  BY DEF TypeOK
<1> USE DEF dialogVars
<1>1. ASSUME UNCHANGED dialogVars
      PROVE  DialogTypeOK'
  BY <1>0, <1>1 DEF DialogTypeOK
<1>2. ASSUME NEW c \in Caller, CallerEnds(c)
      PROVE  DialogTypeOK'
  <2>1. CASE ClickDialog(c)
    <3>1. call[c].comp \in Entity
      BY <2>1, ClickEntity DEF ClickDialog
    <3>2. dialogWait' \in SUBSET Entity
      BY <1>0, <2>1, <3>1 DEF ClickDialog, DialogTypeOK
    <3>3. openDialogs' \in SUBSET [comp : Entity, no : 1..MaxDialogs]
      BY <1>0, <2>1, <3>1 DEF ClickDialog, DialogTypeOK
    <3> QED
      BY <1>0, <2>1, <3>2, <3>3 DEF ClickDialog, DialogTypeOK
  <2>2. CASE ~ClickDialog(c)
    BY <1>1, <1>2, <2>2 DEF CallerEnds, AddSecurityComponentToList, AddSecurityComponentProcess,
       DeleteSecurityComponentFromList, UpdateSecurityComponent, RefuseClick, FailClick,
       AcceptClick, ClickPaste, ClickToast, ClickSave, ClickSaveEnd
  <2> QED
    BY <2>1, <2>2
<1>3. CASE UserClosesDialog
  <2>1. PICK d \in openDialogs : CloseWithoutGrant(d) \/ GrantDialogWaitEntity(d)
    BY <1>3 DEF UserClosesDialog
  <2>2. d.comp \in Entity
    BY <1>0 DEF DialogTypeOK
  <2>3. closing' \in Grant \cup {NoGrant}
    <3>1. [comp |-> d.comp, type |-> "LOCATION"] \in Grant
      BY <2>2 DEF Grant
    <3>2. [comp |-> d.comp, type |-> "SAVE"] \in Grant
      BY <2>2 DEF Grant
    <3>3. \/ UNCHANGED closing
          \/ closing' = [comp |-> d.comp, type |-> "LOCATION"]
          \/ closing' = [comp |-> d.comp, type |-> "SAVE"]
      BY <2>1 DEF CloseWithoutGrant, GrantDialogWaitEntity
    <3> QED
      BY <1>0, <3>1, <3>2, <3>3 DEF DialogTypeOK
  <2>4. dialogWait' \subseteq dialogWait /\ openDialogs' \subseteq openDialogs
    BY <2>1 DEF CloseWithoutGrant, GrantDialogWaitEntity
  <2>5. confirmed' \in SUBSET Entity /\ UNCHANGED noting
    BY <1>0, <2>1, <2>2 DEF CloseWithoutGrant, GrantDialogWaitEntity, DialogTypeOK
  <2> QED
    BY <1>0, <2>3, <2>4, <2>5 DEF DialogTypeOK
<1>4. CASE DialogStep
  <2>1. CASE GrantDialogWaitEntityEnd
    <3>1. closing.comp \in Entity
      BY <1>0, <2>1 DEF GrantDialogWaitEntityEnd, DialogTypeOK, Grant
    <3>2. confirmed' \in SUBSET Entity /\ closing' = NoGrant
      BY <1>0, <2>1, <3>1 DEF GrantDialogWaitEntityEnd, DialogTypeOK
    <3>3. dialogWait' \subseteq dialogWait /\ UNCHANGED <<openDialogs, noting>>
      BY <2>1 DEF GrantDialogWaitEntityEnd
    <3> QED
      BY <1>0, <3>2, <3>3 DEF DialogTypeOK
  <2>2. ASSUME NEW e \in confirmed, ReadConfirmedType(e)
        PROVE  DialogTypeOK'
    BY <1>0, <2>2 DEF ReadConfirmedType, DialogTypeOK
  <2>3. ASSUME NEW e \in noting, SetFirstUseMap(e)
        PROVE  DialogTypeOK'
    BY <1>0, <2>3 DEF SetFirstUseMap, DialogTypeOK
  <2> QED
    BY <1>4, <2>1, <2>2, <2>3 DEF DialogStep
<1>5. CASE ObserverStep
  <2>1. dialogWait' \subseteq dialogWait
    BY <1>5 DEF ObserverStep, IgnoreReport, NotifyProcessForeground, NotifyProcessBackground,
                RemoveDialogWaitEntitys, NotifyProcessDied
  <2> QED
    BY <1>0, <1>5, <2>1, ObserverFrame DEF DialogTypeOK
<1>6. CASE ExitWhenAppMgrDied \/ ServiceStops \/ \E p \in Pid : ProcessStart(p) \/ AppMgrReports(p)
  BY <1>1, <1>6 DEF ExitWhenAppMgrDied, ServiceStops, ProcessStart, AppMgrReports
<1>7. CASE UNCHANGED vars
  BY <1>1, <1>7 DEF vars
<1> QED
  BY <1>1, <1>2, <1>3, <1>4, <1>5, <1>6, <1>7, CallerBeginsFrame, HandlerFrame DEF Next

LEMMA InfoTyped == TypeOK /\ [Next]_vars => InfoTypeOK'
<1> SUFFICES ASSUME TypeOK, [Next]_vars
             PROVE  InfoTypeOK'
  OBVIOUS
<1>0. InfoTypeOK
  BY DEF TypeOK
<1> USE DEF typeVars
<1>1. ASSUME UNCHANGED typeVars
      PROVE  InfoTypeOK'
  BY <1>0, <1>1 DEF InfoTypeOK
<1>2. ASSUME NEW c \in Caller, NEW e \in Named(c), InFlight(c), NEW ty \in Type, StoreInfo(e, ty)
      PROVE  InfoTypeOK'
  <2>1. e.id \in ScId /\ e.token \in Token
    BY <1>2, NamedEntity
  <2> QED
    BY <1>0, <1>2, <2>1 DEF StoreInfo, InfoTypeOK
<1>3. ASSUME NEW c \in Caller, CallerEnds(c)
      PROVE  InfoTypeOK'
  <2>1. CASE UpdateSecurityComponent(c)
    BY <1>1, <1>2, <2>1 DEF UpdateSecurityComponent, Enters
  <2>2. CASE FailClick(c)
    BY <1>1, <1>2, <2>2 DEF FailClick, Enters
  <2>3. CASE AcceptClick(c)
    BY <1>2, <2>3 DEF AcceptClick, Enters
  <2>4. CASE \/ AddSecurityComponentToList(c) \/ AddSecurityComponentProcess(c)
             \/ DeleteSecurityComponentFromList(c) \/ RefuseClick(c)
    BY <1>1, <2>4 DEF AddSecurityComponentToList, AddSecurityComponentProcess,
       DeleteSecurityComponentFromList, RefuseClick
  <2>5. CASE \/ ClickPaste(c) \/ ClickToast(c) \/ ClickSave(c) \/ ClickSaveEnd(c)
             \/ ClickDialog(c)
    BY <1>1, <2>5 DEF ClickPaste, ClickToast, ClickSave, ClickSaveEnd, ClickDialog
  <2> QED
    BY <1>3, <2>1, <2>2, <2>3, <2>4, <2>5 DEF CallerEnds
<1>4. ASSUME NEW c \in Caller, CallerBegins(c)
      PROVE  InfoTypeOK'
  <2>1. UNCHANGED retyped
    BY <1>4, CallerBeginsFrame
  <2>2. UNCHANGED compType \/ \E id \in ScId, ty \in Type : compType' = [compType EXCEPT ![id] = ty]
    BY <1>4 DEF CallerBegins, BeginRegister, BeginPreRegister, BeginUpdateOrClick, BeginUnregister
  <2> QED
    BY <1>0, <2>1, <2>2 DEF InfoTypeOK
<1>5. CASE ExitWhenAppMgrDied \/ ServiceStops \/ \E p \in Pid : ProcessStart(p) \/ AppMgrReports(p)
  BY <1>1, <1>5 DEF ExitWhenAppMgrDied, ServiceStops, ProcessStart, AppMgrReports
<1>6. CASE UNCHANGED vars
  BY <1>1, <1>6 DEF vars
<1> QED
  BY <1>1, <1>3, <1>4, <1>5, <1>6, ObserverFrame, UserClosesFrame, DialogFrame, HandlerFrame
     DEF Next

LEMMA HandlerTyped == TypeOK /\ [Next]_vars => HandlerTypeOK'
<1> SUFFICES ASSUME TypeOK, [Next]_vars
             PROVE  HandlerTypeOK'
  OBVIOUS
<1>0. HandlerTypeOK
  BY DEF TypeOK
<1> USE DEF DelayExitStart, DelayExitStop
<1>1. ASSUME UNCHANGED running, exitTasks' \in {exitTasks, 0, exitTasks + 1}
      PROVE  HandlerTypeOK'
  BY <1>0, <1>1 DEF HandlerTypeOK
<1>2. ASSUME NEW c \in Caller, CallerBegins(c) \/ CallerEnds(c)
      PROVE  exitTasks' \in {exitTasks, 0, exitTasks + 1}
  <2>2. CASE CallerBegins(c)
    BY <2>2 DEF CallerBegins, BeginRegister, BeginPreRegister, BeginUpdateOrClick,
       BeginUnregister
  <2>3. CASE \/ AddSecurityComponentToList(c)
             \/ AddSecurityComponentProcess(c)
             \/ DeleteSecurityComponentFromList(c)
             \/ UpdateSecurityComponent(c)
    BY <2>3 DEF AddSecurityComponentToList, AddSecurityComponentProcess,
       DeleteSecurityComponentFromList, UpdateSecurityComponent
  <2>4. CASE RefuseClick(c) \/ FailClick(c) \/ AcceptClick(c) \/ ClickPaste(c)
    BY <2>4 DEF RefuseClick, FailClick, AcceptClick, ClickPaste
  <2>5. CASE ClickToast(c) \/ ClickSave(c) \/ ClickSaveEnd(c) \/ ClickDialog(c)
    BY <2>5 DEF ClickToast, ClickSave, ClickSaveEnd, ClickDialog
  <2> QED
    BY <1>2, <2>2, <2>3, <2>4, <2>5 DEF CallerEnds
<1>3. CASE ObserverStep
  <2>1. CASE IgnoreReport \/ NotifyProcessForeground \/ NotifyProcessBackground
    BY <1>1, <2>1 DEF IgnoreReport, NotifyProcessForeground, NotifyProcessBackground
  <2>2. CASE RemoveDialogWaitEntitys \/ NotifyProcessDied
    BY <1>1, <2>2 DEF RemoveDialogWaitEntitys, NotifyProcessDied
  <2> QED
    BY <1>3, <2>1, <2>2 DEF ObserverStep
<1>4. CASE HandlerStep
  <2>1. CASE DispatchExit \/ ExitSaProcess
    BY <1>0, <2>1 DEF DispatchExit, ExitSaProcess, HandlerTypeOK
  <2>2. CASE RevokeAll \/ \E t \in Token : DispatchRevoke(t)
    BY <1>0, <2>2 DEF RevokeAll, DispatchRevoke, HandlerTypeOK
  <2>3. CASE DispatchSaveRevoke \/ SaveRevoke \/ SaveFirstUseRecord \/ WriteCfgContent
    BY <1>1, <2>3 DEF DispatchSaveRevoke, SaveRevoke, SaveFirstUseRecord, WriteCfgContent
  <2> QED
    BY <1>4, <2>1, <2>2, <2>3 DEF HandlerStep
<1>5. CASE ExitWhenAppMgrDied \/ ServiceStops \/ \E p \in Pid : ProcessStart(p) \/ AppMgrReports(p)
  BY <1>1, <1>5 DEF ExitWhenAppMgrDied, ServiceStops, ProcessStart, AppMgrReports
<1>6. CASE UNCHANGED vars
  BY <1>1, <1>6 DEF vars
<1> QED
  BY <1>1, <1>2, <1>3, <1>4, <1>5, <1>6, CallerBeginsFrame, CallerEndsFrame, UserClosesFrame,
     DialogFrame DEF Next

\* What may happen to the call of a thread.
LEMMA CallStep ==
    ASSUME TypeOK, CallsName, [Next]_vars
    PROVE  call' \in [Caller -> Call \cup {NoCall}] /\ CallsName'
<1> DEFINE CallOK == call' \in [Caller -> Call \cup {NoCall}] /\ CallsName'
<1>0. call \in [Caller -> Call \cup {NoCall}]
  BY DEF TypeOK, TableTypeOK
<1>1. ASSUME UNCHANGED call
      PROVE  CallOK
  BY <1>0, <1>1 DEF CallsName, InFlight
<1>2. ASSUME NEW c \in Caller, Answer(c)
      PROVE  CallOK
  BY <1>0, <1>2 DEF Answer, CallsName, InFlight
<1>3. ASSUME NEW c \in Caller, NEW kind, NEW p \in Pid, NEW id \in ScId \cup {INVALID_SC_ID},
             NEW comp \in Entity \cup {NoEntity}, Begin(c, kind, p, id, comp),
             kind = "register" => comp \in Entity
      PROVE  CallOK
  <2> DEFINE new == [kind |-> kind, stage |-> "begun", pid |-> p, token |-> procToken[p],
                     id |-> id, comp |-> comp, tracked |-> p \in registered, aged |-> FALSE]
  <2>1. kind \in Calls /\ call' = [call EXCEPT ![c] = new]
    BY <1>3 DEF Begin
  <2>2. procToken[p] \in Token /\ (p \in registered) \in BOOLEAN
    BY DEF TypeOK, ProcTypeOK
  <2>3. new \in Call /\ new.kind = kind /\ new.comp = comp /\ new.stage = "begun"
    BY <2>1, <2>2 DEF Call, Stage
  <2> HIDE DEF new
  <2> QED
    BY <1>0, <1>3, <2>1, <2>3 DEF CallsName, InFlight
<1>4. ASSUME NEW c \in Caller, CallerBegins(c)
      PROVE  CallOK
  <2>1. PICK p \in Pid : \/ BeginRegister(c, p) \/ BeginPreRegister(c, p)
                         \/ BeginUpdateOrClick(c, p) \/ BeginUnregister(c, p)
    BY <1>4 DEF CallerBegins
  <2>2. CASE BeginRegister(c, p)
    <3>1. procToken[p] \in Token
      BY DEF TypeOK, ProcTypeOK
    <3>2. ASSUME NEW id \in ScId,
                 Begin(c, "register", p, INVALID_SC_ID,
                       [id |-> id, pid |-> p, token |-> procToken[p]])
          PROVE  CallOK
      <4>1. [id |-> id, pid |-> p, token |-> procToken[p]] \in Entity
        BY <3>1 DEF Entity
      <4> QED
        BY <1>3, <3>2, <4>1
    <3> QED
      BY <1>1, <2>2, <3>2 DEF BeginRegister
  <2>3. CASE BeginPreRegister(c, p)
    BY <1>3, <2>3 DEF BeginPreRegister
  <2>5. CASE BeginUpdateOrClick(c, p)
    BY <1>3, <2>5 DEF BeginUpdateOrClick
  <2>6. CASE BeginUnregister(c, p)
    BY <1>3, <2>6 DEF BeginUnregister
  <2> QED
    BY <2>1, <2>2, <2>3, <2>5, <2>6
<1>5. ASSUME NEW c \in Caller, CallerEnds(c)
      PROVE  CallOK
  <2>1. ASSUME NEW e \in Entity, NEW stage \in Stage, InFlight(c),
               call' = [call EXCEPT ![c].stage = stage, ![c].comp = e]
        PROVE  CallOK
    <3> DEFINE new == [call[c] EXCEPT !.stage = stage, !.comp = e]
    <3>1. call[c] \in Call
      BY <2>1, InFlightCall
    <3>2. call' = [call EXCEPT ![c] = new]
      BY <1>0, <2>1
    <3>3. new \in Call /\ new.comp \in Entity
      BY <3>1 DEF Call
    <3> HIDE DEF new
    <3> QED
      BY <1>0, <3>2, <3>3 DEF CallsName, InFlight
  <2>2. ASSUME NEW stage \in Stage, InFlight(c), call[c].comp \in Entity,
               call' = [call EXCEPT ![c].stage = stage]
        PROVE  CallOK
    <3> DEFINE new == [call[c] EXCEPT !.stage = stage]
    <3>1. call[c] \in Call
      BY <2>2, InFlightCall
    <3>2. call' = [call EXCEPT ![c] = new]
      BY <1>0, <2>2
    <3>3. new \in Call /\ new.comp \in Entity
      BY <2>2, <3>1 DEF Call
    <3> HIDE DEF new
    <3> QED
      BY <1>0, <3>2, <3>3 DEF CallsName, InFlight
  <2>3. CASE AcceptClick(c)
    <3>1. InFlight(c)
      BY <2>3 DEF AcceptClick, Enters
    <3>2. PICK e \in Named(c) : call' = [call EXCEPT ![c].stage = "checked", ![c].comp = e]
      BY <2>3 DEF AcceptClick
    <3>3. e \in Entity
      BY <3>1, NamedEntity
    <3> QED
      BY <2>1, <3>1, <3>2, <3>3 DEF Stage
  <2>4. CASE ClickToast(c)
    <3>1. InFlight(c) /\ call[c].comp \in Entity /\ call' = [call EXCEPT ![c].stage = "asked"]
      BY <2>4, ClickEntity DEF ClickToast, ClickAt
    <3> QED
      BY <2>2, <3>1 DEF Stage
  <2>5. CASE ClickSave(c)
    <3>1. InFlight(c) /\ call[c].comp \in Entity /\ call' = [call EXCEPT ![c].stage = "granting"]
      BY <2>5, ClickEntity DEF ClickSave, ClickAt
    <3> QED
      BY <2>2, <3>1 DEF Stage
  <2>6. CASE ~AcceptClick(c) /\ ~ClickToast(c) /\ ~ClickSave(c)
    <3>1. Answer(c)
      BY <1>5, <2>6 DEF CallerEnds, AddSecurityComponentToList, AddSecurityComponentProcess,
         DeleteSecurityComponentFromList, UpdateSecurityComponent, RefuseClick, FailClick,
         ClickPaste, ClickSaveEnd, ClickDialog
    <3> QED
      BY <1>2, <3>1
  <2> QED
    BY <2>3, <2>4, <2>5, <2>6
<1>6. CASE ObserverStep
  <2>1. ASSUME call' = [c \in Caller |-> call'[c]],
               \A c \in Caller :
                  \/ call'[c] = call[c]
                  \/ InFlight(c) /\ call'[c] = [call[c] EXCEPT !.aged = TRUE]
                  \/ InFlight(c) /\ call'[c] = [call[c] EXCEPT !.tracked = FALSE]
        PROVE  CallOK
    <3>1. ASSUME NEW c \in Caller, InFlight(c)
          PROVE  /\ [call[c] EXCEPT !.aged = TRUE] \in Call
                 /\ [call[c] EXCEPT !.aged = TRUE].kind = call[c].kind
                 /\ [call[c] EXCEPT !.aged = TRUE].stage = call[c].stage
                 /\ [call[c] EXCEPT !.aged = TRUE].comp = call[c].comp
      BY <3>1, InFlightCall DEF Call
    <3>2. ASSUME NEW c \in Caller, InFlight(c)
          PROVE  /\ [call[c] EXCEPT !.tracked = FALSE] \in Call
                 /\ [call[c] EXCEPT !.tracked = FALSE].kind = call[c].kind
                 /\ [call[c] EXCEPT !.tracked = FALSE].stage = call[c].stage
                 /\ [call[c] EXCEPT !.tracked = FALSE].comp = call[c].comp
      BY <3>2, InFlightCall DEF Call
    <3>3. \A c \in Caller : call'[c] \in Call \cup {NoCall}
      BY <1>0, <2>1, <3>1, <3>2
    <3>4. ASSUME NEW c \in Caller, InFlight(c)',
                 call'[c].kind = "register" \/ call'[c].stage # "begun"
          PROVE  call'[c].comp \in Entity
      <4>1. InFlight(c)
        BY <2>1, <3>4 DEF InFlight
      <4>2. /\ call'[c].kind = call[c].kind
            /\ call'[c].stage = call[c].stage
            /\ call'[c].comp = call[c].comp
        BY <2>1, <3>1, <3>2, <4>1
      <4> QED
        BY <3>4, <4>1, <4>2 DEF CallsName
    <3> QED
      BY <2>1, <3>3, <3>4 DEF CallsName
  <2>2. CASE NotifyProcessBackground
    <3>1. \A c \in Caller : \/ call'[c] = call[c]
                            \/ InFlight(c) /\ call'[c] = [call[c] EXCEPT !.aged = TRUE]
      BY <2>2 DEF NotifyProcessBackground
    <3>2. call' = [c \in Caller |-> call'[c]]
      BY <2>2 DEF NotifyProcessBackground
    <3> QED
      BY <2>1, <3>1, <3>2
  <2>3. CASE NotifyProcessDied
    <3>1. \A c \in Caller : \/ call'[c] = call[c]
                            \/ InFlight(c) /\ call'[c] = [call[c] EXCEPT !.tracked = FALSE]
      BY <2>3 DEF NotifyProcessDied, Untrack
    <3>2. call' = [c \in Caller |-> call'[c]]
      BY <2>3 DEF NotifyProcessDied, Untrack
    <3> QED
      BY <2>1, <3>1, <3>2
  <2>4. CASE ~NotifyProcessBackground /\ ~NotifyProcessDied
    BY <1>1, <1>6, <2>4 DEF ObserverStep, IgnoreReport, NotifyProcessForeground,
       RemoveDialogWaitEntitys
  <2> QED
    BY <2>2, <2>3, <2>4
<1>7. CASE ExitWhenAppMgrDied \/ ServiceStops \/ \E p \in Pid : ProcessStart(p) \/ AppMgrReports(p)
  BY <1>1, <1>7 DEF ExitWhenAppMgrDied, ServiceStops, ProcessStart, AppMgrReports
<1>8. CASE UNCHANGED vars
  BY <1>1, <1>8 DEF vars
<1> QED
  BY <1>1, <1>4, <1>5, <1>6, <1>7, <1>8, UserClosesFrame, DialogFrame, HandlerFrame DEF Next

LEMMA TableTyped == TypesInv /\ [Next]_vars => TableTypeOK'
<1> SUFFICES ASSUME TypeOK, CallsName, [Next]_vars
             PROVE  TableTypeOK'
  BY DEF TypesInv
<1>0. TableTypeOK /\ call' \in [Caller -> Call \cup {NoCall}]
  BY CallStep DEF TypeOK
<1> USE DEF tableVars, exitVars
<1>1. ASSUME UNCHANGED <<registered, entryToken, compList, isSaExit, service>>
      PROVE  TableTypeOK'
  BY <1>0, <1>1 DEF TableTypeOK
<1>2. ASSUME NEW c \in Caller, CallerEnds(c)
      PROVE  TableTypeOK'
  <2>1. UNCHANGED exitVars
    BY <1>2, CallerEndsFrame
  <2>2. CASE AddSecurityComponentToList(c)
    <3>1. /\ call[c].comp \in Entity /\ call[c].pid \in Pid /\ call[c].token \in Token
      BY <2>2, InFlightCall DEF AddSecurityComponentToList, Enters, CallsName
    <3> QED
      BY <1>0, <2>1, <2>2, <3>1 DEF AddSecurityComponentToList, TableTypeOK
  <2>3. CASE AddSecurityComponentProcess(c)
    <3>1. call[c].pid \in Pid /\ call[c].token \in Token
      BY <2>3, InFlightCall DEF AddSecurityComponentProcess, Enters
    <3> QED
      BY <1>0, <2>1, <2>3, <3>1 DEF AddSecurityComponentProcess, TableTypeOK
  <2>4. CASE DeleteSecurityComponentFromList(c)
    BY <1>0, <2>1, <2>4 DEF DeleteSecurityComponentFromList, TableTypeOK
  <2>5. CASE \/ UpdateSecurityComponent(c) \/ RefuseClick(c) \/ FailClick(c)
             \/ AcceptClick(c) \/ ClickPaste(c)
    BY <1>1, <2>5 DEF UpdateSecurityComponent, RefuseClick, FailClick, AcceptClick, ClickPaste
  <2>6. CASE ClickToast(c) \/ ClickSave(c) \/ ClickSaveEnd(c) \/ ClickDialog(c)
    BY <1>1, <2>6 DEF ClickToast, ClickSave, ClickSaveEnd, ClickDialog
  <2> QED
    BY <1>2, <2>2, <2>3, <2>4, <2>5, <2>6 DEF CallerEnds
<1>3. CASE ObserverStep
  <2>1. UNCHANGED <<entryToken, exitVars>>
    BY <1>3, ObserverFrame
  <2>2. CASE NotifyProcessDied
    BY <1>0, <2>1, <2>2 DEF NotifyProcessDied, TableTypeOK
  <2>3. CASE ~NotifyProcessDied
    BY <1>1, <1>3, <2>3 DEF ObserverStep, IgnoreReport, NotifyProcessForeground,
       NotifyProcessBackground, RemoveDialogWaitEntitys
  <2> QED
    BY <2>2, <2>3
<1>4. CASE ExitWhenAppMgrDied
  BY <1>0, <1>4 DEF ExitWhenAppMgrDied, TableTypeOK
<1>5. CASE HandlerStep
  <2>1. CASE ExitSaProcess
    BY <1>0, <2>1 DEF ExitSaProcess, TableTypeOK
  <2>2. CASE ~ExitSaProcess
    BY <1>1, <1>5, <2>2 DEF HandlerStep, DispatchExit, DispatchRevoke, RevokeAll,
       DispatchSaveRevoke, SaveRevoke, SaveFirstUseRecord, WriteCfgContent
  <2> QED
    BY <2>1, <2>2
<1>6. CASE ServiceStops
  BY <1>0, <1>6 DEF ServiceStops, TableTypeOK
<1>7. CASE \E p \in Pid : ProcessStart(p) \/ AppMgrReports(p)
  BY <1>1, <1>7 DEF ProcessStart, AppMgrReports
<1>8. CASE UNCHANGED vars
  BY <1>1, <1>8 DEF vars
<1> QED
  BY <1>1, <1>2, <1>3, <1>4, <1>5, <1>6, <1>7, <1>8, CallerBeginsFrame, UserClosesFrame,
     DialogFrame DEF Next
-----------------------------------------------------------------------------
(* The steps of the service as steps of the parts modelled on their own.   *)

AppGrants ==
    \E t \in Token, perm \in App!Perm :
        \/ \E ok \in BOOLEAN : App!GrantAppPermission(t, perm, ok)
        \/ App!FailAndTakeBack(t, "LOCATION", "APPROXIMATELY_LOCATION")

AppTasks ==
    \E t \in Token :
        \/ App!RevokeAppPermisionsDelayed(t)
        \/ App!CancelAppRevokingPermisions({t})
        \/ App!FireRevokeTask(t)

AppStep ==
    \/ UNCHANGED appVars
    \/ AppGrants /\ UNCHANGED revokeTasks
    \/ AppTasks /\ UNCHANGED <<grantMap, held>>
    \/ \E t \in Token : App!RevokeAppPermisionsImmediately({t}) /\ UNCHANGED revokeTasks
    \/ \E T \in SUBSET Token : App!RevokeAppPermissions(T)

LEMMA AppSteps == TypesInv /\ [Next]_vars => AppStep
<1> SUFFICES ASSUME TypeOK, CallsName, [Next]_vars
             PROVE  AppStep
  BY DEF TypesInv
<1> USE DEF AppStep
<1>1. ASSUME NEW c \in Caller, CallerEnds(c)
      PROVE  AppStep
  <2>1. CASE ClickPaste(c)
    <3>1. call[c].comp.token \in Token
      BY <2>1, ClickEntity DEF ClickPaste
    <3> QED
      BY <2>1, <3>1, ManagerAssumption DEF ClickPaste, AppGrants, App!Perm
  <2>2. CASE ~ClickPaste(c)
    <3>1. UNCHANGED appVars
      BY <1>1, <2>2 DEF CallerEnds, AddSecurityComponentToList, AddSecurityComponentProcess,
         DeleteSecurityComponentFromList, UpdateSecurityComponent, RefuseClick, FailClick,
         AcceptClick, ClickToast, ClickSave, ClickSaveEnd, ClickDialog
    <3> QED
      BY <3>1
  <2> QED
    BY <2>1, <2>2
<1>2. CASE ObserverStep
  <2>1. CASE IgnoreReport \/ RemoveDialogWaitEntitys
    BY <2>1 DEF IgnoreReport, RemoveDialogWaitEntitys
  <2>2. CASE NotifyProcessForeground
    BY <2>2, ObservedPid DEF NotifyProcessForeground, AppTasks
  <2>3. CASE NotifyProcessBackground
    BY <2>3, ObservedPid DEF NotifyProcessBackground, AppTasks
  <2>4. CASE NotifyProcessDied
    <3>1. {entryToken[observing.pid]} \in SUBSET Token
      BY <2>4, ObservedPid DEF NotifyProcessDied
    <3> QED
      BY <2>4, <3>1 DEF NotifyProcessDied
  <2> QED
    BY <1>2, <2>1, <2>2, <2>3, <2>4 DEF ObserverStep
<1>3. CASE ExitWhenAppMgrDied
  <2>1. {entryToken[p] : p \in registered} \in SUBSET Token
    BY DEF TypeOK, TableTypeOK
  <2> QED
    BY <1>3, <2>1 DEF ExitWhenAppMgrDied
<1>4. CASE UserClosesDialog
  <2>1. PICK d \in openDialogs : CloseWithoutGrant(d) \/ GrantDialogWaitEntity(d)
    BY <1>4 DEF UserClosesDialog
  <2>2. d.comp.token \in Token
    BY DEF TypeOK, DialogTypeOK, Entity
  <2>3. CASE CloseWithoutGrant(d)
    BY <2>3 DEF CloseWithoutGrant
  <2>4. CASE GrantDialogWaitEntity(d)
    <3>1. UNCHANGED revokeTasks
      BY <2>4 DEF GrantDialogWaitEntity
    <3>2. UNCHANGED <<grantMap, held>> \/ AppGrants
      BY <2>2, <2>4 DEF GrantDialogWaitEntity, AppGrants, App!Perm
    <3> QED
      BY <3>1, <3>2 DEF appVars
  <2> QED
    BY <2>1, <2>3, <2>4
<1>5. CASE DialogStep
  <2>1. CASE GrantDialogWaitEntityEnd
    <3>1. closing.comp.token \in Token
      BY <2>1 DEF GrantDialogWaitEntityEnd, TypeOK, DialogTypeOK, Grant, Entity
    <3>2. UNCHANGED revokeTasks
      BY <2>1 DEF GrantDialogWaitEntityEnd
    <3>3. UNCHANGED <<grantMap, held>> \/ AppGrants
      BY <2>1, <3>1 DEF GrantDialogWaitEntityEnd, AppGrants, App!Perm
    <3> QED
      BY <3>2, <3>3 DEF appVars
  <2>2. CASE (\E e \in confirmed : ReadConfirmedType(e)) \/ \E e \in noting : SetFirstUseMap(e)
    BY <2>2 DEF ReadConfirmedType, SetFirstUseMap
  <2> QED
    BY <1>5, <2>1, <2>2 DEF DialogStep
<1>6. CASE HandlerStep
  <2>1. ASSUME NEW t \in Token, DispatchRevoke(t)
        PROVE  AppStep
    BY <2>1 DEF DispatchRevoke, AppTasks
  <2>2. CASE RevokeAll
    <3>1. running.token \in Token
      BY <2>2 DEF RevokeAll, TypeOK, HandlerTypeOK, Idle, Exiting, Revoking
    <3> QED
      BY <2>2, <3>1 DEF RevokeAll
  <2>3. CASE \/ DispatchExit \/ ExitSaProcess \/ DispatchSaveRevoke \/ SaveRevoke
             \/ SaveFirstUseRecord \/ WriteCfgContent
    BY <2>3 DEF DispatchExit, ExitSaProcess, DispatchSaveRevoke, SaveRevoke, SaveFirstUseRecord,
       WriteCfgContent
  <2> QED
    BY <1>6, <2>1, <2>2, <2>3 DEF HandlerStep
<1>7. CASE ServiceStops \/ \E p \in Pid : ProcessStart(p) \/ AppMgrReports(p)
  BY <1>7 DEF ServiceStops, ProcessStart, AppMgrReports
<1>8. CASE UNCHANGED vars
  BY <1>8 DEF vars
<1> QED
  BY <1>1, <1>2, <1>3, <1>4, <1>5, <1>6, <1>7, <1>8, CallerBeginsFrame DEF Next

LEMMA AppTyped == App!AppTypeOK /\ AppStep => App!AppTypeOK'
<1> SUFFICES ASSUME App!AppTypeOK, AppStep
             PROVE  App!AppTypeOK'
  OBVIOUS
<1>1. CASE UNCHANGED appVars
  BY <1>1 DEF appVars, App!AppTypeOK
<1>2. CASE AppGrants /\ UNCHANGED revokeTasks
  BY <1>2 DEF AppGrants, App!GrantAppPermission, App!FailAndTakeBack, App!AppTypeOK, App!Perm
<1>3. CASE AppTasks /\ UNCHANGED <<grantMap, held>>
  BY <1>3 DEF AppTasks, App!RevokeAppPermisionsDelayed, App!CancelAppRevokingPermisions,
     App!FireRevokeTask, App!AppTypeOK
<1>4. ASSUME NEW T \in SUBSET Token, App!RevokeAppPermisionsImmediately(T)
      PROVE  grantMap' \in [Token -> SUBSET App!Perm] /\ held' \in [Token -> SUBSET App!Perm]
  BY <1>4 DEF App!RevokeAppPermisionsImmediately, App!AppTypeOK
<1>5. CASE \E t \in Token : App!RevokeAppPermisionsImmediately({t}) /\ UNCHANGED revokeTasks
  BY <1>4, <1>5 DEF App!AppTypeOK
<1>6. CASE \E T \in SUBSET Token : App!RevokeAppPermissions(T)
  <2>1. revokeTasks' \in [Token -> Nat]
    BY <1>6 DEF App!RevokeAppPermissions, App!CancelAppRevokingPermisions, App!AppTypeOK
  <2> QED
    BY <1>4, <1>6, <2>1 DEF App!RevokeAppPermissions, App!AppTypeOK
<1> QED
  BY <1>1, <1>2, <1>3, <1>5, <1>6 DEF AppStep

MaliciousStep ==
    \/ UNCHANGED maliciousVars
    \/ \E p \in Pid :
          \/ Malicious!AddAppToMaliciousAppList(p)
          \/ Malicious!ResetThenAdd(p)
          \/ Malicious!ResetAppMaliciousFailCount(p)
          \/ Malicious!RemoveAppFromMaliciousAppList(p)

LEMMA MaliciousSteps == TypeOK /\ [Next]_vars => MaliciousStep
<1> SUFFICES ASSUME TypeOK, [Next]_vars
             PROVE  MaliciousStep
  OBVIOUS
<1> USE DEF MaliciousStep
<1>1. ASSUME NEW c \in Caller, CallerBegins(c)
      PROVE  MaliciousStep
  BY <1>1 DEF CallerBegins, BeginRegister, BeginPreRegister, BeginUpdateOrClick, BeginUnregister
<1>2. ASSUME NEW c \in Caller, CallerEnds(c)
      PROVE  MaliciousStep
  <2>1. InFlight(c) => call[c].pid \in Pid
    BY InFlightCall
  <2>2. CASE UpdateSecurityComponent(c) \/ FailClick(c)
    BY <2>1, <2>2 DEF UpdateSecurityComponent, FailClick, Enters
  <2>3. CASE \/ AcceptClick(c) \/ ClickPaste(c) \/ ClickToast(c) \/ ClickSave(c)
             \/ ClickDialog(c)
    BY <2>1, <2>3 DEF ClickPaste, ClickToast, ClickSave, ClickDialog, AcceptClick, Enters
  <2>4. CASE \/ AddSecurityComponentToList(c) \/ AddSecurityComponentProcess(c)
             \/ DeleteSecurityComponentFromList(c) \/ RefuseClick(c) \/ ClickSaveEnd(c)
    BY <2>4 DEF AddSecurityComponentToList, AddSecurityComponentProcess,
       DeleteSecurityComponentFromList, RefuseClick, ClickSaveEnd
  <2> QED
    BY <1>2, <2>2, <2>3, <2>4 DEF CallerEnds
<1>3. ASSUME NEW p \in Pid, AppMgrReports(p)
      PROVE  MaliciousStep
  BY <1>3 DEF AppMgrReports, OnProcessForeground, OnProcessBackground, OnProcessDied,
     OnAppCacheStateChanged
<1>4. CASE ExitWhenAppMgrDied \/ ServiceStops \/ \E p \in Pid : ProcessStart(p)
  BY <1>4 DEF ExitWhenAppMgrDied, ServiceStops, ProcessStart
<1>5. CASE UNCHANGED vars
  BY <1>5 DEF vars
<1> QED
  BY <1>1, <1>2, <1>3, <1>4, <1>5, ObserverFrame, UserClosesFrame, DialogFrame, HandlerFrame
     DEF Next

LEMMA MaliciousTyped == Malicious!MaliciousTypeOK /\ MaliciousStep => Malicious!MaliciousTypeOK'
BY DEF MaliciousStep, maliciousVars, Malicious!MaliciousTypeOK,
       Malicious!AddAppToMaliciousAppList, Malicious!ResetThenAdd,
       Malicious!ResetAppMaliciousFailCount, Malicious!RemoveAppFromMaliciousAppList

RecordStep ==
    \/ UNCHANGED recordVars
    \/ \E t \in Token : Record!SetFirstUseMap(t)
    \/ Record!SaveFirstUseRecord(Token)
    \/ Record!WriteCfgContent

LEMMA RecordSteps == TypeOK /\ [Next]_vars => RecordStep
<1> SUFFICES ASSUME TypeOK, [Next]_vars
             PROVE  RecordStep
  OBVIOUS
<1> USE DEF RecordStep
<1>1. CASE DialogStep
  <2>1. \A e \in noting : e.token \in Token
    BY DEF TypeOK, DialogTypeOK, Entity
  <2> QED
    BY <1>1, <2>1 DEF DialogStep, GrantDialogWaitEntityEnd, ReadConfirmedType, SetFirstUseMap
<1>2. CASE HandlerStep
  BY <1>2 DEF HandlerStep, DispatchExit, ExitSaProcess, DispatchRevoke, RevokeAll,
     DispatchSaveRevoke, SaveRevoke, SaveFirstUseRecord, WriteCfgContent
<1>3. CASE ExitWhenAppMgrDied \/ ServiceStops \/ \E p \in Pid : ProcessStart(p) \/ AppMgrReports(p)
  BY <1>3 DEF ExitWhenAppMgrDied, ServiceStops, ProcessStart, AppMgrReports
<1>4. CASE UNCHANGED vars
  BY <1>4 DEF vars
<1> QED
  BY <1>1, <1>2, <1>3, <1>4, CallerBeginsFrame, CallerEndsFrame, ObserverFrame, UserClosesFrame
     DEF Next

LEMMA RecordTyped == Record!RecordTypeOK /\ RecordStep => Record!RecordTypeOK'
BY DEF RecordStep, recordVars, Record!RecordTypeOK, Record!SetFirstUseMap,
       Record!SaveFirstUseRecord, Record!WriteCfgContent

SaveStep ==
    \/ UNCHANGED saveVars
    \/ \E p \in Path, t \in Token : Save!DelaySaveRevokePermission(p, t)
    \/ \E p \in Path : Save!PushSaveTask(p)
    \/ Save!FireSaveTask
    \/ Save!RevokeTempSavePermissionCount
    \/ /\ NotifyProcessDied \/ ExitWhenAppMgrDied
       /\ \E T \in SUBSET Token : Save!RevokeTempSavePermission(T)

LEMMA SaveSteps == TypesInv /\ [Next]_vars => SaveStep
<1> SUFFICES ASSUME TypeOK, CallsName, [Next]_vars
             PROVE  SaveStep
  BY DEF TypesInv
<1> USE DEF SaveStep
<1>0. "click" \in Path /\ "dialog" \in Path
  BY ManagerAssumption
<1>1. ASSUME NEW c \in Caller, CallerEnds(c)
      PROVE  SaveStep
  <2>1. CASE ClickSave(c)
    <3>1. call[c].comp.token \in Token
      BY <2>1, ClickEntity DEF ClickSave
    <3> QED
      BY <1>0, <2>1, <3>1 DEF ClickSave
  <2>2. CASE ClickSaveEnd(c)
    BY <1>0, <2>2 DEF ClickSaveEnd
  <2>3. CASE ~ClickSave(c) /\ ~ClickSaveEnd(c)
    <3>1. UNCHANGED saveVars
      BY <1>1, <2>3 DEF CallerEnds, AddSecurityComponentToList, AddSecurityComponentProcess,
         DeleteSecurityComponentFromList, UpdateSecurityComponent, RefuseClick, FailClick,
         AcceptClick, ClickPaste, ClickToast, ClickDialog
    <3> QED
      BY <3>1
  <2> QED
    BY <2>1, <2>2, <2>3
<1>2. CASE ObserverStep
  <2>1. CASE NotifyProcessDied
    <3>1. {entryToken[observing.pid]} \in SUBSET Token
      BY <2>1, ObservedPid DEF NotifyProcessDied
    <3> QED
      BY <2>1, <3>1 DEF NotifyProcessDied
  <2>2. CASE ~NotifyProcessDied
    BY <1>2, <2>2 DEF ObserverStep, IgnoreReport, NotifyProcessForeground,
       NotifyProcessBackground, RemoveDialogWaitEntitys
  <2> QED
    BY <2>1, <2>2
<1>3. CASE ExitWhenAppMgrDied
  <2>1. {entryToken[p] : p \in registered} \in SUBSET Token
    BY DEF TypeOK, TableTypeOK
  <2> QED
    BY <1>3, <2>1 DEF ExitWhenAppMgrDied
<1>4. CASE UserClosesDialog
  <2>1. PICK d \in openDialogs : CloseWithoutGrant(d) \/ GrantDialogWaitEntity(d)
    BY <1>4 DEF UserClosesDialog
  <2>2. d.comp.token \in Token
    BY DEF TypeOK, DialogTypeOK, Entity
  <2>3. UNCHANGED saveVars \/ Save!DelaySaveRevokePermission("dialog", d.comp.token)
    BY <2>1 DEF CloseWithoutGrant, GrantDialogWaitEntity
  <2> QED
    BY <1>0, <2>2, <2>3
<1>5. CASE DialogStep
  <2>1. UNCHANGED saveVars \/ Save!PushSaveTask("dialog")
    BY <1>5 DEF DialogStep, GrantDialogWaitEntityEnd, ReadConfirmedType, SetFirstUseMap
  <2> QED
    BY <1>0, <2>1
<1>6. CASE HandlerStep
  BY <1>6 DEF HandlerStep, DispatchExit, ExitSaProcess, DispatchRevoke, RevokeAll,
     DispatchSaveRevoke, SaveRevoke, SaveFirstUseRecord, WriteCfgContent
<1>7. CASE ServiceStops \/ \E p \in Pid : ProcessStart(p) \/ AppMgrReports(p)
  BY <1>7 DEF ServiceStops, ProcessStart, AppMgrReports
<1>8. CASE UNCHANGED vars
  BY <1>8 DEF vars
<1> QED
  BY <1>1, <1>2, <1>3, <1>4, <1>5, <1>6, <1>7, <1>8, CallerBeginsFrame DEF Next
-----------------------------------------------------------------------------
(* The save permission within the service.                                 *)

LEMMA PopFront ==
    ASSUME NEW S, NEW s \in Seq(S), s # <<>>
    PROVE  Tail(s) \in Seq(S) /\ Len(Tail(s)) = Len(s) - 1 /\ Len(s) \in Nat
BY EmptySeq, HeadTailProperties

\* A task that has been taken out of the queue belongs to a token.
LEMMA FiredToken ==
    ASSUME Save!SaveTypeOK, firedSave # NoName
    PROVE  firedSave.token \in Token
BY DEF Save!SaveTypeOK, Save!Name

LEMMA PushedToken ==
    ASSUME Save!SaveTypeOK, NEW p \in Path, grantingSave[p] # NoName
    PROVE  grantingSave[p] \in Save!Name /\ grantingSave[p].token \in Token
BY DEF Save!SaveTypeOK, Save!Name

LEMMA SaveTyped == Save!SaveTypeOK /\ SaveStep => Save!SaveTypeOK'
<1> SUFFICES ASSUME Save!SaveTypeOK, SaveStep
             PROVE  Save!SaveTypeOK'
  OBVIOUS
<1>1. CASE UNCHANGED saveVars
  BY <1>1 DEF saveVars, Save!SaveTypeOK
<1>2. ASSUME NEW p \in Path, NEW t \in Token, Save!DelaySaveRevokePermission(p, t)
      PROVE  Save!SaveTypeOK'
  <2>1. [token |-> t, id |-> issued + 1] \in Save!Name /\ issued' \in 0..MaxSaveGrants
    BY <1>2, ManagerAssumption DEF Save!DelaySaveRevokePermission, Save!SaveTypeOK, Save!Name
  <2> QED
    BY <1>2, <2>1 DEF Save!DelaySaveRevokePermission, Save!SaveTypeOK
<1>3. ASSUME NEW p \in Path, Save!PushSaveTask(p)
      PROVE  Save!SaveTypeOK'
  <2> DEFINE n == grantingSave[p]
  <2>1. n \in Save!Name /\ n.token \in Token
    BY <1>3, PushedToken DEF Save!PushSaveTask
  <2>2. saveTaskDeque' \in [Token -> Seq(Save!Name)]
    BY <1>3, <2>1 DEF Save!PushSaveTask, Save!SaveTypeOK
  <2> QED
    BY <1>3, <2>1, <2>2 DEF Save!PushSaveTask, Save!SaveTypeOK
<1>4. CASE Save!FireSaveTask
  BY <1>4 DEF Save!FireSaveTask, Save!SaveTypeOK
<1>5. CASE Save!RevokeTempSavePermissionCount
  <2> DEFINE t == firedSave.token
  <2>1. t \in Token
    BY <1>5, FiredToken DEF Save!RevokeTempSavePermissionCount
  <2>2. CASE applySaveCount[t] = 0 \/ saveTaskDeque[t] = <<>>
    BY <1>5, <2>2 DEF Save!RevokeTempSavePermissionCount, Save!SaveTypeOK
  <2>3. CASE ~(applySaveCount[t] = 0 \/ saveTaskDeque[t] = <<>>)
    <3>1. Tail(saveTaskDeque[t]) \in Seq(Save!Name)
      BY <2>1, <2>3, PopFront DEF Save!SaveTypeOK
    <3>2. saveTaskDeque' = [saveTaskDeque EXCEPT ![t] = Tail(@)]
      BY <1>5, <2>3 DEF Save!RevokeTempSavePermissionCount
    <3>3. saveTaskDeque' \in [Token -> Seq(Save!Name)]
      BY <3>1, <3>2 DEF Save!SaveTypeOK
    <3>4. applySaveCount' \in [Token -> Nat]
      <4>1. applySaveCount' = [applySaveCount EXCEPT ![t] = @ - 1]
        BY <1>5, <2>3 DEF Save!RevokeTempSavePermissionCount
      <4>2. applySaveCount \in [Token -> Nat] /\ applySaveCount[t] - 1 \in Nat
        BY <2>1, <2>3 DEF Save!SaveTypeOK
      <4> QED
        BY <4>1, <4>2
    <3> QED
      BY <1>5, <2>3, <3>3, <3>4 DEF Save!RevokeTempSavePermissionCount, Save!SaveTypeOK
  <2> QED
    BY <2>2, <2>3
<1>6. ASSUME NEW T \in SUBSET Token, Save!RevokeTempSavePermission(T)
      PROVE  Save!SaveTypeOK'
  <2>1. saveTaskDeque' \in [Token -> Seq(Save!Name)]
    BY <1>6 DEF Save!RevokeTempSavePermission, Save!SaveTypeOK
  <2> QED
    BY <1>6, <2>1 DEF Save!RevokeTempSavePermission, Save!SaveTypeOK
<1> QED
  BY <1>1, <1>2, <1>3, <1>4, <1>5, <1>6 DEF SaveStep

LEMMA CountStep == Save!SaveTypeOK /\ CountMatchesDeque /\ SaveStep => CountMatchesDeque'
<1> SUFFICES ASSUME Save!SaveTypeOK, CountMatchesDeque, SaveStep, NEW u \in Token
             PROVE  (applySaveCount[u] = Len(saveTaskDeque[u]))'
  BY DEF CountMatchesDeque, Save!CountMatchesDeque
<1>0. /\ applySaveCount[u] = Len(saveTaskDeque[u])
      /\ saveTaskDeque[u] \in Seq(Save!Name)
      /\ saveTaskDeque \in [Token -> Seq(Save!Name)]
      /\ applySaveCount \in [Token -> Nat]
  BY DEF CountMatchesDeque, Save!CountMatchesDeque, Save!SaveTypeOK
<1>1. CASE UNCHANGED saveVars
  BY <1>0, <1>1 DEF saveVars
<1>2. CASE \/ \E p \in Path, t \in Token : Save!DelaySaveRevokePermission(p, t)
           \/ Save!FireSaveTask
  BY <1>0, <1>2 DEF Save!DelaySaveRevokePermission, Save!FireSaveTask
<1>3. ASSUME NEW p \in Path, Save!PushSaveTask(p)
      PROVE  (applySaveCount[u] = Len(saveTaskDeque[u]))'
  <2> DEFINE n == grantingSave[p]
  <2>1. n \in Save!Name /\ n.token \in Token
    BY <1>3, PushedToken DEF Save!PushSaveTask
  <2>2. /\ saveTaskDeque' = [saveTaskDeque EXCEPT ![n.token] = Append(@, n)]
        /\ applySaveCount' = [applySaveCount EXCEPT ![n.token] = @ + 1]
    BY <1>3 DEF Save!PushSaveTask
  <2>3. Len(Append(saveTaskDeque[u], n)) = Len(saveTaskDeque[u]) + 1
    BY <1>0, <2>1, AppendProperties
  <2> QED
    BY <1>0, <2>1, <2>2, <2>3
<1>4. CASE Save!RevokeTempSavePermissionCount
  <2> DEFINE t == firedSave.token
  <2>1. t \in Token
    BY <1>4, FiredToken DEF Save!RevokeTempSavePermissionCount
  <2>2. CASE applySaveCount[t] = 0 \/ saveTaskDeque[t] = <<>>
    BY <1>0, <1>4, <2>2 DEF Save!RevokeTempSavePermissionCount
  <2>3. CASE ~(applySaveCount[t] = 0 \/ saveTaskDeque[t] = <<>>)
    <3>1. /\ saveTaskDeque' = [saveTaskDeque EXCEPT ![t] = Tail(@)]
          /\ applySaveCount' = [applySaveCount EXCEPT ![t] = @ - 1]
      BY <1>4, <2>3 DEF Save!RevokeTempSavePermissionCount
    <3>2. Len(Tail(saveTaskDeque[t])) = Len(saveTaskDeque[t]) - 1
      BY <1>0, <2>1, <2>3, PopFront
    <3> QED
      BY <1>0, <2>1, <3>1, <3>2
  <2> QED
    BY <2>2, <2>3
<1>5. ASSUME NEW T \in SUBSET Token, Save!RevokeTempSavePermission(T)
      PROVE  (applySaveCount[u] = Len(saveTaskDeque[u]))'
  <2>1. Len(<<>>) = 0
    BY EmptySeq
  <2> QED
    BY <1>0, <1>5, <2>1 DEF Save!RevokeTempSavePermission
<1> QED
  BY <1>1, <1>2, <1>3, <1>4, <1>5 DEF SaveStep

LEMMA LeaseStep == Save!SaveTypeOK /\ SaveStep => [Save!Lease!Next]_applySaveCount
<1> SUFFICES ASSUME Save!SaveTypeOK, SaveStep
             PROVE  [Save!Lease!Next]_applySaveCount
  OBVIOUS
<1> USE DEF Save!Lease!Next, Save!Lease!Grant, Save!Lease!Expire, Save!Lease!RevokeAll
<1>1. CASE \/ UNCHANGED saveVars
           \/ \E p \in Path, t \in Token : Save!DelaySaveRevokePermission(p, t)
           \/ Save!FireSaveTask
  BY <1>1 DEF saveVars, Save!DelaySaveRevokePermission, Save!FireSaveTask
<1>2. ASSUME NEW p \in Path, Save!PushSaveTask(p)
      PROVE  \E t \in Token : Save!Lease!Grant(t)
  <2>1. grantingSave[p].token \in Token
    BY <1>2, PushedToken DEF Save!PushSaveTask
  <2> QED
    BY <1>2, <2>1 DEF Save!PushSaveTask
<1>3. CASE Save!RevokeTempSavePermissionCount
  <2>1. firedSave.token \in Token
    BY <1>3, FiredToken DEF Save!RevokeTempSavePermissionCount
  <2>2. UNCHANGED applySaveCount \/ Save!Lease!Expire(firedSave.token)
    BY <1>3, <2>1 DEF Save!RevokeTempSavePermissionCount, Save!SaveTypeOK
  <2> QED
    BY <2>1, <2>2
<1>4. ASSUME NEW T \in SUBSET Token, Save!RevokeTempSavePermission(T)
      PROVE  Save!Lease!RevokeAll(T)
  BY <1>4 DEF Save!RevokeTempSavePermission
<1> QED
  BY <1>1, <1>2, <1>3, <1>4 DEF SaveStep
-----------------------------------------------------------------------------
(* The specification.                                                      *)

\* A copy on its way to the file is the map, or a task will make a new one.
SavingIsMap == \A record \in saving : record = firstUseMap \/ recordTasks > 0

LEMMA RecordKept ==
    Record!RecordTypeOK /\ SavingIsMap /\ RecordReachesFile /\ RecordStep
        => SavingIsMap' /\ RecordReachesFile'
<1> SUFFICES ASSUME Record!RecordTypeOK, SavingIsMap, RecordReachesFile, RecordStep
             PROVE  SavingIsMap' /\ RecordReachesFile'
  OBVIOUS
<1> USE DEF SavingIsMap, RecordReachesFile, Record!RecordReachesFile
<1>1. CASE UNCHANGED recordVars
  BY <1>1 DEF recordVars
<1>2. CASE \E t \in Token : Record!SetFirstUseMap(t)
  BY <1>2 DEF Record!SetFirstUseMap, Record!RecordTypeOK
<1>3. CASE Record!SaveFirstUseRecord(Token)
  <2>1. firstUseMap \cap Token = firstUseMap
    BY DEF Record!RecordTypeOK
  <2> QED
    BY <1>3, <2>1 DEF Record!SaveFirstUseRecord
<1>4. CASE Record!WriteCfgContent
  BY <1>4 DEF Record!WriteCfgContent
<1> QED
  BY <1>1, <1>2, <1>3, <1>4 DEF RecordStep

LEMMA TypesInit == Init => TypesInv
<1> SUFFICES ASSUME Init
             PROVE  TypesInv
  OBVIOUS
<1>1. ProcTypeOK
  BY DEF Init, ProcTypeOK
<1>2. TableTypeOK
  BY DEF Init, TableTypeOK
<1>3. DialogTypeOK /\ HandlerTypeOK
  BY DEF Init, DialogTypeOK, HandlerTypeOK
<1>8. InfoTypeOK
  <2>1. (CHOOSE ty \in Type : TRUE) \in Type
    BY ManagerAssumption
  <2> QED
    BY <2>1 DEF Init, InfoTypeOK
<1>4. App!AppTypeOK /\ Malicious!MaliciousTypeOK
  BY DEF Init, App!AppInit, App!AppTypeOK, Malicious!MaliciousInit, Malicious!MaliciousTypeOK
<1>5. Save!SaveTypeOK
  BY ManagerAssumption DEF Init, Save!SaveInit, Save!SaveTypeOK
<1>6. Record!RecordTypeOK
  BY DEF Init, Record!RecordInit, Record!RecordTypeOK
<1>7. CallsName
  BY DEF Init, CallsName, InFlight
<1> QED
  BY <1>1, <1>2, <1>3, <1>4, <1>5, <1>6, <1>7, <1>8 DEF TypesInv, TypeOK

LEMMA TypesStep == TypesInv /\ [Next]_vars => TypesInv'
<1> SUFFICES ASSUME TypesInv, [Next]_vars
             PROVE  TypesInv'
  OBVIOUS
<1>1. /\ App!AppTypeOK /\ Save!SaveTypeOK
      /\ Malicious!MaliciousTypeOK /\ Record!RecordTypeOK
  BY DEF TypesInv, TypeOK
<1>2. ProcTypeOK' /\ TableTypeOK' /\ DialogTypeOK' /\ InfoTypeOK' /\ HandlerTypeOK'
  BY ProcTyped, TableTyped, DialogTyped, InfoTyped, HandlerTyped DEF TypesInv
<1>3. App!AppTypeOK' /\ Save!SaveTypeOK' /\ Malicious!MaliciousTypeOK' /\ Record!RecordTypeOK'
  BY <1>1, AppSteps, AppTyped, SaveSteps, SaveTyped, MaliciousSteps, MaliciousTyped,
     RecordSteps, RecordTyped DEF TypesInv
<1>4. CallsName'
  BY CallStep DEF TypesInv
<1> QED
  BY <1>2, <1>3, <1>4 DEF TypesInv, TypeOK

\* However calls, reports, dialogs and tasks interleave, the state of the
\* service keeps its types: a thread never goes on with a component, a pid or
\* a token that is none, and no count of tasks or grants drops below zero.
THEOREM Typing == SafeSpec => []TypeOK
<1>1. TypesInv => TypeOK
  BY DEF TypesInv
<1> QED
  BY <1>1, TypesInit, TypesStep, PTL DEF SafeSpec

\* In the whole service, with grants of clicks and of dialogs, tasks, deaths
\* and the end of the application manager, the count of live save grants is
\* the number of names left to revoke them by.
THEOREM CountAgrees == SafeSpec => []CountMatchesDeque
<1>1. Init => CountMatchesDeque
  BY EmptySeq DEF Init, Save!SaveInit, CountMatchesDeque, Save!CountMatchesDeque
<1>2. TypesInv /\ CountMatchesDeque /\ [Next]_vars => CountMatchesDeque'
  <2>1. TypesInv => Save!SaveTypeOK
    BY DEF TypesInv, TypeOK
  <2> QED
    BY <2>1, SaveSteps, CountStep
<1> QED
  BY <1>1, <1>2, TypesInit, TypesStep, PTL DEF SafeSpec

\* The service gives out leases, each of which ends once: what is shown of
\* SavePermission alone holds with everything around it.
THEOREM KeepsLeases == SafeSpec => LeaseSafety
<1>1. Init => Save!Lease!Init
  BY DEF Init, Save!SaveInit, Save!Lease!Init
<1>2. TypesInv /\ [Next]_vars => [Save!Lease!Next]_applySaveCount
  <2>1. TypesInv => Save!SaveTypeOK
    BY DEF TypesInv, TypeOK
  <2> QED
    BY <2>1, SaveSteps, LeaseStep
<1> QED
  BY <1>1, <1>2, TypesInit, TypesStep, PTL
     DEF SafeSpec, LeaseSafety, Save!LeaseSafety, Save!Lease!Safety

\* A first use the user confirmed is in the file, or a copy of the whole map
\* is on its way or due: a confirmation that comes while another is being
\* written is not lost.
THEOREM RecordArrives == SafeSpec => []RecordReachesFile
<1>1. Init => SavingIsMap /\ RecordReachesFile
  BY DEF Init, Record!RecordInit, SavingIsMap, RecordReachesFile, Record!RecordReachesFile
<1>2. TypesInv /\ SavingIsMap /\ RecordReachesFile /\ [Next]_vars
         => SavingIsMap' /\ RecordReachesFile'
  <2>1. TypesInv => TypeOK /\ Record!RecordTypeOK
    BY DEF TypesInv, TypeOK
  <2> QED
    BY <2>1, RecordSteps, RecordKept
<1> QED
  BY <1>1, <1>2, TypesInit, TypesStep, PTL DEF SafeSpec
=============================================================================
