---------------------- MODULE SecCompManager_proofs ----------------------
(***************************************************************************)
(* Proofs about SecCompManager, for all processes, tokens, components and  *)
(* threads.                                                                *)
(***************************************************************************)
EXTENDS SecCompManagerTypes_proofs

\* The steps that leave componentMap_'s lists and the exit decision alone.
QuietStep == UNCHANGED <<compList, isSaExit>>

\* compList is a function on Pid, and empty once the service exits.
ExitInv ==
    /\ compList = [p \in Pid |-> compList[p]]
    /\ NoComponentAfterExit

LEMMA QuietCalls ==
    ASSUME NEW c \in Caller,
           \/ CallerBegins(c)
           \/ AddSecurityComponentProcess(c)
           \/ UpdateSecurityComponent(c)
           \/ RefuseClick(c)
           \/ FailClick(c)
           \/ AcceptClick(c)
           \/ ClickPaste(c)
           \/ ClickToast(c)
           \/ ClickSave(c)
           \/ ClickSaveEnd(c)
           \/ ClickDialog(c)
    PROVE  QuietStep
<1> USE DEF QuietStep, tableVars, exitVars
<1>1. CASE CallerBegins(c)
  BY <1>1 DEF CallerBegins, BeginRegister, BeginPreRegister, BeginUpdateOrClick, BeginUnregister
<1>2. CASE AddSecurityComponentProcess(c)
  BY <1>2 DEF AddSecurityComponentProcess
<1>3. CASE UpdateSecurityComponent(c)
  BY <1>3 DEF UpdateSecurityComponent
<1>4. CASE RefuseClick(c) \/ FailClick(c) \/ AcceptClick(c) \/ ClickPaste(c)
  BY <1>4 DEF RefuseClick, FailClick, AcceptClick, ClickPaste
<1>5. CASE ClickToast(c) \/ ClickSave(c) \/ ClickSaveEnd(c) \/ ClickDialog(c)
  BY <1>5 DEF ClickToast, ClickSave, ClickSaveEnd, ClickDialog
<1> QED
  BY <1>1, <1>2, <1>3, <1>4, <1>5

LEMMA QuietEnvironment ==
    ASSUME \/ \E p \in Pid : ProcessStart(p) \/ AppMgrReports(p)
           \/ UserClosesDialog
           \/ DialogStep
           \/ ServiceStops
    PROVE  QuietStep
<1> USE DEF QuietStep, tableVars, exitVars
<1>1. CASE \E p \in Pid : ProcessStart(p) \/ AppMgrReports(p)
  BY <1>1 DEF ProcessStart, AppMgrReports
<1>2. CASE UserClosesDialog
  BY <1>2 DEF UserClosesDialog, CloseWithoutGrant, GrantDialogWaitEntity
<1>3. CASE DialogStep
  BY <1>3 DEF DialogStep, GrantDialogWaitEntityEnd, ReadConfirmedType, SetFirstUseMap
<1>4. CASE ServiceStops
  BY <1>4 DEF ServiceStops
<1> QED
  BY <1>1, <1>2, <1>3, <1>4

LEMMA ExitStep == ExitInv /\ [Next]_vars => ExitInv'
<1> SUFFICES ASSUME ExitInv, [Next]_vars
             PROVE  ExitInv'
  OBVIOUS
<1> USE DEF ExitInv, NoComponentAfterExit
<1>1. ASSUME QuietStep
      PROVE  ExitInv'
  BY <1>1 DEF QuietStep
<1>2. ASSUME NEW c \in Caller, AddSecurityComponentToList(c)
      PROVE  ExitInv'
  BY <1>2 DEF AddSecurityComponentToList, tableVars, exitVars
<1>3. ASSUME NEW c \in Caller, DeleteSecurityComponentFromList(c)
      PROVE  ExitInv'
  BY <1>3 DEF DeleteSecurityComponentFromList, exitVars
<1>4. CASE ObserverStep
  <2>1. CASE \/ IgnoreReport \/ NotifyProcessForeground
              \/ NotifyProcessBackground \/ RemoveDialogWaitEntitys
    <3>1. QuietStep
      BY <2>1 DEF QuietStep, IgnoreReport, NotifyProcessForeground,
                  NotifyProcessBackground, RemoveDialogWaitEntitys, tableVars, exitVars
    <3> QED
      BY <1>1, <3>1
  <2>2. CASE NotifyProcessDied
    BY <2>2 DEF NotifyProcessDied, exitVars
  <2> QED
    BY <1>4, <2>1, <2>2 DEF ObserverStep
<1>5. CASE ExitWhenAppMgrDied
  BY <1>5 DEF ExitWhenAppMgrDied
<1>6. CASE HandlerStep
  <2>1. CASE ExitSaProcess
    BY <2>1 DEF ExitSaProcess, IsCompExist, tableVars, exitVars
  <2>2. CASE \/ DispatchExit \/ \E t \in Token : DispatchRevoke(t)
             \/ RevokeAll \/ DispatchSaveRevoke \/ SaveRevoke \/ SaveFirstUseRecord \/ WriteCfgContent
    <3>1. QuietStep
      BY <2>2 DEF QuietStep, DispatchExit, DispatchRevoke, RevokeAll, DispatchSaveRevoke,
                  SaveRevoke, SaveFirstUseRecord, WriteCfgContent, tableVars, exitVars
    <3> QED
      BY <1>1, <3>1
  <2> QED
    BY <1>6, <2>1, <2>2 DEF HandlerStep
<1>7. CASE UNCHANGED vars
  <2>1. QuietStep
    BY <1>7 DEF QuietStep, vars, tableVars, exitVars
  <2> QED
    BY <1>1, <2>1
<1> QED
  BY <1>1, <1>2, <1>3, <1>4, <1>5, <1>6, <1>7, QuietCalls, QuietEnvironment
     DEF Next, CallerEnds

\* No registration slips in between the decision to exit and the end of the
\* service, from whichever thread the decision comes.
THEOREM NoneAfterExit == SafeSpec => []NoComponentAfterExit
<1>1. Init => ExitInv
  BY DEF Init, ExitInv, NoComponentAfterExit
<1>2. ExitInv => NoComponentAfterExit
  BY DEF ExitInv
<1> QED
  BY <1>1, <1>2, ExitStep, PTL DEF SafeSpec
-----------------------------------------------------------------------------
(* What relates the table of processes, the calls in flight, the dialogs    *)
(* that wait and the permissions that are held.                            *)

\* Only processes in componentMap_ have components, each of them their own.
TableInv ==
    \A p \in Pid :
        /\ compList[p] # {} => p \in registered
        /\ \A e \in compList[p] : e.pid = p

\* A registration adds a component of its own process, and only a click takes
\* several steps.
CallsOwn ==
    \A c \in Caller : InFlight(c) =>
        /\ call[c].kind = "register" =>
              call[c].comp.pid = call[c].pid /\ call[c].comp.token = call[c].token
        /\ call[c].kind = "click" \/ call[c].stage = "begun"

\* The click of a report that was accepted has lock C.
Locking(c) == InFlight(c) /\ call[c].stage # "begun"

\* Lock C has one owner, and the component it found stays where it is.
LockInv ==
    /\ \A c, d \in Caller : Locking(c) /\ Locking(d) => c = d
    /\ observing.report = "clearing" => \A c \in Caller : ~Locking(c)
    /\ \A c \in Caller : Locking(c) => call[c].comp \in compList[call[c].pid]

\* What tracked says.
TrackInv ==
    appMgrAlive => \A c \in Caller :
        InFlight(c) /\ call[c].tracked => call[c].pid \in registered

\* Without late calls a call runs under the token of its process, and so does
\* the entry of a process, until the death that is being reported is handled.
PromptInv ==
    ~LateCalls =>
        /\ \A c \in Caller : InFlight(c) =>
              call[c].pid \in live /\ call[c].token = procToken[call[c].pid]
        /\ \A p \in registered :
              /\ p \in live => entryToken[p] = procToken[p]
              /\ p \notin live => observing \in {Report("died", p), Report("clearing", p)}
        /\ EntitiesMatchEntry
        /\ CleanStart

\* The entity a dialog grants still waits, and none waits of a process that
\* is being cleared up.
WaitInv ==
    /\ closing # NoGrant => closing.comp \in dialogWait
    /\ observing.report = "clearing" => \A e \in dialogWait : e.pid # observing.pid
    /\ WaitersRegistered
    /\ appMgrAlive /\ ~LateCalls => \A e \in dialogWait : e.token = entryToken[e.pid]

GrantInv == HeldIsRecorded /\ (~LateCalls => GrantsRevocable)

\* A process reported in the background is not in the foreground set.
RevokeInv ==
    /\ NoStrayRevoke
    /\ observing.report = "background" => observing.pid \notin fgProc

Granting(c) == InFlight(c) /\ call[c].stage = "granting"

\* A click that grants save has a user that was asked before.
ClickSaves ==
    \A c \in Caller : InFlight(c) /\ call[c].stage \in {"asked", "granting"} =>
        /\ call[c].comp.token \in firstUseMap
        /\ call[c].stage = "granting" =>
              /\ grantingSave["click"] # NoName
              /\ grantingSave["click"].token = call[c].comp.token

\* A dialog in the middle of its grant grants to the entity it was opened for.
DialogSaves ==
    closing # NoGrant /\ closing.type = "SAVE" =>
        /\ grantingSave["dialog"] # NoName
        /\ grantingSave["dialog"].token = closing.comp.token

\* The entities something refers to.
Referenced ==
    (UNION {compList[p] : p \in Pid}) \cup InFlightComps
        \cup dialogWait \cup {d.comp : d \in openDialogs}
        \cup ({closing.comp} \ {NoEntity}) \cup confirmed \cup noting

\* No two of them share an id, and so the type kept for it.
UniqueIds == \A e, f \in Referenced : e.id = f.id => e = f

\* Where the user's answer is until it is in firstUseMap_, of a token none of
\* whose components changed its type: a dialog that grants save, or did, is
\* that of a component that is a save button still.
ConfirmedSave(t) == \E e \in confirmed : e.token = t /\ compType[e.id] = "SAVE"

AskedInv ==
    /\ closing # NoGrant /\ closing.type = "SAVE" /\ closing.comp.token \notin retyped =>
          compType[closing.comp.id] = "SAVE"
    /\ \A t \in Token \ retyped : applySaveCount[t] # 0 =>
          t \in firstUseMap \/ ConfirmedSave(t) \/ \E e \in noting : e.token = t

SaveInv == ClickSaves /\ DialogSaves /\ UniqueIds /\ AskedInv

ServiceInv ==
    TypesInv /\ TableInv /\ CallsOwn /\ LockInv /\ TrackInv /\ PromptInv /\ WaitInv
    /\ SaveInv /\ GrantInv /\ RevokeInv /\ ExitArmedWhenIdle

\* A call in flight after a step was so before it, or has just begun.
Stays(c) == call'[c].stage = call[c].stage /\ call'[c].comp = call[c].comp

Advances(c) ==
    \/ AcceptClick(c) /\ call'[c].stage = "checked" /\ call'[c].comp \in Named(c)
    \/ ClickToast(c) /\ call'[c].stage = "asked" /\ call'[c].comp = call[c].comp
    \/ ClickSave(c) /\ call'[c].stage = "granting" /\ call'[c].comp = call[c].comp

Goes(c) ==
    /\ InFlight(c)
    /\ call'[c].kind = call[c].kind
    /\ call'[c].pid = call[c].pid
    /\ call'[c].token = call[c].token
    /\ call'[c].tracked => call[c].tracked
    /\ call[c].aged => call'[c].aged
    /\ Stays(c) \/ Advances(c)

Begun(c) ==
    /\ ~InFlight(c)
    /\ call'[c].pid \in live
    /\ call'[c].token = procToken[call'[c].pid]
    /\ call'[c].stage = "begun"
    /\ call'[c].kind = "register" =>
          call'[c].comp.pid = call'[c].pid /\ call'[c].comp.token = call'[c].token
    /\ call'[c].kind = "click" => call'[c].pid \in fgProc \cup RootPid
    /\ call'[c].kind = "register" => call'[c].comp.id \notin IdsInUse
    /\ call'[c].kind # "register" => call'[c].comp = NoEntity
    /\ call'[c].tracked => call'[c].pid \in registered
    /\ \A d \in Caller \ {c} : call'[d] = call[d]
    /\ UNCHANGED <<procVars, observing, tableVars>>

LEMMA CallsGo ==
    ASSUME TypesInv, [Next]_vars, NEW d \in Caller, call'[d] # NoCall
    PROVE  Goes(d) \/ Begun(d)
<1> DEFINE Ok == Goes(d) \/ Begun(d)
<1>0. TypeOK /\ call \in [Caller -> Call \cup {NoCall}]
  BY DEF TypesInv, TypeOK, TableTypeOK
<1>1. ASSUME call'[d] = call[d]
      PROVE  Ok
  BY <1>1 DEF Goes, Stays, InFlight
<1>2. ASSUME NEW c \in Caller, Answer(c)
      PROVE  Ok
  BY <1>0, <1>1, <1>2 DEF Answer
<1>3. ASSUME NEW c \in Caller, CallerBegins(c)
      PROVE  Ok
  <2>1. UNCHANGED <<procVars, observing, tableVars>>
    BY <1>3, CallerBeginsFrame
  <2>2. PICK p \in Pid : \/ BeginRegister(c, p) \/ BeginPreRegister(c, p)
                         \/ BeginUpdateOrClick(c, p) \/ BeginUnregister(c, p)
    BY <1>3 DEF CallerBegins
  <2>3. p \in live
    BY <2>2 DEF BeginRegister, BeginPreRegister, BeginUpdateOrClick, BeginUnregister, CallerAllowed
  <2>4. ASSUME NEW kind, NEW id, NEW comp, Begin(c, kind, p, id, comp),
               kind = "register" =>
                  comp.pid = p /\ comp.token = procToken[p] /\ comp.id \notin IdsInUse,
               kind # "register" => comp = NoEntity,
               kind = "click" => p \in fgProc \cup RootPid
        PROVE  Ok
    <3> DEFINE new == [kind |-> kind, stage |-> "begun", pid |-> p, token |-> procToken[p],
                       id |-> id, comp |-> comp, tracked |-> p \in registered, aged |-> FALSE]
    <3>1. ~InFlight(c) /\ call' = [call EXCEPT ![c] = new]
      BY <2>4 DEF Begin
    <3>2. /\ new.kind = kind /\ new.pid = p /\ new.token = procToken[p] /\ new.comp = comp
          /\ new.stage = "begun"
      OBVIOUS
    <3>6. new.tracked => p \in registered
      BY Zenon
    <3> HIDE DEF new
    <3>3. CASE d = c
      <4>1. call'[d] = new /\ \A o \in Caller \ {d} : call'[o] = call[o]
        BY <1>0, <3>1, <3>3
      <4> QED
        BY <2>1, <2>3, <2>4, <3>1, <3>2, <3>3, <3>6, <4>1 DEF Begun
    <3>4. CASE d # c
      BY <1>1, <3>1, <3>4
    <3> QED
      BY <3>3, <3>4
  <2>5. ASSUME NEW id \in ScId, CreateScId(id),
               Begin(c, "register", p, INVALID_SC_ID,
                     [id |-> id, pid |-> p, token |-> procToken[p]])
        PROVE  Ok
    BY <2>4, <2>5 DEF CreateScId
  <2>6. CASE BeginRegister(c, p)
    BY <1>1, <2>5, <2>6 DEF BeginRegister
  <2>7. CASE BeginPreRegister(c, p)
    BY <2>4, <2>7 DEF BeginPreRegister
  <2>9. CASE BeginUpdateOrClick(c, p)
    <3>1. PICK id \in ScId, kind \in {"update", "click"} : Begin(c, kind, p, id, NoEntity)
      BY <2>9 DEF BeginUpdateOrClick
    <3>2. p \in fgProc \cup RootPid
      BY <2>9 DEF BeginUpdateOrClick, CallerAllowed
    <3> QED
      BY <2>4, <3>1, <3>2
  <2>10. CASE BeginUnregister(c, p)
    <3>1. PICK id \in ScId : Begin(c, "unregister", p, id, NoEntity)
      BY <2>10 DEF BeginUnregister
    <3> QED
      BY <2>4, <3>1
  <2> QED
    BY <2>2, <2>6, <2>7, <2>9, <2>10
<1>4. ASSUME NEW c \in Caller, CallerEnds(c)
      PROVE  Ok
  <2>1. ASSUME InFlight(c), NEW stage, NEW comp,
               call' = [call EXCEPT ![c].stage = stage, ![c].comp = comp],
               d = c => \/ AcceptClick(c) /\ stage = "checked" /\ comp \in Named(c)
                        \/ ClickToast(c) /\ stage = "asked" /\ comp = call[c].comp
                        \/ ClickSave(c) /\ stage = "granting" /\ comp = call[c].comp
        PROVE  Ok
    <3>1. call[c] \in Call
      BY <1>0, <2>1, InFlightCall
    <3>2. CASE d = c
      <4>1. call'[d] = [call[c] EXCEPT !.stage = stage, !.comp = comp]
        BY <1>0, <2>1, <3>2
      <4>2. /\ call'[d].kind = call[d].kind /\ call'[d].pid = call[d].pid
            /\ call'[d].token = call[d].token /\ call'[d].tracked = call[d].tracked
            /\ call'[d].aged = call[d].aged
            /\ call'[d].stage = stage /\ call'[d].comp = comp
        BY <3>1, <3>2, <4>1 DEF Call
      <4>3. Advances(d)
        BY <2>1, <3>2, <4>2 DEF Advances
      <4> QED
        BY <2>1, <3>2, <4>2, <4>3 DEF Goes
    <3>3. CASE d # c
      BY <1>0, <1>1, <2>1, <3>3
    <3> QED
      BY <3>2, <3>3
  <2>2. CASE AcceptClick(c)
    <3>1. InFlight(c)
      BY <2>2 DEF AcceptClick, Enters
    <3>2. PICK e \in Named(c) : call' = [call EXCEPT ![c].stage = "checked", ![c].comp = e]
      BY <2>2 DEF AcceptClick
    <3> QED
      BY <2>1, <2>2, <3>1, <3>2
  <2>3. ASSUME NEW stage \in {"asked", "granting"},
               stage = "asked" => ClickToast(c), stage = "granting" => ClickSave(c)
        PROVE  Ok
    <3>1. InFlight(c) /\ call' = [call EXCEPT ![c].stage = stage]
      BY <2>3 DEF ClickToast, ClickSave, ClickAt
    <3>2. call[c] \in Call
      BY <1>0, <3>1, InFlightCall
    <3>3. [call[c] EXCEPT !.stage = stage] = [call[c] EXCEPT !.stage = stage, !.comp = call[c].comp]
      BY <3>2 DEF Call
    <3>4. call' = [call EXCEPT ![c].stage = stage, ![c].comp = call[c].comp]
      BY <1>0, <3>1, <3>3
    <3>5. d = c => \/ ClickToast(c) /\ stage = "asked" /\ call[c].comp = call[c].comp
                   \/ ClickSave(c) /\ stage = "granting" /\ call[c].comp = call[c].comp
      BY <2>3
    <3> DEFINE comp == call[c].comp
    <3>6. call' = [call EXCEPT ![c].stage = stage, ![c].comp = comp]
      BY <3>4
    <3>7. d = c => \/ AcceptClick(c) /\ stage = "checked" /\ comp \in Named(c)
                   \/ ClickToast(c) /\ stage = "asked" /\ comp = call[c].comp
                   \/ ClickSave(c) /\ stage = "granting" /\ comp = call[c].comp
      BY <3>5
    <3> HIDE DEF comp, Ok
    <3> QED
      BY <2>1, <3>1, <3>6, <3>7
  <2>4. CASE ClickToast(c)
    <3>1. "asked" \in {"asked", "granting"} /\ "asked" # "granting"
      OBVIOUS
    <3> HIDE DEF Ok
    <3> QED
      BY <2>3, <2>4, <3>1
  <2>5. CASE ClickSave(c)
    <3>1. "granting" \in {"asked", "granting"} /\ "granting" # "asked"
      OBVIOUS
    <3> HIDE DEF Ok
    <3> QED
      BY <2>3, <2>5, <3>1
  <2>6. CASE ~AcceptClick(c) /\ ~ClickToast(c) /\ ~ClickSave(c)
    <3>1. Answer(c)
      BY <1>4, <2>6 DEF CallerEnds, AddSecurityComponentToList, AddSecurityComponentProcess,
         DeleteSecurityComponentFromList, UpdateSecurityComponent, RefuseClick, FailClick,
         ClickPaste, ClickSaveEnd, ClickDialog
    <3> QED
      BY <1>2, <3>1
  <2> QED
    BY <2>2, <2>4, <2>5, <2>6, Zenon
<1>5. CASE ObserverStep
  <2>0. InFlight(d) => call[d] \in Call
    BY <1>0, InFlightCall
  <2>1. CASE NotifyProcessBackground
    <3>1. \/ call'[d] = call[d]
          \/ InFlight(d) /\ call'[d] = [call[d] EXCEPT !.aged = TRUE]
      BY <2>1 DEF NotifyProcessBackground
    <3> QED
      BY <1>1, <2>0, <3>1 DEF Goes, Stays, Call
  <2>2. CASE NotifyProcessDied
    <3>1. \/ call'[d] = call[d]
          \/ InFlight(d) /\ call'[d] = [call[d] EXCEPT !.tracked = FALSE]
      BY <2>2 DEF NotifyProcessDied, Untrack
    <3> QED
      BY <1>1, <2>0, <3>1 DEF Goes, Stays, Call
  <2>3. CASE ~NotifyProcessBackground /\ ~NotifyProcessDied
    BY <1>1, <1>5, <2>3 DEF ObserverStep, IgnoreReport, NotifyProcessForeground,
       RemoveDialogWaitEntitys
  <2> QED
    BY <2>1, <2>2, <2>3
<1>6. CASE ExitWhenAppMgrDied \/ ServiceStops \/ \E p \in Pid : ProcessStart(p) \/ AppMgrReports(p)
  BY <1>1, <1>6 DEF ExitWhenAppMgrDied, ServiceStops, ProcessStart, AppMgrReports
<1>7. CASE UNCHANGED vars
  BY <1>1, <1>7 DEF vars
<1> QED
  BY <1>1, <1>3, <1>4, <1>5, <1>6, <1>7, UserClosesFrame, DialogFrame, HandlerFrame DEF Next

LEMMA CallsOwnStep == TypesInv /\ CallsOwn /\ [Next]_vars => CallsOwn'
<1> SUFFICES ASSUME TypesInv, CallsOwn, [Next]_vars,
                    NEW c \in Caller, call'[c] # NoCall
             PROVE  /\ call'[c].kind = "register" =>
                          /\ call'[c].comp.pid = call'[c].pid
                          /\ call'[c].comp.token = call'[c].token
                    /\ call'[c].kind = "click" \/ call'[c].stage = "begun"
  BY DEF CallsOwn, InFlight
<1>1. Advances(c) => call[c].kind = "click"
  BY DEF Advances, AcceptClick, ClickToast, ClickSave, ClickAt, Enters
<1> QED
  BY <1>1, CallsGo DEF Goes, Stays, Begun, CallsOwn

\* Who may change componentMap_.
LEMMA TableChanges ==
    ASSUME [Next]_vars
    PROVE  \/ UNCHANGED tableVars
           \/ \E c \in Caller : \/ AddSecurityComponentToList(c)
                                \/ AddSecurityComponentProcess(c)
                                \/ DeleteSecurityComponentFromList(c)
           \/ NotifyProcessDied
           \/ ExitWhenAppMgrDied
<1>1. ASSUME NEW c \in Caller, CallerEnds(c)
      PROVE  \/ UNCHANGED tableVars
             \/ AddSecurityComponentToList(c)
             \/ AddSecurityComponentProcess(c)
             \/ DeleteSecurityComponentFromList(c)
  BY <1>1 DEF CallerEnds, UpdateSecurityComponent, RefuseClick, FailClick, AcceptClick, ClickPaste, ClickToast,
     ClickSave, ClickSaveEnd, ClickDialog
<1>2. CASE ObserverStep
  BY <1>2 DEF ObserverStep, IgnoreReport, NotifyProcessForeground, NotifyProcessBackground,
     RemoveDialogWaitEntitys
<1>3. CASE ServiceStops \/ \E p \in Pid : ProcessStart(p) \/ AppMgrReports(p)
  BY <1>3 DEF ServiceStops, ProcessStart, AppMgrReports
<1>4. CASE UNCHANGED vars
  BY <1>4 DEF vars
<1> QED
  BY <1>1, <1>2, <1>3, <1>4, CallerBeginsFrame, UserClosesFrame, DialogFrame, HandlerFrame
     DEF Next

LEMMA TableStep == TypesInv /\ TableInv /\ CallsOwn /\ [Next]_vars => TableInv'
<1> SUFFICES ASSUME TypesInv, TableInv, CallsOwn, [Next]_vars
             PROVE  TableInv'
  OBVIOUS
<1>0. TypeOK /\ compList \in [Pid -> SUBSET Entity]
  BY DEF TypesInv, TypeOK, TableTypeOK
<1>1. CASE UNCHANGED tableVars
  BY <1>1 DEF tableVars, TableInv
<1>2. ASSUME NEW c \in Caller, AddSecurityComponentToList(c)
      PROVE  TableInv'
  <2>1. call[c].pid \in Pid /\ call[c].comp.pid = call[c].pid
    BY <1>0, <1>2, InFlightCall DEF AddSecurityComponentToList, Enters, CallsOwn
  <2> QED
    BY <1>0, <1>2, <2>1 DEF AddSecurityComponentToList, TableInv, tableVars
<1>3. ASSUME NEW c \in Caller, AddSecurityComponentProcess(c)
      PROVE  TableInv'
  BY <1>3 DEF AddSecurityComponentProcess, TableInv, tableVars
<1>4. ASSUME NEW c \in Caller, DeleteSecurityComponentFromList(c)
      PROVE  TableInv'
  <2>1. UNCHANGED registered /\ \A p \in Pid : compList'[p] \subseteq compList[p]
    BY <1>0, <1>4 DEF DeleteSecurityComponentFromList
  <2> QED
    BY <2>1 DEF TableInv
<1>5. CASE NotifyProcessDied
  BY <1>0, <1>5 DEF NotifyProcessDied, TableInv
<1>6. CASE ExitWhenAppMgrDied
  BY <1>6 DEF ExitWhenAppMgrDied, TableInv
<1> QED
  BY <1>1, <1>2, <1>3, <1>4, <1>5, <1>6, TableChanges
-----------------------------------------------------------------------------
(* What a step can do to the processes, the reports and componentMap_.      *)

\* Only the reports and their handling touch the processes.
LEMMA ProcChanges ==
    ASSUME [Next]_vars
    PROVE  \/ UNCHANGED <<procVars, observing>>
           \/ \E p \in Pid : ProcessStart(p) \/ AppMgrReports(p)
           \/ ObserverStep /\ UNCHANGED procVars
           \/ ExitWhenAppMgrDied
<1>1. CASE ServiceStops
  BY <1>1 DEF ServiceStops
<1>2. CASE UNCHANGED vars
  BY <1>2 DEF vars
<1> QED
  BY <1>1, <1>2, CallerBeginsFrame, CallerEndsFrame, ObserverFrame, UserClosesFrame, DialogFrame,
     HandlerFrame DEF Next

\* Who enters a process in componentMap_.
EntersTable(c, p) ==
    /\ AddSecurityComponentToList(c) \/ AddSecurityComponentProcess(c)
    /\ InFlight(c)
    /\ call[c].pid = p
    /\ p \notin registered
    /\ entryToken'[p] = call[c].token

\* A process keeps its entry, token included, until it leaves componentMap_.
LEMMA TableGrows ==
    ASSUME TypesInv, [Next]_vars, NEW p \in registered'
    PROVE  \/ p \in registered /\ entryToken'[p] = entryToken[p]
           \/ \E c \in Caller : EntersTable(c, p)
<1>0. /\ TypeOK /\ registered \in SUBSET Pid /\ entryToken \in [Pid -> Token]
  BY DEF TypesInv, TypeOK, TableTypeOK
<1>1. CASE UNCHANGED tableVars
  BY <1>1 DEF tableVars
<1>2. ASSUME NEW c \in Caller, AddSecurityComponentToList(c)
      PROVE  (p \in registered /\ entryToken'[p] = entryToken[p]) \/ EntersTable(c, p)
  <2>1. InFlight(c) /\ call[c].pid \in Pid
    BY <1>0, <1>2, InFlightCall DEF AddSecurityComponentToList, Enters
  <2>2. \/ UNCHANGED tableVars
        \/ /\ registered' = registered \cup {call[c].pid}
           /\ entryToken' = IF call[c].pid \in registered THEN entryToken
                            ELSE [entryToken EXCEPT ![call[c].pid] = call[c].token]
    BY <1>2 DEF AddSecurityComponentToList
  <2>3. CASE UNCHANGED tableVars
    BY <2>3 DEF tableVars
  <2>4. CASE p = call[c].pid /\ p \notin registered
    BY <1>0, <1>2, <2>1, <2>2, <2>4 DEF EntersTable, tableVars
  <2>5. CASE p # call[c].pid \/ p \in registered
    BY <1>0, <2>1, <2>2, <2>5 DEF tableVars
  <2> QED
    BY <2>4, <2>5
<1>3. ASSUME NEW c \in Caller, AddSecurityComponentProcess(c)
      PROVE  (p \in registered /\ entryToken'[p] = entryToken[p]) \/ EntersTable(c, p)
  <2>1. InFlight(c) /\ call[c].pid \in Pid
    BY <1>0, <1>3, InFlightCall DEF AddSecurityComponentProcess, Enters
  <2>2. \/ UNCHANGED tableVars
        \/ /\ call[c].pid \notin registered
           /\ registered' = registered \cup {call[c].pid}
           /\ entryToken' = [entryToken EXCEPT ![call[c].pid] = call[c].token]
    BY <1>3 DEF AddSecurityComponentProcess
  <2>3. CASE p = call[c].pid /\ p \notin registered
    BY <1>0, <1>3, <2>1, <2>2, <2>3 DEF EntersTable, tableVars
  <2>4. CASE p # call[c].pid \/ p \in registered
    BY <1>0, <2>1, <2>2, <2>4 DEF tableVars
  <2> QED
    BY <2>3, <2>4
<1>4. ASSUME NEW c \in Caller, DeleteSecurityComponentFromList(c)
      PROVE  p \in registered /\ entryToken'[p] = entryToken[p]
  BY <1>4 DEF DeleteSecurityComponentFromList
<1>5. CASE NotifyProcessDied
  BY <1>5 DEF NotifyProcessDied
<1>6. CASE ExitWhenAppMgrDied
  BY <1>6 DEF ExitWhenAppMgrDied
<1> QED
  BY <1>1, <1>2, <1>3, <1>4, <1>5, <1>6, TableChanges

\* A process leaves componentMap_ when its death is handled or the
\* application manager dies.
LEMMA TableShrinks ==
    ASSUME [Next]_vars, NEW p \in registered, p \notin registered'
    PROVE  \/ NotifyProcessDied /\ observing.pid = p
           \/ ExitWhenAppMgrDied
<1>1. CASE UNCHANGED tableVars
  BY <1>1 DEF tableVars
<1>2. ASSUME NEW c \in Caller,
             \/ AddSecurityComponentToList(c)
             \/ AddSecurityComponentProcess(c)
             \/ DeleteSecurityComponentFromList(c)
      PROVE  FALSE
  BY <1>2 DEF AddSecurityComponentToList, AddSecurityComponentProcess,
     DeleteSecurityComponentFromList, tableVars
<1>3. CASE NotifyProcessDied
  BY <1>3 DEF NotifyProcessDied
<1> QED
  BY <1>1, <1>2, <1>3, TableChanges

\* A component is listed because it was, or because its registration ends.
LEMMA ListGrows ==
    ASSUME TypesInv, [Next]_vars, NEW p \in Pid, NEW e \in compList'[p]
    PROVE  \/ e \in compList[p]
           \/ \E c \in Caller : /\ AddSecurityComponentToList(c)
                                /\ InFlight(c) /\ call[c].kind = "register"
                                /\ call[c].pid = p /\ e = call[c].comp
<1>0. TypeOK /\ compList \in [Pid -> SUBSET Entity]
  BY DEF TypesInv, TypeOK, TableTypeOK
<1>1. CASE UNCHANGED tableVars
  BY <1>1 DEF tableVars
<1>2. ASSUME NEW c \in Caller, AddSecurityComponentToList(c)
      PROVE  \/ e \in compList[p]
             \/ InFlight(c) /\ call[c].kind = "register" /\ call[c].pid = p /\ e = call[c].comp
  <2>1. InFlight(c) /\ call[c].kind = "register" /\ call[c].pid \in Pid
    BY <1>0, <1>2, InFlightCall DEF AddSecurityComponentToList, Enters
  <2>2. \/ compList' = compList
        \/ compList' = [compList EXCEPT ![call[c].pid] = @ \cup {call[c].comp}]
    BY <1>2 DEF AddSecurityComponentToList, tableVars
  <2> QED
    BY <1>0, <2>1, <2>2
<1>3. ASSUME NEW c \in Caller, AddSecurityComponentProcess(c)
      PROVE  e \in compList[p]
  BY <1>3 DEF AddSecurityComponentProcess, tableVars
<1>4. ASSUME NEW c \in Caller, DeleteSecurityComponentFromList(c)
      PROVE  e \in compList[p]
  BY <1>0, <1>4 DEF DeleteSecurityComponentFromList
<1>5. CASE NotifyProcessDied
  BY <1>0, <1>5 DEF NotifyProcessDied
<1>6. CASE ExitWhenAppMgrDied
  BY <1>6 DEF ExitWhenAppMgrDied
<1> QED
  BY <1>1, <1>2, <1>3, <1>4, <1>5, <1>6, TableChanges
-----------------------------------------------------------------------------
(* Calls and entries run under the token of their process.                  *)

\* The processes and the reports as far as PromptInv looks at them.
LEMMA Reported ==
    ASSUME TypesInv, PromptInv, ~LateCalls, [Next]_vars, NEW p \in registered \cap registered'
    PROVE  /\ p \in live' => entryToken[p] = procToken'[p]
           /\ p \notin live' => observing' \in {Report("died", p), Report("clearing", p)}
<1>0. /\ p \in Pid
      /\ p \in live => entryToken[p] = procToken[p]
      /\ p \notin live => observing \in {Report("died", p), Report("clearing", p)}
      /\ procToken \in [Pid -> Token]
  BY DEF PromptInv, TypesInv, TypeOK, TableTypeOK, ProcTypeOK
<1>1. CASE UNCHANGED <<procVars, observing>>
  BY <1>0, <1>1 DEF procVars
<1>2. ASSUME NEW q \in Pid, ProcessStart(q)
      PROVE  /\ p \in live' => entryToken[p] = procToken'[p]
             /\ p \notin live' => observing' \in {Report("died", p), Report("clearing", p)}
  <2>1. p \in live \/ p # q
    BY <1>0, <1>2 DEF ProcessStart
  <2>2. p # q
    BY <2>1, <1>2 DEF ProcessStart
  <2> QED
    BY <1>0, <1>2, <2>2 DEF ProcessStart
<1>3. ASSUME NEW q \in Pid, AppMgrReports(q)
      PROVE  /\ p \in live' => entryToken[p] = procToken'[p]
             /\ p \notin live' => observing' \in {Report("died", p), Report("clearing", p)}
  <2>1. p \in live
    BY <1>0, <1>3 DEF AppMgrReports, Silent, Report
  <2>2. UNCHANGED live \/ (live' = live \ {q} /\ observing' = Report("died", q))
    BY <1>3 DEF AppMgrReports, OnProcessForeground, OnProcessBackground, OnProcessDied,
       OnAppCacheStateChanged
  <2> QED
    BY <1>0, <1>3, <2>1, <2>2 DEF AppMgrReports
<1>4. ASSUME ObserverStep, UNCHANGED procVars
      PROVE  p \notin live => observing' = Report("clearing", p)
  <2> SUFFICES ASSUME p \notin live
               PROVE  observing' = Report("clearing", p)
    OBVIOUS
  <2>1. /\ observing.pid = p
        /\ observing.report \in {"died", "clearing"}
    BY <1>0 DEF Report
  <2> QED
    BY <1>4, <2>1 DEF ObserverStep, IgnoreReport, NotifyProcessForeground,
       NotifyProcessBackground, RemoveDialogWaitEntitys, NotifyProcessDied
<1>5. CASE ExitWhenAppMgrDied
  BY <1>5 DEF ExitWhenAppMgrDied
<1> QED
  BY <1>0, <1>1, <1>2, <1>3, <1>4, <1>5, ProcChanges DEF procVars

\* Nothing happens to the process of a call while it is in flight.
LEMMA CallerStays ==
    ASSUME TypesInv, PromptInv, ~LateCalls, [Next]_vars, NEW c \in Caller, InFlight(c)
    PROVE  call[c].pid \in live' /\ call[c].token = procToken'[call[c].pid]
<1>0. /\ call[c].pid \in live /\ call[c].token = procToken[call[c].pid]
      /\ procToken \in [Pid -> Token] /\ live \subseteq Pid
  BY DEF PromptInv, TypesInv, TypeOK, ProcTypeOK
<1>1. CASE UNCHANGED procVars
  BY <1>0, <1>1 DEF procVars
<1>2. ASSUME NEW q \in Pid, ProcessStart(q)
      PROVE  call[c].pid \in live' /\ call[c].token = procToken'[call[c].pid]
  BY <1>0, <1>2 DEF ProcessStart
<1>3. ASSUME NEW q \in Pid, AppMgrReports(q)
      PROVE  call[c].pid \in live' /\ call[c].token = procToken'[call[c].pid]
  BY <1>0, <1>3 DEF AppMgrReports, OnProcessForeground, OnProcessBackground, OnProcessDied,
     OnAppCacheStateChanged
<1>4. CASE ExitWhenAppMgrDied
  BY <1>0, <1>4 DEF ExitWhenAppMgrDied
<1> QED
  BY <1>1, <1>2, <1>3, <1>4, ProcChanges

\* A process's record of failures is touched by its own calls, which it
\* outlives, and cleared by its death.
LEMMA MaliciousTouches ==
    ASSUME TypesInv, [Next]_vars, NEW p \in Pid
    PROVE  \/ /\ maliciousFailCount'[p] = maliciousFailCount[p]
              /\ p \in maliciousAppList' => p \in maliciousAppList
           \/ /\ UNCHANGED live
              /\ p \in live \/ \E c \in Caller : InFlight(c) /\ call[c].pid = p
           \/ OnProcessDied(p)
<1> DEFINE Ok == \/ /\ maliciousFailCount'[p] = maliciousFailCount[p]
                    /\ p \in maliciousAppList' => p \in maliciousAppList
                 \/ /\ UNCHANGED live
                    /\ p \in live \/ \E c \in Caller : InFlight(c) /\ call[c].pid = p
                 \/ OnProcessDied(p)
<1>0. TypeOK /\ maliciousFailCount \in [Pid -> Nat]
  BY DEF TypesInv, TypeOK, Malicious!MaliciousTypeOK
<1>1. ASSUME UNCHANGED maliciousVars
      PROVE  Ok
  BY <1>1 DEF maliciousVars
<1>2. ASSUME NEW q \in Pid,
             \/ Malicious!AddAppToMaliciousAppList(q)
             \/ Malicious!ResetThenAdd(q)
             \/ Malicious!ResetAppMaliciousFailCount(q),
             UNCHANGED live,
             q \in live \/ \E c \in Caller : InFlight(c) /\ call[c].pid = q
      PROVE  Ok
  <2>1. CASE q = p
    BY <1>2, <2>1
  <2>2. CASE q # p
    BY <1>0, <1>2, <2>2 DEF Malicious!AddAppToMaliciousAppList, Malicious!ResetThenAdd,
       Malicious!ResetAppMaliciousFailCount
  <2> QED
    BY <2>1, <2>2
<1>3. ASSUME NEW c \in Caller, NEW q \in Pid, BeginRegister(c, q)
      PROVE  Ok
  <2>1. UNCHANGED live /\ q \in live
    BY <1>3 DEF BeginRegister, procVars
  <2>2. \/ Malicious!AddAppToMaliciousAppList(q)
        \/ Malicious!ResetAppMaliciousFailCount(q)
    BY <1>3 DEF BeginRegister
  <2> QED
    BY <1>2, <2>1, <2>2
<1>4. ASSUME NEW c \in Caller, CallerBegins(c)
      PROVE  Ok
  BY <1>1, <1>3, <1>4 DEF CallerBegins, BeginPreRegister, BeginUpdateOrClick, BeginUnregister
<1>5. ASSUME NEW c \in Caller, CallerEnds(c)
      PROVE  Ok
  <2>1. UNCHANGED live
    BY <1>5, CallerEndsFrame DEF procVars
  <2>2. ASSUME InFlight(c),
               \/ Malicious!AddAppToMaliciousAppList(call[c].pid)
               \/ Malicious!ResetThenAdd(call[c].pid)
               \/ Malicious!ResetAppMaliciousFailCount(call[c].pid)
        PROVE  Ok
    BY <1>0, <1>2, <2>1, <2>2, InFlightCall
  <2>3. CASE UpdateSecurityComponent(c) \/ FailClick(c)
    BY <1>1, <2>2, <2>3 DEF UpdateSecurityComponent, FailClick, Enters
  <2>4. CASE AcceptClick(c)
    BY <2>2, <2>4 DEF AcceptClick, Enters
  <2>5. CASE \/ AddSecurityComponentToList(c) \/ AddSecurityComponentProcess(c)
             \/ DeleteSecurityComponentFromList(c) \/ RefuseClick(c) \/ ClickPaste(c)
             \/ ClickToast(c) \/ ClickSave(c) \/ ClickSaveEnd(c) \/ ClickDialog(c)
    BY <1>1, <2>5 DEF AddSecurityComponentToList, AddSecurityComponentProcess,
       DeleteSecurityComponentFromList, RefuseClick, ClickPaste, ClickToast, ClickSave,
       ClickSaveEnd, ClickDialog
  <2> QED
    BY <1>5, <2>3, <2>4, <2>5 DEF CallerEnds
<1>6. ASSUME NEW q \in Pid, AppMgrReports(q)
      PROVE  Ok
  <2>1. CASE OnProcessDied(q)
    BY <1>0, <2>1 DEF OnProcessDied, Malicious!RemoveAppFromMaliciousAppList
  <2>2. CASE ~OnProcessDied(q)
    BY <1>1, <1>6, <2>2 DEF AppMgrReports, OnProcessForeground, OnProcessBackground,
       OnAppCacheStateChanged
  <2> QED
    BY <2>1, <2>2
<1>7. CASE ExitWhenAppMgrDied \/ ServiceStops \/ \E q \in Pid : ProcessStart(q)
  BY <1>1, <1>7 DEF ExitWhenAppMgrDied, ServiceStops, ProcessStart
<1>8. CASE UNCHANGED vars
  BY <1>1, <1>8 DEF vars
<1> QED
  BY <1>1, <1>4, <1>5, <1>6, <1>7, <1>8, ObserverFrame, UserClosesFrame, DialogFrame, HandlerFrame
     DEF Next

LEMMA LiveShrinks ==
    ASSUME [Next]_vars, NEW p \in live, p \notin live'
    PROVE  OnProcessDied(p)
<1>1. ASSUME NEW q \in Pid, AppMgrReports(q)
      PROVE  OnProcessDied(p)
  BY <1>1 DEF AppMgrReports, OnProcessForeground, OnProcessBackground, OnProcessDied,
     OnAppCacheStateChanged
<1> QED
  BY <1>1, ProcChanges DEF procVars, ProcessStart, ExitWhenAppMgrDied

LEMMA PromptStep ==
    TypesInv /\ TableInv /\ CallsOwn /\ PromptInv /\ [Next]_vars => PromptInv'
<1> SUFFICES ASSUME TypesInv, TableInv, CallsOwn, PromptInv, [Next]_vars, ~LateCalls
             PROVE  /\ \A c \in Caller : InFlight(c)' =>
                          call'[c].pid \in live' /\ call'[c].token = procToken'[call'[c].pid]
                    /\ \A p \in registered' :
                          /\ p \in live' => entryToken'[p] = procToken'[p]
                          /\ p \notin live' =>
                                observing' \in {Report("died", p), Report("clearing", p)}
                    /\ EntitiesMatchEntry'
                    /\ CleanStart'
  BY DEF PromptInv
<1>0. TableInv' /\ TypesInv'
  BY TableStep, TypesStep
<1>1. ASSUME NEW c \in Caller, call'[c] # NoCall
      PROVE  call'[c].pid \in live' /\ call'[c].token = procToken'[call'[c].pid]
  <2>1. CASE Goes(c)
    BY <2>1, CallerStays DEF Goes
  <2>2. CASE Begun(c)
    BY <2>2 DEF Begun, procVars
  <2> QED
    BY <1>1, <2>1, <2>2, CallsGo
<1>2. ASSUME NEW c \in Caller, NEW p, EntersTable(c, p)
      PROVE  p \in live' /\ entryToken'[p] = procToken'[p]
  BY <1>2, CallerStays DEF EntersTable
<1>3. ASSUME NEW p \in registered'
      PROVE  /\ p \in live' => entryToken'[p] = procToken'[p]
             /\ p \notin live' => observing' \in {Report("died", p), Report("clearing", p)}
  BY <1>2, Reported, TableGrows
<1>4. ASSUME NEW p \in Pid, NEW e \in compList'[p]
      PROVE  e.token = entryToken'[p]
  <2>1. p \in registered'
    BY <1>0 DEF TableInv
  <2>2. CASE e \in compList[p]
    <3>1. p \in registered /\ e.token = entryToken[p]
      BY <2>2 DEF TableInv, PromptInv, EntitiesMatchEntry
    <3> QED
      BY <2>1, <3>1, TableGrows DEF EntersTable
  <2>3. ASSUME NEW c \in Caller, InFlight(c), call[c].kind = "register",
               call[c].pid = p, e = call[c].comp
        PROVE  e.token = entryToken'[p]
    <3>1. e.token = call[c].token
      BY <2>3 DEF CallsOwn
    <3> QED
      BY <1>3, <2>1, <2>3, <3>1, CallerStays
  <2> QED
    BY <2>2, <2>3, ListGrows
<1>5. EntitiesMatchEntry'
  BY <1>0, <1>4 DEF EntitiesMatchEntry, TableInv
<1>6. ASSUME NEW p \in Pid, p \notin live'
      PROVE  p \notin maliciousAppList' /\ maliciousFailCount'[p] = 0
  <2>1. CASE OnProcessDied(p)
    BY <2>1 DEF TypesInv, TypeOK, Malicious!MaliciousTypeOK, OnProcessDied,
       Malicious!RemoveAppFromMaliciousAppList
  <2>2. CASE ~OnProcessDied(p)
    <3>1. p \notin live
      BY <1>6, <2>2, LiveShrinks
    <3>2. p \notin maliciousAppList /\ maliciousFailCount[p] = 0
      BY <3>1 DEF PromptInv, CleanStart
    <3>3. ~\E c \in Caller : InFlight(c) /\ call[c].pid = p
      BY <3>1 DEF PromptInv
    <3> QED
      BY <2>2, <3>1, <3>2, <3>3, MaliciousTouches
  <2> QED
    BY <2>1, <2>2
<1>7. CleanStart'
  BY <1>6 DEF CleanStart
<1> QED
  BY <1>1, <1>3, <1>5, <1>7 DEF InFlight
-----------------------------------------------------------------------------
(* Lock C: a click whose report was accepted keeps it.                     *)

LEMMA AppMgrStaysDead ==
    ASSUME [Next]_vars, appMgrAlive'
    PROVE  appMgrAlive /\ ~ExitWhenAppMgrDied
BY ProcChanges DEF procVars, ProcessStart, AppMgrReports, ExitWhenAppMgrDied

LEMMA LockingStarts ==
    ASSUME TypesInv, [Next]_vars, NEW c \in Caller, Locking(c)'
    PROVE  \/ Locking(c) /\ call'[c].pid = call[c].pid /\ call'[c].comp = call[c].comp
           \/ /\ AcceptClick(c) /\ InFlight(c)
              /\ call'[c].pid = call[c].pid /\ call'[c].comp \in Named(c)
<1>1. call'[c] # NoCall /\ call'[c].stage # "begun"
  BY DEF Locking, InFlight
<1>2. Goes(c)
  BY <1>1, CallsGo DEF Begun
<1>3. CASE Stays(c)
  BY <1>1, <1>2, <1>3 DEF Goes, Stays, Locking
<1>4. CASE Advances(c)
  BY <1>2, <1>4 DEF Goes, Advances, Locking, ClickToast, ClickSave, ClickAt
<1> QED
  BY <1>2, <1>3, <1>4 DEF Goes

\* An accepted click finds lock C free, and leaves the other calls alone.
LEMMA AcceptedAlone ==
    ASSUME TypesInv, NEW c \in Caller, AcceptClick(c)
    PROVE  /\ \A d \in Caller : ~Locking(d)
           /\ observing.report # "clearing"
           /\ UNCHANGED <<observing, tableVars>>
           /\ \A d \in Caller : d # c => call'[d] = call[d]
<1>1. call \in [Caller -> Call \cup {NoCall}]
  BY DEF TypesInv, TypeOK, TableTypeOK
<1> QED
  BY <1>1 DEF AcceptClick, Enters, LockFreeC, Locking

\* While a click has lock C, componentMap_ stays as it is.
LEMMA LockKeepsTable ==
    ASSUME LockInv, [Next]_vars, NEW c \in Caller, Locking(c)
    PROVE  UNCHANGED tableVars
<1>1. ~LockFreeC /\ observing.report # "clearing"
  BY DEF LockInv, LockFreeC, Locking
<1>2. ASSUME NEW d \in Caller,
             \/ AddSecurityComponentToList(d)
             \/ AddSecurityComponentProcess(d)
             \/ DeleteSecurityComponentFromList(d)
      PROVE  FALSE
  BY <1>1, <1>2 DEF AddSecurityComponentToList, AddSecurityComponentProcess,
     DeleteSecurityComponentFromList, Enters
<1> QED
  BY <1>1, <1>2, TableChanges DEF NotifyProcessDied, ExitWhenAppMgrDied

\* A report that is being cleared up was taken with its dialogs removed.
LEMMA ClearingStarts ==
    ASSUME [Next]_vars, observing'.report = "clearing", observing' # observing
    PROVE  RemoveDialogWaitEntitys
<1>1. ASSUME NEW p \in Pid, AppMgrReports(p)
      PROVE  FALSE
  BY <1>1 DEF AppMgrReports, OnProcessForeground, OnProcessBackground, OnProcessDied,
     OnAppCacheStateChanged, Report
<1>2. CASE ObserverStep
  BY <1>2 DEF ObserverStep, IgnoreReport, NotifyProcessForeground, NotifyProcessBackground,
     NotifyProcessDied, Silent
<1> QED
  BY <1>1, <1>2, ProcChanges DEF ProcessStart, ExitWhenAppMgrDied

LEMMA LockStep == TypesInv /\ LockInv /\ [Next]_vars => LockInv'
<1> SUFFICES ASSUME TypesInv, LockInv, [Next]_vars
             PROVE  LockInv'
  OBVIOUS
<1>1. ASSUME NEW c \in Caller, NEW d \in Caller, Locking(c)', Locking(d)', AcceptClick(c)
      PROVE  c = d
  <2>1. ASSUME c # d
        PROVE  Locking(d)
    BY <1>1, <2>1, AcceptedAlone DEF Locking, InFlight
  <2> QED
    BY <1>1, <2>1, AcceptedAlone
<1>2. ASSUME NEW c \in Caller, NEW d \in Caller, Locking(c)', Locking(d)'
      PROVE  c = d
  <2>1. CASE AcceptClick(c) \/ AcceptClick(d)
    BY <1>1, <1>2, <2>1
  <2>2. CASE ~AcceptClick(c) /\ ~AcceptClick(d)
    BY <1>2, <2>2, LockingStarts DEF LockInv
  <2> QED
    BY <2>1, <2>2
<1>3. ASSUME observing'.report = "clearing", NEW c \in Caller, Locking(c)'
      PROVE  FALSE
  <2>1. CASE AcceptClick(c)
    BY <1>3, <2>1, AcceptedAlone
  <2>2. CASE ~AcceptClick(c)
    <3>1. Locking(c)
      BY <1>3, <2>2, LockingStarts
    <3>2. observing.report # "clearing"
      BY <3>1 DEF LockInv
    <3>3. LockFreeC
      BY <1>3, <3>2, ClearingStarts DEF RemoveDialogWaitEntitys
    <3> QED
      BY <3>1, <3>3 DEF LockFreeC, Locking
  <2> QED
    BY <2>1, <2>2
<1>4. ASSUME NEW c \in Caller, Locking(c)'
      PROVE  call'[c].comp \in compList'[call'[c].pid]
  <2>1. CASE Locking(c) /\ call'[c].pid = call[c].pid /\ call'[c].comp = call[c].comp
    BY <2>1, LockKeepsTable DEF LockInv, tableVars
  <2>2. CASE AcceptClick(c) /\ call'[c].pid = call[c].pid /\ call'[c].comp \in Named(c)
    BY <2>2, AcceptedAlone DEF Named, tableVars
  <2> QED
    BY <1>4, <2>1, <2>2, LockingStarts
<1> QED
  BY <1>2, <1>3, <1>4 DEF LockInv

\* A click that goes on is that of a listed component.
LEMMA ClickListed ==
    ASSUME TypesInv, LockInv, NEW c \in Caller, NEW stage, ClickAt(c, stage), stage # "begun"
    PROVE  /\ Locking(c) /\ call[c].pid \in Pid
           /\ call[c].comp \in compList[call[c].pid]
           /\ call[c].comp \in Entity /\ call[c].comp.token \in Token
           /\ observing.report # "clearing"
<1>1. Locking(c)
  BY DEF ClickAt, Locking
<1>2. call[c].pid \in Pid
  BY <1>1, InFlightCall DEF TypesInv, Locking
<1> QED
  BY <1>1, <1>2, ClickEntity DEF LockInv, TypesInv
-----------------------------------------------------------------------------
(* Which calls are tracked.                                                *)

\* The calls of a process lose track of it when it leaves componentMap_.
LEMMA DeathUntracks ==
    ASSUME TypesInv, NotifyProcessDied, NEW c \in Caller, InFlight(c),
           call[c].pid = observing.pid
    PROVE  ~call'[c].tracked
<1>1. call[c] \in Call
  BY InFlightCall DEF TypesInv
<1>2. call'[c] = [call[c] EXCEPT !.tracked = FALSE]
  BY DEF NotifyProcessDied, Untrack
<1>3. call'[c].tracked = FALSE
  BY <1>1, <1>2 DEF Call
<1> QED
  BY <1>3

LEMMA TrackStep == TypesInv /\ TrackInv /\ [Next]_vars => TrackInv'
<1> SUFFICES ASSUME TypesInv, TrackInv, [Next]_vars, appMgrAlive',
                    NEW c \in Caller, call'[c] # NoCall, call'[c].tracked
             PROVE  call'[c].pid \in registered'
  BY DEF TrackInv, InFlight
<1>1. appMgrAlive /\ ~ExitWhenAppMgrDied
  BY AppMgrStaysDead
<1>2. CASE Begun(c)
  BY <1>2 DEF Begun, tableVars
<1>3. CASE Goes(c)
  <2>1. /\ InFlight(c) /\ call[c].tracked /\ call'[c].pid = call[c].pid
        /\ call[c].pid \in registered
    BY <1>1, <1>3 DEF Goes, TrackInv
  <2>2. ~(NotifyProcessDied /\ observing.pid = call[c].pid)
    BY <2>1, DeathUntracks
  <2> QED
    BY <1>1, <2>1, <2>2, TableShrinks
<1> QED
  BY <1>2, <1>3, CallsGo
-----------------------------------------------------------------------------
(* The entities that wait for a dialog.                                    *)

\* An entity comes to wait by a click on a listed component, under both locks.
LEMMA WaitGrows ==
    ASSUME TypesInv, TableInv, LockInv, [Next]_vars, NEW e \in dialogWait', e \notin dialogWait
    PROVE  /\ \E p \in registered : e \in compList[p]
           /\ observing.report # "clearing"
           /\ UNCHANGED <<procVars, observing, tableVars, closing>>
<1>1. ASSUME NEW c \in Caller, ClickDialog(c)
      PROVE  /\ \E p \in registered : e \in compList[p]
             /\ observing.report # "clearing"
             /\ UNCHANGED <<procVars, observing, tableVars, closing>>
  <2>1. ClickAt(c, "checked") /\ UNCHANGED <<procVars, observing, tableVars, closing>>
    BY <1>1 DEF ClickDialog
  <2>2. e = call[c].comp
    BY <1>1 DEF ClickDialog
  <2> QED
    BY <2>1, <2>2, ClickListed DEF TableInv
<1>2. ASSUME NEW c \in Caller, CallerEnds(c), ~ClickDialog(c)
      PROVE  dialogWait' = dialogWait
  BY <1>2 DEF CallerEnds, AddSecurityComponentToList, AddSecurityComponentProcess,
     DeleteSecurityComponentFromList, UpdateSecurityComponent, RefuseClick, FailClick,
     AcceptClick, ClickPaste, ClickToast, ClickSave, ClickSaveEnd, dialogVars
<1>3. CASE ObserverStep
  BY <1>3 DEF ObserverStep, IgnoreReport, NotifyProcessForeground, NotifyProcessBackground,
     RemoveDialogWaitEntitys, NotifyProcessDied, dialogVars
<1>4. CASE UserClosesDialog
  BY <1>4 DEF UserClosesDialog, CloseWithoutGrant, GrantDialogWaitEntity
<1>5. CASE DialogStep
  BY <1>5 DEF DialogStep, GrantDialogWaitEntityEnd, ReadConfirmedType, SetFirstUseMap
<1>6. CASE ExitWhenAppMgrDied \/ ServiceStops \/ \E p \in Pid : ProcessStart(p) \/ AppMgrReports(p)
  BY <1>6 DEF ExitWhenAppMgrDied, ServiceStops, ProcessStart, AppMgrReports, dialogVars
<1>7. CASE UNCHANGED vars
  BY <1>7 DEF vars, dialogVars
<1> QED
  BY <1>1, <1>2, <1>3, <1>4, <1>5, <1>6, <1>7, CallerBeginsFrame, HandlerFrame
     DEF Next, dialogVars

\* Lock U guards what waits: while a dialog grants an entity, only that
\* dialog takes entities out.
LEMMA GrantBegins ==
    ASSUME NEW d, GrantDialogWaitEntity(d)
    PROVE  closing' = closing \/ (closing'.comp = d.comp /\ dialogWait' = dialogWait)
<1>1. \/ closing' = closing
      \/ \E type : closing' = [comp |-> d.comp, type |-> type] /\ dialogWait' = dialogWait
  BY DEF GrantDialogWaitEntity
<1>2. ASSUME NEW type, closing' = [comp |-> d.comp, type |-> type]
      PROVE  closing'.comp = d.comp
  BY <1>2
<1> QED
  BY <1>1, <1>2

LEMMA ClosingStays ==
    ASSUME [Next]_vars, closing # NoGrant => closing.comp \in dialogWait, closing' # NoGrant
    PROVE  closing'.comp \in dialogWait'
<1>1. ASSUME UNCHANGED <<closing, dialogWait>>
      PROVE  closing'.comp \in dialogWait'
  BY <1>1
<1>2. ASSUME NEW c \in Caller, CallerEnds(c)
      PROVE  closing'.comp \in dialogWait'
  <2>1. CASE ClickDialog(c)
    BY <2>1 DEF ClickDialog, LockFreeU
  <2>2. CASE ~ClickDialog(c)
    BY <1>1, <1>2, <2>2 DEF CallerEnds, AddSecurityComponentToList, AddSecurityComponentProcess,
       DeleteSecurityComponentFromList, UpdateSecurityComponent, RefuseClick, FailClick,
       AcceptClick, ClickPaste, ClickToast, ClickSave, ClickSaveEnd, dialogVars
  <2> QED
    BY <2>1, <2>2
<1>3. CASE ObserverStep
  BY <1>1, <1>3 DEF ObserverStep, IgnoreReport, NotifyProcessForeground, NotifyProcessBackground,
     RemoveDialogWaitEntitys, NotifyProcessDied, dialogVars, LockFreeU
<1>4. CASE UserClosesDialog
  <2>1. PICK d \in openDialogs : CloseWithoutGrant(d) \/ GrantDialogWaitEntity(d)
    BY <1>4 DEF UserClosesDialog
  <2>2. CASE CloseWithoutGrant(d)
    BY <1>1, <2>2 DEF CloseWithoutGrant
  <2>3. CASE GrantDialogWaitEntity(d)
    <3>1. d.comp \in dialogWait /\ LockFreeU
      BY <2>3 DEF GrantDialogWaitEntity
    <3>2. \/ closing'.comp = d.comp /\ dialogWait' = dialogWait
          \/ closing' = closing
      BY <2>3, GrantBegins
    <3> QED
      BY <3>1, <3>2 DEF LockFreeU
  <2> QED
    BY <2>1, <2>2, <2>3
<1>5. CASE DialogStep
  BY <1>1, <1>5 DEF DialogStep, GrantDialogWaitEntityEnd, ReadConfirmedType, SetFirstUseMap
<1>6. CASE ExitWhenAppMgrDied \/ ServiceStops \/ \E p \in Pid : ProcessStart(p) \/ AppMgrReports(p)
  BY <1>1, <1>6 DEF ExitWhenAppMgrDied, ServiceStops, ProcessStart, AppMgrReports, dialogVars
<1>7. CASE UNCHANGED vars
  BY <1>1, <1>7 DEF vars, dialogVars
<1> QED
  BY <1>1, <1>2, <1>3, <1>4, <1>5, <1>6, <1>7, CallerBeginsFrame, HandlerFrame
     DEF Next, dialogVars

LEMMA WaitStep ==
    TypesInv /\ TableInv /\ LockInv /\ PromptInv /\ WaitInv /\ [Next]_vars => WaitInv'
<1> SUFFICES ASSUME TypesInv, TableInv, LockInv, PromptInv, WaitInv, [Next]_vars
             PROVE  WaitInv'
  OBVIOUS
<1>1. closing' # NoGrant => closing'.comp \in dialogWait'
  BY ClosingStays DEF WaitInv
<1>2. ASSUME observing'.report = "clearing", NEW e \in dialogWait'
      PROVE  e.pid # observing'.pid
  <2>1. CASE observing' = observing
    <3>1. e \in dialogWait
      BY <1>2, <2>1, WaitGrows
    <3> QED
      BY <1>2, <2>1, <3>1 DEF WaitInv
  <2>2. CASE observing' # observing
    BY <1>2, <2>2, ClearingStarts DEF RemoveDialogWaitEntitys, Report
  <2> QED
    BY <2>1, <2>2
<1>3. ASSUME appMgrAlive', NEW e \in dialogWait'
      PROVE  /\ e.pid \in registered'
             /\ ~LateCalls => e.token = entryToken'[e.pid]
  <2>1. appMgrAlive /\ ~ExitWhenAppMgrDied
    BY <1>3, AppMgrStaysDead
  <2>2. CASE e \in dialogWait
    <3>1. e.pid \in registered /\ (~LateCalls => e.token = entryToken[e.pid])
      BY <2>1, <2>2 DEF WaitInv, WaitersRegistered
    <3>2. ~(NotifyProcessDied /\ observing.pid = e.pid)
      BY <2>2 DEF NotifyProcessDied, WaitInv
    <3>3. e.pid \in registered'
      BY <2>1, <3>1, <3>2, TableShrinks
    <3> QED
      BY <3>1, <3>3, TableGrows DEF EntersTable
  <2>3. CASE e \notin dialogWait
    <3>1. UNCHANGED <<registered, entryToken>>
      BY <2>3, WaitGrows DEF tableVars
    <3>2. PICK p \in registered : e \in compList[p]
      BY <2>3, WaitGrows
    <3>3. p \in Pid
      BY DEF TypesInv, TypeOK, TableTypeOK
    <3>4. e.pid = p /\ (~LateCalls => e.token = entryToken[p])
      BY <3>2, <3>3 DEF TableInv, PromptInv, EntitiesMatchEntry
    <3> QED
      BY <3>1, <3>4
  <2> QED
    BY <2>2, <2>3
<1> QED
  BY <1>1, <1>2, <1>3 DEF WaitInv, WaitersRegistered
-----------------------------------------------------------------------------
(* The save permission.  A grant is cut in two, and whoever grants keeps    *)
(* the lock it found its component, or its waiting entity, under.          *)

\* A click that asked, or grants, after a step did so before it, or begins to.
LEMMA GrantingStarts ==
    ASSUME TypesInv, [Next]_vars, NEW c \in Caller, InFlight(c)',
           call'[c].stage \in {"asked", "granting"}
    PROVE  /\ InFlight(c) /\ call'[c].comp = call[c].comp
           /\ \/ call'[c].stage = call[c].stage
              \/ ClickToast(c) /\ call'[c].stage = "asked"
              \/ ClickSave(c) /\ call'[c].stage = "granting"
BY CallsGo DEF InFlight, Goes, Begun, Stays, Advances

\* Who makes the revoke tasks, and the counts, of save permissions.
LEMMA SaveMoves ==
    ASSUME TypesInv, [Next]_vars
    PROVE  \/ /\ UNCHANGED grantingSave
              /\ \A t \in Token : applySaveCount'[t] # 0 => applySaveCount[t] # 0
           \/ \E c \in Caller : ClickSave(c) \/ ClickSaveEnd(c)
           \/ \E d \in openDialogs : GrantDialogWaitEntity(d) /\ Save!DelaySaveRevokePermission("dialog", d.comp.token)
           \/ GrantDialogWaitEntityEnd /\ Save!PushSaveTask("dialog")
<1> DEFINE Keeps == /\ UNCHANGED grantingSave
                    /\ \A t \in Token : applySaveCount'[t] # 0 => applySaveCount[t] # 0
<1>0. Save!SaveTypeOK
  BY DEF TypesInv, TypeOK
<1>1. ASSUME UNCHANGED saveVars
      PROVE  Keeps
  BY <1>1 DEF saveVars
<1>2. ASSUME NEW T, Save!RevokeTempSavePermission(T)
      PROVE  Keeps
  BY <1>2 DEF Save!RevokeTempSavePermission
<1>3. ASSUME NEW c \in Caller, CallerEnds(c), ~ClickSave(c), ~ClickSaveEnd(c)
      PROVE  Keeps
  BY <1>1, <1>3 DEF CallerEnds, AddSecurityComponentToList, AddSecurityComponentProcess,
     DeleteSecurityComponentFromList, UpdateSecurityComponent, RefuseClick, FailClick,
     AcceptClick, ClickPaste, ClickToast, ClickDialog
<1>4. CASE ObserverStep
  <2>1. CASE NotifyProcessDied
    BY <1>2, <2>1 DEF NotifyProcessDied
  <2>2. CASE ~NotifyProcessDied
    BY <1>1, <1>4, <2>2 DEF ObserverStep, IgnoreReport, NotifyProcessForeground,
       NotifyProcessBackground, RemoveDialogWaitEntitys
  <2> QED
    BY <2>1, <2>2
<1>5. CASE ExitWhenAppMgrDied
  BY <1>2, <1>5 DEF ExitWhenAppMgrDied
<1>6. ASSUME NEW d \in openDialogs, CloseWithoutGrant(d) \/ GrantDialogWaitEntity(d)
      PROVE  \/ UNCHANGED saveVars
             \/ GrantDialogWaitEntity(d) /\ Save!DelaySaveRevokePermission("dialog", d.comp.token)
  BY <1>6 DEF CloseWithoutGrant, GrantDialogWaitEntity
<1>7. CASE DialogStep
  <2>1. \/ UNCHANGED saveVars
        \/ GrantDialogWaitEntityEnd /\ Save!PushSaveTask("dialog")
    BY <1>7 DEF DialogStep, GrantDialogWaitEntityEnd, ReadConfirmedType, SetFirstUseMap
  <2> QED
    BY <1>1, <2>1
<1>8. CASE HandlerStep
  <2>1. CASE DispatchSaveRevoke
    BY <2>1 DEF DispatchSaveRevoke, Save!FireSaveTask
  <2>2. CASE SaveRevoke
    <3>1. firedSave.token \in Token
      BY <1>0, <2>2, FiredToken DEF SaveRevoke, Save!RevokeTempSavePermissionCount
    <3>2. applySaveCount \in [Token -> Nat]
      BY <1>0 DEF Save!SaveTypeOK
    <3>3. /\ UNCHANGED grantingSave
          /\ \/ UNCHANGED applySaveCount
             \/ /\ applySaveCount[firedSave.token] # 0
                /\ applySaveCount' = [applySaveCount EXCEPT ![firedSave.token] = @ - 1]
      BY <2>2 DEF SaveRevoke, Save!RevokeTempSavePermissionCount
    <3> QED
      BY <3>1, <3>2, <3>3
  <2>3. CASE ~DispatchSaveRevoke /\ ~SaveRevoke
    <3>1. UNCHANGED saveVars
      BY <1>8, <2>3 DEF HandlerStep, DispatchExit, ExitSaProcess, DispatchRevoke, RevokeAll,
         SaveFirstUseRecord, WriteCfgContent
    <3> QED
      BY <1>1, <3>1
  <2> QED
    BY <2>1, <2>2, <2>3
<1>9. CASE ServiceStops \/ \E p \in Pid : ProcessStart(p) \/ AppMgrReports(p)
  BY <1>1, <1>9 DEF ServiceStops, ProcessStart, AppMgrReports
<1>10. CASE UNCHANGED vars
  BY <1>1, <1>10 DEF vars
<1> QED
  BY <1>1, <1>3, <1>4, <1>5, <1>6, <1>7, <1>8, <1>9, <1>10, CallerBeginsFrame
     DEF Next, UserClosesDialog

\* The first half of a grant leaves the name its second half will push.
LEMMA NameLeft ==
    ASSUME Save!SaveTypeOK, NEW p \in Path, NEW t \in Token, Save!DelaySaveRevokePermission(p, t)
    PROVE  /\ grantingSave'[p] # NoName /\ grantingSave'[p].token = t
           /\ \A q \in Path : q # p => grantingSave'[q] = grantingSave[q]
           /\ UNCHANGED applySaveCount
<1> DEFINE n == [token |-> t, id |-> issued + 1]
<1>1. n \in Save!Name
  BY ManagerAssumption DEF Save!DelaySaveRevokePermission, Save!SaveTypeOK, Save!Name
<1>2. n # NoName
  BY <1>1, ManagerAssumption DEF Save!Name
<1>3. grantingSave' = [grantingSave EXCEPT ![p] = n] /\ UNCHANGED applySaveCount
  BY DEF Save!DelaySaveRevokePermission
<1>4. grantingSave \in [Path -> Save!Name \cup {NoName}]
  BY DEF Save!SaveTypeOK
<1>5. n.token = t
  OBVIOUS
<1> HIDE DEF n
<1> QED
  BY <1>2, <1>3, <1>4, <1>5

\* The second half counts a grant of the token the name was left for.
LEMMA NamePushed ==
    ASSUME Save!SaveTypeOK, NEW p \in Path, Save!PushSaveTask(p)
    PROVE  /\ \A q \in Path : q # p => grantingSave'[q] = grantingSave[q]
           /\ \A u \in Token : u # grantingSave[p].token => applySaveCount'[u] = applySaveCount[u]
BY DEF Save!PushSaveTask, Save!SaveTypeOK

LEMMA PathsAre == "click" \in Path /\ "dialog" \in Path
BY ManagerAssumption

LEMMA AskedStays ==
    ASSUME TypesInv, [Next]_vars, NEW t \in firstUseMap
    PROVE  t \in firstUseMap'
<1>1. RecordStep
  BY RecordSteps DEF TypesInv
<1> QED
  BY <1>1 DEF RecordStep, recordVars, Record!SetFirstUseMap, Record!SaveFirstUseRecord,
     Record!WriteCfgContent

LEMMA ClickSavesStep ==
    TypesInv /\ LockInv /\ SaveInv /\ [Next]_vars => ClickSaves'
<1> SUFFICES ASSUME TypesInv, LockInv, SaveInv, [Next]_vars, NEW c \in Caller, InFlight(c)',
                    call'[c].stage \in {"asked", "granting"}
             PROVE  /\ call'[c].comp.token \in firstUseMap'
                    /\ call'[c].stage = "granting" =>
                          /\ grantingSave'["click"] # NoName
                          /\ grantingSave'["click"].token = call'[c].comp.token
  BY DEF ClickSaves
<1>0. TypeOK /\ Save!SaveTypeOK
  BY DEF TypesInv, TypeOK
<1>1. InFlight(c) /\ call'[c].comp = call[c].comp
  BY GrantingStarts
<1>2. CASE ClickToast(c) /\ call'[c].stage = "asked"
  BY <1>1, <1>2, AskedStays DEF ClickToast, Record!NoNeedNotify
<1>3. CASE ClickSave(c)
  <2>1. /\ ClickAt(c, "asked")
        /\ Save!DelaySaveRevokePermission("click", call[c].comp.token)
    BY <1>3 DEF ClickSave
  <2>2. call[c].comp.token \in Token
    BY <2>1, ClickListed
  <2>3. call[c].comp.token \in firstUseMap
    BY <2>1 DEF ClickAt, SaveInv, ClickSaves
  <2> QED
    BY <1>0, <1>1, <2>1, <2>2, <2>3, NameLeft, PathsAre, AskedStays
<1>4. CASE call'[c].stage = call[c].stage
  <2>1. /\ call[c].comp.token \in firstUseMap
        /\ call[c].stage = "granting" =>
              /\ grantingSave["click"] # NoName
              /\ grantingSave["click"].token = call[c].comp.token
    BY <1>1, <1>4 DEF SaveInv, ClickSaves
  <2>2. Locking(c)
    BY <1>1, <1>4 DEF Locking
  <2>3. ASSUME call[c].stage = "granting"
        PROVE  grantingSave'["click"] = grantingSave["click"]
    <3>1. ASSUME NEW d \in Caller, ClickSave(d)
          PROVE  FALSE
      <4>1. Locking(d) /\ call[d].stage = "asked"
        BY <3>1 DEF ClickSave, ClickAt, Locking
      <4> QED
        BY <2>2, <2>3, <4>1 DEF LockInv
    <3>2. ASSUME NEW d \in Caller, ClickSaveEnd(d)
          PROVE  FALSE
      <4>1. d = c
        BY <2>2, <3>2 DEF ClickSaveEnd, ClickAt, Locking, LockInv
      <4>2. call' = [call EXCEPT ![c] = NoCall]
        BY <3>2, <4>1 DEF ClickSaveEnd, Answer
      <4>3. call'[c] = NoCall
        BY <1>0, <4>2 DEF TypeOK, TableTypeOK
      <4> QED
        BY <4>3 DEF InFlight
    <3>3. ASSUME NEW d \in openDialogs, Save!DelaySaveRevokePermission("dialog", d.comp.token)
          PROVE  grantingSave'["click"] = grantingSave["click"]
      <4>1. d.comp.token \in Token
        BY <1>0 DEF TypeOK, DialogTypeOK, Entity
      <4> QED
        BY <1>0, <3>3, <4>1, NameLeft, PathsAre
    <3>4. ASSUME Save!PushSaveTask("dialog")
          PROVE  grantingSave'["click"] = grantingSave["click"]
      BY <1>0, <3>4, NamePushed, PathsAre
    <3> QED
      BY <3>1, <3>2, <3>3, <3>4, SaveMoves
  <2> QED
    BY <1>1, <1>4, <2>1, <2>3, AskedStays
<1> QED
  BY <1>2, <1>3, <1>4, GrantingStarts

\* The grant a dialog is in the middle of changes by dialogs only.
LEMMA ClosingChanges ==
    ASSUME [Next]_vars
    PROVE  \/ UNCHANGED closing
           \/ GrantDialogWaitEntityEnd
           \/ \E d \in openDialogs : /\ GrantDialogWaitEntity(d)
                                     /\ UNCHANGED typeVars
                                     /\ closing'.comp = d.comp
                                     /\ closing'.type = compType[d.comp.id]
<1>1. CASE UserClosesDialog
  <2>1. PICK d \in openDialogs : CloseWithoutGrant(d) \/ GrantDialogWaitEntity(d)
    BY <1>1 DEF UserClosesDialog
  <2>2. CASE CloseWithoutGrant(d)
    BY <2>2 DEF CloseWithoutGrant
  <2>3. CASE GrantDialogWaitEntity(d)
    <3>1. \/ UNCHANGED closing
          \/ closing' = [comp |-> d.comp, type |-> compType[d.comp.id]]
      BY <2>3 DEF GrantDialogWaitEntity
    <3>2. UNCHANGED typeVars
      BY <2>3 DEF GrantDialogWaitEntity
    <3> QED
      BY <2>3, <3>1, <3>2
  <2> QED
    BY <2>1, <2>2, <2>3
<1>2. CASE DialogStep
  BY <1>2 DEF DialogStep, ReadConfirmedType, SetFirstUseMap
<1>3. CASE ExitWhenAppMgrDied \/ ServiceStops \/ \E p \in Pid : ProcessStart(p) \/ AppMgrReports(p)
  BY <1>3 DEF ExitWhenAppMgrDied, ServiceStops, ProcessStart, AppMgrReports, dialogVars
<1>4. CASE UNCHANGED vars
  BY <1>4 DEF vars, dialogVars
<1> QED
  BY <1>1, <1>2, <1>3, <1>4, CallerBeginsFrame, CallerEndsFrame, ObserverFrame, HandlerFrame
     DEF Next, dialogVars

LEMMA DialogSavesStep ==
    TypesInv /\ LockInv /\ SaveInv /\ [Next]_vars => DialogSaves'
<1> SUFFICES ASSUME TypesInv, LockInv, SaveInv, [Next]_vars,
                    closing' # NoGrant, closing'.type = "SAVE"
             PROVE  /\ grantingSave'["dialog"] # NoName
                    /\ grantingSave'["dialog"].token = closing'.comp.token
  BY DEF DialogSaves
<1>0. TypeOK /\ Save!SaveTypeOK
  BY DEF TypesInv, TypeOK
<1>1. ASSUME NEW d \in openDialogs, GrantDialogWaitEntity(d)
      PROVE  /\ grantingSave'["dialog"] # NoName
             /\ grantingSave'["dialog"].token = closing'.comp.token
  <2>1. d.comp.token \in Token
    BY <1>0 DEF TypeOK, DialogTypeOK, Entity
  <2>2. CASE UNCHANGED <<closing, saveVars>>
    BY <2>2 DEF SaveInv, DialogSaves, saveVars
  <2>3. CASE /\ closing' = [comp |-> d.comp, type |-> compType[d.comp.id]]
             /\ Save!DelaySaveRevokePermission("dialog", d.comp.token)
    BY <1>0, <2>1, <2>3, NameLeft, PathsAre
  <2>4. CASE closing' = [comp |-> d.comp, type |-> compType[d.comp.id]]
             /\ compType[d.comp.id] = "LOCATION"
    BY <2>4
  <2> QED
    BY <1>1, <2>2, <2>3, <2>4 DEF GrantDialogWaitEntity
<1>2. CASE GrantDialogWaitEntityEnd
  BY <1>2 DEF GrantDialogWaitEntityEnd
<1>3. CASE UNCHANGED closing /\ ~GrantDialogWaitEntityEnd
           /\ ~\E d \in openDialogs : GrantDialogWaitEntity(d)
  <2>1. ASSUME NEW c \in Caller, ClickSave(c)
        PROVE  grantingSave'["dialog"] = grantingSave["dialog"]
    <3>1. /\ Save!DelaySaveRevokePermission("click", call[c].comp.token)
          /\ ClickAt(c, "asked")
      BY <2>1 DEF ClickSave
    <3>2. call[c].comp.token \in Token
      BY <3>1, ClickListed
    <3> QED
      BY <1>0, <3>1, <3>2, NameLeft, PathsAre
  <2>2. ASSUME NEW c \in Caller, ClickSaveEnd(c)
        PROVE  grantingSave'["dialog"] = grantingSave["dialog"]
    BY <1>0, <2>2, NamePushed, PathsAre DEF ClickSaveEnd
  <2>3. grantingSave'["dialog"] = grantingSave["dialog"]
    BY <1>3, <2>1, <2>2, SaveMoves
  <2> QED
    BY <1>3, <2>3 DEF SaveInv, DialogSaves
<1> QED
  BY <1>1, <1>2, <1>3, ClosingChanges

\* A save permission comes from a click on a listed component of a user that
\* was asked, or from the dialog that asks.
LEMMA SaveGrantedTo ==
    ASSUME TypesInv, LockInv, SaveInv, [Next]_vars, NEW t \in Token,
           applySaveCount[t] = 0, applySaveCount'[t] # 0
    PROVE  /\ UNCHANGED <<registered, entryToken>>
           /\ \/ /\ \E p \in Pid : \E e \in compList[p] : e.token = t
                 /\ t \in firstUseMap
              \/ /\ closing # NoGrant /\ closing.type = "SAVE" /\ closing.comp.token = t
                 /\ closing.comp \in confirmed'
                 /\ UNCHANGED typeVars
<1>0. TypeOK /\ Save!SaveTypeOK
  BY DEF TypesInv, TypeOK
<1>1. ASSUME NEW p \in Path, NEW u \in Token, Save!DelaySaveRevokePermission(p, u)
      PROVE  FALSE
  BY <1>1 DEF Save!DelaySaveRevokePermission
<1>2. ASSUME NEW c \in Caller, ClickSave(c)
      PROVE  FALSE
  <2>1. ClickAt(c, "asked")
    BY <1>2 DEF ClickSave
  <2>2. call[c].comp.token \in Token
    BY <2>1, ClickListed
  <2> QED
    BY <1>1, <1>2, <2>2, PathsAre DEF ClickSave
<1>3. ASSUME NEW d \in openDialogs, Save!DelaySaveRevokePermission("dialog", d.comp.token)
      PROVE  FALSE
  BY <1>0, <1>1, <1>3, PathsAre DEF TypeOK, DialogTypeOK, Entity
<1>4. ASSUME NEW c \in Caller, ClickSaveEnd(c)
      PROVE  /\ UNCHANGED <<registered, entryToken>>
             /\ \E p \in Pid : \E e \in compList[p] : e.token = t
             /\ t \in firstUseMap
  <2>1. ClickAt(c, "granting") /\ Save!PushSaveTask("click") /\ UNCHANGED tableVars
    BY <1>4 DEF ClickSaveEnd
  <2>2. t = call[c].comp.token /\ t \in firstUseMap
    BY <1>0, <2>1, NamePushed, PathsAre DEF SaveInv, ClickSaves, ClickAt
  <2>3. call[c].pid \in Pid /\ call[c].comp \in compList[call[c].pid]
    BY <2>1, ClickListed
  <2> QED
    BY <2>1, <2>2, <2>3 DEF tableVars
<1>5. ASSUME GrantDialogWaitEntityEnd, Save!PushSaveTask("dialog")
      PROVE  /\ UNCHANGED <<registered, entryToken, typeVars>>
             /\ closing # NoGrant /\ closing.type = "SAVE" /\ closing.comp.token = t
             /\ closing.comp \in confirmed'
  <2>1. closing # NoGrant /\ UNCHANGED <<tableVars, typeVars>>
    BY <1>5 DEF GrantDialogWaitEntityEnd
  <2>2. \/ UNCHANGED saveVars
        \/ closing.type = "SAVE" /\ confirmed' = confirmed \cup {closing.comp}
    BY <1>5 DEF GrantDialogWaitEntityEnd
  <2>3. closing.type = "SAVE" /\ closing.comp \in confirmed'
    BY <2>2 DEF saveVars
  <2>4. grantingSave["dialog"].token = closing.comp.token
    BY <2>1, <2>3 DEF SaveInv, DialogSaves
  <2>5. closing.comp.token = t
    BY <1>0, <1>5, <2>4, NamePushed, PathsAre
  <2> QED
    BY <2>1, <2>3, <2>5 DEF tableVars
<1> QED
  BY <1>2, <1>3, <1>4, <1>5, SaveMoves
-----------------------------------------------------------------------------
(* Ids and types.                                                          *)

\* What a dialog refers to comes from a click in flight or from a dialog.
LEMMA DialogRefers ==
    ASSUME TypesInv, [Next]_vars, NEW x,
           \/ x \in dialogWait'
           \/ \E d \in openDialogs' : x = d.comp
           \/ x # NoEntity /\ x = closing'.comp
           \/ x \in confirmed' \cup noting'
    PROVE  x \in Referenced
<1> DEFINE Shown == \/ x \in dialogWait
                    \/ \E d \in openDialogs : x = d.comp
                    \/ x # NoEntity /\ x = closing.comp
                    \/ x \in confirmed \cup noting
<1>0. TypeOK /\ (Shown => x \in Referenced)
  BY DEF TypesInv, Referenced
<1>1. ASSUME UNCHANGED dialogVars
      PROVE  Shown
  BY <1>1 DEF dialogVars
<1>2. ASSUME NEW c \in Caller, CallerEnds(c)
      PROVE  x \in Referenced
  <2>1. CASE ClickDialog(c)
    <3>1. InFlight(c) /\ call[c].comp \in Entity
      BY <2>1, ClickEntity DEF ClickDialog, ClickAt, TypesInv
    <3>2. call[c].comp \in InFlightComps
      BY <3>1 DEF InFlightComps, Entity, NoEntity
    <3>3. Shown \/ x = call[c].comp
      BY <2>1 DEF ClickDialog
    <3> QED
      BY <1>0, <3>2, <3>3 DEF Referenced
  <2>2. CASE ~ClickDialog(c)
    <3>1. UNCHANGED dialogVars
      BY <1>2, <2>2 DEF CallerEnds, AddSecurityComponentToList, AddSecurityComponentProcess,
       DeleteSecurityComponentFromList, UpdateSecurityComponent, RefuseClick, FailClick,
       AcceptClick, ClickPaste, ClickToast, ClickSave, ClickSaveEnd
    <3> QED
      BY <1>0, <1>1, <3>1
  <2> QED
    BY <2>1, <2>2
<1>3. CASE ObserverStep
  <2>1. dialogWait' \subseteq dialogWait
    BY <1>3 DEF ObserverStep, IgnoreReport, NotifyProcessForeground, NotifyProcessBackground,
                RemoveDialogWaitEntitys, NotifyProcessDied, dialogVars
  <2> QED
    BY <1>0, <1>3, <2>1, ObserverFrame
<1>4. ASSUME NEW d \in openDialogs, CloseWithoutGrant(d) \/ GrantDialogWaitEntity(d)
      PROVE  Shown
  <2>1. /\ dialogWait' \subseteq dialogWait
        /\ openDialogs' \subseteq openDialogs
        /\ UNCHANGED noting
    BY <1>4 DEF CloseWithoutGrant, GrantDialogWaitEntity
  <2>2. confirmed' \subseteq confirmed \cup {d.comp}
    BY <1>4 DEF CloseWithoutGrant, GrantDialogWaitEntity
  <2>3. UNCHANGED closing \/ closing'.comp = d.comp
    BY <1>4, GrantBegins DEF CloseWithoutGrant
  <2> QED
    BY <2>1, <2>2, <2>3
<1>5. CASE GrantDialogWaitEntityEnd
  <2>1. closing.comp # NoEntity
    BY <1>0, <1>5 DEF GrantDialogWaitEntityEnd, TypeOK, DialogTypeOK, Grant, Entity, NoEntity
  <2>2. /\ dialogWait' \subseteq dialogWait
        /\ closing'.comp = NoEntity
        /\ confirmed' \subseteq confirmed \cup {closing.comp}
        /\ UNCHANGED <<openDialogs, noting>>
    BY <1>5 DEF GrantDialogWaitEntityEnd, NoGrant
  <2> QED
    BY <1>0, <2>1, <2>2
<1>6. ASSUME NEW e, ReadConfirmedType(e) \/ SetFirstUseMap(e)
      PROVE  Shown
  BY <1>6 DEF ReadConfirmedType, SetFirstUseMap
<1>7. CASE ExitWhenAppMgrDied \/ ServiceStops \/ \E p \in Pid : ProcessStart(p) \/ AppMgrReports(p)
  BY <1>0, <1>1, <1>7 DEF ExitWhenAppMgrDied, ServiceStops, ProcessStart, AppMgrReports
<1>8. CASE UNCHANGED vars
  BY <1>0, <1>1, <1>8 DEF vars
<1> QED
  BY <1>0, <1>1, <1>2, <1>3, <1>4, <1>5, <1>6, <1>7, <1>8, CallerBeginsFrame, HandlerFrame
     DEF Next, UserClosesDialog, DialogStep

\* A new entity is that of a registration that has just begun.
LEMMA ReferencedGrows ==
    ASSUME TypesInv, [Next]_vars, NEW x \in Referenced', x \notin Referenced
    PROVE  \E c \in Caller : /\ Begun(c)
                             /\ call'[c] # NoCall
                             /\ call'[c].kind = "register"
                             /\ x = call'[c].comp
<1>0. TypeOK
  BY DEF TypesInv
<1>1. \/ \E p \in Pid : x \in compList'[p]
      \/ \E c \in Caller : call'[c] # NoCall /\ x = call'[c].comp /\ x # NoEntity
  <2>1. ~ \/ x \in dialogWait'
          \/ \E d \in openDialogs' : x = d.comp
          \/ x # NoEntity /\ x = closing'.comp
          \/ x \in confirmed' \cup noting'
    BY DialogRefers
  <2> QED
    BY <2>1 DEF Referenced, InFlightComps, InFlight
<1>2. ASSUME NEW p \in Pid, x \in compList'[p]
      PROVE  FALSE
  <2>1. x \notin compList[p]
    BY DEF Referenced
  <2>2. PICK c \in Caller : InFlight(c) /\ call[c].kind = "register" /\ x = call[c].comp
    BY <1>2, <2>1, ListGrows
  <2>3. x \in Entity
    BY <2>2 DEF TypesInv, CallsName
  <2>4. x \in InFlightComps
    BY <2>2, <2>3 DEF InFlightComps, Entity, NoEntity
  <2> QED
    BY <2>4 DEF Referenced
<1>3. ASSUME NEW c \in Caller, call'[c] # NoCall, x = call'[c].comp, x # NoEntity
      PROVE  Begun(c) /\ call'[c].kind = "register"
  <2>1. CASE Goes(c)
    <3>1. CASE x = call[c].comp
      <4>1. x \in InFlightComps
        BY <1>3, <2>1, <3>1 DEF Goes, InFlightComps
      <4> QED
        BY <4>1 DEF Referenced
    <3>2. CASE x \in Named(c)
      <4>1. call[c].pid \in Pid
        BY <1>0, <2>1, InFlightCall DEF Goes
      <4> QED
        BY <3>2, <4>1 DEF Named, Referenced
    <3> QED
      BY <1>3, <2>1, <3>1, <3>2 DEF Goes, Stays, Advances
  <2>2. CASE Begun(c)
    BY <1>3, <2>2 DEF Begun
  <2> QED
    BY <1>3, <2>1, <2>2, CallsGo
<1> QED
  BY <1>1, <1>2, <1>3

LEMMA UniqueIdsStep == TypesInv /\ UniqueIds /\ [Next]_vars => UniqueIds'
<1> SUFFICES ASSUME TypesInv, UniqueIds, [Next]_vars,
                    NEW e \in Referenced', NEW f \in Referenced', e.id = f.id
             PROVE  e = f
  BY DEF UniqueIds
<1>1. ASSUME NEW x \in Referenced
      PROVE  x.id \in IdsInUse
  BY DEF Referenced, IdsInUse
<1>2. CASE e \in Referenced /\ f \in Referenced
  BY <1>2 DEF UniqueIds
<1>3. ASSUME NEW x \in Referenced', x \notin Referenced
      PROVE  x.id \notin IdsInUse
  BY <1>3, ReferencedGrows DEF Begun
<1>4. CASE e \notin Referenced /\ f \notin Referenced
  <2>1. PICK c \in Caller : Begun(c) /\ call'[c] # NoCall /\ e = call'[c].comp
    BY <1>4, ReferencedGrows
  <2>2. PICK d \in Caller : Begun(d) /\ call'[d] # NoCall /\ f = call'[d].comp
    BY <1>4, ReferencedGrows
  <2>3. c = d
    BY <2>1, <2>2 DEF Begun, InFlight
  <2> QED
    BY <2>1, <2>2, <2>3
<1> QED
  BY <1>1, <1>2, <1>3, <1>4

\* A type changes when its id is given, or by a report.
LEMMA TypeChanges ==
    ASSUME TypesInv, [Next]_vars
    PROVE  \/ UNCHANGED typeVars
           \/ /\ UNCHANGED retyped
              /\ \E id \in ScId \ IdsInUse, ty \in Type : compType' = [compType EXCEPT ![id] = ty]
           \/ \E c \in Caller, ty \in Type :
                 InFlight(c) /\ \E f \in Named(c) : StoreInfo(f, ty)
<1>1. ASSUME NEW c \in Caller, CallerBegins(c)
      PROVE  \/ UNCHANGED typeVars
             \/ /\ UNCHANGED retyped
                /\ \E id \in ScId \ IdsInUse, ty \in Type :
                      compType' = [compType EXCEPT ![id] = ty]
  <2>1. UNCHANGED retyped
    BY <1>1, CallerBeginsFrame
  <2> QED
    BY <1>1, <2>1 DEF CallerBegins, BeginRegister, BeginPreRegister, BeginUpdateOrClick,
       BeginUnregister, CreateScId, typeVars
<1>2. ASSUME NEW c \in Caller, CallerEnds(c)
      PROVE  \/ UNCHANGED typeVars
             \/ InFlight(c) /\ \E ty \in Type, f \in Named(c) : StoreInfo(f, ty)
  <2>1. CASE UpdateSecurityComponent(c)
    BY <2>1 DEF UpdateSecurityComponent, Enters
  <2>2. CASE FailClick(c)
    BY <2>2 DEF FailClick, Enters
  <2>3. CASE AcceptClick(c)
    BY <2>3 DEF AcceptClick, Enters
  <2>4. CASE \/ AddSecurityComponentToList(c) \/ AddSecurityComponentProcess(c)
             \/ DeleteSecurityComponentFromList(c) \/ RefuseClick(c)
    BY <2>4 DEF AddSecurityComponentToList, AddSecurityComponentProcess,
       DeleteSecurityComponentFromList, RefuseClick
  <2>5. CASE \/ ClickPaste(c) \/ ClickToast(c) \/ ClickSave(c) \/ ClickSaveEnd(c)
             \/ ClickDialog(c)
    BY <2>5 DEF ClickPaste, ClickToast, ClickSave, ClickSaveEnd, ClickDialog
  <2> QED
    BY <1>2, <2>1, <2>2, <2>3, <2>4, <2>5 DEF CallerEnds
<1>3. CASE ExitWhenAppMgrDied \/ ServiceStops \/ \E p \in Pid : ProcessStart(p) \/ AppMgrReports(p)
  BY <1>3 DEF ExitWhenAppMgrDied, ServiceStops, ProcessStart, AppMgrReports
<1>4. CASE UNCHANGED vars
  BY <1>4 DEF vars
<1> QED
  BY <1>1, <1>2, <1>3, <1>4, ObserverFrame, UserClosesFrame, DialogFrame, HandlerFrame DEF Next

\* What was a save button is one still, or its token is counted as retyped.
LEMMA SaveStays ==
    ASSUME TypesInv, UniqueIds, [Next]_vars, NEW e \in Referenced,
           e.id \in ScId, compType[e.id] = "SAVE", e.token \notin retyped'
    PROVE  compType'[e.id] = "SAVE"
<1>0. /\ TypeOK /\ compType \in [ScId -> Type]
      /\ e.id \in IdsInUse
  BY DEF TypesInv, TypeOK, InfoTypeOK, Referenced, IdsInUse
<1>1. ASSUME NEW c \in Caller, NEW ty \in Type, InFlight(c),
             NEW f \in Named(c), StoreInfo(f, ty)
      PROVE  compType'[e.id] = "SAVE"
  <2>1. call[c].pid \in Pid
    BY <1>0, <1>1, InFlightCall
  <2>2. f \in Referenced
    BY <2>1 DEF Named, Referenced
  <2>3. CASE f.id = e.id
    <3>1. f = e
      BY <2>2, <2>3 DEF UniqueIds
    <3>2. compType'[e.id] = ty
      BY <1>0, <1>1, <3>1 DEF StoreInfo
    <3>3. ty = "SAVE"
      BY <1>1, <3>1 DEF StoreInfo
    <3> QED
      BY <3>2, <3>3
  <2>4. CASE f.id # e.id
    BY <1>0, <1>1, <2>4 DEF StoreInfo
  <2> QED
    BY <2>3, <2>4
<1>2. ASSUME NEW id \in ScId \ IdsInUse, NEW ty \in Type, compType' = [compType EXCEPT ![id] = ty]
      PROVE  compType'[e.id] = "SAVE"
  BY <1>0, <1>2
<1> QED
  BY <1>1, <1>2, TypeChanges DEF typeVars

LEMMA RetypedGrows ==
    ASSUME TypesInv, [Next]_vars
    PROVE  retyped \subseteq retyped'
<1>1. ASSUME NEW f, NEW ty, StoreInfo(f, ty)
      PROVE  retyped \subseteq retyped'
  BY <1>1 DEF StoreInfo
<1> QED
  BY <1>1, TypeChanges DEF typeVars

\* A grant that begins as one of save goes on with a save button.
LEMMA ClosingStaysSave ==
    ASSUME TypesInv, SaveInv, [Next]_vars, closing' # NoGrant, closing'.type = "SAVE",
           closing'.comp.token \notin retyped'
    PROVE  compType'[closing'.comp.id] = "SAVE"
<1>1. CASE UNCHANGED closing
  <2>1. closing.comp \in Entity
    BY <1>1 DEF TypesInv, TypeOK, DialogTypeOK, Grant
  <2>2. closing.comp.id \in ScId /\ closing.comp # NoEntity
    BY <2>1 DEF Entity, NoEntity
  <2>3. closing.comp \in Referenced
    BY <2>2 DEF Referenced
  <2>4. compType[closing.comp.id] = "SAVE"
    BY <1>1, RetypedGrows DEF SaveInv, AskedInv
  <2> QED
    BY <1>1, <2>2, <2>3, <2>4, SaveStays DEF SaveInv
<1>2. CASE GrantDialogWaitEntityEnd
  BY <1>2 DEF GrantDialogWaitEntityEnd
<1> QED
  BY <1>1, <1>2, ClosingChanges DEF typeVars

\* Who takes a confirmed entity out.
LEMMA ConfirmedGoes ==
    ASSUME [Next]_vars, NEW e \in confirmed, e \notin confirmed'
    PROVE  ReadConfirmedType(e)
<1>1. CASE DialogStep
  BY <1>1 DEF DialogStep, GrantDialogWaitEntityEnd, ReadConfirmedType, SetFirstUseMap
<1>2. CASE UserClosesDialog
  BY <1>2 DEF UserClosesDialog, CloseWithoutGrant, GrantDialogWaitEntity
<1>3. CASE ExitWhenAppMgrDied \/ ServiceStops \/ \E p \in Pid : ProcessStart(p) \/ AppMgrReports(p)
  BY <1>3 DEF ExitWhenAppMgrDied, ServiceStops, ProcessStart, AppMgrReports, dialogVars
<1>4. CASE UNCHANGED vars
  BY <1>4 DEF vars, dialogVars
<1> QED
  BY <1>1, <1>2, <1>3, <1>4, CallerBeginsFrame, CallerEndsFrame, ObserverFrame, HandlerFrame
     DEF Next, dialogVars

LEMMA NotingGoes ==
    ASSUME [Next]_vars, NEW e \in noting, e \notin noting'
    PROVE  SetFirstUseMap(e)
<1>1. CASE DialogStep
  BY <1>1 DEF DialogStep, GrantDialogWaitEntityEnd, ReadConfirmedType, SetFirstUseMap
<1>2. CASE ExitWhenAppMgrDied \/ ServiceStops \/ \E p \in Pid : ProcessStart(p) \/ AppMgrReports(p)
  BY <1>2 DEF ExitWhenAppMgrDied, ServiceStops, ProcessStart, AppMgrReports, dialogVars
<1>3. CASE UNCHANGED vars
  BY <1>3 DEF vars, dialogVars
<1> QED
  BY <1>1, <1>2, <1>3, CallerBeginsFrame, CallerEndsFrame, ObserverFrame, UserClosesFrame,
     HandlerFrame DEF Next, dialogVars

LEMMA AskStep ==
    TypesInv /\ LockInv /\ SaveInv /\ [Next]_vars => AskedInv'
<1> SUFFICES ASSUME TypesInv, LockInv, SaveInv, [Next]_vars,
                    NEW t \in Token, t \notin retyped', applySaveCount'[t] # 0
             PROVE  t \in firstUseMap' \/ ConfirmedSave(t)' \/ \E e \in noting' : e.token = t
  BY ClosingStaysSave DEF AskedInv
<1>1. ASSUME t \in firstUseMap
      PROVE  t \in firstUseMap'
  BY <1>1, AskedStays
<1>2. ASSUME NEW e \in confirmed, e.token = t, compType[e.id] = "SAVE"
      PROVE  ConfirmedSave(t)' \/ e \in noting'
  <2>1. CASE e \in confirmed'
    <3>1. e.id \in ScId
      BY DEF TypesInv, TypeOK, DialogTypeOK, Entity
    <3>2. e \in Referenced
      BY DEF Referenced
    <3>3. compType'[e.id] = "SAVE"
      BY <1>2, <3>1, <3>2, SaveStays DEF SaveInv
    <3> QED
      BY <1>2, <2>1, <3>3 DEF ConfirmedSave
  <2>2. CASE e \notin confirmed'
    BY <1>2, <2>2, ConfirmedGoes DEF ReadConfirmedType
  <2> QED
    BY <2>1, <2>2
<1>3. ASSUME NEW e \in noting, e.token = t
      PROVE  e \in noting' \/ t \in firstUseMap'
  BY <1>3, NotingGoes DEF SetFirstUseMap, Record!SetFirstUseMap
<1>4. t \notin retyped
  BY RetypedGrows
<1>5. CASE applySaveCount[t] # 0
  <2>1. t \in firstUseMap \/ ConfirmedSave(t) \/ \E e \in noting : e.token = t
    BY <1>4, <1>5 DEF SaveInv, AskedInv
  <2> QED
    BY <1>1, <1>2, <1>3, <2>1 DEF ConfirmedSave
<1>6. CASE applySaveCount[t] = 0
  <2>1. CASE /\ closing # NoGrant /\ closing.type = "SAVE" /\ closing.comp.token = t
             /\ closing.comp \in confirmed'
             /\ UNCHANGED typeVars
    <3>1. compType[closing.comp.id] = "SAVE"
      BY <1>4, <2>1 DEF SaveInv, AskedInv
    <3> QED
      BY <2>1, <3>1 DEF ConfirmedSave, typeVars
  <2> QED
    BY <1>1, <1>6, <2>1, SaveGrantedTo
<1> QED
  BY <1>5, <1>6

LEMMA AskedFirst == TypesInv /\ SaveInv => FirstSaveAsks
BY DEF SaveInv, AskedInv, ConfirmedSave, FirstSaveAsks, Save!VerifySavePermission,
       Record!NoNeedNotify

LEMMA SaveInvStep == TypesInv /\ LockInv /\ SaveInv /\ [Next]_vars => SaveInv'
BY ClickSavesStep, DialogSavesStep, UniqueIdsStep, AskStep DEF SaveInv
-----------------------------------------------------------------------------
(* The service as a user of SavePermission: its steps are steps of that    *)
(* module's own next-state relation, in which processes die only while no   *)
(* click is in the middle of a grant.                                      *)

\* A name left by a click is that of a click in the middle of its grant.
ClickNamed == grantingSave["click"] # NoName => \E c \in Caller : Granting(c)

\* A click keeps granting until it pushes its name.
LEMMA GrantingGoesOn ==
    ASSUME TypesInv, LockInv, [Next]_vars, NEW c \in Caller, Granting(c), ~ClickSaveEnd(c)
    PROVE  Granting(c)'
<1>0. call \in [Caller -> Call \cup {NoCall}]
  BY DEF TypesInv, TypeOK, TableTypeOK
<1>1. InFlight(c) /\ ~LockFreeC /\ observing.report # "clearing"
  BY DEF LockFreeC, Granting, LockInv, Locking
<1>2. ASSUME call'[c] = call[c]
      PROVE  Granting(c)'
  BY <1>2 DEF Granting, InFlight
<1>3. ASSUME NEW d \in Caller, CallerBegins(d)
      PROVE  call'[c] = call[c]
  <2>1. UNCHANGED call \/ \E kind, p, id, comp : Begin(d, kind, p, id, comp)
    BY <1>3 DEF CallerBegins, BeginRegister, BeginPreRegister, BeginUpdateOrClick, BeginUnregister
  <2> QED
    BY <1>0, <1>1, <2>1 DEF Begin
<1>4. ASSUME NEW d \in Caller, CallerEnds(d)
      PROVE  call'[c] = call[c]
  <2>1. CASE ClickSaveEnd(d)
    <3>1. d # c
      BY <2>1
    <3> QED
      BY <1>0, <2>1, <3>1 DEF ClickSaveEnd, Answer
  <2>2. CASE ~ClickSaveEnd(d)
    <3>1. ~Locking(d) \/ d = c
      BY DEF LockInv, Locking, Granting
    <3>2. \/ Enters(d, "register") \/ Enters(d, "preRegister") \/ Enters(d, "unregister")
          \/ Enters(d, "update") \/ Enters(d, "click") \/ ClickAt(d, "checked")
          \/ ClickAt(d, "asked")
      BY <1>4, <2>2 DEF CallerEnds, AddSecurityComponentToList, AddSecurityComponentProcess,
         DeleteSecurityComponentFromList, UpdateSecurityComponent, RefuseClick, FailClick,
         AcceptClick, ClickPaste, ClickToast, ClickSave, ClickDialog
    <3>3. ClickAt(d, "checked") \/ ClickAt(d, "asked")
      BY <1>1, <3>2 DEF Enters
    <3> QED
      BY <3>1, <3>3 DEF ClickAt, Locking, Granting
  <2> QED
    BY <2>1, <2>2
<1>5. CASE ObserverStep
  BY <1>1, <1>2, <1>5 DEF ObserverStep, IgnoreReport, NotifyProcessForeground,
     NotifyProcessBackground, RemoveDialogWaitEntitys, NotifyProcessDied
<1>6. CASE ExitWhenAppMgrDied \/ ServiceStops \/ \E p \in Pid : ProcessStart(p) \/ AppMgrReports(p)
  BY <1>2, <1>6 DEF ExitWhenAppMgrDied, ServiceStops, ProcessStart, AppMgrReports
<1>7. CASE UNCHANGED vars
  BY <1>2, <1>7 DEF vars
<1> QED
  BY <1>2, <1>3, <1>4, <1>5, <1>6, <1>7, UserClosesFrame, DialogFrame, HandlerFrame DEF Next

LEMMA ClickNamedStep ==
    TypesInv /\ LockInv /\ ClickNamed /\ [Next]_vars => ClickNamed'
<1> SUFFICES ASSUME TypesInv, LockInv, ClickNamed, [Next]_vars, grantingSave'["click"] # NoName
             PROVE  \E c \in Caller : Granting(c)'
  BY DEF ClickNamed
<1>0. TypeOK /\ Save!SaveTypeOK /\ call \in [Caller -> Call \cup {NoCall}]
  BY DEF TypesInv, TypeOK, TableTypeOK
<1>1. ASSUME NEW c \in Caller, ClickSaveEnd(c)
      PROVE  FALSE
  <2>1. grantingSave' = [grantingSave EXCEPT !["click"] = NoName]
    BY <1>1 DEF ClickSaveEnd, Save!PushSaveTask
  <2> QED
    BY <1>0, <2>1, PathsAre DEF Save!SaveTypeOK
<1>2. ASSUME grantingSave'["click"] = grantingSave["click"]
      PROVE  \E c \in Caller : Granting(c)'
  <2>1. PICK c \in Caller : Granting(c)
    BY <1>2 DEF ClickNamed
  <2>2. Granting(c)'
    BY <1>1, <2>1, GrantingGoesOn
  <2> QED
    BY <2>2
<1>3. ASSUME NEW c \in Caller, ClickSave(c)
      PROVE  Granting(c)'
  <2>1. InFlight(c) /\ call' = [call EXCEPT ![c].stage = "granting"]
    BY <1>3 DEF ClickSave, ClickAt
  <2>2. call[c] \in Call /\ call'[c] = [call[c] EXCEPT !.stage = "granting"]
    BY <1>0, <2>1, InFlightCall
  <2>3. call'[c].stage = "granting" /\ call'[c].pid = call[c].pid
    BY <2>2 DEF Call
  <2>4. call'[c] # NoCall
    BY <2>2 DEF Call, NoCall
  <2> QED
    BY <2>3, <2>4 DEF Granting, InFlight
<1>4. ASSUME NEW d \in openDialogs, Save!DelaySaveRevokePermission("dialog", d.comp.token)
      PROVE  grantingSave'["click"] = grantingSave["click"]
  <2>1. d.comp.token \in Token
    BY DEF TypesInv, TypeOK, DialogTypeOK, Entity
  <2> QED
    BY <1>0, <1>4, <2>1, NameLeft, PathsAre
<1>5. ASSUME Save!PushSaveTask("dialog")
      PROVE  grantingSave'["click"] = grantingSave["click"]
  BY <1>0, <1>5, NamePushed, PathsAre
<1> QED
  BY <1>1, <1>2, <1>3, <1>4, <1>5, SaveMoves

\* Deaths are handled under lock C, so while no click grants.
LEMMA SavePartStep ==
    TypesInv /\ LockInv /\ ClickNamed /\ [Next]_vars => [Save!Next]_saveVars
<1> SUFFICES ASSUME TypesInv, LockInv, ClickNamed, [Next]_vars
             PROVE  [Save!Next]_saveVars
  OBVIOUS
<1>1. ASSUME NotifyProcessDied \/ ExitWhenAppMgrDied, NEW T \in SUBSET Token,
             Save!RevokeTempSavePermission(T)
      PROVE  Save!ProcessesDie(T)
  <2>1. \A c \in Caller : ~Granting(c)
    BY <1>1 DEF NotifyProcessDied, ExitWhenAppMgrDied, LockInv, LockFreeC, Granting, Locking
  <2> QED
    BY <1>1, <2>1 DEF ClickNamed, Save!ProcessesDie
<1>2. SaveStep
  BY SaveSteps DEF TypesInv
<1> QED
  BY <1>1, <1>2 DEF SaveStep, Save!Next
-----------------------------------------------------------------------------
(* The permissions that are held.                                          *)

\* A permission is granted to a listed component that is clicked, or to an
\* entity that waits for the dialog that closes.
LEMMA GrantedTo ==
    ASSUME TypesInv, LockInv, [Next]_vars, NEW t \in Token, held[t] = {}, held'[t] # {}
    PROVE  /\ UNCHANGED <<registered, entryToken>>
           /\ \/ \E p \in Pid : \E e \in compList[p] : e.token = t
              \/ \E e \in dialogWait : e.token = t
              \/ closing # NoGrant /\ closing.comp.token = t
<1>0. TypeOK /\ App!AppTypeOK /\ held \in [Token -> SUBSET App!Perm]
  BY DEF TypesInv, TypeOK, App!AppTypeOK
<1>1. ASSUME UNCHANGED held
      PROVE  FALSE
  BY <1>1
<1>2. ASSUME NEW T, App!RevokeAppPermisionsImmediately(T)
      PROVE  FALSE
  BY <1>2 DEF App!RevokeAppPermisionsImmediately
<1>3. ASSUME NEW u \in Token, NEW perm, NEW ok, App!GrantAppPermission(u, perm, ok)
      PROVE  u = t
  BY <1>0, <1>3 DEF App!GrantAppPermission
<1>4. ASSUME NEW c \in Caller, CallerEnds(c)
      PROVE  UNCHANGED tableVars /\ \E p \in Pid : \E e \in compList[p] : e.token = t
  <2>1. CASE ClickPaste(c)
    <3>1. ClickAt(c, "checked") /\ UNCHANGED tableVars
      BY <2>1 DEF ClickPaste
    <3>2. /\ call[c].comp.token \in Token /\ call[c].pid \in Pid
          /\ call[c].comp \in compList[call[c].pid]
      BY <1>0, <3>1, InFlightCall DEF ClickAt, LockInv, Locking, TypeOK, TableTypeOK, Entity
    <3>3. call[c].comp.token = t
      BY <1>3, <2>1, <3>2 DEF ClickPaste
    <3> QED
      BY <3>1, <3>2, <3>3
  <2>2. CASE ~ClickPaste(c)
    BY <1>1, <1>4, <2>2 DEF CallerEnds, AddSecurityComponentToList, AddSecurityComponentProcess,
       DeleteSecurityComponentFromList, UpdateSecurityComponent, RefuseClick, FailClick,
       AcceptClick, ClickToast, ClickSave, ClickSaveEnd, ClickDialog, appVars
  <2> QED
    BY <2>1, <2>2
<1>5. CASE ObserverStep
  <2>1. CASE NotifyProcessDied
    BY <1>2, <2>1 DEF NotifyProcessDied, App!RevokeAppPermissions
  <2>2. CASE ~NotifyProcessDied
    BY <1>1, <1>5, <2>2 DEF ObserverStep, IgnoreReport, NotifyProcessForeground,
       NotifyProcessBackground, RemoveDialogWaitEntitys, appVars
  <2> QED
    BY <2>1, <2>2
<1>6. CASE ExitWhenAppMgrDied
  BY <1>2, <1>6 DEF ExitWhenAppMgrDied, App!RevokeAppPermissions
<1>7. ASSUME NEW d \in openDialogs, CloseWithoutGrant(d) \/ GrantDialogWaitEntity(d)
      PROVE  \E e \in dialogWait : e.token = t
  <2>1. CASE CloseWithoutGrant(d)
    BY <1>1, <2>1 DEF CloseWithoutGrant, appVars
  <2>2. CASE GrantDialogWaitEntity(d)
    <3>1. d.comp \in dialogWait /\ d.comp.token \in Token
      BY <1>0, <2>2 DEF GrantDialogWaitEntity, TypeOK, DialogTypeOK, Entity
    <3>2. d.comp.token = t
      BY <1>1, <1>3, <2>2, <3>1 DEF GrantDialogWaitEntity
    <3> QED
      BY <3>1, <3>2
  <2> QED
    BY <1>7, <2>1, <2>2
<1>8. CASE DialogStep
  <2>1. CASE GrantDialogWaitEntityEnd
    <3>1. closing # NoGrant /\ closing.comp.token \in Token
      BY <1>0, <2>1 DEF GrantDialogWaitEntityEnd, TypeOK, DialogTypeOK, Grant, Entity
    <3>2. ~App!FailAndTakeBack(closing.comp.token, "LOCATION", "APPROXIMATELY_LOCATION")
      BY <1>0, <3>1 DEF App!FailAndTakeBack
    <3>3. closing.comp.token = t
      BY <1>1, <1>3, <2>1, <3>1, <3>2 DEF GrantDialogWaitEntityEnd
    <3> QED
      BY <1>8, <3>1, <3>3, DialogFrame DEF tableVars
  <2>2. CASE \/ \E e \in confirmed : ReadConfirmedType(e)
             \/ \E e \in noting : SetFirstUseMap(e)
    BY <1>1, <2>2 DEF ReadConfirmedType, SetFirstUseMap, appVars
  <2> QED
    BY <1>8, <2>1, <2>2 DEF DialogStep
<1>9. CASE HandlerStep
  <2>1. CASE RevokeAll
    BY <1>2, <2>1 DEF RevokeAll
  <2>2. CASE ~RevokeAll
    BY <1>1, <1>9, <2>2 DEF HandlerStep, DispatchExit, ExitSaProcess, DispatchRevoke,
       DispatchSaveRevoke, SaveRevoke, SaveFirstUseRecord, WriteCfgContent, appVars
  <2> QED
    BY <2>1, <2>2
<1>10. CASE ServiceStops \/ \E p \in Pid : ProcessStart(p) \/ AppMgrReports(p)
  BY <1>1, <1>10 DEF ServiceStops, ProcessStart, AppMgrReports, appVars
<1>11. CASE UNCHANGED vars
  BY <1>1, <1>11 DEF vars, appVars
<1>12. ASSUME NEW c \in Caller, CallerBegins(c)
       PROVE  FALSE
  BY <1>1, <1>12, CallerBeginsFrame DEF appVars
<1> QED
  BY <1>4, <1>5, <1>6, <1>7, <1>8, <1>9, <1>10, <1>11, <1>12, UserClosesFrame
     DEF Next, UserClosesDialog, tableVars

LEMMA RecordedStep == App!AppTypeOK /\ HeldIsRecorded /\ AppStep => HeldIsRecorded'
<1> SUFFICES ASSUME App!AppTypeOK, HeldIsRecorded, AppStep, NEW t \in Token
             PROVE  held'[t] \subseteq grantMap'[t]
  BY DEF HeldIsRecorded, App!HeldIsRecorded
<1>0. /\ held[t] \subseteq grantMap[t]
      /\ held \in [Token -> SUBSET App!Perm] /\ grantMap \in [Token -> SUBSET App!Perm]
  BY DEF HeldIsRecorded, App!HeldIsRecorded, App!AppTypeOK
<1>1. CASE UNCHANGED <<grantMap, held>>
  BY <1>0, <1>1
<1>2. CASE AppGrants
  BY <1>0, <1>2 DEF AppGrants, App!GrantAppPermission, App!FailAndTakeBack
<1>3. ASSUME NEW T, App!RevokeAppPermisionsImmediately(T)
      PROVE  held'[t] \subseteq grantMap'[t]
  BY <1>0, <1>3 DEF App!RevokeAppPermisionsImmediately
<1> QED
  BY <1>1, <1>2, <1>3 DEF AppStep, appVars, App!RevokeAppPermissions

LEMMA GrantStep ==
    TypesInv /\ TableInv /\ LockInv /\ PromptInv /\ WaitInv /\ SaveInv /\ GrantInv
        /\ [Next]_vars => GrantInv'
<1> SUFFICES ASSUME TypesInv, TableInv, LockInv, PromptInv, WaitInv, SaveInv, GrantInv,
                    [Next]_vars
             PROVE  GrantInv'
  OBVIOUS
<1>0. TypeOK /\ App!AppTypeOK /\ registered \subseteq Pid
  BY DEF TypesInv, TypeOK, TableTypeOK
<1>1. HeldIsRecorded'
  BY <1>0, AppSteps, RecordedStep DEF GrantInv
<1>2. ASSUME ~LateCalls, appMgrAlive', NEW t \in Token, Granted(t)'
      PROVE  \E p \in registered' : entryToken'[p] = t
  <2>1. appMgrAlive /\ ~ExitWhenAppMgrDied
    BY <1>2, AppMgrStaysDead
  <2>2. CASE Granted(t)
    <3>1. PICK p \in registered : entryToken[p] = t
      BY <1>2, <2>1, <2>2 DEF GrantInv, GrantsRevocable
    <3>2. CASE p \in registered'
      BY <3>1, <3>2, TableGrows DEF EntersTable
    <3>3. CASE p \notin registered'
      <4>1. NotifyProcessDied /\ observing.pid = p
        BY <2>1, <3>3, TableShrinks
      <4>2. held'[t] = held[t] \ grantMap[t]
        BY <3>1, <4>1 DEF NotifyProcessDied, App!RevokeAppPermissions,
           App!RevokeAppPermisionsImmediately
      <4>3. applySaveCount'[t] = 0
        BY <3>1, <4>1 DEF NotifyProcessDied, Save!RevokeTempSavePermission
      <4> QED
        BY <1>2, <4>2, <4>3 DEF GrantInv, HeldIsRecorded, App!HeldIsRecorded, Granted,
           Save!VerifySavePermission
    <3> QED
      BY <3>2, <3>3
  <2>3. CASE ~Granted(t)
    <3>1. \/ held[t] = {} /\ held'[t] # {}
          \/ applySaveCount[t] = 0 /\ applySaveCount'[t] # 0
      BY <1>2, <2>3 DEF Granted, Save!VerifySavePermission
    <3>2. /\ UNCHANGED <<registered, entryToken>>
          /\ \/ \E p \in Pid : \E e \in compList[p] : e.token = t
             \/ \E e \in dialogWait : e.token = t
             \/ closing # NoGrant /\ closing.comp.token = t
      BY <1>2, <3>1, GrantedTo, SaveGrantedTo
    <3>3. ASSUME NEW p \in Pid, NEW e \in compList[p], e.token = t
          PROVE  p \in registered /\ entryToken[p] = t
      BY <1>2, <3>3 DEF TableInv, PromptInv, EntitiesMatchEntry
    <3>4. ASSUME NEW e \in dialogWait, e.token = t
          PROVE  e.pid \in registered /\ entryToken[e.pid] = t
      BY <1>2, <2>1, <3>4 DEF WaitInv, WaitersRegistered
    <3>5. closing # NoGrant => closing.comp \in dialogWait
      BY DEF WaitInv
    <3> QED
      BY <3>2, <3>3, <3>4, <3>5
  <2> QED
    BY <2>2, <2>3
<1> QED
  BY <1>1, <1>2 DEF GrantInv, GrantsRevocable
-----------------------------------------------------------------------------
(* The delayed revokes.                                                    *)

\* A revoke is posted when its token is reported in the background.
LEMMA RevokePosted ==
    ASSUME TypesInv, [Next]_vars, NEW t \in Token, revokeTasks'[t] > 0
    PROVE  \/ revokeTasks[t] > 0
           \/ NotifyProcessBackground /\ entryToken[observing.pid] = t
<1>0. TypeOK /\ revokeTasks \in [Token -> Nat]
  BY DEF TypesInv, TypeOK, App!AppTypeOK
<1>1. ASSUME UNCHANGED revokeTasks
      PROVE  revokeTasks[t] > 0
  BY <1>1
<1>2. ASSUME NEW T, App!CancelAppRevokingPermisions(T)
      PROVE  revokeTasks[t] > 0
  BY <1>0, <1>2 DEF App!CancelAppRevokingPermisions
<1>3. CASE ObserverStep
  <2>1. CASE IgnoreReport \/ RemoveDialogWaitEntitys
    BY <1>1, <2>1 DEF IgnoreReport, RemoveDialogWaitEntitys, appVars
  <2>2. CASE NotifyProcessForeground
    BY <1>2, <2>2 DEF NotifyProcessForeground
  <2>3. CASE NotifyProcessBackground
    <3>1. entryToken[observing.pid] \in Token
      BY <1>0, <2>3, ObservedPid DEF NotifyProcessBackground
    <3> QED
      BY <1>0, <2>3, <3>1 DEF NotifyProcessBackground, App!RevokeAppPermisionsDelayed
  <2>4. CASE NotifyProcessDied
    BY <1>2, <2>4 DEF NotifyProcessDied, App!RevokeAppPermissions
  <2> QED
    BY <1>3, <2>1, <2>2, <2>3, <2>4 DEF ObserverStep
<1>4. CASE ExitWhenAppMgrDied
  BY <1>2, <1>4 DEF ExitWhenAppMgrDied, App!RevokeAppPermissions
<1>5. CASE HandlerStep
  <2>1. ASSUME NEW u \in Token, DispatchRevoke(u)
        PROVE  revokeTasks[t] > 0
    BY <1>0, <2>1 DEF DispatchRevoke, App!FireRevokeTask
  <2>2. CASE \/ DispatchExit \/ ExitSaProcess \/ RevokeAll \/ DispatchSaveRevoke \/ SaveRevoke
             \/ SaveFirstUseRecord \/ WriteCfgContent
    BY <1>1, <2>2 DEF DispatchExit, ExitSaProcess, RevokeAll, DispatchSaveRevoke, SaveRevoke,
       SaveFirstUseRecord, WriteCfgContent, appVars
  <2> QED
    BY <1>5, <2>1, <2>2 DEF HandlerStep
<1>6. CASE ServiceStops \/ \E p \in Pid : ProcessStart(p) \/ AppMgrReports(p)
  BY <1>1, <1>6 DEF ServiceStops, ProcessStart, AppMgrReports, appVars
<1>7. CASE UNCHANGED vars
  BY <1>1, <1>7 DEF vars, appVars
<1> QED
  BY <1>1, <1>3, <1>4, <1>5, <1>6, <1>7, CallerBeginsFrame, CallerEndsFrame, UserClosesFrame,
     DialogFrame DEF Next, appVars

\* A process in the background, or just reported back, stays so until the
\* report is handled.
LEMMA StaysBehind ==
    ASSUME [Next]_vars, NEW p \in registered, ~ExitWhenAppMgrDied,
           p \notin fgProc \/ observing = Report("foreground", p)
    PROVE  \/ p \notin fgProc' \/ observing' = Report("foreground", p)
           \/ NotifyProcessForeground /\ observing.pid = p
<1>1. CASE UNCHANGED <<procVars, observing>>
  BY <1>1 DEF procVars
<1>2. ASSUME NEW q \in Pid, ProcessStart(q)
      PROVE  p \notin fgProc' \/ observing' = Report("foreground", p)
  BY <1>2 DEF ProcessStart
<1>3. ASSUME NEW q \in Pid, AppMgrReports(q)
      PROVE  p \notin fgProc' \/ observing' = Report("foreground", p)
  <2>1. p \notin fgProc
    BY <1>3 DEF AppMgrReports, Silent, Report
  <2> QED
    BY <1>3, <2>1 DEF AppMgrReports, OnProcessForeground, OnProcessBackground, OnProcessDied,
       OnAppCacheStateChanged
<1>4. ASSUME ObserverStep, UNCHANGED procVars
      PROVE  \/ p \notin fgProc'
             \/ NotifyProcessForeground /\ observing.pid = p
  <2>1. CASE p \notin fgProc
    BY <1>4, <2>1 DEF procVars
  <2>2. CASE observing = Report("foreground", p)
    <3>1. observing.report = "foreground" /\ observing.pid = p
      BY <2>2 DEF Report
    <3> QED
      BY <1>4, <3>1 DEF ObserverStep, IgnoreReport, NotifyProcessBackground,
         RemoveDialogWaitEntitys, NotifyProcessDied
  <2> QED
    BY <2>1, <2>2
<1> QED
  BY <1>1, <1>2, <1>3, <1>4, ProcChanges

LEMMA RevokeStep == TypesInv /\ RevokeInv /\ [Next]_vars => RevokeInv'
<1> SUFFICES ASSUME TypesInv, RevokeInv, [Next]_vars
             PROVE  RevokeInv'
  OBVIOUS
<1>0. revokeTasks' \in [Token -> Nat]
  BY TypesStep DEF TypesInv, TypeOK, App!AppTypeOK
<1>1. ASSUME observing'.report = "background"
      PROVE  observing'.pid \notin fgProc'
  <2>1. ASSUME NEW q \in Pid, AppMgrReports(q)
        PROVE  observing'.pid \notin fgProc'
    BY <1>1, <2>1 DEF AppMgrReports, OnProcessForeground, OnProcessBackground, OnProcessDied,
       OnAppCacheStateChanged, Report
  <2>2. ASSUME ObserverStep
        PROVE  FALSE
    BY <1>1, <2>2 DEF ObserverStep, IgnoreReport, NotifyProcessForeground,
       NotifyProcessBackground, RemoveDialogWaitEntitys, NotifyProcessDied, Silent, Report
  <2>3. ASSUME UNCHANGED <<fgProc, observing>>
        PROVE  observing'.pid \notin fgProc'
    BY <1>1, <2>3 DEF RevokeInv
  <2> QED
    BY <2>1, <2>2, <2>3, ProcChanges DEF procVars, ProcessStart, ExitWhenAppMgrDied
<1>2. ASSUME NEW t \in Token, revokeTasks'[t] > 0
      PROVE  \E p \in registered' :
                /\ entryToken'[p] = t
                /\ p \notin fgProc' \/ observing' = Report("foreground", p)
  <2>1. CASE NotifyProcessBackground /\ entryToken[observing.pid] = t
    BY <2>1 DEF NotifyProcessBackground, RevokeInv, procVars, tableVars
  <2>2. CASE revokeTasks[t] > 0
    <3>1. PICK p \in registered : /\ entryToken[p] = t
                                  /\ p \notin fgProc \/ observing = Report("foreground", p)
      BY <2>2 DEF RevokeInv, NoStrayRevoke
    <3>2. ASSUME NEW T, t \in T, App!CancelAppRevokingPermisions(T)
          PROVE  FALSE
      BY <1>2, <3>2 DEF App!CancelAppRevokingPermisions
    <3>3. ~ExitWhenAppMgrDied
      <4>1. t \in {entryToken[q] : q \in registered}
        BY <3>1
      <4> QED
        BY <3>2, <4>1 DEF ExitWhenAppMgrDied, App!RevokeAppPermissions
    <3>4. ~(NotifyProcessDied /\ observing.pid = p)
      BY <3>1, <3>2 DEF NotifyProcessDied, App!RevokeAppPermissions
    <3>5. ~(NotifyProcessForeground /\ observing.pid = p)
      BY <3>1, <3>2 DEF NotifyProcessForeground
    <3>6. p \in registered' /\ entryToken'[p] = t
      BY <3>1, <3>3, <3>4, TableShrinks, TableGrows DEF EntersTable
    <3>7. p \notin fgProc' \/ observing' = Report("foreground", p)
      BY <3>1, <3>3, <3>5, StaysBehind
    <3> QED
      BY <3>6, <3>7
  <2> QED
    BY <1>2, <2>1, <2>2, RevokePosted
<1> QED
  BY <1>1, <1>2 DEF RevokeInv, NoStrayRevoke
-----------------------------------------------------------------------------
(* The delayed exit.                                                       *)

PreRegistering(c) == InFlight(c) /\ call[c].kind = "preRegister"

\* A pre-registration stays in flight until it enters its process.
LEMMA PreRegistrationStays ==
    ASSUME TypesInv, CallsOwn, [Next]_vars, registered = {}, NEW c \in Caller, PreRegistering(c)
    PROVE  PreRegistering(c)' \/ AddSecurityComponentProcess(c)
<1>0. TypeOK /\ call \in [Caller -> Call \cup {NoCall}]
  BY DEF TypesInv, TypeOK, TableTypeOK
<1>1. ASSUME call'[c] = call[c]
      PROVE  PreRegistering(c)'
  BY <1>1 DEF PreRegistering, InFlight
<1>2. ASSUME NEW d \in Caller, CallerBegins(d)
      PROVE  PreRegistering(c)'
  <2>1. UNCHANGED call \/ (~InFlight(d) /\ \E new : call' = [call EXCEPT ![d] = new])
    BY <1>2 DEF CallerBegins, BeginRegister, BeginPreRegister, BeginUpdateOrClick, BeginUnregister,
       Begin
  <2>2. CASE UNCHANGED call
    BY <1>1, <2>2
  <2>3. CASE ~InFlight(d) /\ \E new : call' = [call EXCEPT ![d] = new]
    <3>1. d # c
      BY <2>3 DEF PreRegistering
    <3> QED
      BY <1>0, <1>1, <2>3, <3>1
  <2> QED
    BY <2>1, <2>2, <2>3
<1>3. ASSUME NEW d \in Caller, CallerEnds(d)
      PROVE  PreRegistering(c)' \/ AddSecurityComponentProcess(c)
  <2>1. \/ Answer(d)
        \/ \E stage : call' = [call EXCEPT ![d].stage = stage]
        \/ \E stage, comp : call' = [call EXCEPT ![d].stage = stage, ![d].comp = comp]
    BY <1>3 DEF CallerEnds, AddSecurityComponentToList, AddSecurityComponentProcess,
       DeleteSecurityComponentFromList, UpdateSecurityComponent, RefuseClick, FailClick,
       AcceptClick, ClickPaste, ClickToast, ClickSave, ClickSaveEnd, ClickDialog
  <2>2. CASE d # c
    BY <1>0, <1>1, <2>1, <2>2 DEF Answer
  <2>3. CASE d = c
    BY <1>3, <2>3 DEF PreRegistering, CallsOwn, CallerEnds, AddSecurityComponentToList,
       DeleteSecurityComponentFromList, UpdateSecurityComponent, RefuseClick, FailClick,
       AcceptClick, ClickPaste, ClickToast, ClickSave, ClickSaveEnd, ClickDialog, ClickAt, Enters
  <2> QED
    BY <2>2, <2>3
<1>4. CASE ObserverStep
  <2>1. CASE NotifyProcessDied
    <3>1. \/ call'[c] = call[c]
          \/ call'[c] = [call[c] EXCEPT !.tracked = FALSE]
      BY <2>1 DEF NotifyProcessDied, Untrack
    <3>2. call[c] \in Call
      BY <1>0, InFlightCall DEF PreRegistering
    <3>3. CASE call'[c] = [call[c] EXCEPT !.tracked = FALSE]
      <4>1. call'[c].kind = "preRegister"
        BY <3>2, <3>3 DEF Call, PreRegistering
      <4>2. call'[c].tracked = FALSE
        BY <3>2, <3>3 DEF Call
      <4>3. call'[c] # NoCall
        BY <4>1 DEF NoCall
      <4> QED
        BY <4>1, <4>3 DEF PreRegistering, InFlight
    <3> QED
      BY <1>1, <3>1, <3>3
  <2>2. CASE ~NotifyProcessDied
    BY <1>1, <1>4, <2>2 DEF ObserverStep, IgnoreReport, NotifyProcessForeground,
       NotifyProcessBackground, RemoveDialogWaitEntitys
  <2> QED
    BY <2>1, <2>2
<1>5. CASE ExitWhenAppMgrDied \/ ServiceStops \/ \E p \in Pid : ProcessStart(p) \/ AppMgrReports(p)
  BY <1>1, <1>5 DEF ExitWhenAppMgrDied, ServiceStops, ProcessStart, AppMgrReports
<1>6. CASE UNCHANGED vars
  BY <1>1, <1>6 DEF vars
<1> QED
  BY <1>1, <1>2, <1>3, <1>4, <1>5, <1>6, UserClosesFrame, DialogFrame, HandlerFrame DEF Next

\* The exit task leaves the queue to run, or to let a process in.
LEMMA ExitTaskGoes ==
    ASSUME TypesInv, [Next]_vars, exitTasks > 0, ~(exitTasks' > 0)
    PROVE  \/ running' = Exiting
           \/ registered' # {}
           \/ \E c \in Caller : PreRegistering(c)'
<1> DEFINE Ok == \/ running' = Exiting
                 \/ registered' # {}
                 \/ \E c \in Caller : PreRegistering(c)'
<1>0. /\ TypeOK /\ exitTasks \in Nat
      /\ call \in [Caller -> Call \cup {NoCall}]
  BY DEF TypesInv, TypeOK, TableTypeOK, HandlerTypeOK
<1>1. ASSUME UNCHANGED exitTasks \/ DelayExitStart
      PROVE  FALSE
  BY <1>0, <1>1 DEF DelayExitStart
<1>2. ASSUME NEW c \in Caller, CallerBegins(c)
      PROVE  Ok
  <2>1. ASSUME NEW p \in Pid, BeginPreRegister(c, p)
        PROVE  PreRegistering(c)'
    BY <1>0, <2>1 DEF BeginPreRegister, Begin, PreRegistering, InFlight, NoCall
  <2> QED
    BY <1>1, <1>2, <2>1 DEF CallerBegins, BeginRegister, BeginUpdateOrClick, BeginUnregister
<1>3. ASSUME NEW c \in Caller, CallerEnds(c)
      PROVE  Ok
  <2>1. CASE AddSecurityComponentToList(c)
    BY <1>1, <2>1 DEF AddSecurityComponentToList
  <2>2. CASE ~AddSecurityComponentToList(c)
    BY <1>1, <1>3, <2>2 DEF CallerEnds, AddSecurityComponentProcess,
       DeleteSecurityComponentFromList, UpdateSecurityComponent, RefuseClick, FailClick,
       AcceptClick, ClickPaste, ClickToast, ClickSave, ClickSaveEnd, ClickDialog
  <2> QED
    BY <2>1, <2>2
<1>4. CASE ObserverStep
  BY <1>1, <1>4 DEF ObserverStep, IgnoreReport, NotifyProcessForeground, NotifyProcessBackground,
     RemoveDialogWaitEntitys, NotifyProcessDied
<1>5. CASE HandlerStep
  BY <1>1, <1>5 DEF HandlerStep, DispatchExit, ExitSaProcess, DispatchRevoke, RevokeAll,
     DispatchSaveRevoke, SaveRevoke, SaveFirstUseRecord, WriteCfgContent
<1>6. CASE ExitWhenAppMgrDied \/ ServiceStops \/ \E p \in Pid : ProcessStart(p) \/ AppMgrReports(p)
  BY <1>1, <1>6 DEF ExitWhenAppMgrDied, ServiceStops, ProcessStart, AppMgrReports
<1>7. CASE UNCHANGED vars
  BY <1>1, <1>7 DEF vars
<1> QED
  BY <1>1, <1>2, <1>3, <1>4, <1>5, <1>6, <1>7, UserClosesFrame, DialogFrame DEF Next

\* The exit that runs finds no component when no process is entered.
LEMMA ExitDecides ==
    ASSUME TableInv, [Next]_vars, registered = {}, running = Exiting, running' # Exiting
    PROVE  isSaExit'
<1>1. ASSUME UNCHANGED running
      PROVE  FALSE
  BY <1>1
<1>2. ~IsCompExist
  BY DEF TableInv, IsCompExist
<1>3. CASE HandlerStep
  <2>1. CASE ExitSaProcess
    BY <1>2, <2>1 DEF ExitSaProcess
  <2>2. CASE ~ExitSaProcess
    BY <1>1, <1>3, <2>2 DEF HandlerStep, DispatchExit, DispatchRevoke, RevokeAll,
       DispatchSaveRevoke, SaveRevoke, SaveFirstUseRecord, WriteCfgContent, HandlerIdle, Idle,
       Exiting
  <2> QED
    BY <2>1, <2>2
<1>4. CASE ExitWhenAppMgrDied \/ ServiceStops \/ \E p \in Pid : ProcessStart(p) \/ AppMgrReports(p)
  BY <1>1, <1>4 DEF ExitWhenAppMgrDied, ServiceStops, ProcessStart, AppMgrReports
<1>5. CASE UNCHANGED vars
  BY <1>1, <1>5 DEF vars
<1> QED
  BY <1>1, <1>3, <1>4, <1>5, CallerBeginsFrame, CallerEndsFrame, ObserverFrame, UserClosesFrame,
     DialogFrame DEF Next

LEMMA ExitIsFinal ==
    ASSUME [Next]_vars, isSaExit
    PROVE  isSaExit'
<1>1. ASSUME UNCHANGED isSaExit
      PROVE  isSaExit'
  BY <1>1
<1>2. CASE HandlerStep
  BY <1>1, <1>2 DEF HandlerStep, DispatchExit, ExitSaProcess, DispatchRevoke, RevokeAll,
     DispatchSaveRevoke, SaveRevoke, SaveFirstUseRecord, WriteCfgContent, exitVars
<1>3. CASE ExitWhenAppMgrDied \/ ServiceStops \/ \E p \in Pid : ProcessStart(p) \/ AppMgrReports(p)
  BY <1>1, <1>3 DEF ExitWhenAppMgrDied, ServiceStops, ProcessStart, AppMgrReports, exitVars
<1>4. CASE UNCHANGED vars
  BY <1>1, <1>4 DEF vars, exitVars
<1> QED
  BY <1>1, <1>2, <1>3, <1>4, CallerBeginsFrame, CallerEndsFrame, ObserverFrame, UserClosesFrame,
     DialogFrame DEF Next, exitVars

LEMMA ArmedStep ==
    TypesInv /\ TableInv /\ CallsOwn /\ ExitArmedWhenIdle /\ [Next]_vars => ExitArmedWhenIdle'
<1> DEFINE Armed == \/ isSaExit
                    \/ exitTasks > 0
                    \/ running = Exiting
                    \/ \E c \in Caller : PreRegistering(c)
<1> SUFFICES ASSUME TypesInv, TableInv, CallsOwn, ExitArmedWhenIdle, [Next]_vars,
                    registered' = {}
             PROVE  Armed'
  BY DEF ExitArmedWhenIdle, PreRegistering
<1>1. CASE registered # {}
  <2>1. NotifyProcessDied \/ ExitWhenAppMgrDied
    BY <1>1, TableShrinks
  <2>2. exitTasks \in Nat
    BY DEF TypesInv, TypeOK, HandlerTypeOK
  <2>3. CASE NotifyProcessDied
    BY <2>2, <2>3 DEF NotifyProcessDied, DelayExitStart
  <2>4. CASE ExitWhenAppMgrDied
    BY <2>4 DEF ExitWhenAppMgrDied
  <2> QED
    BY <2>1, <2>3, <2>4
<1>2. CASE registered = {}
  <2>1. Armed
    BY <1>2 DEF ExitArmedWhenIdle, PreRegistering
  <2>2. CASE isSaExit
    BY <2>2, ExitIsFinal
  <2>3. CASE exitTasks > 0
    BY <2>3, ExitTaskGoes
  <2>4. CASE running = Exiting
    BY <1>2, <2>4, ExitDecides
  <2>5. ASSUME NEW c \in Caller, PreRegistering(c)
        PROVE  Armed'
    <3>1. CASE AddSecurityComponentProcess(c)
      BY <1>2, <3>1 DEF AddSecurityComponentProcess, exitVars
    <3>2. CASE PreRegistering(c)'
      BY <3>2
    <3> QED
      BY <1>2, <2>5, <3>1, <3>2, PreRegistrationStays
  <2> QED
    BY <2>1, <2>2, <2>3, <2>4, <2>5
<1> QED
  BY <1>1, <1>2
-----------------------------------------------------------------------------
(* How a permission can stay with an application in the background.         *)

\* Who is in the foreground runs, and is who was reported there; a process
\* that is cleared up is still entered; a process runs under a token of its own.
PlaceInv ==
    /\ fgProc \subseteq live
    /\ observing.report = "foreground" => observing.pid \in fgProc
    /\ observing.report = "clearing" => observing.pid \in registered
    /\ \A p \in Pid : procToken[p] \in TokensOf[p]
    /\ ~LateCalls => \A p \in registered : entryToken[p] \in TokensOf[p]

\* A click in flight whose process left the foreground, and had its entry all
\* the time, will not grant, or the report that the process left is still to
\* come, or the revoke posted for it waits for the click to be over.
Caught(c) ==
    /\ InFlight(c) /\ call[c].kind = "click" /\ call[c].tracked
    /\ call[c].token \in SoleTokens /\ call[c].pid \notin fgProc
    => \/ revokeTasks[call[c].token] > 0 /\ call[c].aged
       \/ Leaving(call[c].pid)

BehindInv ==
    /\ PlaceInv
    /\ ~LateCalls /\ appMgrAlive => \A c \in Caller : Caught(c)

LEMMA PlaceStep ==
    TypesInv /\ PromptInv /\ PlaceInv /\ [Next]_vars => PlaceInv'
<1> SUFFICES ASSUME TypesInv, PromptInv, PlaceInv, [Next]_vars
             PROVE  PlaceInv'
  OBVIOUS
<1> DEFINE Placed == /\ fgProc' \subseteq live'
                     /\ observing'.report = "foreground" => observing'.pid \in fgProc'
                     /\ \A p \in Pid : procToken'[p] \in TokensOf[p]
<1>0. procToken \in [Pid -> Token]
  BY DEF TypesInv, TypeOK, ProcTypeOK
<1>1. ASSUME UNCHANGED <<procVars, observing>>
      PROVE  Placed
  BY <1>1 DEF procVars, PlaceInv
<1>2. ASSUME NEW q \in Pid, ProcessStart(q)
      PROVE  Placed
  BY <1>0, <1>2 DEF ProcessStart, PlaceInv
<1>3. ASSUME NEW q \in Pid, AppMgrReports(q)
      PROVE  Placed
  BY <1>3 DEF AppMgrReports, OnProcessForeground, OnProcessBackground, OnProcessDied,
     OnAppCacheStateChanged, Report, PlaceInv
<1>4. ASSUME ObserverStep, UNCHANGED procVars
      PROVE  Placed
  <2>1. observing' = Silent \/ observing' = Report("clearing", observing.pid)
    BY <1>4 DEF ObserverStep, IgnoreReport, NotifyProcessForeground, NotifyProcessBackground,
       RemoveDialogWaitEntitys, NotifyProcessDied
  <2> QED
    BY <1>4, <2>1 DEF procVars, PlaceInv, Silent, Report
<1>5. ASSUME ExitWhenAppMgrDied
      PROVE  Placed
  BY <1>5 DEF ExitWhenAppMgrDied, PlaceInv
<1>6. ASSUME ~LateCalls, NEW p \in registered'
      PROVE  entryToken'[p] \in TokensOf[p]
  <2>1. CASE p \in registered /\ entryToken'[p] = entryToken[p]
    BY <1>6, <2>1 DEF PlaceInv
  <2>2. ASSUME NEW c \in Caller, EntersTable(c, p)
        PROVE  entryToken'[p] \in TokensOf[p]
    <3>1. call[c].pid \in Pid
      BY <2>2, InFlightCall DEF EntersTable, TypesInv
    <3> QED
      BY <1>6, <2>2, <3>1 DEF EntersTable, PromptInv, PlaceInv
  <2> QED
    BY <2>1, <2>2, TableGrows
<1>7. ASSUME observing'.report = "clearing"
      PROVE  observing'.pid \in registered'
  <2>1. CASE observing' # observing
    BY <1>7, <2>1, ClearingStarts DEF RemoveDialogWaitEntitys, Report, tableVars
  <2>2. CASE observing' = observing
    <3>1. observing.pid \in registered
      BY <1>7, <2>2 DEF PlaceInv
    <3>2. ~NotifyProcessDied /\ ~ExitWhenAppMgrDied
      BY <1>7, <2>2 DEF NotifyProcessDied, ExitWhenAppMgrDied, LockFreeC, Silent
    <3> QED
      BY <2>2, <3>1, <3>2, TableShrinks
  <2> QED
    BY <2>1, <2>2
<1> QED
  BY <1>1, <1>2, <1>3, <1>4, <1>5, <1>6, <1>7, ProcChanges DEF PlaceInv

\* A process leaves the foreground by a report that it does.
LEMMA LeavesByReport ==
    ASSUME [Next]_vars, NEW p \in fgProc, p \notin fgProc'
    PROVE  AppMgrReports(p) /\ Leaving(p)'
<1>1. ASSUME NEW q \in Pid, AppMgrReports(q)
      PROVE  AppMgrReports(p) /\ Leaving(p)'
  <2>1. q = p /\ (observing' = Report("background", p) \/ observing' = Report("died", p))
    BY <1>1 DEF AppMgrReports, OnProcessForeground, OnProcessBackground, OnProcessDied,
       OnAppCacheStateChanged
  <2> QED
    BY <1>1, <2>1 DEF Leaving
<1> QED
  BY <1>1, ProcChanges DEF procVars, ProcessStart, ExitWhenAppMgrDied

\* How the report that a process left is handled.
LEMMA LeavingGoes ==
    ASSUME [Next]_vars, NEW p, Leaving(p), ~Leaving(p)'
    PROVE  /\ observing.pid = p
           /\ IgnoreReport \/ NotifyProcessBackground \/ NotifyProcessDied
<1>1. observing.pid = p /\ observing # Silent /\ observing.report # "foreground"
  BY DEF Leaving, Report, Silent
<1>2. ASSUME UNCHANGED observing
      PROVE  FALSE
  BY <1>2 DEF Leaving
<1>3. CASE ObserverStep
  <2>1. CASE RemoveDialogWaitEntitys
    BY <1>1, <2>1 DEF RemoveDialogWaitEntitys, Leaving
  <2>2. CASE NotifyProcessForeground
    BY <1>1, <2>2 DEF NotifyProcessForeground
  <2> QED
    BY <1>1, <1>3, <2>1, <2>2 DEF ObserverStep
<1> QED
  BY <1>1, <1>2, <1>3, ProcChanges DEF ProcessStart, AppMgrReports, ExitWhenAppMgrDied

\* Why no revoke of a token waits any more.
LEMMA RevokeGoes ==
    ASSUME TypesInv, [Next]_vars, NEW t \in Token, revokeTasks[t] > 0, ~(revokeTasks'[t] > 0)
    PROVE  \/ /\ NotifyProcessForeground \/ NotifyProcessDied
              /\ entryToken[observing.pid] = t
           \/ ExitWhenAppMgrDied
           \/ DispatchRevoke(t)
<1>0. TypeOK /\ revokeTasks \in [Token -> Nat]
  BY DEF TypesInv, TypeOK, App!AppTypeOK
<1>1. ASSUME UNCHANGED revokeTasks
      PROVE  FALSE
  BY <1>1
<1>2. ASSUME NEW u, App!CancelAppRevokingPermisions({u})
      PROVE  u = t
  BY <1>0, <1>2 DEF App!CancelAppRevokingPermisions
<1>3. CASE ObserverStep
  <2>1. CASE NotifyProcessForeground
    BY <1>2, <2>1 DEF NotifyProcessForeground
  <2>2. CASE NotifyProcessDied
    BY <1>2, <2>2 DEF NotifyProcessDied, App!RevokeAppPermissions
  <2>3. CASE NotifyProcessBackground
    <3>1. entryToken[observing.pid] \in Token
      BY <1>0, <2>3, ObservedPid DEF NotifyProcessBackground
    <3> QED
      BY <1>0, <2>3, <3>1 DEF NotifyProcessBackground, App!RevokeAppPermisionsDelayed
  <2>4. CASE IgnoreReport \/ RemoveDialogWaitEntitys
    BY <1>1, <2>4 DEF IgnoreReport, RemoveDialogWaitEntitys, appVars
  <2> QED
    BY <1>3, <2>1, <2>2, <2>3, <2>4 DEF ObserverStep
<1>4. CASE HandlerStep
  <2>1. ASSUME NEW u \in Token, DispatchRevoke(u)
        PROVE  DispatchRevoke(t)
    BY <1>0, <2>1 DEF DispatchRevoke, App!FireRevokeTask
  <2>2. CASE \/ DispatchExit \/ ExitSaProcess \/ RevokeAll \/ DispatchSaveRevoke \/ SaveRevoke
             \/ SaveFirstUseRecord \/ WriteCfgContent
    BY <1>1, <2>2 DEF DispatchExit, ExitSaProcess, RevokeAll, DispatchSaveRevoke, SaveRevoke,
       SaveFirstUseRecord, WriteCfgContent, appVars
  <2> QED
    BY <1>4, <2>1, <2>2 DEF HandlerStep
<1>5. CASE ServiceStops \/ \E p \in Pid : ProcessStart(p) \/ AppMgrReports(p)
  BY <1>1, <1>5 DEF ServiceStops, ProcessStart, AppMgrReports, appVars
<1>6. CASE UNCHANGED vars
  BY <1>1, <1>6 DEF vars, appVars
<1> QED
  BY <1>1, <1>3, <1>4, <1>5, <1>6, CallerBeginsFrame, CallerEndsFrame, UserClosesFrame, DialogFrame
     DEF Next, appVars

\* A revoke that runs has revoked when it is over.
LEMMA RevokingGoes ==
    ASSUME [Next]_vars, NEW t \in Token, running = Revoking(t), running' # Revoking(t)
    PROVE  RevokeAll /\ running.token = t
<1>1. running.task = "revoke" /\ running.token = t /\ running # Idle /\ running # Exiting
  BY DEF Revoking, Idle, Exiting
<1>2. ASSUME UNCHANGED running
      PROVE  FALSE
  BY <1>2
<1>3. CASE HandlerStep
  BY <1>1, <1>2, <1>3 DEF HandlerStep, DispatchExit, ExitSaProcess, DispatchRevoke,
     DispatchSaveRevoke, SaveRevoke, SaveFirstUseRecord, WriteCfgContent, HandlerIdle
<1>4. CASE ExitWhenAppMgrDied \/ ServiceStops \/ \E p \in Pid : ProcessStart(p) \/ AppMgrReports(p)
  BY <1>2, <1>4 DEF ExitWhenAppMgrDied, ServiceStops, ProcessStart, AppMgrReports
<1>5. CASE UNCHANGED vars
  BY <1>2, <1>5 DEF vars
<1> QED
  BY <1>1, <1>2, <1>3, <1>4, <1>5, CallerBeginsFrame, CallerEndsFrame, ObserverFrame,
     UserClosesFrame, DialogFrame DEF Next

\* A token of one process belongs to the entry of that process only.
LEMMA SoleEntry ==
    ASSUME TypesInv, PlaceInv, ~LateCalls, NEW t \in SoleTokens,
           NEW p \in Pid, t \in TokensOf[p], NEW q \in registered, entryToken[q] = t
    PROVE  q = p /\ p \notin RootPid
<1>1. q \in Pid /\ t \in TokensOf[q]
  BY DEF PlaceInv, TypesInv, TypeOK, TableTypeOK
<1> QED
  BY <1>1 DEF SoleTokens

\* The revoke a click in flight is caught by stays.
LEMMA StaysCaught ==
    ASSUME ServiceInv, BehindInv, ~LateCalls, [Next]_vars, appMgrAlive',
           NEW c \in Caller, NEW t \in SoleTokens, NEW p \in Pid \ fgProc,
           InFlight(c), call[c].kind = "click", call[c].pid = p, call[c].token = t,
           Goes(c), call'[c].tracked
    PROVE  (revokeTasks'[t] > 0 /\ call'[c].aged) \/ Leaving(p)'
<1>0. /\ TypesInv /\ TypeOK /\ TrackInv /\ PromptInv /\ PlaceInv
      /\ appMgrAlive /\ ~ExitWhenAppMgrDied
      /\ t \in Token /\ p \in Pid /\ call[c].tracked
  BY AppMgrStaysDead DEF ServiceInv, BehindInv, TypesInv, SoleTokens, Goes
<1>1. p \in live /\ t = procToken[p] /\ t \in TokensOf[p]
  BY <1>0 DEF PromptInv, PlaceInv
<1>2. p \in registered /\ entryToken[p] = t
  BY <1>0, <1>1 DEF TrackInv, PromptInv
<1>3. ASSUME NotifyProcessDied, entryToken[observing.pid] = t \/ observing.pid = p
      PROVE  FALSE
  <2>1. observing.pid \in registered
    BY <1>0, <1>3 DEF NotifyProcessDied, PlaceInv
  <2>2. observing.pid = p
    BY <1>0, <1>1, <1>3, <2>1, SoleEntry
  <2> QED
    BY <1>0, <1>3, <2>2, DeathUntracks
<1>4. CASE revokeTasks[t] > 0 /\ call[c].aged
  <2>1. ~DispatchRevoke(t)
    BY <1>4 DEF DispatchRevoke, CallsOutrunRevoke
  <2>2. ASSUME NotifyProcessForeground, entryToken[observing.pid] = t
        PROVE  FALSE
    <3>1. observing.pid \in registered /\ observing.pid \in fgProc
      BY <1>0, <2>2 DEF NotifyProcessForeground, PlaceInv
    <3> QED
      BY <1>0, <1>1, <2>2, <3>1, SoleEntry
  <2>3. revokeTasks'[t] > 0
    BY <1>0, <1>3, <1>4, <2>1, <2>2, RevokeGoes
  <2> QED
    BY <1>4, <2>3 DEF Goes
<1>5. CASE Leaving(p)
  <2>1. ASSUME ~Leaving(p)'
        PROVE  revokeTasks'[t] > 0 /\ call'[c].aged
    <3>1. NotifyProcessBackground /\ observing.pid = p
      BY <1>2, <1>3, <1>5, <2>1, LeavingGoes DEF IgnoreReport
    <3>2. call'[c].aged
      <4>1. call[c] \in Call
        BY <1>0, InFlightCall
      <4>2. call'[c] = [call[c] EXCEPT !.aged = TRUE]
        BY <1>2, <3>1 DEF NotifyProcessBackground
      <4> QED
        BY <4>1, <4>2 DEF Call
    <3>3. revokeTasks' = [revokeTasks EXCEPT ![t] = @ + 1]
      BY <1>2, <3>1 DEF NotifyProcessBackground, App!RevokeAppPermisionsDelayed
    <3>4. revokeTasks \in [Token -> Nat]
      BY <1>0 DEF TypeOK, App!AppTypeOK
    <3> QED
      BY <1>0, <3>2, <3>3, <3>4
  <2> QED
    BY <2>1
<1> QED
  BY <1>0, <1>4, <1>5 DEF BehindInv, Caught

LEMMA CaughtStep ==
    ASSUME ServiceInv, BehindInv, ~LateCalls, [Next]_vars, appMgrAlive', NEW c \in Caller
    PROVE  Caught(c)'
<1> SUFFICES ASSUME NEW t \in SoleTokens, NEW p, p \notin fgProc',
                    call'[c] # NoCall, call'[c].kind = "click", call'[c].pid = p,
                    call'[c].token = t, call'[c].tracked
             PROVE  (revokeTasks'[t] > 0 /\ call'[c].aged) \/ Leaving(p)'
  BY DEF Caught, InFlight, Leaving
<1>0. TypesInv /\ TypeOK /\ PlaceInv
  BY DEF ServiceInv, BehindInv, TypesInv
<1>1. p \in Pid
  <2>1. TypeOK'
    BY <1>0, TypesStep DEF TypesInv
  <2> QED
    BY <2>1 DEF TypeOK, TableTypeOK, Call
<1>2. CASE ~InFlight(c)
  <2>1. Begun(c)
    BY <1>0, <1>2, CallsGo DEF Goes
  <2>2. UNCHANGED procVars /\ p \in fgProc \cup RootPid
    BY <2>1 DEF Begun
  <2>3. t \in TokensOf[p]
    BY <1>0, <1>1, <2>1 DEF Begun, PlaceInv
  <2> QED
    BY <1>1, <2>2, <2>3 DEF SoleTokens, procVars
<1>3. CASE InFlight(c)
  <2>1. Goes(c)
    BY <1>0, <1>3, CallsGo DEF Begun
  <2>2. call[c].kind = "click" /\ call[c].pid = p /\ call[c].token = t
    BY <2>1 DEF Goes
  <2>4. CASE p \in fgProc
    BY <2>4, LeavesByReport
  <2>5. CASE p \notin fgProc
    BY <1>1, <1>3, <2>1, <2>2, <2>5, StaysCaught
  <2> QED
    BY <2>4, <2>5
<1> QED
  BY <1>2, <1>3

\* What grants a permission to a token: a click on one of its paste buttons, or
\* the close of one of its dialogs.
LEMMA GrantedBy ==
    ASSUME TypesInv, LockInv, [Next]_vars, NEW t \in Token, held[t] = {}, held'[t] # {}
    PROVE  \/ \E c \in Caller : ClickPaste(c) /\ call[c].comp.token = t
           \/ DialogCloses(t)
<1>0. TypeOK /\ App!AppTypeOK /\ held \in [Token -> SUBSET App!Perm]
  BY DEF TypesInv, TypeOK, App!AppTypeOK
<1>1. ASSUME UNCHANGED held
      PROVE  FALSE
  BY <1>1
<1>2. ASSUME NEW T, App!RevokeAppPermisionsImmediately(T)
      PROVE  FALSE
  BY <1>2 DEF App!RevokeAppPermisionsImmediately
<1>3. ASSUME NEW u \in Token, NEW perm, NEW ok, App!GrantAppPermission(u, perm, ok)
      PROVE  u = t
  BY <1>0, <1>3 DEF App!GrantAppPermission
<1>4. ASSUME NEW c \in Caller, CallerEnds(c)
      PROVE  ClickPaste(c) /\ call[c].comp.token = t
  <2>1. CASE ClickPaste(c)
    <3>1. ClickAt(c, "checked")
      BY <2>1 DEF ClickPaste
    <3>2. call[c].comp.token \in Token
      BY <3>1, ClickListed
    <3> QED
      BY <1>3, <2>1, <3>2 DEF ClickPaste
  <2>2. CASE ~ClickPaste(c)
    BY <1>1, <1>4, <2>2 DEF CallerEnds, AddSecurityComponentToList, AddSecurityComponentProcess,
       DeleteSecurityComponentFromList, UpdateSecurityComponent, RefuseClick, FailClick,
       AcceptClick, ClickToast, ClickSave, ClickSaveEnd, ClickDialog, appVars
  <2> QED
    BY <2>1, <2>2
<1>5. CASE ObserverStep
  <2>1. CASE NotifyProcessDied
    BY <1>2, <2>1 DEF NotifyProcessDied, App!RevokeAppPermissions
  <2>2. CASE ~NotifyProcessDied
    BY <1>1, <1>5, <2>2 DEF ObserverStep, IgnoreReport, NotifyProcessForeground,
       NotifyProcessBackground, RemoveDialogWaitEntitys, appVars
  <2> QED
    BY <2>1, <2>2
<1>6. CASE ExitWhenAppMgrDied
  BY <1>2, <1>6 DEF ExitWhenAppMgrDied, App!RevokeAppPermissions
<1>7. ASSUME NEW d \in openDialogs, CloseWithoutGrant(d) \/ GrantDialogWaitEntity(d)
      PROVE  DialogCloses(t)
  <2>1. CASE CloseWithoutGrant(d)
    BY <1>1, <2>1 DEF CloseWithoutGrant, appVars
  <2>2. CASE GrantDialogWaitEntity(d)
    <3>1. d.comp.token \in Token
      BY <1>0, <2>2 DEF GrantDialogWaitEntity, TypeOK, DialogTypeOK, Entity
    <3>2. \E perm, ok : App!GrantAppPermission(d.comp.token, perm, ok)
      BY <1>1, <2>2 DEF GrantDialogWaitEntity
    <3>3. d.comp.token = t
      BY <1>3, <3>1, <3>2
    <3> QED
      BY <2>2, <3>3 DEF GrantDialogWaitEntity, DialogCloses
  <2> QED
    BY <1>7, <2>1, <2>2
<1>8. CASE DialogStep
  <2>1. CASE GrantDialogWaitEntityEnd
    <3>1. closing # NoGrant /\ closing.comp.token \in Token
      BY <1>0, <2>1 DEF GrantDialogWaitEntityEnd, TypeOK, DialogTypeOK, Grant, Entity
    <3>2. ~App!FailAndTakeBack(closing.comp.token, "LOCATION", "APPROXIMATELY_LOCATION")
      BY <1>0, <3>1 DEF App!FailAndTakeBack
    <3>3. App!GrantAppPermission(closing.comp.token, "LOCATION", TRUE)
      BY <1>1, <2>1, <3>2 DEF GrantDialogWaitEntityEnd
    <3>4. closing.comp.token = t
      BY <1>3, <3>1, <3>3
    <3> QED
      BY <2>1, <3>1, <3>4 DEF GrantDialogWaitEntityEnd, DialogCloses
  <2>2. CASE \/ \E e \in confirmed : ReadConfirmedType(e)
             \/ \E e \in noting : SetFirstUseMap(e)
    BY <1>1, <2>2 DEF ReadConfirmedType, SetFirstUseMap, appVars
  <2> QED
    BY <1>8, <2>1, <2>2 DEF DialogStep
<1>9. CASE HandlerStep
  <2>1. CASE RevokeAll
    BY <1>2, <2>1 DEF RevokeAll
  <2>2. CASE ~RevokeAll
    BY <1>1, <1>9, <2>2 DEF HandlerStep, DispatchExit, ExitSaProcess, DispatchRevoke,
       DispatchSaveRevoke, SaveRevoke, SaveFirstUseRecord, WriteCfgContent, appVars
  <2> QED
    BY <2>1, <2>2
<1>10. CASE ServiceStops \/ \E p \in Pid : ProcessStart(p) \/ AppMgrReports(p)
  BY <1>1, <1>10 DEF ServiceStops, ProcessStart, AppMgrReports, appVars
<1>11. CASE UNCHANGED vars
  BY <1>1, <1>11 DEF vars, appVars
<1>12. ASSUME NEW c \in Caller, CallerBegins(c)
       PROVE  FALSE
  BY <1>1, <1>12, CallerBeginsFrame DEF appVars
<1> QED
  BY <1>4, <1>5, <1>6, <1>7, <1>8, <1>9, <1>10, <1>11, <1>12
     DEF Next, UserClosesDialog

\* A click grants to its process.
LEMMA ClickGrantsItself ==
    ASSUME ServiceInv, ~LateCalls, NEW c \in Caller, ClickPaste(c),
           NEW t \in Token, call[c].comp.token = t
    PROVE  /\ call[c].pid \in registered /\ entryToken[call[c].pid] = t
           /\ call[c].token = t
<1>0. TypesInv /\ TableInv /\ LockInv /\ PromptInv
  BY DEF ServiceInv
<1>1. InFlight(c) /\ ClickAt(c, "checked")
  BY DEF ClickPaste, ClickAt
<1>2. call[c].pid \in Pid /\ call[c].comp \in compList[call[c].pid]
  BY <1>0, <1>1, ClickListed
<1>3. call[c].pid \in registered /\ entryToken[call[c].pid] = t /\ call[c].pid \in live
  BY <1>0, <1>1, <1>2 DEF TableInv, PromptInv, EntitiesMatchEntry
<1> QED
  BY <1>0, <1>1, <1>3 DEF PromptInv

\* A click that grants in the background has a revoke ahead of it, if its
\* process had its entry all the time.
LEMMA ClickIsCaught ==
    ASSUME ServiceInv, BehindInv, ~LateCalls, appMgrAlive,
           NEW c \in Caller, ClickPaste(c), call[c].tracked,
           NEW t \in SoleTokens, call[c].comp.token = t, ~Foreground(t)
    PROVE  RevokeAhead(t)'
<1>0. PromptInv /\ t \in Token
  BY DEF ServiceInv, SoleTokens
<1>1. /\ InFlight(c) /\ call[c].kind = "click"
      /\ UNCHANGED <<observing, tableVars, revokeTasks>>
  BY DEF ClickPaste, ClickAt
<1>2. PICK p : p = call[c].pid
  OBVIOUS
<1>3. p \in registered /\ entryToken[p] = t /\ call[c].token = t
  BY <1>0, <1>2, ClickGrantsItself
<1>4. procToken[p] = t
  BY <1>0, <1>1, <1>2, <1>3 DEF PromptInv
<1>5. revokeTasks[t] > 0 \/ Leaving(p)
  BY <1>1, <1>2, <1>3, <1>4 DEF BehindInv, Caught, Foreground
<1>6. CASE revokeTasks[t] > 0
  BY <1>1, <1>6 DEF RevokeAhead
<1>7. CASE Leaving(p)
  <2>1. p \in registered' /\ entryToken'[p] = t /\ Leaving(p)'
    BY <1>1, <1>3, <1>7 DEF tableVars, Leaving
  <2> QED
    BY <2>1 DEF RevokeAhead
<1> QED
  BY <1>5, <1>6, <1>7

\* A token that holds something keeps the revoke ahead of it until it runs, or
\* gets one when it leaves the foreground.
LEMMA AheadStays ==
    ASSUME ServiceInv, BehindInv, ~LateCalls, [Next]_vars, appMgrAlive', NEW t \in SoleTokens,
           held[t] # {}, held'[t] # {}, Foreground(t) \/ RevokeAhead(t), ~Foreground(t)'
    PROVE  RevokeAhead(t)'
<1> DEFINE Ahead == \/ revokeTasks'[t] > 0
                    \/ running' = Revoking(t)
                    \/ \E p \in registered' : entryToken'[p] = t /\ Leaving(p)'
<1> SUFFICES Ahead
  BY DEF RevokeAhead
<1>0. /\ TypesInv /\ TypeOK /\ App!AppTypeOK /\ TableInv /\ PromptInv /\ PlaceInv
      /\ appMgrAlive /\ ~ExitWhenAppMgrDied /\ t \in Token /\ HeldIsRecorded
  BY AppMgrStaysDead DEF ServiceInv, BehindInv, TypesInv, TypeOK, SoleTokens, GrantInv
\* A revoke of the token leaves nothing to take back.
<1>1. ASSUME NEW T, t \in T, App!RevokeAppPermisionsImmediately(T)
      PROVE  FALSE
  <2>1. held'[t] = held[t] \ grantMap[t]
    BY <1>0, <1>1 DEF App!RevokeAppPermisionsImmediately
  <2> QED
    BY <1>0, <2>1 DEF HeldIsRecorded, App!HeldIsRecorded
<1>2. ~(NotifyProcessDied /\ entryToken[observing.pid] = t)
  BY <1>1 DEF NotifyProcessDied, App!RevokeAppPermissions
<1>3. CASE Foreground(t)
  <2>1. PICK p \in fgProc : procToken[p] = t
    BY <1>3 DEF Foreground
  <2>2. p \in live /\ p \in Pid /\ t \in TokensOf[p]
    BY <1>0, <2>1 DEF PlaceInv, TypeOK, ProcTypeOK
  <2>3. procToken'[p] = t
    <3>1. ASSUME NEW q \in Pid, ProcessStart(q)
          PROVE  procToken'[p] = t
      BY <1>0, <2>1, <2>2, <3>1 DEF ProcessStart, TypeOK, ProcTypeOK
    <3> QED
      BY <1>0, <2>1, <3>1, ProcChanges DEF procVars, AppMgrReports
  <2>4. AppMgrReports(p) /\ Leaving(p)'
    BY <2>1, <2>3, LeavesByReport DEF Foreground
  <2>5. PICK q \in registered : entryToken[q] = t
    BY <1>0 DEF ServiceInv, GrantInv, GrantsRevocable, Granted
  <2>6. q = p
    BY <1>0, <2>2, <2>5, SoleEntry
  <2> QED
    BY <2>4, <2>5, <2>6 DEF AppMgrReports, tableVars
<1>4. CASE ~Foreground(t)
  <2>1. CASE revokeTasks[t] > 0
    <3>1. ASSUME NotifyProcessForeground, entryToken[observing.pid] = t
          PROVE  FALSE
      <4>1. PICK p \in registered : p = observing.pid
        BY <3>1 DEF NotifyProcessForeground
      <4>2. p \in fgProc /\ p \in live
        BY <1>0, <3>1, <4>1 DEF NotifyProcessForeground, PlaceInv
      <4>3. procToken[p] = t
        BY <1>0, <3>1, <4>1, <4>2 DEF PromptInv
      <4> QED
        BY <1>4, <4>2, <4>3 DEF Foreground
    <3>2. DispatchRevoke(t) => running' = Revoking(t)
      BY DEF DispatchRevoke
    <3> QED
      BY <1>0, <1>2, <2>1, <3>1, <3>2, RevokeGoes
  <2>2. CASE running = Revoking(t)
    <3>1. ASSUME RevokeAll, running.token = t
          PROVE  FALSE
      BY <1>1, <3>1 DEF RevokeAll
    <3> QED
      BY <1>0, <2>2, <3>1, RevokingGoes
  <2>3. ASSUME NEW p \in registered, entryToken[p] = t, Leaving(p)
        PROVE  Ahead
    <3>1. CASE Leaving(p)'
      <4>1. p \in registered'
        BY <1>0, <1>2, <2>3, TableShrinks
      <4> QED
        BY <1>0, <2>3, <3>1, <4>1, TableGrows DEF EntersTable
    <3>2. CASE ~Leaving(p)'
      <4>1. NotifyProcessBackground /\ observing.pid = p
        BY <1>2, <2>3, <3>2, LeavingGoes DEF IgnoreReport
      <4>2. revokeTasks' = [revokeTasks EXCEPT ![t] = @ + 1]
        BY <2>3, <4>1 DEF NotifyProcessBackground, App!RevokeAppPermisionsDelayed
      <4> QED
        BY <1>0, <4>2 DEF App!AppTypeOK
    <3> QED
      BY <3>1, <3>2
  <2> QED
    BY <1>4, <2>1, <2>2, <2>3 DEF RevokeAhead
<1> QED
  BY <1>3, <1>4

LEMMA EscapeStep ==
    ASSUME ServiceInv, BehindInv, ~LateCalls, [Next]_vars,
           NEW t \in SoleTokens, ~Escaped(t), Escaped(t)'
    PROVE  held[t] = {} /\ (DialogCloses(t) \/ UntrackedClick(t))
<1>0. /\ TypesInv /\ LockInv /\ appMgrAlive /\ t \in Token
      /\ appMgrAlive' /\ held'[t] # {} /\ ~Foreground(t)' /\ ~RevokeAhead(t)'
  BY AppMgrStaysDead DEF ServiceInv, SoleTokens, Escaped
<1>1. held[t] = {}
  BY <1>0, AheadStays DEF Escaped
<1>2. ASSUME NEW c \in Caller, ClickPaste(c), call[c].comp.token = t
      PROVE  UntrackedClick(t)
  <2>1. ~Foreground(t)
    BY <1>0, <1>2 DEF ClickPaste, procVars, Foreground
  <2>2. ~call[c].tracked
    BY <1>0, <1>2, <2>1, ClickIsCaught
  <2>3. call[c].token = t
    BY <1>0, <1>2, ClickGrantsItself
  <2> QED
    BY <1>2, <2>2, <2>3 DEF UntrackedClick, ClickPaste
<1> QED
  BY <1>0, <1>1, <1>2, GrantedBy

-----------------------------------------------------------------------------
(* The theorems.                                                           *)

LEMMA ServiceInit == Init => ServiceInv
<1> SUFFICES ASSUME Init
             PROVE  ServiceInv
  OBVIOUS
<1>1. TypesInv
  BY TypesInit
<1>2. TableInv /\ CallsOwn /\ LockInv /\ TrackInv
  BY DEF Init, TableInv, CallsOwn, LockInv, Locking, TrackInv, InFlight
<1>3. PromptInv
  BY DEF Init, PromptInv, InFlight, EntitiesMatchEntry, CleanStart, Malicious!MaliciousInit
<1>4. WaitInv
  BY DEF Init, WaitInv, WaitersRegistered, Silent
<1>5. GrantInv
  BY DEF Init, App!AppInit, Save!SaveInit, GrantInv, HeldIsRecorded, App!HeldIsRecorded,
     GrantsRevocable, Granted, Save!VerifySavePermission
<1>6. RevokeInv
  BY DEF Init, App!AppInit, RevokeInv, NoStrayRevoke, Silent
<1>7. ExitArmedWhenIdle
  BY DEF Init, ExitArmedWhenIdle
<1>8. ClickSaves /\ DialogSaves
  BY DEF Init, ClickSaves, DialogSaves, InFlight
<1>9. UniqueIds
  <2>1. Referenced = {}
    BY DEF Init, Referenced, InFlightComps, InFlight, NoGrant
  <2> QED
    BY <2>1 DEF UniqueIds
<1>10. AskedInv
  BY DEF Init, Save!SaveInit, AskedInv
<1> QED
  BY <1>1, <1>2, <1>3, <1>4, <1>5, <1>6, <1>7, <1>8, <1>9, <1>10
     DEF ServiceInv, SaveInv

LEMMA ServiceStep == ServiceInv /\ [Next]_vars => ServiceInv'
BY TypesStep, TableStep, CallsOwnStep, LockStep, TrackStep, PromptStep, WaitStep, SaveInvStep,
   GrantStep, RevokeStep, ArmedStep
   DEF ServiceInv

LEMMA ServiceInvariance == SafeSpec => []ServiceInv
BY ServiceInit, ServiceStep, PTL DEF SafeSpec

LEMMA BehindInit == Init => BehindInv
<1> SUFFICES ASSUME Init
             PROVE  BehindInv
  OBVIOUS
<1>1. PlaceInv
  BY DEF Init, PlaceInv, Silent
<1>2. \A c \in Caller : Caught(c)
  BY DEF Init, Caught, InFlight
<1> QED
  BY <1>1, <1>2 DEF BehindInv

LEMMA BehindInvariance == SafeSpec => []BehindInv
<1>1. ServiceInv /\ BehindInv /\ [Next]_vars => BehindInv'
  <2> SUFFICES ASSUME ServiceInv, BehindInv, [Next]_vars
               PROVE  BehindInv'
    OBVIOUS
  <2>1. PlaceInv'
    BY PlaceStep DEF ServiceInv, BehindInv
  <2> QED
    BY <2>1, CaughtStep DEF BehindInv
<1> QED
  BY <1>1, BehindInit, ServiceInvariance, PTL DEF SafeSpec

\* A delayed revoke never waits for a token none of whose processes is in the
\* background, however foreground, background and death reports and calls
\* that add processes interleave.
THEOREM RevokesHaveReason == SafeSpec => []NoStrayRevoke
<1>1. ServiceInv => NoStrayRevoke
  BY DEF ServiceInv, RevokeInv
<1> QED
  BY <1>1, ServiceInvariance, PTL

\* No dialog is left that could grant for a process whose death was handled,
\* although deaths are handled under lock C and dialogs close under lock U.
THEOREM WaitersLive == SafeSpec => []WaitersRegistered
<1>1. ServiceInv => WaitersRegistered
  BY DEF ServiceInv, WaitInv
<1> QED
  BY <1>1, ServiceInvariance, PTL

\* The record by which permissions are revoked never misses one.
THEOREM RecordsHeld == SafeSpec => []HeldIsRecorded
<1>1. ServiceInv => HeldIsRecorded
  BY DEF ServiceInv, GrantInv
<1> QED
  BY <1>1, ServiceInvariance, PTL

\* A service nobody uses is always on its way out: no interleaving of
\* registrations, deaths and the exit task loses the last exit task.
THEOREM ExitArmed == SafeSpec => []ExitArmedWhenIdle
<1>1. ServiceInv => ExitArmedWhenIdle
  BY DEF ServiceInv
<1> QED
  BY <1>1, ServiceInvariance, PTL

\* As long as a call does not outlive its process, a component is listed, and
\* so granted, under the token its process is revoked by.
THEOREM ListedUnderEntry ==
    ASSUME ~LateCalls PROVE SafeSpec => []EntitiesMatchEntry
<1>1. ServiceInv => EntitiesMatchEntry
  BY DEF ServiceInv, PromptInv
<1> QED
  BY <1>1, ServiceInvariance, PTL

\* As long as a call does not outlive its process, a pid that is used again
\* inherits no failure and no ban.
THEOREM ReusedPidIsClean ==
    ASSUME ~LateCalls PROVE SafeSpec => []CleanStart
<1>1. ServiceInv => CleanStart
  BY DEF ServiceInv, PromptInv
<1> QED
  BY <1>1, ServiceInvariance, PTL

\* As long as a call does not outlive its process, every permission that is
\* held, a save permission included, belongs to a process whose next report can
\* revoke it: neither a click, which grants in two halves under lock C, nor a
\* dialog, which does so under lock U, ever grants to a process whose death was
\* handled in between.
THEOREM HeldIsRevocable ==
    ASSUME ~LateCalls PROVE SafeSpec => []GrantsRevocable
<1>1. ServiceInv => GrantsRevocable
  BY DEF ServiceInv, GrantInv
<1> QED
  BY <1>1, ServiceInvariance, PTL

\* No interleaving of clicks, dialogs, deaths and reused pids lets a token save
\* whose user was not asked before, by this service or one before it, as long as
\* none of its components became, or ceased to be, a save button by an update or
\* a click.  Other components may change their type and their ids be reused.
THEOREM UserWasAsked == SafeSpec => []FirstSaveAsks
<1>1. ServiceInv => FirstSaveAsks
  BY AskedFirst DEF ServiceInv
<1> QED
  BY <1>1, ServiceInvariance, PTL

\* The service uses SavePermission as that module assumes: whatever calls,
\* dialogs, reports and tasks interleave, what happens to the counts, deques
\* and tasks of the save permission is a behaviour of SavePermission alone, and
\* what is proved of that holds of the service.  In particular no death is
\* handled between the two halves of the grant of a click.
THEOREM ImplementsSavePermission == SafeSpec => Save!SafeSpec
<1>1. Init => Save!SaveInit /\ ClickNamed
  BY PathsAre DEF Init, Save!SaveInit, ClickNamed
<1>2. ServiceInv => TypesInv /\ LockInv
  BY DEF ServiceInv, SaveInv
<1>3. ServiceInv /\ ClickNamed /\ [Next]_vars => ClickNamed' /\ [Save!Next]_Save!saveVars
  BY <1>2, ClickNamedStep, SavePartStep DEF saveVars, Save!saveVars
<1> QED
  BY <1>1, <1>3, ServiceInvariance, PTL DEF SafeSpec, Save!SafeSpec

\* A token that was granted something and has no process, nor one whose death
\* is being handled.
Orphaned(t) ==
    /\ Granted(t)
    /\ \A p \in live : procToken[p] # t
    /\ \A p \in registered : observing \in {Report("died", p), Report("clearing", p)} => entryToken[p] # t

\* As long as a call does not outlive its process and the application manager
\* lives, nothing is granted to a token that has no process, unless the death
\* of its last one is just being handled: no click or dialog that crosses the
\* death leaves a permission behind.
THEOREM NoOrphanedGrant ==
    ASSUME ~LateCalls PROVE SafeSpec => [](appMgrAlive => \A t \in Token : ~Orphaned(t))
<1>1. ServiceInv => (appMgrAlive => \A t \in Token : ~Orphaned(t))
  BY DEF ServiceInv, GrantInv, GrantsRevocable, PromptInv, Orphaned
<1> QED
  BY <1>1, ServiceInvariance, PTL

\* As long as a call does not outlive its process, a permission comes to stay in
\* the background in two ways only: by the close of a dialog, or by a click that
\* was let in before its process had an entry.  Nothing else does it, whatever
\* types components are given and whatever ids calls name: no click that is
\* overtaken by the report, or by the revoke, of its process, no death and no
\* report of another process.
THEOREM NothingElseEscapes ==
    ASSUME ~LateCalls PROVE SafeSpec => TwoWaysToEscape
<1> DEFINE Step == \A t \in SoleTokens :
                      ~Escaped(t) /\ Escaped(t)' =>
                          held[t] = {} /\ (DialogCloses(t) \/ UntrackedClick(t))
<1>1. ServiceInv /\ BehindInv /\ [Next]_vars => [Step]_vars
  BY EscapeStep
<1> QED
  BY <1>1, ServiceInvariance, BehindInvariance, PTL DEF SafeSpec, TwoWaysToEscape
=============================================================================
