---------------------------- MODULE ServiceStart ----------------------------
(***************************************************************************)
(* The runs of the service process, one after the other: SecCompService::  *)
(* OnStart, what it fills (the foreground list, the first-use record), and *)
(* the end of the process at any point, after which only the file is left. *)
(*                                                                         *)
(* OnStart registers the observer before it asks for the applications that *)
(* are in the foreground, and takes the calls of applications last.  The   *)
(* reports of the application manager arrive one after the other on a      *)
(* thread of their own, also while OnStart fills the list.                 *)
(***************************************************************************)
EXTENDS ForegroundList, Naturals, FiniteSets

CONSTANTS
    Pid,
    UidOf,           \* per pid: the user id of the application
    Token,
    MaxReports,      \* bound: reports on their way
    MaxRecordTasks   \* bound: record tasks waiting

Uid == {UidOf[p] : p \in Pid}

ASSUME StartAssumption ==
    /\ Pid \subseteq Nat
    /\ NoPid \notin Pid
    /\ MaxReports \in Nat
    /\ MaxRecordTasks \in Nat

VARIABLES
    app,          \* per pid: "none", "starting" (pid not known to the
                  \* application manager), "foreground" or "background"
    reports,      \* [pid, foreground] on their way to the observer, in order
    stage,        \* "down", "registered", "filling" or "running"
    listed,       \* entries of GetForegroundApplications not yet added
    heard,        \* pids a report of which was handled since the list was filled
    vague,        \* user ids that came with pid -1 in this run
    unlisted,     \* pids in the foreground when the list could not be had
    firstUseMap, recordTasks, saving, cfgRecord,
    recordRead,   \* this run has read the record
    installed     \* tokens of installed applications

Record == INSTANCE FirstUseRecord

appVars == <<app, reports>>
listVars == <<foregrandProcList, listed, heard, vague, unlisted>>
fileVars == <<firstUseMap, recordTasks, saving, cfgRecord>>
recordVars == <<fileVars, recordRead, installed>>

vars == <<appVars, stage, listVars, recordVars>>

Init ==
    /\ app = [p \in Pid |-> "none"]
    /\ reports = <<>>
    /\ stage = "down"
    /\ ListInit
    /\ listed = {}
    /\ heard = {}
    /\ vague = {}
    /\ unlisted = {}
    /\ cfgRecord \in SUBSET Token
    /\ firstUseMap = {}
    /\ recordTasks = 0
    /\ saving = {}
    /\ recordRead = FALSE
    /\ installed = Token
-----------------------------------------------------------------------------
(* Applications, as the application manager sees them.  A process that is   *)
(* moved into the background, cached or dead is reported in the same way as *)
(* far as the list goes.                                                   *)

Tell(p, foreground) ==
    IF stage = "down"
      THEN UNCHANGED reports
      ELSE /\ Len(reports) < MaxReports
           /\ reports' = Append(reports, [pid |-> p, foreground |-> foreground])

Launch(p) ==
    /\ app[p] = "none"
    /\ app' = [app EXCEPT ![p] = "starting"]
    /\ UNCHANGED <<reports, stage, listVars, recordVars>>

ToForeground(p) ==
    /\ app[p] \in {"starting", "background"}
    /\ app' = [app EXCEPT ![p] = "foreground"]
    /\ Tell(p, TRUE)
    /\ UNCHANGED <<stage, listVars, recordVars>>

ToBackground(p) ==
    /\ app[p] = "foreground"
    /\ app' = [app EXCEPT ![p] = "background"]
    /\ Tell(p, FALSE)
    /\ UNCHANGED <<stage, listVars, recordVars>>

Dies(p) ==
    /\ app[p] \in {"foreground", "background"}
    /\ app' = [app EXCEPT ![p] = "none"]
    /\ Tell(p, FALSE)
    /\ UNCHANGED <<stage, listVars, recordVars>>

Uninstall(t) ==
    /\ t \in installed
    /\ installed' = installed \ {t}
    /\ UNCHANGED <<appVars, stage, listVars, fileVars, recordRead>>
-----------------------------------------------------------------------------
(* The observer: OnProcessStateChanged, OnProcessDied,                     *)
(* OnAppCacheStateChanged.                                                 *)

HandleReport ==
    /\ reports # <<>>
    /\ LET r == Head(reports)
       IN  /\ IF r.foreground
                THEN AddProcessToForegroundSet(r.pid, UidOf[r.pid])
                ELSE RemoveProcessFromForegroundSet(r.pid)
           /\ heard' = IF stage = "running" THEN heard \cup {r.pid} ELSE heard
    /\ reports' = Tail(reports)
    /\ UNCHANGED <<app, stage, listed, vague, unlisted, recordVars>>
-----------------------------------------------------------------------------
(* SecCompService::OnStart.                                                *)

RegisterObserver ==
    /\ stage = "down"
    /\ stage' = "registered"
    /\ UNCHANGED <<appVars, listVars, recordVars>>

\* The application manager answers with what is in the foreground now; when
\* it answers with an error the service starts all the same.
GetForegroundApplications ==
    LET starting == {p \in Pid : app[p] = "starting"}
        foreground == {p \in Pid : app[p] = "foreground"}
    IN  /\ stage = "registered"
        /\ stage' = "filling"
        /\ \/ /\ listed' = {Entry(p, UidOf[p]) : p \in foreground}
                              \cup {Entry(NoPid, UidOf[p]) : p \in starting}
              /\ vague' = {UidOf[p] : p \in starting}
              /\ UNCHANGED unlisted
           \/ /\ unlisted' = foreground
              /\ UNCHANGED <<listed, vague>>
        /\ UNCHANGED <<appVars, foregrandProcList, heard, recordVars>>

FillList ==
    /\ stage = "filling"
    /\ \E e \in listed :
          /\ AddProcessToForegroundSet(e.pid, e.uid)
          /\ listed' = listed \ {e}
    /\ UNCHANGED <<appVars, stage, heard, vague, unlisted, recordVars>>

\* SecCompManager::Initialize reads the record, then the service publishes
\* itself.
InitializeAndPublish ==
    /\ stage = "filling"
    /\ listed = {}
    /\ stage' = "running"
    /\ \E readable \in BOOLEAN :
          /\ Record!LoadFirstUseRecord(readable)
          /\ recordRead' = readable
    /\ UNCHANGED <<appVars, listVars, installed>>

\* OnStart fails, or the process ends: by itself, by a crash, by a power cut.
\* The application manager forgets its observer.
ProcessEnds ==
    /\ stage # "down"
    /\ stage' = "down"
    /\ reports' = <<>>
    /\ foregrandProcList' = <<>>
    /\ listed' = {}
    /\ heard' = {}
    /\ vague' = {}
    /\ unlisted' = {}
    /\ firstUseMap' = {}
    /\ recordTasks' = 0
    /\ saving' = {}
    /\ recordRead' = FALSE
    /\ UNCHANGED <<app, cfgRecord, installed>>
-----------------------------------------------------------------------------
(* The service at work.                                                    *)

\* GetCallerInfo for a call of a process that is let in.
GetCallerInfo(p) ==
    /\ stage = "running"
    /\ app[p] \in {"foreground", "background"}
    /\ AdoptEntry(p, UidOf[p])
    /\ UNCHANGED <<appVars, stage, listed, heard, vague, unlisted,
                   recordVars>>

\* The user confirms the dialog of a save button.
ConfirmFirstUse(t) ==
    /\ stage = "running"
    /\ t \in installed
    /\ recordTasks < MaxRecordTasks
    /\ Record!SetFirstUseMap(t)
    /\ UNCHANGED <<appVars, stage, listVars, recordRead, installed>>

\* The handler thread.
SaveRecord ==
    /\ \/ Record!SaveFirstUseRecord(installed)
       \/ Record!SaveGivesUp
       \/ Record!TruncateCfg
       \/ Record!WriteCfgContent
       \/ Record!WriteRefused
    /\ UNCHANGED <<appVars, stage, listVars, recordRead, installed>>
-----------------------------------------------------------------------------
AppStep ==
    \E p \in Pid : Launch(p) \/ ToForeground(p) \/ ToBackground(p) \/ Dies(p)

OnStart ==
    \/ RegisterObserver
    \/ GetForegroundApplications
    \/ FillList
    \/ InitializeAndPublish

Next ==
    \/ AppStep
    \/ HandleReport
    \/ OnStart
    \/ ProcessEnds
    \/ \E p \in Pid : GetCallerInfo(p)
    \/ \E t \in Token : ConfirmFirstUse(t) \/ Uninstall(t)
    \/ SaveRecord

Spec == Init /\ [][Next]_vars
-----------------------------------------------------------------------------
ListTypeOK ==
    /\ app \in [Pid -> {"none", "starting", "foreground", "background"}]
    /\ reports \in Seq([pid : Pid, foreground : BOOLEAN])
    /\ foregrandProcList \in Seq([pid : Pid \cup {NoPid}, uid : Uid])
    /\ listed \subseteq [pid : Pid \cup {NoPid}, uid : Uid]
    /\ heard \subseteq Pid
    /\ vague \subseteq Uid
    /\ unlisted \subseteq Pid

TypeOK ==
    /\ stage \in {"down", "registered", "filling", "running"}
    /\ ListTypeOK
    /\ Record!RecordTypeOK
    /\ recordRead \in BOOLEAN
    /\ installed \subseteq Token

\* Everything the application manager said of p has arrived.
Told(p) == \A i \in DOMAIN reports : reports[i].pid # p

\* No process in the foreground is turned away, however its moves fell into
\* the start of the service: what the list of the application manager misses
\* is reported, and nothing reported earlier takes an entry away later.  One
\* that was there when the list could not be had waits for its next report.
ForegroundAdmitted ==
    \A p \in Pid \ (unlisted \ heard) :
        stage = "running" /\ app[p] = "foreground" /\ Told(p)
            => InForeground(p, UidOf[p])

\* Once a process has moved after the start, the list has it exactly while
\* it is in the foreground: an entry the start left behind, or one that was
\* made twice, does not outlive the next report.  Applications that were
\* listed without a pid are excepted.
ReportsSettleList ==
    \A p \in heard :
        stage = "running" /\ Told(p) /\ UidOf[p] \notin vague
            => (InForeground(p, UidOf[p]) <=> app[p] = "foreground")

\* A process that is not in the foreground, of which everything was
\* reported, is refused.
BackgroundRefused ==
    \A p \in Pid :
        stage = "running" /\ app[p] = "background" /\ Told(p)
            => ~InForeground(p, UidOf[p])

\* Over all runs the record is what the user confirmed.
Promise == INSTANCE FirstUsePromise
             WITH inForce <- firstUseMap, kept <- cfgRecord, read <- recordRead

RecordKeepsPromise == Promise!Spec
=============================================================================
