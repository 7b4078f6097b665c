------------------------ MODULE ServiceStart_proofs ------------------------
(***************************************************************************)
(* Proofs that the runs of the service keep the promise on the first-use   *)
(* record, whatever fails to be read or written and whenever a run ends,   *)
(* and that the foreground list agrees with the reports, whatever happens  *)
(* while it is filled.                                                     *)
(***************************************************************************)
EXTENDS ServiceStart, ForegroundList_proofs

\* Outside a run there is no record in memory.  In a run that has read the
\* file, the map and every copy of it hold what the file holds.
RecordInv ==
    /\ Record!RecordTypeOK
    /\ recordRead \in BOOLEAN
    /\ installed \subseteq Token
    /\ stage # "running" => firstUseMap = {} /\ saving = {} /\ recordTasks = 0
    /\ recordRead => cfgRecord \subseteq firstUseMap
    /\ \A copy \in saving :
          /\ copy \subseteq firstUseMap
          /\ recordRead => cfgRecord \cap installed \subseteq copy

LEMMA RecordInvHolds == Spec => []RecordInv
<1> USE DEF RecordInv, Record!RecordTypeOK
<1>1. ASSUME Init
      PROVE  RecordInv
  <2>1. ~recordRead /\ recordRead \in BOOLEAN
    BY <1>1, Zenon DEF Init
  <2>2. Record!RecordTypeOK /\ installed \subseteq Token
    BY <1>1 DEF Init
  <2> QED
    BY <1>1, <2>1, <2>2 DEF Init
<1>2. RecordInv /\ [Next]_vars => RecordInv'
  <2> SUFFICES ASSUME RecordInv, [Next]_vars
               PROVE  RecordInv'
    OBVIOUS
  <2> USE DEF recordVars, fileVars
  <2>1. CASE AppStep
    <3>1. UNCHANGED <<stage, firstUseMap, recordTasks, saving, cfgRecord, recordRead, installed>>
      BY <2>1 DEF AppStep, Launch, ToForeground, ToBackground, Dies
    <3> QED
      BY <3>1
  <2>2. CASE HandleReport
    BY <2>2 DEF HandleReport
  <2>3. CASE RegisterObserver \/ GetForegroundApplications \/ FillList
    BY <2>3 DEF RegisterObserver, GetForegroundApplications, FillList
  <2>4. CASE InitializeAndPublish
    BY <2>4 DEF InitializeAndPublish, Record!LoadFirstUseRecord
  <2>5. CASE ProcessEnds
    BY <2>5 DEF ProcessEnds
  <2>6. CASE \E p \in Pid : GetCallerInfo(p)
    BY <2>6 DEF GetCallerInfo
  <2>7. ASSUME NEW t \in Token, ConfirmFirstUse(t)
        PROVE  RecordInv'
    BY <2>7 DEF ConfirmFirstUse, Record!SetFirstUseMap
  <2>8. ASSUME NEW t \in Token, Uninstall(t)
        PROVE  RecordInv'
    BY <2>8 DEF Uninstall
  <2>9. CASE SaveRecord
    <3>1. CASE Record!SaveFirstUseRecord(installed)
      BY <2>9, <3>1 DEF SaveRecord, Record!SaveFirstUseRecord
    <3>2. CASE Record!SaveGivesUp
      BY <2>9, <3>2 DEF SaveRecord, Record!SaveGivesUp
    <3>3. CASE Record!TruncateCfg
      BY <2>9, <3>3 DEF SaveRecord, Record!TruncateCfg
    <3>4. CASE Record!WriteCfgContent
      BY <2>9, <3>4 DEF SaveRecord, Record!WriteCfgContent
    <3>5. CASE Record!WriteRefused
      BY <2>9, <3>5 DEF SaveRecord, Record!WriteRefused
    <3> QED
      BY <2>9, <3>1, <3>2, <3>3, <3>4, <3>5 DEF SaveRecord
  <2>10. CASE UNCHANGED vars
    BY <2>10 DEF vars
  <2> QED
    BY <2>1, <2>2, <2>3, <2>4, <2>5, <2>6, <2>7, <2>8, <2>9, <2>10 DEF Next, OnStart
<1> QED
  BY <1>1, <1>2, PTL DEF Spec

\* A button goes without dialog only if its token confirmed one in this or an
\* earlier run, and a start that can read its file, followed by any number of
\* saves, never forgets an installed application but with the whole file:
\* every step of OnStart, of the handler thread and of a crash is a step of
\* FirstUsePromise or changes nothing there.
THEOREM RecordKept == Spec => RecordKeepsPromise
<1>1. Init => Promise!Init
  BY DEF Init, Promise!Init
<1>2. RecordInv /\ RecordInv' /\ [Next]_vars => [Promise!Next]_(Promise!promiseVars)
  <2> SUFFICES ASSUME RecordInv, RecordInv', [Next]_vars
               PROVE  Promise!Next \/ UNCHANGED <<firstUseMap, cfgRecord, recordRead, installed>>
    BY DEF Promise!promiseVars
  <2> USE DEF recordVars, fileVars, RecordInv, Record!RecordTypeOK
  <2>1. CASE AppStep
    BY <2>1 DEF AppStep, Launch, ToForeground, ToBackground, Dies
  <2>2. CASE HandleReport
    BY <2>2 DEF HandleReport
  <2>3. CASE RegisterObserver \/ GetForegroundApplications \/ FillList
    BY <2>3 DEF RegisterObserver, GetForegroundApplications, FillList
  <2>4. CASE InitializeAndPublish
    <3>1. Promise!Start
      BY <2>4 DEF InitializeAndPublish, Record!LoadFirstUseRecord, Promise!Start
    <3> QED
      BY <3>1 DEF Promise!Next
  <2>5. CASE ProcessEnds
    <3>1. Promise!Stop
      BY <2>5 DEF ProcessEnds, Promise!Stop
    <3> QED
      BY <3>1 DEF Promise!Next
  <2>6. CASE \E p \in Pid : GetCallerInfo(p)
    BY <2>6 DEF GetCallerInfo
  <2>7. ASSUME NEW t \in Token, ConfirmFirstUse(t)
        PROVE  Promise!Next
    <3>1. Promise!Confirm(t)
      BY <2>7 DEF ConfirmFirstUse, Record!SetFirstUseMap, Promise!Confirm
    <3> QED
      BY <3>1 DEF Promise!Next
  <2>8. ASSUME NEW t \in Token, Uninstall(t)
        PROVE  Promise!Next
    <3>1. Promise!Uninstall(t)
      BY <2>8 DEF Uninstall, Promise!Uninstall
    <3> QED
      BY <3>1 DEF Promise!Next
  <2>9. CASE SaveRecord
    <3>1. CASE Record!SaveFirstUseRecord(installed) \/ Record!SaveGivesUp
               \/ Record!WriteRefused
      BY <2>9, <3>1 DEF SaveRecord, Record!SaveFirstUseRecord, Record!SaveGivesUp,
                        Record!WriteRefused
    <3>2. CASE Record!TruncateCfg
      <4>1. Promise!Lose
        BY <2>9, <3>2 DEF SaveRecord, Record!TruncateCfg, Promise!Lose
      <4> QED
        BY <4>1 DEF Promise!Next
    <3>3. CASE Record!WriteCfgContent
      <4>1. Promise!Keep
        BY <2>9, <3>3 DEF SaveRecord, Record!WriteCfgContent, Promise!Keep
      <4> QED
        BY <4>1 DEF Promise!Next
    <3> QED
      BY <2>9, <3>1, <3>2, <3>3 DEF SaveRecord
  <2>10. CASE UNCHANGED vars
    BY <2>10 DEF vars
  <2> QED
    BY <2>1, <2>2, <2>3, <2>4, <2>5, <2>6, <2>7, <2>8, <2>9, <2>10 DEF Next, OnStart
<1> QED
  BY <1>1, <1>2, RecordInvHolds, PTL DEF Spec, RecordKeepsPromise, Promise!Spec
-----------------------------------------------------------------------------
(* The foreground list.                                                    *)

AppState == {"none", "starting", "foreground", "background"}
ReportOf == [pid : Pid, foreground : BOOLEAN]
Stages == {"down", "registered", "filling", "running"}

\* i is the last report of its process that is on its way.
LatestReport(i) == \A j \in DOMAIN reports : reports[j].pid = reports[i].pid => j <= i

\* The last report of a process says where the process is.
ReportInv ==
    /\ app \in [Pid -> AppState]
    /\ reports \in Seq(ReportOf)
    /\ stage = "down" => reports = <<>>
    /\ \A i \in DOMAIN reports :
          LatestReport(i) => (reports[i].foreground <=> app[reports[i].pid] = "foreground")

StageInv ==
    /\ stage \in Stages
    /\ IsList(Pid \cup {NoPid}, Uid)
    /\ listed \subseteq [pid : Pid \cup {NoPid}, uid : Uid]
    /\ heard \subseteq Pid /\ vague \subseteq Uid /\ unlisted \subseteq Pid
    /\ stage # "running" => heard = {}
    /\ stage # "filling" => listed = {}
    /\ stage \in {"down", "registered"} => vague = {}

\* Only an application that came without a pid can have two entries.
VagueInv ==
    /\ VagueOnly(vague)
    /\ \A e \in listed : e.pid = NoPid => e.uid \in vague
    /\ \A p \in Pid : UidOf[p] \notin vague => Once(p)

\* Once nothing of it is on its way, a process in the foreground is in the
\* list or on its way into it.
AdmitInv ==
    \A p \in Pid :
        stage \in {"filling", "running"} /\ app[p] = "foreground" /\ Told(p)
            => Has(p) \/ (\E e \in listed : e.pid = p) \/ p \in unlisted \ heard

\* A process that reported since the start and is elsewhere is not in it.
LeaveInv ==
    \A p \in heard :
        Told(p) /\ UidOf[p] \notin vague /\ app[p] # "foreground" => ~Has(p)

ListInv == ReportInv /\ StageInv /\ VagueInv /\ AdmitInv /\ LeaveInv

LEMMA PidFacts ==
    /\ Pid \cup {NoPid} \in SUBSET Int
    /\ \A p \in Pid : p \in Int \ {NoPid} /\ UidOf[p] \in Uid
<1>1. \A p \in Pid : p \in Nat /\ p # NoPid
  BY StartAssumption
<1>2. NoPid \in Int
  BY DEF NoPid
<1>3. \A p \in Pid : UidOf[p] \in Uid
  BY DEF Uid
<1> QED
  BY <1>1, <1>2, <1>3

\* A report that is made keeps the reports in agreement with the processes.
LEMMA TellReports ==
    ASSUME ReportInv, NEW p \in Pid, NEW s \in AppState, NEW foreground \in BOOLEAN,
           foreground <=> s = "foreground",
           app' = [app EXCEPT ![p] = s], Tell(p, foreground), stage' = stage
    PROVE  /\ ReportInv'
           /\ \A q \in Pid : Told(q)' => Told(q)
           /\ stage # "down" => ~Told(p)'
           /\ \A q \in Pid \ {p} : app'[q] = app[q]
<1>1. /\ app' \in [Pid -> AppState] /\ app'[p] = s
      /\ \A q \in Pid \ {p} : app'[q] = app[q]
  BY DEF ReportInv
<1>2. CASE stage = "down"
  <2>1. reports' = <<>> /\ reports = <<>>
    BY <1>2 DEF ReportInv, Tell
  <2> QED
    BY <1>1, <1>2, <2>1 DEF ReportInv, Told
<1>3. CASE stage # "down"
  <2> DEFINE r == [pid |-> p, foreground |-> foreground]
             n == Len(reports)
  <2>1. reports' = Append(reports, r) /\ r \in ReportOf /\ reports \in Seq(ReportOf)
    BY <1>3 DEF ReportInv, Tell, ReportOf
  <2>2. r.pid = p /\ (r.foreground <=> s = "foreground")
    OBVIOUS
  <2> HIDE DEF r
  <2>3. /\ reports' \in Seq(ReportOf) /\ n \in Nat
        /\ DOMAIN reports = 1..n /\ DOMAIN reports' = 1..(n + 1)
        /\ \A i \in 1..n : reports'[i] = reports[i]
        /\ reports'[n + 1] = r
    BY <2>1, AppendProperties, LenProperties
  <2>4. \A q \in Pid : Told(q)' => Told(q)
    BY <2>3 DEF Told
  <2>5. ~Told(p)'
    BY <2>2, <2>3 DEF Told
  <2>6. ASSUME NEW i \in DOMAIN reports', LatestReport(i)'
        PROVE  reports'[i].foreground <=> app'[reports'[i].pid] = "foreground"
    <3>1. CASE i = n + 1
      BY <1>1, <2>2, <2>3, <3>1
    <3>2. CASE i \in 1..n
      <4>1. reports'[i] = reports[i] /\ reports[i].pid \in Pid
        <5>1. reports[i] \in ReportOf
          BY <2>1, <3>2, ElementOfSeq
        <5> QED
          BY <2>3, <3>2, <5>1 DEF ReportOf
      <4>2. reports[i].pid # p
        BY <2>2, <2>3, <2>6, <3>2, <4>1 DEF LatestReport
      <4>3. LatestReport(i)
        BY <2>3, <2>6, <3>2, <4>1 DEF LatestReport
      <4> QED
        BY <1>1, <2>3, <3>2, <4>1, <4>2, <4>3 DEF ReportInv
    <3> QED
      BY <2>3, <3>1, <3>2
  <2> QED
    BY <1>1, <1>3, <2>3, <2>4, <2>5, <2>6 DEF ReportInv
<1> QED
  BY <1>2, <1>3

\* A report that is taken: of the others nothing changes, and if it was the
\* last of its process, it says where that is.
LEMMA TakeReport ==
    ASSUME ReportInv, reports # <<>>, NEW r, r = Head(reports), reports' = Tail(reports),
           app' = app, stage' = stage
    PROVE  /\ ReportInv'
           /\ r \in ReportOf
           /\ \A q \in Pid \ {r.pid} : Told(q)' => Told(q)
           /\ Told(r.pid)' =>
                 (r.foreground <=> app[r.pid] = "foreground")
<1> DEFINE n == Len(reports)
<1>1. /\ reports \in Seq(ReportOf) /\ n \in Nat /\ n > 0
      /\ DOMAIN reports = 1..n
      /\ r = reports[1] /\ r \in ReportOf
  BY LenProperties, HeadTailProperties, EmptySeq DEF ReportInv
<1>2. /\ reports' \in Seq(ReportOf) /\ DOMAIN reports' = 1..(n - 1)
      /\ \A i \in 1..(n - 1) : reports'[i] = reports[i + 1]
  BY <1>1, HeadTailProperties, LenProperties
<1>3. \A q \in Pid \ {r.pid} : Told(q)' => Told(q)
  <2> SUFFICES ASSUME NEW q \in Pid \ {r.pid}, Told(q)', NEW i \in 1..n
               PROVE  reports[i].pid # q
    BY <1>1 DEF Told
  <2>1. CASE i = 1
    BY <1>1, <2>1
  <2>2. CASE i > 1
    <3>1. i - 1 \in 1..(n - 1) /\ reports'[i - 1] = reports[i]
      BY <1>1, <1>2, <2>2
    <3> QED
      BY <1>2, <3>1 DEF Told
  <2> QED
    BY <1>1, <2>1, <2>2
<1>4. ASSUME Told(r.pid)'
      PROVE  r.foreground <=> app[r.pid] = "foreground"
  <2>1. ASSUME NEW j \in 1..n, reports[j].pid = reports[1].pid
        PROVE  j <= 1
    <3> SUFFICES ASSUME j > 1
                 PROVE  FALSE
      BY <1>1
    <3>1. j - 1 \in 1..(n - 1) /\ reports'[j - 1] = reports[j]
      BY <1>1, <1>2
    <3> QED
      BY <1>1, <1>2, <1>4, <2>1, <3>1 DEF Told
  <2>2. LatestReport(1) /\ 1 \in DOMAIN reports
    BY <1>1, <2>1 DEF LatestReport
  <2> QED
    BY <1>1, <2>2 DEF ReportInv
<1>5. ASSUME NEW i \in DOMAIN reports', LatestReport(i)'
      PROVE  reports'[i].foreground <=> app'[reports'[i].pid] = "foreground"
  <2>1. i + 1 \in 1..n /\ reports'[i] = reports[i + 1] /\ i \in 1..(n - 1)
    BY <1>1, <1>2
  <2>2. ASSUME NEW j \in 1..n, reports[j].pid = reports[i + 1].pid
        PROVE  j <= i + 1
    <3>1. CASE j = 1
      BY <1>1, <2>1, <3>1
    <3>2. CASE j > 1
      <4>1. j - 1 \in 1..(n - 1) /\ reports'[j - 1] = reports[j]
        BY <1>1, <1>2, <3>2
      <4>2. j - 1 <= i
        BY <1>2, <1>5, <2>1, <2>2, <4>1 DEF LatestReport
      <4> QED
        BY <2>1, <4>2
    <3> QED
      BY <1>1, <3>1, <3>2
  <2>3. LatestReport(i + 1) /\ i + 1 \in DOMAIN reports
    BY <1>1, <2>1, <2>2 DEF LatestReport
  <2> QED
    BY <2>1, <2>3 DEF ReportInv
<1>6. stage' = "down" => reports' = <<>>
  BY DEF ReportInv
<1> QED
  BY <1>1, <1>2, <1>3, <1>4, <1>5, <1>6 DEF ReportInv

\* A process that moves: it is in no list for it until its report arrives.
LEMMA MoveKeeps ==
    ASSUME ListInv, ReportInv', NEW p \in Pid, UNCHANGED <<stage, listVars>>,
           \A q \in Pid \ {p} : app'[q] = app[q],
           \A q \in Pid : Told(q)' => Told(q),
           \/ stage = "down" \/ ~Told(p)'
           \/ app[p] # "foreground" /\ app'[p] # "foreground"
    PROVE  ListInv'
<1>1. UNCHANGED <<foregrandProcList, listed, heard, vague, unlisted, stage>>
  BY DEF listVars
<1>2. StageInv'
  BY <1>1 DEF ListInv, StageInv, IsList
<1>3. VagueInv'
  BY <1>1 DEF ListInv, VagueInv, VagueOnly, Once
<1>4. AdmitInv'
  BY <1>1 DEF ListInv, AdmitInv, Has
<1>5. LeaveInv'
  <2>1. heard \subseteq Pid /\ (stage = "down" => heard = {})
    BY DEF ListInv, StageInv
  <2> QED
    BY <1>1, <2>1 DEF ListInv, LeaveInv, Has
<1> QED
  BY <1>2, <1>3, <1>4, <1>5 DEF ListInv

LEMMA ReportKeeps == ListInv /\ HandleReport => ListInv'
<1> SUFFICES ASSUME ListInv, HandleReport
             PROVE  ListInv'
  OBVIOUS
<1>0. PICK r : r = Head(reports)
  OBVIOUS
<1> DEFINE p == r.pid
<1>1. /\ reports # <<>> /\ reports' = Tail(reports)
      /\ UNCHANGED <<app, stage, listed, vague, unlisted>>
      /\ heard' = IF stage = "running" THEN heard \cup {p} ELSE heard
  BY <1>0 DEF HandleReport, recordVars, fileVars
<1>2. /\ ReportInv' /\ r \in ReportOf
      /\ \A q \in Pid \ {p} : Told(q)' => Told(q)
      /\ Told(p)' => (r.foreground <=> app[p] = "foreground")
  BY <1>0, <1>1, TakeReport DEF ListInv
<1>3. /\ p \in Pid /\ p \in Int \ {NoPid} /\ UidOf[p] \in Uid /\ p \in Pid \cup {NoPid}
      /\ Pid \cup {NoPid} \in SUBSET Int
  BY <1>2, PidFacts DEF ReportOf
<1>4. IsList(Pid \cup {NoPid}, Uid) /\ VagueOnly(vague)
  BY DEF ListInv, StageInv, VagueInv
\* What the report does to the list.
<1>5. /\ IsList(Pid \cup {NoPid}, Uid)'
      /\ \A q \in Pid \ {p} : Has(q)' <=> Has(q)
      /\ \A q \in Pid : Once(q) => Once(q)'
      /\ VagueOnly(vague)'
      /\ r.foreground => Has(p)'
      /\ ~r.foreground /\ Once(p) => ~Has(p)'
  <2>1. CASE r.foreground
    <3>1. AddProcessToForegroundSet(p, UidOf[p])
      BY <1>0, <2>1 DEF HandleReport
    <3> HIDE DEF p
    <3>2. /\ IsList(Pid \cup {NoPid}, Uid)' /\ Has(p)'
          /\ \A q \in Int : Has(q) => Has(q)'
          /\ \A q \in Int \ {p} : Has(q)' => Has(q)
          /\ \A q \in Int \ {NoPid} : Once(q) => Once(q)'
          /\ \A V : VagueOnly(V) /\ (p = NoPid => UidOf[p] \in V) => VagueOnly(V)'
      BY <1>3, <1>4, <3>1, AddListed
    <3>3. VagueOnly(vague)'
      BY <1>1, <1>3, <1>4, <3>2 DEF VagueOnly
    <3> QED
      BY <2>1, <3>2, <3>3, PidFacts
  <2>2. CASE ~r.foreground
    <3>1. RemoveProcessFromForegroundSet(p)
      BY <1>0, <2>2 DEF HandleReport
    <3> HIDE DEF p
    <3>2. /\ IsList(Pid \cup {NoPid}, Uid)'
          /\ Once(p) => ~Has(p)'
          /\ \A q \in Int \ {p} : Has(q)' <=> Has(q)
          /\ \A q \in Int : Once(q) => Once(q)'
          /\ \A V : VagueOnly(V) => VagueOnly(V)'
      BY <1>3, <1>4, <3>1, RemoveListed
    <3>3. VagueOnly(vague)'
      BY <1>1, <1>4, <3>2 DEF VagueOnly
    <3> QED
      BY <2>2, <3>2, <3>3, PidFacts
  <2> QED
    BY <2>1, <2>2
<1> HIDE DEF p
<1>6. StageInv'
  BY <1>1, <1>3, <1>5 DEF ListInv, StageInv
<1>7. VagueInv'
  BY <1>1, <1>5 DEF ListInv, VagueInv
<1>8. AdmitInv'
  <2> SUFFICES ASSUME NEW q \in Pid, stage \in {"filling", "running"}, app[q] = "foreground", Told(q)'
               PROVE  Has(q)' \/ (\E e \in listed : e.pid = q) \/ q \in unlisted \ heard'
    BY <1>1 DEF AdmitInv
  <2>1. CASE q = p
    BY <1>2, <1>5, <2>1
  <2>2. CASE q # p
    BY <1>1, <1>2, <1>5, <2>2 DEF ListInv, AdmitInv
  <2> QED
    BY <2>1, <2>2
<1>9. LeaveInv'
  <2>1. heard \subseteq Pid
    BY DEF ListInv, StageInv
  <2> SUFFICES ASSUME NEW q \in heard', Told(q)', UidOf[q] \notin vague, app[q] # "foreground"
               PROVE  ~Has(q)'
    BY <1>1 DEF LeaveInv
  <2>2. CASE q = p
    BY <1>2, <1>3, <1>5, <2>2 DEF ListInv, VagueInv
  <2>3. CASE q # p
    BY <1>1, <1>2, <1>5, <2>1, <2>3 DEF ListInv, LeaveInv
  <2> QED
    BY <2>2, <2>3
<1> QED
  BY <1>2, <1>6, <1>7, <1>8, <1>9 DEF ListInv

LEMMA FillKeeps == ListInv /\ FillList => ListInv'
<1> SUFFICES ASSUME ListInv, FillList
             PROVE  ListInv'
  OBVIOUS
<1>1. /\ stage = "filling" /\ heard = {}
      /\ UNCHANGED <<app, reports, stage, heard, vague, unlisted>>
  BY DEF FillList, ListInv, StageInv, appVars
<1>2. PICK e \in listed : AddProcessToForegroundSet(e.pid, e.uid) /\ listed' = listed \ {e}
  BY DEF FillList
<1> DEFINE p == e.pid
<1>3. /\ p \in Pid \cup {NoPid} /\ e.uid \in Uid /\ p \in Int
      /\ Pid \cup {NoPid} \in SUBSET Int
      /\ p = NoPid => e.uid \in vague
  BY <1>2, PidFacts DEF ListInv, StageInv, VagueInv
<1>4. IsList(Pid \cup {NoPid}, Uid) /\ VagueOnly(vague)
  BY DEF ListInv, StageInv, VagueInv
<1>5. /\ IsList(Pid \cup {NoPid}, Uid)'
      /\ p # NoPid => Has(p)'
      /\ \A q \in Int : Has(q) => Has(q)'
      /\ \A q \in Int \ {NoPid} : Once(q) => Once(q)'
      /\ \A V : VagueOnly(V) /\ (p = NoPid => e.uid \in V) => VagueOnly(V)'
  BY <1>2, <1>3, <1>4, AddListed
<1> HIDE DEF p
<1>6. VagueOnly(vague)'
  BY <1>1, <1>3, <1>4, <1>5 DEF VagueOnly
<1>7. ReportInv'
  BY <1>1 DEF ListInv, ReportInv, LatestReport
<1>8. StageInv'
  BY <1>1, <1>2, <1>5 DEF ListInv, StageInv
<1>9. VagueInv'
  BY <1>1, <1>2, <1>5, <1>6, PidFacts DEF ListInv, VagueInv
<1>10. AdmitInv'
  <2> SUFFICES ASSUME NEW q \in Pid, app[q] = "foreground", Told(q)
               PROVE  Has(q)' \/ (\E f \in listed' : f.pid = q) \/ q \in unlisted \ heard
    BY <1>1 DEF AdmitInv, Told
  <2>1. Has(q) \/ (\E f \in listed : f.pid = q) \/ q \in unlisted \ heard
    BY <1>1 DEF ListInv, AdmitInv
  <2>2. q \in Int \ {NoPid}
    BY PidFacts
  <2> QED
    BY <1>2, <1>5, <2>1, <2>2 DEF p
<1>11. LeaveInv'
  BY <1>1 DEF LeaveInv
<1> QED
  BY <1>7, <1>8, <1>9, <1>10, <1>11 DEF ListInv

LEMMA AnswerKeeps == ListInv /\ GetForegroundApplications => ListInv'
<1> SUFFICES ASSUME ListInv, GetForegroundApplications
             PROVE  ListInv'
  OBVIOUS
<1> DEFINE starting == {p \in Pid : app[p] = "starting"}
           foreground == {p \in Pid : app[p] = "foreground"}
<1>1. /\ stage = "registered" /\ stage' = "filling" /\ heard = {} /\ vague = {} /\ listed = {}
      /\ UNCHANGED <<app, reports, foregrandProcList, heard>>
  BY DEF GetForegroundApplications, ListInv, StageInv, appVars
<1>2. \/ /\ listed' = {Entry(p, UidOf[p]) : p \in foreground} \cup {Entry(NoPid, UidOf[p]) : p \in starting}
         /\ vague' = {UidOf[p] : p \in starting} /\ unlisted' = unlisted
      \/ unlisted' = foreground /\ listed' = listed /\ vague' = vague
  BY DEF GetForegroundApplications
<1>3. /\ \A p \in foreground : \/ p \in unlisted'
                               \/ \E e \in listed' : e.pid = p
      /\ \A e \in listed' : /\ e \in [pid : Pid \cup {NoPid}, uid : Uid]
                            /\ e.pid = NoPid => e.uid \in vague'
  <2>1. CASE unlisted' = foreground /\ listed' = listed
    BY <1>1, <2>1
  <2>2. CASE /\ listed' = {Entry(p, UidOf[p]) : p \in foreground} \cup {Entry(NoPid, UidOf[p]) : p \in starting}
             /\ vague' = {UidOf[p] : p \in starting}
    <3>1. \A p \in foreground : Entry(p, UidOf[p]) \in listed' /\ Entry(p, UidOf[p]).pid = p
      BY <2>2 DEF Entry
    <3>2. ASSUME NEW p \in foreground
          PROVE  LET e == Entry(p, UidOf[p])
                 IN  e \in [pid : Pid \cup {NoPid}, uid : Uid] /\ e.pid # NoPid
      BY PidFacts DEF Entry
    <3>3. ASSUME NEW p \in starting
          PROVE  LET e == Entry(NoPid, UidOf[p])
                 IN  e \in [pid : Pid \cup {NoPid}, uid : Uid] /\ e.uid \in vague'
      BY <2>2, PidFacts DEF Entry
    <3> QED
      BY <2>2, <3>1, <3>2, <3>3
  <2> QED
    BY <1>2, <2>1, <2>2
<1>4. vague' \subseteq Uid /\ unlisted' \subseteq Pid
  BY <1>2, PidFacts DEF ListInv, StageInv
<1>5. ReportInv'
  BY <1>1 DEF ListInv, ReportInv, LatestReport
<1>6. StageInv'
  BY <1>1, <1>3, <1>4 DEF ListInv, StageInv, Stages, IsList
<1>7. VagueInv'
  BY <1>1, <1>3 DEF ListInv, VagueInv, VagueOnly, Once
<1>8. AdmitInv'
  BY <1>1, <1>3 DEF AdmitInv
<1>9. LeaveInv'
  BY <1>1 DEF LeaveInv
<1> QED
  BY <1>5, <1>6, <1>7, <1>8, <1>9 DEF ListInv

LEMMA CallerKeeps == ASSUME ListInv, NEW p \in Pid, GetCallerInfo(p) PROVE ListInv'
<1>1. /\ stage = "running" /\ UNCHANGED <<app, reports, stage, listed, heard, vague, unlisted>>
      /\ AdoptEntry(p, UidOf[p])
  BY DEF GetCallerInfo, appVars
<1>2. /\ p \in (Pid \cup {NoPid}) \ {NoPid} /\ UidOf[p] \in Uid
      /\ Pid \cup {NoPid} \in SUBSET Int
  BY PidFacts
<1>3. IsList(Pid \cup {NoPid}, Uid) /\ VagueOnly(vague)
  BY DEF ListInv, StageInv, VagueInv
<1>4. /\ IsList(Pid \cup {NoPid}, Uid)'
      /\ \A q \in Int \ {NoPid} : Has(q) => Has(q)'
      /\ \A q \in Int \ {p} : Has(q)' => Has(q)
      /\ \A q \in Int \ {NoPid, p} : Once(q) => Once(q)'
      /\ \A V : VagueOnly(V) => VagueOnly(V)'
      /\ \A V : VagueOnly(V) /\ UidOf[p] \notin V => foregrandProcList' = foregrandProcList
  BY <1>1, <1>2, <1>3, AdoptListed
<1>5. VagueOnly(vague)'
  BY <1>1, <1>3, <1>4 DEF VagueOnly
<1>6. UidOf[p] \notin vague => foregrandProcList' = foregrandProcList
  BY <1>3, <1>4
<1>7. ReportInv'
  BY <1>1 DEF ListInv, ReportInv, LatestReport
<1>8. StageInv'
  BY <1>1, <1>4 DEF ListInv, StageInv
<1>9. ASSUME NEW q \in Pid, UidOf[q] \notin vague
      PROVE  (Once(q) => Once(q)') /\ (Has(q)' => Has(q))
  <2>1. CASE q = p
    BY <1>6, <1>9, <2>1 DEF Once, Has
  <2>2. CASE q # p
    BY <1>4, <2>2, PidFacts
  <2> QED
    BY <2>1, <2>2
<1>10. VagueInv'
  BY <1>1, <1>5, <1>9 DEF ListInv, VagueInv
<1>11. AdmitInv'
  <2>1. \A q \in Pid : Has(q) => Has(q)'
    BY <1>4, PidFacts
  <2> QED
    BY <1>1, <2>1 DEF ListInv, AdmitInv, Told
<1>12. LeaveInv'
  <2>1. heard \subseteq Pid
    BY DEF ListInv, StageInv
  <2> QED
    BY <1>1, <1>9, <2>1 DEF ListInv, LeaveInv, Told
<1> QED
  BY <1>7, <1>8, <1>10, <1>11, <1>12 DEF ListInv

LEMMA EndKeeps == ListInv /\ ProcessEnds => ListInv'
<1> SUFFICES ASSUME ListInv, ProcessEnds
             PROVE  ListInv'
  OBVIOUS
<1>1. /\ stage' = "down" /\ reports' = <<>> /\ foregrandProcList' = <<>> /\ listed' = {}
      /\ heard' = {} /\ vague' = {} /\ unlisted' = {} /\ app' = app
  BY DEF ProcessEnds
<1>2. ReportInv'
  BY <1>1 DEF ListInv, ReportInv
<1>3. StageInv'
  BY <1>1 DEF StageInv, Stages, IsList
<1>4. VagueInv'
  BY <1>1 DEF VagueInv, VagueOnly, Once
<1>5. AdmitInv' /\ LeaveInv'
  BY <1>1 DEF AdmitInv, LeaveInv
<1> QED
  BY <1>2, <1>3, <1>4, <1>5 DEF ListInv

LEMMA ListInvHolds == Spec => []ListInv
<1>1. ASSUME Init
      PROVE  ListInv
  <2>1. /\ app = [p \in Pid |-> "none"] /\ reports = <<>> /\ stage = "down"
        /\ foregrandProcList = <<>> /\ listed = {} /\ heard = {} /\ vague = {} /\ unlisted = {}
    BY <1>1 DEF Init, ListInit
  <2>2. ReportInv
    BY <2>1 DEF ReportInv, AppState
  <2>3. StageInv
    BY <2>1 DEF StageInv, Stages, IsList
  <2>4. VagueInv /\ AdmitInv /\ LeaveInv
    BY <2>1 DEF VagueInv, VagueOnly, Once, AdmitInv, LeaveInv
  <2> QED
    BY <2>2, <2>3, <2>4 DEF ListInv
<1>2. ListInv /\ [Next]_vars => ListInv'
  <2> SUFFICES ASSUME ListInv, [Next]_vars
               PROVE  ListInv'
    OBVIOUS
  <2>0. ReportInv
    BY DEF ListInv
  <2>1. ASSUME NEW p \in Pid, Launch(p)
        PROVE  ListInv'
    <3>1. /\ app[p] = "none" /\ app' = [app EXCEPT ![p] = "starting"]
          /\ UNCHANGED <<reports, stage, listVars>>
      BY <2>1 DEF Launch
    <3>2. /\ app' \in [Pid -> AppState] /\ app'[p] = "starting"
          /\ \A q \in Pid \ {p} : app'[q] = app[q]
      BY <2>0, <3>1 DEF ReportInv, AppState
    <3>3. ReportInv'
      <4>1. \A q \in Pid : app'[q] = "foreground" <=> app[q] = "foreground"
        BY <3>1, <3>2
      <4>2. \A i \in DOMAIN reports : reports[i].pid \in Pid
        <5>1. \A i \in DOMAIN reports : reports[i] \in ReportOf
          BY <2>0, LenProperties, ElementOfSeq DEF ReportInv
        <5> QED
          BY <5>1 DEF ReportOf
      <4> QED
        BY <2>0, <3>1, <3>2, <4>1, <4>2 DEF ReportInv, LatestReport
    <3> QED
      BY <3>1, <3>2, <3>3, MoveKeeps DEF Told
  <2>2. ASSUME NEW p \in Pid, NEW s \in AppState, NEW foreground \in BOOLEAN,
               foreground <=> s = "foreground",
               app' = [app EXCEPT ![p] = s], Tell(p, foreground), UNCHANGED <<stage, listVars>>
        PROVE  ListInv'
    BY <2>0, <2>2, TellReports, MoveKeeps
  <2>3. ASSUME NEW p \in Pid, ToForeground(p) \/ ToBackground(p) \/ Dies(p)
        PROVE  ListInv'
    <3>1. CASE ToForeground(p)
      BY <2>2, <3>1 DEF ToForeground, AppState
    <3>2. CASE ToBackground(p)
      BY <2>2, <3>2 DEF ToBackground, AppState
    <3>3. CASE Dies(p)
      BY <2>2, <3>3 DEF Dies, AppState
    <3> QED
      BY <2>3, <3>1, <3>2, <3>3
  <2>4. CASE RegisterObserver
    <3>1. /\ stage = "down" /\ stage' = "registered"
          /\ UNCHANGED <<app, reports, foregrandProcList, listed, heard, vague, unlisted>>
      BY <2>4 DEF RegisterObserver, appVars, listVars
    <3>2. ReportInv'
      BY <3>1 DEF ListInv, ReportInv, LatestReport
    <3>3. StageInv'
      BY <3>1 DEF ListInv, StageInv, Stages, IsList
    <3>4. VagueInv' /\ AdmitInv' /\ LeaveInv'
      <4>1. heard = {}
        BY <3>1 DEF ListInv, StageInv
      <4> QED
        BY <3>1, <4>1 DEF ListInv, VagueInv, VagueOnly, Once, AdmitInv, LeaveInv
    <3> QED
      BY <3>2, <3>3, <3>4 DEF ListInv
  <2>5. CASE InitializeAndPublish
    <3>1. /\ stage = "filling" /\ stage' = "running" /\ listed = {}
          /\ UNCHANGED <<app, reports, foregrandProcList, listed, heard, vague, unlisted>>
      BY <2>5 DEF InitializeAndPublish, appVars, listVars
    <3>2. ReportInv'
      BY <3>1 DEF ListInv, ReportInv, LatestReport
    <3>3. StageInv'
      BY <3>1 DEF ListInv, StageInv, Stages, IsList
    <3>4. VagueInv' /\ AdmitInv' /\ LeaveInv'
      BY <3>1 DEF ListInv, VagueInv, VagueOnly, Once, AdmitInv, LeaveInv, Has, Told
    <3> QED
      BY <3>2, <3>3, <3>4 DEF ListInv
  <2>6. CASE \/ \E t \in Token : ConfirmFirstUse(t) \/ Uninstall(t)
             \/ SaveRecord
             \/ UNCHANGED vars
    <3>1. UNCHANGED <<app, reports, stage, foregrandProcList, listed, heard, vague, unlisted>>
      BY <2>6 DEF ConfirmFirstUse, Uninstall, SaveRecord, vars, appVars, listVars
    <3> QED
      BY <3>1 DEF ListInv, ReportInv, LatestReport, StageInv, IsList, VagueInv, VagueOnly, Once,
                  AdmitInv, LeaveInv, Has, Told
  <2> QED
    BY <2>1, <2>3, <2>4, <2>5, <2>6, ReportKeeps, FillKeeps, AnswerKeeps, CallerKeeps, EndKeeps
    DEF Next, AppStep, OnStart
<1> QED
  BY <1>1, <1>2, PTL DEF Spec

\* For any processes and any order of their moves, of the reports and of the
\* steps of a start: a process in the foreground is let in once its reports
\* have arrived, but where the list could not be had.
THEOREM Admitted == Spec => []ForegroundAdmitted
<1>1. ListInv => ForegroundAdmitted
  <2> SUFFICES ASSUME ListInv, NEW p \in Pid \ (unlisted \ heard),
                      stage = "running", app[p] = "foreground", Told(p)
               PROVE  InForeground(p, UidOf[p])
    BY DEF ForegroundAdmitted
  <2>1. Has(p)
    BY DEF ListInv, StageInv, AdmitInv
  <2> QED
    BY <2>1 DEF Has, InForeground, Vouches
<1> QED
  BY <1>1, ListInvHolds, PTL

\* After its first report to a running service a process has an entry exactly
\* while it is in the foreground, whatever the start put into the list.
THEOREM ListSettles == Spec => []ReportsSettleList
<1>1. ListInv => ReportsSettleList
  <2> SUFFICES ASSUME ListInv, NEW p \in heard,
                      stage = "running", Told(p), UidOf[p] \notin vague
               PROVE  InForeground(p, UidOf[p]) <=> app[p] = "foreground"
    BY DEF ReportsSettleList
  <2>1. InForeground(p, UidOf[p]) <=> Has(p)
    BY DEF ListInv, VagueInv, VagueOnly, InForeground, Vouches, Has
  <2>2. p \in Pid /\ listed = {}
    BY DEF ListInv, StageInv
  <2>3. app[p] = "foreground" => Has(p)
    BY <2>2 DEF ListInv, AdmitInv
  <2>4. app[p] # "foreground" => ~Has(p)
    BY DEF ListInv, LeaveInv
  <2> QED
    BY <2>1, <2>3, <2>4
<1> QED
  BY <1>1, ListInvHolds, PTL

\* The runs of the service keep their types, whatever ends them.
THEOREM Typing == Spec => []TypeOK
<1>1. ListInv /\ RecordInv => TypeOK
  BY DEF ListInv, ReportInv, StageInv, IsList, RecordInv, TypeOK, ListTypeOK, AppState, ReportOf,
         Stages
<1> QED
  BY <1>1, ListInvHolds, RecordInvHolds, PTL
=============================================================================
