----------------------- MODULE SavePermission_proofs -----------------------
(***************************************************************************)
(* Proofs about SavePermission, for every set of tokens and every number   *)
(* of grants.                                                              *)
(***************************************************************************)
EXTENDS SavePermission, SequenceTheorems, TLAPS

\* What is left of a deque after its front is popped.
LEMMA PopFront ==
    ASSUME NEW s \in Seq(Name), s # <<>>
    PROVE  /\ Len(s) \in Nat \ {0}
           /\ Head(s) = s[1]
           /\ s[1] \in Name
           /\ Tail(s) \in Seq(Name)
           /\ Len(Tail(s)) = Len(s) - 1
           /\ \A i \in 1..Len(Tail(s)) : Tail(s)[i] = s[i + 1]
<1>1. Len(s) \in Nat \ {0}
  BY EmptySeq
<1>2. Head(s) = s[1]
  BY DEF Head
<1>3. s[1] \in Name
  BY <1>1, ElementOfSeq
<1> QED
  BY <1>1, <1>2, <1>3, HeadTailProperties

\* The positions of a deque.
LEMMA Positions ==
    ASSUME NEW s \in Seq(Name)
    PROVE  DOMAIN s = 1..Len(s) /\ Len(s) \in Nat /\ \A i \in 1..Len(s) : s[i] \in Name
BY LenProperties, ElementOfSeq

\* The variables of the grant of a save permission always have their types:
\* no count drops below zero, although three functions lower it.
LEMMA InitTyped == SaveInit => SaveTypeOK
BY SaveAssumption DEF SaveInit, SaveTypeOK, Name

LEMMA NextTyped == SaveTypeOK /\ [Next]_saveVars => SaveTypeOK'
<1> SUFFICES ASSUME SaveTypeOK, [Next]_saveVars PROVE SaveTypeOK'
  OBVIOUS
<1> USE SaveAssumption
<1>1. ASSUME NEW p \in Path, NEW t \in Token, DelaySaveRevokePermission(p, t)
      PROVE  SaveTypeOK'
  <2>1. [token |-> t, id |-> issued + 1] \in Name /\ issued' \in 0..MaxSaveGrants
    BY <1>1 DEF DelaySaveRevokePermission, SaveTypeOK, Name
  <2> QED
    BY <1>1, <2>1 DEF DelaySaveRevokePermission, SaveTypeOK
<1>2. ASSUME NEW p \in Path, PushSaveTask(p)
      PROVE  SaveTypeOK'
  <2> DEFINE n == grantingSave[p]
  <2>1. n \in Name /\ n.token \in Token
    BY <1>2 DEF PushSaveTask, SaveTypeOK, Name
  <2>2. saveTaskDeque' \in [Token -> Seq(Name)]
    BY <1>2, <2>1 DEF PushSaveTask, SaveTypeOK
  <2> QED
    BY <1>2, <2>1, <2>2 DEF PushSaveTask, SaveTypeOK
<1>3. CASE FireSaveTask
  BY <1>3 DEF FireSaveTask, SaveTypeOK
<1>4. CASE RevokeTempSavePermissionCount
  <2> DEFINE t == firedSave.token
  <2>1. t \in Token
    BY <1>4 DEF RevokeTempSavePermissionCount, SaveTypeOK, Name
  <2>2. CASE applySaveCount[t] = 0 \/ saveTaskDeque[t] = <<>>
    BY <1>4, <2>2 DEF RevokeTempSavePermissionCount, SaveTypeOK
  <2>3. CASE ~(applySaveCount[t] = 0 \/ saveTaskDeque[t] = <<>>)
    <3>1. saveTaskDeque[t] \in Seq(Name) /\ Tail(saveTaskDeque[t]) \in Seq(Name)
      BY <2>1, <2>3, PopFront DEF SaveTypeOK
    <3>2. saveTaskDeque' = [saveTaskDeque EXCEPT ![t] = Tail(@)]
      BY <1>4, <2>3 DEF RevokeTempSavePermissionCount
    <3>3. saveTaskDeque' \in [Token -> Seq(Name)]
      BY <3>1, <3>2 DEF SaveTypeOK
    <3>4. applySaveCount' \in [Token -> Nat]
      BY <1>4, <2>1, <2>3 DEF RevokeTempSavePermissionCount, SaveTypeOK
    <3> QED
      BY <1>4, <2>3, <3>3, <3>4 DEF RevokeTempSavePermissionCount, SaveTypeOK
  <2> QED
    BY <2>2, <2>3
<1>5. ASSUME NEW T \in SUBSET Token, ProcessesDie(T)
      PROVE  SaveTypeOK'
  <2>1. saveTaskDeque' \in [Token -> Seq(Name)]
    BY <1>5 DEF ProcessesDie, RevokeTempSavePermission, SaveTypeOK
  <2> QED
    BY <1>5, <2>1 DEF ProcessesDie, RevokeTempSavePermission, SaveTypeOK
<1>6. CASE UNCHANGED saveVars
  BY <1>6 DEF saveVars, SaveTypeOK
<1> QED
  BY <1>1, <1>2, <1>3, <1>4, <1>5, <1>6 DEF Next

THEOREM Typing == SafeSpec => []SaveTypeOK
BY InitTyped, NextTyped, PTL DEF SafeSpec
-----------------------------------------------------------------------------
(* The count and the deque.                                                *)

LEMMA CountStep ==
    SaveTypeOK /\ CountMatchesDeque /\ [Next]_saveVars => CountMatchesDeque'
<1> SUFFICES ASSUME SaveTypeOK, CountMatchesDeque, [Next]_saveVars,
                    NEW u \in Token
             PROVE  (applySaveCount[u] = Len(saveTaskDeque[u]))'
  BY DEF CountMatchesDeque
<1>0. /\ applySaveCount[u] = Len(saveTaskDeque[u])
      /\ saveTaskDeque[u] \in Seq(Name)
      /\ saveTaskDeque \in [Token -> Seq(Name)]
      /\ applySaveCount \in [Token -> Nat]
  BY DEF CountMatchesDeque, SaveTypeOK
<1>1. ASSUME NEW p \in Path, NEW t \in Token, DelaySaveRevokePermission(p, t)
      PROVE  (applySaveCount[u] = Len(saveTaskDeque[u]))'
  BY <1>0, <1>1 DEF DelaySaveRevokePermission
<1>2. ASSUME NEW p \in Path, PushSaveTask(p)
      PROVE  (applySaveCount[u] = Len(saveTaskDeque[u]))'
  <2> DEFINE n == grantingSave[p]
  <2>1. n \in Name /\ n.token \in Token
    BY <1>2 DEF PushSaveTask, SaveTypeOK, Name
  <2>2. /\ saveTaskDeque' = [saveTaskDeque EXCEPT ![n.token] = Append(@, n)]
        /\ applySaveCount' = [applySaveCount EXCEPT ![n.token] = @ + 1]
    BY <1>2 DEF PushSaveTask
  <2>3. Len(Append(saveTaskDeque[u], n)) = Len(saveTaskDeque[u]) + 1
    BY <1>0, <2>1, AppendProperties
  <2> QED
    BY <1>0, <2>1, <2>2, <2>3
<1>3. CASE FireSaveTask
  BY <1>0, <1>3 DEF FireSaveTask
<1>4. CASE RevokeTempSavePermissionCount
  <2> DEFINE t == firedSave.token
  <2>1. t \in Token
    BY <1>4 DEF RevokeTempSavePermissionCount, SaveTypeOK, Name
  <2>2. CASE applySaveCount[t] = 0 \/ saveTaskDeque[t] = <<>>
    BY <1>0, <1>4, <2>2 DEF RevokeTempSavePermissionCount
  <2>3. CASE ~(applySaveCount[t] = 0 \/ saveTaskDeque[t] = <<>>)
    <3>1. /\ saveTaskDeque' = [saveTaskDeque EXCEPT ![t] = Tail(@)]
          /\ applySaveCount' = [applySaveCount EXCEPT ![t] = @ - 1]
      BY <1>4, <2>3 DEF RevokeTempSavePermissionCount
    <3>2. Len(Tail(saveTaskDeque[t])) = Len(saveTaskDeque[t]) - 1
      BY <1>0, <2>1, <2>3, PopFront
    <3> QED
      BY <1>0, <2>1, <3>1, <3>2
  <2> QED
    BY <2>2, <2>3
<1>5. ASSUME NEW T \in SUBSET Token, ProcessesDie(T)
      PROVE  (applySaveCount[u] = Len(saveTaskDeque[u]))'
  <2>1. Len(<<>>) = 0
    BY EmptySeq
  <2> QED
    BY <1>0, <1>5, <2>1 DEF ProcessesDie, RevokeTempSavePermission
<1>6. CASE UNCHANGED saveVars
  BY <1>0, <1>6 DEF saveVars
<1> QED
  BY <1>1, <1>2, <1>3, <1>4, <1>5, <1>6 DEF Next

\* The count of live grants and the deque of their tasks always agree, also
\* with grants of both paths, task runs and deaths interleaved.
THEOREM CountAgrees == SafeSpec => []CountMatchesDeque
<1>1. SaveInit => CountMatchesDeque
  BY EmptySeq DEF SaveInit, CountMatchesDeque
<1> QED
  BY <1>1, InitTyped, NextTyped, CountStep, PTL DEF SafeSpec
-----------------------------------------------------------------------------
(* The count implements SaveLease.                                         *)

LEMMA LeaseStep == SaveTypeOK /\ [Next]_saveVars => [Lease!Next]_applySaveCount
<1> SUFFICES ASSUME SaveTypeOK, [Next]_saveVars
             PROVE  [Lease!Next]_applySaveCount
  OBVIOUS
<1> USE DEF Lease!Next, Lease!Grant, Lease!Expire, Lease!RevokeAll
<1>1. ASSUME NEW p \in Path, NEW t \in Token, DelaySaveRevokePermission(p, t)
      PROVE  UNCHANGED applySaveCount
  BY <1>1 DEF DelaySaveRevokePermission
<1>2. ASSUME NEW p \in Path, PushSaveTask(p)
      PROVE  \E t \in Token : Lease!Grant(t)
  <2>1. grantingSave[p].token \in Token
    BY <1>2 DEF PushSaveTask, SaveTypeOK, Name
  <2> QED
    BY <1>2, <2>1 DEF PushSaveTask
<1>3. CASE FireSaveTask
  BY <1>3 DEF FireSaveTask
<1>4. CASE RevokeTempSavePermissionCount
  <2>1. firedSave.token \in Token
    BY <1>4 DEF RevokeTempSavePermissionCount, SaveTypeOK, Name
  <2>2. UNCHANGED applySaveCount \/ Lease!Expire(firedSave.token)
    BY <1>4, <2>1 DEF RevokeTempSavePermissionCount, SaveTypeOK
  <2> QED
    BY <2>1, <2>2
<1>5. ASSUME NEW T \in SUBSET Token, ProcessesDie(T)
      PROVE  Lease!RevokeAll(T)
  BY <1>5 DEF ProcessesDie, RevokeTempSavePermission
<1>6. CASE UNCHANGED saveVars
  BY <1>6 DEF saveVars
<1> QED
  BY <1>1, <1>2, <1>3, <1>4, <1>5, <1>6 DEF Next

\* Whatever the interleaving, the media library sees leases: each grant adds
\* one, one at a time ends, and a death ends all of its token.
THEOREM ImplementsLease == SafeSpec => LeaseSafety
<1>1. SaveInit => Lease!Init
  BY DEF SaveInit, Lease!Init
<1> QED
  BY <1>1, InitTyped, NextTyped, LeaseStep, PTL DEF SafeSpec, LeaseSafety, Lease!Safety
-----------------------------------------------------------------------------
(* One grant path: grants of a token never overlap.  Task names are then   *)
(* pushed in the order of their ids, which is the order they are due in,   *)
(* so that a task finds its own name at the front.                         *)

\* The path in use is the only one.
OnePath == \A p, q \in Path : p = q

\* Ids are handed out in order; two waiting tasks never share one.
IdsOrdered ==
    /\ \A n \in saveTasks : n.id <= issued
    /\ \A m, n \in saveTasks : m.id = n.id => m = n

\* The grant under way has the last id, and its task waits.
GrantIsLast ==
    \A p \in Path : grantingSave[p] # NoName =>
        grantingSave[p] \in saveTasks /\ grantingSave[p].id = issued

\* A deque holds names of its token in growing order, all older than the
\* grant under way.
DequeOrdered ==
    \A t \in Token :
        /\ \A i \in 1..Len(saveTaskDeque[t]) :
              /\ saveTaskDeque[t][i].token = t
              /\ saveTaskDeque[t][i].id <= issued
              /\ \A p \in Path : grantingSave[p] # NoName =>
                    saveTaskDeque[t][i].id < grantingSave[p].id
        /\ \A i, j \in 1..Len(saveTaskDeque[t]) :
              i < j => saveTaskDeque[t][i].id < saveTaskDeque[t][j].id

\* The task that has fired was due before all that wait.
FiredIsOldest ==
    firedSave # NoName =>
        firedSave.id <= issued /\ \A n \in saveTasks : firedSave.id < n.id

SerialInv ==
    /\ SaveTypeOK
    /\ CountMatchesDeque
    /\ IdsOrdered
    /\ GrantIsLast
    /\ DequeOrdered
    /\ FiredIsOldest
    /\ OwnTaskPending

\* OwnTaskPending with the positions of a deque written as an interval.
LEMMA PendingAt ==
    ASSUME SaveTypeOK
    PROVE  OwnTaskPending <=>
             \A t \in Token : \A i \in 1..Len(saveTaskDeque[t]) :
                 \/ saveTaskDeque[t][i] \in saveTasks
                 \/ i = 1 /\ firedSave = saveTaskDeque[t][1]
<1>1. \A t \in Token : DOMAIN saveTaskDeque[t] = 1..Len(saveTaskDeque[t])
  BY Positions DEF SaveTypeOK
<1> QED
  BY <1>1 DEF OwnTaskPending

LEMMA SerialInit == SaveInit => SerialInv
<1> SUFFICES ASSUME SaveInit PROVE SerialInv
  OBVIOUS
<1>1. \A t \in Token : saveTaskDeque[t] = <<>>
  BY DEF SaveInit
<1>2. SaveTypeOK
  BY InitTyped
<1>3. Len(<<>>) = 0
  BY EmptySeq
<1>4. DequeOrdered /\ CountMatchesDeque
  BY <1>1, <1>3 DEF SaveInit, DequeOrdered, CountMatchesDeque
<1>5. OwnTaskPending
  BY <1>1, <1>2, <1>3, PendingAt
<1> QED
  BY <1>2, <1>4, <1>5 DEF SaveInit, SerialInv, IdsOrdered, GrantIsLast, FiredIsOldest

LEMMA SerialStep == OnePath /\ SerialInv /\ [Next]_saveVars => SerialInv'
<1> SUFFICES ASSUME OnePath, SerialInv, [Next]_saveVars
             PROVE  SerialInv'
  OBVIOUS
<1>0. SaveTypeOK /\ SaveTypeOK' /\ CountMatchesDeque /\ CountMatchesDeque'
  BY NextTyped, CountStep DEF SerialInv
<1>a. /\ saveTaskDeque \in [Token -> Seq(Name)]
      /\ saveTasks \in SUBSET Name
      /\ firedSave \in Name \cup {NoName}
      /\ grantingSave \in [Path -> Name \cup {NoName}]
      /\ issued \in Nat
  BY <1>0, SaveAssumption DEF SaveTypeOK
<1>b. \A n \in Name : n.token \in Token /\ n.id \in Nat /\ n # NoName
  BY SaveAssumption DEF Name
<1>c. \A t \in Token : /\ Len(saveTaskDeque[t]) \in Nat
                        /\ \A i \in 1..Len(saveTaskDeque[t]) : saveTaskDeque[t][i] \in Name
  BY <1>a, Positions
<1>d. \A t \in Token : \A i \in 1..Len(saveTaskDeque[t]) :
          \/ saveTaskDeque[t][i] \in saveTasks
          \/ i = 1 /\ firedSave = saveTaskDeque[t][1]
  BY <1>0, PendingAt DEF SerialInv
<1>e. IdsOrdered /\ GrantIsLast /\ DequeOrdered /\ FiredIsOldest
  BY DEF SerialInv
<1> DEFINE Pending == \A t \in Token : \A i \in 1..Len(saveTaskDeque[t]) :
                        \/ saveTaskDeque[t][i] \in saveTasks
                        \/ i = 1 /\ firedSave = saveTaskDeque[t][1]
<1> SUFFICES IdsOrdered' /\ GrantIsLast' /\ DequeOrdered' /\ FiredIsOldest' /\ Pending'
  <2>1. SaveTypeOK' => (OwnTaskPending' <=> Pending')
    BY PendingAt, PTL
  <2> QED
    BY <1>0, <2>1 DEF SerialInv
<1> HIDE DEF Pending
<1>1. ASSUME NEW p \in Path, NEW t \in Token, DelaySaveRevokePermission(p, t)
      PROVE  IdsOrdered' /\ GrantIsLast' /\ DequeOrdered' /\ FiredIsOldest' /\ Pending'
  <2> DEFINE n == [token |-> t, id |-> issued + 1]
  <2>1. /\ issued' = issued + 1
        /\ saveTasks' = saveTasks \cup {n}
        /\ grantingSave' = [grantingSave EXCEPT ![p] = n]
        /\ UNCHANGED <<saveTaskDeque, firedSave>>
    BY <1>1 DEF DelaySaveRevokePermission
  <2>2. n.id = issued + 1 /\ n \in Name
    BY <1>0, <1>a, <1>1 DEF DelaySaveRevokePermission, SaveTypeOK, Name
  <2>3. \A q \in Path : grantingSave'[q] = n
    BY <1>a, <2>1 DEF OnePath
  <2> HIDE DEF n
  <2>4. IdsOrdered'
    BY <1>a, <1>b, <1>e, <2>1, <2>2 DEF IdsOrdered
  <2>5. GrantIsLast'
    BY <1>a, <2>1, <2>2, <2>3 DEF GrantIsLast
  <2>6. DequeOrdered'
    BY <1>a, <1>b, <1>c, <1>e, <2>1, <2>2, <2>3 DEF DequeOrdered
  <2>7. FiredIsOldest'
    BY <1>a, <1>b, <1>e, <2>1, <2>2 DEF FiredIsOldest
  <2>8. Pending'
    BY <1>d, <2>1 DEF Pending
  <2> QED
    BY <2>4, <2>5, <2>6, <2>7, <2>8
<1>2. ASSUME NEW p \in Path, PushSaveTask(p)
      PROVE  IdsOrdered' /\ GrantIsLast' /\ DequeOrdered' /\ FiredIsOldest' /\ Pending'
  <2> DEFINE n == grantingSave[p]
             u == n.token
  <2>1. /\ n # NoName
        /\ saveTaskDeque' = [saveTaskDeque EXCEPT ![u] = Append(@, n)]
        /\ grantingSave' = [grantingSave EXCEPT ![p] = NoName]
        /\ UNCHANGED <<saveTasks, firedSave, issued>>
    BY <1>2 DEF PushSaveTask
  <2>2. n \in Name /\ u \in Token /\ n \in saveTasks /\ n.id = issued
    BY <1>a, <1>b, <1>e, <2>1 DEF GrantIsLast
  <2>3. \A q \in Path : grantingSave'[q] = NoName
    BY <1>a, <2>1 DEF OnePath
  <2>4. /\ Len(Append(saveTaskDeque[u], n)) = Len(saveTaskDeque[u]) + 1
        /\ \A i \in 1..Len(saveTaskDeque[u]) :
              Append(saveTaskDeque[u], n)[i] = saveTaskDeque[u][i]
        /\ Append(saveTaskDeque[u], n)[Len(saveTaskDeque[u]) + 1] = n
    BY <1>a, <2>2, AppendProperties
  <2>5. \A i \in 1..Len(saveTaskDeque[u]) : saveTaskDeque[u][i].id < n.id
    BY <1>e, <2>1, <2>2 DEF DequeOrdered
  <2> HIDE DEF n
  <2>6. IdsOrdered'
    BY <1>e, <2>1 DEF IdsOrdered
  <2>7. GrantIsLast'
    BY <2>3 DEF GrantIsLast
  <2>8. DequeOrdered'
    <3>1. ASSUME NEW t \in Token, t # u
          PROVE  saveTaskDeque'[t] = saveTaskDeque[t]
      BY <1>a, <2>1, <3>1
    <3>2. saveTaskDeque'[u] = Append(saveTaskDeque[u], n)
      BY <1>a, <2>1, <2>2
    <3>3. \A i \in 1..Len(saveTaskDeque'[u]) :
             i \in 1..Len(saveTaskDeque[u]) \/ i = Len(saveTaskDeque[u]) + 1
      BY <1>c, <2>2, <2>4, <3>2
    <3>4. \A i \in 1..Len(saveTaskDeque'[u]) :
             saveTaskDeque'[u][i].token = u /\ saveTaskDeque'[u][i].id <= issued
      BY <1>a, <1>c, <1>e, <2>2, <2>4, <3>2, <3>3 DEF DequeOrdered
    <3>5. \A i, j \in 1..Len(saveTaskDeque'[u]) :
             i < j => saveTaskDeque'[u][i].id < saveTaskDeque'[u][j].id
      BY <1>c, <1>e, <2>2, <2>4, <2>5, <3>2, <3>3 DEF DequeOrdered
    <3> QED
      BY <1>e, <2>1, <2>3, <3>1, <3>4, <3>5 DEF DequeOrdered
  <2>9. FiredIsOldest'
    BY <1>e, <2>1 DEF FiredIsOldest
  <2>10. Pending'
    BY <1>a, <1>c, <1>d, <2>1, <2>2, <2>4 DEF Pending
  <2> QED
    BY <2>6, <2>7, <2>8, <2>9, <2>10
<1>3. CASE FireSaveTask
  <2>1. PICK n \in saveTasks :
          /\ \A m \in saveTasks : n.id <= m.id
          /\ PushBeatsTimeout(n)
          /\ saveTasks' = saveTasks \ {n}
          /\ firedSave' = n
    BY <1>3 DEF FireSaveTask
  <2>2. UNCHANGED <<saveTaskDeque, grantingSave, issued>> /\ firedSave = NoName
    BY <1>3 DEF FireSaveTask
  <2>3. \A p \in Path : grantingSave[p] # n
    BY <2>1 DEF PushBeatsTimeout
  <2>4. IdsOrdered'
    BY <1>e, <2>1, <2>2 DEF IdsOrdered
  <2>5. GrantIsLast'
    BY <1>e, <2>1, <2>2, <2>3 DEF GrantIsLast
  <2>6. DequeOrdered'
    BY <1>e, <2>2 DEF DequeOrdered
  <2>7. FiredIsOldest'
    BY <1>a, <1>b, <1>e, <2>1, <2>2 DEF FiredIsOldest, IdsOrdered
  <2>8. ASSUME NEW t \in Token, NEW i \in 1..Len(saveTaskDeque[t]), saveTaskDeque[t][i] = n
        PROVE  i = 1
    <3>1. SUFFICES ASSUME i # 1 PROVE FALSE
      OBVIOUS
    <3>2. 1 \in 1..Len(saveTaskDeque[t]) /\ 1 < i
      BY <1>c, <3>1
    <3>3. saveTaskDeque[t][1].id < n.id
      BY <1>e, <2>8, <3>2 DEF DequeOrdered
    <3>4. saveTaskDeque[t][1] \in Name /\ saveTaskDeque[t][1] \in saveTasks
      BY <1>b, <1>c, <1>d, <2>2, <3>2
    <3> QED
      BY <1>a, <1>b, <2>1, <3>3, <3>4
  <2>9. Pending'
    BY <1>b, <1>c, <1>d, <2>1, <2>2, <2>8 DEF Pending
  <2> QED
    BY <2>4, <2>5, <2>6, <2>7, <2>9
<1>4. CASE RevokeTempSavePermissionCount
  <2> DEFINE u == firedSave.token
             d == saveTaskDeque[u]
  <2>1. firedSave \in Name /\ u \in Token
    BY <1>a, <1>b, <1>4 DEF RevokeTempSavePermissionCount
  <2>2. firedSave' = NoName /\ UNCHANGED <<grantingSave, issued>>
    BY <1>4 DEF RevokeTempSavePermissionCount
  <2>3. FiredIsOldest'
    BY <2>2 DEF FiredIsOldest
  <2>4. CASE applySaveCount[u] = 0 \/ d = <<>>
    <3>1. UNCHANGED <<saveTaskDeque, saveTasks>>
      BY <1>4, <2>4 DEF RevokeTempSavePermissionCount
    <3>2. Len(d) = 0
      BY <1>0, <2>1, <2>4, EmptySeq DEF CountMatchesDeque
    <3>3. ASSUME NEW t \in Token, NEW i \in 1..Len(saveTaskDeque[t])
          PROVE  saveTaskDeque[t][i] # firedSave
      BY <1>e, <2>1, <3>2, <3>3 DEF DequeOrdered
    <3>4. Pending'
      BY <1>c, <1>d, <3>1, <3>3 DEF Pending
    <3> QED
      BY <1>e, <2>2, <2>3, <3>1, <3>4 DEF IdsOrdered, GrantIsLast, DequeOrdered
  <2>5. CASE ~(applySaveCount[u] = 0 \/ d = <<>>)
    <3> DEFINE h == d[1]
    <3>1. /\ d \in Seq(Name)
          /\ Len(d) \in Nat \ {0}
          /\ Head(d) = h
          /\ h \in Name
          /\ Len(Tail(d)) = Len(d) - 1
          /\ \A i \in 1..Len(Tail(d)) : Tail(d)[i] = d[i + 1]
      BY <1>a, <2>1, <2>5, PopFront
    <3>2. /\ saveTasks' = saveTasks \ {h}
          /\ saveTaskDeque' = [saveTaskDeque EXCEPT ![u] = Tail(@)]
      BY <1>4, <2>5, <3>1 DEF RevokeTempSavePermissionCount
    <3>3. saveTaskDeque'[u] = Tail(d) /\ \A t \in Token \ {u} : saveTaskDeque'[t] = saveTaskDeque[t]
      BY <1>a, <2>1, <3>2
    <3>4. /\ 1 \in 1..Len(d)
          /\ \A i \in 1..Len(Tail(d)) : i + 1 \in 1..Len(d) /\ i + 1 # 1 /\ 1 < i + 1
      BY <3>1
    <3>5. h.token = u /\ \A p \in Path : grantingSave[p] # NoName => h.id < grantingSave[p].id
      BY <1>e, <2>1, <3>4 DEF DequeOrdered
    <3> HIDE DEF h, d, u
    <3>6. IdsOrdered'
      BY <1>e, <2>2, <3>2 DEF IdsOrdered
    <3>7. GrantIsLast'
      BY <1>a, <1>b, <1>e, <2>2, <3>1, <3>2, <3>5 DEF GrantIsLast
    <3>8. DequeOrdered'
      <4>1. ASSUME NEW i \in 1..Len(Tail(d))
            PROVE  /\ Tail(d)[i].token = u
                   /\ Tail(d)[i].id <= issued
                   /\ \A p \in Path : grantingSave[p] # NoName => Tail(d)[i].id < grantingSave[p].id
        BY <1>e, <2>1, <3>1, <3>4 DEF DequeOrdered, d
      <4>2. ASSUME NEW i \in 1..Len(Tail(d)), NEW j \in 1..Len(Tail(d)), i < j
            PROVE  Tail(d)[i].id < Tail(d)[j].id
        <5>1. i + 1 < j + 1 /\ i + 1 \in 1..Len(d) /\ j + 1 \in 1..Len(d)
          BY <3>4, <4>2
        <5> QED
          BY <1>e, <2>1, <3>1, <5>1 DEF DequeOrdered, d
      <4>3. ASSUME NEW t \in Token, t # u
            PROVE  saveTaskDeque'[t] = saveTaskDeque[t]
        BY <3>3, <4>3
      <4>4. saveTaskDeque'[u] = Tail(d)
        BY <3>3
      <4> HIDE DEF d
      <4> QED
        BY <1>e, <2>2, <4>1, <4>2, <4>3, <4>4 DEF DequeOrdered
    <3>9. Pending'
      <4>1. ASSUME NEW i \in 1..Len(Tail(d))
            PROVE  Tail(d)[i] \in saveTasks'
        <5>1. d[i + 1] \in saveTasks
          BY <1>d, <2>1, <3>4 DEF d
        <5>2. d[1].id < d[i + 1].id /\ d[i + 1] \in Name
          BY <1>c, <1>e, <2>1, <3>4 DEF DequeOrdered, d
        <5>3. d[i + 1] # h
          BY <1>b, <3>1, <5>2 DEF h
        <5> QED
          BY <1>b, <3>1, <3>2, <5>1, <5>2, <5>3
      <4>2. ASSUME NEW t \in Token \ {u}, NEW i \in 1..Len(saveTaskDeque[t])
            PROVE  saveTaskDeque[t][i] \in saveTasks'
        <5>1. saveTaskDeque[t][i].token = t
          BY <1>e DEF DequeOrdered
        <5>2. saveTaskDeque[t][i] # h
          BY <3>5, <5>1
        <5>3. saveTaskDeque[t][i] \in saveTasks
          BY <1>d, <5>1 DEF u
        <5> QED
          BY <3>2, <5>2, <5>3
      <4> QED
        BY <3>3, <4>1, <4>2 DEF Pending
    <3> QED
      BY <2>3, <3>6, <3>7, <3>8, <3>9
  <2> QED
    BY <2>4, <2>5
<1>5. ASSUME NEW T \in SUBSET Token, ProcessesDie(T)
      PROVE  IdsOrdered' /\ GrantIsLast' /\ DequeOrdered' /\ FiredIsOldest' /\ Pending'
  <2>1. /\ saveTasks' = {n \in saveTasks : n.token \in T => ~InDeque(n)}
        /\ saveTaskDeque' = [t \in Token |-> IF t \in T THEN <<>> ELSE saveTaskDeque[t]]
        /\ UNCHANGED <<firedSave, grantingSave, issued>>
    BY <1>5 DEF ProcessesDie, RevokeTempSavePermission
  <2>2. \A t \in T : saveTaskDeque'[t] = <<>> /\ Len(<<>>) = 0
    BY <2>1, EmptySeq
  <2>3. \A t \in Token \ T : saveTaskDeque'[t] = saveTaskDeque[t]
    BY <2>1
  <2>4. saveTasks' \subseteq saveTasks
    BY <2>1
  <2>5. IdsOrdered'
    BY <1>e, <2>1, <2>4 DEF IdsOrdered
  <2>6. GrantIsLast'
    <3>1. ASSUME NEW p \in Path, grantingSave[p] # NoName
          PROVE  grantingSave[p] \in saveTasks'
      <4> DEFINE n == grantingSave[p]
      <4>1. n \in Name /\ n \in saveTasks /\ n.token \in Token
        BY <1>a, <1>b, <1>e, <3>1 DEF GrantIsLast
      <4>2. \A i \in 1..Len(saveTaskDeque[n.token]) : saveTaskDeque[n.token][i].id < n.id
        BY <1>e, <3>1, <4>1 DEF DequeOrdered
      <4>3. DOMAIN saveTaskDeque[n.token] = 1..Len(saveTaskDeque[n.token])
        BY <1>a, <4>1, Positions
      <4>4. ~InDeque(n)
        BY <1>b, <4>1, <4>2, <4>3 DEF InDeque
      <4> QED
        BY <2>1, <4>1, <4>4
    <3> QED
      BY <1>e, <2>1, <3>1 DEF GrantIsLast
  <2>7. DequeOrdered'
    BY <1>e, <2>1, <2>2, <2>3 DEF DequeOrdered
  <2>8. FiredIsOldest'
    BY <1>e, <2>1, <2>4 DEF FiredIsOldest
  <2>9. ASSUME NEW t \in Token \ T, NEW i \in 1..Len(saveTaskDeque[t]),
               saveTaskDeque[t][i] \in saveTasks
        PROVE  saveTaskDeque[t][i] \in saveTasks'
    BY <1>e, <2>1, <2>9 DEF DequeOrdered
  <2>10. Pending'
    BY <1>d, <2>1, <2>2, <2>3, <2>9 DEF Pending
  <2> QED
    BY <2>5, <2>6, <2>7, <2>8, <2>10
<1>6. CASE UNCHANGED saveVars
  BY <1>d, <1>e, <1>6
     DEF saveVars, IdsOrdered, GrantIsLast, DequeOrdered, FiredIsOldest, Pending
<1> QED
  BY <1>1, <1>2, <1>3, <1>4, <1>5, <1>6 DEF Next

\* In SerialInv a task that has fired for a live grant is that of the front.
LEMMA FiredFront == SerialInv => FiredIsFront
<1> SUFFICES ASSUME SerialInv, firedSave # NoName, InDeque(firedSave)
             PROVE  Head(saveTaskDeque[firedSave.token]) = firedSave
  BY DEF FiredIsFront
<1> DEFINE d == saveTaskDeque[firedSave.token]
<1>1. SaveTypeOK /\ firedSave \in Name /\ firedSave.token \in Token
  BY DEF SerialInv, SaveTypeOK, Name
<1>2. d \in Seq(Name)
  BY <1>1 DEF SaveTypeOK
<1>3. PICK i \in 1..Len(d) : d[i] = firedSave
  BY <1>2, Positions DEF InDeque
<1>4. firedSave \notin saveTasks
  BY <1>1, SaveAssumption DEF SerialInv, FiredIsOldest, Name
<1>5. i = 1
  BY <1>1, <1>3, <1>4, PendingAt DEF SerialInv
<1>6. d # <<>>
  BY <1>3, EmptySeq
<1> QED
  BY <1>2, <1>3, <1>5, <1>6, PopFront

\* While grants do not overlap every live grant keeps the task that will end
\* it, however posts, pushes, runs and deaths interleave.
THEOREM OwnTask == ASSUME OnePath PROVE SafeSpec => []OwnTaskPending
<1>1. SerialInv => OwnTaskPending
  BY DEF SerialInv
<1>2. SerialInv /\ [Next]_saveVars => SerialInv'
  BY SerialStep
<1> QED
  BY <1>1, <1>2, SerialInit, PTL DEF SafeSpec

\* While grants do not overlap a task never ends a grant other than its own
\* as long as that one lives.
THEOREM FiredFindsFront == ASSUME OnePath PROVE SafeSpec => []FiredIsFront
<1>1. SerialInv /\ [Next]_saveVars => SerialInv'
  BY SerialStep
<1> QED
  BY <1>1, FiredFront, SerialInit, PTL DEF SafeSpec
=============================================================================
