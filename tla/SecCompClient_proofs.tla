------------------------ MODULE SecCompClient_proofs ------------------------
(***************************************************************************)
(* Proofs about SecCompClient, for all threads and all bounds on services  *)
(* and loads.                                                              *)
(***************************************************************************)
EXTENDS SecCompClient, TLAPS

Stage == {"getProxy", "install", "load", "wait", "take", "send", "reply", "waitDeath"}
Locked == {"install", "load", "wait", "take"}

\* The types of the variables the proxy and the requests depend on.
Typed ==
    /\ alive \in Object
    /\ started \in 0..MaxService
    /\ proxy \in Object
    /\ loadedRemoteObject \in Object
    /\ watchers \in Nat
    /\ notices \in Nat
    /\ thread \in [Thread -> Run \cup {Idle}]
    /\ made \in [Thread -> Nat]

\* Services are numbered in the order of their starts.
Ordered == alive <= started /\ proxy <= started

\* The proxy to the running service has a recipient there, a proxy to a
\* service that died has a notice on its way.
Watched ==
    /\ proxy # None /\ proxy = alive => watchers > 0
    /\ ProxyWatched

WatchInv == Typed /\ Ordered /\ Watched

LEMMA Numbers ==
    /\ MaxService \in Nat
    /\ Service = 1..MaxService
    /\ Object = 0..MaxService
    /\ None = 0
BY ClientAssumption DEF Service, Object, None

LEMMA RunFields ==
    ASSUME NEW r \in Run
    PROVE  /\ r # Idle
           /\ r.obj \in Object
           /\ r.kind \in Kind
           /\ r.attempt \in 1..2
           /\ r.stage \in Stage
           /\ \A s \in Stage, o \in Object : [r EXCEPT !.stage = s, !.obj = o] \in Run
           /\ [stage |-> "getProxy", kind |-> r.kind, attempt |-> 2, obj |-> None] \in Run
<1>1. /\ r.obj \in Object
      /\ r.kind \in Kind
      /\ r.attempt \in 1..2
      /\ r.stage \in Stage
  BY DEF Run, Stage
<1>2. r # Idle
  <2>1. Idle.stage = "idle"
    BY DEF Idle
  <2> QED
    BY <1>1, <2>1 DEF Stage
<1>3. ASSUME NEW s \in Stage, NEW o \in Object
      PROVE  [r EXCEPT !.stage = s, !.obj = o] \in Run
  BY DEF Run, Stage
<1>4. [stage |-> "getProxy", kind |-> r.kind, attempt |-> 2, obj |-> None] \in Run
  BY <1>1 DEF Run, Object
<1> QED
  BY <1>1, <1>2, <1>3, <1>4

\* A thread that moves on keeps its type, and moves alone.
LEMMA MoveTyped ==
    ASSUME Typed, NEW h \in Thread, thread[h] # Idle,
           NEW s \in Stage, NEW o \in Object, Goto(h, s, o)
    PROVE  /\ thread' \in [Thread -> Run \cup {Idle}]
           /\ thread'[h] # Idle
           /\ thread'[h].stage = s
           /\ thread'[h].obj = o
           /\ \A g \in Thread : g # h => thread'[g] = thread[g]
<1>1. thread \in [Thread -> Run \cup {Idle}] /\ thread[h] \in Run
  BY DEF Typed
<1>2. thread' = [thread EXCEPT ![h] = [thread[h] EXCEPT !.stage = s, !.obj = o]]
  BY <1>1 DEF Goto
<1>3. [thread[h] EXCEPT !.stage = s, !.obj = o] \in Run
  BY <1>1, RunFields
<1>4. [thread[h] EXCEPT !.stage = s, !.obj = o] # Idle
  BY <1>3, RunFields
<1>5. /\ [thread[h] EXCEPT !.stage = s, !.obj = o].stage = s
      /\ [thread[h] EXCEPT !.stage = s, !.obj = o].obj = o
  BY <1>1 DEF Run
<1> QED
  BY <1>1, <1>2, <1>3, <1>4, <1>5

LEMMA ReturnTyped ==
    ASSUME Typed, NEW h \in Thread, Return(h)
    PROVE  /\ thread' \in [Thread -> Run \cup {Idle}]
           /\ thread'[h] = Idle
           /\ \A g \in Thread : g # h => thread'[g] = thread[g]
BY DEF Typed, Return
LEMMA AgainTyped ==
    ASSUME Typed, NEW h \in Thread, thread[h] # Idle, WaitForDeath(h),
           serviceAbilityNeedLoadFlag
    PROVE  /\ thread' \in [Thread -> Run \cup {Idle}]
           /\ thread'[h] # Idle
           /\ thread'[h].stage = "getProxy"
           /\ \A g \in Thread : g # h => thread'[g] = thread[g]
<1> DEFINE q == [stage |-> "getProxy", kind |-> thread[h].kind, attempt |-> 2, obj |-> None]
<1>1. thread \in [Thread -> Run \cup {Idle}] /\ thread[h] \in Run
  BY DEF Typed
<1>2. q \in Run
  BY <1>1, RunFields
<1>3. q # Idle
  BY <1>2, RunFields
<1>4. thread' = [thread EXCEPT ![h] = q]
  BY DEF WaitForDeath
<1>5. q.stage = "getProxy"
  OBVIOUS
<1> HIDE DEF q
<1> QED
  BY <1>1, <1>2, <1>3, <1>4, <1>5

LEMMA ThreadTyped ==
    ASSUME Typed, NEW h \in Thread,
           \/ \E k \in Kind : BeginCall(h, k)
           \/ GetProxy(h)
           \/ SendRequest(h)
           \/ Proceed(h)
    PROVE  thread' \in [Thread -> Run \cup {Idle}]
<1>0. /\ thread \in [Thread -> Run \cup {Idle}]
      /\ alive \in Object /\ proxy \in Object /\ loadedRemoteObject \in Object
      /\ None \in Object
      /\ thread[h] # Idle => thread[h].obj \in Object
  BY RunFields DEF Typed, Object
<1>1. ASSUME NEW k \in Kind, BeginCall(h, k)
      PROVE  thread' \in [Thread -> Run \cup {Idle}]
  <2> DEFINE q == [stage |-> "getProxy", kind |-> k, attempt |-> 1, obj |-> None]
  <2>1. q \in Run
    BY <1>0 DEF Run
  <2>2. thread' = [thread EXCEPT ![h] = q]
    BY <1>1 DEF BeginCall
  <2> HIDE DEF q
  <2> QED
    BY <1>0, <2>1, <2>2
<1>2. CASE Return(h)
  BY <1>2, ReturnTyped
<1>3. CASE thread[h] # Idle /\ \E s \in Stage, o \in Object : Goto(h, s, o)
  BY <1>3, MoveTyped
<1>4. CASE GetProxy(h)
  <2>1. \/ Return(h)
        \/ thread[h] # Idle /\ \E s \in Stage, o \in Object : Goto(h, s, o)
    BY <1>0, <1>4 DEF GetProxy, Proceeds, At, Stage
  <2> QED
    BY <1>2, <1>3, <2>1
<1>5. CASE SendRequest(h)
  <2>1. \/ Return(h)
        \/ thread[h] # Idle /\ \E s \in Stage, o \in Object : Goto(h, s, o)
    BY <1>0, <1>5 DEF SendRequest, RetryOrReturn, Proceeds, At, Stage
  <2> QED
    BY <1>2, <1>3, <2>1
<1>6. CASE InstallProxyLocked(h)
  <2>1. \/ Return(h)
        \/ thread[h] # Idle /\ \E s \in Stage, o \in Object : Goto(h, s, o)
    BY <1>0, <1>6 DEF InstallProxyLocked, Proceeds, At, Stage
  <2> QED
    BY <1>2, <1>3, <2>1
<1>7. CASE StartLoadSecCompSa(h)
  <2>1. thread[h] # Idle /\ \E s \in Stage, o \in Object : Goto(h, s, o)
    BY <1>0, <1>7 DEF StartLoadSecCompSa, Proceeds, At, Stage
  <2> QED
    BY <1>3, <2>1
<1>8. CASE WaitForSecCompSa(h)
  <2>1. thread[h] # Idle /\ \E s \in Stage, o \in Object : Goto(h, s, o)
    BY <1>0, <1>8 DEF WaitForSecCompSa, Proceeds, At, Stage
  <2> QED
    BY <1>3, <2>1
<1>9. CASE TakeLoadedObject(h)
  <2>1. thread[h] # Idle /\ \E s \in Stage, o \in Object : Goto(h, s, o)
    BY <1>0, <1>9 DEF TakeLoadedObject, Proceeds, At, Stage
  <2> QED
    BY <1>3, <2>1
<1>10. CASE ReceiveReply(h)
  <2>1. \/ Return(h)
        \/ thread[h] # Idle /\ \E s \in Stage, o \in Object : Goto(h, s, o)
    BY <1>0, <1>10 DEF ReceiveReply, RetryOrReturn, Proceeds, At, Stage
  <2> QED
    BY <1>2, <1>3, <2>1
<1>11. CASE WaitForDeath(h)
  <2>1. thread[h] # Idle /\ (serviceAbilityNeedLoadFlag \/ Return(h))
    BY <1>11 DEF WaitForDeath, At
  <2> QED
    BY <1>2, <1>11, <2>1, AgainTyped
<1> QED
  BY <1>1, <1>4, <1>5, <1>6, <1>7, <1>8, <1>9, <1>10, <1>11 DEF Proceed
-----------------------------------------------------------------------------
(* A dead proxy is about to be dropped.                                    *)

LEMMA WatchInit == Init => WatchInv
BY Numbers DEF Init, WatchInv, Typed, Ordered, Watched, ProxyWatched

LEMMA WatchStep == WatchInv /\ [Next]_vars => WatchInv'
<1> SUFFICES ASSUME WatchInv, [Next]_vars
             PROVE  WatchInv'
  OBVIOUS
<1> USE Numbers DEF WatchInv, Typed, Ordered, Watched, ProxyWatched
<1>1. CASE ServiceStarts
  BY <1>1 DEF ServiceStarts, deathVars, cvVars, madeVars
<1>2. CASE ServiceDecidesToExit
  BY <1>2 DEF ServiceDecidesToExit, deathVars, cvVars, madeVars
<1>3. CASE ServiceDies
  BY <1>3 DEF ServiceDies, cvVars
<1>4. CASE AnswerLoad
  BY <1>4 DEF AnswerLoad, serviceVars, deathVars, cvVars, madeVars
<1>5. ASSUME NEW o \in Service, FinishStartSASuccess(o)
      PROVE  WatchInv'
  BY <1>5 DEF FinishStartSASuccess, serviceVars, deathVars, madeVars
<1>6. CASE FinishStartSASuccessEnd \/ FinishStartSAFail
  BY <1>6 DEF FinishStartSASuccessEnd, FinishStartSAFail, serviceVars, deathVars, cvVars, madeVars
<1>7. CASE OnRemoteDiedHandle
  BY <1>7 DEF OnRemoteDiedHandle, serviceVars, madeVars
<1>8. ASSUME NEW h \in Thread, NEW k \in Kind, BeginCall(h, k)
      PROVE  WatchInv'
  <2>1. thread' \in [Thread -> Run \cup {Idle}]
    BY <1>8, ThreadTyped
  <2> QED
    BY <1>8, <2>1 DEF BeginCall, serviceVars, deathVars, cvVars, madeVars
<1>9. ASSUME NEW h \in Thread, GetProxy(h) \/ SendRequest(h)
      PROVE  WatchInv'
  <2>1. thread' \in [Thread -> Run \cup {Idle}]
    BY <1>9, ThreadTyped
  <2>2. made' \in [Thread -> Nat]
    BY <1>9 DEF GetProxy, SendRequest, RetryOrReturn, Proceeds, Return, madeVars
  <2> QED
    BY <1>9, <2>1, <2>2 DEF GetProxy, SendRequest, serviceVars, deathVars, cvVars
<1>10. ASSUME NEW h \in Thread, Proceed(h)
       PROVE  WatchInv'
  <2>1. thread' \in [Thread -> Run \cup {Idle}]
    BY <1>10, ThreadTyped
  <2>0. made' \in [Thread -> Nat]
    BY <1>10 DEF Proceed, InstallProxyLocked, StartLoadSecCompSa, WaitForSecCompSa,
                 TakeLoadedObject, ReceiveReply, WaitForDeath, RetryOrReturn, Proceeds, Return,
                 madeVars
  <2>2. CASE InstallProxyLocked(h)
    <3>1. thread[h].obj \in Object
      BY <2>2, RunFields DEF InstallProxyLocked, At
    <3> QED
      BY <2>0, <2>1, <2>2, <3>1 DEF InstallProxyLocked, serviceVars, cvVars
  <2>3. CASE ~InstallProxyLocked(h)
    BY <1>10, <2>0, <2>1, <2>3 DEF Proceed, StartLoadSecCompSa, WaitForSecCompSa, TakeLoadedObject,
                             ReceiveReply, WaitForDeath, serviceVars, deathVars, cvVars
  <2> QED
    BY <2>2, <2>3
<1>11. CASE UNCHANGED vars
  BY <1>11 DEF vars, serviceVars, deathVars, cvVars, madeVars
<1> QED
  BY <1>1, <1>2, <1>3, <1>4, <1>5, <1>6, <1>7, <1>8, <1>9, <1>10, <1>11
     DEF Next, Environment, Callback

\* A proxy whose service died, at whatever point of GetProxy, is dropped by
\* the notice of OnRemoteDiedHandle; iface_cast may fail or not.
THEOREM DeadProxyWatched == SafeSpec => []ProxyWatched
<1>1. WatchInv => ProxyWatched
  BY DEF WatchInv, Watched
<1> QED
  BY <1>1, WatchInit, WatchStep, PTL DEF SafeSpec
-----------------------------------------------------------------------------
(* A live proxy is kept.  GetProxy works under proxyMutex_ and only while  *)
(* there is no proxy, so one recipient, and at most one notice, belong to  *)
(* each proxy.                                                             *)

Holds(h) == \E s \in Locked : At(h, s)

MutexInv ==
    /\ \A h \in Thread : Holds(h) => proxy = None
    /\ \A g, h \in Thread : Holds(g) /\ Holds(h) => g = h

OneRecipient ==
    /\ watchers = IF proxy # None /\ proxy = alive THEN 1 ELSE 0
    /\ notices = IF proxy \notin {None, alive} THEN 1 ELSE 0

KeepInv == WatchInv /\ MutexInv /\ OneRecipient

LEMMA FreeNotHeld == ProxyMutexFree <=> \A h \in Thread : ~Holds(h)
BY DEF ProxyMutexFree, Holds, Locked

LEMMA HoldsThread ==
    ASSUME NEW h \in Thread, thread'[h] = thread[h]
    PROVE  Holds(h)' <=> Holds(h)
BY DEF Holds, At, Locked

LEMMA KeepInit == Init => KeepInv
<1> SUFFICES ASSUME Init PROVE KeepInv
  OBVIOUS
<1>1. \A h \in Thread : ~Holds(h)
  BY DEF Init, Holds, At
<1> QED
  BY <1>1, WatchInit, Numbers DEF Init, KeepInv, MutexInv, OneRecipient

\* What the steps of a thread do to the lock and the proxy.
LEMMA LockStep ==
    ASSUME KeepInv, NEW h \in Thread,
           \/ \E k \in Kind : BeginCall(h, k)
           \/ GetProxy(h)
           \/ SendRequest(h)
           \/ Proceed(h)
    PROVE  MutexInv'
<1>0. Typed /\ \A g \in Thread : Holds(g) => proxy = None
  BY DEF KeepInv, WatchInv, MutexInv
<1>1. \A g \in Thread : g # h => thread'[g] = thread[g]
  BY <1>0 DEF Typed, BeginCall, GetProxy, SendRequest, Proceed, InstallProxyLocked,
              StartLoadSecCompSa, WaitForSecCompSa, TakeLoadedObject, ReceiveReply,
              WaitForDeath, RetryOrReturn, Proceeds, Goto, Return
<1>2. \A g \in Thread : g # h => (Holds(g)' <=> Holds(g))
  BY <1>1, HoldsThread
<1>3. ASSUME ~Holds(h)', UNCHANGED proxy \/ Holds(h)
      PROVE  MutexInv'
  BY <1>0, <1>2, <1>3 DEF KeepInv, MutexInv
<1>4. ASSUME Holds(h), UNCHANGED proxy
      PROVE  MutexInv'
  BY <1>0, <1>2, <1>4 DEF KeepInv, MutexInv
<1>5. ASSUME ProxyMutexFree, proxy' = None
      PROVE  MutexInv'
  BY <1>2, <1>5, FreeNotHeld DEF MutexInv
<1>6. ASSUME Return(h)
      PROVE  ~Holds(h)'
  BY <1>0, <1>6, ReturnTyped DEF Holds, At
<1>7. ASSUME thread[h] # Idle, NEW s \in {"send", "reply", "waitDeath"}, NEW o \in Object,
             Goto(h, s, o)
      PROVE  ~Holds(h)'
  <2>1. thread'[h].stage = s
    BY <1>0, <1>7, MoveTyped DEF Stage
  <2> QED
    BY <2>1 DEF Holds, At, Locked
<1>8. /\ alive \in Object /\ proxy \in Object /\ None \in Object
      /\ thread[h] # Idle => thread[h].obj \in Object
  BY <1>0, RunFields DEF Typed, Object
<1>9. CASE \E k \in Kind : BeginCall(h, k)
  <2>1. PICK k \in Kind : BeginCall(h, k)
    BY <1>9
  <2>2. thread'[h].stage = "getProxy"
    BY <1>0, <2>1 DEF BeginCall, Typed
  <2>3. ~Holds(h)'
    BY <2>2 DEF Holds, At, Locked
  <2> QED
    BY <1>3, <2>1, <2>3 DEF BeginCall
<1>10. CASE GetProxy(h)
  <2>1. CASE proxy # None
    BY <1>3, <1>7, <1>8, <1>10, <2>1 DEF GetProxy, Proceeds, At
  <2>2. CASE proxy = None
    BY <1>5, <1>10, <2>2 DEF GetProxy
  <2> QED
    BY <2>1, <2>2
<1>11. CASE SendRequest(h)
  <2>1. ~Holds(h)'
    BY <1>6, <1>7, <1>8, <1>11 DEF SendRequest, RetryOrReturn, Proceeds, At
  <2> QED
    BY <1>3, <1>11, <2>1 DEF SendRequest
<1>12. CASE InstallProxyLocked(h)
  <2>1. Holds(h)
    BY <1>12 DEF InstallProxyLocked, Holds, Locked
  <2>2. ~Holds(h)'
    BY <1>6, <1>7, <1>8, <1>12 DEF InstallProxyLocked, Proceeds, At
  <2> QED
    BY <1>3, <2>1, <2>2
<1>13. CASE StartLoadSecCompSa(h) \/ WaitForSecCompSa(h) \/ TakeLoadedObject(h)
  <2>1. Holds(h) /\ UNCHANGED proxy
    BY <1>13 DEF StartLoadSecCompSa, WaitForSecCompSa, TakeLoadedObject, Holds, Locked
  <2> QED
    BY <1>4, <2>1
<1>14. CASE ReceiveReply(h)
  <2>1. ~Holds(h)'
    BY <1>6, <1>7, <1>8, <1>14 DEF ReceiveReply, RetryOrReturn, Proceeds, At
  <2> QED
    BY <1>3, <1>14, <2>1 DEF ReceiveReply
<1>15. CASE WaitForDeath(h)
  <2>1. CASE Return(h)
    BY <1>3, <1>6, <1>15, <2>1 DEF WaitForDeath
  <2>2. CASE serviceAbilityNeedLoadFlag
    <3>1. thread'[h].stage = "getProxy"
      BY <1>0, <1>15, <2>2, AgainTyped DEF WaitForDeath, At
    <3>2. ~Holds(h)'
      BY <3>1 DEF Holds, At, Locked
    <3> QED
      BY <1>3, <1>15, <3>2 DEF WaitForDeath
  <2> QED
    BY <1>15, <2>1, <2>2 DEF WaitForDeath
<1> QED
  BY <1>9, <1>10, <1>11, <1>12, <1>13, <1>14, <1>15 DEF Proceed

LEMMA KeepStep == ~CastMayFail /\ KeepInv /\ [Next]_vars => KeepInv'
<1> SUFFICES ASSUME ~CastMayFail, KeepInv, [Next]_vars
             PROVE  KeepInv'
  OBVIOUS
<1>0. WatchInv'
  BY WatchStep DEF KeepInv
<1>1. ASSUME UNCHANGED <<thread, proxy>> PROVE MutexInv'
  BY <1>1 DEF KeepInv, MutexInv, Holds, At
<1> USE Numbers DEF WatchInv, Typed, Ordered
<1>2. CASE Environment
  <2>1. OneRecipient'
    BY <1>2 DEF KeepInv, OneRecipient, Environment, ServiceStarts, ServiceDecidesToExit,
                ServiceDies, AnswerLoad, serviceVars, deathVars
  <2>2. UNCHANGED <<thread, proxy>>
    BY <1>2 DEF Environment, ServiceStarts, ServiceDecidesToExit, ServiceDies, AnswerLoad
  <2> QED
    BY <1>0, <1>1, <2>1, <2>2 DEF KeepInv
<1>3. CASE OnRemoteDiedHandle
  <2>1. OneRecipient'
    BY <1>3 DEF KeepInv, OneRecipient, OnRemoteDiedHandle, serviceVars
  <2>2. \A h \in Thread : ~Holds(h)'
    BY <1>3, FreeNotHeld, HoldsThread DEF OnRemoteDiedHandle
  <2> QED
    BY <1>0, <2>1, <2>2 DEF KeepInv, MutexInv
<1>4. CASE Callback /\ ~OnRemoteDiedHandle
  <2>1. UNCHANGED <<thread, proxy, alive, watchers, notices>>
    BY <1>4 DEF Callback, FinishStartSASuccess, FinishStartSASuccessEnd, FinishStartSAFail,
                serviceVars, deathVars
  <2>2. OneRecipient'
    BY <2>1 DEF KeepInv, OneRecipient
  <2> QED
    BY <1>0, <1>1, <2>1, <2>2 DEF KeepInv
<1>5. ASSUME NEW h \in Thread,
             \/ \E k \in Kind : BeginCall(h, k)
             \/ GetProxy(h)
             \/ SendRequest(h)
             \/ Proceed(h)
      PROVE  KeepInv'
  <2>1. MutexInv'
    BY <1>5, LockStep
  <2>2. CASE InstallProxyLocked(h)
    <3>1. proxy = None
      BY <2>2 DEF KeepInv, MutexInv, Holds, Locked, InstallProxyLocked
    <3>2. thread[h].obj \in Object
      BY <2>2, RunFields DEF KeepInv, InstallProxyLocked, At
    <3>3. OneRecipient'
      BY <2>2, <3>1, <3>2 DEF KeepInv, OneRecipient, InstallProxyLocked, serviceVars
    <3> QED
      BY <1>0, <2>1, <3>3 DEF KeepInv
  <2>3. CASE ~InstallProxyLocked(h)
    <3>1. UNCHANGED <<proxy, alive, watchers, notices>>
      BY <1>5, <2>3 DEF BeginCall, GetProxy, SendRequest, Proceed, StartLoadSecCompSa,
                        WaitForSecCompSa, TakeLoadedObject, ReceiveReply, WaitForDeath,
                        serviceVars, deathVars
    <3>2. OneRecipient'
      BY <3>1 DEF KeepInv, OneRecipient
    <3> QED
      BY <1>0, <2>1, <3>2 DEF KeepInv
  <2> QED
    BY <2>2, <2>3
<1>6. CASE UNCHANGED vars
  <2>1. UNCHANGED <<thread, proxy, alive, watchers, notices>>
    BY <1>6 DEF vars, serviceVars, deathVars
  <2>2. OneRecipient'
    BY <2>1 DEF KeepInv, OneRecipient
  <2> QED
    BY <1>0, <1>1, <2>1, <2>2 DEF KeepInv
<1> QED
  BY <1>2, <1>3, <1>4, <1>5, <1>6 DEF Next

LEMMA KeepProxy ==
    KeepInv /\ [Next]_vars => [proxy # None /\ proxy' # proxy => proxy # alive]_vars
<1> SUFFICES ASSUME KeepInv, Next, proxy # None, proxy' # proxy
             PROVE  proxy # alive
  OBVIOUS
<1>1. CASE OnRemoteDiedHandle
  BY <1>1, Numbers DEF KeepInv, OneRecipient, OnRemoteDiedHandle
<1>2. ASSUME NEW h \in Thread, InstallProxyLocked(h)
      PROVE  FALSE
  BY <1>2 DEF KeepInv, MutexInv, Holds, Locked, InstallProxyLocked
<1> QED
  BY <1>1, <1>2 DEF Next, Environment, ServiceStarts, ServiceDecidesToExit, ServiceDies,
     AnswerLoad, Callback, FinishStartSASuccess, FinishStartSASuccessEnd, FinishStartSAFail,
     BeginCall, GetProxy, SendRequest, Proceed, StartLoadSecCompSa, WaitForSecCompSa,
     TakeLoadedObject, ReceiveReply, WaitForDeath

\* OnRemoteDiedHandle drops proxy_ without asking whose death it was told;
\* all the same it never drops the proxy of a service that runs, as long as
\* iface_cast does not fail in InstallProxyLocked.
THEOREM LiveKept == ASSUME ~CastMayFail PROVE SafeSpec => LiveProxyKept
<1>1. KeepInv /\ [Next]_vars => KeepInv'
  BY KeepStep
<1> QED
  BY <1>1, KeepInit, KeepProxy, PTL DEF SafeSpec, LiveProxyKept
-----------------------------------------------------------------------------
(* A call makes a second component only when serviceAbilityNeedLoadFlag_   *)
(* was left set: while the service that made the first one lives, the      *)
(* proxy to it stays, and no notice sets the flag.                         *)

Delivered == {"reply", "waitDeath"}

MadeOK(h) ==
    /\ At(h, "send") \/ At(h, "reply") =>
          thread[h].obj # None /\ thread[h].obj <= started /\ (thread[h].obj = alive => proxy = alive)
    /\ made[h] # 0 =>
          /\ thread[h] # Idle
          /\ proxy = alive /\ alive # None
          /\ thread[h].attempt = 2 \/ thread[h].stage \in Delivered
    /\ made[h] # 0 /\ ~stale[h] =>
          /\ made[h] = 1
          /\ thread[h].stage \in Delivered
          /\ thread[h].attempt = 2 => thread[h].stage = "reply"
          /\ thread[h].attempt = 1 => ~serviceAbilityNeedLoadFlag

MadeInv == KeepInv /\ DOMAIN stale = Thread /\ \A h \in Thread : MadeOK(h)

LEMMA MadeInit == Init => MadeInv
BY KeepInit DEF Init, MadeInv, MadeOK, At

\* A thread that stands still, while at most a proxy to the running service comes.
LEMMA MadeStays ==
    ASSUME NEW g \in Thread, MadeOK(g), UNCHANGED <<alive, started>>, proxy' \in {proxy, alive},
           made[g] # 0 /\ serviceAbilityNeedLoadFlag' => serviceAbilityNeedLoadFlag,
           thread'[g] = thread[g], made'[g] = made[g], stale'[g] = stale[g]
    PROVE  MadeOK(g)'
BY DEF MadeOK, At

\* Thread h moves on without a request, and what it made stays the same.
LEMMA MadeMoves ==
    ASSUME Typed, NEW h \in Thread, MadeOK(h), thread[h] # Idle,
           thread[h].stage \notin {"send", "reply", "waitDeath"},
           NEW s \in Stage \ Delivered, NEW o \in Object, Proceeds(h, s, o),
           s = "send" => o # None /\ o <= started /\ (o = alive => proxy' = alive),
           UNCHANGED <<alive, started, serviceAbilityNeedLoadFlag>>, proxy' \in {proxy, alive}
    PROVE  MadeOK(h)'
<1>1. /\ thread'[h] # Idle
      /\ thread'[h].stage = s
      /\ thread'[h].obj = o
  BY MoveTyped DEF Proceeds
<1>2. thread'[h].attempt = thread[h].attempt
  <2>1. thread[h] \in Run
    BY DEF Typed
  <2> QED
    BY <2>1 DEF Proceeds, Goto, Typed, Run
<1>3. made'[h] = made[h] /\ stale'[h] = stale[h]
  BY DEF Proceeds, madeVars
<1> QED
  BY <1>1, <1>2, <1>3 DEF MadeOK, At, Delivered

LEMMA MadeReturns ==
    ASSUME Typed, DOMAIN stale = Thread, NEW h \in Thread, Return(h)
    PROVE  MadeOK(h)'
<1>1. thread'[h] = Idle /\ made'[h] = 0
  BY DEF Typed, Return
<1> QED
  BY <1>1 DEF MadeOK, At

LEMMA MadeStep == ~CastMayFail /\ MadeInv /\ [Next]_vars => MadeInv'
<1> SUFFICES ASSUME ~CastMayFail, MadeInv, [Next]_vars
             PROVE  MadeInv'
  OBVIOUS
<1>0. /\ KeepInv' /\ Typed /\ Ordered /\ OneRecipient /\ MutexInv
      /\ DOMAIN stale = Thread /\ \A h \in Thread : MadeOK(h)
  BY KeepStep DEF MadeInv, KeepInv, WatchInv
<1>1. ASSUME UNCHANGED <<thread, made, stale, alive, started, proxy>>,
             serviceAbilityNeedLoadFlag' => serviceAbilityNeedLoadFlag
      PROVE  MadeInv'
  BY <1>0, <1>1, MadeStays DEF MadeInv
<1>2. CASE ServiceStarts
  <2>1. /\ UNCHANGED <<thread, made, stale, proxy>> /\ alive = None
        /\ alive' = started + 1 /\ started' = started + 1
    BY <1>2 DEF ServiceStarts, madeVars
  <2>2. ASSUME NEW h \in Thread PROVE MadeOK(h)'
    <3>1. MadeOK(h) /\ made[h] = 0 /\ started \in Nat
      BY <1>0, <2>1, Numbers DEF MadeOK, Typed
    <3>2. thread[h] # Idle => thread[h].obj \in Nat
      <4>1. ASSUME thread[h] # Idle PROVE thread[h].obj \in Object
        BY <1>0, <4>1, RunFields DEF Typed
      <4> QED
        BY <4>1, Numbers
    <3> QED
      BY <2>1, <3>1, <3>2 DEF MadeOK, At
  <2> QED
    BY <1>0, <2>1, <2>2 DEF MadeInv
<1>3. CASE ServiceDies
  <2>1. /\ UNCHANGED <<thread, proxy, started>> /\ alive' = None
        /\ made' = [h \in Thread |-> 0] /\ stale' = [h \in Thread |-> FALSE]
    BY <1>3 DEF ServiceDies
  <2>2. \A h \in Thread : MadeOK(h)'
    BY <1>0, <2>1 DEF MadeOK, At
  <2> QED
    BY <1>0, <2>1, <2>2 DEF MadeInv
<1>4. CASE ServiceDecidesToExit \/ AnswerLoad \/ (Callback /\ ~OnRemoteDiedHandle)
  <2>1. UNCHANGED <<thread, made, stale, alive, started, proxy>>
    BY <1>4 DEF ServiceDecidesToExit, AnswerLoad, Callback, FinishStartSASuccess,
                FinishStartSASuccessEnd, FinishStartSAFail, serviceVars, madeVars
  <2>2. serviceAbilityNeedLoadFlag' => serviceAbilityNeedLoadFlag
    BY <1>4, Zenon DEF ServiceDecidesToExit, AnswerLoad, Callback, FinishStartSASuccess,
                       FinishStartSASuccessEnd, FinishStartSAFail
  <2> QED
    BY <1>1, <2>1, <2>2
<1>5. CASE OnRemoteDiedHandle
  <2>1. UNCHANGED <<thread, made, stale, alive, started>> /\ notices > 0 /\ proxy' = None
    BY <1>5 DEF OnRemoteDiedHandle, serviceVars, madeVars
  <2>2. proxy # alive /\ proxy # None
    BY <1>0, <2>1 DEF OneRecipient
  <2>3. ASSUME NEW h \in Thread PROVE MadeOK(h)'
    <3>1. MadeOK(h) /\ made[h] = 0
      BY <1>0, <2>2 DEF MadeOK
    <3> QED
      BY <2>1, <2>2, <3>1 DEF MadeOK, At
  <2> QED
    BY <1>0, <2>1, <2>3 DEF MadeInv
<1>6. ASSUME NEW h \in Thread, NEW k \in Kind, BeginCall(h, k)
      PROVE  MadeInv'
  <2>1. /\ thread[h] = Idle
        /\ thread'[h].stage = "getProxy"
        /\ \A g \in Thread \ {h} : thread'[g] = thread[g]
        /\ UNCHANGED <<made, stale, alive, started, proxy>>
    BY <1>0, <1>6 DEF BeginCall, Typed, serviceVars, madeVars
  <2>2. made'[h] = 0
    BY <1>0, <2>1 DEF MadeOK
  <2>3. MadeOK(h)'
    BY <2>1, <2>2 DEF MadeOK, At
  <2>4. serviceAbilityNeedLoadFlag' = serviceAbilityNeedLoadFlag
    BY <1>6, Zenon DEF BeginCall
  <2> QED
    BY <1>0, <2>1, <2>3, <2>4, MadeStays DEF MadeInv
<1>7. ASSUME NEW h \in Thread, GetProxy(h) \/ SendRequest(h) \/ Proceed(h)
      PROVE  MadeInv'
  <2>1. /\ thread[h] # Idle
        /\ UNCHANGED <<alive, started>>
        /\ \A g \in Thread \ {h} : thread'[g] = thread[g] /\ made'[g] = made[g] /\ stale'[g] = stale[g]
    <3>1. thread[h] # Idle /\ UNCHANGED <<alive, started>>
      BY <1>7 DEF GetProxy, SendRequest, Proceed, InstallProxyLocked, StartLoadSecCompSa,
                  WaitForSecCompSa, TakeLoadedObject, ReceiveReply, WaitForDeath, At, serviceVars
    <3>2. \A g \in Thread \ {h} : thread'[g] = thread[g]
      BY <1>0, <1>7 DEF Typed, GetProxy, SendRequest, Proceed, InstallProxyLocked,
                      StartLoadSecCompSa, WaitForSecCompSa, TakeLoadedObject, ReceiveReply,
                      WaitForDeath, RetryOrReturn, Proceeds, Goto, Return
    <3>3. \A g \in Thread \ {h} : made'[g] = made[g] /\ stale'[g] = stale[g]
      BY <1>0, <1>7 DEF Typed, GetProxy, SendRequest, Proceed, InstallProxyLocked,
                      StartLoadSecCompSa, WaitForSecCompSa, TakeLoadedObject, ReceiveReply,
                      WaitForDeath, RetryOrReturn, Proceeds, Return, madeVars
    <3> QED
      BY <3>1, <3>2, <3>3
  <2>2. /\ alive \in Object /\ proxy \in Object /\ loadedRemoteObject \in Object
        /\ None \in Object /\ thread[h].obj \in Object
        /\ thread[h] \in Run /\ MadeOK(h)
    BY <1>0, <2>1, RunFields DEF Typed, Object
  <2>3. proxy' \in {proxy, alive}
    BY <1>7 DEF GetProxy, SendRequest, Proceed, InstallProxyLocked, StartLoadSecCompSa,
                WaitForSecCompSa, TakeLoadedObject, ReceiveReply, WaitForDeath
  <2>4. serviceAbilityNeedLoadFlag' = serviceAbilityNeedLoadFlag
    BY <1>7, Zenon DEF GetProxy, SendRequest, Proceed, InstallProxyLocked, StartLoadSecCompSa,
                       WaitForSecCompSa, TakeLoadedObject, ReceiveReply, WaitForDeath
  <2>5. ASSUME MadeOK(h)' PROVE MadeInv'
    <3>1. \A g \in Thread \ {h} : MadeOK(g)'
      BY <1>0, <2>1, <2>3, <2>4, MadeStays
    <3>2. (DOMAIN stale = Thread)'
      BY <1>0, <1>7 DEF GetProxy, SendRequest, Proceed, InstallProxyLocked, StartLoadSecCompSa,
                WaitForSecCompSa, TakeLoadedObject, ReceiveReply, WaitForDeath, RetryOrReturn,
                Proceeds, Return, madeVars
    <3> QED
      BY <1>0, <2>5, <3>1, <3>2 DEF MadeInv
  <2>6. CASE Return(h)
    BY <1>0, <2>5, <2>6, MadeReturns
  <2>7. ASSUME thread[h].stage \notin {"send", "reply", "waitDeath"},
               NEW s \in Stage \ Delivered, NEW o \in Object, Proceeds(h, s, o),
               s = "send" => o # None /\ o <= started /\ (o = alive => proxy' = alive)
        PROVE  MadeInv'
    BY <1>0, <2>1, <2>2, <2>3, <2>4, <2>5, <2>7, MadeMoves
  <2>8. CASE GetProxy(h)
    BY <1>0, <2>2, <2>6, <2>7, <2>8 DEF GetProxy, At, Stage, Delivered, Ordered
  <2>9. CASE InstallProxyLocked(h)
    BY <1>0, <2>2, <2>6, <2>7, <2>9 DEF InstallProxyLocked, At, Stage, Delivered, Ordered
  <2>10. CASE StartLoadSecCompSa(h)
    BY <2>2, <2>7, <2>10 DEF StartLoadSecCompSa, At, Stage, Delivered
  <2>11. CASE WaitForSecCompSa(h)
    BY <2>2, <2>7, <2>11 DEF WaitForSecCompSa, At, Stage, Delivered
  <2>12. CASE TakeLoadedObject(h)
    BY <2>2, <2>7, <2>12 DEF TakeLoadedObject, At, Stage, Delivered
  <2>13. CASE SendRequest(h) \/ ReceiveReply(h)
    <3>0. UNCHANGED proxy
      BY <2>13 DEF SendRequest, ReceiveReply
    <3>1. CASE MayRetry(h) /\ Proceeds(h, "waitDeath", None)
      <4>1. thread'[h] # Idle /\ thread'[h].stage = "waitDeath"
        BY <1>0, <2>1, <2>2, <3>1, MoveTyped DEF Stage, Proceeds
      <4>2. thread'[h].attempt = 1 /\ thread[h].attempt = 1
        BY <1>0, <2>2, <3>1 DEF MayRetry, Proceeds, Goto, Typed, Run
      <4>3. made'[h] = made[h] /\ stale'[h] = stale[h]
        BY <3>1 DEF Proceeds, madeVars
      <4>4. MadeOK(h)'
        BY <2>1, <2>2, <2>4, <3>0, <4>1, <4>2, <4>3 DEF MadeOK, At, Delivered
      <4> QED
        BY <2>5, <4>4
    <3>2. CASE /\ At(h, "send") /\ thread[h].obj = alive
               /\ made' = IF thread[h].kind = "register" THEN [made EXCEPT ![h] = @ + 1] ELSE made
               /\ stale' = IF MayRetry(h) THEN [stale EXCEPT ![h] = serviceAbilityNeedLoadFlag]
                                         ELSE stale
               /\ Goto(h, "reply", thread[h].obj)
      <4>1. thread'[h] # Idle /\ thread'[h].stage = "reply" /\ thread'[h].obj = alive
        BY <1>0, <2>1, <2>2, <3>2, MoveTyped DEF Stage
      <4>2. thread'[h].attempt = thread[h].attempt /\ thread[h].attempt \in 1..2
        BY <1>0, <2>2, <3>2 DEF Goto, Typed, Run
      <4>3. thread[h].stage = "send" /\ alive # None /\ alive <= started /\ proxy = alive
        BY <2>2, <3>2 DEF MadeOK, At
      <4>4. ~stale[h] => made[h] = 0
        BY <2>2, <4>3 DEF MadeOK, Delivered
      <4>5. thread[h].attempt = 1 => made[h] = 0
        BY <2>2, <4>3 DEF MadeOK, Delivered
      <4>6. made'[h] \in {made[h], made[h] + 1} /\ made[h] \in Nat
        BY <1>0, <3>2 DEF Typed
      <4>7. CASE MayRetry(h)
        <5>1. thread[h].attempt = 1 /\ (stale'[h] <=> serviceAbilityNeedLoadFlag)
          BY <1>0, <3>2, <4>7 DEF MayRetry
        <5>2. MadeOK(h)'
          BY <2>1, <2>4, <3>0, <4>1, <4>2, <4>3, <4>5, <4>6, <5>1 DEF MadeOK, At, Delivered
        <5> QED
          BY <2>5, <5>2
      <4>8. CASE ~MayRetry(h)
        <5>1. stale'[h] = stale[h]
          BY <3>2, <4>8
        <5>2. thread[h].attempt = 1 => made'[h] = 0
          BY <1>0, <3>2, <4>5, <4>8 DEF MayRetry
        <5>3. MadeOK(h)'
          BY <2>1, <2>4, <3>0, <4>1, <4>2, <4>3, <4>4, <4>6, <5>1, <5>2 DEF MadeOK, At, Delivered
        <5> QED
          BY <2>5, <5>3
      <4> QED
        BY <4>7, <4>8
    <3> QED
      BY <2>6, <2>13, <3>1, <3>2 DEF SendRequest, ReceiveReply, RetryOrReturn
  <2>14. CASE WaitForDeath(h)
    <3>1. CASE serviceAbilityNeedLoadFlag /\ UNCHANGED madeVars
      <4>1. thread'[h] # Idle /\ thread'[h].stage = "getProxy" /\ thread[h].stage = "waitDeath"
        BY <1>0, <2>1, <2>14, <3>1, AgainTyped DEF WaitForDeath, At
      <4>2. thread'[h].attempt = 2
        BY <1>0, <2>14, <3>1 DEF WaitForDeath, Typed
      <4>3. made'[h] = made[h] /\ stale'[h] = stale[h] /\ UNCHANGED proxy
        BY <2>14, <3>1 DEF WaitForDeath, madeVars
      <4>4. made[h] # 0 => stale[h]
        <5>1. thread[h].attempt \in 1..2
          BY <2>2, RunFields
        <5> QED
          BY <2>2, <3>1, <4>1, <5>1 DEF MadeOK
      <4>5. MadeOK(h)'
        BY <2>1, <2>2, <4>1, <4>2, <4>3, <4>4 DEF MadeOK, At
      <4> QED
        BY <2>5, <4>5
    <3> QED
      BY <2>6, <2>14, <3>1 DEF WaitForDeath
  <2> QED
    BY <1>7, <2>8, <2>9, <2>10, <2>11, <2>12, <2>13, <2>14 DEF Proceed
<1>8. CASE UNCHANGED vars
  <2>1. UNCHANGED <<thread, made, stale, alive, started, proxy, serviceAbilityNeedLoadFlag>>
    BY <1>8 DEF vars, serviceVars, madeVars
  <2> QED
    BY <1>1, <2>1
<1> QED
  BY <1>2, <1>3, <1>4, <1>5, <1>6, <1>7, <1>8 DEF Next, Environment

\* CallService tries a registration again by the code of the reply alone, also
\* when it was done and the service lives; yet one service holds two components
\* of a call only if serviceAbilityNeedLoadFlag_ was set when the first was made.
THEOREM OnceMade == ASSUME ~CastMayFail PROVE SafeSpec => []OneComponentPerCall
<1>1. MadeInv /\ [Next]_vars => MadeInv'
  BY MadeStep
<1>2. MadeInv => OneComponentPerCall
  <2>1. ASSUME NEW h \in Thread, MadeOK(h) PROVE made[h] = 0 \/ made[h] = 1 \/ stale[h]
    BY <2>1 DEF MadeOK
  <2> QED
    BY <2>1 DEF MadeInv, OneComponentPerCall
<1> QED
  BY <1>1, <1>2, MadeInit, PTL DEF SafeSpec
-----------------------------------------------------------------------------
\* The types of the other variables.
FlagsTyped ==
    /\ {isSaExit, readyFlag, serviceAbilityNeedLoadFlag} \subseteq BOOLEAN
    /\ stale \in [Thread -> BOOLEAN]
LoadsTyped == loadRequests \in Nat /\ loadAnswers \in [Object -> Nat] /\ finishing \in Nat

LEMMA FlagsStep == FlagsTyped /\ [Next]_vars => FlagsTyped'
<1> SUFFICES ASSUME FlagsTyped, [Next]_vars
             PROVE  /\ isSaExit' \in {isSaExit, TRUE, FALSE}
                    /\ readyFlag' \in {readyFlag, TRUE, FALSE}
                    /\ serviceAbilityNeedLoadFlag' \in {serviceAbilityNeedLoadFlag, TRUE, FALSE}
                    /\ stale' \in [Thread -> BOOLEAN]
  BY Zenon DEF FlagsTyped
<1> USE DEF serviceVars, cvVars
<1>0. ASSUME NEW h \in Thread, Return(h) \/ UNCHANGED madeVars
      PROVE  stale' \in [Thread -> BOOLEAN]
  BY <1>0 DEF Return, madeVars, FlagsTyped
<1>1. CASE Environment
  <2>1. stale' = stale \/ stale' = [h \in Thread |-> FALSE]
    BY <1>1, Zenon DEF Environment, ServiceStarts, ServiceDecidesToExit, ServiceDies, AnswerLoad, madeVars
  <2>2. stale' \in [Thread -> BOOLEAN]
    BY <2>1 DEF FlagsTyped
  <2> QED
    BY <1>1, <2>2, Zenon DEF Environment, ServiceStarts, ServiceDecidesToExit, ServiceDies, AnswerLoad
<1>2. CASE Callback
  <2>1. stale' = stale
    BY <1>2, Zenon DEF Callback, FinishStartSASuccess, FinishStartSASuccessEnd, FinishStartSAFail,
                       OnRemoteDiedHandle, madeVars
  <2> QED
    BY <1>2, <2>1, Zenon DEF Callback, FinishStartSASuccess, FinishStartSASuccessEnd, FinishStartSAFail,
                       OnRemoteDiedHandle, FlagsTyped
<1>3. ASSUME NEW h \in Thread, (\E k \in Kind : BeginCall(h, k)) \/ GetProxy(h) \/ SendRequest(h)
      PROVE  /\ UNCHANGED <<isSaExit, readyFlag, serviceAbilityNeedLoadFlag>>
             /\ stale' \in [Thread -> BOOLEAN]
  <2>1. \/ Return(h) \/ UNCHANGED madeVars
        \/ stale' = stale
        \/ stale' = [stale EXCEPT ![h] = serviceAbilityNeedLoadFlag]
    BY <1>3, Zenon DEF BeginCall, GetProxy, SendRequest, RetryOrReturn, Proceeds
  <2>2. serviceAbilityNeedLoadFlag \in BOOLEAN /\ stale \in [Thread -> BOOLEAN]
    BY Zenon DEF FlagsTyped
  <2>3. stale' \in [Thread -> BOOLEAN]
    BY <1>0, <2>1, <2>2
  <2> QED
    BY <1>3, <2>3, Zenon DEF BeginCall, GetProxy, SendRequest
<1>4. ASSUME NEW h \in Thread, Proceed(h)
      PROVE  /\ UNCHANGED <<isSaExit, serviceAbilityNeedLoadFlag>>
             /\ readyFlag' \in {readyFlag, FALSE}
             /\ stale' \in [Thread -> BOOLEAN]
  <2>1. Return(h) \/ UNCHANGED madeVars
    BY <1>4, Zenon DEF Proceed, InstallProxyLocked, StartLoadSecCompSa, WaitForSecCompSa,
                       TakeLoadedObject, ReceiveReply, WaitForDeath, RetryOrReturn, Proceeds
  <2> QED
    BY <1>0, <1>4, <2>1, Zenon DEF Proceed, InstallProxyLocked, StartLoadSecCompSa, WaitForSecCompSa,
                       TakeLoadedObject, ReceiveReply, WaitForDeath
<1>5. CASE UNCHANGED vars
  BY <1>5, Zenon DEF vars, madeVars, FlagsTyped
<1> QED
  BY <1>1, <1>2, <1>3, <1>4, <1>5, Zenon DEF Next

LEMMA LoadsStep == Typed /\ LoadsTyped /\ [Next]_vars => LoadsTyped'
<1> SUFFICES ASSUME Typed, LoadsTyped, [Next]_vars
             PROVE  LoadsTyped'
  OBVIOUS
<1> USE DEF LoadsTyped, loadVars
<1>1. CASE ServiceStarts \/ ServiceDecidesToExit \/ ServiceDies
  BY <1>1 DEF ServiceStarts, ServiceDecidesToExit, ServiceDies
<1>2. CASE AnswerLoad
  <2>1. PICK o \in {alive, None} : loadAnswers' = [loadAnswers EXCEPT ![o] = @ + 1]
    BY <1>2, Zenon DEF AnswerLoad
  <2>2. o \in Object
    BY Numbers DEF Typed
  <2>3. loadRequests > 0 /\ loadRequests' = loadRequests - 1 /\ finishing' = finishing
    BY <1>2, Zenon DEF AnswerLoad
  <2> QED
    BY <2>1, <2>2, <2>3
<1>3. ASSUME NEW o \in Service, FinishStartSASuccess(o)
      PROVE  LoadsTyped'
  BY <1>3, Numbers DEF FinishStartSASuccess
<1>4. CASE FinishStartSASuccessEnd
  BY <1>4 DEF FinishStartSASuccessEnd
<1>5. CASE FinishStartSAFail
  BY <1>5, Numbers DEF FinishStartSAFail
<1>6. CASE OnRemoteDiedHandle
  BY <1>6 DEF OnRemoteDiedHandle
<1>7. ASSUME NEW h \in Thread, (\E k \in Kind : BeginCall(h, k)) \/ GetProxy(h) \/ SendRequest(h)
      PROVE  LoadsTyped'
  BY <1>7 DEF BeginCall, GetProxy, SendRequest
<1>8. ASSUME NEW h \in Thread, StartLoadSecCompSa(h)
      PROVE  LoadsTyped'
  <2>1. loadRequests' \in {loadRequests, loadRequests + 1} /\ UNCHANGED <<loadAnswers, finishing>>
    BY <1>8, Zenon DEF StartLoadSecCompSa
  <2> QED
    BY <2>1
<1>9. ASSUME NEW h \in Thread, Proceed(h), ~StartLoadSecCompSa(h)
      PROVE  LoadsTyped'
  BY <1>9 DEF Proceed, InstallProxyLocked, WaitForSecCompSa, TakeLoadedObject, ReceiveReply,
              WaitForDeath
<1>10. CASE UNCHANGED vars
  BY <1>10 DEF vars
<1> QED
  BY <1>1, <1>2, <1>3, <1>4, <1>5, <1>6, <1>7, <1>8, <1>9, <1>10 DEF Next, Environment, Callback

\* The client, the service and the system ability manager keep their types,
\* for any number of threads, services and loads: no count of recipients,
\* notices or answers drops below zero.
THEOREM Typing == SafeSpec => []TypeOK
<1>1. Init => FlagsTyped
  BY Zenon DEF Init, FlagsTyped
<1>2. Init => LoadsTyped
  BY DEF Init, LoadsTyped
<1>3. WatchInv => Typed
  BY DEF WatchInv
<1>4. Typed /\ FlagsTyped /\ LoadsTyped => TypeOK
  BY Zenon DEF Typed, FlagsTyped, LoadsTyped, TypeOK
<1> QED
  BY <1>1, <1>2, <1>3, <1>4, WatchInit, WatchStep, FlagsStep, LoadsStep, PTL DEF SafeSpec
=============================================================================
