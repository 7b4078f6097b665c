--------------------------- MODULE SecCompClient ---------------------------
(***************************************************************************)
(* SecCompClient in an application (sec_comp_client.cpp): it loads the     *)
(* security component service on demand, keeps a proxy to it, drops the    *)
(* proxy when the service dies, and repeats a registration that met a      *)
(* service on its way out.                                                 *)
(*                                                                         *)
(* Threads of the application run GetProxy under proxyMutex_, also while   *)
(* they wait for a load; IPC threads deliver the answer to a load and the  *)
(* death of the service at any later time.                                 *)
(***************************************************************************)
EXTENDS Naturals, Functions

CONSTANTS
    Thread,        \* application threads that call the client
    Kind,          \* subset of {"register", "update", "verify"}
    MaxService,    \* bound: how often the service starts
    MaxLoads,      \* bound: loads open at a time
    CastMayFail    \* TRUE: iface_cast may answer null

ASSUME ClientAssumption ==
    /\ Kind \subseteq {"register", "update", "verify"}
    /\ MaxService \in Nat
    /\ MaxLoads \in Nat
    /\ CastMayFail \in BOOLEAN

VARIABLES
    \* the service and the system ability manager
    alive,         \* the service that runs (its number), or None
    started,       \* how many services have been started
    isSaExit,      \* the running service refuses registrations
    loadRequests,  \* loads asked for and not answered
    loadAnswers,   \* per service or None: answers on their way
    watchers,      \* death recipients the client has on the running service
    notices,       \* death notices on their way
    \* SecCompClient
    proxy,         \* proxy_: the service it leads to, or None
    loadedRemoteObject,
    readyFlag,
    serviceAbilityNeedLoadFlag,
    finishing,     \* FinishStartSASuccess calls between their two sections
    \* the calls
    thread,        \* per thread: the call it runs, or Idle
    made,          \* per thread: components its call made in the running service
    stale          \* history, per thread: when its call made a component in the
                   \* first try, serviceAbilityNeedLoadFlag was set already

serviceVars == <<alive, started, isSaExit>>
loadVars == <<loadRequests, loadAnswers>>
deathVars == <<watchers, notices>>
cvVars == <<loadedRemoteObject, readyFlag>>
madeVars == <<made, stale>>
vars == <<serviceVars, loadVars, deathVars, proxy, cvVars,
          serviceAbilityNeedLoadFlag, finishing, thread, madeVars>>

None == 0
Service == 1..MaxService
Object == Service \cup {None}

Idle == [stage |-> "idle"]
\* obj: the object at hand, the proxy once GetProxy returned it.
Run == [stage : {"getProxy", "install", "load", "wait", "take", "send", "reply",
                 "waitDeath"},
        kind : Kind, attempt : 1..2, obj : Object]

At(h, stage) == thread[h] # Idle /\ thread[h].stage = stage
Goto(h, stage, obj) ==
    thread' = [thread EXCEPT ![h].stage = stage, ![h].obj = obj]
Proceeds(h, stage, obj) == Goto(h, stage, obj) /\ UNCHANGED madeVars
\* What a call made is of interest while it runs.
Return(h) ==
    /\ thread' = [thread EXCEPT ![h] = Idle]
    /\ made' = [made EXCEPT ![h] = 0]
    /\ stale' = [stale EXCEPT ![h] = FALSE]

\* proxyMutex_ is held through all of GetProxy, useIPCMutex_ through a
\* request, except that VerifySavePermission does not take it.
ProxyMutexFree ==
    \A h \in Thread : \A s \in {"install", "load", "wait", "take"} : ~At(h, s)
UseIPCMutexFree == \A h \in Thread : At(h, "reply") => thread[h].kind = "verify"

\* Loads not yet answered, or whose answer is not yet dealt with.
LoadsOpen == loadRequests + FoldFunction(+, 0, loadAnswers) + finishing

Init ==
    /\ alive = None
    /\ started = 0
    /\ isSaExit = FALSE
    /\ loadRequests = 0
    /\ loadAnswers = [o \in Object |-> 0]
    /\ watchers = 0
    /\ notices = 0
    /\ proxy = None
    /\ loadedRemoteObject = None
    /\ readyFlag = FALSE
    /\ serviceAbilityNeedLoadFlag = FALSE
    /\ finishing = 0
    /\ thread = [h \in Thread |-> Idle]
    /\ made = [h \in Thread |-> 0]
    /\ stale = [h \in Thread |-> FALSE]
-----------------------------------------------------------------------------
(* The service and the system ability manager.                             *)

\* Loaded for this application or for another one.
ServiceStarts ==
    /\ alive = None
    /\ started < MaxService
    /\ started' = started + 1
    /\ alive' = started + 1
    /\ isSaExit' = FALSE
    /\ UNCHANGED <<loadVars, deathVars, proxy, cvVars, serviceAbilityNeedLoadFlag,
                   finishing, thread, madeVars>>

ServiceDecidesToExit ==
    /\ alive # None
    /\ ~isSaExit
    /\ isSaExit' = TRUE
    /\ UNCHANGED <<alive, started, loadVars, deathVars, proxy, cvVars,
                   serviceAbilityNeedLoadFlag, finishing, thread, madeVars>>

\* Unloaded or crashed: its components are gone, its death is told to every
\* recipient.
ServiceDies ==
    /\ alive # None
    /\ alive' = None
    /\ isSaExit' = FALSE
    /\ notices' = notices + watchers
    /\ watchers' = 0
    /\ made' = [h \in Thread |-> 0]
    /\ stale' = [h \in Thread |-> FALSE]
    /\ UNCHANGED <<started, loadVars, proxy, cvVars, serviceAbilityNeedLoadFlag,
                   finishing, thread>>

\* The answer to a load: the service that runs, or a failure.
AnswerLoad ==
    /\ loadRequests > 0
    /\ loadRequests' = loadRequests - 1
    /\ \E o \in {alive, None} : loadAnswers' = [loadAnswers EXCEPT ![o] = @ + 1]
    /\ UNCHANGED <<serviceVars, deathVars, proxy, cvVars, serviceAbilityNeedLoadFlag,
                   finishing, thread, madeVars>>
-----------------------------------------------------------------------------
(* Callbacks of the client.                                                *)

\* The two sections of FinishStartSASuccess, under two different locks.
FinishStartSASuccess(o) ==
    /\ o # None
    /\ loadAnswers[o] > 0
    /\ loadAnswers' = [loadAnswers EXCEPT ![o] = @ - 1]
    /\ loadedRemoteObject' = o
    /\ readyFlag' = TRUE
    /\ finishing' = finishing + 1
    /\ UNCHANGED <<serviceVars, loadRequests, deathVars, proxy,
                   serviceAbilityNeedLoadFlag, thread, madeVars>>

FinishStartSASuccessEnd ==
    /\ finishing > 0
    /\ finishing' = finishing - 1
    /\ serviceAbilityNeedLoadFlag' = FALSE
    /\ UNCHANGED <<serviceVars, loadVars, deathVars, proxy, cvVars, thread, madeVars>>

FinishStartSAFail ==
    /\ loadAnswers[None] > 0
    /\ loadAnswers' = [loadAnswers EXCEPT ![None] = @ - 1]
    /\ loadedRemoteObject' = None
    /\ readyFlag' = FALSE
    /\ UNCHANGED <<serviceVars, loadRequests, deathVars, proxy,
                   serviceAbilityNeedLoadFlag, finishing, thread, madeVars>>

\* Faulty variant: one more recipient is given up than was there.
RemoveRecipientAnyway ==
    /\ notices > 0
    /\ ProxyMutexFree
    /\ notices' = notices - 1
    /\ watchers' = watchers - 1
    /\ proxy' = None
    /\ readyFlag' = FALSE
    /\ serviceAbilityNeedLoadFlag' = TRUE
    /\ UNCHANGED <<serviceVars, loadVars, loadedRemoteObject, finishing, thread, madeVars>>

\* Whose death it is, is not asked.
OnRemoteDiedHandle ==
    /\ notices > 0
    /\ ProxyMutexFree
    /\ notices' = notices - 1
    /\ watchers' = IF proxy # None /\ proxy = alive THEN watchers - 1 ELSE watchers
    /\ proxy' = None
    /\ readyFlag' = FALSE
    /\ serviceAbilityNeedLoadFlag' = TRUE
    /\ UNCHANGED <<serviceVars, loadVars, loadedRemoteObject, finishing, thread, madeVars>>
-----------------------------------------------------------------------------
(* GetProxy.                                                               *)

BeginCall(h, k) ==
    /\ thread[h] = Idle
    /\ thread' = [thread EXCEPT ![h] =
                     [stage |-> "getProxy", kind |-> k, attempt |-> 1, obj |-> None]]
    /\ UNCHANGED <<serviceVars, loadVars, deathVars, proxy, cvVars,
                   serviceAbilityNeedLoadFlag, finishing, madeVars>>

\* The cached proxy, else the service that runs, else a load, which
\* VerifySavePermission does not ask for.
GetProxy(h) ==
    /\ At(h, "getProxy")
    /\ ProxyMutexFree
    /\ \/ proxy # None /\ Proceeds(h, "send", proxy)
       \/ proxy = None /\ alive # None /\ Proceeds(h, "install", alive)
       \/ proxy = None /\ alive = None /\ thread[h].kind # "verify" /\ Proceeds(h, "load", None)
       \/ proxy = None /\ alive = None /\ thread[h].kind = "verify" /\ Return(h)
    /\ UNCHANGED <<serviceVars, loadVars, deathVars, proxy, cvVars,
                   serviceAbilityNeedLoadFlag, finishing>>

\* Faulty variant: a service that is dead already is installed all the same.
InstallUnwatched(h) ==
    LET o == thread[h].obj
    IN  /\ At(h, "install")
        /\ proxy' = o
        /\ watchers' = IF o # None /\ o = alive THEN watchers + 1 ELSE watchers
        /\ IF o = None THEN Return(h) ELSE Proceeds(h, "send", o)
        /\ UNCHANGED <<serviceVars, loadVars, notices, cvVars,
                       serviceAbilityNeedLoadFlag, finishing>>

\* Faulty variant: a second recipient is left behind.
InstallWatchedTwice(h) ==
    LET o == thread[h].obj
    IN  /\ At(h, "install")
        /\ \/ o \in {None} \cup (Service \ {alive}) /\ UNCHANGED <<proxy, watchers>> /\ Return(h)
           \/ o # None /\ o = alive /\ proxy' = o /\ watchers' = watchers + 2 /\ Proceeds(h, "send", o)
        /\ UNCHANGED <<serviceVars, loadVars, notices, cvVars,
                       serviceAbilityNeedLoadFlag, finishing>>

\* No recipient can be added to a service that has died in the meantime.
\* When iface_cast fails the recipient stays.
InstallProxyLocked(h) ==
    LET o == thread[h].obj
    IN  /\ At(h, "install")
        /\ \/ o \in {None} \cup (Service \ {alive}) /\ UNCHANGED <<proxy, watchers>> /\ Return(h)
           \/ o # None /\ o = alive /\ proxy' = o /\ watchers' = watchers + 1 /\ Proceeds(h, "send", o)
           \/ /\ CastMayFail
              /\ o # None /\ o = alive
              /\ watchers' = watchers + 1
              /\ UNCHANGED proxy
              /\ Return(h)
        /\ UNCHANGED <<serviceVars, loadVars, notices, cvVars,
                       serviceAbilityNeedLoadFlag, finishing>>

StartLoadSecCompSa(h) ==
    /\ At(h, "load")
    /\ readyFlag' = FALSE
    /\ loadedRemoteObject' = None
    /\ \/ /\ LoadsOpen < MaxLoads
          /\ loadRequests' = loadRequests + 1
          /\ Proceeds(h, "wait", None)
       \/ UNCHANGED loadRequests /\ Proceeds(h, "take", None)     \* the load is refused
    /\ UNCHANGED <<serviceVars, loadAnswers, deathVars, proxy,
                   serviceAbilityNeedLoadFlag, finishing>>

\* Faulty variant: no time limit.
WaitForReady(h) ==
    /\ At(h, "wait")
    /\ readyFlag
    /\ Proceeds(h, "take", None)
    /\ UNCHANGED <<serviceVars, loadVars, deathVars, proxy, cvVars,
                   serviceAbilityNeedLoadFlag, finishing>>

\* Ends when the load is answered with a service, or after 3 s.
WaitForSecCompSa(h) ==
    /\ At(h, "wait")
    /\ Proceeds(h, "take", None)
    /\ UNCHANGED <<serviceVars, loadVars, deathVars, proxy, cvVars,
                   serviceAbilityNeedLoadFlag, finishing>>

\* Whatever object the last answer left, of this load or of an earlier one.
TakeLoadedObject(h) ==
    /\ At(h, "take")
    /\ Proceeds(h, "install", loadedRemoteObject)
    /\ loadedRemoteObject' = None
    /\ UNCHANGED <<serviceVars, loadVars, deathVars, proxy, readyFlag,
                   serviceAbilityNeedLoadFlag, finishing>>
-----------------------------------------------------------------------------
(* Requests.                                                               *)

\* The codes of RETRY_CODE_LIST: a registration is tried once more.
MayRetry(h) == thread[h].kind = "register" /\ thread[h].attempt = 1
RetryOrReturn(h) == IF MayRetry(h) THEN Proceeds(h, "waitDeath", None) ELSE Return(h)

\* The request reaches the running service and is done there.  Or it is
\* refused there, or cannot be written; or it does not get there, or meets a
\* service that exits.
SendRequest(h) ==
    /\ At(h, "send")
    /\ thread[h].kind # "verify" => UseIPCMutexFree
    /\ \/ /\ thread[h].obj = alive
          /\ thread[h].kind = "register" => ~isSaExit
          /\ made' = IF thread[h].kind = "register" THEN [made EXCEPT ![h] = @ + 1] ELSE made
          /\ stale' = IF MayRetry(h) THEN [stale EXCEPT ![h] = serviceAbilityNeedLoadFlag]
                                    ELSE stale
          /\ Goto(h, "reply", thread[h].obj)
       \/ Return(h)
       \/ RetryOrReturn(h)
    /\ UNCHANGED <<serviceVars, loadVars, deathVars, proxy, cvVars,
                   serviceAbilityNeedLoadFlag, finishing>>

\* The reply arrives and is read or cannot be read.  Or the transaction fails
\* after the request was done, with BR_DEAD_REPLY when the service died, with
\* BR_FAILED_REPLY or SENDREQ_FAIL_ERR also when it lives: all three codes are
\* in the list, and the code alone decides.
ReceiveReply(h) ==
    /\ At(h, "reply")
    /\ Return(h) \/ RetryOrReturn(h)
    /\ UNCHANGED <<serviceVars, loadVars, deathVars, proxy, cvVars,
                   serviceAbilityNeedLoadFlag, finishing>>

\* Faulty variant: the second try does not wait for the death.
RetryAtOnce(h) ==
    /\ At(h, "waitDeath")
    /\ thread' = [thread EXCEPT ![h] =
                     [stage |-> "getProxy", kind |-> @.kind, attempt |-> 2, obj |-> None]]
    /\ UNCHANGED <<serviceVars, loadVars, deathVars, proxy, cvVars,
                   serviceAbilityNeedLoadFlag, finishing, madeVars>>

\* Waits for the death of the service to be handled, 500 ms at most.  A flag
\* left by an earlier death ends the wait at once.
WaitForDeath(h) ==
    /\ At(h, "waitDeath")
    /\ \/ /\ serviceAbilityNeedLoadFlag
          /\ thread' = [thread EXCEPT ![h] =
                           [stage |-> "getProxy", kind |-> @.kind, attempt |-> 2, obj |-> None]]
          /\ UNCHANGED madeVars
       \/ ~serviceAbilityNeedLoadFlag /\ Return(h)
    /\ UNCHANGED <<serviceVars, loadVars, deathVars, proxy, cvVars,
                   serviceAbilityNeedLoadFlag, finishing>>
-----------------------------------------------------------------------------
Environment ==
    \/ ServiceStarts
    \/ ServiceDecidesToExit
    \/ ServiceDies
    \/ AnswerLoad

Callback ==
    \/ \E o \in Service : FinishStartSASuccess(o)
    \/ FinishStartSASuccessEnd
    \/ FinishStartSAFail
    \/ OnRemoteDiedHandle

Proceed(h) ==
    \/ InstallProxyLocked(h)
    \/ StartLoadSecCompSa(h)
    \/ WaitForSecCompSa(h)
    \/ TakeLoadedObject(h)
    \/ ReceiveReply(h)
    \/ WaitForDeath(h)

Next ==
    \/ Environment
    \/ Callback
    \/ \E h \in Thread :
          \/ \E k \in Kind : BeginCall(h, k)
          \/ GetProxy(h)
          \/ SendRequest(h)
          \/ Proceed(h)

\* Threads go on, get the two mutexes some time, and death notices arrive.
\* Nothing is assumed of the service or of answers to loads.
Fairness ==
    /\ \A h \in Thread : WF_vars(Proceed(h)) /\ SF_vars(GetProxy(h)) /\ SF_vars(SendRequest(h))
    /\ WF_vars(OnRemoteDiedHandle)

SafeSpec == Init /\ [][Next]_vars
Spec == SafeSpec /\ Fairness
-----------------------------------------------------------------------------
(* Properties.                                                             *)

TypeOK ==
    /\ alive \in Object
    /\ started \in 0..MaxService
    /\ isSaExit \in BOOLEAN
    /\ loadRequests \in Nat
    /\ loadAnswers \in [Object -> Nat]
    /\ watchers \in Nat
    /\ notices \in Nat
    /\ proxy \in Object
    /\ loadedRemoteObject \in Object
    /\ readyFlag \in BOOLEAN
    /\ serviceAbilityNeedLoadFlag \in BOOLEAN
    /\ finishing \in Nat
    /\ thread \in [Thread -> Run \cup {Idle}]
    /\ made \in [Thread -> Nat]
    /\ stale \in [Thread -> BOOLEAN]

\* A proxy to a service that died is not kept for ever: the notice that drops
\* it is on its way, although the service may die between the moment it was
\* found and the moment its recipient is added.
ProxyWatched == proxy \notin {None, alive} => notices > 0

\* The proxy of a running service is never dropped: a notice that comes late,
\* when the next service is up, does not hit the proxy of that one.
LiveProxyKept == [][proxy # None /\ proxy' # proxy => proxy # alive]_vars

\* A registration whose reply is lost is tried again, and makes a second
\* component in the same service only if serviceAbilityNeedLoadFlag_ was left
\* set by an earlier death: no late notice sets it while a service that did
\* the first try lives, and no load, death or other thread lets the second try
\* reach that service again.
OneComponentPerCall == \A h \in Thread : made[h] <= 1 \/ stale[h]

\* Every call returns: a load that is not answered and a death that is not
\* noticed hold a thread, and the mutexes it has, up for some time only.
CallsReturn == \A h \in Thread : (thread[h] # Idle) ~> (thread[h] = Idle)
=============================================================================
