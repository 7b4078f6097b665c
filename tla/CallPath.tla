------------------------------ MODULE CallPath ------------------------------
(***************************************************************************)
(* The way of a call through one application and back: SecCompKit, the     *)
(* enhance adapter, SecCompClient and the entry points of SecCompService.  *)
(* A request and its reply are parcels which the library of the vendor     *)
(* seals, where a device has one; without it they travel plain.            *)
(*                                                                         *)
(* Threads of the application call at the same time.  The client half of   *)
(* the library is loaded by the first thread that needs it (initMtx); the  *)
(* requests follow one another (useIPCMutex_); what the kit does before    *)
(* and after a request is outside that lock.  The service loads its half   *)
(* before it takes calls.  How a proxy is got, and the second try of a     *)
(* registration, are in SecCompClient; what the service does with a        *)
(* component is in SecCompManager: here it is listed or not.               *)
(*                                                                         *)
(* Assumed of the library: it does not read a plain parcel, and nobody     *)
(* reads a sealed one as SC_OK without it.                                 *)
(***************************************************************************)
EXTENDS Naturals

CONSTANTS
    Thread,
    MaxId,         \* bound: components a service registers
    MaxEntry,      \* bound: how often the service loses what it knows of us
    NoThread

ScId == 1..MaxId

ASSUME CallPathAssumption ==
    /\ MaxId \in Nat
    /\ MaxEntry \in Nat \ {0}
    /\ NoThread \notin Thread

VARIABLES
    library,       \* the device has the library of the vendor
    \* SecCompEnhanceAdapter in the application
    isEnhanceClientHandlerInit,
    clientHandler, \* TRUE: not null
    initWait,      \* threads that saw the flag unset and load the library
    initMtx,
    knownIds,      \* ids the client half of the library was told of
    \* SecCompClient
    useIPCMutex,
    call,          \* per thread: the call it makes, or Idle
    held,          \* components the application was given and has not given back
    \* SecCompService
    service,       \* number of the service process
    entry,         \* number of our entry in its componentMap_
    listed,        \* ids in the component list of that entry
    scIdStart,
    \* what the properties are about
    lost,          \* listed ids whose register or unregister was answered by an
                   \* error of the transport or the parcels
    reused         \* ids given although a component of an earlier service is
                   \* still called by them

adapterVars == <<isEnhanceClientHandlerInit, clientHandler, initWait, initMtx>>
serviceVars == <<service, entry, listed, scIdStart>>
ghostVars == <<lost, reused>>
vars == <<library, adapterVars, knownIds, useIPCMutex, call, held, serviceVars,
          ghostVars>>

\* "use": UpdateSecurityComponent or ReportSecurityComponentClickEvent, which
\* name a component and leave the list as it is.
Kind == {"register", "use", "unregister", "preRegister"}

\* The kit has the component info preprocessed before the request ...
Preprocessed == {"register", "use"}
\* ... and tells the library of ids after it.
Followed == {"register", "unregister"}

Idle == [at |-> "idle"]
NoId == 0

Step == {"preprocess", "lock", "serialize", "serve", "deserialize", "follow"}

\* "dead" is an error of the transport, "parcel" SC_SERVICE_ERROR_PARCEL_OPERATE_FAIL,
\* "refused" any other error.
Answer == {"none", "ok", "refused", "parcel", "dead"}

\* The proxy leads to service number "proxy"; "sealed" is how the request goes.
Call == [at : Step, kind : Kind, id : ScId \cup {NoId}, entry : 1..MaxEntry,
         proxy : 1..MaxEntry, sealed : BOOLEAN, answer : Answer]

Handle == [id : ScId, entry : 1..MaxEntry]

Init ==
    /\ library \in BOOLEAN
    /\ isEnhanceClientHandlerInit = FALSE
    /\ clientHandler = FALSE
    /\ initWait = {}
    /\ initMtx = NoThread
    /\ knownIds = {}
    /\ useIPCMutex = NoThread
    /\ call = [t \in Thread |-> Idle]
    /\ held = {}
    /\ service = 1
    /\ entry = 1
    /\ listed = {}
    /\ scIdStart = 1
    /\ lost = {}
    /\ reused = {}
-----------------------------------------------------------------------------
(* SecCompEnhanceAdapter.  Every operation first looks at the flag, without *)
(* a lock.                                                                 *)

Adapting(t) == call[t].at \in {"preprocess", "serialize", "deserialize", "follow"}

SeesNoHandler(t) ==
    /\ Adapting(t)
    /\ ~isEnhanceClientHandlerInit
    /\ initWait' = initWait \cup {t}
    /\ UNCHANGED <<library, isEnhanceClientHandlerInit, clientHandler, initMtx, knownIds,
                   useIPCMutex, call, held, serviceVars, ghostVars>>

\* InitEnhanceHandler sets the flag first ...
InitEnhanceHandler(t) ==
    /\ t \in initWait
    /\ initMtx = NoThread
    /\ initMtx' = t
    /\ isEnhanceClientHandlerInit' = TRUE
    /\ UNCHANGED <<library, clientHandler, initWait, knownIds, useIPCMutex, call, held,
                   serviceVars, ghostVars>>

\* ... and the handler when the library is loaded, if there is one.
SetClientHandler(t) ==
    /\ initMtx = t
    /\ clientHandler' = library
    /\ initMtx' = NoThread
    /\ initWait' = initWait \ {t}
    /\ UNCHANGED <<library, isEnhanceClientHandlerInit, knownIds, useIPCMutex, call, held,
                   serviceVars, ghostVars>>

\* The thread has the flag behind it and takes the handler as it is now.
InitSeen(t) == isEnhanceClientHandlerInit /\ t \notin initWait
-----------------------------------------------------------------------------
(* SecCompKit and SecCompClient.                                           *)

\* The application calls for a component it was given; one it gives back is
\* its own no more, whatever the answer.
Begin(t, kind) ==
    LET Start(id, n) ==
            call' = [call EXCEPT ![t] =
                       [at |-> IF kind \in Preprocessed THEN "preprocess" ELSE "lock",
                        kind |-> kind, id |-> id, entry |-> n, proxy |-> 1,
                        sealed |-> FALSE, answer |-> "none"]]
    IN  /\ call[t] = Idle
        /\ IF kind \in {"register", "preRegister"}
             THEN Start(NoId, 1) /\ UNCHANGED held
             ELSE \E h \in held :
                     /\ Start(h.id, h.entry)
                     /\ held' = IF kind = "unregister" THEN held \ {h} ELSE held
        /\ UNCHANGED <<library, adapterVars, knownIds, useIPCMutex, serviceVars, ghostVars>>

\* The component of a register or unregister that did not come through and
\* is in the list nevertheless.
Orphan(t) ==
    LET c == call[t]
    IN  IF c.kind \in Followed /\ c.entry = entry THEN {c.id} \cap listed ELSE {}

\* The kit returns to the application.
Return(t, answer) ==
    /\ call' = [call EXCEPT ![t] = Idle]
    /\ lost' = IF answer \in {"parcel", "dead"} THEN lost \cup Orphan(t) ELSE lost

\* The client returns to the kit, which goes on with the library after a
\* registration that is made and after any unregister.
Answered(t, answer) ==
    IF call[t].kind = "unregister" \/ (call[t].kind = "register" /\ answer = "ok")
      THEN /\ call' = [call EXCEPT ![t].at = "follow", ![t].answer = answer]
           /\ UNCHANGED lost
      ELSE Return(t, answer)

\* EnhanceDataPreprocess; only the library may say no.
EnhanceDataPreprocess(t) ==
    /\ call[t].at = "preprocess"
    /\ InitSeen(t)
    /\ \/ call' = [call EXCEPT ![t].at = "lock"] /\ UNCHANGED lost
       \/ clientHandler /\ Return(t, "refused")
    /\ UNCHANGED <<library, adapterVars, knownIds, useIPCMutex, held, serviceVars, reused>>

\* GetProxy, then useIPCMutex_.
LockIPC(t) ==
    /\ call[t].at = "lock"
    /\ useIPCMutex = NoThread
    /\ useIPCMutex' = t
    /\ call' = [call EXCEPT ![t].at = "serialize", ![t].proxy = service]
    /\ UNCHANGED <<library, adapterVars, knownIds, held, serviceVars, ghostVars>>

\* There is no service and none can be loaded.
NoProxy(t) ==
    /\ call[t].at = "lock"
    /\ Answered(t, "dead")
    /\ UNCHANGED <<library, adapterVars, knownIds, useIPCMutex, held, serviceVars, reused>>

\* Faulty variant: the lock stays taken when the request fails.
LeaveKeepingLock(t, answer) ==
    /\ Answered(t, answer)
    /\ useIPCMutex' = IF answer = "parcel" THEN useIPCMutex ELSE NoThread

Leave(t, answer) ==
    /\ Answered(t, answer)
    /\ useIPCMutex' = NoThread

\* RegisterWriteToRawdata, UpdateWriteToRawdata, ...
Serialize(t) ==
    /\ call[t].at = "serialize"
    /\ InitSeen(t)
    /\ \/ /\ call' = [call EXCEPT ![t].at = "serve", ![t].sealed = clientHandler]
          /\ UNCHANGED <<useIPCMutex, lost>>
       \/ Leave(t, "parcel")
    /\ UNCHANGED <<library, adapterVars, knownIds, held, serviceVars, reused>>

\* Faulty variant: a registration whose reply cannot be read counts as done.
UnreadIsDone(t) ==
    /\ call[t].at = "deserialize"
    /\ InitSeen(t)
    /\ \/ clientHandler = library /\ Leave(t, call[t].answer)
       \/ Leave(t, IF call[t].kind = "register" THEN "ok" ELSE "parcel")
    /\ UNCHANGED <<library, adapterVars, knownIds, held, serviceVars, reused>>

\* A registration looks at the error of the transport first, the others try
\* to read the reply and turn every failure into one of the parcels.
Deserialize(t) ==
    LET c == call[t]
    IN  /\ c.at = "deserialize"
        /\ InitSeen(t)
        /\ \/ c.answer # "dead" /\ clientHandler = library /\ Leave(t, c.answer)
           \/ c.answer = "dead" /\ c.kind \in {"register", "preRegister"} /\ Leave(t, "dead")
           \/ ~(c.answer = "dead" /\ c.kind = "register") /\ Leave(t, "parcel")
        /\ UNCHANGED <<library, adapterVars, knownIds, held, serviceVars, reused>>

RegisterScIdEnhance(t) ==
    /\ call[t].at = "follow"
    /\ call[t].kind = "register"
    /\ InitSeen(t)
    /\ knownIds' = IF clientHandler THEN knownIds \cup {call[t].id} ELSE knownIds
    /\ held' = held \cup {[id |-> call[t].id, entry |-> call[t].entry]}
    /\ call' = [call EXCEPT ![t] = Idle]
    /\ UNCHANGED <<library, adapterVars, useIPCMutex, serviceVars, ghostVars>>

UnregisterScIdEnhance(t) ==
    /\ call[t].at = "follow"
    /\ call[t].kind = "unregister"
    /\ InitSeen(t)
    /\ knownIds' = IF clientHandler THEN knownIds \ {call[t].id} ELSE knownIds
    /\ Return(t, call[t].answer)
    /\ UNCHANGED <<library, adapterVars, useIPCMutex, held, serviceVars, reused>>
-----------------------------------------------------------------------------
(* The entry points of SecCompService.                                     *)

\* RegisterReadFromRawdata, UpdateReadFromRawdata, ...  A pre-registration
\* carries nothing, and what is empty and plain is not taken for a parcel.
ReadFromRawdata(t) ==
    /\ call[t].sealed = library
    /\ call[t].kind = "preRegister" => library

Reply(t, answer) ==
    call' = [call EXCEPT ![t].at = "deserialize", ![t].answer = answer, ![t].sealed = FALSE]

\* The request is not read (WriteError), or its body refuses it: the caller,
\* the description, the event, the number of components; an unregister only
\* when the id is not in the list.
ServeRefused(t) ==
    /\ call[t].at = "serve"
    /\ call[t].proxy = service
    /\ \/ Reply(t, "parcel")
       \/ /\ ReadFromRawdata(t)
          /\ call[t].kind = "unregister" => call[t].id \notin listed
          /\ Reply(t, "refused")
    /\ UNCHANGED <<library, adapterVars, knownIds, useIPCMutex, held, serviceVars, ghostVars>>

\* Still in use somewhere, from an earlier service.
Called(id) ==
    \/ \E h \in held : h.id = id
    \/ \E t \in Thread : call[t] # Idle /\ call[t].id = id

\* Faulty variant: an unsent reply hides the component that was made.
ServeRegisterHidden(t) ==
    /\ call[t].at = "serve"
    /\ call[t].kind = "register"
    /\ call[t].proxy = service
    /\ ReadFromRawdata(t)
    /\ scIdStart <= MaxId
    /\ scIdStart' = scIdStart + 1
    /\ listed' = listed \cup {scIdStart}
    /\ Reply(t, "refused")
    /\ UNCHANGED <<library, adapterVars, knownIds, useIPCMutex, held, service, entry,
                   ghostVars>>

\* The component is in the list; should the reply not be written, the error
\* that is written instead says nothing of it.
ServeRegister(t) ==
    /\ call[t].at = "serve"
    /\ call[t].kind = "register"
    /\ call[t].proxy = service
    /\ ReadFromRawdata(t)
    /\ scIdStart <= MaxId
    /\ scIdStart' = scIdStart + 1
    /\ listed' = listed \cup {scIdStart}
    /\ \E answer \in {"ok", "parcel"} :
          call' = [call EXCEPT ![t].at = "deserialize", ![t].answer = answer,
                               ![t].sealed = FALSE, ![t].id = scIdStart, ![t].entry = entry]
    /\ reused' = IF Called(scIdStart) THEN reused \cup {scIdStart} ELSE reused
    /\ UNCHANGED <<library, adapterVars, knownIds, useIPCMutex, held, service, entry, lost>>

ServeUnregister(t) ==
    /\ call[t].at = "serve"
    /\ call[t].kind = "unregister"
    /\ call[t].proxy = service
    /\ ReadFromRawdata(t)
    /\ call[t].id \in listed
    /\ listed' = listed \ {call[t].id}
    /\ \E answer \in {"ok", "parcel"} : Reply(t, answer)
    /\ UNCHANGED <<library, adapterVars, knownIds, useIPCMutex, held, service, entry,
                   scIdStart, ghostVars>>

ServeOther(t) ==
    /\ call[t].at = "serve"
    /\ call[t].kind \notin Followed
    /\ call[t].proxy = service
    /\ ReadFromRawdata(t)
    /\ call[t].kind # "preRegister" => call[t].id \in listed
    /\ \E answer \in {"ok", "parcel"} : Reply(t, answer)
    /\ UNCHANGED <<library, adapterVars, knownIds, useIPCMutex, held, serviceVars, ghostVars>>

\* The service died before the request, while it served it, or before the
\* reply was out.
RequestFails(t) ==
    /\ call[t].at = "serve"
    /\ call[t].proxy # service
    /\ Reply(t, "dead")
    /\ UNCHANGED <<library, adapterVars, knownIds, useIPCMutex, held, serviceVars, ghostVars>>

\* A new process counts its ids from SC_ID_START again.
ServiceDies ==
    /\ entry < MaxEntry
    /\ service' = service + 1
    /\ entry' = entry + 1
    /\ listed' = {}
    /\ scIdStart' = 1
    /\ lost' = {}
    /\ reused' = {}
    /\ UNCHANGED <<library, adapterVars, knownIds, useIPCMutex, call, held>>

\* NotifyProcessDied for an application that is cached and lives on.
EntryDropped ==
    /\ entry < MaxEntry
    /\ entry' = entry + 1
    /\ listed' = {}
    /\ lost' = {}
    /\ reused' = {}
    /\ UNCHANGED <<library, adapterVars, knownIds, useIPCMutex, call, held, service,
                   scIdStart>>
-----------------------------------------------------------------------------
AdapterStep(t) == InitEnhanceHandler(t) \/ SetClientHandler(t)

KitStep(t) ==
    \/ SeesNoHandler(t)
    \/ EnhanceDataPreprocess(t)
    \/ Serialize(t)
    \/ Deserialize(t)
    \/ RegisterScIdEnhance(t)
    \/ UnregisterScIdEnhance(t)

ServeStep(t) ==
    \/ ServeRefused(t)
    \/ ServeRegister(t)
    \/ ServeUnregister(t)
    \/ ServeOther(t)
    \/ RequestFails(t)

Next ==
    \/ \E t \in Thread :
          \/ \E kind \in Kind : Begin(t, kind)
          \/ AdapterStep(t)
          \/ KitStep(t)
          \/ NoProxy(t)
          \/ LockIPC(t)
          \/ ServeStep(t)
    \/ ServiceDies
    \/ EntryDropped

SafeSpec == Init /\ [][Next]_vars

(* A thread goes on, a service or the transport answers each request, and a *)
(* thread that keeps asking for a lock gets it.                            *)
Spec ==
    /\ SafeSpec
    /\ \A t \in Thread :
          /\ WF_vars(KitStep(t) \/ ServeStep(t) \/ SetClientHandler(t))
          /\ SF_vars(InitEnhanceHandler(t))
          /\ SF_vars(LockIPC(t))
-----------------------------------------------------------------------------
TypeOK ==
    /\ library \in BOOLEAN
    /\ isEnhanceClientHandlerInit \in BOOLEAN
    /\ clientHandler \in BOOLEAN
    /\ initWait \subseteq Thread
    /\ initMtx \in Thread \cup {NoThread}
    /\ knownIds \subseteq ScId
    /\ useIPCMutex \in Thread \cup {NoThread}
    /\ call \in [Thread -> Call \cup {Idle}]
    /\ held \subseteq Handle
    /\ service \in 1..entry
    /\ entry \in 1..MaxEntry
    /\ listed \subseteq ScId
    /\ scIdStart \in 1..(MaxId + 1)
    /\ lost \subseteq ScId
    /\ reused \subseteq ScId

\* What the application was given is what the service has listed, and the
\* library was told of it, although other threads may have found the library
\* half loaded: a registration only comes through when the handler was there.
\* Excepted is what the service has forgotten with our entry, and an id that
\* a later service gave while a component of an earlier one was still called
\* by it: who gives the one back takes the other away.
HeldIsListedAndKnown ==
    \A h \in held :
        h.entry = entry /\ h.id \notin reused =>
            /\ h.id \in listed
            /\ library => h.id \in knownIds

\* A component the application cannot name is left in the service only by a
\* call that answered with an error of the transport or of the parcels; an
\* answer of the service that refuses the call leaves nothing behind.
ListedIsAccounted ==
    \A id \in listed :
        \/ [id |-> id, entry |-> entry] \in held
        \/ \E t \in Thread : call[t] # Idle /\ call[t].id = id /\ call[t].kind \in Followed
        \/ id \in lost

\* Every call returns to the application: neither the load of the library nor
\* the lock of the requests holds it up for ever.
CallsReturn == \A t \in Thread : (call[t] # Idle) ~> (call[t] = Idle)
=============================================================================
