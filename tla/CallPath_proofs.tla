-------------------------- MODULE CallPath_proofs --------------------------
(***************************************************************************)
(* Proofs about CallPath, for all threads, ids and services.               *)
(***************************************************************************)
EXTENDS CallPath, TLAPS

\* A register or unregister in flight that names component id.
Names(t, id) ==
    /\ call[t].at # "idle"
    /\ call[t].kind \in Followed
    /\ call[t].id = id

\* What a registration in flight knows of its component.
RegisterInv(c) ==
    /\ c.at \in {"preprocess", "lock", "serialize", "serve"} => c.id = NoId
    /\ c.answer \in {"refused", "dead"} => c.id = NoId
    /\ c.answer = "ok" => c.id # NoId
    /\ c.at = "follow" => c.answer = "ok" /\ clientHandler = library
    /\ c.id # NoId /\ c.entry = entry /\ c.id \notin reused => c.id \in listed

\* What an unregister in flight knows of its component.
UnregisterInv(c) ==
    /\ c.at # "preprocess"
    /\ c.id # NoId
    /\ c.entry = entry /\ c.at \in {"deserialize", "follow"} /\ c.answer \in {"ok", "refused"}
          => c.id \notin listed

CallInv ==
    \A t \in Thread : call[t].at # "idle" =>
        /\ call[t].entry <= entry
        /\ call[t].entry = entry /\ call[t].id # NoId => call[t].id < scIdStart
        /\ call[t].at \in {"deserialize", "follow"} => call[t].answer # "none"
        /\ call[t].kind = "register" => RegisterInv(call[t])
        /\ call[t].kind = "unregister" => UnregisterInv(call[t])

HeldInv ==
    \A h \in held :
        /\ h.entry <= entry
        /\ h.entry = entry => h.id < scIdStart

\* Nobody else names a component of the present entry, but for reused ids.
OwnerInv ==
    /\ \A h, g \in held : h # g /\ h.id = g.id /\ h.entry = entry => h.id \in reused
    /\ \A h \in held : \A t \in Thread :
          Names(t, h.id) /\ (h.entry = entry \/ call[t].entry = entry) => h.id \in reused
    /\ \A t, u \in Thread : \A id \in ScId :
          t # u /\ Names(t, id) /\ Names(u, id) /\ call[t].entry = entry => id \in reused

AccountInv ==
    \A id \in listed :
        \/ [id |-> id, entry |-> entry] \in held
        \/ \E t \in Thread : Names(t, id) /\ call[t].entry = entry
        \/ id \in lost

PathInv == CallInv /\ HeldInv /\ OwnerInv /\ AccountInv /\ HeldIsListedAndKnown

-----------------------------------------------------------------------------
(* Types.                                                                  *)

\* What the thread of a call may do to it.
LEMMA InCall ==
    ASSUME TypeOK, NEW t \in Thread, call[t] # Idle
    PROVE  /\ call[t] \in Call
           /\ \A at \in Step : [call[t] EXCEPT !.at = at] \in Call
           /\ \A at \in Step, answer \in Answer :
                 /\ [call[t] EXCEPT !.at = at, !.answer = answer] \in Call
                 /\ [call[t] EXCEPT !.at = at, !.answer = answer, !.sealed = FALSE] \in Call
BY DEF TypeOK, Call, Idle

LEMMA Moves ==
    ASSUME TypeOK, NEW t \in Thread, NEW c \in Call \cup {Idle},
           call' = [call EXCEPT ![t] = c]
    PROVE  call' \in [Thread -> Call \cup {Idle}]
BY DEF TypeOK

LEMMA AnsweredTyped ==
    ASSUME TypeOK, NEW t \in Thread, call[t] # Idle, NEW answer \in Answer, Answered(t, answer)
    PROVE  /\ call' \in [Thread -> Call \cup {Idle}]
           /\ lost' \subseteq ScId
<1>1. Orphan(t) \subseteq ScId
  BY DEF Orphan, TypeOK
<1>2. CASE Return(t, answer)
  BY <1>1, <1>2, Moves DEF Return, TypeOK
<1>3. CASE /\ call' = [call EXCEPT ![t].at = "follow", ![t].answer = answer]
           /\ UNCHANGED lost
  <2>1. call' = [call EXCEPT ![t] = [call[t] EXCEPT !.at = "follow", !.answer = answer]]
    BY <1>3, InCall DEF TypeOK
  <2>2. [call[t] EXCEPT !.at = "follow", !.answer = answer] \in Call
    BY InCall DEF Step
  <2> QED
    BY <1>3, <2>1, <2>2, Moves DEF TypeOK
<1> QED
  BY <1>2, <1>3 DEF Answered

LEMMA ReplyTyped ==
    ASSUME TypeOK, NEW t \in Thread, call[t] # Idle, NEW answer \in Answer, Reply(t, answer)
    PROVE  call' \in [Thread -> Call \cup {Idle}]
<1>1. call' = [call EXCEPT ![t] = [call[t] EXCEPT !.at = "deserialize", !.answer = answer,
                                                  !.sealed = FALSE]]
  BY InCall DEF Reply, TypeOK
<1> QED
  BY <1>1, InCall, Moves DEF Step

LEMMA BeginTyped ==
    ASSUME TypeOK, NEW t \in Thread, NEW kind \in Kind, Begin(t, kind)
    PROVE  TypeOK'
<1> USE DEF adapterVars, serviceVars, ghostVars
<1>1. UNCHANGED <<library, isEnhanceClientHandlerInit, clientHandler, initWait, initMtx,
                  knownIds, useIPCMutex, service, entry, listed, scIdStart, lost, reused>>
  BY DEF Begin
<1> DEFINE Made(id, n) == [at |-> IF kind \in Preprocessed THEN "preprocess" ELSE "lock",
                           kind |-> kind, id |-> id, entry |-> n, proxy |-> 1,
                           sealed |-> FALSE, answer |-> "none"]
<1>2. ASSUME NEW id \in ScId \cup {NoId}, NEW n \in 1..MaxEntry
      PROVE  Made(id, n) \in Call
  BY CallPathAssumption DEF Call, Step, Answer
<1>3. CASE kind \in {"register", "preRegister"}
  <2>1. call' = [call EXCEPT ![t] = Made(NoId, 1)] /\ UNCHANGED held
    BY <1>3 DEF Begin
  <2>2. Made(NoId, 1) \in Call
    BY <1>2, CallPathAssumption
  <2> HIDE DEF Made
  <2>3. call' \in [Thread -> Call \cup {Idle}]
    BY <2>1, <2>2, Moves
  <2> QED
    BY <1>1, <2>1, <2>3 DEF TypeOK
<1>4. CASE kind \notin {"register", "preRegister"}
  <2>1. PICK h \in held : /\ call' = [call EXCEPT ![t] = Made(h.id, h.entry)]
                          /\ held' = IF kind = "unregister" THEN held \ {h} ELSE held
    BY <1>4 DEF Begin
  <2>2. h.id \in ScId /\ h.entry \in 1..MaxEntry
    BY DEF TypeOK, Handle
  <2>3. Made(h.id, h.entry) \in Call
    BY <1>2, <2>2
  <2> HIDE DEF Made
  <2>4. call' \in [Thread -> Call \cup {Idle}]
    BY <2>1, <2>3, Moves
  <2> QED
    BY <1>1, <2>1, <2>4 DEF TypeOK
<1> QED
  BY <1>3, <1>4

LEMMA AdapterTyped ==
    ASSUME TypeOK, NEW t \in Thread, AdapterStep(t) \/ SeesNoHandler(t)
    PROVE  TypeOK'
<1> USE DEF adapterVars, serviceVars, ghostVars
<1>1. CASE InitEnhanceHandler(t)
  <2>1. initMtx' \in Thread \cup {NoThread} /\ isEnhanceClientHandlerInit' \in BOOLEAN
    BY <1>1 DEF InitEnhanceHandler
  <2> QED
    BY <1>1, <2>1 DEF InitEnhanceHandler, TypeOK
<1>2. CASE SetClientHandler(t)
  <2>1. clientHandler' \in BOOLEAN
    BY <1>2 DEF SetClientHandler, TypeOK
  <2> QED
    BY <1>2, <2>1 DEF SetClientHandler, TypeOK
<1>3. CASE SeesNoHandler(t)
  BY <1>3 DEF SeesNoHandler, TypeOK
<1> QED
  BY <1>1, <1>2, <1>3 DEF AdapterStep

LEMMA ClientTyped ==
    ASSUME TypeOK, CallInv, NEW t \in Thread,
           \/ EnhanceDataPreprocess(t)
           \/ LockIPC(t)
           \/ NoProxy(t)
           \/ Serialize(t)
           \/ Deserialize(t)
           \/ RegisterScIdEnhance(t)
           \/ UnregisterScIdEnhance(t)
    PROVE  TypeOK'
<1> USE DEF adapterVars, serviceVars, ghostVars
<1> DEFINE Quiet == UNCHANGED <<library, isEnhanceClientHandlerInit, clientHandler, initWait,
                                initMtx, service, entry, listed, scIdStart, reused>>
           Rest == /\ knownIds' \subseteq ScId
                   /\ useIPCMutex' \in Thread \cup {NoThread}
                   /\ call' \in [Thread -> Call \cup {Idle}]
                   /\ held' \subseteq Handle
                   /\ lost' \subseteq ScId
<1>1. call[t] # Idle
  BY DEF EnhanceDataPreprocess, LockIPC, NoProxy, Serialize, Deserialize,
         RegisterScIdEnhance, UnregisterScIdEnhance, Idle
<1>2. Quiet
  BY DEF EnhanceDataPreprocess, LockIPC, NoProxy, Serialize, Deserialize,
         RegisterScIdEnhance, UnregisterScIdEnhance
<1>3. ASSUME NEW answer \in Answer, Leave(t, answer)
      PROVE  /\ useIPCMutex' \in Thread \cup {NoThread}
             /\ call' \in [Thread -> Call \cup {Idle}]
             /\ lost' \subseteq ScId
  BY <1>1, <1>3, AnsweredTyped DEF Leave
<1>4. ASSUME NEW answer \in Answer, Return(t, answer)
      PROVE  call' \in [Thread -> Call \cup {Idle}] /\ lost' \subseteq ScId
  <2>1. Orphan(t) \subseteq ScId
    BY DEF Orphan, TypeOK
  <2> QED
    BY <1>4, <2>1, Moves DEF Return, TypeOK
<1>5. CASE EnhanceDataPreprocess(t)
  <2>1. CASE call' = [call EXCEPT ![t].at = "lock"] /\ UNCHANGED lost
    <3>1. call' = [call EXCEPT ![t] = [call[t] EXCEPT !.at = "lock"]]
      BY <2>1 DEF TypeOK
    <3>2. call' \in [Thread -> Call \cup {Idle}]
      BY <1>1, <3>1, InCall, Moves DEF Step
    <3> QED
      BY <1>5, <2>1, <3>2 DEF EnhanceDataPreprocess, TypeOK
  <2>2. CASE Return(t, "refused")
    BY <1>4, <1>5, <2>2 DEF EnhanceDataPreprocess, Answer, TypeOK
  <2>3. Rest
    BY <1>5, <2>1, <2>2 DEF EnhanceDataPreprocess, TypeOK
  <2> QED
    BY <1>2, <2>3 DEF TypeOK
<1>6. CASE LockIPC(t)
  <2>1. call' = [call EXCEPT ![t] = [call[t] EXCEPT !.at = "serialize", !.proxy = service]]
    BY <1>6 DEF LockIPC, TypeOK
  <2>2. [call[t] EXCEPT !.at = "serialize", !.proxy = service] \in Call
    <3>1. service \in 1..MaxEntry
      BY CallPathAssumption DEF TypeOK
    <3>2. call[t] \in Call
      BY <1>1, InCall
    <3> QED
      BY <3>1, <3>2 DEF Call, Step
  <2>3. call' \in [Thread -> Call \cup {Idle}]
    BY <2>1, <2>2, Moves
  <2>4. Rest
    BY <1>6, <2>3 DEF LockIPC, TypeOK
  <2> QED
    BY <1>2, <2>4 DEF TypeOK
<1>7. CASE NoProxy(t)
  <2>1. Rest
    BY <1>1, <1>7, AnsweredTyped DEF NoProxy, Answer, TypeOK
  <2> QED
    BY <1>2, <2>1 DEF TypeOK
<1>8. CASE Serialize(t)
  <2>1. CASE /\ call' = [call EXCEPT ![t].at = "serve", ![t].sealed = clientHandler]
             /\ UNCHANGED <<useIPCMutex, lost>>
    <3>1. call' = [call EXCEPT ![t] = [call[t] EXCEPT !.at = "serve", !.sealed = clientHandler]]
      BY <2>1 DEF TypeOK
    <3>2. [call[t] EXCEPT !.at = "serve", !.sealed = clientHandler] \in Call
      BY <1>1 DEF TypeOK, Call, Step
    <3>3. call' \in [Thread -> Call \cup {Idle}]
      BY <3>1, <3>2, Moves
    <3> QED
      BY <1>8, <2>1, <3>3 DEF Serialize, TypeOK
  <2>2. CASE Leave(t, "parcel")
    BY <1>3, <1>8, <2>2 DEF Serialize, Answer, TypeOK
  <2>3. Rest
    BY <1>8, <2>1, <2>2 DEF Serialize, TypeOK
  <2> QED
    BY <1>2, <2>3 DEF TypeOK
<1>9. CASE Deserialize(t)
  <2>1. call[t].answer \in Answer
    BY <1>1, InCall DEF Call
  <2>2. \E answer \in Answer : Leave(t, answer)
    BY <1>9, <2>1 DEF Deserialize, Answer
  <2>3. Rest
    BY <1>3, <1>9, <2>2 DEF Deserialize, TypeOK
  <2> QED
    BY <1>2, <2>3 DEF TypeOK
<1>10. CASE RegisterScIdEnhance(t)
  <2>1. call[t].id \in ScId /\ call[t].entry \in 1..MaxEntry
    <3>1. call[t].id # NoId
      BY <1>10 DEF RegisterScIdEnhance, CallInv, RegisterInv
    <3> QED
      BY <1>1, <3>1, InCall DEF Call
  <2>2. call' \in [Thread -> Call \cup {Idle}]
    BY <1>10, Moves DEF RegisterScIdEnhance
  <2>3. Rest
    BY <1>10, <2>1, <2>2 DEF RegisterScIdEnhance, TypeOK, Handle
  <2> QED
    BY <1>2, <2>3 DEF TypeOK
<1>11. CASE UnregisterScIdEnhance(t)
  <2>1. call[t].answer \in Answer
    BY <1>1, InCall DEF Call
  <2>2. Rest
    BY <1>4, <1>11, <2>1 DEF UnregisterScIdEnhance, TypeOK
  <2> QED
    BY <1>2, <2>2 DEF TypeOK
<1> QED
  BY <1>5, <1>6, <1>7, <1>8, <1>9, <1>10, <1>11

LEMMA ServiceTyped ==
    ASSUME TypeOK,
           \/ \E t \in Thread : ServeStep(t)
           \/ ServiceDies
           \/ EntryDropped
    PROVE  TypeOK'
<1> USE DEF adapterVars, serviceVars, ghostVars
<1>1. ASSUME NEW t \in Thread, ServeRefused(t) \/ ServeOther(t) \/ RequestFails(t)
      PROVE  TypeOK'
  <2>1. call[t] # Idle /\ \E answer \in Answer : Reply(t, answer)
    BY <1>1 DEF ServeRefused, ServeOther, RequestFails, Idle, Answer
  <2>2. call' \in [Thread -> Call \cup {Idle}]
    BY <2>1, ReplyTyped
  <2> QED
    BY <1>1, <2>2 DEF ServeRefused, ServeOther, RequestFails, TypeOK
<1>2. ASSUME NEW t \in Thread, ServeRegister(t)
      PROVE  TypeOK'
  <2>1. scIdStart \in ScId /\ scIdStart' \in 1..(MaxId + 1)
    BY <1>2, CallPathAssumption DEF ServeRegister, TypeOK, ScId
  <2>2. PICK answer \in {"ok", "parcel"} :
          call' = [call EXCEPT ![t].at = "deserialize", ![t].answer = answer,
                               ![t].sealed = FALSE, ![t].id = scIdStart, ![t].entry = entry]
    BY <1>2 DEF ServeRegister
  <2> DEFINE c == [call[t] EXCEPT !.at = "deserialize", !.answer = answer,
                                  !.sealed = FALSE, !.id = scIdStart, !.entry = entry]
  <2>3. call' = [call EXCEPT ![t] = c]
    BY <2>2 DEF TypeOK
  <2>4. call[t] \in Call
    <3>1. call[t] # Idle
      BY <1>2 DEF ServeRegister, Idle
    <3> QED
      BY <3>1, InCall
  <2>5. c \in Call
    BY <2>1, <2>4 DEF TypeOK, Call, Step, Answer
  <2> HIDE DEF c
  <2>6. call' \in [Thread -> Call \cup {Idle}]
    BY <2>3, <2>5, Moves
  <2>7. reused' \subseteq ScId /\ listed' \subseteq ScId
    BY <1>2, <2>1 DEF ServeRegister, TypeOK
  <2> QED
    BY <1>2, <2>1, <2>6, <2>7 DEF ServeRegister, TypeOK
<1>3. ASSUME NEW t \in Thread, ServeUnregister(t)
      PROVE  TypeOK'
  <2>1. call[t] # Idle /\ \E answer \in Answer : Reply(t, answer)
    BY <1>3 DEF ServeUnregister, Idle, Answer
  <2>2. call' \in [Thread -> Call \cup {Idle}]
    BY <2>1, ReplyTyped
  <2> QED
    BY <1>3, <2>2 DEF ServeUnregister, TypeOK
<1>4. CASE ServiceDies
  <2>1. entry' \in 1..MaxEntry /\ service' \in 1..entry' /\ scIdStart' \in 1..(MaxId + 1)
    BY <1>4, CallPathAssumption DEF ServiceDies, TypeOK
  <2> QED
    BY <1>4, <2>1 DEF ServiceDies, TypeOK
<1>5. CASE EntryDropped
  <2>1. entry' \in 1..MaxEntry /\ service' \in 1..entry'
    BY <1>5, CallPathAssumption DEF EntryDropped, TypeOK
  <2> QED
    BY <1>5, <2>1 DEF EntryDropped, TypeOK
<1> QED
  BY <1>1, <1>2, <1>3, <1>4, <1>5 DEF ServeStep

LEMMA NextTyped == TypeOK /\ CallInv /\ [Next]_vars => TypeOK'
<1> SUFFICES ASSUME TypeOK, CallInv, [Next]_vars
             PROVE  TypeOK'
  OBVIOUS
<1>1. CASE UNCHANGED vars
  BY <1>1 DEF vars, adapterVars, serviceVars, ghostVars, TypeOK
<1> QED
  BY <1>1, BeginTyped, AdapterTyped, ClientTyped, ServiceTyped DEF Next, KitStep

LEMMA InitTyped == Init => TypeOK
<1> SUFFICES ASSUME Init
             PROVE  TypeOK
  OBVIOUS
<1>1. library \in BOOLEAN /\ isEnhanceClientHandlerInit \in BOOLEAN /\ clientHandler \in BOOLEAN
  BY Zenon DEF Init
<1>2. call \in [Thread -> Call \cup {Idle}]
  BY DEF Init
<1>3. service \in 1..entry /\ entry \in 1..MaxEntry /\ scIdStart \in 1..(MaxId + 1)
  BY CallPathAssumption DEF Init
<1> QED
  BY <1>1, <1>2, <1>3 DEF Init, TypeOK
-----------------------------------------------------------------------------
(* What a step keeps, by what it does to the call of its thread.           *)

LEMMA IdleAt ==
    ASSUME NEW c \in Call \cup {Idle}
    PROVE  c.at = "idle" <=> c = Idle
BY DEF Call, Step, Idle

\* The call goes on, by the name it has.
LEMMA GoesOn ==
    ASSUME TypeOK, TypeOK', PathInv, NEW t \in Thread,
           call[t].at # "idle", call'[t].at # "idle",
           \A u \in Thread \ {t} : call'[u] = call[u],
           call'[t].kind = call[t].kind,
           call'[t].id = call[t].id,
           call'[t].entry = call[t].entry,
           UNCHANGED <<library, clientHandler, knownIds, held, entry, listed, scIdStart,
                       lost, reused>>,
           call'[t].at \in {"deserialize", "follow"} => call'[t].answer # "none",
           call[t].kind = "register" => RegisterInv(call[t])',
           call[t].kind = "unregister" => UnregisterInv(call[t])'
    PROVE  PathInv'
<1>1. \A u \in Thread : \A id : Names(u, id)' <=> Names(u, id)
  BY DEF Names
<1>2. CallInv'
  <2> SUFFICES ASSUME NEW u \in Thread, call'[u].at # "idle"
               PROVE  /\ call'[u].entry <= entry
                      /\ call'[u].entry = entry /\ call'[u].id # NoId => call'[u].id < scIdStart
                      /\ call'[u].at \in {"deserialize", "follow"} => call'[u].answer # "none"
                      /\ call'[u].kind = "register" => RegisterInv(call[u])'
                      /\ call'[u].kind = "unregister" => UnregisterInv(call[u])'
    BY DEF CallInv
  <2>1. CASE u = t
    BY <2>1 DEF PathInv, CallInv
  <2>2. CASE u # t
    BY <2>2 DEF PathInv, CallInv, RegisterInv, UnregisterInv
  <2> QED
    BY <2>1, <2>2
<1>3. HeldInv'
  BY DEF PathInv, HeldInv
<1>4. OwnerInv'
  <2>1. \A u \in Thread : call'[u].entry = call[u].entry
    OBVIOUS
  <2> QED
    BY <1>1, <2>1 DEF PathInv, OwnerInv
<1>5. AccountInv'
  BY <1>1 DEF PathInv, AccountInv
<1>6. HeldIsListedAndKnown'
  BY DEF PathInv, HeldIsListedAndKnown
<1> QED
  BY <1>2, <1>3, <1>4, <1>5, <1>6 DEF PathInv

\* The call returns; what it leaves in the list is noted as lost.
LEMMA Returns ==
    ASSUME TypeOK, TypeOK', PathInv, NEW t \in Thread,
           call'[t].at = "idle",
           \A u \in Thread \ {t} : call'[u] = call[u],
           UNCHANGED <<library, clientHandler, held, entry, listed, scIdStart, reused>>,
           knownIds' = knownIds \/ (Names(t, call[t].id) /\ knownIds' = knownIds \ {call[t].id}),
           lost \subseteq lost',
           \A id \in listed : Names(t, id) /\ call[t].entry = entry => id \in lost'
    PROVE  PathInv'
<1>1. \A u \in Thread \ {t} : \A id : Names(u, id)' <=> Names(u, id)
  BY DEF Names
<1>2. \A id : ~Names(t, id)'
  BY DEF Names
<1>3. CallInv'
  BY DEF PathInv, CallInv, RegisterInv, UnregisterInv
<1>4. HeldInv'
  BY DEF PathInv, HeldInv
<1>5. OwnerInv'
  BY <1>1, <1>2 DEF PathInv, OwnerInv
<1>6. AccountInv'
  BY <1>1 DEF PathInv, AccountInv
<1>7. HeldIsListedAndKnown'
  <2> SUFFICES ASSUME NEW h \in held, h.entry = entry, h.id \notin reused
               PROVE  h.id \in listed /\ (library => h.id \in knownIds')
    BY DEF HeldIsListedAndKnown
  <2>1. h.id \in listed /\ (library => h.id \in knownIds)
    BY DEF PathInv, HeldIsListedAndKnown
  <2>2. ~Names(t, h.id)
    BY DEF PathInv, OwnerInv
  <2> QED
    BY <2>1, <2>2
<1> QED
  BY <1>3, <1>4, <1>5, <1>6, <1>7 DEF PathInv

-----------------------------------------------------------------------------
(* The steps, one by one.                                                  *)

LEMMA AnsweredKept ==
    ASSUME TypeOK, TypeOK', PathInv, NEW t \in Thread, call[t].at # "idle",
           NEW answer \in Answer \ {"none"}, Answered(t, answer),
           UNCHANGED <<library, clientHandler, knownIds, held, entry, listed, scIdStart,
                       reused>>,
           call[t].kind = "register" =>
              /\ answer = "ok" => call[t].id # NoId /\ clientHandler = library
              /\ answer = "refused" => call[t].id = NoId,
           call[t].kind = "unregister" /\ answer \in {"ok", "refused"} /\ call[t].entry = entry
              => call[t].id \notin listed
    PROVE  PathInv'
<1>1. call[t] \in Call
  <2>1. call[t] # Idle
    BY DEF Idle
  <2> QED
    BY <2>1, InCall
<1>2. CASE call[t].kind = "unregister" \/ (call[t].kind = "register" /\ answer = "ok")
  <2>1. call' = [call EXCEPT ![t] = [call[t] EXCEPT !.at = "follow", !.answer = answer]]
        /\ UNCHANGED lost
    BY <1>1, <1>2 DEF Answered, TypeOK, Call
  <2>2. /\ call'[t] = [call[t] EXCEPT !.at = "follow", !.answer = answer]
        /\ \A u \in Thread \ {t} : call'[u] = call[u]
    BY <2>1 DEF TypeOK
  <2>3. /\ call'[t].at = "follow" /\ call'[t].answer = answer /\ call'[t].kind = call[t].kind
        /\ call'[t].id = call[t].id /\ call'[t].entry = call[t].entry
    BY <1>1, <2>2 DEF Call
  <2>4. call[t].kind = "register" => RegisterInv(call[t])'
    BY <1>2, <2>1, <2>3 DEF PathInv, CallInv, RegisterInv
  <2>5. call[t].kind = "unregister" => UnregisterInv(call[t])'
    BY <2>3 DEF PathInv, CallInv, UnregisterInv
  <2> QED
    BY <2>1, <2>2, <2>3, <2>4, <2>5, GoesOn
<1>3. CASE ~(call[t].kind = "unregister" \/ (call[t].kind = "register" /\ answer = "ok"))
  <2>1. Return(t, answer)
    BY <1>3 DEF Answered
  <2>2. call'[t].at = "idle" /\ \A u \in Thread \ {t} : call'[u] = call[u]
    BY <2>1 DEF Return, TypeOK, Idle
  <2>3. lost \subseteq lost'
    BY <2>1 DEF Return
  <2>4. \A id \in listed : Names(t, id) /\ call[t].entry = entry => id \in lost'
    <3> SUFFICES ASSUME NEW id \in listed, Names(t, id), call[t].entry = entry
                 PROVE  id \in lost'
      OBVIOUS
    <3>1. id # NoId
      BY DEF TypeOK, ScId, NoId
    <3>2. answer \in {"parcel", "dead"}
      BY <1>3, <3>1 DEF Names, Followed, Answer
    <3>3. id \in Orphan(t)
      BY DEF Orphan, Names
    <3> QED
      BY <2>1, <3>2, <3>3 DEF Return
  <2> QED
    BY <2>2, <2>3, <2>4, Returns
<1> QED
  BY <1>2, <1>3

LEMMA AdapterKept ==
    ASSUME TypeOK, TypeOK', PathInv, NEW t \in Thread, AdapterStep(t) \/ SeesNoHandler(t)
    PROVE  PathInv'
<1>1. UNCHANGED <<library, knownIds, call, held, entry, listed, scIdStart, lost, reused>>
  BY DEF AdapterStep, InitEnhanceHandler, SetClientHandler, SeesNoHandler, serviceVars, ghostVars
<1>2. clientHandler' = clientHandler \/ clientHandler' = library
  BY DEF AdapterStep, InitEnhanceHandler, SetClientHandler, SeesNoHandler
<1>3. CallInv'
  BY <1>1, <1>2 DEF PathInv, CallInv, RegisterInv, UnregisterInv
<1>4. HeldInv' /\ HeldIsListedAndKnown'
  BY <1>1 DEF PathInv, HeldInv, HeldIsListedAndKnown
<1>5. OwnerInv' /\ AccountInv'
  BY <1>1 DEF PathInv, OwnerInv, AccountInv, Names
<1> QED
  BY <1>3, <1>4, <1>5 DEF PathInv

LEMMA PreprocessKept ==
    ASSUME TypeOK, TypeOK', PathInv, NEW t \in Thread, EnhanceDataPreprocess(t)
    PROVE  PathInv'
<1> USE DEF adapterVars, serviceVars
<1>1. UNCHANGED <<library, clientHandler, knownIds, held, entry, listed, scIdStart, reused>>
  BY DEF EnhanceDataPreprocess
<1>2. call[t] \in Call /\ call[t].at = "preprocess"
  <2>1. call[t].at = "preprocess" /\ call[t] # Idle
    BY DEF EnhanceDataPreprocess, Idle
  <2> QED
    BY <2>1, InCall
<1>3. CASE call' = [call EXCEPT ![t].at = "lock"] /\ UNCHANGED lost
  <2>1. /\ call'[t] = [call[t] EXCEPT !.at = "lock"]
        /\ \A u \in Thread \ {t} : call'[u] = call[u]
    BY <1>3 DEF TypeOK
  <2>2. /\ call'[t].at = "lock" /\ call'[t].answer = call[t].answer
        /\ call'[t].kind = call[t].kind
        /\ call'[t].id = call[t].id /\ call'[t].entry = call[t].entry
    BY <1>2, <2>1 DEF Call
  <2>3. /\ call[t].kind = "register" => RegisterInv(call[t])'
        /\ call[t].kind = "unregister" => UnregisterInv(call[t])'
    BY <1>1, <1>2, <2>2 DEF PathInv, CallInv, RegisterInv, UnregisterInv
  <2> QED
    BY <1>1, <1>2, <1>3, <2>1, <2>2, <2>3, GoesOn
<1>4. CASE Return(t, "refused")
  <2>1. call'[t].at = "idle" /\ \A u \in Thread \ {t} : call'[u] = call[u]
    BY <1>4 DEF Return, TypeOK, Idle
  <2>2. \A id \in listed : ~Names(t, id)
    BY <1>2 DEF PathInv, CallInv, RegisterInv, UnregisterInv, Names, Followed,
               TypeOK, ScId, NoId
  <2> QED
    BY <1>1, <1>2, <1>4, <2>1, <2>2, Returns DEF Return
<1> QED
  BY <1>3, <1>4 DEF EnhanceDataPreprocess

LEMMA SendKept ==
    ASSUME TypeOK, TypeOK', PathInv, NEW t \in Thread,
           LockIPC(t) \/ NoProxy(t) \/ Serialize(t)
    PROVE  PathInv'
<1> USE DEF adapterVars, serviceVars, ghostVars
<1>1. /\ UNCHANGED <<library, clientHandler, knownIds, held, entry, listed, scIdStart, reused>>
      /\ call[t].at \in {"lock", "serialize"}
  BY DEF LockIPC, NoProxy, Serialize
<1>2. call[t] \in Call /\ call[t].at # "idle"
  <2>1. call[t] # Idle
    BY <1>1 DEF Idle
  <2> QED
    BY <1>1, <2>1, InCall
<1>3. call[t].kind = "register" => call[t].id = NoId
  BY <1>1 DEF PathInv, CallInv, RegisterInv
<1>4. ASSUME NEW answer \in {"parcel", "dead"}, Answered(t, answer)
      PROVE  PathInv'
  BY <1>1, <1>2, <1>4, AnsweredKept DEF Answer
<1>5. ASSUME NEW at \in {"serialize", "serve"}, UNCHANGED lost,
             \E c \in Call : /\ call' = [call EXCEPT ![t] = c]
                             /\ c.at = at /\ c.answer = call[t].answer /\ c.kind = call[t].kind
                             /\ c.id = call[t].id /\ c.entry = call[t].entry
      PROVE  PathInv'
  <2>1. /\ call'[t].at = at /\ call'[t].answer = call[t].answer /\ call'[t].kind = call[t].kind
        /\ call'[t].id = call[t].id /\ call'[t].entry = call[t].entry
        /\ \A u \in Thread \ {t} : call'[u] = call[u]
    BY <1>5 DEF TypeOK
  <2>2. /\ call[t].kind = "register" => RegisterInv(call[t])'
        /\ call[t].kind = "unregister" => UnregisterInv(call[t])'
    BY <1>1, <1>2, <1>3, <2>1 DEF PathInv, CallInv, RegisterInv, UnregisterInv
  <2> QED
    BY <1>1, <1>2, <1>5, <2>1, <2>2, GoesOn
<1>6. CASE LockIPC(t)
  <2> DEFINE c == [call[t] EXCEPT !.at = "serialize", !.proxy = service]
  <2>1. service \in 1..MaxEntry
    BY CallPathAssumption DEF TypeOK
  <2>2. /\ c \in Call
        /\ c.at = "serialize" /\ c.answer = call[t].answer /\ c.kind = call[t].kind
        /\ c.id = call[t].id /\ c.entry = call[t].entry
    BY <1>2, <2>1 DEF Call, Step
  <2>3. call' = [call EXCEPT ![t] = c] /\ UNCHANGED lost
    BY <1>6 DEF LockIPC, TypeOK
  <2> HIDE DEF c
  <2> QED
    BY <1>5, <2>2, <2>3
<1>7. CASE NoProxy(t)
  BY <1>4, <1>7 DEF NoProxy
<1>8. CASE Serialize(t)
  <2> DEFINE c == [call[t] EXCEPT !.at = "serve", !.sealed = clientHandler]
  <2>1. /\ c \in Call
        /\ c.at = "serve" /\ c.answer = call[t].answer /\ c.kind = call[t].kind
        /\ c.id = call[t].id /\ c.entry = call[t].entry
    BY <1>2 DEF TypeOK, Call, Step
  <2>2. CASE call' = [call EXCEPT ![t].at = "serve", ![t].sealed = clientHandler]
             /\ UNCHANGED lost
    <3>1. call' = [call EXCEPT ![t] = c]
      BY <2>2 DEF TypeOK
    <3> HIDE DEF c
    <3> QED
      BY <1>5, <2>1, <2>2, <3>1
  <2>3. CASE Leave(t, "parcel")
    BY <1>4, <2>3 DEF Leave
  <2> QED
    BY <1>8, <2>2, <2>3 DEF Serialize
<1> QED
  BY <1>6, <1>7, <1>8

LEMMA DeserializeKept ==
    ASSUME TypeOK, TypeOK', PathInv, NEW t \in Thread, Deserialize(t)
    PROVE  PathInv'
<1> USE DEF adapterVars, serviceVars
<1>1. /\ UNCHANGED <<library, clientHandler, knownIds, held, entry, listed, scIdStart, reused>>
      /\ call[t].at = "deserialize"
  BY DEF Deserialize
<1>2. call[t] \in Call /\ call[t].at # "idle"
  <2>1. call[t] # Idle
    BY <1>1 DEF Idle
  <2> QED
    BY <1>1, <2>1, InCall
<1>3. PICK answer \in Answer \ {"none"} :
         /\ Answered(t, answer)
         /\ answer \in {"ok", "refused"} => answer = call[t].answer /\ clientHandler = library
  <2>1. call[t].answer \in Answer \ {"none"}
    BY <1>1, <1>2 DEF Call, PathInv, CallInv
  <2>2. CASE clientHandler = library /\ Leave(t, call[t].answer)
    BY <2>1, <2>2 DEF Leave
  <2>3. CASE Leave(t, "dead") \/ Leave(t, "parcel")
    BY <2>3 DEF Leave, Answer
  <2> QED
    BY <2>2, <2>3 DEF Deserialize
<1>4. call[t].kind = "register" =>
         /\ answer = "ok" => call[t].id # NoId /\ clientHandler = library
         /\ answer = "refused" => call[t].id = NoId
  BY <1>2, <1>3 DEF PathInv, CallInv, RegisterInv
<1>5. call[t].kind = "unregister" /\ answer \in {"ok", "refused"} /\ call[t].entry = entry
         => call[t].id \notin listed
  BY <1>1, <1>2, <1>3 DEF PathInv, CallInv, UnregisterInv
<1> QED
  BY <1>1, <1>2, <1>3, <1>4, <1>5, AnsweredKept

LEMMA UnregisterFollowKept ==
    ASSUME TypeOK, TypeOK', PathInv, NEW t \in Thread, UnregisterScIdEnhance(t)
    PROVE  PathInv'
<1> USE DEF adapterVars, serviceVars
<1>1. /\ UNCHANGED <<library, clientHandler, held, entry, listed, scIdStart, reused>>
      /\ call[t].at = "follow" /\ call[t].kind = "unregister"
      /\ Return(t, call[t].answer)
  BY DEF UnregisterScIdEnhance
<1>2. Names(t, call[t].id)
  BY <1>1 DEF Names, Followed
<1>3. knownIds' = knownIds \/ knownIds' = knownIds \ {call[t].id}
  BY DEF UnregisterScIdEnhance
<1>4. call'[t].at = "idle" /\ \A u \in Thread \ {t} : call'[u] = call[u]
  BY <1>1 DEF Return, TypeOK, Idle
<1>5. \A id \in listed : Names(t, id) /\ call[t].entry = entry => id \in lost'
  <2> SUFFICES ASSUME NEW id \in listed, Names(t, id), call[t].entry = entry
               PROVE  id \in lost'
    OBVIOUS
  <2>1. call[t] \in Call
    <3>1. call[t] # Idle
      BY <1>1 DEF Idle
    <3> QED
      BY <3>1, InCall
  <2>2. call[t].answer \notin {"none", "ok", "refused"}
    BY <1>1 DEF Names, PathInv, CallInv, UnregisterInv
  <2>3. call[t].answer \in {"parcel", "dead"}
    BY <2>1, <2>2 DEF Call, Answer
  <2>4. id \in Orphan(t)
    BY DEF Orphan, Names
  <2> QED
    BY <1>1, <2>3, <2>4 DEF Return
<1>6. lost \subseteq lost'
  BY <1>1 DEF Return
<1> QED
  BY <1>1, <1>2, <1>3, <1>4, <1>5, <1>6, Returns

LEMMA RegisterFollowKept ==
    ASSUME TypeOK, TypeOK', PathInv, NEW t \in Thread, RegisterScIdEnhance(t)
    PROVE  PathInv'
<1> USE DEF adapterVars, serviceVars, ghostVars
<1> DEFINE new == [id |-> call[t].id, entry |-> call[t].entry]
<1>1. /\ UNCHANGED <<library, clientHandler, entry, listed, scIdStart, lost, reused>>
      /\ call[t].at = "follow" /\ call[t].kind = "register"
      /\ knownIds' = IF clientHandler THEN knownIds \cup {call[t].id} ELSE knownIds
      /\ held' = held \cup {new}
  BY DEF RegisterScIdEnhance
<1>2. call'[t].at = "idle" /\ \A u \in Thread \ {t} : call'[u] = call[u]
  BY DEF RegisterScIdEnhance, TypeOK, Idle
<1>3. /\ call[t].id # NoId
      /\ clientHandler = library
      /\ call[t].entry <= entry
      /\ call[t].entry = entry => call[t].id < scIdStart
      /\ call[t].entry = entry /\ call[t].id \notin reused => call[t].id \in listed
  BY <1>1 DEF PathInv, CallInv, RegisterInv
<1>4. new.id = call[t].id /\ new.entry = call[t].entry
  OBVIOUS
<1>5. call[t].id \in ScId
  <2>1. call[t] # Idle
    BY <1>1 DEF Idle
  <2> QED
    BY <1>3, <2>1, InCall DEF Call
<1>6. Names(t, call[t].id)
  BY <1>1 DEF Names, Followed
<1>7. \A u \in Thread : \A id : Names(u, id)' => u # t /\ Names(u, id)
  BY <1>2 DEF Names
<1> HIDE DEF new
<1>8. CallInv'
  BY <1>1, <1>2 DEF PathInv, CallInv, RegisterInv, UnregisterInv
<1>9. HeldInv'
  BY <1>1, <1>3, <1>4 DEF PathInv, HeldInv
<1>10. \A h \in held : h.id = new.id /\ (h.entry = entry \/ new.entry = entry)
          => h.id \in reused
  BY <1>4, <1>6 DEF PathInv, OwnerInv
<1>11. ASSUME NEW u \in Thread, NEW id \in ScId, id = new.id, Names(u, id)',
              call'[u].entry = entry \/ new.entry = entry
       PROVE  id \in reused
  <2>1. u # t /\ Names(u, id) /\ call'[u] = call[u]
    BY <1>2, <1>7, <1>11
  <2> QED
    BY <1>4, <1>5, <1>6, <1>11, <2>1 DEF PathInv, OwnerInv
<1>12. OwnerInv'
  <2>1. \A h, g \in held' : h # g /\ h.id = g.id /\ h.entry = entry => h.id \in reused
    BY <1>1, <1>10 DEF PathInv, OwnerInv
  <2>2. ASSUME NEW h \in held', NEW u \in Thread, Names(u, h.id)',
               h.entry = entry \/ call'[u].entry = entry
        PROVE  h.id \in reused
    <3>1. CASE h = new
      BY <1>4, <1>5, <1>11, <2>2, <3>1
    <3>2. CASE h \in held
      BY <1>2, <1>7, <2>2, <3>2 DEF PathInv, OwnerInv
    <3> QED
      BY <1>1, <3>1, <3>2
  <2>3. \A v, u \in Thread : \A id \in ScId :
           v # u /\ Names(v, id)' /\ Names(u, id)' /\ call'[v].entry = entry => id \in reused
    BY <1>2, <1>7 DEF PathInv, OwnerInv
  <2> QED
    BY <1>1, <2>1, <2>2, <2>3 DEF OwnerInv
<1>13. AccountInv'
  <2> SUFFICES ASSUME NEW id \in listed
               PROVE  \/ [id |-> id, entry |-> entry] \in held'
                      \/ \E u \in Thread : Names(u, id)' /\ call'[u].entry = entry
                      \/ id \in lost
    BY <1>1 DEF AccountInv
  <2>1. CASE Names(t, id) /\ call[t].entry = entry
    BY <1>1, <2>1 DEF Names, new
  <2>2. CASE \E u \in Thread \ {t} : Names(u, id) /\ call[u].entry = entry
    BY <1>2, <2>2 DEF Names
  <2> QED
    BY <1>1, <2>1, <2>2 DEF PathInv, AccountInv
<1>14. HeldIsListedAndKnown'
  <2> SUFFICES ASSUME NEW h \in held', h.entry = entry, h.id \notin reused
               PROVE  h.id \in listed /\ (library => h.id \in knownIds')
    BY <1>1 DEF HeldIsListedAndKnown
  <2>1. CASE h = new
    BY <1>1, <1>3, <1>4, <2>1
  <2>2. CASE h \in held
    BY <1>1, <2>2 DEF PathInv, HeldIsListedAndKnown
  <2> QED
    BY <1>1, <2>1, <2>2
<1> QED
  BY <1>8, <1>9, <1>12, <1>13, <1>14 DEF PathInv

LEMMA BeginKept ==
    ASSUME TypeOK, TypeOK', PathInv, NEW t \in Thread, NEW kind \in Kind, Begin(t, kind)
    PROVE  PathInv'
<1> USE DEF adapterVars, serviceVars, ghostVars
<1>1. /\ UNCHANGED <<library, clientHandler, knownIds, entry, listed, scIdStart, lost, reused>>
      /\ call[t] = Idle /\ entry \in 1..MaxEntry
  BY DEF Begin, TypeOK
<1>2. \A id : ~Names(t, id)
  BY <1>1 DEF Names, Idle
<1>3. ASSUME NEW id \in ScId \cup {NoId}, NEW n \in 1..MaxEntry,
             call' = [call EXCEPT ![t] =
                        [at |-> IF kind \in Preprocessed THEN "preprocess" ELSE "lock",
                         kind |-> kind, id |-> id, entry |-> n, proxy |-> 1,
                         sealed |-> FALSE, answer |-> "none"]]
      PROVE  /\ call'[t].at = IF kind \in Preprocessed THEN "preprocess" ELSE "lock"
             /\ call'[t].kind = kind /\ call'[t].id = id /\ call'[t].entry = n
             /\ call'[t].answer = "none"
             /\ \A u \in Thread \ {t} : call'[u] = call[u]
  BY <1>3 DEF TypeOK
<1>4. CASE kind \in {"register", "preRegister"}
  <2>1. UNCHANGED held
    BY <1>4 DEF Begin
  <2>2. /\ call'[t].at \in {"preprocess", "lock"}
        /\ call'[t].kind = kind /\ call'[t].id = NoId /\ call'[t].entry = 1
        /\ call'[t].answer = "none"
        /\ \A u \in Thread \ {t} : call'[u] = call[u]
    BY <1>3, <1>4, CallPathAssumption DEF Begin
  <2>3. \A u \in Thread : \A id \in ScId : Names(u, id)' <=> u # t /\ Names(u, id)
    BY <1>2, <2>2 DEF Names, ScId, NoId
  <2>4. CallInv'
    BY <1>1, <1>4, <2>2 DEF PathInv, CallInv, RegisterInv, UnregisterInv
  <2>5. HeldInv' /\ HeldIsListedAndKnown'
    BY <1>1, <2>1 DEF PathInv, HeldInv, HeldIsListedAndKnown
  <2>6. held \subseteq Handle /\ listed \subseteq ScId
    BY DEF TypeOK
  <2>7. OwnerInv'
    BY <1>1, <2>1, <2>2, <2>3, <2>6 DEF PathInv, OwnerInv, Handle
  <2>8. AccountInv'
    BY <1>1, <1>2, <2>1, <2>2, <2>3, <2>6 DEF PathInv, AccountInv
  <2> QED
    BY <2>4, <2>5, <2>7, <2>8 DEF PathInv
<1>5. CASE kind \in {"use", "unregister"}
  <2>1. PICK h \in held :
          /\ call' = [call EXCEPT ![t] =
                        [at |-> IF kind \in Preprocessed THEN "preprocess" ELSE "lock",
                         kind |-> kind, id |-> h.id, entry |-> h.entry, proxy |-> 1,
                         sealed |-> FALSE, answer |-> "none"]]
          /\ held' = IF kind = "unregister" THEN held \ {h} ELSE held
    BY <1>5 DEF Begin
  <2>2. h.id \in ScId /\ h.entry \in 1..MaxEntry /\ h = [id |-> h.id, entry |-> h.entry]
    BY DEF TypeOK, Handle
  <2>3. /\ call'[t].at = IF kind \in Preprocessed THEN "preprocess" ELSE "lock"
        /\ call'[t].kind = kind /\ call'[t].id = h.id /\ call'[t].entry = h.entry
        /\ call'[t].answer = "none"
        /\ \A u \in Thread \ {t} : call'[u] = call[u]
    BY <1>3, <2>1, <2>2
  <2>4. \A u \in Thread \ {t} : \A id : Names(u, id)' <=> Names(u, id)
    BY <2>3 DEF Names
  <2>5. \A id : Names(t, id)' <=> kind = "unregister" /\ id = h.id
    BY <1>5, <2>3 DEF Names, Followed, Preprocessed
  <2>6. held' \subseteq held
    BY <2>1
  <2>7. h.entry <= entry /\ (h.entry = entry => h.id < scIdStart) /\ h.id # NoId
    BY <2>2 DEF PathInv, HeldInv, ScId, NoId
  <2>8. CallInv'
    BY <1>1, <1>5, <2>3, <2>7 DEF PathInv, CallInv, RegisterInv, UnregisterInv, Preprocessed
  <2>9. HeldInv' /\ HeldIsListedAndKnown'
    BY <1>1, <2>6 DEF PathInv, HeldInv, HeldIsListedAndKnown
  <2>10. OwnerInv'
    <3>1. \A f, g \in held' : f # g /\ f.id = g.id /\ f.entry = entry => f.id \in reused
      BY <2>6 DEF PathInv, OwnerInv
    <3>2. ASSUME NEW g \in held', NEW u \in Thread, Names(u, g.id)',
                 g.entry = entry \/ call'[u].entry = entry
          PROVE  g.id \in reused
      <4>1. CASE u = t
        BY <2>1, <2>3, <2>5, <3>2, <4>1 DEF PathInv, OwnerInv
      <4>2. CASE u # t
        BY <2>3, <2>4, <2>6, <3>2, <4>2 DEF PathInv, OwnerInv
      <4> QED
        BY <4>1, <4>2
    <3>3. ASSUME NEW v \in Thread, NEW u \in Thread, NEW id \in ScId,
                 v # u, Names(v, id)', Names(u, id)', call'[v].entry = entry
          PROVE  id \in reused
      <4>1. CASE v = t
        BY <2>3, <2>4, <2>5, <3>3, <4>1 DEF PathInv, OwnerInv
      <4>2. CASE u = t
        BY <2>3, <2>4, <2>5, <3>3, <4>2 DEF PathInv, OwnerInv
      <4>3. CASE v # t /\ u # t
        BY <2>3, <2>4, <3>3, <4>3 DEF PathInv, OwnerInv
      <4> QED
        BY <4>1, <4>2, <4>3
    <3> QED
      BY <1>1, <3>1, <3>2, <3>3 DEF OwnerInv
  <2>11. AccountInv'
    <3> SUFFICES ASSUME NEW id \in listed
                 PROVE  \/ [id |-> id, entry |-> entry] \in held'
                        \/ \E u \in Thread : Names(u, id)' /\ call'[u].entry = entry
                        \/ id \in lost
      BY <1>1 DEF AccountInv
    <3>1. CASE [id |-> id, entry |-> entry] \in held
      BY <2>1, <2>3, <2>5, <3>1
    <3>2. CASE \E u \in Thread : Names(u, id) /\ call[u].entry = entry
      BY <1>2, <2>3, <2>4, <3>2
    <3> QED
      BY <3>1, <3>2 DEF PathInv, AccountInv
  <2> QED
    BY <2>8, <2>9, <2>10, <2>11 DEF PathInv
<1> QED
  BY <1>4, <1>5 DEF Kind

LEMMA ReplyKept ==
    ASSUME TypeOK, TypeOK', PathInv, NEW t \in Thread,
           ServeRefused(t) \/ ServeOther(t) \/ RequestFails(t)
    PROVE  PathInv'
<1> USE DEF adapterVars, serviceVars, ghostVars
<1>1. /\ UNCHANGED <<library, clientHandler, knownIds, held, entry, listed, scIdStart, lost,
                     reused>>
      /\ call[t].at = "serve"
  BY DEF ServeRefused, ServeOther, RequestFails
<1>2. call[t] \in Call /\ call[t].at # "idle"
  <2>1. call[t] # Idle
    BY <1>1 DEF Idle
  <2> QED
    BY <1>1, <2>1, InCall
<1>3. PICK answer \in {"ok", "parcel", "refused", "dead"} :
         /\ Reply(t, answer)
         /\ answer = "ok" => call[t].kind \notin Followed
         /\ answer = "refused" => (call[t].kind = "unregister" => call[t].id \notin listed)
  <2>1. CASE ServeRefused(t)
    BY <2>1 DEF ServeRefused
  <2>2. CASE ServeOther(t)
    BY <2>2 DEF ServeOther
  <2>3. CASE RequestFails(t)
    BY <2>3 DEF RequestFails
  <2> QED
    BY <2>1, <2>2, <2>3
<1>4. call' = [call EXCEPT ![t] = [call[t] EXCEPT !.at = "deserialize", !.answer = answer,
                                                  !.sealed = FALSE]]
  BY <1>2, <1>3 DEF Reply, TypeOK, Call
<1>5. /\ call'[t] = [call[t] EXCEPT !.at = "deserialize", !.answer = answer, !.sealed = FALSE]
      /\ \A u \in Thread \ {t} : call'[u] = call[u]
  BY <1>4 DEF TypeOK
<1>6. /\ call'[t].at = "deserialize" /\ call'[t].answer = answer
      /\ call'[t].kind = call[t].kind /\ call'[t].id = call[t].id
      /\ call'[t].entry = call[t].entry
  BY <1>2, <1>5 DEF Call
<1>7. /\ call[t].kind = "register" => RegisterInv(call[t])'
      /\ call[t].kind = "unregister" => UnregisterInv(call[t])'
  BY <1>1, <1>2, <1>3, <1>6 DEF PathInv, CallInv, RegisterInv, UnregisterInv, Followed
<1> QED
  BY <1>1, <1>2, <1>5, <1>6, <1>7, GoesOn

LEMMA ServeUnregisterKept ==
    ASSUME TypeOK, TypeOK', PathInv, NEW t \in Thread, ServeUnregister(t)
    PROVE  PathInv'
<1> USE DEF adapterVars, serviceVars, ghostVars
<1>1. /\ UNCHANGED <<library, clientHandler, knownIds, held, entry, scIdStart, lost, reused>>
      /\ call[t].at = "serve" /\ call[t].kind = "unregister"
      /\ listed' = listed \ {call[t].id}
  BY DEF ServeUnregister
<1>2. call[t] \in Call /\ call[t].at # "idle"
  <2>1. call[t] # Idle
    BY <1>1 DEF Idle
  <2> QED
    BY <1>1, <2>1, InCall
<1>3. PICK answer \in {"ok", "parcel"} : Reply(t, answer)
  BY DEF ServeUnregister
<1>4. call' = [call EXCEPT ![t] = [call[t] EXCEPT !.at = "deserialize", !.answer = answer,
                                                  !.sealed = FALSE]]
  BY <1>2, <1>3 DEF Reply, TypeOK, Call
<1>5. /\ call'[t] = [call[t] EXCEPT !.at = "deserialize", !.answer = answer, !.sealed = FALSE]
      /\ \A u \in Thread \ {t} : call'[u] = call[u]
  BY <1>4 DEF TypeOK
<1>6. /\ call'[t].at = "deserialize" /\ call'[t].answer = answer
      /\ call'[t].kind = call[t].kind /\ call'[t].id = call[t].id
      /\ call'[t].entry = call[t].entry
  BY <1>2, <1>5 DEF Call
<1>7. \A u \in Thread : \A id : Names(u, id)' <=> Names(u, id)
  BY <1>1, <1>5, <1>6 DEF Names
<1>8. Names(t, call[t].id)
  BY <1>1 DEF Names, Followed
<1>9. \A u \in Thread \ {t} :
         call[u].at # "idle" /\ call[u].kind = "register" /\ call[u].id = call[t].id
         /\ call[u].id # NoId /\ call[u].entry = entry => call[u].id \in reused
  <2> SUFFICES ASSUME NEW u \in Thread \ {t}, call[u].at # "idle", call[u].kind = "register",
                      call[u].id = call[t].id, call[u].id # NoId, call[u].entry = entry
               PROVE  call[u].id \in reused
    OBVIOUS
  <2>1. Names(u, call[t].id)
    BY DEF Names, Followed
  <2>2. call[t].id \in ScId
    BY <1>2 DEF Call
  <2> QED
    BY <1>8, <2>1, <2>2 DEF PathInv, OwnerInv
<1>10. CallInv'
  <2> SUFFICES ASSUME NEW u \in Thread, call'[u].at # "idle"
               PROVE  /\ call'[u].entry <= entry
                      /\ call'[u].entry = entry /\ call'[u].id # NoId => call'[u].id < scIdStart
                      /\ call'[u].at \in {"deserialize", "follow"} => call'[u].answer # "none"
                      /\ call'[u].kind = "register" => RegisterInv(call[u])'
                      /\ call'[u].kind = "unregister" => UnregisterInv(call[u])'
    BY <1>1 DEF CallInv
  <2>1. CASE u = t
    BY <1>1, <1>2, <1>6, <2>1 DEF PathInv, CallInv, UnregisterInv
  <2>2. CASE u # t
    BY <1>1, <1>5, <1>9, <2>2 DEF PathInv, CallInv, RegisterInv, UnregisterInv
  <2> QED
    BY <2>1, <2>2
<1>11. HeldInv'
  BY <1>1 DEF PathInv, HeldInv
<1>12. OwnerInv'
  <2>1. \A u \in Thread : call'[u].entry = call[u].entry
    BY <1>5, <1>6
  <2> QED
    BY <1>1, <1>7, <2>1 DEF PathInv, OwnerInv
<1>13. AccountInv'
  <2>1. \A u \in Thread : call'[u].entry = call[u].entry
    BY <1>5, <1>6
  <2> QED
    BY <1>1, <1>7, <2>1 DEF PathInv, AccountInv
<1>14. HeldIsListedAndKnown'
  BY <1>1, <1>8 DEF PathInv, HeldIsListedAndKnown, OwnerInv
<1> QED
  BY <1>10, <1>11, <1>12, <1>13, <1>14 DEF PathInv

LEMMA ServeRegisterKept ==
    ASSUME TypeOK, TypeOK', PathInv, NEW t \in Thread, ServeRegister(t)
    PROVE  PathInv'
<1> USE DEF adapterVars
<1>1. /\ UNCHANGED <<library, clientHandler, knownIds, held, entry, lost>>
      /\ call[t].at = "serve" /\ call[t].kind = "register"
      /\ listed' = listed \cup {scIdStart}
      /\ scIdStart' = scIdStart + 1
      /\ reused \subseteq reused'
      /\ Called(scIdStart) => scIdStart \in reused'
      /\ scIdStart \in Nat \ {0}
  BY CallPathAssumption DEF ServeRegister, TypeOK
<1>2. call[t] \in Call /\ call[t].at # "idle"
  <2>1. call[t] # Idle
    BY <1>1 DEF Idle
  <2> QED
    BY <1>1, <2>1, InCall
<1>3. PICK answer \in {"ok", "parcel"} :
         call' = [call EXCEPT ![t].at = "deserialize", ![t].answer = answer,
                              ![t].sealed = FALSE, ![t].id = scIdStart, ![t].entry = entry]
  BY DEF ServeRegister
<1>4. /\ call'[t] = [call[t] EXCEPT !.at = "deserialize", !.answer = answer,
                                    !.sealed = FALSE, !.id = scIdStart, !.entry = entry]
      /\ \A u \in Thread \ {t} : call'[u] = call[u]
  BY <1>3 DEF TypeOK
<1>5. /\ call'[t].at = "deserialize" /\ call'[t].answer = answer
      /\ call'[t].kind = "register" /\ call'[t].id = scIdStart
      /\ call'[t].entry = entry
  BY <1>1, <1>2, <1>4 DEF Call
<1>6. /\ \A u \in Thread \ {t} : \A id : Names(u, id)' <=> Names(u, id)
      /\ \A id : Names(t, id)' <=> id = scIdStart
  BY <1>4, <1>5 DEF Names, Followed
<1>7. \A id \in ScId : ~Names(t, id)
  BY <1>1 DEF PathInv, CallInv, RegisterInv, Names, ScId, NoId
<1>8. \A u \in Thread : call[u].at # "idle" /\ call[u].id = scIdStart => scIdStart \in reused'
  <2>1. \A u \in Thread : call[u].at # "idle" => call[u] # Idle
    BY DEF Idle
  <2> QED
    BY <1>1, <2>1 DEF Called
<1>9. \A h \in held : h.id = scIdStart => scIdStart \in reused'
  BY <1>1 DEF Called
<1>10. entry \in Nat /\ \A h \in held : h.id \in Nat /\ h.entry \in Nat
  BY CallPathAssumption DEF TypeOK, Handle, ScId
<1>11. \A u \in Thread : call[u].at # "idle" => call[u].id \in Nat
  <2>1. \A u \in Thread : call[u].at # "idle" => call[u] # Idle
    BY DEF Idle
  <2>2. \A u \in Thread : call[u] # Idle => call[u] \in Call
    BY DEF TypeOK
  <2> QED
    BY <2>1, <2>2 DEF Call, ScId, NoId
<1>12. CallInv'
  <2> SUFFICES ASSUME NEW u \in Thread, call'[u].at # "idle"
               PROVE  /\ call'[u].entry <= entry
                      /\ call'[u].entry = entry /\ call'[u].id # NoId => call'[u].id < scIdStart'
                      /\ call'[u].at \in {"deserialize", "follow"} => call'[u].answer # "none"
                      /\ call'[u].kind = "register" => RegisterInv(call[u])'
                      /\ call'[u].kind = "unregister" => UnregisterInv(call[u])'
    BY <1>1 DEF CallInv
  <2>1. CASE u = t
    BY <1>1, <1>5, <1>10, <2>1 DEF RegisterInv, NoId
  <2>2. CASE u # t
    <3>1. call'[u] = call[u]
      BY <1>4, <2>2
    <3>2. call[u].id \in Nat
      BY <1>11, <3>1
    <3> QED
      BY <1>1, <3>1, <3>2 DEF PathInv, CallInv, RegisterInv, UnregisterInv
  <2> QED
    BY <2>1, <2>2
<1>13. HeldInv'
  BY <1>1, <1>10 DEF PathInv, HeldInv
<1>14. OwnerInv'
  <2>1. \A f, g \in held : f # g /\ f.id = g.id /\ f.entry = entry => f.id \in reused'
    BY <1>1 DEF PathInv, OwnerInv
  <2>2. ASSUME NEW g \in held, NEW u \in Thread, Names(u, g.id)',
               g.entry = entry \/ call'[u].entry = entry
        PROVE  g.id \in reused'
    <3>1. CASE u = t
      BY <1>6, <1>9, <2>2, <3>1
    <3>2. CASE u # t
      BY <1>1, <1>4, <1>6, <2>2, <3>2 DEF PathInv, OwnerInv
    <3> QED
      BY <3>1, <3>2
  <2>3. ASSUME NEW v \in Thread, NEW u \in Thread, NEW id \in ScId,
               v # u, Names(v, id)', Names(u, id)', call'[v].entry = entry
        PROVE  id \in reused'
    <3>1. CASE v = t
      BY <1>6, <1>8, <2>3, <3>1 DEF Names
    <3>2. CASE u = t
      BY <1>6, <1>8, <2>3, <3>2 DEF Names
    <3>3. CASE v # t /\ u # t
      BY <1>1, <1>4, <1>6, <2>3, <3>3 DEF PathInv, OwnerInv
    <3> QED
      BY <3>1, <3>2, <3>3
  <2> QED
    BY <1>1, <2>1, <2>2, <2>3 DEF OwnerInv
<1>15. AccountInv'
  <2> SUFFICES ASSUME NEW id \in listed'
               PROVE  \/ [id |-> id, entry |-> entry] \in held
                      \/ \E u \in Thread : Names(u, id)' /\ call'[u].entry = entry
                      \/ id \in lost
    BY <1>1 DEF AccountInv
  <2>1. CASE id = scIdStart
    BY <1>5, <1>6, <2>1
  <2>2. CASE id \in listed
    <3>1. id \in ScId
      BY <2>2 DEF TypeOK
    <3> QED
      BY <1>4, <1>6, <1>7, <2>2, <3>1 DEF PathInv, AccountInv
  <2> QED
    BY <1>1, <2>1, <2>2
<1>16. HeldIsListedAndKnown'
  BY <1>1 DEF PathInv, HeldIsListedAndKnown
<1> QED
  BY <1>12, <1>13, <1>14, <1>15, <1>16 DEF PathInv

\* Nothing the application has is of the entry that begins.
LEMMA EntryEndKept ==
    ASSUME TypeOK, TypeOK', PathInv, ServiceDies \/ EntryDropped
    PROVE  PathInv'
<1> USE DEF adapterVars
<1>1. /\ UNCHANGED <<library, clientHandler, knownIds, call, held>>
      /\ entry' = entry + 1 /\ listed' = {} /\ reused' = {}
  BY DEF ServiceDies, EntryDropped
<1>2. entry \in Nat /\ \A h \in held : h.entry \in Nat /\ h.entry <= entry
  BY CallPathAssumption DEF TypeOK, Handle, PathInv, HeldInv
<1>3. \A t \in Thread : call[t].at # "idle" => call[t].entry \in Nat /\ call[t].entry <= entry
  <2>1. \A t \in Thread : call[t].at # "idle" => call[t] # Idle
    BY DEF Idle
  <2>2. \A t \in Thread : call[t] # Idle => call[t] \in Call
    BY DEF TypeOK
  <2> QED
    BY <2>1, <2>2, CallPathAssumption DEF Call, PathInv, CallInv
<1>4. /\ \A h \in held : h.entry # entry' /\ h.entry <= entry'
      /\ \A t \in Thread : call[t].at # "idle" => call[t].entry # entry' /\ call[t].entry <= entry'
  BY <1>1, <1>2, <1>3
<1>5. CallInv'
  BY <1>1, <1>4 DEF PathInv, CallInv, RegisterInv, UnregisterInv
<1>6. HeldInv' /\ AccountInv' /\ HeldIsListedAndKnown'
  BY <1>1, <1>4 DEF HeldInv, AccountInv, HeldIsListedAndKnown
<1>7. OwnerInv'
  BY <1>1, <1>4 DEF OwnerInv, Names
<1> QED
  BY <1>5, <1>6, <1>7 DEF PathInv
-----------------------------------------------------------------------------
(* The specification.                                                      *)

LEMMA InitHolds == Init => PathInv
<1> SUFFICES ASSUME Init
             PROVE  PathInv
  OBVIOUS
<1>1. held = {} /\ listed = {} /\ \A t \in Thread : call[t].at = "idle"
  BY DEF Init, Idle
<1> QED
  BY <1>1 DEF PathInv, CallInv, HeldInv, OwnerInv, AccountInv, HeldIsListedAndKnown, Names

LEMMA NextKept == TypeOK /\ PathInv /\ [Next]_vars => TypeOK' /\ PathInv'
<1> SUFFICES ASSUME TypeOK, PathInv, [Next]_vars
             PROVE  TypeOK' /\ PathInv'
  OBVIOUS
<1>1. TypeOK'
  BY NextTyped DEF PathInv
<1>2. CASE UNCHANGED vars
  BY <1>1, <1>2 DEF vars, adapterVars, serviceVars, ghostVars, PathInv, CallInv, RegisterInv,
                    UnregisterInv, HeldInv, OwnerInv, AccountInv, HeldIsListedAndKnown, Names
<1>3. ASSUME NEW t \in Thread, NEW kind \in Kind, Begin(t, kind)
      PROVE  PathInv'
  BY <1>1, <1>3, BeginKept
<1>4. ASSUME NEW t \in Thread, AdapterStep(t) \/ KitStep(t) \/ NoProxy(t) \/ LockIPC(t)
      PROVE  PathInv'
  BY <1>1, <1>4, AdapterKept, PreprocessKept, SendKept, DeserializeKept, RegisterFollowKept,
     UnregisterFollowKept DEF KitStep
<1>5. ASSUME NEW t \in Thread, ServeStep(t)
      PROVE  PathInv'
  BY <1>1, <1>5, ReplyKept, ServeRegisterKept, ServeUnregisterKept DEF ServeStep
<1>6. CASE ServiceDies \/ EntryDropped
  BY <1>1, <1>6, EntryEndKept
<1> QED
  BY <1>1, <1>2, <1>3, <1>4, <1>5, <1>6 DEF Next

THEOREM Invariance == SafeSpec => [](TypeOK /\ PathInv)
BY InitTyped, InitHolds, NextKept, PTL DEF SafeSpec

\* However the calls of the threads, the load of the library and the ends of
\* the service interleave, the state keeps its types: in particular nothing
\* without an id is handed to the application.
THEOREM Typing == SafeSpec => []TypeOK
BY Invariance, PTL

\* The application never holds a component the present service has not in its
\* list, nor one the library was not told of, but for the ids a service gave
\* that another had given before.
THEOREM HeldAreListed == SafeSpec => []HeldIsListedAndKnown
<1>1. PathInv => HeldIsListedAndKnown
  BY DEF PathInv
<1> QED
  BY <1>1, Invariance, PTL

\* The service lists a component the application has no hold of only during
\* the call that makes or removes it, or after one that failed on the way.
THEOREM ListedAreAccounted == SafeSpec => []ListedIsAccounted
<1>1. PathInv => ListedIsAccounted
  BY DEF PathInv, AccountInv, ListedIsAccounted, Names, Idle
<1> QED
  BY <1>1, Invariance, PTL
=============================================================================
