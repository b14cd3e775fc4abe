-------------------------- MODULE TransportProofs --------------------------
(***************************************************************************)
(* Transport, for any number of goroutines that call Close and Wait.        *)
(***************************************************************************)
EXTENDS Transport, TLAPS

\* The sessions a Wait that returns nil promises.
Session == {"dtls", "srtp", "srtcp"}

\* Inside closeOnce.Do.
Closing == {"cancel", "mark", "read1", "close1", "start", "await", "read2",
            "close2", "raw"}

\* closeOnce: while it is busy one goroutine is inside, and no Close returns
\* before it is over.
OnceInv ==
  /\ once = "busy" => \E k \in Closers : closer[k] \in Closing
  /\ \A k \in Closers :
       /\ closer[k] \in Closing => once = "busy"
       /\ closer[k] = "returned" => once = "done"
  /\ \A k, l \in Closers :
       closer[k] \in Closing /\ closer[l] \in Closing => k = l

\* Either run closes ready, as the last thing it does, or, if it was never
\* started, Close does; Close is past its mark then.
ReadyInv ==
  /\ ~started => run = "off"
  /\ ready = IF run = "done" \/ (run = "off" /\ started) THEN 1 ELSE 0
  /\ run = "off" /\ started => closed
  /\ \A k \in Closers :
       /\ closer[k] \in {"read1", "close1", "start"} => closed
       /\ closer[k] = "await" => closed /\ started
       /\ closer[k] \in {"read2", "close2", "raw"} => ready = 1
  /\ once = "done" => ready = 1

\* What run has opened and not yet stored, by location.
Local ==
  CASE run = "storeice" -> {"agent", "iceMux"}
    [] run = "storemux" -> {"mux"}
    [] run = "sessions" -> {"dtls"}
    [] run = "setresult" -> Session
    [] run = "discard" -> Session
    [] OTHER -> {}

\* An open resource is a field of the Transport, or run still holds it.
HeldInv == \A f \in Fields : res[f] = "open" => f \in stored \cup Local

\* The second round of closeResources, which comes after run, leaves nothing.
CloseInv ==
  /\ \A k \in Closers :
       /\ closer[k] = "close2" => snapshot = stored
       /\ closer[k] = "raw" => \A f \in Fields : res[f] # "open"
  /\ once = "done" => \A r \in Resources : res[r] # "open"

\* What run has got by the time it stores a result, and what it stored.
ResultInv ==
  /\ run = "sessions" => res["dtls"] # "none"
  /\ run \in {"setresult", "discard", "pump"} /\ result = "nil" =>
       \A f \in Session : res[f] # "none"
  /\ run = "discard" => closed
  /\ run \in {"pump", "return", "done"} /\ err = "nil" =>
       closed \/ Session \subseteq stored
  /\ "srtp" \in stored =>
       /\ res["srtp"] # "none"
       /\ run \in {"pump", "return", "done"} /\ err = result

\* The pump and the drain have a session, and the pump runs when run is over.
PumpInv ==
  /\ pump = "running" => res["srtp"] # "none"
  /\ drain = "running" => res["srtcp"] # "none"
  /\ run \in {"return", "done"} /\ "srtp" \in stored /\ err = "nil" =>
       pump # "none"

\* A Wait starts run, and reads err after ready was closed.
WaitInv ==
  \A w \in Waiters :
    /\ waiter[w] # "idle" => started
    /\ waiter[w] = "err" => ready = 1
    /\ waiter[w] \in {"nil", "reading"} => closed \/ Session \subseteq stored

IInv ==
  /\ TypeOK /\ OnceInv /\ ReadyInv /\ HeldInv /\ CloseInv /\ ResultInv
  /\ PumpInv /\ WaitInv

-----------------------------------------------------------------------------
\* The invariant holds of a new Transport.
LEMMA InvInit == Init => IInv
<1> SUFFICES ASSUME Init PROVE IInv
  OBVIOUS
<1>1. TypeOK
  <2>1. res \in [Resources -> {"none", "open", "closed"}]
    BY DEF Init
  <2>2. closed \in BOOLEAN /\ ctxDone \in BOOLEAN /\ started \in BOOLEAN
    <3>1. closed = FALSE /\ ctxDone = FALSE /\ started = FALSE BY DEF Init
    <3> QED BY <3>1, Zenon
  <2>3. stored \subseteq Fields /\ snapshot \subseteq Fields
    BY DEF Init
  <2> QED
    BY <2>1, <2>2, <2>3 DEF Init, TypeOK, RunLocs, CloseLocs, WaitLocs
<1>2. OnceInv /\ ReadyInv /\ WaitInv
  BY DEF Init, OnceInv, ReadyInv, WaitInv, Closing
<1>3. HeldInv /\ CloseInv
  BY DEF Init, HeldInv, CloseInv, Fields, Resources
<1>4. ResultInv /\ PumpInv
  BY DEF Init, ResultInv, PumpInv
<1> QED
  BY <1>1, <1>2, <1>3, <1>4 DEF IInv

\* Every variable keeps its type; ready is closed at most once.
LEMMA TypeStep == TypeOK /\ ReadyInv /\ [Next]_vars => TypeOK'
<1> SUFFICES ASSUME TypeOK, ReadyInv, [Next]_vars PROVE TypeOK'
  OBVIOUS
<1> USE DEF TypeOK, RunLocs, runVars, fieldVars, closeVars, pumpVars
<1>1. CASE RunStep
  <2>1. CASE NewAgent BY <2>1 DEF NewAgent, Open, Resources, Fields
  <2>2. CASE StoreICE
    <3>1. CASE closed BY <2>2, <3>1 DEF StoreICE, CloseAll
    <3>2. CASE ~closed
      <4>1. {"agent", "iceMux"} \subseteq Fields BY DEF Fields
      <4> QED BY <2>2, <3>2, <4>1 DEF StoreICE
    <3> QED BY <3>1, <3>2
  <2>3. CASE ConnectICE BY <2>3 DEF ConnectICE, Open
  <2>4. CASE StoreMux
    <3>1. CASE closed BY <2>4, <3>1 DEF StoreMux, CloseAll
    <3>2. CASE ~closed
      <4>1. "mux" \in Fields BY DEF Fields
      <4> QED BY <2>4, <3>2, <4>1 DEF StoreMux
    <3> QED BY <3>1, <3>2
  <2>5. CASE Handshake BY <2>5 DEF Handshake, Open
  <2>6. CASE Sessions BY <2>6 DEF Sessions, Open
  <2>7. CASE SetResult
    <3>0. Session \subseteq Fields BY DEF Session, Fields
    <3>1. stored' \subseteq Fields BY <2>7, <3>0 DEF SetResult, Session
    <3> QED BY <2>7, <3>1 DEF SetResult
  <2>8. CASE Discard BY <2>8 DEF Discard, CloseAll
  <2>9. CASE RunPump BY <2>9 DEF RunPump, StartPump
  <2>10. CASE Return BY <2>10 DEF Return, CloseReady, ReadyInv
  <2> QED
    BY <1>1, <2>1, <2>2, <2>3, <2>4, <2>5, <2>6, <2>7, <2>8, <2>9, <2>10 DEF RunStep
<1>2. ASSUME NEW k \in Closers, CloseCall(k) \/ CloseStep(k) PROVE TypeOK'
  <2> USE DEF At, CloseLocs
  <2>1. CASE CloseCall(k) BY <2>1 DEF CloseCall
  <2>2. CASE CloseOnce(k) BY <2>2 DEF CloseOnce
  <2>3. CASE CloseCancel(k) BY <2>3 DEF CloseCancel
  <2>4. CASE CloseMark(k) BY <2>4 DEF CloseMark
  <2>5. CASE ReadFields(k) BY <2>5 DEF ReadFields
  <2>6. CASE CloseFields(k) BY <2>6 DEF CloseFields, CloseAll
  <2>7. CASE CloseStart(k) BY <2>7 DEF CloseStart, CloseReady, ReadyInv
  <2>8. CASE CloseAwait(k) BY <2>8 DEF CloseAwait
  <2>9. CASE CloseRaw(k) BY <2>9 DEF CloseRaw, CloseAll
  <2> QED
    BY <1>2, <2>1, <2>2, <2>3, <2>4, <2>5, <2>6, <2>7, <2>8, <2>9 DEF CloseStep
<1>3. ASSUME NEW w \in Waiters,
             WaitCall(w) \/ WaitSelect(w) \/ WaitErr(w) \/ ReadRTP(w)
      PROVE  TypeOK'
  <2> USE DEF Goes, WaitLocs
  <2>1. CASE WaitCall(w) BY <2>1 DEF WaitCall, Start
  <2>2. CASE WaitSelect(w) BY <2>2 DEF WaitSelect
  <2>3. CASE WaitErr(w) BY <2>3 DEF WaitErr
  <2>4. CASE ReadRTP(w) BY <2>4 DEF ReadRTP, StartPump
  <2> QED BY <1>3, <2>1, <2>2, <2>3, <2>4
<1>4. CASE EndContext \/ MuxFails \/ PumpEnds \/ DrainEnds
  <2>1. CASE EndContext BY <2>1 DEF EndContext
  <2>2. CASE MuxFails BY <2>2 DEF MuxFails, CloseAll
  <2>3. CASE PumpEnds BY <2>3 DEF PumpEnds
  <2>4. CASE DrainEnds BY <2>4 DEF DrainEnds
  <2> QED BY <1>4, <2>1, <2>2, <2>3, <2>4
<1>5. CASE UNCHANGED vars
  BY <1>5 DEF vars
<1> QED
  BY <1>1, <1>2, <1>3, <1>4, <1>5 DEF Next

\* What the steps of each goroutine leave alone.
LEMMA RunFrame == RunStep => UNCHANGED <<closeVars, ctxDone, started, waiter>>
BY DEF RunStep, NewAgent, StoreICE, ConnectICE, StoreMux, Handshake, Sessions,
       SetResult, Discard, RunPump, Return

LEMMA CloseFrame ==
  ASSUME NEW k \in Closers, CloseCall(k) \/ CloseStep(k)
  PROVE  UNCHANGED <<runVars, fieldVars, waiter, pumpVars>>
BY DEF CloseCall, CloseStep, CloseOnce, CloseCancel, CloseMark, ReadFields,
       CloseFields, CloseStart, CloseAwait, CloseRaw

LEMMA CloseStarts ==
  ASSUME NEW k \in Closers, CloseCall(k) \/ CloseStep(k)
  PROVE  UNCHANGED <<started, ready>> \/ CloseStart(k)
BY DEF CloseCall, CloseStep, CloseOnce, CloseCancel, CloseMark, ReadFields,
       CloseFields, CloseAwait, CloseRaw

WaitStep(w) == WaitCall(w) \/ WaitSelect(w) \/ WaitErr(w) \/ ReadRTP(w)

LEMMA WaitFrame ==
  ASSUME NEW w \in Waiters, WaitStep(w)
  PROVE  UNCHANGED <<result, res, fieldVars, closeVars, ctxDone, ready, drain>>
BY DEF WaitStep, WaitCall, WaitSelect, WaitErr, ReadRTP, runVars, pumpVars

\* run steps only between its start and its end, and Wait is what starts it.
LEMMA RunGuard == RunStep => run \notin {"off", "done"}
BY DEF RunStep, NewAgent, StoreICE, ConnectICE, StoreMux, Handshake, Sessions,
       SetResult, Discard, RunPump, Return

LEMMA WaitStarts ==
  ASSUME NEW w \in Waiters, WaitStep(w)
  PROVE  \/ run' = run /\ (started' <=> started)
         \/ run' = "newagent" /\ ~started /\ started'
<1>1. CASE WaitCall(w)
  <2>1. CASE started BY <1>1, <2>1, Zenon DEF WaitCall, Start
  <2>2. CASE ~started BY <1>1, <2>2, Zenon DEF WaitCall, Start
  <2> QED BY <2>1, <2>2, Zenon
<1>2. CASE WaitSelect(w) \/ WaitErr(w) \/ ReadRTP(w)
  <2>1. run' = run /\ started' = started
    BY <1>2 DEF WaitSelect, WaitErr, ReadRTP, runVars
  <2> QED BY <2>1, Zenon
<1> QED BY <1>1, <1>2, Zenon DEF WaitStep

OtherStep == EndContext \/ MuxFails \/ PumpEnds \/ DrainEnds

LEMMA OtherFrame ==
  OtherStep => UNCHANGED <<runVars, fieldVars, closeVars, started, ready, waiter>>
BY DEF OtherStep, EndContext, MuxFails, PumpEnds, DrainEnds

\* A step is one of these.
LEMMA NextCases ==
  ASSUME [Next]_vars
  PROVE  \/ RunStep
         \/ \E k \in Closers : CloseCall(k) \/ CloseStep(k)
         \/ \E w \in Waiters : WaitStep(w)
         \/ OtherStep
         \/ UNCHANGED vars
BY DEF Next, WaitStep, OtherStep

\* closeOnce lets one goroutine in.
LEMMA OnceStep == TypeOK /\ OnceInv /\ [Next]_vars => OnceInv'
<1> SUFFICES ASSUME TypeOK, OnceInv, [Next]_vars PROVE OnceInv'
  OBVIOUS
<1>1. CASE UNCHANGED <<once, closer>>
  BY <1>1 DEF OnceInv
<1>2. ASSUME NEW k \in Closers, CloseCall(k) \/ CloseStep(k) PROVE OnceInv'
  <2> USE DEF OnceInv, Closing, At, TypeOK
  <2>1. CASE CloseCall(k) BY <2>1 DEF CloseCall
  <2>2. CASE CloseOnce(k) BY <2>2 DEF CloseOnce
  <2>3. CASE CloseCancel(k) BY <2>3 DEF CloseCancel
  <2>4. CASE CloseMark(k) BY <2>4 DEF CloseMark
  <2>5. CASE ReadFields(k) BY <2>5 DEF ReadFields
  <2>6. CASE CloseFields(k) BY <2>6 DEF CloseFields
  <2>7. CASE CloseStart(k) BY <2>7 DEF CloseStart
  <2>8. CASE CloseAwait(k) BY <2>8 DEF CloseAwait
  <2>9. CASE CloseRaw(k) BY <2>9 DEF CloseRaw
  <2> QED
    BY <1>2, <2>1, <2>2, <2>3, <2>4, <2>5, <2>6, <2>7, <2>8, <2>9 DEF CloseStep
<1>3. CASE RunStep
  BY <1>1, <1>3, RunFrame DEF closeVars
<1>4. ASSUME NEW w \in Waiters, WaitStep(w) PROVE OnceInv'
  BY <1>1, <1>4, WaitFrame DEF closeVars
<1>5. CASE OtherStep
  BY <1>1, <1>5, OtherFrame DEF closeVars
<1>6. CASE UNCHANGED vars
  BY <1>1, <1>6 DEF vars
<1> QED
  BY <1>2, <1>3, <1>4, <1>5, <1>6, NextCases

\* ready is closed by the goroutine that startOnce let in.
LEMMA ReadyStep ==
  TypeOK /\ OnceInv /\ ReadyInv /\ [Next]_vars => ReadyInv'
<1> SUFFICES ASSUME TypeOK, OnceInv, ReadyInv, [Next]_vars PROVE ReadyInv'
  OBVIOUS
<1>1. CASE RunStep
  <2>1. started /\ ready = 0 /\ run \notin {"off", "done"}
    BY <1>1, RunGuard DEF ReadyInv
  <2>2. \/ run' \notin {"off", "done"} /\ ready' = ready
        \/ run' = "done" /\ ready' = ready + 1
    BY <1>1 DEF RunStep, NewAgent, StoreICE, ConnectICE, StoreMux, Handshake,
                Sessions, SetResult, Discard, RunPump, Return, CloseReady
  <2> QED
    BY <1>1, <2>1, <2>2, RunFrame DEF ReadyInv, closeVars
<1>2. ASSUME NEW k \in Closers, CloseCall(k) \/ CloseStep(k) PROVE ReadyInv'
  <2>0. UNCHANGED run BY <1>2, CloseFrame DEF runVars
  <2> USE <2>0 DEF ReadyInv, At, TypeOK
  <2>1. CASE CloseCall(k) BY <2>1 DEF CloseCall
  <2>2. CASE CloseOnce(k) BY <2>2 DEF CloseOnce
  <2>3. CASE CloseCancel(k) BY <2>3 DEF CloseCancel
  <2>4. CASE CloseMark(k) BY <2>4 DEF CloseMark
  <2>5. CASE ReadFields(k) BY <2>5 DEF ReadFields
  <2>6. CASE CloseFields(k) BY <2>6 DEF CloseFields
  <2>7. CASE CloseStart(k)
    <3>1. closed /\ closed' BY <2>7 DEF CloseStart
    <3> QED BY <2>7, <3>1 DEF CloseStart, CloseReady
  <2>8. CASE CloseAwait(k) BY <2>8 DEF CloseAwait
  <2>9. CASE CloseRaw(k) BY <2>9 DEF CloseRaw
  <2> QED
    BY <1>2, <2>1, <2>2, <2>3, <2>4, <2>5, <2>6, <2>7, <2>8, <2>9 DEF CloseStep
<1>3. ASSUME NEW w \in Waiters, WaitStep(w) PROVE ReadyInv'
  <2>2. UNCHANGED <<closeVars, ready>>
    BY <1>3, WaitFrame
  <2> QED BY <1>3, <2>2, WaitStarts DEF ReadyInv, closeVars
<1>4. CASE OtherStep
  BY <1>4, OtherFrame DEF ReadyInv, closeVars, runVars
<1>5. CASE UNCHANGED vars
  BY <1>5 DEF ReadyInv, vars
<1> QED
  BY <1>1, <1>2, <1>3, <1>4, <1>5, NextCases

\* What is open is stored, or run is about to store or to close it.
LEMMA HeldStep == TypeOK /\ ReadyInv /\ HeldInv /\ [Next]_vars => HeldInv'
<1> SUFFICES ASSUME TypeOK, ReadyInv, HeldInv, [Next]_vars PROVE HeldInv'
  OBVIOUS
<1> USE DEF HeldInv
<1>1. CASE RunStep
  <2> USE DEF Local, Session, Fields, Resources, fieldVars
  <2>1. CASE NewAgent BY <2>1 DEF NewAgent, Open, TypeOK
  <2>2. CASE StoreICE BY <2>2 DEF StoreICE, CloseAll
  <2>3. CASE ConnectICE BY <2>3 DEF ConnectICE, Open
  <2>4. CASE StoreMux BY <2>4 DEF StoreMux, CloseAll
  <2>5. CASE Handshake BY <2>5 DEF Handshake, Open
  <2>6. CASE Sessions BY <2>6 DEF Sessions, Open
  <2>7. CASE SetResult BY <2>7 DEF SetResult
  <2>8. CASE Discard BY <2>8 DEF Discard, CloseAll
  <2>9. CASE RunPump BY <2>9 DEF RunPump
  <2>10. CASE Return BY <2>10 DEF Return
  <2> QED
    BY <1>1, <2>1, <2>2, <2>3, <2>4, <2>5, <2>6, <2>7, <2>8, <2>9, <2>10 DEF RunStep
<1>2. ASSUME UNCHANGED <<run, stored>>,
             \A f \in Fields : res'[f] = "open" => res[f] = "open"
      PROVE  HeldInv'
  BY <1>2 DEF Local
<1>3. ASSUME NEW k \in Closers, CloseCall(k) \/ CloseStep(k) PROVE HeldInv'
  <2>1. \A f \in Fields : res'[f] = "open" => res[f] = "open"
    BY <1>3 DEF CloseCall, CloseStep, CloseOnce, CloseCancel, CloseMark, ReadFields,
                CloseFields, CloseStart, CloseAwait, CloseRaw, CloseAll, Resources
  <2> QED BY <1>2, <1>3, <2>1, CloseFrame DEF runVars, fieldVars
<1>4. ASSUME NEW w \in Waiters, WaitStep(w) PROVE HeldInv'
  <2>1. run' = run \/ (run = "off" /\ run' = "newagent")
    <3>1. ~started => run = "off" BY DEF ReadyInv
    <3>2. run' = run \/ (run' = "newagent" /\ ~started) BY <1>4, WaitStarts
    <3> QED BY <3>1, <3>2
  <2>2. UNCHANGED <<res, stored>>
    BY <1>4, WaitFrame DEF fieldVars
  <2> QED BY <2>1, <2>2 DEF Local
<1>5. CASE OtherStep
  <2>1. \A f \in Fields : res'[f] = "open" => res[f] = "open"
    BY <1>5 DEF OtherStep, EndContext, MuxFails, PumpEnds, DrainEnds, CloseAll, Resources
  <2> QED BY <1>2, <1>5, <2>1, OtherFrame DEF runVars, fieldVars
<1>6. CASE UNCHANGED vars
  BY <1>2, <1>6 DEF vars
<1> QED
  BY <1>1, <1>3, <1>4, <1>5, <1>6, NextCases

\* When run is over, by itself or since it never started, nothing is opened.
LEMMA ShutStep ==
  ASSUME TypeOK, ReadyInv, ready = 1, [Next]_vars
  PROVE  /\ UNCHANGED <<run, stored, err>>
         /\ \A r \in Resources : res[r] = "open" \/ res'[r] = res[r]
<1>1. started /\ run \in {"off", "done"}
  BY DEF ReadyInv, TypeOK
<1>2. ~RunStep
  BY <1>1, RunGuard
<1>3. ASSUME NEW k \in Closers, CloseCall(k) \/ CloseStep(k)
      PROVE  \A r \in Resources : res[r] = "open" \/ res'[r] = res[r]
  BY <1>3 DEF CloseCall, CloseStep, CloseOnce, CloseCancel, CloseMark, ReadFields,
              CloseFields, CloseStart, CloseAwait, CloseRaw, CloseAll
<1>4. ASSUME NEW w \in Waiters, WaitStep(w) PROVE UNCHANGED run
  BY <1>1, <1>4, WaitStarts DEF TypeOK
<1>5. ASSUME OtherStep
      PROVE  \A r \in Resources : res[r] = "open" \/ res'[r] = res[r]
  BY <1>5 DEF OtherStep, EndContext, MuxFails, PumpEnds, DrainEnds, CloseAll
<1>6. CASE UNCHANGED vars
  BY <1>6 DEF vars
<1> QED
  BY <1>2, <1>3, <1>4, <1>5, <1>6, NextCases, CloseFrame, WaitFrame, OtherFrame
     DEF runVars, fieldVars

\* The second round of closeResources finds all there is.
LEMMA ClosedStep ==
  TypeOK /\ OnceInv /\ ReadyInv /\ HeldInv /\ CloseInv /\ [Next]_vars => CloseInv'
<1> SUFFICES ASSUME TypeOK, OnceInv, ReadyInv, HeldInv, CloseInv, [Next]_vars
             PROVE  CloseInv'
  OBVIOUS
<1>0. ready = 1 =>
        /\ UNCHANGED <<run, stored>>
        /\ \A r \in Resources : res[r] = "open" \/ res'[r] = res[r]
  BY ShutStep
<1>1. ASSUME UNCHANGED <<once, closer, snapshot>> PROVE CloseInv'
  BY <1>0, <1>1 DEF CloseInv, ReadyInv, Resources
<1>2. ASSUME NEW k \in Closers, CloseCall(k) \/ CloseStep(k) PROVE CloseInv'
  <2>0. stored' = stored
    BY <1>2, CloseFrame DEF fieldVars
  <2> USE DEF CloseInv, At, TypeOK
  <2>1. CASE CloseCall(k) BY <2>1 DEF CloseCall, fieldVars
  <2>2. CASE CloseOnce(k) BY <2>2 DEF CloseOnce, fieldVars
  <2>3. CASE CloseCancel(k) BY <2>3 DEF CloseCancel, fieldVars
  <2>4. CASE CloseMark(k) BY <2>4 DEF CloseMark, fieldVars
  <2>5. CASE ReadFields(k) BY <2>5 DEF ReadFields, fieldVars
  <2>6. CASE CloseFields(k)
    <3>1. \A l \in Closers : closer[l] \in Closing => l = k
      BY <2>6 DEF CloseFields, OnceInv, Closing
    <3>2. CASE closer[k] = "close1"
      BY <2>6, <3>1, <3>2 DEF CloseFields, OnceInv, Closing
    <3>3. CASE closer[k] = "close2"
      <4>1. run \in {"off", "done"} /\ snapshot = stored
        BY <3>3 DEF ReadyInv
      <4>2. \A f \in Fields : res[f] = "open" => f \in snapshot
        BY <4>1 DEF HeldInv, Local
      <4>3. \A f \in Fields : res'[f] # "open"
        BY <2>6, <4>2 DEF CloseFields, CloseAll, Resources
      <4> QED BY <2>6, <3>1, <3>3, <4>3 DEF CloseFields, OnceInv, Closing
    <3> QED BY <2>6, <3>2, <3>3 DEF CloseFields
  <2>7. CASE CloseStart(k) BY <2>7 DEF CloseStart, fieldVars
  <2>8. CASE CloseAwait(k) BY <2>8 DEF CloseAwait, fieldVars
  <2>9. CASE CloseRaw(k)
    <3>1. \A r \in Resources : res'[r] # "open"
      BY <2>9 DEF CloseRaw, CloseAll, Resources
    <3> QED BY <2>0, <2>9, <3>1 DEF CloseRaw, Resources
  <2> QED
    BY <1>2, <2>1, <2>2, <2>3, <2>4, <2>5, <2>6, <2>7, <2>8, <2>9 DEF CloseStep
<1>3. CASE RunStep
  BY <1>1, <1>3, RunFrame DEF closeVars
<1>4. ASSUME NEW w \in Waiters, WaitStep(w) PROVE CloseInv'
  BY <1>1, <1>4, WaitFrame DEF closeVars
<1>5. CASE OtherStep
  BY <1>1, <1>5, OtherFrame DEF closeVars
<1>6. CASE UNCHANGED vars
  BY <1>1, <1>6 DEF vars
<1> QED
  BY <1>2, <1>3, <1>4, <1>5, <1>6, NextCases

\* What was opened once is not forgotten, nor is Close, nor what was stored.
LEMMA Grows ==
  ASSUME TypeOK, [Next]_vars
  PROVE  /\ \A r \in Resources : res[r] # "none" => res'[r] # "none"
         /\ closed => closed'
         /\ stored \subseteq stored'
<1>1. CASE RunStep
  <2> USE DEF TypeOK, closeVars, fieldVars
  <2>1. CASE NewAgent BY <2>1 DEF NewAgent, Open
  <2>2. CASE StoreICE BY <2>2 DEF StoreICE, CloseAll
  <2>3. CASE ConnectICE BY <2>3 DEF ConnectICE, Open
  <2>4. CASE StoreMux BY <2>4 DEF StoreMux, CloseAll
  <2>5. CASE Handshake BY <2>5 DEF Handshake, Open
  <2>6. CASE Sessions BY <2>6 DEF Sessions, Open
  <2>7. CASE SetResult BY <2>7 DEF SetResult
  <2>8. CASE Discard BY <2>8 DEF Discard, CloseAll
  <2>9. CASE RunPump BY <2>9 DEF RunPump
  <2>10. CASE Return BY <2>10 DEF Return
  <2> QED
    BY <1>1, <2>1, <2>2, <2>3, <2>4, <2>5, <2>6, <2>7, <2>8, <2>9, <2>10 DEF RunStep
<1>2. ASSUME NEW k \in Closers, CloseCall(k) \/ CloseStep(k)
      PROVE  /\ \A r \in Resources : res[r] # "none" => res'[r] # "none"
             /\ closed => closed'
  BY <1>2 DEF CloseCall, CloseStep, CloseOnce, CloseCancel, CloseMark, ReadFields,
              CloseFields, CloseStart, CloseAwait, CloseRaw, CloseAll
<1>3. ASSUME OtherStep
      PROVE  \A r \in Resources : res[r] # "none" => res'[r] # "none"
  BY <1>3 DEF OtherStep, EndContext, MuxFails, PumpEnds, DrainEnds, CloseAll
<1>4. CASE UNCHANGED vars
  BY <1>4 DEF vars
<1> QED
  BY <1>1, <1>2, <1>3, <1>4, NextCases, CloseFrame, WaitFrame, OtherFrame
     DEF fieldVars, closeVars

\* run reaches its end with the sessions, with an error or after Close.
LEMMA ResultStep == TypeOK /\ ReadyInv /\ ResultInv /\ [Next]_vars => ResultInv'
<1> SUFFICES ASSUME TypeOK, ReadyInv, ResultInv, [Next]_vars PROVE ResultInv'
  OBVIOUS
<1> USE DEF ResultInv
<1>0. /\ \A f \in Session : res[f] # "none" => res'[f] # "none"
      /\ closed => closed'
  BY Grows DEF Resources, Fields, Session
<1>1. CASE RunStep
  <2> USE <1>0 DEF Session, fieldVars, closeVars
  <2>1. CASE NewAgent BY <2>1 DEF NewAgent
  <2>2. CASE StoreICE BY <2>2 DEF StoreICE
  <2>3. CASE ConnectICE BY <2>3 DEF ConnectICE
  <2>4. CASE StoreMux BY <2>4 DEF StoreMux
  <2>5. CASE Handshake BY <2>5 DEF Handshake, Open, Resources, Fields
  <2>6. CASE Sessions BY <2>6 DEF Sessions, Open, Resources, Fields
  <2>7. CASE SetResult
    <3>1. CASE closed BY <2>7, <3>1 DEF SetResult
    <3>2. CASE ~closed BY <2>7, <3>2 DEF SetResult
    <3> QED BY <3>1, <3>2
  <2>8. CASE Discard BY <2>8 DEF Discard
  <2>9. CASE RunPump BY <2>9 DEF RunPump
  <2>10. CASE Return BY <2>10 DEF Return
  <2> QED
    BY <1>1, <2>1, <2>2, <2>3, <2>4, <2>5, <2>6, <2>7, <2>8, <2>9, <2>10 DEF RunStep
<1>2. ASSUME UNCHANGED <<run, result, stored, err>> PROVE ResultInv'
  BY <1>0, <1>2 DEF Session
<1>3. ASSUME NEW k \in Closers, CloseCall(k) \/ CloseStep(k) PROVE ResultInv'
  BY <1>2, <1>3, CloseFrame DEF runVars, fieldVars
<1>4. ASSUME NEW w \in Waiters, WaitStep(w) PROVE ResultInv'
  <2>1. UNCHANGED <<result, stored, err>>
    BY <1>4, WaitFrame DEF fieldVars
  <2>2. ~started => run = "off" BY DEF ReadyInv
  <2>3. run' = run \/ (run' = "newagent" /\ ~started) BY <1>4, WaitStarts
  <2> QED BY <1>0, <1>2, <2>1, <2>2, <2>3 DEF Session
<1>5. CASE OtherStep
  BY <1>2, <1>5, OtherFrame DEF runVars, fieldVars
<1>6. CASE UNCHANGED vars
  BY <1>2, <1>6 DEF vars
<1> QED
  BY <1>1, <1>3, <1>4, <1>5, <1>6, NextCases

\* The pump is started with a session, by run or by ReadRTP.
LEMMA PumpStep ==
  TypeOK /\ ReadyInv /\ ResultInv /\ PumpInv /\ [Next]_vars => PumpInv'
<1> SUFFICES ASSUME TypeOK, ReadyInv, ResultInv, PumpInv, [Next]_vars PROVE PumpInv'
  OBVIOUS
<1> USE DEF PumpInv
<1>0. \A f \in Session : res[f] # "none" => res'[f] # "none"
  BY Grows DEF Resources, Fields, Session
<1>1. CASE RunStep
  <2> USE <1>0 DEF Session, fieldVars, pumpVars
  <2>1. CASE NewAgent BY <2>1 DEF NewAgent
  <2>2. CASE StoreICE BY <2>2 DEF StoreICE
  <2>3. CASE ConnectICE BY <2>3 DEF ConnectICE
  <2>4. CASE StoreMux BY <2>4 DEF StoreMux, ResultInv
  <2>5. CASE Handshake BY <2>5 DEF Handshake
  <2>6. CASE Sessions BY <2>6 DEF Sessions, Open, Resources, Fields
  <2>7. CASE SetResult BY <2>7 DEF SetResult
  <2>8. CASE Discard BY <2>8 DEF Discard
  <2>9. CASE RunPump BY <2>9 DEF RunPump, StartPump, ResultInv
  <2>10. CASE Return BY <2>10 DEF Return
  <2> QED
    BY <1>1, <2>1, <2>2, <2>3, <2>4, <2>5, <2>6, <2>7, <2>8, <2>9, <2>10 DEF RunStep
<1>2. ASSUME UNCHANGED <<run, stored, err, pump, drain>> PROVE PumpInv'
  BY <1>0, <1>2 DEF Session
<1>3. ASSUME NEW k \in Closers, CloseCall(k) \/ CloseStep(k) PROVE PumpInv'
  BY <1>2, <1>3, CloseFrame DEF runVars, fieldVars, pumpVars
<1>4. ASSUME NEW w \in Waiters, WaitStep(w) PROVE PumpInv'
  <2>1. UNCHANGED <<stored, err, drain>>
    BY <1>4, WaitFrame DEF fieldVars
  <2>2. run' = run \/ run' = "newagent" BY <1>4, WaitStarts
  <2>3. pump' = pump \/ (pump' = "running" /\ "srtp" \in stored)
    BY <1>4 DEF WaitStep, WaitCall, WaitSelect, WaitErr, ReadRTP, StartPump, pumpVars
  <2> QED BY <1>0, <2>1, <2>2, <2>3 DEF Session, ResultInv
<1>5. CASE OtherStep
  <2>1. UNCHANGED <<run, stored, err>> BY <1>5, OtherFrame DEF runVars, fieldVars
  <2>2. /\ pump' = pump \/ pump' = "ended"
        /\ drain' = drain \/ drain' = "ended"
    BY <1>5 DEF OtherStep, EndContext, MuxFails, PumpEnds, DrainEnds, pumpVars
  <2> QED BY <1>0, <2>1, <2>2 DEF Session
<1>6. CASE UNCHANGED vars
  BY <1>2, <1>6 DEF vars
<1> QED
  BY <1>1, <1>3, <1>4, <1>5, <1>6, NextCases

\* Wait.
LEMMA WaitersStep ==
  TypeOK /\ ReadyInv /\ ResultInv /\ WaitInv /\ [Next]_vars => WaitInv'
<1> SUFFICES ASSUME TypeOK, ReadyInv, ResultInv, WaitInv, [Next]_vars PROVE WaitInv'
  OBVIOUS
<1>0. /\ closed => closed'
      /\ stored \subseteq stored'
      /\ started => started'
      /\ ready = 1 => ready' = 1
  <2>1. started => started'
    <3>1. ASSUME NEW k \in Closers, CloseCall(k) \/ CloseStep(k) PROVE started => started'
      <4>1. CASE CloseStart(k) BY <4>1 DEF CloseStart
      <4>2. CASE UNCHANGED <<started, ready>> BY <4>2
      <4>3. UNCHANGED <<started, ready>> \/ CloseStart(k) BY <3>1, CloseStarts
      <4> QED BY <4>1, <4>2, <4>3, Zenon
    <3>2. ASSUME NEW w \in Waiters, WaitStep(w) PROVE started => started'
      BY <3>2, WaitStarts
    <3>3. RunStep \/ OtherStep \/ UNCHANGED vars => started' = started
      BY RunFrame, OtherFrame DEF vars
    <3> QED BY <3>1, <3>2, <3>3, NextCases, Zenon
  <2>2. ASSUME ready = 1 PROVE ready' = 1
    <3>1. run \in {"off", "done"} /\ run' = run
      BY <2>2, ShutStep DEF ReadyInv
    <3>2. ~RunStep BY <3>1, RunGuard
    <3>3. started BY <2>2 DEF ReadyInv
    <3>4. ASSUME NEW k \in Closers, CloseCall(k) \/ CloseStep(k) PROVE ready' = ready
      <4>1. CASE CloseStart(k) BY <3>3, <4>1 DEF CloseStart
      <4>2. CASE UNCHANGED <<started, ready>> BY <4>2
      <4> QED BY <3>4, <4>1, <4>2, CloseStarts
    <3>5. CASE UNCHANGED vars BY <2>2, <3>5 DEF vars
    <3> QED BY <2>2, <3>2, <3>4, <3>5, NextCases, WaitFrame, OtherFrame
  <2> QED BY <2>1, <2>2, Grows
<1>1. ASSUME UNCHANGED waiter PROVE WaitInv'
  BY <1>0, <1>1 DEF WaitInv, Session
<1>2. ASSUME NEW w \in Waiters, WaitStep(w) PROVE WaitInv'
  <2> USE <1>0 DEF WaitInv, Goes, Session, TypeOK
  <2>1. CASE WaitCall(w)
    <3>1. started' BY <2>1 DEF WaitCall, Start
    <3> QED BY <2>1, <3>1 DEF WaitCall
  <2>2. CASE WaitSelect(w)
    <3>1. started' BY <2>2 DEF WaitSelect
    <3> QED BY <2>2, <3>1 DEF WaitSelect
  <2>3. CASE WaitErr(w)
    <3>1. ready = 1 /\ started' BY <2>3 DEF WaitErr
    <3>2. CASE err = "nil"
      <4>1. closed \/ Session \subseteq stored
        BY <3>1, <3>2 DEF ReadyInv, ResultInv
      <4> QED BY <2>3, <3>1, <3>2, <4>1 DEF WaitErr
    <3>3. CASE err # "nil" BY <2>3, <3>1, <3>3 DEF WaitErr
    <3> QED BY <3>2, <3>3
  <2>4. CASE ReadRTP(w) BY <2>4 DEF ReadRTP
  <2> QED BY <1>2, <2>1, <2>2, <2>3, <2>4 DEF WaitStep
<1>3. CASE UNCHANGED vars BY <1>1, <1>3 DEF vars
<1> QED
  BY <1>1, <1>2, <1>3, NextCases, RunFrame, CloseFrame, OtherFrame

-----------------------------------------------------------------------------
\* The inductive invariant of a Transport, for any number of goroutines that
\* call Close and Wait.
THEOREM InductiveInvariant == Spec => []IInv
<1>1. Init => IInv
  BY InvInit
<1>2. IInv /\ [Next]_vars => IInv'
  BY TypeStep, OnceStep, ReadyStep, HeldStep, ClosedStep, ResultStep, PumpStep,
     WaitersStep DEF IInv
<1> QED
  BY <1>1, <1>2, PTL DEF Spec

\* Every variable keeps its type: in particular ready, which run closes or
\* Close does, is closed at most once, and no close panics.
THEOREM ReadyClosedOnce == Spec => []TypeOK
<1>1. IInv => TypeOK
  BY DEF IInv
<1> QED
  BY <1>1, InductiveInvariant, PTL

\* Whenever a Close has returned, nothing that run ever opened is open.
THEOREM CloseIsComplete == Spec => []ClosedForGood
<1>1. IInv => ClosedForGood
  BY DEF IInv, OnceInv, CloseInv, ClosedForGood
<1> QED
  BY <1>1, InductiveInvariant, PTL

\* Wait returns nil with the sessions in place, or after Close.
THEOREM NilIsHonest == Spec => []NilWaitIsHonest
<1>1. IInv => NilWaitIsHonest
  BY DEF IInv, WaitInv, NilWaitIsHonest, Session
<1> QED
  BY <1>1, InductiveInvariant, PTL

\* Nobody waits for nothing: while a goroutine waits for ready, it is closed
\* or run is on its way to closing it; while one waits for closeOnce, another
\* is inside.  CloseReturns and WaitReturns rest on this.
SomebodyToWaitFor ==
  /\ \A k \in Closers : closer[k] = "await" => ready = 1 \/ run \notin {"off", "done"}
  /\ \A w \in Waiters : waiter[w] = "select" => ready = 1 \/ run \notin {"off", "done"}
  /\ \A k \in Closers :
       closer[k] = "enter" /\ once = "busy" => \E l \in Closers : closer[l] \in Closing

\* Close and Wait wait for a goroutine that is there, whoever came first.
THEOREM NobodyWaitsForNothing == Spec => []SomebodyToWaitFor
<1>1. IInv => SomebodyToWaitFor
  BY DEF IInv, OnceInv, ReadyInv, WaitInv, SomebodyToWaitFor
<1> QED
  BY <1>1, InductiveInvariant, PTL

\* When ready is closed with a session and no error, its RTP is being consumed
\* (transport.go:160), whether or not anyone reads.
THEOREM PumpBeforeReady ==
  Spec => [](ready = 1 /\ "srtp" \in stored /\ err = "nil" => pump # "none")
<1>1. IInv => (ready = 1 /\ "srtp" \in stored /\ err = "nil" => pump # "none")
  BY DEF IInv, ReadyInv, ResultInv, PumpInv
<1> QED
  BY <1>1, InductiveInvariant, PTL

\* Once Close has returned, what the pump and the drain block on has failed.
ServersCanEnd ==
  (\E k \in Closers : closer[k] = "returned") =>
    /\ pump = "running" => SessionOver("srtp")
    /\ drain = "running" => SessionOver("srtcp")

\* The goroutines of a closed Transport have nothing left to block on.
THEOREM ServersOfAClosedTransport == Spec => []ServersCanEnd
<1>1. IInv => ServersCanEnd
  <2> SUFFICES ASSUME IInv, once = "done"
               PROVE  /\ pump = "running" => SessionOver("srtp")
                      /\ drain = "running" => SessionOver("srtcp")
    BY DEF IInv, OnceInv, ServersCanEnd
  <2>1. res["srtp"] \in {"none", "closed"} /\ res["srtcp"] \in {"none", "closed"}
    BY DEF IInv, TypeOK, CloseInv, Resources, Fields
  <2> QED
    BY <2>1 DEF IInv, PumpInv, SessionOver
<1> QED
  BY <1>1, InductiveInvariant, PTL

\* After a Close has returned nothing is opened or stored any more.
StaysClosed ==
  (\E k \in Closers : closer[k] = "returned") =>
    /\ UNCHANGED <<run, stored, err>>
    /\ \A r \in Resources : res'[r] = res[r]

\* Close is final: no step of run, of Wait, of another Close or of the network
\* changes what it left behind.
THEOREM CloseIsFinal == Spec => [][StaysClosed]_vars
<1>1. IInv /\ [Next]_vars => StaysClosed
  <2> SUFFICES ASSUME IInv, [Next]_vars, NEW k \in Closers, closer[k] = "returned"
               PROVE  /\ UNCHANGED <<run, stored, err>>
                      /\ \A r \in Resources : res'[r] = res[r]
    BY DEF StaysClosed
  <2>1. ready = 1 /\ \A r \in Resources : res[r] # "open"
    BY DEF IInv, OnceInv, ReadyInv, CloseInv
  <2> QED
    BY <2>1, ShutStep DEF IInv
<1> QED
  BY <1>1, InductiveInvariant, PTL DEF Spec

\* A Transport implements MediaLeg: its fields are written before ready is
\* closed and never after, so that nobody sees a result that changes; and no
\* mux is opened by then, so that a lost one stays lost.
THEOREM TransportIsMediaLeg == Spec => ActsAsMediaLeg
<1>1. Init => Leg!Init
  BY DEF Init, Leg!Init, MediaSeen
<1>2. IInv /\ [Next]_vars => [Leg!Step]_MediaSeen
  <2> SUFFICES ASSUME IInv, [Next]_vars PROVE [Leg!Step]_MediaSeen
    OBVIOUS
  <2> USE DEF Leg!Step, Leg!SetUp, Leg!Lose, Leg!Close
  <2>0. ready \in {0, 1} /\ ready' \in {0, 1}
    BY TypeStep DEF IInv, TypeOK
  <2>1. CASE closed
    BY <2>1, Grows DEF IInv, MediaSeen
  <2>2. CASE ~closed /\ closed'
    BY <2>2 DEF MediaSeen
  <2>3. CASE ~closed /\ ~closed' /\ ready = 0
    BY <2>0, <2>3 DEF MediaSeen
  <2>4. CASE ~closed /\ ~closed' /\ ready = 1
    <3>1. run = "done"
      BY <2>4 DEF IInv, ReadyInv
    <3>2. /\ UNCHANGED <<stored, err>>
          /\ res["mux"] = "closed" => res'["mux"] = "closed"
      BY <2>4, ShutStep DEF IInv, Resources, Fields
    <3>3. ready' = 1
      <4>1. started
        BY <3>1 DEF IInv, ReadyInv
      <4> QED
        BY <2>4, <3>1, <4>1, NextCases, RunGuard, CloseStarts, WaitFrame, OtherFrame
           DEF CloseStart, vars
    <3> QED BY <2>4, <3>2, <3>3 DEF MediaSeen
  <2> QED BY <2>0, <2>1, <2>2, <2>3, <2>4
<1> QED
  BY <1>1, <1>2, InductiveInvariant, PTL DEF Spec, ActsAsMediaLeg, Leg!Spec
=============================================================================
