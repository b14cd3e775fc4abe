----------------------------- MODULE Transport -----------------------------
(***************************************************************************)
(* The set-up and the closing of a media transport                          *)
(* (internal/media/transport.go): ICE, the packet mux, DTLS and the SRTP    *)
(* sessions, built by the goroutine `run' while Wait and Close are called   *)
(* from elsewhere and the call's context may end.                           *)
(*                                                                         *)
(* A step is one hold of t.mu, or one call into ICE, DTLS or SRTP.  Closing *)
(* several resources in a row is one step: nobody looks in between.         *)
(***************************************************************************)
EXTENDS Naturals, FiniteSets

CONSTANTS
  Closers,  \* goroutines that call Close
  Waiters   \* goroutines that call Wait, and ReadRTP when it returns nil

\* What run opens and the Transport has a field for; the UDP socket is given.
Fields == {"agent", "iceMux", "mux", "dtls", "srtp", "srtcp"}
Resources == Fields \cup {"raw"}

VARIABLES
  run,       \* where the goroutine of run is
  res,       \* the resources: "none", "open" or "closed"
  stored,    \* the fields of the Transport that are not nil
  result,    \* what run holds in its local err: "nil" or "err"
  err,       \* Transport.err
  closed,    \* Transport.closed
  ctxDone,   \* Transport.ctx is cancelled
  started,   \* startOnce has run
  ready,     \* how often Transport.ready has been closed
  once,      \* closeOnce: "free", "busy" or "done"
  closer,    \* where each Close is
  snapshot,  \* the fields closeResources has read
  waiter,    \* where each Wait is, and then what it returned
  pump,      \* the acceptLoop goroutine: "none", "running" or "ended"
  drain      \* the drainSRTCP goroutine

vars == <<run, res, stored, result, err, closed, ctxDone, started, ready, once,
          closer, snapshot, waiter, pump, drain>>

runVars == <<run, result>>
fieldVars == <<stored, err>>
closeVars == <<closed, once, closer, snapshot>>
pumpVars == <<pump, drain>>

RunLocs == {"off", "newagent", "storeice", "ice", "storemux", "handshake",
            "sessions", "setresult", "discard", "pump", "return", "done"}
CloseLocs == {"idle", "enter", "cancel", "mark", "read1", "close1", "start", "await",
              "read2", "close2", "raw", "returned"}
WaitLocs == {"idle", "select", "err", "nil", "failed", "cancelled", "reading"}

\* Every variable holds what its declaration says.  Transport.ready is closed
\* at most once, by run or by Close (a second close of a channel panics).
TypeOK ==
  /\ run \in RunLocs
  /\ res \in [Resources -> {"none", "open", "closed"}]
  /\ stored \subseteq Fields
  /\ result \in {"nil", "err"} /\ err \in {"nil", "err"}
  /\ closed \in BOOLEAN /\ ctxDone \in BOOLEAN /\ started \in BOOLEAN
  /\ ready \in {0, 1}
  /\ once \in {"free", "busy", "done"}
  /\ closer \in [Closers -> CloseLocs]
  /\ snapshot \subseteq Fields
  /\ waiter \in [Waiters -> WaitLocs]
  /\ pump \in {"none", "running", "ended"}
  /\ drain \in {"none", "running", "ended"}

\* NewTransport
Init ==
  /\ run = "off"
  /\ res = [r \in Resources |-> IF r = "raw" THEN "open" ELSE "none"]
  /\ stored = {}
  /\ result = "nil" /\ err = "nil"
  /\ closed = FALSE /\ ctxDone = FALSE /\ started = FALSE
  /\ ready = 0
  /\ once = "free"
  /\ closer = [k \in Closers |-> "idle"]
  /\ snapshot = {}
  /\ waiter = [w \in Waiters |-> "idle"]
  /\ pump = "none" /\ drain = "none"

Open(rs) == res' = [r \in Resources |-> IF r \in rs THEN "open" ELSE res[r]]

\* Closing is idempotent, and a nil field is skipped.
CloseAll(rs) ==
  res' = [r \in Resources |->
            IF r \in rs /\ res[r] = "open" THEN "closed" ELSE res[r]]

CloseReady == ready' = ready + 1

\* startOnce.Do(go run).
Start ==
  /\ started' = TRUE
  /\ run' = IF started THEN run ELSE "newagent"

-----------------------------------------------------------------------------
(* run *)

\* connectICE: the ICE mux and agent are made; an error closes the mux.
NewAgent ==
  /\ run = "newagent"
  /\ \/ Open({"agent", "iceMux"}) /\ run' = "storeice" /\ UNCHANGED result
     \/ /\ res' = [res EXCEPT !["iceMux"] = "closed"]
        /\ run' = "setresult" /\ result' = "err"
  /\ UNCHANGED <<fieldVars, closeVars, ctxDone, started, ready, waiter, pumpVars>>

StoreICE ==
  /\ run = "storeice"
  /\ \/ /\ closed
        /\ CloseAll({"agent", "iceMux"})
        /\ run' = "setresult" /\ result' = "err"
        /\ UNCHANGED stored
     \/ /\ ~closed
        /\ stored' = stored \cup {"agent", "iceMux"}
        /\ run' = "ice" /\ UNCHANGED <<res, result>>
  /\ UNCHANGED <<err, closeVars, ctxDone, started, ready, waiter, pumpVars>>

\* Gathering, the remote candidates and Dial: they fail, are cut short by the
\* context or its timeout, or connect.  newPacketMux starts reading at once.
ConnectICE ==
  /\ run = "ice"
  /\ \/ Open({"mux"}) /\ run' = "storemux" /\ UNCHANGED result
     \/ run' = "setresult" /\ result' = "err" /\ UNCHANGED res
  /\ UNCHANGED <<fieldVars, closeVars, ctxDone, started, ready, waiter, pumpVars>>

\* Mutant of StoreMux: Close has come, and the mux is left open.
StoreMuxLeak ==
  /\ run = "storemux"
  /\ \/ /\ closed
        /\ run' = "return"
        /\ UNCHANGED <<stored, res>>
     \/ /\ ~closed
        /\ stored' = stored \cup {"mux"}
        /\ run' = "handshake" /\ UNCHANGED res
  /\ UNCHANGED <<result, err, closeVars, ctxDone, started, ready, waiter, pumpVars>>

StoreMux ==
  /\ run = "storemux"
  /\ \/ /\ closed
        /\ CloseAll({"mux"})
        /\ run' = "return"
        /\ UNCHANGED stored
     \/ /\ ~closed
        /\ stored' = stored \cup {"mux"}
        /\ run' = "handshake" /\ UNCHANGED res
  /\ UNCHANGED <<result, err, closeVars, ctxDone, started, ready, waiter, pumpVars>>

\* pdtls.Client or Server, then HandshakeContext with its verification.
Handshake ==
  /\ run = "handshake"
  /\ \/ Open({"dtls"}) /\ run' = "sessions" /\ UNCHANGED result
     \/ \E rs \in {{}, {"dtls"}} :
          Open(rs) /\ run' = "setresult" /\ result' = "err"
  /\ UNCHANGED <<fieldVars, closeVars, ctxDone, started, ready, waiter, pumpVars>>

\* The SRTP profile and keys, NewSessionSRTP and NewSessionSRTCP; drainSRTCP
\* runs from here on.
Sessions ==
  /\ run = "sessions"
  /\ run' = "setresult"
  /\ \/ /\ Open({"srtp", "srtcp"}) /\ drain' = "running"
        /\ UNCHANGED result
     \/ /\ \E rs \in {{}, {"srtp"}} : Open(rs)
        /\ result' = "err" /\ UNCHANGED drain
  /\ UNCHANGED <<fieldVars, closeVars, ctxDone, started, ready, waiter, pump>>

\* Mutant of SetResult: the error is not stored.
SetResultQuiet ==
  /\ run = "setresult"
  /\ \/ closed /\ run' = "discard" /\ UNCHANGED fieldVars
     \/ /\ ~closed
        /\ stored' = stored \cup
             {f \in {"dtls", "srtp", "srtcp"} : res[f] # "none"}
        /\ err' = "nil"
        /\ run' = "pump"
  /\ UNCHANGED <<result, res, closeVars, ctxDone, started, ready, waiter, pumpVars>>

SetResult ==
  /\ run = "setresult"
  /\ \/ closed /\ run' = "discard" /\ UNCHANGED fieldVars
     \/ /\ ~closed
        /\ stored' = stored \cup
             {f \in {"dtls", "srtp", "srtcp"} : res[f] # "none"}
        /\ err' = result
        /\ run' = "pump"
  /\ UNCHANGED <<result, res, closeVars, ctxDone, started, ready, waiter, pumpVars>>

\* setResult came after Close: it closes what run still holds itself.
Discard ==
  /\ run = "discard"
  /\ CloseAll({"mux", "dtls", "srtp", "srtcp"})
  /\ run' = "pump"
  /\ UNCHANGED <<result, fieldVars, closeVars, ctxDone, started, ready, waiter,
                 pumpVars>>

\* startPump, behind pumpOnce.
StartPump == pump' = IF pump = "none" THEN "running" ELSE pump

\* Mutant of RunPump: the pump is left to the first ReadRTP.
RunPumpLazy ==
  /\ run = "pump"
  /\ run' = "return"
  /\ UNCHANGED <<result, res, fieldVars, closeVars, ctxDone, started, ready,
                 waiter, pumpVars>>

RunPump ==
  /\ run = "pump"
  /\ IF result = "nil" THEN StartPump ELSE UNCHANGED pump
  /\ run' = "return"
  /\ UNCHANGED <<result, res, fieldVars, closeVars, ctxDone, started, ready,
                 waiter, drain>>

\* Mutant of Return: only a run without an error closes ready.
ReturnOnlySuccess ==
  /\ run = "return"
  /\ run' = "done"
  /\ ready' = IF result = "nil" THEN ready + 1 ELSE ready
  /\ UNCHANGED <<result, res, fieldVars, closeVars, ctxDone, started, waiter,
                 pumpVars>>

\* The deferred close(t.ready).
Return ==
  /\ run = "return"
  /\ run' = "done"
  /\ CloseReady
  /\ UNCHANGED <<result, res, fieldVars, closeVars, ctxDone, started, waiter,
                 pumpVars>>

RunStep ==
  \/ NewAgent \/ StoreICE \/ ConnectICE \/ StoreMux \/ Handshake \/ Sessions
  \/ SetResult \/ Discard \/ RunPump \/ Return

-----------------------------------------------------------------------------
(* Close *)

At(k, from, to) ==
  closer[k] = from /\ closer' = [closer EXCEPT ![k] = to]

CloseCall(k) ==
  /\ At(k, "idle", "enter")
  /\ UNCHANGED <<runVars, res, fieldVars, closed, once, snapshot, ctxDone, started,
                 ready, waiter, pumpVars>>

\* closeOnce.Do: a second Close blocks until the first has finished.
CloseOnce(k) ==
  /\ \/ once = "free" /\ once' = "busy" /\ At(k, "enter", "cancel")
     \/ once = "done" /\ UNCHANGED once /\ At(k, "enter", "returned")
  /\ UNCHANGED <<runVars, res, fieldVars, closed, snapshot, ctxDone, started,
                 ready, waiter, pumpVars>>

CloseCancel(k) ==
  /\ At(k, "cancel", "mark")
  /\ ctxDone' = TRUE
  /\ UNCHANGED <<runVars, res, fieldVars, closed, once, snapshot, started, ready,
                 waiter, pumpVars>>

CloseMark(k) ==
  /\ At(k, "mark", "read1")
  /\ closed' = TRUE
  /\ UNCHANGED <<runVars, res, fieldVars, once, snapshot, ctxDone, started, ready,
                 waiter, pumpVars>>

\* Mutant of ReadFields: closeResources knows of the ICE agent and DTLS only.
ReadFieldsSome(k) ==
  /\ At(k, "read1", "close1") \/ At(k, "read2", "close2")
  /\ snapshot' = stored \cap {"agent", "dtls"}
  /\ UNCHANGED <<runVars, res, fieldVars, closed, once, ctxDone, started, ready,
                 waiter, pumpVars>>

\* closeResources, which Close runs before and after it waits for run.
ReadFields(k) ==
  /\ At(k, "read1", "close1") \/ At(k, "read2", "close2")
  /\ snapshot' = stored
  /\ UNCHANGED <<runVars, res, fieldVars, closed, once, ctxDone, started, ready,
                 waiter, pumpVars>>

CloseFields(k) ==
  /\ At(k, "close1", "start") \/ At(k, "close2", "raw")
  /\ CloseAll(snapshot)
  /\ UNCHANGED <<runVars, fieldVars, closed, once, snapshot, ctxDone, started,
                 ready, waiter, pumpVars>>

\* Mutants of CloseStart: it closes ready although run does; it never does.
CloseStartAlways(k) ==
  /\ At(k, "start", "await")
  /\ started' = TRUE
  /\ CloseReady
  /\ UNCHANGED <<runVars, res, fieldVars, closed, once, snapshot, ctxDone, waiter,
                 pumpVars>>

CloseStartNever(k) ==
  /\ At(k, "start", "await")
  /\ UNCHANGED <<runVars, res, fieldVars, closed, once, snapshot, ctxDone, started,
                 ready, waiter, pumpVars>>

\* startOnce.Do(close ready): a run that never started never will.
CloseStart(k) ==
  /\ At(k, "start", "await")
  /\ started' = TRUE
  /\ IF started THEN UNCHANGED ready ELSE CloseReady
  /\ UNCHANGED <<runVars, res, fieldVars, closed, once, snapshot, ctxDone, waiter,
                 pumpVars>>

\* <-t.ready
CloseAwait(k) ==
  /\ At(k, "await", "read2")
  /\ ready > 0
  /\ UNCHANGED <<runVars, res, fieldVars, closed, once, snapshot, ctxDone, started,
                 ready, waiter, pumpVars>>

CloseRaw(k) ==
  /\ At(k, "raw", "returned")
  /\ CloseAll({"raw"})
  /\ once' = "done"
  /\ UNCHANGED <<runVars, fieldVars, closed, snapshot, ctxDone, started, ready,
                 waiter, pumpVars>>

CloseStep(k) ==
  \/ CloseOnce(k) \/ CloseCancel(k) \/ CloseMark(k) \/ ReadFields(k)
  \/ CloseFields(k) \/ CloseStart(k) \/ CloseAwait(k) \/ CloseRaw(k)

-----------------------------------------------------------------------------
(* Wait, and the ReadRTP that follows a nil *)

Goes(w, from, to) ==
  waiter[w] = from /\ waiter' = [waiter EXCEPT ![w] = to]

WaitCall(w) ==
  /\ Goes(w, "idle", "select")
  /\ Start
  /\ UNCHANGED <<result, res, fieldVars, closeVars, ctxDone, ready, pumpVars>>

WaitSelect(w) ==
  /\ \/ ready > 0 /\ Goes(w, "select", "err")
     \/ ctxDone /\ Goes(w, "select", "cancelled")
  /\ UNCHANGED <<runVars, res, fieldVars, closeVars, ctxDone, started, ready,
                 pumpVars>>

WaitErr(w) ==
  /\ Goes(w, "err", IF err = "nil" THEN "nil" ELSE "failed")
  /\ UNCHANGED <<runVars, res, fieldVars, closeVars, ctxDone, started, ready,
                 pumpVars>>

\* ReadRTP with a session; without one it returns EOF.
ReadRTP(w) ==
  /\ "srtp" \in stored
  /\ Goes(w, "nil", "reading")
  /\ StartPump
  /\ UNCHANGED <<runVars, res, fieldVars, closeVars, ctxDone, started, ready,
                 drain>>

-----------------------------------------------------------------------------
(* The other goroutines, and the outside *)

\* The call's context, the parent of Transport.ctx, ends.
EndContext ==
  /\ ~ctxDone /\ ctxDone' = TRUE
  /\ UNCHANGED <<runVars, res, fieldVars, closeVars, started, ready, waiter,
                 pumpVars>>

\* readLoop: a read fails, because the agent was closed or the network failed.
MuxFails ==
  /\ res["mux"] = "open"
  /\ CloseAll({"mux"})
  /\ UNCHANGED <<runVars, fieldVars, closeVars, ctxDone, started, ready, waiter,
                 pumpVars>>

\* AcceptStream fails once the session, or the endpoint under it, is closed.
SessionOver(s) == res[s] = "closed" \/ res["mux"] = "closed"

PumpEnds ==
  /\ pump = "running" /\ SessionOver("srtp")
  /\ pump' = "ended"
  /\ UNCHANGED <<runVars, res, fieldVars, closeVars, ctxDone, started, ready,
                 waiter, drain>>

DrainEnds ==
  /\ drain = "running" /\ SessionOver("srtcp")
  /\ drain' = "ended"
  /\ UNCHANGED <<runVars, res, fieldVars, closeVars, ctxDone, started, ready,
                 waiter, pump>>

Finished ==
  /\ run \in {"off", "done"}
  /\ \A k \in Closers : closer[k] = "returned"
  /\ \A w \in Waiters : waiter[w] \notin {"idle", "select", "err"}
  /\ pump # "running" /\ drain # "running"

Next ==
  \/ RunStep
  \/ \E k \in Closers : CloseCall(k) \/ CloseStep(k)
  \/ \E w \in Waiters : WaitCall(w) \/ WaitSelect(w) \/ WaitErr(w) \/ ReadRTP(w)
  \/ EndContext \/ MuxFails \/ PumpEnds \/ DrainEnds
  \/ Finished /\ UNCHANGED vars

Spec == Init /\ [][Next]_vars

\* The scheduler runs every goroutine on, and each of run's calls ends: ICE
\* and the handshake have the context with the set-up timeout.  Nobody need
\* call Close or Wait, the context need not end nor the network fail.
FairSpec ==
  /\ Spec
  /\ WF_vars(RunStep)
  /\ \A k \in Closers : WF_vars(CloseStep(k))
  /\ \A w \in Waiters : WF_vars(WaitSelect(w)) /\ WF_vars(WaitErr(w))
  /\ WF_vars(PumpEnds) /\ WF_vars(DrainEnds)

-----------------------------------------------------------------------------
\* When Close has returned, whatever run had got to when it came and whatever
\* it went on to open, everything is closed.  It takes run's three looks at
\* closed and Close's wait for ready together.
ClosedForGood ==
  (\E k \in Closers : closer[k] = "returned") =>
    \A r \in Resources : res[r] # "open"

\* Wait returns nil only when the sessions are there to be used, or when Close
\* has come; TryWriteRTP, WriteRTP and ReadRTP rely on it.
NilWaitIsHonest ==
  \A w \in Waiters :
    waiter[w] \in {"nil", "reading"} =>
      closed \/ {"dtls", "srtp", "srtcp"} \subseteq stored

\* What TryWriteRTP, WriteRTP and ReadRTP can tell about the Transport, by its
\* fields or by the errors of the endpoints under its sessions.
MediaSeen ==
  IF closed THEN "closed"
  ELSE IF ready = 0 THEN "new"
  ELSE IF err # "nil" \/ ~({"dtls", "srtp", "srtcp"} \subseteq stored) THEN "failed"
  ELSE IF res["mux"] = "closed" THEN "lost"
  ELSE "up"

Leg == INSTANCE MediaLeg WITH media <- MediaSeen

\* A Transport is the media leg the rest of the call takes it for: the result
\* of run is seen once and whole, however Close, Wait and a dying connection
\* race with it, and a leg that was lost never comes back.
ActsAsMediaLeg == Leg!Spec

\* Close always returns: whether run was never started, is in the middle of
\* ICE or of the handshake, or is done, and also when two goroutines close.
CloseReturns ==
  \A k \in Closers : closer[k] = "enter" ~> closer[k] = "returned"

\* Wait always returns.
WaitReturns ==
  \A w \in Waiters :
    waiter[w] = "select" ~> waiter[w] \notin {"select", "err"}

\* The goroutines that serve the sessions do not outlive a closed transport,
\* those started while Close was running included.
GoroutinesEnd ==
  (\E k \in Closers : closer[k] = "returned") ~>
    [](pump # "running" /\ drain # "running")

\* Once the session is stored inbound RTP is eventually consumed, whether
\* anyone reads or not (transport.go:160).
MediaPumped == ("srtp" \in stored /\ err = "nil") ~> pump # "none"
=============================================================================
