---------------------------- MODULE CallManager ----------------------------
(***************************************************************************)
(* The call manager of the WhatsApp connector (internal/call/manager.go)    *)
(* with the process that drives it (cmd/whatsapp-connector/main.go).        *)
(*                                                                         *)
(* Concurrent actors: one handler per Accept or Dial request, the goroutine *)
(* a registered call runs (runInbound or runOutbound), Connect and          *)
(* Disconnect handlers, the goroutines LiveKit callbacks start, and main    *)
(* shutting down.  A step is what happens under one hold of a mutex, or one *)
(* call to Meta, LiveKit or the media transport.                            *)
(*                                                                         *)
(* A Call object is named by the request that creates it, so it exists at   *)
(* most once; several Accept requests may carry the same WhatsApp call id.  *)
(***************************************************************************)
EXTENDS Naturals, FiniteSets

CONSTANTS
  AcceptReqs,  \* AcceptWhatsAppCall requests, and the Call objects they make
  DialReqs,    \* DialWhatsAppCall requests, and the Call objects they make
  CallIDs,     \* WhatsApp call ids
  IdOf,        \* the call id of each request
  NoCall,      \* a nil *Call
  MaxStops     \* bound on the stop goroutines that may be pending at once

Reqs == AcceptReqs \cup DialReqs

Outbound(c) == c \in DialReqs

ASSUME ManagerAssumption ==
  /\ IsFiniteSet(AcceptReqs) /\ IsFiniteSet(DialReqs)
  /\ AcceptReqs \cap DialReqs = {}
  /\ IdOf \in [Reqs -> CallIDs]
  /\ NoCall \notin Reqs
  /\ MaxStops \in Nat
  \* Meta returns a fresh id for every call it places.
  /\ \A d \in DialReqs, r \in Reqs : IdOf[d] = IdOf[r] => d = r

VARIABLES
  calls,     \* Manager.calls, by call id
  draining,  \* Manager.draining
  wg,        \* Manager.wg's counter
  call,      \* the Call objects
  rpc,       \* where the handler of each Accept or Dial request is
  on,        \* the call an Accept handler waits for, or is about to
  stops,     \* stopUser and stopBusiness runs of handlers and callbacks
  connects,  \* Connect handlers that hold a *Call
  proc,      \* where main is
  expired    \* "no", or the shutdown the end of the window cut short:
             \* the HTTP server's ("http") or the Manager's ("manager")

vars == <<calls, draining, wg, call, rpc, on, stops, connects, proc, expired>>

mgrVars == <<calls, draining, wg>>
mainVars == <<proc, expired>>

RpcLocs == {"idle", "listen", "negotiate", "dial", "register", "discard",
            "waiting", "stop", "cancel", "returned"}

RunLocs == {"none", "bridge", "preaccept", "answer", "media", "accept",
            "connected", "relay", "fail", "stop", "cancel", "cleanup",
            "snapshot", "terminate", "release", "delete", "wgdone", "done"}

(***************************************************************************)
(* A Call object.  Beside the struct's fields it holds the location pc of   *)
(* its goroutine and the state of what it owns or of what Meta holds:       *)
(*   cancelled  who cancelled c.ctx first ("no": not cancelled)             *)
(*   ready      c.ready and c.err: "open", or closed with "nil" or "err"    *)
(*   answered   c.answerReady is closed                                     *)
(*   transport  "late": made by a Connect after cleanup had its snapshot    *)
(*   bridge     "dropped": LiveKit closed Bridge.Done()                     *)
(*   token      the API token it was made with, or a Disconnect's           *)
(*   termToken  the token cleanup sends Terminate with ("no": it does not)  *)
(*   meta       the leg Meta holds because of this call                     *)
(***************************************************************************)
CallType ==
  [pc : RunLocs,
   cancelled : {"no", "user", "business", "livekit", "shutdown", "self"},
   terminate : BOOLEAN, userTerminated : BOOLEAN, signaled : BOOLEAN,
   ready : {"open", "nil", "err"},
   answered : BOOLEAN,
   transport : {"none", "new", "late", "started", "up", "closed"},
   udp : {"none", "open", "closed"},
   bridge : {"none", "up", "dropped", "closed"},
   token : {"orig", "fresh"},
   termToken : {"no", "orig", "fresh"},
   meta : {"none", "open", "ended"}]

StopKinds == {"user", "business", "livekit", "shutdown"}

StopType == [call : Reqs, kind : StopKinds, at : {"token", "flag", "cancel"}]

NewCall ==
  [pc |-> "none", cancelled |-> "no", terminate |-> FALSE,
   userTerminated |-> FALSE, signaled |-> FALSE, ready |-> "open",
   answered |-> FALSE, transport |-> "none", udp |-> "none",
   bridge |-> "none", token |-> "orig", termToken |-> "no", meta |-> "none"]

Init ==
  /\ calls = [i \in CallIDs |-> NoCall]
  /\ draining = FALSE
  /\ wg = 0
  /\ call = [c \in Reqs |-> NewCall]
  /\ rpc = [r \in Reqs |-> "idle"]
  /\ on = [a \in AcceptReqs |-> NoCall]
  /\ stops = {}
  /\ connects = {}
  /\ proc = "serving"
  /\ expired = "no"

Set(c, r) == call' = [call EXCEPT ![c] = r]

-----------------------------------------------------------------------------
(* What one hold of c.mu, or one call on a Call object, does to the object. *)

\* Mutant of SignalReady: an error leaves c.ready open.
SignalOnlySuccess(r, res) ==
  [r EXCEPT !.ready = IF @ = "open" /\ res = "nil" THEN res ELSE @]

\* signalReady: the first result is the one that stays.
SignalReady(r, res) == [r EXCEPT !.ready = IF @ = "open" THEN res ELSE @]

\* Mutant of StopBusiness: it overrules a user hang-up.
StopBusinessAlways(r) == [r EXCEPT !.terminate = TRUE]

\* The locked part of stopBusiness: a user hang-up is never overruled.
StopBusiness(r) == [r EXCEPT !.terminate = @ \/ ~r.userTerminated]

\* Mutant of StopUser: a stopBusiness that came before it stands.
StopUserKeepsFlag(r) == [r EXCEPT !.userTerminated = TRUE]

\* The locked part of stopUser.
StopUser(r) == [r EXCEPT !.userTerminated = TRUE, !.terminate = FALSE]

\* c.cancel(), which both run after unlocking; only the first call counts.
Cancel(r, who) == [r EXCEPT !.cancelled = IF @ = "no" THEN who ELSE @]

\* Transport.Close: it closes the UDP socket it was given as well.
CloseTransport(r) == [r EXCEPT !.transport = "closed", !.udp = "closed"]

\* Meta carries a request out; a leg it has ended since stays ended.
MetaTaken(m) == IF m = "ended" THEN "ended" ELSE "open"

\* A request to Meta that may take effect there and still return an error.
MetaMayHold(m) == {m, MetaTaken(m)}

\* Mutant of Snapshot: it keeps the token the call was made with.
SnapshotFirstToken(r) ==
  LET tell == r.terminate /\ r.signaled
  IN  [r EXCEPT !.pc = IF tell THEN "terminate" ELSE "release",
                !.termToken = IF tell THEN "orig" ELSE "no"]

\* cleanup's locked snapshot: whether to tell Meta, and with which token.
Snapshot(r) ==
  LET tell == r.terminate /\ r.signaled
  IN  [r EXCEPT !.pc = IF tell THEN "terminate" ELSE "release",
                !.termToken = IF tell THEN r.token ELSE "no"]

\* Shutdown sweeps Manager.calls with m.mu held.
MuFree == proc # "sweep"

\* The HTTP server runs handlers until its own shutdown has waited for them;
\* those it gave up on, and their connections, keep running.
HandlersRun == proc \in {"serving", "http"} \/ expired = "http"

-----------------------------------------------------------------------------
(* Manager.Accept *)

Return(a) ==
  /\ rpc' = [rpc EXCEPT ![a] = "returned"]
  /\ on' = [on EXCEPT ![a] = NoCall]

\* p.Wait decides between waiting for c.ready and returning the room at once.
WaitOrReturn(a, c) ==
  \/ /\ rpc' = [rpc EXCEPT ![a] = "waiting"]
     /\ on' = [on EXCEPT ![a] = c]
  \/ Return(a)

AcceptCheck(a) ==
  /\ rpc[a] = "idle" /\ HandlersRun /\ MuFree
  /\ \/ draining /\ Return(a)
     \/ /\ ~draining /\ calls[IdOf[a]] # NoCall
        /\ WaitOrReturn(a, calls[IdOf[a]])
     \/ /\ ~draining /\ calls[IdOf[a]] = NoCall
        /\ rpc' = [rpc EXCEPT ![a] = "listen"]
        /\ UNCHANGED on
  /\ UNCHANGED <<mgrVars, call, stops, connects, mainVars>>

AcceptListen(a) ==
  /\ rpc[a] = "listen"
  /\ \/ /\ rpc' = [rpc EXCEPT ![a] = "negotiate"]
        /\ Set(a, [call[a] EXCEPT !.udp = "open"])
        /\ UNCHANGED on
     \/ Return(a) /\ UNCHANGED call
  /\ UNCHANGED <<mgrVars, stops, connects, mainVars>>

\* NewCertificate and ParseOfferAndAnswer; an error closes the socket.
AcceptNegotiate(a) ==
  /\ rpc[a] = "negotiate"
  /\ \/ /\ rpc' = [rpc EXCEPT ![a] = "register"]
        /\ Set(a, [call[a] EXCEPT !.transport = "new"])
        /\ UNCHANGED on
     \/ /\ Return(a)
        /\ Set(a, [call[a] EXCEPT !.udp = "closed"])
  /\ UNCHANGED <<mgrVars, stops, connects, mainVars>>

\* Mutant of Register: wg.Add is missing.
RegisterUncounted(c) ==
  /\ calls' = [calls EXCEPT ![IdOf[c]] = c]
  /\ Set(c, [call[c] EXCEPT !.pc = "bridge"])
  /\ UNCHANGED <<draining, wg>>

Register(c) ==
  /\ calls' = [calls EXCEPT ![IdOf[c]] = c]
  /\ wg' = wg + 1
  /\ Set(c, [call[c] EXCEPT !.pc = "bridge"])
  /\ UNCHANGED draining

\* Mutant of AcceptRegister: no second look at Manager.calls.
AcceptRegisterBlind(a) ==
  /\ rpc[a] = "register" /\ MuFree
  /\ Register(a)
  /\ WaitOrReturn(a, a)
  /\ UNCHANGED <<stops, connects, mainVars>>

\* The second look at Manager.calls, which does not look at draining again.
AcceptRegister(a) ==
  /\ rpc[a] = "register" /\ MuFree
  /\ \/ /\ calls[IdOf[a]] # NoCall
        /\ rpc' = [rpc EXCEPT ![a] = "discard"]
        /\ on' = [on EXCEPT ![a] = calls[IdOf[a]]]
        /\ UNCHANGED <<mgrVars, call>>
     \/ /\ calls[IdOf[a]] = NoCall
        /\ Register(a)
        /\ WaitOrReturn(a, a)
  /\ UNCHANGED <<stops, connects, mainVars>>

\* Mutants of AcceptDiscard: the socket stays open; it waits for the object
\* it discards.
AcceptDiscardOpen(a) ==
  /\ rpc[a] = "discard"
  /\ Set(a, Cancel(call[a], "self"))
  /\ WaitOrReturn(a, on[a])
  /\ UNCHANGED <<mgrVars, stops, connects, mainVars>>

AcceptDiscardOwn(a) ==
  /\ rpc[a] = "discard"
  /\ Set(a, Cancel(CloseTransport(call[a]), "self"))
  /\ WaitOrReturn(a, a)
  /\ UNCHANGED <<mgrVars, stops, connects, mainVars>>

\* Another request registered first: close what this one has made.
AcceptDiscard(a) ==
  /\ rpc[a] = "discard"
  /\ Set(a, Cancel(CloseTransport(call[a]), "self"))
  /\ WaitOrReturn(a, on[a])
  /\ UNCHANGED <<mgrVars, stops, connects, mainVars>>

\* wait returns an error: the request that made the call stops it.
WaitFailed(a) ==
  IF on[a] = a
  THEN rpc' = [rpc EXCEPT ![a] = "stop"] /\ UNCHANGED on
  ELSE Return(a)

AcceptReady(a) ==
  /\ rpc[a] = "waiting"
  /\ \/ call[on[a]].ready = "nil" /\ Return(a)
     \/ call[on[a]].ready = "err" /\ WaitFailed(a)
  /\ UNCHANGED <<mgrVars, call, stops, connects, mainVars>>

AcceptCallerGone(a) ==
  /\ rpc[a] = "waiting"
  /\ WaitFailed(a)
  /\ UNCHANGED <<mgrVars, call, stops, connects, mainVars>>

AcceptStop(a) ==
  /\ rpc[a] = "stop"
  /\ Set(a, StopBusiness(call[a]))
  /\ rpc' = [rpc EXCEPT ![a] = "cancel"]
  /\ UNCHANGED <<mgrVars, on, stops, connects, mainVars>>

AcceptCancel(a) ==
  /\ rpc[a] = "cancel"
  /\ Set(a, Cancel(call[a], "self"))
  /\ Return(a)
  /\ UNCHANGED <<mgrVars, stops, connects, mainVars>>

-----------------------------------------------------------------------------
(* Manager.Dial *)

DialCheck(d) ==
  /\ rpc[d] = "idle" /\ HandlersRun /\ MuFree
  /\ rpc' = [rpc EXCEPT ![d] = IF draining THEN "returned" ELSE "listen"]
  /\ UNCHANGED <<mgrVars, call, on, stops, connects, mainVars>>

DialListen(d) ==
  /\ rpc[d] = "listen"
  /\ \/ /\ rpc' = [rpc EXCEPT ![d] = "negotiate"]
        /\ Set(d, [call[d] EXCEPT !.udp = "open"])
     \/ /\ rpc' = [rpc EXCEPT ![d] = "returned"]
        /\ UNCHANGED call
  /\ UNCHANGED <<mgrVars, on, stops, connects, mainVars>>

\* NewCertificate and NewOffer; an error closes the socket.
DialNegotiate(d) ==
  /\ rpc[d] = "negotiate"
  /\ \/ /\ rpc' = [rpc EXCEPT ![d] = "dial"]
        /\ UNCHANGED call
     \/ /\ rpc' = [rpc EXCEPT ![d] = "returned"]
        /\ Set(d, [call[d] EXCEPT !.udp = "closed"])
  /\ UNCHANGED <<mgrVars, on, stops, connects, mainVars>>

\* meta.Dial.  On an error the call may have been placed all the same.
DialMeta(d) ==
  /\ rpc[d] = "dial"
  /\ \/ /\ rpc' = [rpc EXCEPT ![d] = "register"]
        /\ Set(d, [call[d] EXCEPT !.signaled = TRUE, !.meta = "open"])
     \/ \E m \in MetaMayHold(call[d].meta) :
          /\ rpc' = [rpc EXCEPT ![d] = "returned"]
          /\ Set(d, [call[d] EXCEPT !.udp = "closed", !.meta = m])
  /\ UNCHANGED <<mgrVars, on, stops, connects, mainVars>>

\* Mutant of DialRegister: no second look at draining.
DialRegisterAnyway(d) ==
  /\ rpc[d] = "register" /\ MuFree
  /\ rpc' = [rpc EXCEPT ![d] = "returned"]
  /\ Register(d)
  /\ UNCHANGED <<on, stops, connects, mainVars>>

\* Draining: stopBusiness and cleanup, of an object nobody else has seen.
DialRegister(d) ==
  /\ rpc[d] = "register" /\ MuFree
  /\ rpc' = [rpc EXCEPT ![d] = "returned"]
  /\ \/ ~draining /\ Register(d)
     \/ /\ draining
        /\ \E m \in {"open", "ended"} :
             Set(d, [SignalReady(Cancel(StopBusiness(call[d]), "self"), "err")
                           EXCEPT !.termToken = "orig", !.meta = m,
                                  !.udp = "closed"])
        /\ UNCHANGED mgrVars
  /\ UNCHANGED <<on, stops, connects, mainVars>>

-----------------------------------------------------------------------------
(* Manager.Connect, which brings Meta's answer to an outbound call *)

ConnectLookup(c) ==
  /\ HandlersRun /\ MuFree
  /\ calls[IdOf[c]] = c
  /\ connects' = connects \cup {<<c, "apply">>}
  /\ UNCHANGED <<mgrVars, call, rpc, on, stops, mainVars>>

\* cleanup reads c.transport without c.mu: it is certain to see what Connect
\* stored before cleanup's own hold of c.mu, and only that.
AfterSnapshot == {"terminate", "release", "delete", "wgdone", "done"}

ApplyAnswer(r) ==
  [r EXCEPT !.transport = IF r.pc \in AfterSnapshot THEN "late" ELSE "new",
            !.answered = TRUE]

ConnectApply(c) ==
  /\ <<c, "apply">> \in connects
  /\ LET rest == connects \ {<<c, "apply">>}
     IN \/ /\ \/ call[c].transport # "none" /\ UNCHANGED call
              \/ /\ call[c].transport = "none"
                 /\ Set(c, ApplyAnswer(call[c]))
           /\ \E wait \in {{}, {<<c, "wait">>}} : connects' = rest \cup wait
        \/ \* ApplyAnswer refuses the SDP
           /\ call[c].transport = "none"
           /\ connects' = rest
           /\ UNCHANGED call
  /\ UNCHANGED <<mgrVars, rpc, on, stops, mainVars>>

ConnectReady(c) ==
  /\ <<c, "wait">> \in connects
  /\ call[c].ready # "open"
  /\ connects' = connects \ {<<c, "wait">>}
  /\ UNCHANGED <<mgrVars, call, rpc, on, stops, mainVars>>

ConnectCallerGone(c) ==
  /\ <<c, "wait">> \in connects
  /\ connects' = connects \ {<<c, "wait">>}
  /\ UNCHANGED <<mgrVars, call, rpc, on, stops, mainVars>>

-----------------------------------------------------------------------------
(* Manager.Disconnect, and the goroutines LiveKit's callbacks start *)

\* A business disconnect always carries an API token.  A user disconnect
\* reports that Meta's leg is over.
DisconnectLookup(c, kind, withToken) ==
  /\ HandlersRun /\ MuFree
  /\ calls[IdOf[c]] = c
  /\ Cardinality(stops) < MaxStops
  /\ kind = "business" => withToken
  /\ stops' = stops \cup {[call |-> c, kind |-> kind,
                           at |-> IF withToken THEN "token" ELSE "flag"]}
  /\ Set(c, IF kind = "user" THEN [call[c] EXCEPT !.meta = "ended"]
                             ELSE call[c])
  /\ UNCHANGED <<mgrVars, rpc, on, connects, mainVars>>

\* OnDisconnected, or the agent left: closeDone and `go c.stopBusiness()'.
\* The room may call back before Connect has returned and after Close.
RoomDisconnected(c) ==
  /\ call[c].pc # "none"
  /\ Cardinality(stops) < MaxStops
  /\ Set(c, [call[c] EXCEPT !.bridge =
                IF @ = "up" \/ call[c].pc = "bridge" THEN "dropped" ELSE @])
  /\ stops' = stops \cup {[call |-> c, kind |-> "livekit", at |-> "flag"]}
  /\ UNCHANGED <<mgrVars, rpc, on, connects, mainVars>>

\* Mutant of StopStep: cancel runs before the flags are set.
StopStepCancelFirst(s) ==
  LET c == s.call
      rest == stops \ {s}
  IN \/ /\ s.at = "token"
        /\ Set(c, [call[c] EXCEPT !.token = "fresh"])
        /\ stops' = rest \cup {[s EXCEPT !.at = "flag"]}
     \/ /\ s.at = "flag"
        /\ Set(c, Cancel(call[c], s.kind))
        /\ stops' = rest \cup {[s EXCEPT !.at = "cancel"]}
     \/ /\ s.at = "cancel"
        /\ Set(c, IF s.kind = "user" THEN StopUser(call[c])
                                         ELSE StopBusiness(call[c]))
        /\ stops' = rest

StopStep(s) ==
  LET c == s.call
      rest == stops \ {s}
  IN \/ /\ s.at = "token"
        /\ Set(c, [call[c] EXCEPT !.token = "fresh"])
        /\ stops' = rest \cup {[s EXCEPT !.at = "flag"]}
     \/ /\ s.at = "flag"
        /\ Set(c, IF s.kind = "user" THEN StopUser(call[c])
                                         ELSE StopBusiness(call[c]))
        /\ stops' = rest \cup {[s EXCEPT !.at = "cancel"]}
     \/ /\ s.at = "cancel"
        /\ Set(c, Cancel(call[c], s.kind))
        /\ stops' = rest

Stop(s) ==
  /\ s \in stops
  /\ StopStep(s)
  /\ UNCHANGED <<mgrVars, rpc, on, connects, mainVars>>

-----------------------------------------------------------------------------
(* The goroutine of a registered call: runInbound and runOutbound *)

Goto(c, from, to) ==
  /\ call[c].pc = from
  /\ Set(c, [call[c] EXCEPT !.pc = to])

\* livekitbridge.Connect; on an error it has left the room again.
ConnectBridge(c) ==
  /\ call[c].pc = "bridge"
  /\ \/ Set(c, [call[c] EXCEPT !.bridge = "none", !.pc = "fail"])
     \/ Set(c, [call[c] EXCEPT !.bridge = IF @ = "none" THEN "up" ELSE @,
                   !.pc = IF Outbound(c) THEN "answer" ELSE "preaccept"])

\* Mutant of PreAccept: signaled is not set.
PreAcceptUnsignaled(c) ==
  /\ call[c].pc = "preaccept"
  /\ \/ Set(c, [call[c] EXCEPT !.meta = MetaTaken(call[c].meta),
                   !.transport = "started", !.pc = "media"])
     \/ \E m \in MetaMayHold(call[c].meta) :
          Set(c, [call[c] EXCEPT !.meta = m, !.pc = "fail"])

\* meta.PreAccept, then transport.Start.  On an error Meta may have taken it,
\* and a success may come back when the user has hung up meanwhile.
PreAccept(c) ==
  /\ call[c].pc = "preaccept"
  /\ \/ Set(c, [call[c] EXCEPT !.signaled = TRUE, !.meta = MetaTaken(call[c].meta),
                   !.transport = "started", !.pc = "media"])
     \/ \E m \in MetaMayHold(call[c].meta) :
          Set(c, [call[c] EXCEPT !.meta = m, !.pc = "fail"])

\* Mutant of AwaitAnswer: there is no timer.
AwaitAnswerForever(c) ==
  \/ call[c].cancelled # "no" /\ Goto(c, "answer", "cleanup")
  \/ /\ call[c].pc = "answer" /\ call[c].answered
     /\ Set(c, [call[c] EXCEPT !.transport = "started", !.pc = "media"])

\* runOutbound's select: the answer, the ringing timer, or the end of c.ctx.
AwaitAnswer(c) ==
  \/ Goto(c, "answer", "fail")
  \/ call[c].cancelled # "no" /\ Goto(c, "answer", "cleanup")
  \/ /\ call[c].pc = "answer" /\ call[c].answered
     /\ Set(c, [call[c] EXCEPT !.transport = "started", !.pc = "media"])

\* transport.Wait: ICE and DTLS came up, or an error, a timeout, the context.
WaitMedia(c) ==
  \/ Goto(c, "media", "fail")
  \/ /\ call[c].pc = "media"
     /\ Set(c, [call[c] EXCEPT !.transport = "up",
                   !.pc = IF Outbound(c) THEN "connected" ELSE "accept"])

\* meta.Accept.
MetaAccept(c) == Goto(c, "accept", "connected") \/ Goto(c, "accept", "fail")

Connected(c) ==
  /\ call[c].pc = "connected"
  /\ Set(c, SignalReady([call[c] EXCEPT !.pc = "relay"], "nil"))

\* Mutant of EndMaxDuration: no cap.
NoMaxDuration(c) == FALSE

\* awaitEnd's select.  The maximum duration always applies: envDuration
\* never yields a MaxCallDuration of zero or less.
EndCancelled(c) == call[c].cancelled # "no" /\ Goto(c, "relay", "cleanup")
EndLiveKitClosed(c) == call[c].bridge = "dropped" /\ Goto(c, "relay", "stop")
EndMediaStopped(c) == Goto(c, "relay", "stop")
EndMaxDuration(c) == Goto(c, "relay", "stop")

\* fail, and then the stopBusiness that fail and awaitEnd run.
Fail(c) ==
  /\ call[c].pc = "fail"
  /\ Set(c, SignalReady([call[c] EXCEPT !.pc = "stop"], "err"))

StopSelf(c) ==
  /\ call[c].pc = "stop"
  /\ Set(c, StopBusiness([call[c] EXCEPT !.pc = "cancel"]))

CancelSelf(c) ==
  /\ call[c].pc = "cancel"
  /\ Set(c, Cancel([call[c] EXCEPT !.pc = "cleanup"], "self"))

\* finish: cleanup, then Manager.calls, then Manager.wg.  cleanup releases the
\* waiters before it takes its snapshot.
Cleanup(c) ==
  /\ call[c].pc = "cleanup"
  /\ Set(c, SignalReady([call[c] EXCEPT !.pc = "snapshot"], "err"))

TakeSnapshot(c) ==
  /\ call[c].pc = "snapshot"
  /\ Set(c, Snapshot(call[c]))

Terminate(c) ==
  /\ call[c].pc = "terminate"
  /\ \E m \in {call[c].meta, "ended"} :
       Set(c, [call[c] EXCEPT !.meta = m, !.pc = "release"])

\* Mutant of Release: the socket of a call without a transport stays open.
ReleaseTransportOnly(c) ==
  LET closed == [call[c] EXCEPT !.pc = "delete",
                   !.bridge = IF @ = "none" THEN @ ELSE "closed"]
  IN /\ call[c].pc = "release"
     /\ \/ /\ call[c].transport # "none"
           /\ Set(c, CloseTransport(closed))
        \/ /\ call[c].transport \in {"none", "late"}
           /\ Set(c, closed)

\* A "late" transport may be missed; it was never started and owns nothing.
Release(c) ==
  LET closed == [call[c] EXCEPT !.pc = "delete",
                   !.bridge = IF @ = "none" THEN @ ELSE "closed"]
      noMedia == [closed EXCEPT !.udp = "closed"]
  IN /\ call[c].pc = "release"
     /\ \/ /\ call[c].transport # "none"
           /\ Set(c, CloseTransport(closed))
        \/ /\ call[c].transport \in {"none", "late"}
           /\ Set(c, noMedia)

Delete(c) ==
  /\ MuFree
  /\ Goto(c, "delete", "wgdone")
  /\ calls' = [calls EXCEPT ![IdOf[c]] = NoCall]
  /\ UNCHANGED <<draining, wg>>

WgDone(c) ==
  /\ Goto(c, "wgdone", "done")
  /\ wg' = wg - 1
  /\ UNCHANGED <<calls, draining>>

-----------------------------------------------------------------------------
(* main, after SIGINT or SIGTERM *)

\* Mutant of InFlight: main does not wait for the HTTP server's handlers.
InFlightIgnored == FALSE

\* A handler the HTTP server waits for.
InFlight ==
  \/ \E r \in Reqs : rpc[r] \notin {"idle", "returned"}
  \/ connects # {}
  \/ \E s \in stops : s.kind \in {"user", "business"}

Signal ==
  /\ proc = "serving"
  /\ proc' = "http"
  /\ UNCHANGED <<mgrVars, call, rpc, on, stops, connects, expired>>

WindowExpires ==
  /\ proc \in {"http", "sweep", "wait"} /\ expired = "no"
  /\ expired' = IF proc = "http" THEN "http" ELSE "manager"
  /\ UNCHANGED <<mgrVars, call, rpc, on, stops, connects, proc>>

\* server.Shutdown returns and Manager.Shutdown takes m.mu.
BeginDrain ==
  /\ proc = "http"
  /\ ~InFlight \/ expired # "no"
  /\ proc' = "sweep"
  /\ draining' = TRUE
  /\ stops' = stops \cup
       {[call |-> c, kind |-> "shutdown", at |-> "flag"] :
          c \in {x \in Reqs : calls[IdOf[x]] = x}}
  /\ UNCHANGED <<calls, wg, call, rpc, on, connects, expired>>

EndSweep ==
  /\ proc = "sweep"
  /\ \A s \in stops : s.kind # "shutdown"
  /\ proc' = "wait"
  /\ UNCHANGED <<mgrVars, call, rpc, on, stops, connects, expired>>

\* wg.Wait is over, or the window is; main returns and the process ends.
Exit ==
  /\ proc = "wait"
  /\ wg = 0 \/ expired # "no"
  /\ proc' = "exited"
  /\ UNCHANGED <<mgrVars, call, rpc, on, stops, connects, expired>>

-----------------------------------------------------------------------------
\* The steps of a handler that depend on nobody else.
AcceptStep(a) ==
  \/ AcceptListen(a) \/ AcceptNegotiate(a) \/ AcceptRegister(a)
  \/ AcceptDiscard(a) \/ AcceptReady(a) \/ AcceptStop(a) \/ AcceptCancel(a)

DialStep(d) ==
  DialListen(d) \/ DialNegotiate(d) \/ DialMeta(d) \/ DialRegister(d)

\* The steps of a call's goroutine, its timers included.  Media that stops
\* (EndMediaStopped) is the network's doing and is not among them.
RunLocal(c) ==
  \/ ConnectBridge(c) \/ PreAccept(c) \/ AwaitAnswer(c) \/ WaitMedia(c)
  \/ MetaAccept(c) \/ Connected(c) \/ EndCancelled(c) \/ EndLiveKitClosed(c)
  \/ EndMaxDuration(c) \/ Fail(c) \/ StopSelf(c) \/ CancelSelf(c)
  \/ Cleanup(c) \/ TakeSnapshot(c) \/ Terminate(c) \/ Release(c)

RunStep(c) ==
  /\ \/ RunLocal(c) /\ UNCHANGED mgrVars
     \/ Delete(c) \/ WgDone(c)
  /\ UNCHANGED <<rpc, on, stops, connects, mainVars>>

MediaStops(c) ==
  /\ EndMediaStopped(c)
  /\ UNCHANGED <<mgrVars, rpc, on, stops, connects, mainVars>>

StopsOf(c, kind) ==
  \E s \in stops : s.call = c /\ s.kind = kind /\ Stop(s)

MainStep == WindowExpires \/ BeginDrain \/ EndSweep \/ Exit

Running == proc # "exited"

Next ==
  \/ /\ Running
     /\ \/ \E a \in AcceptReqs :
             AcceptCheck(a) \/ AcceptStep(a) \/ AcceptCallerGone(a)
        \/ \E d \in DialReqs : DialCheck(d) \/ DialStep(d)
        \/ \E c \in DialReqs : \/ ConnectLookup(c) \/ ConnectApply(c)
                               \/ ConnectReady(c) \/ ConnectCallerGone(c)
        \/ \E c \in Reqs, kind \in {"user", "business"}, t \in BOOLEAN :
             DisconnectLookup(c, kind, t)
        \/ \E c \in Reqs : RoomDisconnected(c)
        \/ \E s \in stops : Stop(s)
        \/ \E c \in Reqs : RunStep(c) \/ MediaStops(c)
        \/ Signal \/ MainStep
  \/ proc = "exited" /\ UNCHANGED vars

Spec == Init /\ [][Next]_vars

(***************************************************************************)
(* What the Go scheduler, the timers and the timeouts of the calls a step   *)
(* makes (Meta's HTTP client, the LiveKit SDK, transport.Wait) guarantee.   *)
(* Nothing is assumed of callers, of Meta's webhooks, of LiveKit or of the  *)
(* network: requests, Disconnects, answers and lost media may never come.   *)
(***************************************************************************)
Fairness ==
  /\ \A c \in Reqs : WF_vars(Running /\ RunStep(c))
  /\ \A a \in AcceptReqs : WF_vars(Running /\ AcceptStep(a))
  /\ \A d \in DialReqs : WF_vars(Running /\ DialStep(d))
  /\ \A c \in Reqs, kind \in StopKinds : WF_vars(Running /\ StopsOf(c, kind))
  /\ WF_vars(Running /\ MainStep)

FairSpec == Spec /\ Fairness

-----------------------------------------------------------------------------
\* Every variable holds what its declaration says.
TypeOK ==
  /\ calls \in [CallIDs -> Reqs \cup {NoCall}]
  /\ draining \in BOOLEAN
  /\ wg \in Nat
  /\ call \in [Reqs -> CallType]
  /\ rpc \in [Reqs -> RpcLocs]
  /\ on \in [AcceptReqs -> Reqs \cup {NoCall}]
  /\ stops \subseteq StopType
  /\ connects \subseteq DialReqs \X {"apply", "wait"}
  /\ proc \in {"serving", "http", "sweep", "wait", "exited"}
  /\ expired \in {"no", "http", "manager"}

\* A call is between its registration and its removal from Manager.calls.
Live(c) == call[c].pc \notin {"none", "wgdone", "done"}

\* The calls Manager.wg counts.
Counted == {c \in Reqs : call[c].pc \notin {"none", "done"}}

\* Manager.calls and the goroutines agree: a call's goroutine runs exactly
\* while its id maps to it.  So one WhatsApp call never has two goroutines,
\* whatever duplicate Accepts do between Accept's two looks at the map, and
\* finish never deletes the entry of a later call with the same id.
MapTracksLive == \A c \in Reqs : Live(c) <=> calls[IdOf[c]] = c

\* Manager.wg counts the goroutines, so Shutdown waits for all of them and
\* Done never takes the counter below zero (which panics).
WgCounts == wg = Cardinality(Counted)

\* A hang-up Meta reported, when it is what ends the call, is never answered
\* with a Terminate, however many stopBusiness runs race with it.
UserHangupNotRepeated ==
  \A c \in Reqs : call[c].cancelled = "user" => call[c].termToken = "no"

\* A call Meta knows to be set up (signaled) does not end without a Terminate
\* unless Meta reported the hang-up: every way out of runInbound, runOutbound
\* and Dial sets terminate before cleanup reads it.
NoSilentDrop ==
  \A c \in Reqs :
    (/\ \/ call[c].pc \in {"release", "delete", "wgdone", "done"}
        \/ call[c].pc = "none" /\ rpc[c] = "returned"
     /\ call[c].signaled /\ ~call[c].userTerminated)
    => call[c].termToken # "no"

\* A business Disconnect that ends a call has its token used: cleanup sends
\* Terminate with the rotated token, never with the one it replaced.
FreshTokenUsed ==
  \A c \in Reqs :
    call[c].cancelled = "business" => call[c].termToken # "orig"

\* The resources of a Call object that is finished, or that its request gave
\* up before registering it: socket closed, no transport running, room left.
Held(c) ==
  \/ call[c].udp = "open"
  \/ call[c].transport \in {"new", "started", "up"}
  \/ call[c].bridge \in {"up", "dropped"}

\* No exit path of Accept, Dial or a call's goroutine leaks what it opened:
\* neither the error returns, nor the discarded duplicate, nor a Connect that
\* installs a transport while cleanup runs.
ResourcesReleased ==
  \A c \in Reqs :
    (\/ call[c].pc \in {"delete", "wgdone", "done"}
     \/ call[c].pc = "none" /\ rpc[c] = "returned")
    => ~Held(c)

\* A waiter is told nil only about a call that Meta knows, whose media came up
\* and whose room was joined; and the result it is told never turns to nil
\* for a call that skipped `connected'.
ReadyMeansUp ==
  \A c \in Reqs :
    call[c].ready = "nil" =>
      /\ call[c].signaled
      /\ call[c].transport \in {"up", "closed"}
      /\ call[c].bridge # "none"

\* An Accept waits only for a call that still has a signalReady to come, or
\* has had it: the call cleanup has finished with is never waited for in vain,
\* and neither is a duplicate Accept's own discarded object.
NoLostWaiter ==
  \A a \in AcceptReqs :
    rpc[a] = "waiting" =>
      /\ on[a] \in Reqs
      /\ \/ call[on[a]].ready # "open"
         \/ call[on[a]].pc \notin AfterSnapshot \cup {"none"}

\* A shutdown that ends within its window leaves nothing behind: no goroutine,
\* no socket, no room, no handler.
CleanExit ==
  proc = "exited" /\ expired = "no" =>
    /\ Counted = {}
    /\ calls = [i \in CallIDs |-> NoCall]
    /\ \A c \in Reqs : ~Held(c)

\* Once the manager drains no outbound call is registered, and the call Meta
\* has already placed is terminated instead (Dial's second look at draining).
DrainStopsDials ==
  [][draining => \A d \in DialReqs :
                   call[d].pc = "none" => call'[d].pc = "none"]_vars

\* A Call object as its waiters and Meta see it.
LifeOf(r) ==
  [at |-> IF r.pc = "none" THEN "idle"
          ELSE IF r.pc \in {"wgdone", "done"} THEN "over" ELSE "live",
   told |-> r.ready, signaled |-> r.signaled, hungUp |-> r.userTerminated,
   verdict |-> IF r.termToken # "no" THEN "terminate"
               ELSE IF r.pc \in AfterSnapshot THEN "silent" ELSE "open"]

lives == [c \in Reqs |-> LifeOf(call[c])]

Life == INSTANCE CallLife WITH Calls <- Reqs, life <- lives

\* All handlers, goroutines, callbacks and sweeps together give each call the
\* life CallLife describes: one call of an id at a time, waiters told once and
\* the truth, and one decision about Terminate that is right when it is taken.
LivesAsPromised == Life!Spec

\* A call LiveKit ended, whose leg Meta holds open, has been told to Meta
\* (manager_test.go: "Meta call must be terminated when LiveKit side closes").
LegTerminatedOnLiveKitClose ==
  \A c \in Reqs :
    (/\ call[c].pc = "done"
     /\ call[c].cancelled = "livekit"
     /\ call[c].meta = "open")
    => call[c].termToken # "no"

\* Every registered call ends, unless the process exits first: the maximum
\* duration ends the calls nothing else does.
CallsEnd ==
  \A c \in Reqs :
    call[c].pc = "bridge" ~> call[c].pc = "done" \/ proc = "exited"

\* An Accept that waits gets its answer even if its caller never gives up.
WaitersAnswered ==
  \A a \in AcceptReqs :
    rpc[a] = "waiting" ~> rpc[a] = "returned" \/ proc = "exited"
=============================================================================
