----------------------------- MODULE MediaPath -----------------------------
(***************************************************************************)
(* The way of a packet from Meta: network, packet mux, SRTP or SRTCP session, *)
(* stream, reader, queue, relay.  PacketMux and MediaQueue composed, with the *)
(* DTLS handshake and the sessions between them.                             *)
(*                                                                         *)
(* The sessions are a library's (pion), modelled by what the comments of      *)
(* transport.go rely on: a session reads its endpoint, but a packet of a new  *)
(* SSRC waits for AcceptStream, and one for a stream that is not read waits   *)
(* too, with everything behind it (transport.go:166, 325).                   *)
(***************************************************************************)
EXTENDS MediaQueue

CONSTANT EndpointSize  \* capacity of an endpoint, 128 in the code

ASSUME EndpointAssumption == EndpointSize \in Nat \ {0}

VARIABLES
  loop, hand, packets, epClosed, mux, connFails,  \* see PacketMux
  phase,     \* "handshake", "up" or "failed"
  session,   \* each session: "none", "up" or "over"
  sent       \* packets the network has brought, MaxPackets at most

Mux == INSTANCE PacketMux

sessionVars == <<phase, session>>
muxVars == <<loop, hand, packets, epClosed, mux, connFails>>
vars == <<queueVars, muxVars, sessionVars, sent>>

Sessions == {"srtp", "srtcp"}

\* What the network may bring: STUN and the like reach no endpoint.
Wire ==
  {[to |-> "none"], [to |-> "dtls"], [to |-> "srtcp", ssrc |-> "rtcp"]}
    \cup {[to |-> "srtp", ssrc |-> s] : s \in SSRCs}

Init ==
  /\ QueueInit
  /\ Mux!Init
  /\ phase = "handshake"
  /\ session = [k \in Sessions |-> "none"]
  /\ sent = 0

-----------------------------------------------------------------------------
(* The mux *)

Receive ==
  /\ sent < MaxPackets /\ sent' = sent + 1
  /\ \E p \in Wire : Mux!Read(p)
  /\ UNCHANGED <<queueVars, sessionVars>>

MuxLoop == Mux!LoopStep /\ UNCHANGED <<queueVars, sessionVars, sent>>

MuxCloses == Mux!CloseRest /\ UNCHANGED <<queueVars, sessionVars, sent>>

NetworkFails == Mux!ConnFails /\ UNCHANGED <<queueVars, sessionVars, sent>>

\* Transport.Close, which follows the end of the context.
CloseTransport ==
  /\ ctxDone /\ Mux!Close
  /\ UNCHANGED <<queueVars, sessionVars, sent>>

-----------------------------------------------------------------------------
(* DTLS *)

\* The DTLS connection reads its endpoint, during the handshake and after it.
ReadDTLS ==
  /\ Mux!Take("dtls")
  /\ UNCHANGED <<queueVars, sessionVars, sent>>

\* The handshake succeeds and the sessions are made, or it fails or times out.
HandshakeEnds ==
  /\ phase = "handshake"
  /\ \/ phase' = "up" /\ session' = [k \in Sessions |-> "up"]
     \/ phase' = "failed" /\ UNCHANGED session
  /\ UNCHANGED <<queueVars, muxVars, sent>>

-----------------------------------------------------------------------------
(* The sessions *)

\* The SSRC of the next packet of a session.
Waiting(k) == session[k] = "up" /\ packets[k] # <<>>
NextSSRC(k) == Head(packets[k]).ssrc

AcceptRTP ==
  /\ Waiting("srtp") /\ Accept(NextSSRC("srtp"))
  /\ UNCHANGED <<muxVars, sessionVars, sent>>

AcceptRTCP ==
  /\ Waiting("srtcp") /\ DrainAccept
  /\ UNCHANGED <<muxVars, sessionVars, sent>>

DeliverTo(s) ==
  /\ Waiting("srtp") /\ NextSSRC("srtp") = s
  /\ Mux!Take("srtp") /\ (ReadPacket(s) \/ ReadMalformed(s))
  /\ UNCHANGED <<sessionVars, sent>>

DeliverToRTCP ==
  /\ Waiting("srtcp")
  /\ Mux!Take("srtcp") /\ DrainRead
  /\ UNCHANGED <<sessionVars, sent>>

SessionReads == DeliverToRTCP \/ \E s \in SSRCs : DeliverTo(s)

\* The endpoint is closed.
SessionEnds(k) ==
  /\ session[k] = "up" /\ Mux!EOF(k)
  /\ session' = [session EXCEPT ![k] = "over"]
  /\ UNCHANGED <<queueVars, muxVars, phase, sent>>

\* With its session go the accept loops and the streams.
SessionOver ==
  /\ \/ session["srtp"] = "over" /\ (AcceptFails \/ \E s \in SSRCs : ReadEnds(s))
     \/ session["srtcp"] = "over" /\ DrainEnds
  /\ UNCHANGED <<muxVars, sessionVars, sent>>

-----------------------------------------------------------------------------
\* Steps of MediaQueue alone; the relay runs once the media is up.
Pumping ==
  /\ \E s \in SSRCs : ReaderStep(s)
  /\ UNCHANGED <<muxVars, sessionVars, sent>>

RelayReads ==
  /\ phase = "up" /\ (RelayTake \/ RelayStops)
  /\ UNCHANGED <<muxVars, sessionVars, sent>>

RelayOther ==
  /\ phase = "up" /\ (RelayExpires \/ RelayWrite)
  /\ UNCHANGED <<muxVars, sessionVars, sent>>

Observes == Observe /\ UNCHANGED <<muxVars, sessionVars, sent>>

CancelCall == EndContext /\ UNCHANGED <<muxVars, sessionVars, sent>>

Over ==
  /\ mux = "closed" /\ loop = "done" /\ phase # "handshake"
  /\ phase = "up" => relay = "ended" /\ pump = "done" /\ drain = "ended"

Next ==
  \/ Receive \/ MuxLoop \/ MuxCloses \/ NetworkFails \/ CloseTransport
  \/ ReadDTLS \/ HandshakeEnds
  \/ AcceptRTP \/ AcceptRTCP \/ SessionReads \/ SessionOver
  \/ \E k \in Sessions : SessionEnds(k)
  \/ Pumping \/ RelayReads \/ RelayOther \/ Observes \/ CancelCall
  \/ Over /\ UNCHANGED vars

\* The goroutines run on.  Nothing is assumed of the network, of the peer, of
\* the timers, of who closes, of observeRTCP, or of the return of WriteFromMeta.
Spec ==
  /\ Init /\ [][Next]_vars
  /\ WF_vars(MuxLoop) /\ WF_vars(MuxCloses)
  /\ WF_vars(ReadDTLS) /\ WF_vars(AcceptRTP) /\ WF_vars(AcceptRTCP)
  /\ WF_vars(SessionOver)
  /\ WF_vars(DeliverToRTCP)
  /\ \A k \in Sessions : WF_vars(SessionEnds(k))
  /\ \A s \in SSRCs :
       /\ WF_vars(DeliverTo(s))
       /\ WF_vars(ReaderStep(s) /\ UNCHANGED <<muxVars, sessionVars, sent>>)
  /\ WF_vars(RelayReads)

-----------------------------------------------------------------------------
\* Once the sessions are up readLoop never stays with a packet in its hand: no
\* reader that falls behind, relay that hangs in LiveKit or unread report
\* backs up into the mux that DTLS, RTP and RTCP share (transport.go:166, 325).
NoStall == (phase = "up" /\ loop = "put") ~> loop # "put"

\* Close ends readLoop wherever it is, also at a full endpoint nobody reads,
\* as during a handshake (transport.go:622).
LoopEnds == mux # "open" ~> loop = "done"

\* A connection that fails under a running call ends its relay, without the
\* help of a timer: readLoop closes the mux, the sessions end, acceptLoop
\* closes pumpDone and ReadRTP returns.  Only a relay inside LiveKit may stay.
FailureReachesRelay ==
  (phase = "up" /\ connFails) ~> relay \in {"ended", "write"}
=============================================================================
