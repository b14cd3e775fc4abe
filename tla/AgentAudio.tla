----------------------------- MODULE AgentAudio -----------------------------
(***************************************************************************)
(* The agent's audio of one call: the negotiation with Meta, the bridge, and  *)
(* writeToMeta between them (internal/call/manager.go).  The bridge is         *)
(* connected before the media is up, and on an outbound call before Meta has   *)
(* answered, so the agent may speak first.                                    *)
(***************************************************************************)
EXTENDS Sdp, Bridge

CONSTANT Descriptions  \* the offers or answers Meta may send

ASSUME DescriptionAssumption == Descriptions \subseteq Description

VARIABLES
  outbound,     \* Call.outbound
  negotiation,  \* Call.negotiation, NoNegotiation for none
  otherType,    \* Meta has sent an answer, accepted or not, that names another
                \* payload type than the offer
  taken,        \* the description the transport was made with, if any
  payload,      \* Config.PayloadType of the bridge, NotConnected before
  media,        \* Call.transport: "none", or as in MediaLeg; "refused" after an
                \* Accept that makes no call
  sentAs        \* the payload types of the packets sent to Meta

callVars == <<outbound, negotiation, otherType, taken, payload, media, sentAs>>
vars == <<bridgeVars, callVars>>

NotConnected == -1

\* Dial has made its offer; Accept has not seen its one yet.
Init ==
  /\ BridgeInit
  /\ outbound \in BOOLEAN
  /\ negotiation = IF outbound THEN NewOffer ELSE NoNegotiation
  /\ otherType = FALSE /\ taken = {}
  /\ payload = NotConnected
  /\ media = "none"
  /\ sentAs = {}

\* The Accept of an inbound call: an offer that is not answered makes no call.
Accept(d) ==
  /\ ~outbound /\ media = "none"
  /\ \/ /\ Answerable(d)
        /\ negotiation' = ParseOfferAndAnswer(d)
        /\ taken' = {d} /\ media' = "new"
     \/ /\ ~Answerable(d)
        /\ media' = "refused"
        /\ UNCHANGED <<negotiation, taken>>
  /\ UNCHANGED <<bridgeVars, outbound, otherType, payload, sentAs>>

NamesOtherType(d) ==
  Acceptable(d) /\ Remote(NoNegotiation, d).payload # OfferedPayload

\* Manager.Connect: an answer for an outbound call that has none yet.
Connect(d) ==
  /\ outbound /\ media = "none"
  /\ negotiation' = ApplyAnswer(negotiation, d)
  /\ otherType' = (otherType \/ NamesOtherType(d))
  /\ \/ Accepted(d) /\ taken' = {d} /\ media' = "new"
     \/ ~Accepted(d) /\ UNCHANGED <<taken, media>>
  /\ UNCHANGED <<bridgeVars, outbound, payload, sentAs>>

\* Mutant of ConnectBridge: the payload type of an offer, also for an answer.
ConnectBridgeOffered ==
  /\ payload = NotConnected
  /\ outbound \/ taken # {}
  /\ payload' = OfferedPayload
  /\ UNCHANGED <<bridgeVars, outbound, negotiation, otherType, taken, media, sentAs>>

\* connectBridge, first thing in runInbound and runOutbound.  The latter reads
\* the payload type without c.mu, before or after answers are applied.
ConnectBridge ==
  /\ payload = NotConnected
  /\ outbound \/ taken # {}
  /\ payload' = negotiation.payload
  /\ UNCHANGED <<bridgeVars, outbound, negotiation, otherType, taken, media, sentAs>>

Leg == INSTANCE MediaLeg

\* The transport is set up, fails to, loses its connection or is closed, as a
\* Transport does.
MediaStep ==
  /\ Leg!Step
  /\ UNCHANGED <<bridgeVars, outbound, negotiation, otherType, taken, payload, sentAs>>

\* writeToMeta, TryWriteRTP and the endpoint's WriteTo.  Errors of a transport
\* that failed, is lost or is closed are fatal or not, as they come (io.EOF of
\* a closed endpoint is).  While mux.Close or Close is under way a packet may
\* still get out, and ready may still be open.
WriteOutcomes ==
  CASE media = "up" -> {"sent", "failed"}
    [] media = "lost" -> {"sent", "failed", "fatal"}
    [] media = "failed" -> {"failed", "fatal"}
    [] media = "closed" -> {"sent", "dropped", "failed", "fatal"}
    [] OTHER -> {"dropped"}

\* The packet carries the bridge's payload type.
Forward(t) ==
  /\ \E outcome \in WriteOutcomes :
       /\ Written(t, outcome)
       /\ sentAs' = IF outcome = "sent" THEN sentAs \cup {payload} ELSE sentAs
  /\ UNCHANGED <<outbound, negotiation, otherType, taken, payload, media>>

RoomStep(t) ==
  /\ \/ Subscribed(t) /\ payload # NotConnected
     \/ TrackEnds(t) \/ Unsubscribed(t)
     \/ TakeSlot(t) \/ ReadTrack(t) \/ Exit(t)
  /\ UNCHANGED callVars

Done == media = "closed" /\ \A t \in Tracks : fwd[t] \in {"none", "gone", "refused"}

Next ==
  \/ \E d \in Descriptions : Accept(d) \/ Connect(d)
  \/ ConnectBridge \/ MediaStep
  \/ \E t \in Tracks : Forward(t) \/ RoomStep(t)
  \/ (Done \/ media = "refused") /\ UNCHANGED vars

Spec == Init /\ [][Next]_vars

-----------------------------------------------------------------------------
\* Refused answers leave no trace: the transport of an outbound call starts
\* with exactly what the answer it was made with says, roles included, though
\* an answer refused for its role has been written into the same Negotiation
\* (sdp.go:127).
AnswerWhole ==
  \A d \in taken :
    negotiation = IF outbound THEN ApplyAnswer(NewOffer, d) ELSE ParseOfferAndAnswer(d)

\* Agent audio goes out under the payload type Meta agreed to.  Only on an
\* outbound call can it differ, as its bridge may be connected before the
\* answer (manager.go:289), and only if Meta sent an answer, accepted or not,
\* that names another type than the offer.
PayloadAgrees ==
  \A pt \in sentAs :
    \/ pt = negotiation.payload
    \/ outbound /\ otherType

\* A forwarder that has the slot ends only with its track or with the media
\* path, that is when set-up failed, the connection under the mux is gone or
\* the transport was closed, none of which is ever undone: an agent who speaks
\* before Meta has answered, before the media is up or while sends fail loses
\* packets, never the rest of the call (bridge.go:169, 179).
EndsOnlyWithMedia ==
  \A t \in Tracks :
    fwd[t] \in {"exit", "gone"} =>
      t \in ended \/ media \in {"lost", "failed", "closed"}
=============================================================================
