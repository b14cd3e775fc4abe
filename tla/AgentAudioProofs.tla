-------------------------- MODULE AgentAudioProofs --------------------------
(***************************************************************************)
(* AgentAudio, for every set of tracks with every sharing of SIDs, and for     *)
(* every set of descriptions that Meta may send.                              *)
(***************************************************************************)
EXTENDS AgentAudio, TLAPS

\* The slot belongs to the forwarder of a subscribed track.
SlotKept ==
  \A t \in Tracks :
    Forwarding(t) /\ t \notin unsubscribed => activeTrack = SidOf[t] \/ Resubscribed

BridgeInv == BridgeTypeOK /\ SlotKept /\ NoStaleSlot

\* A Negotiation is given by its fields.
Shaped(n) ==
  n = [fingerprint |-> n.fingerprint, remoteSetup |-> n.remoteSetup,
       ufrag |-> n.ufrag, pwd |-> n.pwd, candidates |-> n.candidates,
       payload |-> n.payload, localSetup |-> n.localSetup, isClient |-> n.isClient]

\* The transport is made with the one description taken.  Until an answer
\* names another payload type, offer, negotiation and bridge have the same;
\* an inbound call has one from the start.
CallInv ==
  /\ outbound \in BOOLEAN /\ otherType \in BOOLEAN
  /\ media \in {"none", "refused", "new", "up", "lost", "failed", "closed"}
  /\ taken = {} <=> media \in {"none", "refused"}
  /\ Shaped(negotiation)
  /\ outbound /\ ~otherType =>
       /\ negotiation.payload = OfferedPayload
       /\ payload \in {NotConnected, OfferedPayload}
  /\ ~outbound /\ payload # NotConnected =>
       taken # {} /\ payload = negotiation.payload
  /\ sentAs \subseteq {payload}
  /\ sentAs # {} => taken # {}
  /\ payload = NotConnected =>
       sentAs = {} /\ \A t \in Tracks : fwd[t] = "none"

IInv == BridgeInv /\ CallInv /\ AnswerWhole /\ EndsOnlyWithMedia

-----------------------------------------------------------------------------
(* The bridge *)

\* What each step of a forwarder or a callback does to the slot.
LEMMA BridgeStep ==
  ASSUME BridgeInv, NEW x \in Tracks,
         \/ Subscribed(x) \/ TrackEnds(x) \/ Unsubscribed(x) \/ TakeSlot(x)
         \/ ReadTrack(x) \/ Exit(x) \/ \E o : Written(x, o)
  PROVE  BridgeInv'
<1>t. BridgeTypeOK /\ SlotKept /\ NoStaleSlot
  BY DEF BridgeInv
<1>1. BridgeTypeOK'
  BY <1>t DEF BridgeTypeOK, FwdLocs, Subscribed, TrackEnds, Unsubscribed, TakeSlot,
    ReadTrack, Exit, Written, Move
<1>2. \A t \in Tracks : fwd[t] # "none" => fwd'[t] # "none"
  BY <1>t DEF BridgeTypeOK, FwdLocs, Subscribed, TrackEnds, Unsubscribed, TakeSlot,
    ReadTrack, Exit, Written, Move
<1>3. Resubscribed => Resubscribed'
  BY <1>2 DEF Resubscribed
<1>4. \A t \in Tracks : Forwarding(t)' /\ t \notin unsubscribed' =>
        t \notin unsubscribed /\ (Forwarding(t) \/ t = x)
  BY <1>t DEF BridgeTypeOK, FwdLocs, Subscribed, TrackEnds, Unsubscribed, TakeSlot,
    ReadTrack, Exit, Written, Move, Forwarding
<1>5. \A t \in Tracks \ {x} :
        SidOf[t] = SidOf[x] /\ fwd[t] # "none" /\ fwd[x] # "none" => Resubscribed
  BY DEF Resubscribed
<1>6. CASE Unsubscribed(x) \/ Exit(x)
  <2>1. /\ fwd[x] # "none"
        /\ activeTrack' = IF activeTrack = SidOf[x] THEN NoSid ELSE activeTrack
        /\ \A t \in Tracks \ {x} : fwd'[t] = fwd[t]
        /\ Unsubscribed(x) => x \in unsubscribed' /\ UNCHANGED fwd
        /\ Exit(x) => fwd'[x] = "gone" /\ fwd[x] = "exit"
    BY <1>6, <1>t DEF Unsubscribed, Exit, Move, BridgeTypeOK
  <2>2. SlotKept'
    BY <1>t, <1>3, <1>4, <1>5, <1>6, <2>1 DEF SlotKept, Forwarding
  <2>3. NoStaleSlot'
    BY <1>t, <1>6, <2>1 DEF NoStaleSlot
  <2> QED BY <1>1, <2>2, <2>3 DEF BridgeInv
<1>7. CASE TakeSlot(x)
  <2>1. /\ \A t \in Tracks \ {x} : fwd'[t] = fwd[t]
        /\ fwd[x] = "start"
        /\ \/ activeTrack = NoSid /\ fwd'[x] = "read" /\ activeTrack' = SidOf[x]
           \/ activeTrack # NoSid /\ fwd'[x] = "refused" /\ activeTrack' = activeTrack
    BY <1>7, <1>t DEF TakeSlot, Move, BridgeTypeOK
  <2>2. SlotKept'
    BY <1>t, <1>3, <1>4, <2>1, BridgeAssumption DEF SlotKept, Forwarding
  <2>3. NoStaleSlot'
    BY <1>t, <2>1 DEF NoStaleSlot
  <2> QED BY <1>1, <2>2, <2>3 DEF BridgeInv
<1>8. CASE \/ Subscribed(x) \/ TrackEnds(x) \/ ReadTrack(x) \/ \E o : Written(x, o)
  <2>1. /\ UNCHANGED activeTrack
        /\ \A t \in Tracks \ {x} : fwd'[t] = fwd[t]
        /\ fwd[x] \in {"read", "write", "exit"} => fwd'[x] \in {"read", "write", "exit"}
        /\ fwd'[x] \in {"read", "write"} => fwd[x] \in {"read", "write"}
    BY <1>8, <1>t DEF Subscribed, TrackEnds, ReadTrack, Written, Move, BridgeTypeOK
  <2>2. SlotKept'
    BY <1>t, <1>3, <1>4, <2>1 DEF SlotKept, Forwarding
  <2>3. NoStaleSlot'
    BY <1>t, <2>1 DEF NoStaleSlot
  <2> QED BY <1>1, <2>2, <2>3 DEF BridgeInv
<1> QED BY <1>6, <1>7, <1>8

\* The slot keeps two forwarders apart.
LEMMA SlotGivesOneVoice == BridgeInv => OneVoice
<1> SUFFICES ASSUME BridgeInv, NEW t \in Tracks, NEW u \in Tracks, t # u,
                    Forwarding(t), Forwarding(u), ~Resubscribed,
                    t \notin unsubscribed, u \notin unsubscribed
             PROVE  FALSE
  BY DEF OneVoice
<1>1. SidOf[t] = SidOf[u]
  BY DEF BridgeInv, SlotKept
<1> QED BY <1>1 DEF Resubscribed, Forwarding
-----------------------------------------------------------------------------
(* The negotiation *)

\* What an acceptable description sets does not depend on what was there.
LEMMA RemoteFields ==
  ASSUME NEW n, NEW d, Shaped(n)
  PROVE  /\ Shaped(Remote(n, d))
         /\ Remote(n, d).payload = Remote(NoNegotiation, d).payload
         /\ Role(Remote(n, d)) = Role(Remote(NoNegotiation, d))
         /\ Shaped(Role(Remote(n, d)))
         /\ Role(Remote(n, d)).payload = Remote(n, d).payload
<1> DEFINE m == Head(CompatibleAudio(d))
           fp == Attr(d, m, "fingerprint")
           su == Attr(d, m, "setup")
           uf == Attr(d, m, "ufrag")
           pw == Attr(d, m, "pwd")
           ca == RemoteCandidates(m)
           pt == OpusPayload(m)
           R(l, c) == [fingerprint |-> fp, remoteSetup |-> su, ufrag |-> uf, pwd |-> pw,
                       candidates |-> ca, payload |-> pt, localSetup |-> l, isClient |-> c]
<1>1. /\ Remote(n, d) = [n EXCEPT !.fingerprint = fp, !.remoteSetup = su, !.ufrag = uf,
                                  !.pwd = pw, !.candidates = ca, !.payload = pt]
      /\ Remote(NoNegotiation, d) =
           [NoNegotiation EXCEPT !.fingerprint = fp, !.remoteSetup = su, !.ufrag = uf,
                                 !.pwd = pw, !.candidates = ca, !.payload = pt]
  BY DEF Remote
<1> HIDE DEF m, fp, su, uf, pw, ca, pt
<1>2. Remote(n, d) = R(n.localSetup, n.isClient)
  BY <1>1 DEF Shaped
<1>3. Remote(NoNegotiation, d) = R("none", FALSE)
  BY <1>1 DEF NoNegotiation
<1> DEFINE L == IF su = "passive" THEN "active" ELSE "passive"
           C == su = "passive"
<1>4. ASSUME NEW l, NEW c PROVE Role(R(l, c)) = R(L, C)
  <2>1. R(l, c).remoteSetup = su
    OBVIOUS
  <2>2. Role(R(l, c)) = [R(l, c) EXCEPT !.localSetup = L, !.isClient = C]
    <3> HIDE DEF R
    <3> QED BY <2>1, Zenon DEF Role
  <2> HIDE DEF L, C
  <2> QED BY <2>2
<1>5. ASSUME NEW l, NEW c PROVE Shaped(R(l, c)) /\ R(l, c).payload = pt
  BY DEF Shaped
<1> HIDE DEF R, L, C
<1>6. Role(Remote(n, d)) = R(L, C) /\ Role(Remote(NoNegotiation, d)) = R(L, C)
  BY <1>2, <1>3, <1>4, Zenon
<1>7. Shaped(R(L, C)) /\ R(L, C).payload = pt
  BY <1>5, Zenon
<1>8. Shaped(Remote(n, d)) /\ Remote(n, d).payload = pt
  BY <1>2, <1>5, Zenon
<1>9. Remote(NoNegotiation, d).payload = pt
  BY <1>3, <1>5, Zenon
<1> QED BY <1>6, <1>7, <1>8, <1>9, Zenon

\* The two starting points.
LEMMA StartShaped ==
  Shaped(NoNegotiation) /\ Shaped(NewOffer) /\ NewOffer.payload = OfferedPayload
<1> DEFINE none == 0
           nothing == {}
           no == FALSE
           N(pt, l) == [fingerprint |-> "none", remoteSetup |-> "none",
                        ufrag |-> "none", pwd |-> "none", candidates |-> nothing,
                        payload |-> pt, localSetup |-> l, isClient |-> no]
<1>0. NewOffer = [N(none, "none") EXCEPT !.payload = OfferedPayload,
                                         !.localSetup = "actpass"]
  BY DEF NewOffer, NoNegotiation
<1> HIDE DEF none, nothing, no
<1>1. NewOffer = N(OfferedPayload, "actpass")
  BY <1>0
<1>2. NewOffer.payload = OfferedPayload /\ Shaped(NewOffer)
  BY <1>1 DEF Shaped
<1>3. Shaped(NoNegotiation)
  BY DEF Shaped, NoNegotiation
<1> QED BY <1>2, <1>3

\* An answer leaves a whole Negotiation behind: its own where it is accepted.
LEMMA AnswerFields ==
  ASSUME NEW n, NEW d, Shaped(n)
  PROVE  /\ Shaped(ApplyAnswer(n, d))
         /\ Accepted(d) => ApplyAnswer(n, d) = ApplyAnswer(NewOffer, d)
         /\ ~NamesOtherType(d) /\ n.payload = OfferedPayload =>
              ApplyAnswer(n, d).payload = OfferedPayload
<1>1. /\ Shaped(Remote(n, d)) /\ Shaped(Role(Remote(n, d)))
      /\ Role(Remote(n, d)) = Role(Remote(NewOffer, d))
      /\ Remote(n, d).payload = Remote(NoNegotiation, d).payload
      /\ Role(Remote(n, d)).payload = Remote(n, d).payload
  BY RemoteFields, StartShaped
<1>2. Accepted(d) => Acceptable(d)
  BY DEF Accepted
<1> QED BY <1>1, <1>2 DEF ApplyAnswer, NamesOtherType

-----------------------------------------------------------------------------
(* The call *)

LEMMA InitIInv == Init => IInv
<1> SUFFICES ASSUME Init PROVE IInv
  OBVIOUS
<1>1. BridgeInv
  BY DEF Init, BridgeInit, BridgeInv, BridgeTypeOK, FwdLocs, SlotKept, Forwarding,
    NoStaleSlot
<1>2. Shaped(negotiation) /\ (outbound => negotiation.payload = OfferedPayload)
  BY StartShaped DEF Init
<1>3. CallInv
  BY <1>2 DEF Init, BridgeInit, CallInv
<1>4. AnswerWhole /\ EndsOnlyWithMedia
  BY DEF Init, BridgeInit, AnswerWhole, EndsOnlyWithMedia
<1> QED BY <1>1, <1>3, <1>4 DEF IInv

\* A step that leaves the bridge's variables alone keeps what is said of them.
LEMMA BridgeApart ==
  ASSUME BridgeInv, UNCHANGED bridgeVars
  PROVE  BridgeInv'
BY DEF BridgeInv, bridgeVars, BridgeTypeOK, SlotKept, Forwarding, Resubscribed, NoStaleSlot

\* Accept and Connect, while there is no transport.
LEMMA Negotiated ==
  ASSUME IInv, NEW d \in Descriptions, Accept(d) \/ Connect(d)
  PROVE  IInv'
<1>i. BridgeInv /\ CallInv /\ AnswerWhole /\ EndsOnlyWithMedia
  BY DEF IInv
<1>u. UNCHANGED <<bridgeVars, outbound, payload, sentAs>> /\ media = "none" /\ taken = {}
  BY <1>i DEF Accept, Connect, CallInv
<1>1. BridgeInv'
  BY <1>i, <1>u, BridgeApart
<1>2. EndsOnlyWithMedia'
  BY <1>i, <1>u DEF EndsOnlyWithMedia, bridgeVars
<1>3. CASE Accept(d)
  <2>1. Shaped(ParseOfferAndAnswer(d))
    BY RemoteFields, StartShaped DEF ParseOfferAndAnswer
  <2>2. CallInv'
    BY <1>3, <1>i, <1>u, <2>1 DEF Accept, CallInv, bridgeVars
  <2>3. AnswerWhole'
    BY <1>3, <1>i, <1>u DEF Accept, AnswerWhole
  <2> QED BY <1>1, <1>2, <2>2, <2>3 DEF IInv
<1>4. CASE Connect(d)
  <2>0. Shaped(negotiation)
    BY <1>i DEF CallInv
  <2>1. /\ outbound /\ outbound' = outbound
        /\ negotiation' = ApplyAnswer(negotiation, d)
        /\ Shaped(negotiation')
        /\ Accepted(d) => negotiation' = ApplyAnswer(NewOffer, d)
        /\ ~NamesOtherType(d) /\ negotiation.payload = OfferedPayload =>
             negotiation'.payload = OfferedPayload
        /\ otherType' = (otherType \/ NamesOtherType(d))
        /\ \/ Accepted(d) /\ taken' = {d} /\ media' = "new"
           \/ UNCHANGED <<taken, media>>
    BY <1>4, <1>u, <2>0, AnswerFields DEF Connect
  <2>2. AnswerWhole'
    BY <1>u, <2>1 DEF AnswerWhole
  <2>3. ~otherType' => ~otherType /\ ~NamesOtherType(d)
    BY <2>1, Zenon
  <2>4. ~otherType' => negotiation'.payload = OfferedPayload /\
                       payload \in {NotConnected, OfferedPayload}
    BY <1>i, <2>1, <2>3 DEF CallInv
  <2>5. otherType' \in BOOLEAN
    BY <1>i, <2>1, Zenon DEF CallInv, NamesOtherType
  <2>6. CallInv'
    BY <1>i, <1>u, <2>1, <2>4, <2>5 DEF CallInv, bridgeVars
  <2> QED BY <1>1, <1>2, <2>2, <2>6 DEF IInv
<1> QED BY <1>3, <1>4

\* The bridge connects; the transport moves on.
LEMMA ConnectedOrMoved ==
  ASSUME IInv, ConnectBridge \/ MediaStep
  PROVE  IInv'
<1>i. BridgeInv /\ CallInv /\ AnswerWhole /\ EndsOnlyWithMedia
  BY DEF IInv
<1>u. UNCHANGED <<bridgeVars, outbound, negotiation, otherType, taken, sentAs>>
  BY DEF ConnectBridge, MediaStep
<1>1. BridgeInv'
  BY <1>i, <1>u, BridgeApart
<1>2. AnswerWhole'
  BY <1>i, <1>u DEF AnswerWhole
<1>3. media \in {"lost", "failed", "closed"} => media' \in {"lost", "failed", "closed"}
  BY DEF ConnectBridge, MediaStep, Leg!Step, Leg!SetUp, Leg!Lose, Leg!Close
<1>4. EndsOnlyWithMedia'
  BY <1>i, <1>u, <1>3 DEF EndsOnlyWithMedia, bridgeVars
<1>5. CallInv'
  <2>1. CASE ConnectBridge
    BY <2>1, <1>i, <1>u DEF ConnectBridge, CallInv, bridgeVars
  <2>2. CASE MediaStep
    BY <2>2, <1>i, <1>u
       DEF MediaStep, Leg!Step, Leg!SetUp, Leg!Lose, Leg!Close, CallInv, bridgeVars
  <2> QED BY <2>1, <2>2
<1> QED BY <1>1, <1>2, <1>4, <1>5 DEF IInv

\* A forwarder writes.
LEMMA Forwarded ==
  ASSUME IInv, NEW t \in Tracks, Forward(t)
  PROVE  IInv'
<1>i. BridgeInv /\ CallInv /\ AnswerWhole /\ EndsOnlyWithMedia
  BY DEF IInv
<1>0. PICK o \in WriteOutcomes :
        Written(t, o) /\ sentAs' = IF o = "sent" THEN sentAs \cup {payload} ELSE sentAs
  BY DEF Forward
<1>u. UNCHANGED <<outbound, negotiation, otherType, taken, payload, media, ended>>
  BY <1>0 DEF Forward, Written
<1>1. BridgeInv'
  BY <1>i, <1>0, BridgeStep
<1>2. AnswerWhole'
  BY <1>i, <1>u DEF AnswerWhole
<1>3. /\ fwd[t] = "write" /\ \A x \in Tracks \ {t} : fwd'[x] = fwd[x]
      /\ fwd'[t] \in {"read", "exit"} /\ (fwd'[t] = "exit" => o = "fatal")
  BY <1>i, <1>0 DEF Written, Move, FatalWrite, BridgeInv, BridgeTypeOK
<1>4. /\ o = "fatal" => media \in {"lost", "failed", "closed"}
      /\ o = "sent" => media \in {"up", "lost", "closed"}
  BY <1>0 DEF WriteOutcomes
<1>5. EndsOnlyWithMedia'
  BY <1>i, <1>u, <1>3, <1>4 DEF EndsOnlyWithMedia
<1>6. payload # NotConnected
  BY <1>i, <1>3 DEF CallInv
<1>7. CallInv'
  BY <1>i, <1>0, <1>u, <1>4, <1>6 DEF CallInv
<1> QED BY <1>1, <1>2, <1>5, <1>7 DEF IInv

\* The room's callbacks and the other steps of a forwarder.
LEMMA RoomMoved ==
  ASSUME IInv, NEW t \in Tracks, RoomStep(t)
  PROVE  IInv'
<1>i. BridgeInv /\ CallInv /\ AnswerWhole /\ EndsOnlyWithMedia
  BY DEF IInv
<1>u. UNCHANGED <<outbound, negotiation, otherType, taken, payload, media, sentAs>>
  BY DEF RoomStep, callVars
<1>1. BridgeInv'
  BY <1>i, BridgeStep DEF RoomStep
<1>2. AnswerWhole'
  BY <1>i, <1>u DEF AnswerWhole
<1>3. /\ \A x \in Tracks \ {t} : fwd'[x] = fwd[x]
      /\ fwd[t] = "none" => fwd'[t] = "none" \/ payload # NotConnected
      /\ ended \subseteq ended'
      /\ fwd'[t] = "exit" => fwd[t] = "exit" \/ t \in ended
      /\ fwd'[t] = "gone" => fwd[t] \in {"exit", "gone"}
  BY <1>i DEF RoomStep, Subscribed, TrackEnds, Unsubscribed, TakeSlot, ReadTrack, Exit,
    Move, BridgeInv, BridgeTypeOK
<1>4. EndsOnlyWithMedia'
  BY <1>i, <1>u, <1>3 DEF EndsOnlyWithMedia
<1>5. CallInv'
  BY <1>i, <1>u, <1>3 DEF CallInv
<1> QED BY <1>1, <1>2, <1>4, <1>5 DEF IInv

LEMMA StepIInv == IInv /\ [Next]_vars => IInv'
<1> SUFFICES ASSUME IInv, [Next]_vars PROVE IInv'
  OBVIOUS
<1>1. CASE UNCHANGED vars
  <2>1. BridgeInv'
    BY <1>1, BridgeApart DEF IInv, vars
  <2>2. CallInv' /\ AnswerWhole' /\ EndsOnlyWithMedia'
    BY <1>1 DEF IInv, vars, callVars, bridgeVars, CallInv, AnswerWhole, EndsOnlyWithMedia
  <2> QED BY <2>1, <2>2 DEF IInv
<1> QED BY <1>1, Negotiated, ConnectedOrMoved, Forwarded, RoomMoved DEF Next

\* The inductive invariant of the call's agent audio.
THEOREM AudioInvariant == Spec => []IInv
BY InitIInv, StepIInv, PTL DEF Spec

\* Meta hears one agent track at a time, however many are published,
\* subscribed to and unsubscribed from while forwarders run, unless one
\* publication is subscribed to twice (forwardRemote).
THEOREM AgentSpeaksAlone == Spec => []OneVoice
<1>1. IInv => OneVoice
  BY SlotGivesOneVoice DEF IInv
<1> QED BY <1>1, AudioInvariant, PTL

\* activeTrack never names a track without a forwarder (the deferred function
\* of forwardRemote, OnTrackUnsubscribed).
THEOREM SlotIsFreed == Spec => []NoStaleSlot
<1>1. IInv => NoStaleSlot
  BY DEF IInv, BridgeInv
<1> QED BY <1>1, AudioInvariant, PTL

\* Whatever answers were refused before, the transport is made with what the
\* accepted one says (ApplyAnswer), for every description Meta may send.
THEOREM AnswerTakenWhole == Spec => []AnswerWhole
<1>1. IInv => AnswerWhole
  BY DEF IInv
<1> QED BY <1>1, AudioInvariant, PTL

\* Packets go to Meta under the negotiated payload type, but for an outbound
\* call whose answer names another than the offer (runOutbound).
THEOREM PayloadTypeAgrees == Spec => []PayloadAgrees
<1>1. IInv => PayloadAgrees
  BY DEF IInv, CallInv, PayloadAgrees
<1> QED BY <1>1, AudioInvariant, PTL

\* Forwarding survives every failure that is not the end of the track or of
\* the media path, a mux closed by readLoop under a transport that is still
\* open included in the latter (isFatalWrite, TryWriteRTP, endpoint.WriteTo).
THEOREM AudioOutlivesFailures == Spec => []EndsOnlyWithMedia
<1>1. IInv => EndsOnlyWithMedia
  BY DEF IInv
<1> QED BY <1>1, AudioInvariant, PTL
=============================================================================
