-------------------------------- MODULE Sdp --------------------------------
(***************************************************************************)
(* SDP negotiation (internal/media/sdp.go): what an offer or an answer from   *)
(* Meta must have, and what the connector's Negotiation becomes.              *)
(*                                                                         *)
(* A description is parsed already: a record of its session-level attributes  *)
(* and the sequence of its media sections.  An attribute is "none" where it is *)
(* missing and "bad" where it is malformed or empty.  Certificate, local       *)
(* credentials and address never change and are left out.                     *)
(***************************************************************************)
EXTENDS Integers, Sequences

OfferedPayload == 111

Attributes == [fingerprint : STRING, setup : STRING, ufrag : STRING, pwd : STRING]

Description ==
  [session : Attributes,
   media : Seq([audio : BOOLEAN, attrs : Attributes, rtcpMux : BOOLEAN,
                formats : SUBSET Int, maps : Seq([opus : BOOLEAN, pt : Int]),
                candidates : Seq([name : STRING, supported : BOOLEAN])])]

\* The first audio section over UDP/TLS/RTP/SAVPF, if any.
CompatibleAudio(d) == SelectSeq(d.media, LAMBDA m : m.audio)

\* Most attributes may stand in the media section or, failing that, in the
\* session.
Attr(d, m, key) == IF m.attrs[key] # "none" THEN m.attrs[key] ELSE d.session[key]

\* The first Opus map of a payload type that the section offers as a format.
OpusMaps(m) ==
  SelectSeq(m.maps, LAMBDA r : r.opus /\ r.pt \in 0 .. 127 /\ r.pt \in m.formats)

OpusPayload(m) == Head(OpusMaps(m)).pt

\* The supported candidates, each once.
RemoteCandidates(m) == {m.candidates[i].name : i \in
                          {j \in DOMAIN m.candidates : m.candidates[j].supported}}

\* What both directions ask of a description, the DTLS role apart.
Acceptable(d) ==
  /\ CompatibleAudio(d) # <<>>
  /\ LET m == Head(CompatibleAudio(d))
     IN /\ Attr(d, m, "fingerprint") \notin {"none", "bad"}
        /\ Attr(d, m, "setup") # "none"
        /\ m.rtcpMux
        /\ Attr(d, m, "ufrag") \notin {"none", "bad"}
        /\ Attr(d, m, "pwd") \notin {"none", "bad"}
        /\ OpusMaps(m) # <<>>
        /\ RemoteCandidates(m) # {}

\* The fields that an acceptable description sets.
Remote(n, d) ==
  LET m == Head(CompatibleAudio(d))
  IN [n EXCEPT !.fingerprint = Attr(d, m, "fingerprint"),
               !.remoteSetup = Attr(d, m, "setup"),
               !.ufrag = Attr(d, m, "ufrag"), !.pwd = Attr(d, m, "pwd"),
               !.candidates = RemoteCandidates(m),
               !.payload = OpusPayload(m)]

\* The role that answers the other side's.
Role(n) ==
  [n EXCEPT !.localSetup = IF n.remoteSetup = "passive" THEN "active" ELSE "passive",
            !.isClient = n.remoteSetup = "passive"]

NoNegotiation ==
  [fingerprint |-> "none", remoteSetup |-> "none", ufrag |-> "none", pwd |-> "none",
   candidates |-> {}, payload |-> 0, localSetup |-> "none", isClient |-> FALSE]

-----------------------------------------------------------------------------
NewOffer == [NoNegotiation EXCEPT !.payload = OfferedPayload, !.localSetup = "actpass"]

\* ParseOfferAndAnswer succeeds, and its result.
Answerable(d) ==
  /\ Acceptable(d)
  /\ Remote(NoNegotiation, d).remoteSetup \in {"actpass", "active", "passive"}

ParseOfferAndAnswer(d) == Role(Remote(NoNegotiation, d))

\* ApplyAnswer succeeds.
Accepted(d) ==
  /\ Acceptable(d)
  /\ Remote(NoNegotiation, d).remoteSetup \in {"active", "passive"}

\* Mutant of ApplyAnswer: a payload type that is set stays.
ApplyAnswerKeepPayload(n, d) ==
  IF Accepted(d) THEN [Role(Remote(n, d)) EXCEPT !.payload = n.payload]
  ELSE IF Acceptable(d) THEN Remote(n, d)
  ELSE n

\* What ApplyAnswer leaves behind: the role is looked at last, and an answer
\* refused for it has set the other fields.
ApplyAnswer(n, d) ==
  IF Accepted(d) THEN Role(Remote(n, d))
  ELSE IF Acceptable(d) THEN Remote(n, d)
  ELSE n
=============================================================================
