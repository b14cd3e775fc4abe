---------------------------- MODULE MCAgentAudio ----------------------------
(***************************************************************************)
(* Three subscriptions, two of them to one publication, and descriptions that  *)
(* differ in what sdp.go looks at.                                            *)
(***************************************************************************)
EXTENDS AgentAudio

MCTracks == {"t1", "t2", "t3"}
MCSidOf == [t1 |-> "x", t2 |-> "x", t3 |-> "y"]

Attrs(who, role) ==
  [fingerprint |-> who, setup |-> role, ufrag |-> who, pwd |-> who]
NoAttrs == Attrs("none", "none")

Section(a, payloadType) ==
  [audio |-> TRUE, attrs |-> a, rtcpMux |-> TRUE, formats |-> {0, payloadType},
   maps |-> <<[opus |-> FALSE, pt |-> 0], [opus |-> TRUE, pt |-> 100],
              [opus |-> TRUE, pt |-> payloadType]>>,
   candidates |-> <<[name |-> "tcp", supported |-> FALSE],
                    [name |-> "udp", supported |-> TRUE],
                    [name |-> "udp", supported |-> TRUE]>>]
Video == [Section(NoAttrs, 96) EXCEPT !.audio = FALSE]

Simple(a, payloadType) == [session |-> NoAttrs, media |-> <<Section(a, payloadType)>>]

MCDescriptions ==
  {Simple(Attrs("a", "active"), 111),
   Simple(Attrs("b", "passive"), 96),
   \* An offer's role: refused in an answer.
   Simple(Attrs("c", "actpass"), 96),
   \* Roles and keys at the session level, behind another section.
   [session |-> Attrs("d", "passive"),
    media |-> <<Video, Section([NoAttrs EXCEPT !["setup"] = "active"], 111)>>],
   \* Not acceptable: a malformed fingerprint; no Opus among the formats.
   Simple([Attrs("e", "active") EXCEPT !["fingerprint"] = "bad"], 96),
   [session |-> NoAttrs,
    media |-> <<[Section(Attrs("f", "active"), 96) EXCEPT !.formats = {0}]>>]}
=============================================================================
