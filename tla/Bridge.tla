------------------------------- MODULE Bridge -------------------------------
(***************************************************************************)
(* The LiveKit bridge's way from the agent to Meta                            *)
(* (internal/livekitbridge/bridge.go): a forwardRemote goroutine for every     *)
(* audio track LiveKit subscribes the connector to, of which one at a time     *)
(* holds the slot activeTrack, and the callbacks that run beside them.         *)
(*                                                                         *)
(* A track here is one subscription.  The slot holds the SID of the track's     *)
(* publication, which two subscriptions may share.                             *)
(***************************************************************************)
EXTENDS Naturals

CONSTANTS
  Tracks,  \* the subscriptions
  SidOf,   \* the SID of each
  NoSid    \* the empty activeTrack

ASSUME BridgeAssumption == \A t \in Tracks : SidOf[t] # NoSid

VARIABLES
  activeTrack,   \* Bridge.activeTrack
  fwd,           \* where the forwarder of each track is
  ended,         \* the tracks whose ReadRTP fails
  unsubscribed   \* the tracks whose OnTrackUnsubscribed has run

bridgeVars == <<activeTrack, fwd, ended, unsubscribed>>

FwdLocs == {"none", "start", "read", "write", "exit", "gone", "refused"}

\* Every variable holds what its declaration says.
BridgeTypeOK ==
  /\ activeTrack \in {SidOf[t] : t \in Tracks} \cup {NoSid}
  /\ fwd \in [Tracks -> FwdLocs]
  /\ ended \subseteq Tracks /\ unsubscribed \subseteq Tracks

BridgeInit ==
  /\ activeTrack = NoSid
  /\ fwd = [t \in Tracks |-> "none"]
  /\ ended = {} /\ unsubscribed = {}

Move(t, from, to) == fwd[t] = from /\ fwd' = [fwd EXCEPT ![t] = to]

\* OnTrackSubscribed, for Opus.  A publication has one subscription at a time.
Subscribed(t) ==
  /\ \A u \in Tracks : SidOf[u] = SidOf[t] /\ fwd[u] # "none" => u \in unsubscribed
  /\ Move(t, "none", "start")
  /\ UNCHANGED <<activeTrack, ended, unsubscribed>>

\* The track ends: it was unpublished or unsubscribed, or the room is left.
TrackEnds(t) ==
  /\ fwd[t] # "none" /\ t \notin ended
  /\ ended' = ended \cup {t}
  /\ UNCHANGED <<activeTrack, fwd, unsubscribed>>

\* OnTrackUnsubscribed, before or after its forwarder notices.
Unsubscribed(t) ==
  /\ fwd[t] # "none" /\ t \notin unsubscribed
  /\ unsubscribed' = unsubscribed \cup {t}
  /\ activeTrack' = IF activeTrack = SidOf[t] THEN NoSid ELSE activeTrack
  /\ UNCHANGED <<fwd, ended>>

\* Mutant of TakeSlot: the slot is not looked at.
TakeSlotAlways(t) ==
  /\ Move(t, "start", "read") /\ activeTrack' = SidOf[t]
  /\ UNCHANGED <<ended, unsubscribed>>

\* forwardRemote takes the slot, or returns for good if it is taken.
TakeSlot(t) ==
  /\ \/ /\ activeTrack = NoSid /\ Move(t, "start", "read")
        /\ activeTrack' = SidOf[t]
     \/ /\ activeTrack # NoSid /\ Move(t, "start", "refused")
        /\ UNCHANGED activeTrack
  /\ UNCHANGED <<ended, unsubscribed>>

\* track.ReadRTP.
ReadTrack(t) ==
  /\ \/ Move(t, "read", "write")
     \/ t \in ended /\ Move(t, "read", "exit")
  /\ UNCHANGED <<activeTrack, ended, unsubscribed>>

\* Mutant of FatalWrite: every failure ends the forwarder.
FatalWriteAny(outcome) == outcome # "sent"

\* isFatalWrite.  Any other failure costs one packet.
FatalWrite(outcome) == outcome = "fatal"

\* WriteToMeta has returned.
Written(t, outcome) ==
  /\ Move(t, "write", IF FatalWrite(outcome) THEN "exit" ELSE "read")
  /\ UNCHANGED <<activeTrack, ended, unsubscribed>>

\* Mutant of Exit: only a track that ended gives the slot back.
ExitEnded(t) ==
  /\ Move(t, "exit", "gone")
  /\ activeTrack' = IF activeTrack = SidOf[t] /\ t \in ended THEN NoSid ELSE activeTrack
  /\ UNCHANGED <<ended, unsubscribed>>

\* The deferred function of forwardRemote.
Exit(t) ==
  /\ Move(t, "exit", "gone")
  /\ activeTrack' = IF activeTrack = SidOf[t] THEN NoSid ELSE activeTrack
  /\ UNCHANGED <<ended, unsubscribed>>

-----------------------------------------------------------------------------
Forwarding(t) == fwd[t] \in {"read", "write"}

\* A publication was subscribed to a second time.
Resubscribed ==
  \E t, u \in Tracks :
    t # u /\ SidOf[t] = SidOf[u] /\ fwd[t] # "none" /\ fwd[u] # "none"

\* Meta hears one agent track at a time: two forwarders of subscribed tracks
\* never run together, although callbacks clear the slot under a running
\* forwarder.  Only a publication that was subscribed to twice can break it:
\* the first forwarder gives back the slot of the second (bridge.go:151).
OneVoice ==
  \A t, u \in Tracks :
    t # u /\ Forwarding(t) /\ Forwarding(u) /\ ~Resubscribed =>
      t \in unsubscribed \/ u \in unsubscribed

\* The slot never stays with a forwarder that is gone, which would silence
\* every later track of the call.
NoStaleSlot ==
  activeTrack # NoSid =>
    \E t \in Tracks : SidOf[t] = activeTrack /\ fwd[t] \in {"read", "write", "exit"}
=============================================================================
