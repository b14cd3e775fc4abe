----------------------------- MODULE MediaQueue -----------------------------
(***************************************************************************)
(* Inbound media after the SRTP sessions are up (internal/media/transport.go *)
(* and internal/call/manager.go): acceptLoop, one readStream goroutine for   *)
(* each SSRC, the bounded queue rtpIn they share, ReadRTP called by the      *)
(* relay goroutine of the call, and drainSRTCP with observeRTCP behind it.   *)
(*                                                                         *)
(* Packets have no content.  A reader gives the packet it takes the next     *)
(* number, so that packets can be told apart.                                *)
(***************************************************************************)
EXTENDS Naturals, Sequences, FiniteSets

CONSTANTS
  SSRCs,        \* the sources Meta may use
  QueueSize,    \* capacity of rtpIn, rtpQueueSize = 256 in the code
  ReportsSize,  \* capacity of rtcpReports, 32 in the code
  MediaTimeout, \* mediaTimeout > 0
  MaxPackets    \* bound on the packets Meta sends

ASSUME QueueAssumption ==
  /\ QueueSize \in Nat \ {0} /\ ReportsSize \in Nat
  /\ IsFiniteSet(SSRCs)
  /\ MediaTimeout \in BOOLEAN /\ MaxPackets \in Nat

VARIABLES
  reader,     \* where the readStream of each SSRC is
  held,       \* the packet it holds
  rtpIn,      \* the queue
  rxDropped,  \* Transport.rxDropped
  received,   \* packets the readers have taken so far
  sawRTP,     \* Transport.sawRTP
  pump,       \* acceptLoop: "accept", or "done" when pumpDone is closed
  relay,      \* the relay goroutine: in ReadRTP's "select", "write" or "ended"
  relayed,    \* packets ReadRTP has returned
  last,       \* the last one of each SSRC
  reason,     \* why the relay ended: ErrNoInboundRTP or anything else
  drain,      \* the goroutine of the SRTCP stream: "none", "read" or "ended"
  reports,    \* packets in rtcpReports
  ctxDone     \* the context of the call is cancelled

readVars == <<reader, held, rtpIn, rxDropped, received, sawRTP>>
relayVars == <<relay, relayed, last, reason>>
rtcpVars == <<drain, reports>>
queueVars == <<readVars, pump, relayVars, rtcpVars, ctxDone>>

ReaderLocs == {"none", "read", "try", "free", "retry", "ended"}
Holding == {"try", "free", "retry"}
Packets == [ssrc : SSRCs, n : Nat]
Reasons == {"", "noRTP", "other"}

\* Every variable holds what its declaration says; the queues are bounded.
QueueTypeOK ==
  /\ reader \in [SSRCs -> ReaderLocs]
  /\ held \in [SSRCs -> Nat]
  /\ rtpIn \in Seq(Packets) /\ Len(rtpIn) <= QueueSize
  /\ rxDropped \in Nat /\ received \in Nat
  /\ sawRTP \in BOOLEAN
  /\ pump \in {"accept", "done"}
  /\ relay \in {"select", "write", "ended"}
  /\ relayed \in Nat
  /\ last \in [SSRCs -> Nat]
  /\ reason \in Reasons
  /\ drain \in {"none", "read", "ended"}
  /\ reports \in 0..ReportsSize
  /\ ctxDone \in BOOLEAN

\* The sessions have just been made and the goroutines started.
QueueInit ==
  /\ reader = [s \in SSRCs |-> "none"]
  /\ held = [s \in SSRCs |-> 0]
  /\ rtpIn = <<>>
  /\ rxDropped = 0 /\ received = 0
  /\ sawRTP = FALSE
  /\ pump = "accept"
  /\ relay = "select" /\ relayed = 0 /\ reason = ""
  /\ last = [s \in SSRCs |-> 0]
  /\ drain = "none" /\ reports = 0
  /\ ctxDone = FALSE

-----------------------------------------------------------------------------
(* acceptLoop and readStream *)

\* AcceptStream returns a stream, and a readStream is started for it.
Accept(s) ==
  /\ pump = "accept" /\ reader[s] = "none"
  /\ reader' = [reader EXCEPT ![s] = "read"]
  /\ UNCHANGED <<held, rtpIn, rxDropped, received, sawRTP, pump, relayVars,
                 rtcpVars, ctxDone>>

\* Mutant of AcceptFails: acceptLoop returns and leaves pumpDone open.
AcceptFailsQuietly ==
  /\ pump = "accept"
  /\ UNCHANGED queueVars

\* AcceptStream fails, because the session is over: pumpDone is closed.
AcceptFails ==
  /\ pump = "accept" /\ pump' = "done"
  /\ UNCHANGED <<readVars, relayVars, rtcpVars, ctxDone>>

At(s, from, to) ==
  reader[s] = from /\ reader' = [reader EXCEPT ![s] = to]

\* The stream has a packet, which is counted (rx.update).
ReadPacket(s) ==
  /\ At(s, "read", "try")
  /\ received' = received + 1
  /\ held' = [held EXCEPT ![s] = received + 1]
  /\ sawRTP' = TRUE
  /\ UNCHANGED <<rtpIn, rxDropped, pump, relayVars, rtcpVars, ctxDone>>

\* One that is not RTP is skipped.
ReadMalformed(s) == reader[s] = "read" /\ UNCHANGED queueVars

\* The stream is over.
ReadEnds(s) ==
  /\ At(s, "read", "ended")
  /\ UNCHANGED <<held, rtpIn, rxDropped, received, sawRTP, pump, relayVars,
                 rtcpVars, ctxDone>>

Full == Len(rtpIn) = QueueSize
Enqueue(s) == rtpIn' = Append(rtpIn, [ssrc |-> s, n |-> held[s]])

\* Mutants of Try: the send blocks while the queue is full; a full queue loses
\* the packet just read, and the loss is not counted.
TryBlocking(s) ==
  /\ ~Full /\ At(s, "try", "read") /\ Enqueue(s)
  /\ UNCHANGED <<held, rxDropped, received, sawRTP, pump, relayVars, rtcpVars,
                 ctxDone>>

TryForget(s) ==
  /\ At(s, "try", "read")
  /\ IF Full THEN UNCHANGED rtpIn ELSE Enqueue(s)
  /\ UNCHANGED <<held, rxDropped, received, sawRTP, pump, relayVars, rtcpVars,
                 ctxDone>>

\* The first select: into the queue, or go on to make room.
Try(s) ==
  /\ \/ ~Full /\ At(s, "try", "read") /\ Enqueue(s)
     \/ Full /\ At(s, "try", "free") /\ UNCHANGED rtpIn
  /\ UNCHANGED <<held, rxDropped, received, sawRTP, pump, relayVars, rtcpVars,
                 ctxDone>>

\* Mutant of Free: no room is made.
FreeNothing(s) ==
  /\ At(s, "free", "retry")
  /\ UNCHANGED <<held, rtpIn, rxDropped, received, sawRTP, pump, relayVars,
                 rtcpVars, ctxDone>>

\* The second select drops the oldest packet, unless the relay has emptied the
\* queue by now.
Free(s) ==
  /\ At(s, "free", "retry")
  /\ \/ /\ rtpIn # <<>>
        /\ rtpIn' = Tail(rtpIn)
        /\ rxDropped' = rxDropped + 1
     \/ rtpIn = <<>> /\ UNCHANGED <<rtpIn, rxDropped>>
  /\ UNCHANGED <<held, received, sawRTP, pump, relayVars, rtcpVars, ctxDone>>

\* Mutant of Retry: a reader that finds no room puts its packet in front.
RetryInFront(s) ==
  /\ At(s, "retry", "read")
  /\ rtpIn' = <<[ssrc |-> s, n |-> held[s]]>> \o
                (IF Full THEN Tail(rtpIn) ELSE rtpIn)
  /\ rxDropped' = IF Full THEN rxDropped + 1 ELSE rxDropped
  /\ UNCHANGED <<held, received, sawRTP, pump, relayVars, rtcpVars, ctxDone>>

\* The third select: another reader may have taken the room, and then the
\* packet just read is the one that is dropped.
Retry(s) ==
  /\ At(s, "retry", "read")
  /\ \/ ~Full /\ Enqueue(s) /\ UNCHANGED rxDropped
     \/ Full /\ rxDropped' = rxDropped + 1 /\ UNCHANGED rtpIn
  /\ UNCHANGED <<held, received, sawRTP, pump, relayVars, rtcpVars, ctxDone>>

ReaderStep(s) == Try(s) \/ Free(s) \/ Retry(s)

-----------------------------------------------------------------------------
(* ReadRTP and the relay goroutine *)

EndRelay(why) == relay' = "ended" /\ reason' = why /\ UNCHANGED <<relayed, last>>

\* rtpIn has a packet.
RelayTake ==
  /\ relay = "select" /\ rtpIn # <<>>
  /\ rtpIn' = Tail(rtpIn)
  /\ relay' = "write" /\ relayed' = relayed + 1
  /\ last' = [last EXCEPT ![Head(rtpIn).ssrc] = Head(rtpIn).n]
  /\ UNCHANGED <<reader, held, rxDropped, received, sawRTP, pump, reason,
                 rtcpVars, ctxDone>>

\* The media timeout of this ReadRTP expires.
RelayExpires ==
  /\ relay = "select" /\ MediaTimeout
  /\ EndRelay(IF sawRTP THEN "other" ELSE "noRTP")
  /\ UNCHANGED <<readVars, pump, rtcpVars, ctxDone>>

\* pumpDone is closed, or the context is done; the select, and the one in the
\* Wait that ReadRTP begins with, may still prefer a packet.
RelayStops ==
  /\ relay = "select"
  /\ \/ pump = "done" /\ EndRelay("other")
     \/ ctxDone /\ EndRelay("other")
  /\ UNCHANGED <<readVars, pump, rtcpVars, ctxDone>>

\* WriteFromMeta returns.
RelayWrite ==
  /\ relay = "write"
  /\ \/ relay' = "select" /\ UNCHANGED <<relayed, last, reason>>
     \/ EndRelay("other")
  /\ UNCHANGED <<readVars, pump, rtcpVars, ctxDone>>

-----------------------------------------------------------------------------
(* RTCP *)

\* drainSRTCP accepts the stream.
DrainAccept ==
  /\ drain = "none" /\ drain' = "read"
  /\ UNCHANGED <<readVars, pump, relayVars, reports, ctxDone>>

\* Its goroutine reads a packet, which is dropped when it is malformed or when
\* rtcpReports is full.
DrainRead ==
  /\ drain = "read"
  /\ \/ reports < ReportsSize /\ reports' = reports + 1
     \/ UNCHANGED reports
  /\ UNCHANGED <<readVars, pump, relayVars, drain, ctxDone>>

\* AcceptStream or Read fails, because the session is over.
DrainEnds ==
  /\ drain # "ended" /\ drain' = "ended"
  /\ UNCHANGED <<readVars, pump, relayVars, reports, ctxDone>>

\* observeRTCP takes one.  It ends with the context; as it may also be slow for
\* ever, its end is left out.
Observe ==
  /\ reports > 0 /\ reports' = reports - 1
  /\ UNCHANGED <<readVars, pump, relayVars, drain, ctxDone>>

-----------------------------------------------------------------------------
(* The call around it *)

EndContext ==
  /\ ~ctxDone /\ ctxDone' = TRUE
  /\ UNCHANGED <<readVars, pump, relayVars, rtcpVars>>

Ended ==
  /\ pump = "done" /\ relay = "ended" /\ drain = "ended" /\ ctxDone
  /\ \A s \in SSRCs : reader[s] \in {"none", "ended"}

\* The queue among sessions that may do anything.
QueueNext ==
  \/ \E s \in SSRCs :
       \/ Accept(s) \/ ReaderStep(s) \/ ReadMalformed(s) \/ ReadEnds(s)
       \/ received < MaxPackets /\ ReadPacket(s)
  \/ AcceptFails
  \/ RelayTake \/ RelayExpires \/ RelayStops \/ RelayWrite
  \/ DrainAccept \/ DrainRead \/ DrainEnds \/ Observe
  \/ EndContext
  \/ Ended /\ UNCHANGED queueVars

QueueSpec == QueueInit /\ [][QueueNext]_queueVars

-----------------------------------------------------------------------------
\* Every packet a reader has counted is in exactly one place: in the reader's
\* hand, in the queue, counted in rxDropped, or returned by ReadRTP.  Readers
\* and the relay take from one channel, and the reader has three selects.
Conserved ==
  received = relayed + Len(rtpIn) + rxDropped
               + Cardinality({s \in SSRCs : reader[s] \in Holding})

\* The packets of one source leave in the order they came: numbers increase
\* from the one last relayed through the queue to the one its reader holds,
\* whichever reader dropped whose packets.
InOrder ==
  /\ \A i, j \in 1..Len(rtpIn) :
       i < j /\ rtpIn[i].ssrc = rtpIn[j].ssrc => rtpIn[i].n < rtpIn[j].n
  /\ \A i \in 1..Len(rtpIn) :
       /\ last[rtpIn[i].ssrc] < rtpIn[i].n
       /\ reader[rtpIn[i].ssrc] \in Holding => rtpIn[i].n < held[rtpIn[i].ssrc]
  /\ \A s \in SSRCs : reader[s] \in Holding => last[s] < held[s]

\* A reader that has made room finds it again, so that the packet dropped is
\* the oldest one (transport.go:326), unless there is another reader.
NewestKept ==
  \A s \in SSRCs :
    reader[s] = "retry" /\ Full => \E u \in SSRCs \ {s} : reader[u] # "none"

\* ErrNoInboundRTP is returned only if no packet was ever relayed: readStream
\* sets sawRTP before it puts the packet into the queue.
NoRTPIsTrue == reason = "noRTP" => relayed = 0
=============================================================================
