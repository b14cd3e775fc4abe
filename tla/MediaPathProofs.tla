-------------------------- MODULE MediaPathProofs ---------------------------
(***************************************************************************)
(* MediaQueue, for every set of sources, queue size and number of packets;    *)
(* and MediaPath, which implements it, for every size of an endpoint.         *)
(***************************************************************************)
EXTENDS MediaPath, SequenceTheorems, FiniteSetTheorems, TLAPS

\* The readers that hold a packet.
Holders == {s \in SSRCs : reader[s] \in Holding}

\* The number given last bounds all numbers: what a reader takes next is newer
\* than anything before it.
Numbered ==
  /\ \A i \in 1..Len(rtpIn) : rtpIn[i].n <= received
  /\ \A s \in SSRCs : last[s] <= received /\ held[s] <= received

\* A reason is given when the relay ends, and sawRTP is set with the first
\* packet.
Quiet ==
  /\ relay # "ended" => reason = ""
  /\ ~sawRTP => received = 0

IInv ==
  /\ QueueTypeOK /\ Numbered /\ Quiet
  /\ Conserved /\ InOrder /\ NewestKept /\ NoRTPIsTrue

-----------------------------------------------------------------------------
\* Conserved, with the readers that hold a packet named.
LEMMA ConservedCount ==
  /\ Conserved <=> received = relayed + Len(rtpIn) + rxDropped + Cardinality(Holders)
  /\ Conserved' <=>
       received' = relayed' + Len(rtpIn') + rxDropped' + Cardinality(Holders')
BY DEF Conserved, Holders

\* What the queue holds.
LEMMA QueueElements ==
  ASSUME QueueTypeOK
  PROVE  /\ Len(rtpIn) \in Nat
         /\ \A i \in 1..Len(rtpIn) :
              /\ rtpIn[i] \in Packets /\ rtpIn[i].ssrc \in SSRCs
              /\ rtpIn[i].n \in Nat
<1>1. Len(rtpIn) \in Nat /\ rtpIn \in [1..Len(rtpIn) -> Packets]
  BY LenProperties DEF QueueTypeOK
<1> QED BY <1>1 DEF Packets

\* The initial state has nothing anywhere.
LEMMA InitIInv == QueueInit => IInv
<1> SUFFICES ASSUME QueueInit PROVE IInv
  OBVIOUS
<1>1. /\ rtpIn = <<>> /\ reports = 0 /\ rxDropped = 0 /\ received = 0
      /\ relayed = 0 /\ reader = [s \in SSRCs |-> "none"]
      /\ held = [s \in SSRCs |-> 0] /\ last = [s \in SSRCs |-> 0]
  BY Zenon DEF QueueInit
<1>2. rtpIn \in Seq(Packets) /\ Len(rtpIn) = 0
  BY <1>1, EmptySeq
<1>3. QueueTypeOK
  <2>1. Len(rtpIn) <= QueueSize /\ reports \in 0..ReportsSize
    BY <1>1, <1>2, QueueAssumption
  <2>2. /\ reader \in [SSRCs -> ReaderLocs]
        /\ held \in [SSRCs -> Nat] /\ last \in [SSRCs -> Nat]
        /\ rxDropped \in Nat /\ received \in Nat /\ relayed \in Nat
    BY <1>1 DEF ReaderLocs
  <2>3. /\ sawRTP \in BOOLEAN /\ pump \in {"accept", "done"}
        /\ relay \in {"select", "write", "ended"} /\ reason \in Reasons
        /\ drain \in {"none", "read", "ended"} /\ ctxDone \in BOOLEAN
    BY Zenon DEF QueueInit, Reasons
  <2> QED BY <1>2, <2>1, <2>2, <2>3, Zenon DEF QueueTypeOK
<1>4. Numbered /\ InOrder
  BY <1>1, <1>2 DEF Numbered, InOrder, Holding
<1>5. Conserved
  <2>1. Holders = {}
    BY <1>1 DEF Holders, Holding
  <2> QED BY <1>1, <1>2, <2>1, FS_EmptySet, ConservedCount
<1>6. NewestKept /\ NoRTPIsTrue
  BY <1>1 DEF NewestKept, NoRTPIsTrue
<1>7. Quiet
  BY Zenon DEF QueueInit, Quiet
<1> QED BY <1>7, <1>3, <1>4, <1>5, <1>6 DEF IInv

\* One reader moves: how many hold a packet afterwards.
LEMMA HoldersMove ==
  ASSUME QueueTypeOK, NEW s \in SSRCs, NEW to \in ReaderLocs,
         reader' = [reader EXCEPT ![s] = to]
  PROVE  /\ Cardinality(Holders) \in Nat
         /\ reader[s] \notin Holding /\ to \in Holding =>
              Cardinality(Holders') = Cardinality(Holders) + 1
         /\ reader[s] \in Holding /\ to \notin Holding =>
              Cardinality(Holders') = Cardinality(Holders) - 1
         /\ (reader[s] \in Holding <=> to \in Holding) => Holders' = Holders
<1>1. IsFiniteSet(Holders) /\ Cardinality(Holders) \in Nat
  BY QueueAssumption, FS_Subset, FS_CardinalityType DEF Holders
<1>2. /\ reader' \in [SSRCs -> ReaderLocs] /\ reader'[s] = to
      /\ \A u \in SSRCs \ {s} : reader'[u] = reader[u]
  BY DEF QueueTypeOK
<1>3. reader[s] \notin Holding /\ to \in Holding =>
        Holders' = Holders \cup {s} /\ s \notin Holders
  BY <1>2 DEF Holders
<1>4. reader[s] \in Holding /\ to \notin Holding =>
        Holders' = Holders \ {s} /\ s \in Holders
  BY <1>2 DEF Holders
<1>5. (reader[s] \in Holding <=> to \in Holding) => Holders' = Holders
  BY <1>2 DEF Holders
<1>6. reader[s] \notin Holding /\ to \in Holding =>
        Cardinality(Holders') = Cardinality(Holders) + 1
  BY <1>1, <1>3, FS_AddElement
<1>7. reader[s] \in Holding /\ to \notin Holding =>
        Cardinality(Holders') = Cardinality(Holders) - 1
  BY <1>1, <1>4, FS_RemoveElement
<1> QED BY <1>1, <1>5, <1>6, <1>7

-----------------------------------------------------------------------------
\* AcceptStream brings a new reader, or an old one ends.
LEMMA ReaderBeginsOrEnds ==
  ASSUME IInv, NEW s \in SSRCs, Accept(s) \/ ReadEnds(s)
  PROVE  IInv'
<1> USE DEF IInv
<1>1. PICK to \in {"read", "ended"} :
        reader' = [reader EXCEPT ![s] = to] /\ reader[s] \notin Holding
  BY DEF Accept, ReadEnds, At, Holding
<1>2. UNCHANGED <<held, rtpIn, rxDropped, received, sawRTP, pump, relayVars,
                  rtcpVars, ctxDone>>
  BY DEF Accept, ReadEnds
<1>3. QueueTypeOK'
  BY <1>1, <1>2 DEF QueueTypeOK, ReaderLocs, relayVars, rtcpVars
<1>4. /\ reader'[s] \in {"read", "ended"}
      /\ \A u \in SSRCs \ {s} : reader'[u] = reader[u]
  BY <1>1 DEF QueueTypeOK
<1>5. Numbered' /\ InOrder'
  <2>1. UNCHANGED <<rtpIn, held, last, received>>
    BY <1>2 DEF relayVars
  <2>2. Numbered'
    BY <2>1 DEF Numbered
  <2>3. \A u \in SSRCs : reader'[u] \in Holding => reader[u] \in Holding
    BY <1>4 DEF Holding
  <2>4. InOrder'
    BY <2>1, <2>3, QueueElements DEF InOrder
  <2> QED BY <2>2, <2>4
<1>6. Conserved'
  <2>1. Holders' = Holders
    BY <1>1, HoldersMove, Zenon DEF ReaderLocs, Holding
  <2> QED BY <1>2, <2>1, ConservedCount DEF relayVars
<1>7. NewestKept' /\ NoRTPIsTrue'
  BY <1>2, <1>4 DEF NewestKept, NoRTPIsTrue, Full, relayVars
<1>8. Quiet'
  BY <1>2, Zenon DEF Quiet, relayVars
<1> QED BY <1>8, <1>3, <1>5, <1>6, <1>7

\* A reader takes a packet, the newest of all.
LEMMA PacketRead ==
  ASSUME IInv, NEW s \in SSRCs, ReadPacket(s)
  PROVE  IInv'
<1> USE DEF IInv
<1>1. /\ reader[s] = "read" /\ reader' = [reader EXCEPT ![s] = "try"]
      /\ received' = received + 1
      /\ held' = [held EXCEPT ![s] = received + 1]
      /\ UNCHANGED <<rtpIn, rxDropped, relayed, last, reason>>
  BY DEF ReadPacket, At, relayVars
<1>2. QueueTypeOK'
  BY DEF ReadPacket, At, relayVars, rtcpVars, QueueTypeOK, ReaderLocs
<1>3. /\ reader'[s] = "try" /\ held'[s] = received + 1
      /\ \A u \in SSRCs \ {s} : reader'[u] = reader[u] /\ held'[u] = held[u]
  BY <1>1 DEF QueueTypeOK
<1>4. received \in Nat /\ held \in [SSRCs -> Nat] /\ last \in [SSRCs -> Nat]
  BY DEF QueueTypeOK
<1>5. Numbered' /\ InOrder'
  <2>1. Numbered'
    BY <1>1, <1>3, <1>4, QueueElements DEF Numbered
  <2>2. \A u \in SSRCs : reader'[u] \in Holding => u = s \/ reader[u] \in Holding
    BY <1>3
  <2>3. /\ \A i \in 1..Len(rtpIn) : rtpIn[i].n < held'[s]
        /\ \A u \in SSRCs : last[u] < held'[s]
    BY <1>3, <1>4, QueueElements DEF Numbered
  <2>4. InOrder'
    BY <1>1, <1>3, <2>2, <2>3, QueueElements DEF InOrder
  <2> QED BY <2>1, <2>4
<1>6. Conserved'
  <2>1. Cardinality(Holders) \in Nat
        /\ Cardinality(Holders') = Cardinality(Holders) + 1
    BY <1>1, HoldersMove, Zenon DEF ReaderLocs, Holding
  <2>2. Len(rtpIn) \in Nat
    BY LenProperties DEF QueueTypeOK
  <2> QED BY <1>1, <2>1, <2>2, ConservedCount DEF QueueTypeOK
<1>7. NewestKept' /\ NoRTPIsTrue'
  BY <1>1, <1>3 DEF NewestKept, NoRTPIsTrue, Full
<1>8. Quiet'
  BY Zenon DEF ReadPacket, Quiet, relayVars
<1> QED BY <1>8, <1>2, <1>4, <1>5, <1>6, <1>7

-----------------------------------------------------------------------------
(* What the steps do to the queue. *)

\* A reader puts the packet it holds behind all others.
LEMMA PacketQueued ==
  ASSUME IInv, NEW s \in SSRCs, reader[s] \in {"try", "retry"}, ~Full,
         reader' = [reader EXCEPT ![s] = "read"], Enqueue(s),
         UNCHANGED <<held, rxDropped, received, sawRTP, pump, relayVars,
                     rtcpVars, ctxDone>>
  PROVE  IInv'
<1> USE DEF IInv
<1> DEFINE p == [ssrc |-> s, n |-> held[s]]
<1>1. p \in Packets
  BY DEF QueueTypeOK, Packets
<1>2. UNCHANGED <<held, rxDropped, received, relay, relayed, last, reason, drain,
                  reports>>
  BY DEF relayVars, rtcpVars
<1>3. Len(rtpIn) \in Nat /\ Len(rtpIn) < QueueSize
  BY QueueAssumption, LenProperties DEF Full, QueueTypeOK
<1>4. /\ rtpIn' \in Seq(Packets) /\ Len(rtpIn') = Len(rtpIn) + 1
      /\ \A i \in 1..Len(rtpIn) : rtpIn'[i] = rtpIn[i] /\ rtpIn[i] \in Packets
      /\ rtpIn'[Len(rtpIn) + 1] = p
  BY <1>1, AppendProperties, LenProperties DEF QueueTypeOK, Enqueue
<1>5. /\ reader'[s] = "read"
      /\ \A u \in SSRCs \ {s} : reader'[u] = reader[u]
  BY DEF QueueTypeOK
<1>6. QueueTypeOK'
  BY <1>2, <1>3, <1>4, QueueAssumption DEF QueueTypeOK, ReaderLocs
<1>7. reader[s] \in Holding
  BY DEF Holding
<1>8. Numbered'
  <2>1. ASSUME NEW i \in 1..Len(rtpIn') PROVE rtpIn'[i].n <= received'
    <3>1. CASE i \in 1..Len(rtpIn)
      BY <1>2, <1>4, <3>1, Zenon DEF Numbered
    <3>2. CASE i = Len(rtpIn) + 1
      <4>1. rtpIn'[i].n = held[s]
        BY <1>4, <3>2
      <4> QED BY <1>2, <4>1, Zenon DEF Numbered
    <3> QED BY <1>3, <1>4, <3>1, <3>2
  <2> QED BY <1>2, <2>1 DEF Numbered
<1>9. InOrder'
  <2>1. ASSUME NEW i \in 1..Len(rtpIn'), NEW j \in 1..Len(rtpIn'), i < j,
               rtpIn'[i].ssrc = rtpIn'[j].ssrc
        PROVE  rtpIn'[i].n < rtpIn'[j].n
    <3>1. CASE j <= Len(rtpIn)
      <4>1. i \in 1..Len(rtpIn) /\ j \in 1..Len(rtpIn)
        BY <1>3, <1>4, <2>1, <3>1
      <4>2. rtpIn'[i] = rtpIn[i] /\ rtpIn'[j] = rtpIn[j]
        BY <1>4, <4>1, Zenon
      <4> QED BY <2>1, <4>1, <4>2, Zenon DEF InOrder
    <3>2. CASE j = Len(rtpIn) + 1
      <4>1. i \in 1..Len(rtpIn) /\ rtpIn[i].ssrc = s /\ rtpIn'[j].n = held[s]
        BY <1>3, <1>4, <2>1, <3>2
      <4> QED BY <1>4, <1>7, <4>1 DEF InOrder
    <3> QED BY <1>3, <1>4, <3>1, <3>2
  <2>2. ASSUME NEW i \in 1..Len(rtpIn')
        PROVE  /\ last'[rtpIn'[i].ssrc] < rtpIn'[i].n
               /\ reader'[rtpIn'[i].ssrc] \in Holding =>
                    rtpIn'[i].n < held'[rtpIn'[i].ssrc]
    <3>1. CASE i <= Len(rtpIn)
      <4>1. i \in 1..Len(rtpIn) /\ rtpIn'[i] = rtpIn[i] /\ rtpIn[i].ssrc \in SSRCs
        BY <1>3, <1>4, <2>2, <3>1 DEF Packets
      <4> QED BY <1>2, <1>5, <4>1 DEF InOrder, Holding
    <3>2. CASE i = Len(rtpIn) + 1
      <4>1. rtpIn'[i].ssrc = s /\ rtpIn'[i].n = held[s]
        BY <1>4, <3>2
      <4>2. last[s] < held[s] /\ last' = last /\ reader'[s] \notin Holding
        BY <1>2, <1>5, <1>7, Zenon DEF InOrder, Holding
      <4> QED BY <4>1, <4>2, Zenon
    <3> QED BY <1>3, <1>4, <3>1, <3>2
  <2>3. \A u \in SSRCs : reader'[u] \in Holding => last'[u] < held'[u]
    BY <1>2, <1>5, Zenon DEF InOrder, Holding
  <2> QED BY <2>1, <2>2, <2>3, Zenon DEF InOrder
<1>10. Conserved'
  <2>1. Cardinality(Holders) \in Nat
        /\ Cardinality(Holders') = Cardinality(Holders) - 1
    BY <1>7, HoldersMove, Zenon DEF ReaderLocs, Holding
  <2>2. /\ received' = received /\ relayed' = relayed /\ rxDropped' = rxDropped
        /\ relayed \in Nat /\ rxDropped \in Nat
    BY <1>2 DEF QueueTypeOK
  <2> QED BY <1>3, <1>4, <2>1, <2>2, ConservedCount
<1>11. NewestKept'
  BY <1>5 DEF NewestKept
<1>12. NoRTPIsTrue' /\ Quiet'
  BY <1>2, Zenon DEF NoRTPIsTrue, Quiet
<1> QED BY <1>6, <1>8, <1>9, <1>10, <1>11, <1>12

\* What is left of a sorted queue without its head.
LEMMA TailOfQueue ==
  ASSUME QueueTypeOK, rtpIn # <<>>, rtpIn' = Tail(rtpIn)
  PROVE  /\ Len(rtpIn) \in Nat \ {0} /\ Len(rtpIn') = Len(rtpIn) - 1
         /\ rtpIn' \in Seq(Packets) /\ Head(rtpIn) = rtpIn[1]
         /\ Head(rtpIn) \in Packets
         /\ \A i \in 1..Len(rtpIn') :
              /\ rtpIn'[i] = rtpIn[i + 1] /\ i + 1 \in 1..Len(rtpIn)
              /\ rtpIn[i + 1] \in Packets
<1>1. /\ Len(rtpIn) \in Nat /\ rtpIn \in [1..Len(rtpIn) -> Packets]
      /\ Len(rtpIn') = Len(rtpIn) - 1 /\ rtpIn' \in Seq(Packets)
      /\ Head(rtpIn) \in Packets
      /\ \A i \in 1..Len(rtpIn') : rtpIn'[i] = rtpIn[i + 1]
  BY HeadTailProperties, LenProperties DEF QueueTypeOK
<1>2. Len(rtpIn) # 0 /\ Head(rtpIn) = rtpIn[1]
  BY DEF QueueTypeOK
<1> QED BY <1>1, <1>2

\* The oldest packet is dropped, by a reader that goes on holding its own.
LEMMA OldestDropped ==
  ASSUME IInv, NEW s \in SSRCs, Free(s)
  PROVE  IInv'
<1> USE DEF IInv
<1>1. /\ reader[s] = "free" /\ reader' = [reader EXCEPT ![s] = "retry"]
      /\ UNCHANGED <<held, received, relayed, last, reason>>
  BY DEF Free, At, relayVars
<1>2. /\ reader'[s] = "retry"
      /\ \A u \in SSRCs \ {s} : reader'[u] = reader[u]
      /\ \A u \in SSRCs : reader'[u] \in Holding <=> reader[u] \in Holding
  BY <1>1 DEF QueueTypeOK, Holding
<1>3. Holders' = Holders /\ Cardinality(Holders) \in Nat
  BY <1>1, HoldersMove, Zenon DEF ReaderLocs, Holding
<1>4. CASE rtpIn = <<>>
  <2>1. UNCHANGED <<rtpIn, rxDropped>>
    BY <1>4 DEF Free
  <2>2. QueueTypeOK'
    BY <2>1 DEF Free, At, QueueTypeOK, ReaderLocs, relayVars, rtcpVars
  <2>3. Numbered' /\ InOrder' /\ NoRTPIsTrue'
    BY <1>1, <1>2, <1>4, <2>1 DEF Numbered, InOrder, NoRTPIsTrue
  <2>4. Conserved'
    BY <1>1, <1>3, <2>1, ConservedCount
  <2>5. NewestKept'
    BY <1>4, <2>1, QueueAssumption DEF NewestKept, Full
  <2>6. Quiet'
    BY Zenon DEF Free, Quiet, relayVars
  <2> QED BY <2>6, <2>2, <2>3, <2>4, <2>5
<1>5. CASE rtpIn # <<>>
  <2>1. rtpIn' = Tail(rtpIn) /\ rxDropped' = rxDropped + 1
    BY <1>5 DEF Free
  <2> HIDE DEF IInv
  <2>2. /\ Len(rtpIn) \in Nat \ {0} /\ Len(rtpIn') = Len(rtpIn) - 1
        /\ rtpIn' \in Seq(Packets)
        /\ \A i \in 1..Len(rtpIn') :
             /\ rtpIn'[i] = rtpIn[i + 1] /\ i + 1 \in 1..Len(rtpIn)
             /\ rtpIn[i + 1] \in Packets
    BY <1>5, <2>1, TailOfQueue DEF IInv
  <2> USE DEF IInv
  <2>3. QueueTypeOK'
    <3>1. /\ rtpIn' \in Seq(Packets) /\ Len(rtpIn') <= QueueSize
          /\ rxDropped' \in Nat /\ received' \in Nat /\ relayed' \in Nat
      BY <1>1, <2>1, <2>2, QueueAssumption DEF QueueTypeOK
    <3> QED BY <1>1, <3>1 DEF Free, At, QueueTypeOK, ReaderLocs, relayVars, rtcpVars
  <2>4. Numbered'
    BY <1>1, <2>2 DEF Numbered
  <2>5. InOrder'
    <3>1. ASSUME NEW i \in 1..Len(rtpIn'), NEW j \in 1..Len(rtpIn'), i < j,
                 rtpIn'[i].ssrc = rtpIn'[j].ssrc
          PROVE  rtpIn'[i].n < rtpIn'[j].n
      <4>1. /\ rtpIn'[i] = rtpIn[i + 1] /\ i + 1 \in 1..Len(rtpIn)
            /\ rtpIn'[j] = rtpIn[j + 1] /\ j + 1 \in 1..Len(rtpIn)
            /\ i + 1 < j + 1
        BY <2>2, <3>1
      <4> QED BY <3>1, <4>1, Zenon DEF InOrder
    <3>2. ASSUME NEW i \in 1..Len(rtpIn')
          PROVE  /\ last[rtpIn'[i].ssrc] < rtpIn'[i].n
                 /\ reader[rtpIn'[i].ssrc] \in Holding =>
                      rtpIn'[i].n < held[rtpIn'[i].ssrc]
                 /\ rtpIn'[i].ssrc \in SSRCs
      <4>1. /\ rtpIn'[i] = rtpIn[i + 1] /\ i + 1 \in 1..Len(rtpIn)
            /\ rtpIn[i + 1] \in Packets
        BY <2>2, <3>2
      <4> QED BY <4>1 DEF InOrder, Packets
    <3> QED BY <1>1, <1>2, <3>1, <3>2 DEF InOrder
  <2>6. Conserved'
    BY <1>1, <1>3, <2>1, <2>2, ConservedCount DEF QueueTypeOK
  <2>7. NewestKept'
    BY <2>2, QueueAssumption DEF NewestKept, Full, QueueTypeOK
  <2>8. NoRTPIsTrue' /\ Quiet'
    BY <1>1, Zenon DEF NoRTPIsTrue, Quiet, Free, relayVars
  <2> QED BY <2>3, <2>4, <2>5, <2>6, <2>7, <2>8
<1> QED BY <1>4, <1>5

\* The relay takes the oldest packet.
LEMMA PacketRelayed ==
  ASSUME IInv, RelayTake
  PROVE  IInv'
<1>1. /\ rtpIn # <<>> /\ rtpIn' = Tail(rtpIn) /\ relayed' = relayed + 1
      /\ last' = [last EXCEPT ![Head(rtpIn).ssrc] = Head(rtpIn).n]
      /\ relay = "select" /\ relay' = "write"
      /\ UNCHANGED <<reader, held, rxDropped, received, reason>>
  BY DEF RelayTake
<1>2. /\ Len(rtpIn) \in Nat \ {0} /\ Len(rtpIn') = Len(rtpIn) - 1
      /\ rtpIn' \in Seq(Packets) /\ Head(rtpIn) = rtpIn[1]
      /\ \A i \in 1..Len(rtpIn') :
           rtpIn'[i] = rtpIn[i + 1] /\ i + 1 \in 1..Len(rtpIn)
  BY <1>1, TailOfQueue DEF IInv
<1>3. \A i \in 1..Len(rtpIn) : rtpIn[i].ssrc \in SSRCs /\ rtpIn[i].n \in Nat
  BY QueueElements DEF IInv
<1>4. /\ last' \in [SSRCs -> Nat] /\ last'[rtpIn[1].ssrc] = rtpIn[1].n
      /\ \A u \in SSRCs : u # rtpIn[1].ssrc => last'[u] = last[u]
  BY <1>1, <1>2, <1>3 DEF IInv, QueueTypeOK
<1>5. QueueTypeOK'
  <2>1. /\ Len(rtpIn') <= QueueSize /\ relayed' \in Nat
    BY <1>1, <1>2, QueueAssumption DEF IInv, QueueTypeOK
  <2> QED BY <1>1, <1>2, <1>4, <2>1 DEF RelayTake, IInv, QueueTypeOK, rtcpVars
<1>6. Numbered'
  BY <1>1, <1>2, <1>3, <1>4 DEF IInv, Numbered
<1>7. InOrder'
  <2>1. InOrder
    BY DEF IInv
  <2>2. ASSUME NEW i \in 1..Len(rtpIn'), NEW j \in 1..Len(rtpIn'), i < j,
               rtpIn'[i].ssrc = rtpIn'[j].ssrc
        PROVE  rtpIn'[i].n < rtpIn'[j].n
    <3>1. /\ rtpIn'[i] = rtpIn[i + 1] /\ i + 1 \in 1..Len(rtpIn)
          /\ rtpIn'[j] = rtpIn[j + 1] /\ j + 1 \in 1..Len(rtpIn) /\ i + 1 < j + 1
      BY <1>2, <2>2
    <3> QED BY <2>1, <2>2, <3>1 DEF InOrder
  <2>3. ASSUME NEW i \in 1..Len(rtpIn')
        PROVE  /\ last'[rtpIn'[i].ssrc] < rtpIn'[i].n
               /\ reader'[rtpIn'[i].ssrc] \in Holding =>
                    rtpIn'[i].n < held'[rtpIn'[i].ssrc]
    <3>1. /\ rtpIn'[i] = rtpIn[i + 1] /\ i + 1 \in 1..Len(rtpIn)
          /\ 1 \in 1..Len(rtpIn) /\ 1 < i + 1
      BY <1>2, <2>3
    <3>2. last'[rtpIn[i + 1].ssrc] < rtpIn[i + 1].n
      BY <1>3, <1>4, <2>1, <3>1 DEF InOrder
    <3>3. reader[rtpIn[i + 1].ssrc] \in Holding =>
            rtpIn[i + 1].n < held[rtpIn[i + 1].ssrc]
      BY <2>1, <3>1 DEF InOrder
    <3> QED BY <1>1, <3>1, <3>2, <3>3
  <2>4. ASSUME NEW u \in SSRCs, reader[u] \in Holding PROVE last'[u] < held[u]
    <3>1. 1 \in 1..Len(rtpIn)
      BY <1>2
    <3> QED BY <1>4, <2>1, <2>4, <3>1 DEF InOrder
  <2> QED BY <1>1, <2>2, <2>3, <2>4 DEF InOrder
<1>8. Conserved'
  <2>1. Holders' = Holders
    BY <1>1 DEF Holders
  <2>2. Cardinality(Holders) \in Nat
    BY QueueAssumption, FS_Subset, FS_CardinalityType DEF Holders
  <2> QED BY <1>1, <1>2, <2>1, <2>2, ConservedCount DEF IInv, QueueTypeOK
<1>9. NewestKept'
  <2>1. ~(Len(rtpIn') = QueueSize)
    BY <1>2, QueueAssumption DEF IInv, QueueTypeOK
  <2> QED BY <2>1 DEF NewestKept, Full
<1>10. NoRTPIsTrue'
  <2>1. reason = ""
    BY <1>1, Zenon DEF IInv, Quiet
  <2> QED BY <1>1, <2>1, Zenon DEF NoRTPIsTrue
<1>11. Quiet'
  BY <1>1, Zenon DEF IInv, Quiet, RelayTake
<1> QED BY <1>11, <1>5, <1>6, <1>7, <1>8, <1>9, <1>10 DEF IInv

-----------------------------------------------------------------------------
\* The relay ends: ErrNoInboundRTP is the reason only while no packet has come.
LEMMA RelayEnded ==
  ASSUME IInv, RelayExpires \/ RelayStops \/ RelayWrite
  PROVE  IInv'
<1>1. UNCHANGED <<readVars, pump, rtcpVars, ctxDone, relayed, last>>
  BY DEF RelayExpires, RelayStops, RelayWrite, EndRelay
<1>2. /\ relay # "ended"
      /\ \/ relay' = "ended" /\ reason' = "other"
         \/ relay' = "ended" /\ reason' = "noRTP" /\ ~sawRTP
         \/ relay' = "select" /\ reason' = reason
  BY DEF RelayExpires, RelayStops, RelayWrite, EndRelay
<1>3. UNCHANGED <<reader, held, rtpIn, rxDropped, received, sawRTP>>
  BY <1>1 DEF readVars
<1>4. QueueTypeOK'
  BY <1>1, <1>2, <1>3, Zenon DEF IInv, QueueTypeOK, Reasons, rtcpVars
<1>5. Numbered' /\ InOrder' /\ NewestKept'
  BY <1>1, <1>3 DEF IInv, Numbered, InOrder, NewestKept, Full
<1>6. Conserved'
  <2>1. Holders' = Holders
    BY <1>3 DEF Holders
  <2> QED BY <1>1, <1>3, <2>1, ConservedCount DEF IInv
<1>7. Quiet'
  BY <1>2, <1>3, Zenon DEF IInv, Quiet
<1>8. NoRTPIsTrue'
  <2>1. ~sawRTP => relayed = 0
    <3>1. Cardinality(Holders) \in Nat /\ Len(rtpIn) \in Nat
      BY QueueAssumption, FS_Subset, FS_CardinalityType, QueueElements
        DEF Holders, IInv
    <3>2. received = 0 => relayed = 0
      BY <3>1, ConservedCount DEF IInv, QueueTypeOK
    <3> QED BY <3>2, Zenon DEF IInv, Quiet
  <2> QED BY <1>1, <1>2, <2>1 DEF IInv, NoRTPIsTrue
<1> QED BY <1>4, <1>5, <1>6, <1>7, <1>8 DEF IInv

\* The third select drops the packet in hand: another reader has filled the
\* queue again.
LEMMA NewestDropped ==
  ASSUME IInv, NEW s \in SSRCs, reader[s] = "retry",
         reader' = [reader EXCEPT ![s] = "read"], rxDropped' = rxDropped + 1,
         UNCHANGED <<held, rtpIn, received, sawRTP, pump, relayVars, rtcpVars,
                     ctxDone>>
  PROVE  IInv'
<1>1. UNCHANGED <<relay, relayed, last, reason, drain, reports>>
  BY DEF relayVars, rtcpVars
<1>2. /\ reader'[s] = "read"
      /\ \A u \in SSRCs \ {s} : reader'[u] = reader[u]
  BY DEF IInv, QueueTypeOK
<1>3. QueueTypeOK'
  BY <1>1 DEF IInv, QueueTypeOK, ReaderLocs
<1>4. Numbered' /\ Quiet' /\ NoRTPIsTrue'
  BY <1>1, Zenon DEF IInv, Numbered, Quiet, NoRTPIsTrue
<1>5. InOrder'
  <2>1. \A u \in SSRCs : reader'[u] \in Holding => reader[u] \in Holding
    BY <1>2 DEF Holding
  <2> QED BY <1>1, <2>1, QueueElements DEF IInv, InOrder
<1>6. Conserved'
  <2>1. Cardinality(Holders) \in Nat
        /\ Cardinality(Holders') = Cardinality(Holders) - 1
    BY HoldersMove, Zenon DEF IInv, ReaderLocs, Holding
  <2> QED BY <1>1, <2>1, QueueElements, ConservedCount DEF IInv, QueueTypeOK
<1>7. NewestKept'
  BY <1>2 DEF IInv, NewestKept, Full
<1> QED BY <1>3, <1>4, <1>5, <1>6, <1>7 DEF IInv

\* A reader that found the queue full goes on to make room.
LEMMA ReaderWaits ==
  ASSUME IInv, NEW s \in SSRCs, reader[s] = "try",
         reader' = [reader EXCEPT ![s] = "free"],
         UNCHANGED <<held, rtpIn, rxDropped, received, sawRTP, pump, relayVars,
                     rtcpVars, ctxDone>>
  PROVE  IInv'
<1>1. UNCHANGED <<relay, relayed, last, reason, drain, reports>>
  BY DEF relayVars, rtcpVars
<1>2. /\ reader'[s] = "free"
      /\ \A u \in SSRCs \ {s} : reader'[u] = reader[u]
  BY DEF IInv, QueueTypeOK
<1>3. QueueTypeOK'
  BY <1>1 DEF IInv, QueueTypeOK, ReaderLocs
<1>4. Numbered' /\ Quiet' /\ NoRTPIsTrue'
  BY <1>1, Zenon DEF IInv, Numbered, Quiet, NoRTPIsTrue
<1>5. InOrder'
  <2>1. \A u \in SSRCs : reader'[u] \in Holding => reader[u] \in Holding
    BY <1>2 DEF Holding
  <2> QED BY <1>1, <2>1, QueueElements DEF IInv, InOrder
<1>6. Conserved'
  <2>1. Holders' = Holders
    BY HoldersMove, Zenon DEF IInv, ReaderLocs, Holding
  <2> QED BY <1>1, <2>1, ConservedCount DEF IInv
<1>7. NewestKept'
  BY <1>2 DEF IInv, NewestKept, Full
<1> QED BY <1>3, <1>4, <1>5, <1>6, <1>7 DEF IInv

\* Nothing that the invariant speaks of changes but the acceptor, the reports
\* and the context.
LEMMA Elsewhere ==
  ASSUME IInv, UNCHANGED <<readVars, relayVars>>,
         pump' \in {"accept", "done"}, drain' \in {"none", "read", "ended"},
         reports' \in 0..ReportsSize, ctxDone' \in BOOLEAN
  PROVE  IInv'
<1>1. UNCHANGED <<reader, held, rtpIn, rxDropped, received, sawRTP, relay,
                  relayed, last, reason>>
  BY DEF readVars, relayVars
<1>2. QueueTypeOK'
  BY <1>1 DEF IInv, QueueTypeOK
<1>3. Numbered' /\ Quiet' /\ NoRTPIsTrue' /\ NewestKept' /\ InOrder'
  BY <1>1, Zenon DEF IInv, Numbered, Quiet, NoRTPIsTrue, NewestKept, Full, InOrder
<1>4. Conserved'
  BY <1>1 DEF IInv, Conserved
<1> QED BY <1>2, <1>3, <1>4 DEF IInv

\* Every step keeps the invariant.
LEMMA StepIInv == IInv /\ [QueueNext]_queueVars => IInv'
<1> SUFFICES ASSUME IInv, [QueueNext]_queueVars PROVE IInv'
  OBVIOUS
<1>t. /\ pump \in {"accept", "done"} /\ drain \in {"none", "read", "ended"}
      /\ reports \in 0..ReportsSize /\ ctxDone \in BOOLEAN
  BY DEF IInv, QueueTypeOK
<1>1. ASSUME NEW s \in SSRCs, Accept(s) \/ ReadEnds(s) PROVE IInv'
  BY <1>1, ReaderBeginsOrEnds
<1>2. ASSUME NEW s \in SSRCs, ReadPacket(s) PROVE IInv'
  BY <1>2, PacketRead
<1>3. ASSUME NEW s \in SSRCs, Try(s) PROVE IInv'
  <2>1. CASE ~Full
    <3>1. /\ reader[s] = "try" /\ reader' = [reader EXCEPT ![s] = "read"]
          /\ Enqueue(s)
      BY <1>3, <2>1 DEF Try, At
    <3> QED BY <1>3, <2>1, <3>1, PacketQueued, Zenon DEF Try
  <2>2. CASE Full
    <3>1. /\ reader[s] = "try" /\ reader' = [reader EXCEPT ![s] = "free"]
          /\ UNCHANGED rtpIn
      BY <1>3, <2>2 DEF Try, At
    <3> QED BY <1>3, <3>1, ReaderWaits, Zenon DEF Try
  <2> QED BY <2>1, <2>2
<1>4. ASSUME NEW s \in SSRCs, Free(s) PROVE IInv'
  BY <1>4, OldestDropped
<1>5. ASSUME NEW s \in SSRCs, Retry(s) PROVE IInv'
  <2>1. reader[s] = "retry" /\ reader' = [reader EXCEPT ![s] = "read"]
    BY <1>5 DEF Retry, At
  <2>2. CASE ~Full
    <3>1. Enqueue(s) /\ UNCHANGED rxDropped
      BY <1>5, <2>2 DEF Retry
    <3> QED BY <1>5, <2>1, <2>2, <3>1, PacketQueued, Zenon DEF Retry
  <2>3. CASE Full
    <3>1. rxDropped' = rxDropped + 1 /\ UNCHANGED rtpIn
      BY <1>5, <2>3 DEF Retry
    <3> QED BY <1>5, <2>1, <3>1, NewestDropped, Zenon DEF Retry
  <2> QED BY <2>2, <2>3
<1>6. CASE RelayTake
  BY <1>6, PacketRelayed
<1>7. CASE RelayExpires \/ RelayStops \/ RelayWrite
  BY <1>7, RelayEnded
<1>8. CASE AcceptFails
  BY <1>8, <1>t, Elsewhere DEF AcceptFails, rtcpVars
<1>9. CASE DrainAccept \/ DrainEnds
  BY <1>9, <1>t, Elsewhere DEF DrainAccept, DrainEnds
<1>10. CASE DrainRead \/ Observe
  <2>1. reports' \in 0..ReportsSize
    BY <1>10, <1>t, QueueAssumption DEF DrainRead, Observe
  <2> QED BY <1>10, <1>t, <2>1, Elsewhere DEF DrainRead, Observe
<1>11. CASE EndContext
  BY <1>11, <1>t, Elsewhere DEF EndContext, rtcpVars
<1>12. CASE UNCHANGED queueVars
  BY <1>12, <1>t, Elsewhere DEF queueVars, rtcpVars
<1> QED BY <1>1, <1>2, <1>3, <1>4, <1>5, <1>6, <1>7, <1>8, <1>9, <1>10, <1>11,
           <1>12 DEF QueueNext, ReaderStep, ReadMalformed

-----------------------------------------------------------------------------
\* The inductive invariant holds throughout, for every set of sources, queue
\* size and number of packets.
THEOREM QueueInvariant == QueueSpec => []IInv
BY InitIInv, StepIInv, PTL DEF QueueSpec

\* The variables keep their types: rtpIn never holds more than its capacity.
THEOREM QueueTypeCorrect == QueueSpec => []QueueTypeOK
<1>1. IInv => QueueTypeOK
  BY DEF IInv
<1> QED BY <1>1, QueueInvariant, PTL

\* No packet is lost uncounted between the readers, the queue and the relay.
THEOREM PacketsConserved == QueueSpec => []Conserved
<1>1. IInv => Conserved
  BY DEF IInv
<1> QED BY <1>1, QueueInvariant, PTL

\* The packets of one source are relayed in the order they were read.
THEOREM RelayedInOrder == QueueSpec => []InOrder
<1>1. IInv => InOrder
  BY DEF IInv
<1> QED BY <1>1, QueueInvariant, PTL

\* readStream drops the packet in hand only if another reader took the room.
THEOREM NewestIsKept == QueueSpec => []NewestKept
<1>1. IInv => NewestKept
  BY DEF IInv
<1> QED BY <1>1, QueueInvariant, PTL

\* ErrNoInboundRTP is true: the relay that gets it has relayed nothing.
THEOREM NoRTPIsTruthful == QueueSpec => []NoRTPIsTrue
<1>1. IInv => NoRTPIsTrue
  BY DEF IInv
<1> QED BY <1>1, QueueInvariant, PTL

-----------------------------------------------------------------------------
(* The path: packet mux, sessions and queue *)

\* The packets an endpoint may hold.
WireTo(e) == {p \in Wire : p.to = e}

PathTypeOK ==
  /\ loop \in {"read", "put", "done"}
  /\ loop = "put" => hand \in Wire /\ hand.to \in Mux!Endpoints
  /\ packets \in [Mux!Endpoints -> Seq(Wire)]
  /\ mux \in {"open", "closing", "closed"}
  /\ phase \in {"handshake", "up", "failed"}
  /\ session \in [Sessions -> {"none", "up", "over"}]
  /\ sent \in Nat

\* An endpoint holds packets of its kind, and no more than its capacity.
EndpointsOK ==
  \A e \in Mux!Endpoints :
    /\ packets[e] \in Seq(WireTo(e))
    /\ Len(packets[e]) <= EndpointSize

\* RTP between the network and the readers.
OnTheWay == Len(packets["srtp"]) + (IF loop = "put" THEN 1 ELSE 0)

\* The readers have counted nothing the network did not bring.
Budget == received + OnTheWay <= sent /\ sent <= MaxPackets

\* The path is shut in one order: the mux, its connection and its endpoints,
\* then the sessions, then acceptLoop, the readers and drainSRTCP.
ShutInOrder ==
  /\ loop = "done" => mux # "open"
  /\ mux = "closed" => connFails
  /\ epClosed = IF mux = "closed" THEN Mux!Endpoints ELSE {}
  /\ \A k \in Sessions : session[k] = "over" => mux = "closed"
  /\ pump = "done" => session["srtp"] = "over"
  /\ \A s \in SSRCs : reader[s] = "ended" => session["srtp"] = "over"
  /\ drain = "ended" => session["srtcp"] = "over"

\* Until the handshake has succeeded there are no sessions, and nothing has
\* reached the queue.
NotUpYet ==
  /\ phase = "up" <=> \A k \in Sessions : session[k] # "none"
  /\ phase # "up" =>
       /\ session = [k \in Sessions |-> "none"]
       /\ received = 0 /\ relay = "select" /\ drain = "none"
       /\ reader = [s \in SSRCs |-> "none"]

PathInv == PathTypeOK /\ EndpointsOK /\ Budget /\ ShutInOrder /\ NotUpYet

\* Whenever readLoop cannot put its packet although the sessions are up, the
\* goroutine behind the full endpoint can move, and what it does next does not
\* wait for readLoop: DTLS reads, acceptLoop takes the new stream, the reader
\* reads or is on its way through the three selects that never block.
SomebodyMakesRoom ==
  phase = "up" /\ loop = "put" =>
    \/ Mux!HasRoom(hand.to) \/ hand.to \in epClosed
    \/ hand.to = "dtls" /\ packets["dtls"] # <<>>
    \/ /\ hand.to = "srtcp" /\ Waiting("srtcp")
       /\ drain \in {"none", "read"}
    \/ /\ hand.to = "srtp" /\ Waiting("srtp") /\ NextSSRC("srtp") \in SSRCs
       /\ \/ reader[NextSSRC("srtp")] = "none" /\ pump = "accept"
          \/ reader[NextSSRC("srtp")] \in {"read"} \cup Holding

\* The relay and the readers see the end of the media only if the mux has been
\* closed: a call whose connection is alive is never given up by them.
PumpEndsWithConnection == pump = "done" => mux = "closed" /\ connFails

-----------------------------------------------------------------------------
\* A session or DTLS takes a packet from its endpoint.
LEMMA Taken ==
  ASSUME PathTypeOK, EndpointsOK, NEW e \in Mux!Endpoints, Mux!Take(e)
  PROVE  /\ packets' \in [Mux!Endpoints -> Seq(Wire)] /\ EndpointsOK'
         /\ Len(packets[e]) \in Nat /\ Len(packets'[e]) = Len(packets[e]) - 1
         /\ \A d \in Mux!Endpoints \ {e} : packets'[d] = packets[d]
         /\ Head(packets[e]) \in WireTo(e)
<1>1. /\ packets[e] \in Seq(WireTo(e)) /\ packets[e] \in Seq(Wire)
      /\ packets[e] # <<>>
      /\ packets' = [packets EXCEPT ![e] = Tail(packets[e])]
  BY DEF PathTypeOK, EndpointsOK, Mux!Take
<1>2. /\ Tail(packets[e]) \in Seq(WireTo(e)) /\ Tail(packets[e]) \in Seq(Wire)
      /\ Head(packets[e]) \in WireTo(e)
      /\ Len(packets[e]) \in Nat /\ Len(Tail(packets[e])) = Len(packets[e]) - 1
  BY <1>1, HeadTailProperties, LenProperties
<1>3. /\ packets' \in [Mux!Endpoints -> Seq(Wire)]
      /\ packets'[e] = Tail(packets[e])
      /\ \A d \in Mux!Endpoints \ {e} : packets'[d] = packets[d]
  BY <1>1, <1>2 DEF PathTypeOK
<1>4. EndpointsOK'
  <2>1. Len(packets'[e]) <= EndpointSize
    BY <1>2, <1>3, EndpointAssumption DEF EndpointsOK
  <2> QED BY <1>2, <1>3, <2>1, Zenon DEF EndpointsOK, WireTo, Wire
<1> QED BY <1>2, <1>3, <1>4

\* readLoop puts a packet into its endpoint.
LEMMA PutOne ==
  ASSUME PathTypeOK, EndpointsOK, loop = "put", Mux!HasRoom(hand.to),
         packets' = [packets EXCEPT ![hand.to] = Append(@, hand)]
  PROVE  /\ packets' \in [Mux!Endpoints -> Seq(Wire)] /\ EndpointsOK'
         /\ Len(packets[hand.to]) \in Nat
         /\ Len(packets'[hand.to]) = Len(packets[hand.to]) + 1
         /\ \A d \in Mux!Endpoints \ {hand.to} : packets'[d] = packets[d]
<1> DEFINE e == hand.to
<1>1. /\ e \in Mux!Endpoints /\ hand \in Wire /\ hand \in WireTo(e)
      /\ packets[e] \in Seq(WireTo(e)) /\ packets[e] \in Seq(Wire)
      /\ Len(packets[e]) < EndpointSize
      /\ packets' = [packets EXCEPT ![e] = Append(packets[e], hand)]
  BY DEF PathTypeOK, EndpointsOK, Mux!HasRoom, WireTo
<1> HIDE DEF e
<1>2. /\ Append(packets[e], hand) \in Seq(WireTo(e))
      /\ Append(packets[e], hand) \in Seq(Wire)
      /\ Len(packets[e]) \in Nat
      /\ Len(Append(packets[e], hand)) = Len(packets[e]) + 1
  BY <1>1, AppendProperties, LenProperties
<1>3. /\ packets' \in [Mux!Endpoints -> Seq(Wire)]
      /\ packets'[e] = Append(packets[e], hand)
      /\ \A d \in Mux!Endpoints \ {e} : packets'[d] = packets[d]
  BY <1>1, <1>2 DEF PathTypeOK
<1>4. EndpointsOK'
  <2>1. Len(packets'[e]) <= EndpointSize
    BY <1>1, <1>2, <1>3, EndpointAssumption
  <2> QED BY <1>2, <1>3, <2>1 DEF EndpointsOK, WireTo, Wire
<1> QED BY <1>2, <1>3, <1>4 DEF e

\* What an SRTP packet carries.
LEMMA RTPHasSource ==
  ASSUME NEW p \in WireTo("srtp")
  PROVE  p.ssrc \in SSRCs
BY DEF WireTo, Wire

\* The lengths of the endpoints are numbers, and so is what is on the way.
LEMMA WayNat ==
  ASSUME PathTypeOK
  PROVE  /\ \A e \in Mux!Endpoints : Len(packets[e]) \in Nat
         /\ "srtp" \in Mux!Endpoints /\ OnTheWay \in Nat
<1>1. \A e \in Mux!Endpoints : Len(packets[e]) \in Nat
  BY LenProperties DEF PathTypeOK
<1>2. "srtp" \in Mux!Endpoints
  BY DEF Mux!Endpoints
<1>3. OnTheWay \in Nat
  <2> DEFINE n == Len(packets["srtp"])
  <2>1. n \in Nat
    BY <1>1, <1>2
  <2>2. OnTheWay = n + (IF loop = "put" THEN 1 ELSE 0)
    BY DEF OnTheWay
  <2> HIDE DEF n
  <2> QED BY <2>1, <2>2
<1> QED BY <1>1, <1>2, <1>3

-----------------------------------------------------------------------------
(* Every step of the path is one of the queue, or leaves it alone *)

\* A reader takes a packet only within the bound of the queue's model.
LEMMA WithinBound ==
  ASSUME PathTypeOK, QueueTypeOK, Budget, packets["srtp"] # <<>>
  PROVE  received < MaxPackets
<1>1. Len(packets["srtp"]) \in Nat \ {0}
  BY EmptySeq, LenProperties, WayNat DEF PathTypeOK
<1> DEFINE n == Len(packets["srtp"])
<1>2. n \in Nat \ {0} /\ OnTheWay = n + (IF loop = "put" THEN 1 ELSE 0)
  BY <1>1 DEF OnTheWay
<1>3. /\ received + OnTheWay <= sent /\ sent <= MaxPackets
      /\ received \in Nat /\ sent \in Nat /\ MaxPackets \in Nat
  BY QueueAssumption DEF Budget, QueueTypeOK, PathTypeOK
<1> HIDE DEF n
<1> QED BY <1>2, <1>3

LEMMA QueueStep ==
  ASSUME PathTypeOK, EndpointsOK, Budget, QueueTypeOK, [Next]_vars
  PROVE  [QueueNext]_queueVars
<1>1. ASSUME Receive \/ MuxLoop \/ MuxCloses \/ NetworkFails \/ CloseTransport
             \/ ReadDTLS \/ HandshakeEnds \/ (\E k \in Sessions : SessionEnds(k))
             \/ UNCHANGED vars
      PROVE  UNCHANGED queueVars
  BY <1>1, Zenon DEF Receive, MuxLoop, MuxCloses, NetworkFails, CloseTransport,
             ReadDTLS, HandshakeEnds, SessionEnds, vars
<1>2. CASE AcceptRTP
  <2>1. packets["srtp"] # <<>> /\ packets["srtp"] \in Seq(WireTo("srtp"))
    BY <1>2 DEF AcceptRTP, Waiting, EndpointsOK, Mux!Endpoints
  <2>2. NextSSRC("srtp") \in SSRCs
    BY <2>1, HeadTailProperties, RTPHasSource DEF NextSSRC
  <2> QED BY <1>2, <2>2, Zenon DEF AcceptRTP, QueueNext
<1>3. CASE AcceptRTCP
  BY <1>3, Zenon DEF AcceptRTCP, QueueNext
<1>4. CASE SessionReads
  <2>1. CASE DeliverToRTCP
    BY <2>1, Zenon DEF DeliverToRTCP, QueueNext
  <2>2. ASSUME NEW s \in SSRCs, DeliverTo(s) PROVE QueueNext
    <3>1. received < MaxPackets
      BY <2>2, WithinBound DEF DeliverTo, Waiting
    <3> QED BY <2>2, <3>1, Zenon DEF DeliverTo, QueueNext
  <2> QED BY <1>4, <2>1, <2>2, Zenon DEF SessionReads
<1>5. CASE SessionOver
  BY <1>5, Zenon DEF SessionOver, QueueNext
<1>6. CASE Pumping \/ RelayReads \/ RelayOther \/ Observes \/ CancelCall
  BY <1>6, Zenon DEF Pumping, RelayReads, RelayOther, Observes, CancelCall,
             QueueNext
<1> QED BY <1>1, <1>2, <1>3, <1>4, <1>5, <1>6, Zenon DEF Next

-----------------------------------------------------------------------------
(* The invariant of the path *)

\* Steps of acceptLoop, the readers, the relay and drainSRTCP, of observeRTCP
\* and of the context, that take nothing from an endpoint.
QueueOnly ==
  \/ AcceptRTP \/ AcceptRTCP \/ SessionOver
  \/ Pumping \/ RelayReads \/ RelayOther \/ Observes \/ CancelCall

LEMMA PathInit == Init => PathInv
<1> SUFFICES ASSUME Init PROVE PathInv
  OBVIOUS
<1>1. /\ loop = "read" /\ packets = [e \in Mux!Endpoints |-> <<>>]
      /\ epClosed = {} /\ mux = "open" /\ phase = "handshake"
      /\ session = [k \in Sessions |-> "none"] /\ sent = 0
  BY DEF Init, Mux!Init
<1>2. /\ received = 0 /\ pump = "accept" /\ relay = "select" /\ drain = "none"
      /\ reader = [s \in SSRCs |-> "none"]
  BY Zenon DEF Init, QueueInit
<1>3. <<>> \in Seq(Wire) /\ Len(<<>>) = 0 /\ \A e : <<>> \in Seq(WireTo(e))
  BY EmptySeq
<1>4. PathTypeOK
  BY <1>1, <1>3 DEF PathTypeOK
<1>5. EndpointsOK
  BY <1>1, <1>3, EndpointAssumption DEF EndpointsOK
<1>6. Budget
  <2>1. packets["srtp"] = <<>>
    BY <1>1 DEF Mux!Endpoints
  <2> QED BY <1>1, <1>2, <1>3, <2>1, QueueAssumption DEF Budget, OnTheWay
<1>7. ShutInOrder
  BY <1>1, <1>2 DEF ShutInOrder, Sessions
<1>8. NotUpYet
  BY <1>1, <1>2 DEF NotUpYet, Sessions
<1> QED BY <1>4, <1>5, <1>6, <1>7, <1>8 DEF PathInv

\* What a step of QueueOnly does to what the path's invariant looks at.
LEMMA QueueOnlyFrame ==
  ASSUME PathInv, QueueTypeOK, QueueOnly
  PROVE  /\ UNCHANGED <<loop, hand, packets, epClosed, mux, connFails, phase,
                        session, sent, received>>
         /\ pump' = "done" => pump = "done" \/ session["srtp"] = "over"
         /\ \A s \in SSRCs : reader'[s] = "ended" =>
              reader[s] = "ended" \/ session["srtp"] = "over"
         /\ drain' = "ended" => drain = "ended" \/ session["srtcp"] = "over"
         /\ phase # "up" => UNCHANGED <<reader, relay, drain>>
<1>1. UNCHANGED <<loop, hand, packets, epClosed, mux, connFails, phase, session,
                  sent>>
  BY DEF QueueOnly, AcceptRTP, AcceptRTCP, SessionOver, Pumping, RelayReads,
         RelayOther, Observes, CancelCall, muxVars, sessionVars
<1>t. reader \in [SSRCs -> ReaderLocs]
  BY DEF QueueTypeOK
<1>u. phase # "up" =>
        /\ session["srtp"] = "none" /\ session["srtcp"] = "none"
        /\ \A s \in SSRCs : reader[s] = "none"
  BY DEF PathInv, NotUpYet, Sessions
<1>2. CASE AcceptRTP
  BY <1>1, <1>2, <1>t, <1>u, Zenon
     DEF AcceptRTP, Accept, Waiting, relayVars, rtcpVars
<1>3. CASE AcceptRTCP
  BY <1>1, <1>3, <1>u, Zenon DEF AcceptRTCP, DrainAccept, Waiting, readVars, relayVars
<1>4. CASE SessionOver
  <2>1. CASE session["srtp"] = "over" /\ AcceptFails
    BY <1>1, <2>1, <1>u DEF AcceptFails, readVars, relayVars, rtcpVars
  <2>2. ASSUME session["srtp"] = "over", NEW s \in SSRCs, ReadEnds(s)
        PROVE  /\ received' = received /\ pump' = pump /\ drain' = drain
               /\ phase = "up"
    BY <2>2, <1>u DEF ReadEnds, rtcpVars
  <2>3. CASE session["srtcp"] = "over" /\ DrainEnds
    BY <1>1, <2>3, <1>u DEF DrainEnds, readVars, relayVars
  <2> QED BY <1>1, <1>4, <2>1, <2>2, <2>3 DEF SessionOver
<1>5. CASE Pumping
  <2>1. PICK s \in SSRCs : ReaderStep(s)
    BY <1>5 DEF Pumping
  <2>2. /\ reader[s] \in Holding
        /\ \E to \in {"read", "free", "retry"} : reader' = [reader EXCEPT ![s] = to]
        /\ UNCHANGED <<received, pump, drain>>
    BY <2>1 DEF ReaderStep, Try, Free, Retry, At, Holding, rtcpVars
  <2>3. phase = "up"
    BY <2>2, <1>u DEF Holding
  <2>4. \A u \in SSRCs : reader'[u] = "ended" => reader[u] = "ended"
    BY <2>2, <1>t
  <2> QED BY <1>1, <2>2, <2>3, <2>4
<1>6. CASE RelayReads \/ RelayOther
  <2>1. /\ phase = "up"
        /\ RelayTake \/ RelayStops \/ RelayExpires \/ RelayWrite
    BY <1>6 DEF RelayReads, RelayOther
  <2>2. UNCHANGED <<received, reader, pump, drain>>
    BY <2>1 DEF RelayTake, RelayStops, RelayExpires, RelayWrite, readVars, rtcpVars
  <2> QED BY <1>1, <2>1, <2>2
<1>7. CASE Observes \/ CancelCall
  BY <1>1, <1>7 DEF Observes, CancelCall, Observe, EndContext, readVars,
                    relayVars, rtcpVars
<1> QED BY <1>2, <1>3, <1>4, <1>5, <1>6, <1>7, Zenon DEF QueueOnly

\* Next, sorted by what a step touches.
LEMMA PathSteps ==
  ASSUME Next
  PROVE  \/ Receive \/ MuxLoop \/ MuxCloses \/ NetworkFails \/ CloseTransport
         \/ ReadDTLS \/ HandshakeEnds \/ DeliverToRTCP
         \/ \E s \in SSRCs : DeliverTo(s)
         \/ \E k \in Sessions : SessionEnds(k)
         \/ QueueOnly \/ UNCHANGED vars
BY Zenon DEF Next, QueueOnly, SessionReads

\* Types and endpoints.
LEMMA PathTypeStep ==
  ASSUME PathInv, QueueTypeOK, Next
  PROVE  PathTypeOK' /\ EndpointsOK'
<1> USE DEF PathInv
<1>1. CASE Receive
  <2>1. PICK p \in Wire : Mux!Read(p)
    BY <1>1 DEF Receive
  <2>2. /\ UNCHANGED <<packets, mux, phase, session>> /\ sent' = sent + 1
        /\ \/ p.to \in Mux!Endpoints /\ loop' = "put" /\ hand' = p
           \/ loop' = "read"
    BY <1>1, <2>1 DEF Receive, Mux!Read, sessionVars
  <2>3. EndpointsOK'
    BY <2>2, Zenon DEF EndpointsOK, WireTo, Wire
  <2>4. sent' \in Nat
    BY <2>2 DEF PathTypeOK
  <2>5. loop' = "put" => hand' \in Wire /\ hand'.to \in Mux!Endpoints
    BY <2>2
  <2> QED BY <2>2, <2>3, <2>4, <2>5, Zenon DEF PathTypeOK
<1>2. CASE MuxLoop
  <2>1. UNCHANGED <<phase, session, sent>>
    BY <1>2 DEF MuxLoop, sessionVars
  <2>2. loop' \in {"read", "done"} /\ mux' \in {"open", "closing", "closed"}
    BY <1>2 DEF MuxLoop, Mux!LoopStep, Mux!ReadFails, Mux!Put, Mux!StartClose,
                PathTypeOK
  <2>3. \/ UNCHANGED packets
        \/ /\ loop = "put" /\ Mux!HasRoom(hand.to)
           /\ packets' = [packets EXCEPT ![hand.to] = Append(@, hand)]
    BY <1>2 DEF MuxLoop, Mux!LoopStep, Mux!ReadFails, Mux!Put
  <2>4. packets' \in [Mux!Endpoints -> Seq(Wire)] /\ EndpointsOK'
    <3>1. CASE UNCHANGED packets
      BY <3>1 DEF PathTypeOK, EndpointsOK, WireTo, Wire
    <3> QED BY <2>3, <3>1, PutOne
  <2> QED BY <2>1, <2>2, <2>4 DEF PathTypeOK, Wire
<1>3. ASSUME NEW e \in Mux!Endpoints, Mux!Take(e), UNCHANGED <<sessionVars, sent>>
      PROVE  PathTypeOK' /\ EndpointsOK'
  BY <1>3, Taken, Zenon DEF PathTypeOK, Mux!Take, sessionVars, Wire
<1>4. ASSUME ReadDTLS \/ DeliverToRTCP \/ \E s \in SSRCs : DeliverTo(s)
      PROVE  PathTypeOK' /\ EndpointsOK'
  <2>1. PICK e \in Mux!Endpoints : Mux!Take(e)
    BY <1>4 DEF ReadDTLS, DeliverToRTCP, DeliverTo, Mux!Endpoints
  <2>2. UNCHANGED <<sessionVars, sent>>
    BY <1>4 DEF ReadDTLS, DeliverToRTCP, DeliverTo
  <2> QED BY <2>1, <2>2, <1>3
<1>5. ASSUME UNCHANGED <<loop, hand, packets, sent>>,
             mux' \in {"open", "closing", "closed"},
             phase' \in {"handshake", "up", "failed"},
             session' \in [Sessions -> {"none", "up", "over"}]
      PROVE  PathTypeOK' /\ EndpointsOK'
  BY <1>5, Zenon DEF PathTypeOK, EndpointsOK, WireTo, Wire
<1>6. CASE MuxCloses \/ NetworkFails \/ CloseTransport
  BY <1>5, <1>6 DEF MuxCloses, NetworkFails, CloseTransport, Mux!CloseRest,
       Mux!ConnFails, Mux!Close, Mux!StartClose, sessionVars, PathTypeOK
<1>7. CASE HandshakeEnds
  BY <1>5, <1>7 DEF HandshakeEnds, muxVars, PathTypeOK
<1>8. ASSUME NEW k \in Sessions, SessionEnds(k) PROVE PathTypeOK' /\ EndpointsOK'
  BY <1>5, <1>8 DEF SessionEnds, muxVars, PathTypeOK
<1>9. CASE QueueOnly
  BY <1>5, <1>9, QueueOnlyFrame DEF PathTypeOK
<1>10. CASE UNCHANGED vars
  BY <1>5, <1>10 DEF vars, muxVars, sessionVars, PathTypeOK
<1> QED BY <1>1, <1>2, <1>4, <1>6, <1>7, <1>8, <1>9, <1>10, PathSteps, Zenon

\* No packet is counted twice between the network and the readers.
LEMMA BudgetStep ==
  ASSUME PathInv, QueueTypeOK, Next
  PROVE  Budget'
<1> DEFINE n == Len(packets["srtp"])  h == IF loop = "put" THEN 1 ELSE 0
           m == Len(packets'["srtp"])
<1>1. /\ n \in Nat /\ received \in Nat /\ sent \in Nat
      /\ received + (n + h) <= sent /\ sent <= MaxPackets
      /\ "srtp" \in Mux!Endpoints
  BY WayNat, Zenon DEF PathInv, PathTypeOK, QueueTypeOK, Budget, OnTheWay
<1>2. Budget' <=> /\ received' + (m + IF loop' = "put" THEN 1 ELSE 0) <= sent'
                  /\ sent' <= MaxPackets
  BY DEF Budget, OnTheWay
<1>3. CASE Receive
  <2>1. /\ loop = "read" /\ sent < MaxPackets /\ sent' = sent + 1
        /\ packets' = packets /\ received' = received
    BY <1>3 DEF Receive, Mux!Read, queueVars, readVars
  <2>2. m = n BY <2>1
  <2> HIDE DEF n, m
  <2> QED BY <1>1, <1>2, <2>1, <2>2, QueueAssumption
<1>4. CASE MuxLoop
  <2>1. received' = received /\ sent' = sent /\ loop' # "put"
    BY <1>4 DEF MuxLoop, Mux!LoopStep, Mux!ReadFails, Mux!Put, queueVars, readVars
  <2>2. m = n \/ (m = n + 1 /\ loop = "put")
    <3>1. \/ UNCHANGED packets
          \/ /\ loop = "put" /\ Mux!HasRoom(hand.to)
             /\ packets' = [packets EXCEPT ![hand.to] = Append(@, hand)]
      BY <1>4 DEF MuxLoop, Mux!LoopStep, Mux!ReadFails, Mux!Put
    <3>2. CASE UNCHANGED packets
      BY <3>2
    <3>3. CASE ~UNCHANGED packets
      BY <1>1, <3>1, <3>3, PutOne DEF PathInv
    <3> QED BY <3>2, <3>3
  <2> HIDE DEF n, m
  <2> QED BY <1>1, <1>2, <2>1, <2>2
<1>5. ASSUME NEW s \in SSRCs, DeliverTo(s) PROVE Budget'
  <2>1. Mux!Take("srtp") /\ loop' = loop /\ sent' = sent
    BY <1>5 DEF DeliverTo, Mux!Take
  <2>2. m = n - 1
    BY <1>1, <2>1, Taken DEF PathInv
  <2>3. received' = received \/ received' = received + 1
    BY <1>5 DEF DeliverTo, ReadPacket, ReadMalformed, queueVars, readVars
  <2> HIDE DEF n, m
  <2> QED BY <1>1, <1>2, <2>1, <2>2, <2>3
<1>6. ASSUME received' = received, loop' = loop, sent' = sent, m = n
      PROVE  Budget'
  BY <1>1, <1>2, <1>6, Zenon
<1>7. CASE ReadDTLS \/ DeliverToRTCP
  <2>1. PICK e \in {"dtls", "srtcp"} : Mux!Take(e)
    BY <1>7 DEF ReadDTLS, DeliverToRTCP
  <2>2. e \in Mux!Endpoints /\ e # "srtp"
    BY DEF Mux!Endpoints
  <2>3. m = n
    BY <1>1, <2>1, <2>2, Taken DEF PathInv
  <2>4. received' = received /\ sent' = sent /\ loop' = loop
    BY <1>7 DEF ReadDTLS, DeliverToRTCP, DrainRead, Mux!Take, queueVars, readVars
  <2> QED BY <1>6, <2>3, <2>4
<1>8. CASE MuxCloses \/ NetworkFails \/ CloseTransport
  BY <1>6, <1>8 DEF MuxCloses, NetworkFails, CloseTransport, Mux!CloseRest,
       Mux!ConnFails, Mux!Close, queueVars, readVars
<1>9. CASE HandshakeEnds \/ \E k \in Sessions : SessionEnds(k)
  BY <1>6, <1>9 DEF HandshakeEnds, SessionEnds, muxVars, queueVars, readVars
<1>10. CASE QueueOnly
  BY <1>6, <1>10, QueueOnlyFrame
<1>11. CASE UNCHANGED vars
  BY <1>6, <1>11 DEF vars, muxVars, queueVars, readVars
<1> QED BY <1>3, <1>4, <1>5, <1>7, <1>8, <1>9, <1>10, <1>11, PathSteps, Zenon

\* Nothing ends before what it depends on.
LEMMA ShutStep ==
  ASSUME PathInv, QueueTypeOK, Next
  PROVE  ShutInOrder'
<1>t. /\ mux \in {"open", "closing", "closed"} /\ reader \in [SSRCs -> ReaderLocs]
      /\ session \in [Sessions -> {"none", "up", "over"}]
      /\ Sessions = {"srtp", "srtcp"} /\ Sessions \subseteq Mux!Endpoints
  BY DEF PathInv, PathTypeOK, QueueTypeOK, Sessions, Mux!Endpoints
<1>i. ShutInOrder
  BY DEF PathInv
<1>1. CASE Receive \/ MuxLoop \/ MuxCloses \/ NetworkFails \/ CloseTransport
  <2>1. UNCHANGED <<session, pump, reader, drain>>
    BY <1>1 DEF Receive, MuxLoop, MuxCloses, NetworkFails, CloseTransport,
                sessionVars, queueVars, readVars, rtcpVars
  <2>2. /\ mux = "closed" => mux' = "closed"
        /\ loop' = "done" => mux' # "open"
        /\ mux' = "closed" => connFails'
        /\ epClosed' = IF mux' = "closed" THEN Mux!Endpoints ELSE {}
    <3>1. CASE Receive
      BY <1>i, <3>1 DEF ShutInOrder, Receive, Mux!Read
    <3>2. CASE MuxLoop
      BY <1>i, <1>t, <3>2 DEF ShutInOrder, MuxLoop, Mux!LoopStep, Mux!ReadFails,
         Mux!Put, Mux!StartClose
    <3>3. CASE MuxCloses
      BY <3>3 DEF MuxCloses, Mux!CloseRest
    <3>4. CASE NetworkFails
      BY <1>i, <3>4 DEF ShutInOrder, NetworkFails, Mux!ConnFails
    <3>5. CASE CloseTransport
      BY <1>i, <3>5 DEF ShutInOrder, CloseTransport, Mux!Close, Mux!StartClose
    <3> QED BY <1>1, <3>1, <3>2, <3>3, <3>4, <3>5
  <2> QED BY <1>i, <2>1, <2>2, Zenon DEF ShutInOrder
<1>2. ASSUME UNCHANGED <<loop, epClosed, mux, connFails>>,
             \A k \in Sessions : session[k] = "over" => session'[k] = "over",
             \A k \in Sessions : session'[k] = "over" => mux = "closed",
             pump' = "done" => pump = "done" \/ session["srtp"] = "over",
             \A s \in SSRCs : reader'[s] = "ended" =>
               reader[s] = "ended" \/ session["srtp"] = "over",
             drain' = "ended" => drain = "ended" \/ session["srtcp"] = "over"
      PROVE  ShutInOrder'
  BY <1>i, <1>t, <1>2 DEF ShutInOrder
<1>3. \A k \in Sessions : session[k] = "over" => mux = "closed"
  BY <1>i DEF ShutInOrder
<1>4. CASE ReadDTLS \/ DeliverToRTCP
  <2>1. UNCHANGED <<loop, epClosed, mux, connFails, session, pump, reader, drain>>
    BY <1>4 DEF ReadDTLS, DeliverToRTCP, DrainRead, Mux!Take, sessionVars,
                queueVars, readVars, rtcpVars
  <2> QED BY <1>2, <1>3, <2>1
<1>5. ASSUME NEW s \in SSRCs, DeliverTo(s) PROVE ShutInOrder'
  <2>1. /\ UNCHANGED <<loop, epClosed, mux, connFails, session, pump, drain>>
        /\ reader' = [reader EXCEPT ![s] = "try"] \/ reader' = reader
    BY <1>5 DEF DeliverTo, ReadPacket, ReadMalformed, At, Mux!Take, sessionVars,
                queueVars, readVars, rtcpVars
  <2>2. \A u \in SSRCs : reader'[u] = "ended" => reader[u] = "ended"
    BY <1>t, <2>1
  <2> QED BY <1>2, <1>3, <2>1, <2>2
<1>6. CASE HandshakeEnds
  <2>1. UNCHANGED <<loop, epClosed, mux, connFails, pump, reader, drain>>
    BY <1>6 DEF HandshakeEnds, muxVars, queueVars, readVars, rtcpVars
  <2>2. \A k \in Sessions : session[k] = "none"
    BY <1>6 DEF HandshakeEnds, PathInv, NotUpYet
  <2>3. \A k \in Sessions : session'[k] # "over"
    BY <1>6, <2>2 DEF HandshakeEnds
  <2> QED BY <1>2, <2>1, <2>2, <2>3
<1>7. ASSUME NEW k \in Sessions, SessionEnds(k) PROVE ShutInOrder'
  <2>1. /\ UNCHANGED <<loop, epClosed, mux, connFails, pump, reader, drain>>
        /\ session' = [session EXCEPT ![k] = "over"] /\ k \in epClosed
    BY <1>7 DEF SessionEnds, Mux!EOF, muxVars, queueVars, readVars, rtcpVars
  <2>2. mux = "closed"
    BY <1>i, <2>1 DEF ShutInOrder
  <2>3. \A j \in Sessions : session[j] = "over" => session'[j] = "over"
    BY <1>t, <2>1
  <2> QED BY <1>2, <2>1, <2>2, <2>3
<1>8. CASE QueueOnly
  BY <1>2, <1>3, <1>8, QueueOnlyFrame
<1>9. CASE UNCHANGED vars
  <2>1. UNCHANGED <<loop, epClosed, mux, connFails, session, pump, reader, drain>>
    BY <1>9 DEF vars, muxVars, sessionVars, queueVars, readVars, rtcpVars
  <2> QED BY <1>2, <1>3, <2>1
<1> QED BY <1>1, <1>4, <1>5, <1>6, <1>7, <1>8, <1>9, PathSteps, Zenon

\* Nothing reaches the queue before the sessions are made.
LEMMA NotUpStep ==
  ASSUME PathInv, QueueTypeOK, Next
  PROVE  NotUpYet'
<1>t. /\ session \in [Sessions -> {"none", "up", "over"}]
      /\ Sessions = {"srtp", "srtcp"}
  BY DEF PathInv, PathTypeOK, Sessions
<1>i. NotUpYet
  BY DEF PathInv
<1>1. ASSUME UNCHANGED <<phase, session>>,
             phase # "up" => UNCHANGED <<received, relay, drain, reader>>
      PROVE  NotUpYet'
  BY <1>i, <1>1 DEF NotUpYet, Sessions
<1>2. CASE Receive \/ MuxLoop \/ MuxCloses \/ NetworkFails \/ CloseTransport
           \/ ReadDTLS \/ UNCHANGED vars
  <2>1. UNCHANGED <<phase, session, received, relay, drain, reader>>
    BY <1>2, Zenon
       DEF Receive, MuxLoop, MuxCloses, NetworkFails, CloseTransport, ReadDTLS,
         vars, sessionVars, queueVars, readVars, relayVars, rtcpVars
  <2> QED BY <1>1, <2>1
<1>3. CASE DeliverToRTCP \/ \E s \in SSRCs : DeliverTo(s)
  <2>1. UNCHANGED <<phase, session>>
    BY <1>3 DEF DeliverToRTCP, DeliverTo, sessionVars
  <2>2. phase = "up"
    BY <1>3, <1>i, <1>t DEF DeliverToRTCP, DeliverTo, Waiting, NotUpYet
  <2> QED BY <1>1, <2>1, <2>2
<1>4. CASE HandshakeEnds
  <2>1. /\ UNCHANGED <<received, relay, drain, reader>> /\ phase = "handshake"
        /\ \/ phase' = "up" /\ session' = [k \in Sessions |-> "up"]
           \/ phase' = "failed" /\ UNCHANGED session
    BY <1>4 DEF HandshakeEnds, queueVars, readVars, relayVars, rtcpVars
  <2> QED BY <1>i, <2>1 DEF NotUpYet, Sessions
<1>5. ASSUME NEW k \in Sessions, SessionEnds(k) PROVE NotUpYet'
  <2>1. /\ phase' = phase /\ session[k] = "up"
        /\ session' = [session EXCEPT ![k] = "over"]
    BY <1>5 DEF SessionEnds
  <2>2. phase = "up" /\ \A j \in Sessions : session[j] # "none"
    BY <1>i, <2>1 DEF NotUpYet
  <2>3. \A j \in Sessions : session'[j] # "none"
    BY <1>t, <2>1, <2>2
  <2> QED BY <2>1, <2>2, <2>3 DEF NotUpYet, Sessions
<1>6. CASE QueueOnly
  BY <1>1, <1>6, QueueOnlyFrame
<1> QED BY <1>2, <1>3, <1>4, <1>5, <1>6, PathSteps, Zenon

-----------------------------------------------------------------------------
\* The inductive invariant of the path, together with that of the queue.
THEOREM PathInvariant == Spec => [](PathInv /\ IInv)
<1>1. Init => PathInv /\ IInv
  BY PathInit, InitIInv DEF Init
<1>2. PathInv /\ IInv /\ [Next]_vars => (PathInv /\ IInv)'
  <2> SUFFICES ASSUME PathInv, IInv, [Next]_vars PROVE PathInv' /\ IInv'
    OBVIOUS
  <2>1. QueueTypeOK /\ PathTypeOK /\ EndpointsOK /\ Budget
    BY DEF IInv, PathInv
  <2>2. IInv'
    BY <2>1, QueueStep, StepIInv
  <2>3. CASE Next
    BY <2>1, <2>2, <2>3, PathTypeStep, BudgetStep, ShutStep, NotUpStep DEF PathInv
  <2>4. CASE UNCHANGED vars
    <3>1. UNCHANGED <<loop, hand, packets, epClosed, mux, connFails, phase,
                      session, sent, received, pump, reader, relay, drain>>
      BY <2>4, Zenon DEF vars, muxVars, sessionVars, queueVars, readVars,
         relayVars, rtcpVars
    <3> QED BY <2>2, <3>1, Zenon DEF PathInv, PathTypeOK, EndpointsOK, Budget,
         OnTheWay, ShutInOrder, NotUpYet
  <2> QED BY <2>3, <2>4
<1> QED BY <1>1, <1>2, PTL DEF Spec

\* The path implements the queue: mux, endpoints and sessions do to the readers,
\* the queue and the relay nothing that MediaQueue's free environment does not.
THEOREM PathImplementsQueue == Spec => QueueSpec
<1>1. Init => QueueInit
  BY DEF Init
<1>2. PathInv /\ IInv /\ [Next]_vars => [QueueNext]_queueVars
  BY QueueStep DEF PathInv, IInv
<1> QED BY <1>1, <1>2, PathInvariant, PTL DEF Spec, QueueSpec

\* What was proved of the queue holds of the packets on their whole way: none is
\* lost uncounted, a source stays in order, the newest is kept, and
\* ErrNoInboundRTP is true.
THEOREM PathKeepsQueuePromises ==
  Spec => [](Conserved /\ InOrder /\ NewestKept /\ NoRTPIsTrue)
<1>1. IInv => Conserved /\ InOrder /\ NewestKept /\ NoRTPIsTrue
  BY DEF IInv
<1> QED BY <1>1, PathInvariant, PTL

\* The readers never count a packet that the network did not bring.
THEOREM NothingInvented == Spec => []Budget
<1>1. PathInv => Budget
  BY DEF PathInv
<1> QED BY <1>1, PathInvariant, PTL

\* pumpDone is closed only after the mux and its connection.
THEOREM PumpOutlivesConnection == Spec => []PumpEndsWithConnection
<1>1. PathInv => PumpEndsWithConnection
  BY DEF PathInv, ShutInOrder, PumpEndsWithConnection, Sessions
<1> QED BY <1>1, PathInvariant, PTL

\* readLoop, stuck at a full endpoint of a running call, waits for nobody that
\* waits for it: what NoStall rests on.
THEOREM NobodyWaitsForTheMux == Spec => []SomebodyMakesRoom
<1>1. PathInv /\ IInv => SomebodyMakesRoom
  <2> SUFFICES ASSUME PathInv, IInv, phase = "up", loop = "put",
                      ~Mux!HasRoom(hand.to), hand.to \notin epClosed
               PROVE  \/ hand.to = "dtls" /\ packets["dtls"] # <<>>
                      \/ /\ hand.to = "srtcp" /\ Waiting("srtcp")
                         /\ drain \in {"none", "read"}
                      \/ /\ hand.to = "srtp" /\ Waiting("srtp")
                         /\ NextSSRC("srtp") \in SSRCs
                         /\ \/ reader[NextSSRC("srtp")] = "none" /\ pump = "accept"
                            \/ reader[NextSSRC("srtp")] \in {"read"} \cup Holding
    BY Zenon DEF SomebodyMakesRoom
  <2>1. /\ hand.to \in Mux!Endpoints /\ mux # "closed"
        /\ packets \in [Mux!Endpoints -> Seq(Wire)]
    BY DEF PathInv, PathTypeOK, ShutInOrder
  <2>2. packets[hand.to] # <<>>
    <3>1. Len(packets[hand.to]) \in Nat /\ ~(Len(packets[hand.to]) < EndpointSize)
      BY <2>1, LenProperties DEF Mux!HasRoom
    <3>2. Len(packets[hand.to]) # 0
      BY <3>1, EndpointAssumption
    <3> QED BY <3>2, EmptySeq
  <2>3. \A k \in Sessions : session[k] = "up"
    BY <2>1 DEF PathInv, PathTypeOK, ShutInOrder, NotUpYet
  <2>4. /\ pump = "accept" /\ drain \in {"none", "read"}
        /\ \A s \in SSRCs : reader[s] \in {"none", "read"} \cup Holding
    BY <2>3 DEF PathInv, ShutInOrder, IInv, QueueTypeOK, ReaderLocs, Holding, Sessions
  <2>5. CASE hand.to = "srtp"
    <3>1. packets["srtp"] \in Seq(WireTo("srtp")) /\ packets["srtp"] # <<>>
      BY <2>1, <2>2, <2>5 DEF PathInv, EndpointsOK
    <3>2. NextSSRC("srtp") \in SSRCs
      BY <3>1, HeadTailProperties, RTPHasSource DEF NextSSRC
    <3> QED BY <2>3, <2>4, <2>5, <3>1, <3>2, Zenon DEF Waiting, Sessions
  <2> QED BY <2>1, <2>2, <2>3, <2>4, <2>5, Zenon DEF Waiting, Sessions, Mux!Endpoints
<1> QED BY <1>1, PathInvariant, PTL
=============================================================================
