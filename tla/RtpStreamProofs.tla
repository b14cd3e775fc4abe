-------------------------- MODULE RtpStreamProofs --------------------------
(***************************************************************************)
(* RtpStream, for every width of sequence numbers and timestamps, any sources  *)
(* and streams of any length.                                                 *)
(***************************************************************************)
EXTENDS RtpStream, TLAPS

\* The statistics of the source that sends.
StatsInv ==
  \/ src = "none" /\ rx = NewStats
  \/ /\ src \in Sources /\ rx.started /\ rx.ssrc = src
     /\ seen = [first |-> seen.first, newest |-> seen.newest, count |-> seen.count]
     /\ seen.first \in 0 .. MaxN /\ seen.newest \in 0 .. MaxN /\ seen.count \in Nat
     /\ rx.baseSeq = Number[src][seen.first] /\ rx.maxSeq = Number[src][seen.newest]
     /\ rx.cycles \in Int /\ rx.received = seen.count
     /\ rx.cycles + rx.maxSeq - rx.baseSeq = seen.newest - seen.first
     /\ rx.expectedPrior \in Int /\ rx.receivedPrior \in Int
     /\ rx.expectedPrior <= Expected(rx) /\ rx.receivedPrior <= rx.received
     /\ rx.expectedPrior < Expected(rx) => rx.receivedPrior < rx.received
     /\ rx.reorder \in Nat
     /\ rx = [started |-> rx.started, ssrc |-> rx.ssrc, baseSeq |-> rx.baseSeq,
              maxSeq |-> rx.maxSeq, cycles |-> rx.cycles, received |-> rx.received,
              reorder |-> rx.reorder, expectedPrior |-> rx.expectedPrior,
              receivedPrior |-> rx.receivedPrior]

-----------------------------------------------------------------------------
(* Words *)

\* A packet ahead of the newest by less than half the range, and what update
\* makes of the wrap.
LEMMA AheadOf ==
  ASSUME NEW half \in Nat, NEW a \in Word(half), NEW k \in Nat, k < half
  PROVE  /\ Plus(a, k, half) \in Word(half)
         /\ Minus(Plus(a, k, half), a, half) = k
         /\ Plus(a, k, half) = IF Plus(a, k, half) < a THEN a + k - 2 * half ELSE a + k
BY DEF Word, Plus, Minus

\* A packet behind it.
LEMMA BehindOf ==
  ASSUME NEW half \in Nat, NEW a \in Word(half), NEW k \in Nat, 0 < k, k < half
  PROVE  Minus(a, Plus(a, k, half), half) = 2 * half - k
BY DEF Word, Plus, Minus

\* A quotient below 256.
LEMMA Quotient ==
  ASSUME NEW a \in Nat, NEW b \in Nat, 0 < b, a < 256 * b
  PROVE  a \div b <= 255
<1> DEFINE q == a \div b
<1>1. q \in Int /\ b * q <= a
  OBVIOUS
<1> HIDE DEF q
<1>2. q >= 256 => b * q >= b * 256
  BY <1>1
<1> QED BY <1>1, <1>2 DEF q
-----------------------------------------------------------------------------
(* The statistics *)

LEMMA Sizes ==
  /\ SeqHalf \in Nat /\ MaxN \in Nat /\ Window \in Nat /\ Window < SeqHalf
  /\ "none" \notin Sources
BY StreamAssumption

\* Where packet n of s is, seen from packet m.
LEMMA NumberApart ==
  ASSUME NEW s \in Sources, NEW m \in 0 .. MaxN, NEW n \in 0 .. MaxN
  PROVE  /\ Number[s][m] \in Word(SeqHalf)
         /\ m <= n /\ n - m < SeqHalf =>
              Number[s][n] = Plus(Number[s][m], n - m, SeqHalf)
<1>1. Number[s][m] \in Word(SeqHalf)
  BY StreamAssumption
<1>2. ASSUME m <= n, n - m < SeqHalf
      PROVE  Number[s][n] = Plus(Number[s][m], n - m, SeqHalf)
  <2>1. n - m < 2 * SeqHalf
    BY <1>2, StreamAssumption
  <2> QED BY <1>2, <2>1, StreamAssumption
<1> QED BY <1>1, <1>2

\* What update does to the statistics of the source that sends: a packet ahead
\* moves the extended maximum by its distance, one behind or repeated leaves it.
LEMMA CountSame ==
  ASSUME StatsInv, src \in Sources, NEW n \in 0 .. MaxN, Abs(n - seen.newest) <= Window,
         NEW r, r = Count(rx, Packet(src, n))
  PROVE  /\ r.started /\ r.ssrc = src /\ r.baseSeq = rx.baseSeq
         /\ r.maxSeq = Number[src][Larger(seen.newest, n)]
         /\ r.cycles \in Int /\ r.reorder \in Nat
         /\ r.cycles + r.maxSeq =
              rx.cycles + rx.maxSeq + Larger(seen.newest, n) - seen.newest
         /\ r.received = rx.received + 1
         /\ r.expectedPrior = rx.expectedPrior /\ r.receivedPrior = rx.receivedPrior
         /\ r = [started |-> r.started, ssrc |-> r.ssrc, baseSeq |-> r.baseSeq,
                 maxSeq |-> r.maxSeq, cycles |-> r.cycles, received |-> r.received,
                 reorder |-> r.reorder, expectedPrior |-> r.expectedPrior,
                 receivedPrior |-> r.receivedPrior]
<1> DEFINE q == Number[src][n]
           m == seen.newest
<1>0. src # "none"
  BY StreamAssumption
<1>1. /\ rx.started /\ rx.ssrc = src /\ m \in 0 .. MaxN
      /\ rx.maxSeq = Number[src][m] /\ rx.cycles \in Int /\ rx.reorder \in Nat
      /\ rx.received \in Nat
      /\ rx = [started |-> rx.started, ssrc |-> rx.ssrc, baseSeq |-> rx.baseSeq,
               maxSeq |-> rx.maxSeq, cycles |-> rx.cycles, received |-> rx.received,
               reorder |-> rx.reorder, expectedPrior |-> rx.expectedPrior,
               receivedPrior |-> rx.receivedPrior]
  BY <1>0 DEF StatsInv
<1>2. q \in Word(SeqHalf) /\ rx.maxSeq \in Word(SeqHalf) /\ SeqHalf \in Nat
  BY <1>1, NumberApart, StreamAssumption, Zenon
<1>3. /\ Packet(src, n).seq = q /\ Packet(src, n).ssrc = src
  BY DEF Packet
<1>4. CASE n >= m
  <2>1. n - m < SeqHalf /\ n - m \in Nat
    BY <1>1, <1>4, Sizes DEF Abs
  <2>2. q = Plus(rx.maxSeq, n - m, SeqHalf)
    BY <1>1, <1>4, <2>1, NumberApart
  <2>3. /\ Minus(q, rx.maxSeq, SeqHalf) = n - m
        /\ q = IF q < rx.maxSeq THEN rx.maxSeq + (n - m) - 2 * SeqHalf
               ELSE rx.maxSeq + (n - m)
    BY <1>2, <2>1, <2>2, AheadOf
  <2>4. r = [[rx EXCEPT !.maxSeq = q,
                        !.cycles = IF q < rx.maxSeq THEN @ + 2 * SeqHalf ELSE @]
               EXCEPT !.received = @ + 1]
    BY <1>1, <1>3, <2>1, <2>3 DEF Count
  <2>5. Larger(m, n) = n
    BY <1>1, <1>4 DEF Larger
  <2> HIDE DEF q, m
  <2>6. /\ r.maxSeq = q /\ r.received = rx.received + 1
        /\ r.cycles = IF q < rx.maxSeq THEN rx.cycles + 2 * SeqHalf ELSE rx.cycles
        /\ r.started = rx.started /\ r.ssrc = rx.ssrc /\ r.baseSeq = rx.baseSeq
        /\ r.reorder = rx.reorder /\ r.expectedPrior = rx.expectedPrior
        /\ r.receivedPrior = rx.receivedPrior
        /\ r = [started |-> r.started, ssrc |-> r.ssrc, baseSeq |-> r.baseSeq,
                maxSeq |-> r.maxSeq, cycles |-> r.cycles, received |-> r.received,
                reorder |-> r.reorder, expectedPrior |-> r.expectedPrior,
                receivedPrior |-> r.receivedPrior]
    BY <1>1, <2>4, Zenon
  <2>7. /\ r.cycles \in Int
        /\ r.cycles + r.maxSeq = rx.cycles + rx.maxSeq + n - m
    BY <1>1, <1>2, <2>1, <2>3, <2>6 DEF Word
  <2> QED BY <1>1, <2>5, <2>6, <2>7 DEF q, m
<1>5. CASE n < m
  <2>1. m - n < SeqHalf /\ m - n \in Nat /\ 0 < m - n
    BY <1>1, <1>5, Sizes DEF Abs
  <2>2. rx.maxSeq = Plus(q, m - n, SeqHalf)
    BY <1>1, <1>5, <2>1, NumberApart
  <2>3. ~(Minus(q, rx.maxSeq, SeqHalf) < SeqHalf)
    BY <1>2, <2>1, <2>2, BehindOf
  <2>4. r = [[rx EXCEPT !.reorder = @ + 1] EXCEPT !.received = @ + 1]
    BY <1>1, <1>3, <2>3 DEF Count
  <2>5. Larger(m, n) = m
    BY <1>1, <1>5 DEF Larger
  <2> HIDE DEF q, m
  <2>6. /\ r.maxSeq = rx.maxSeq /\ r.received = rx.received + 1 /\ r.cycles = rx.cycles
        /\ r.started = rx.started /\ r.ssrc = rx.ssrc /\ r.baseSeq = rx.baseSeq
        /\ r.reorder = rx.reorder + 1 /\ r.expectedPrior = rx.expectedPrior
        /\ r.receivedPrior = rx.receivedPrior
        /\ r = [started |-> r.started, ssrc |-> r.ssrc, baseSeq |-> r.baseSeq,
                maxSeq |-> r.maxSeq, cycles |-> r.cycles, received |-> r.received,
                reorder |-> r.reorder, expectedPrior |-> r.expectedPrior,
                receivedPrior |-> r.receivedPrior]
    BY <1>1, <2>4, Zenon
  <2>7. r.cycles + r.maxSeq = rx.cycles + rx.maxSeq + m - m
    BY <1>1, <1>2, <2>6 DEF Word
  <2> QED BY <1>1, <2>5, <2>6, <2>7 DEF m
<1> QED BY <1>1, <1>4, <1>5

\* A packet from another source, or the first.
LEMMA CountNew ==
  ASSUME StatsInv, NEW s \in Sources, s # src, NEW n \in 0 .. MaxN
  PROVE  Count(rx, Packet(s, n)) =
           [started |-> TRUE, ssrc |-> s, baseSeq |-> Number[s][n],
            maxSeq |-> Number[s][n], cycles |-> 0, received |-> 1, reorder |-> 0,
            expectedPrior |-> 0, receivedPrior |-> 0]
<1>1. ~rx.started \/ rx.ssrc # s
  BY DEF StatsInv, NewStats
<1>2. Packet(s, n).seq = Number[s][n] /\ Packet(s, n).ssrc = s
  BY DEF Packet
<1>3. Count(rx, Packet(s, n)) = [Restart(Packet(s, n)) EXCEPT !.received = @ + 1]
  BY <1>1, <1>2 DEF Count
<1> DEFINE yes == TRUE
<1>4. Restart(Packet(s, n)) =
        [started |-> yes, ssrc |-> s, baseSeq |-> Number[s][n],
         maxSeq |-> Number[s][n], cycles |-> 0, received |-> 0, reorder |-> 0,
         expectedPrior |-> 0, receivedPrior |-> 0]
  BY <1>2 DEF Restart
<1> HIDE DEF yes
<1>5. Count(rx, Packet(s, n)) =
        [started |-> yes, ssrc |-> s, baseSeq |-> Number[s][n],
         maxSeq |-> Number[s][n], cycles |-> 0, received |-> 1, reorder |-> 0,
         expectedPrior |-> 0, receivedPrior |-> 0]
  BY <1>3, <1>4
<1> QED BY <1>5 DEF yes

\* Statistics that agree with the packets seen, from the facts of a step.
LEMMA StatsStep ==
  ASSUME StatsInv, [Next]_vars
  PROVE  StatsInv'
<1>1. CASE UNCHANGED <<rx, src, seen>>
  BY <1>1 DEF StatsInv, Expected, ExtMax
<1>2. CASE SendReport
  <2>0. UNCHANGED <<src, seen>> /\ rx' = Report(rx)
    BY <1>2 DEF SendReport
  <2>1. CASE ~rx.started
    BY <1>1, <2>0, <2>1 DEF Report
  <2>2. CASE rx.started
    <3>1. /\ src \in Sources /\ rx.baseSeq = Number[src][seen.first]
          /\ rx.maxSeq = Number[src][seen.newest] /\ rx.received = seen.count
          /\ rx.cycles \in Int /\ seen.count \in Nat
          /\ seen.first \in 0 .. MaxN /\ seen.newest \in 0 .. MaxN
      BY <2>2 DEF StatsInv, NewStats
    <3>2. rx.baseSeq \in Int /\ rx.maxSeq \in Int
      BY <3>1, NumberApart, Sizes DEF Word
    <3>3. Expected(rx) = rx.cycles + rx.maxSeq - rx.baseSeq + 1 /\ Expected(rx) \in Int
      BY <3>1, <3>2 DEF Expected, ExtMax
    <3>4. rx' = [rx EXCEPT !.expectedPrior = Expected(rx), !.receivedPrior = rx.received]
      BY <2>0, <2>2 DEF Report
    <3>5. /\ rx'.started = rx.started /\ rx'.ssrc = rx.ssrc /\ rx'.baseSeq = rx.baseSeq
          /\ rx'.maxSeq = rx.maxSeq /\ rx'.cycles = rx.cycles
          /\ rx'.received = rx.received /\ rx'.reorder = rx.reorder
          /\ rx'.expectedPrior = Expected(rx) /\ rx'.receivedPrior = rx.received
          /\ rx' = [started |-> rx'.started, ssrc |-> rx'.ssrc, baseSeq |-> rx'.baseSeq,
                    maxSeq |-> rx'.maxSeq, cycles |-> rx'.cycles,
                    received |-> rx'.received, reorder |-> rx'.reorder,
                    expectedPrior |-> rx'.expectedPrior,
                    receivedPrior |-> rx'.receivedPrior]
      BY <2>2, <3>4, Zenon DEF StatsInv, NewStats
    <3>6. Expected(rx') = Expected(rx)
      BY <3>5 DEF Expected, ExtMax
    <3>7. Expected(rx)' = Expected(rx')
      BY DEF Expected, ExtMax
    <3> QED BY <2>0, <2>2, <3>1, <3>3, <3>5, <3>6, <3>7 DEF StatsInv, NewStats
  <2> QED BY <2>1, <2>2
<1>3. ASSUME NEW s \in Sources, NEW n \in 0 .. MaxN, NEW f \in Elapsed, Arrive(s, n, f)
      PROVE  StatsInv'
  <2>1. /\ rx' = Count(rx, Packet(s, n)) /\ src' = s
        /\ s = src => Abs(n - seen.newest) <= Window
        /\ seen' = IF s # src THEN [first |-> n, newest |-> n, count |-> 1]
                   ELSE [seen EXCEPT !.newest = Larger(@, n), !.count = @ + 1]
    BY <1>3 DEF Arrive
  <2>2. Expected(rx)' = (rx'.cycles + rx'.maxSeq) - rx'.baseSeq + 1
    BY DEF Expected, ExtMax
  <2>n. Number[s][n] \in Int
    BY NumberApart, Sizes DEF Word
  <2>3. CASE s # src
    <3>1. rx' = [started |-> TRUE, ssrc |-> s, baseSeq |-> Number[s][n],
                 maxSeq |-> Number[s][n], cycles |-> 0, received |-> 1, reorder |-> 0,
                 expectedPrior |-> 0, receivedPrior |-> 0]
      BY <2>1, <2>3, CountNew
    <3>2. /\ rx'.started /\ rx'.ssrc = s /\ rx'.baseSeq = Number[s][n]
          /\ rx'.maxSeq = Number[s][n] /\ rx'.cycles = 0 /\ rx'.received = 1
          /\ rx'.reorder = 0 /\ rx'.expectedPrior = 0 /\ rx'.receivedPrior = 0
      BY <3>1
    <3>3. rx' = [started |-> rx'.started, ssrc |-> rx'.ssrc, baseSeq |-> rx'.baseSeq,
                 maxSeq |-> rx'.maxSeq, cycles |-> rx'.cycles,
                 received |-> rx'.received, reorder |-> rx'.reorder,
                 expectedPrior |-> rx'.expectedPrior,
                 receivedPrior |-> rx'.receivedPrior]
      BY <3>1
    <3>4. Expected(rx)' = 1
      BY <2>2, <2>n, <3>2
    <3>5. /\ seen'.first = n /\ seen'.newest = n /\ seen'.count = 1
          /\ seen' = [first |-> seen'.first, newest |-> seen'.newest,
                      count |-> seen'.count]
      BY <2>1, <2>3
    <3> QED BY <2>1, <2>n, <3>2, <3>3, <3>4, <3>5 DEF StatsInv
  <2>4. CASE s = src
    <3>0. /\ seen = [first |-> seen.first, newest |-> seen.newest, count |-> seen.count]
          /\ seen.first \in 0 .. MaxN /\ seen.newest \in 0 .. MaxN
          /\ seen.count \in Nat /\ rx.received = seen.count
          /\ rx.baseSeq = Number[src][seen.first] /\ rx.maxSeq = Number[src][seen.newest]
          /\ rx.cycles \in Int
          /\ rx.cycles + rx.maxSeq - rx.baseSeq = seen.newest - seen.first
          /\ rx.expectedPrior \in Int /\ rx.receivedPrior \in Int
          /\ rx.expectedPrior <= Expected(rx) /\ rx.receivedPrior <= rx.received
          /\ rx.expectedPrior < Expected(rx) => rx.receivedPrior < rx.received
      BY <2>4, Sizes DEF StatsInv
    <3>1. /\ rx'.started /\ rx'.ssrc = src /\ rx'.baseSeq = rx.baseSeq
          /\ rx'.maxSeq = Number[src][Larger(seen.newest, n)]
          /\ rx'.cycles \in Int /\ rx'.reorder \in Nat
          /\ rx'.cycles + rx'.maxSeq =
               rx.cycles + rx.maxSeq + Larger(seen.newest, n) - seen.newest
          /\ rx'.received = rx.received + 1
          /\ rx'.expectedPrior = rx.expectedPrior /\ rx'.receivedPrior = rx.receivedPrior
          /\ rx' = [started |-> rx'.started, ssrc |-> rx'.ssrc, baseSeq |-> rx'.baseSeq,
                    maxSeq |-> rx'.maxSeq, cycles |-> rx'.cycles,
                    received |-> rx'.received, reorder |-> rx'.reorder,
                    expectedPrior |-> rx'.expectedPrior,
                    receivedPrior |-> rx'.receivedPrior]
      BY <2>1, <2>4, CountSame
    <3> DEFINE l == Larger(seen.newest, n)
    <3>2. l \in 0 .. MaxN /\ l >= seen.newest
      BY <3>0 DEF Larger
    <3>3. rx.baseSeq \in Int /\ rx.maxSeq \in Int /\ rx'.maxSeq \in Int
      BY <2>4, <3>0, <3>1, <3>2, NumberApart, Sizes DEF Word
    <3>4. /\ seen'.first = seen.first /\ seen'.newest = l /\ seen'.count = seen.count + 1
          /\ seen' = [first |-> seen'.first, newest |-> seen'.newest,
                      count |-> seen'.count]
      BY <2>1, <2>4, <3>0, Zenon
    <3>5. Expected(rx) = (rx.cycles + rx.maxSeq) - rx.baseSeq + 1
      BY DEF Expected, ExtMax
    <3>6. /\ rx'.cycles + rx'.maxSeq - rx'.baseSeq = l - seen.first
          /\ Expected(rx)' >= Expected(rx)
      BY <2>2, <3>0, <3>1, <3>2, <3>3, <3>5
    <3>7. Expected(rx) \in Int /\ Expected(rx)' \in Int
      BY <2>2, <3>0, <3>1, <3>3, <3>5
    <3>8. /\ rx'.expectedPrior \in Int /\ rx'.receivedPrior \in Int
          /\ rx'.expectedPrior <= Expected(rx)' /\ rx'.receivedPrior < rx'.received
          /\ seen'.count \in Nat /\ rx'.received = seen'.count
      BY <3>0, <3>1, <3>4, <3>6, <3>7
    <3>9. /\ rx'.baseSeq = Number[src'][seen'.first]
          /\ rx'.maxSeq = Number[src'][seen'.newest] /\ rx'.ssrc = src'
      BY <2>1, <2>4, <3>0, <3>1, <3>4
    <3> HIDE DEF l
    <3> QED BY <2>1, <3>0, <3>1, <3>2, <3>4, <3>6, <3>8, <3>9 DEF StatsInv
  <2> QED BY <2>3, <2>4
<1>4. CASE UNCHANGED vars
  BY <1>1, <1>4 DEF vars
<1> QED BY <1>2, <1>3, <1>4 DEF Next

\* The statistics describe the packets of the sending source, in every
\* reachable state.
THEOREM StatsInvariant == Spec => []StatsInv
<1>1. Init => StatsInv
  BY DEF Init, StatsInv
<1>2. StatsInv /\ [Next]_vars => StatsInv'
  BY StatsStep
<1> QED BY <1>1, <1>2, PTL DEF Spec

\* The numbers of the statistics, while a source sends.
LEMMA Counted ==
  ASSUME StatsInv, rx.started \/ src # "none"
  PROVE  /\ rx.ssrc = src /\ seen.first \in Int /\ seen.newest \in Int
         /\ Expected(rx) = seen.newest - seen.first + 1 /\ Expected(rx) \in Int
         /\ rx.received = seen.count /\ seen.count \in Nat
         /\ rx.expectedPrior \in Int /\ rx.expectedPrior <= Expected(rx)
         /\ rx.receivedPrior \in Int
         /\ rx.expectedPrior < Expected(rx) => rx.receivedPrior < rx.received
<1>1. /\ src \in Sources /\ rx.baseSeq = Number[src][seen.first]
      /\ rx.maxSeq = Number[src][seen.newest] /\ rx.cycles \in Int
      /\ seen.first \in 0 .. MaxN /\ seen.newest \in 0 .. MaxN
      /\ rx.cycles + rx.maxSeq - rx.baseSeq = seen.newest - seen.first
  BY DEF StatsInv, NewStats
<1>2. rx.baseSeq \in Int /\ rx.maxSeq \in Int
  BY <1>1, NumberApart, Sizes DEF Word
<1>3. Expected(rx) = seen.newest - seen.first + 1 /\ Expected(rx) \in Int
  BY <1>1, <1>2 DEF Expected, ExtMax
<1> QED BY <1>1, <1>3 DEF StatsInv, NewStats

\* What rxStats reports as lost is what was sent between the first packet and
\* the newest and did not arrive (rtpstats.go: update, snapshot, report).
THEOREM LossIsCounted == Spec => []LossCounted
<1>1. StatsInv => LossCounted
  <2> SUFFICES ASSUME StatsInv, src # "none" PROVE LossCounted
    BY DEF LossCounted
  <2> QED BY Counted DEF LossCounted, Lost
<1> QED BY <1>1, StatsInvariant, PTL

\* The fraction lost of a receiver report is a byte (rtpstats.go:105-108).
THEOREM FractionIsAByte == Spec => []FractionFits
<1>1. ASSUME StatsInv, rx.started
      PROVE  ExpectedInterval(rx) >= 0 /\ Fraction(rx) <= 255
  <2> DEFINE d == ExpectedInterval(rx)  l == LostInterval(rx)
  <2>1. d \in Int /\ l \in Int /\ d >= 0 /\ (d > 0 => l < d)
    BY <1>1, Counted DEF ExpectedInterval, LostInterval
  <2>2. Fraction(rx) = IF d > 0 /\ l > 0 THEN (l * 256) \div d ELSE 0
    BY DEF Fraction
  <2> HIDE DEF d, l
  <2>3. ASSUME d > 0, l > 0 PROVE (l * 256) \div d <= 255
    <3>1. l * 256 \in Nat /\ d \in Nat /\ l * 256 < 256 * d
      BY <2>1, <2>3
    <3> QED BY <2>3, <3>1, Quotient
  <2> QED BY <2>1, <2>2, <2>3 DEF d
<1>2. StatsInv => FractionFits
  BY <1>1 DEF FractionFits
<1> QED BY <1>2, StatsInvariant, PTL

-----------------------------------------------------------------------------
(* The rebaser *)

\* d frames in ticks of the clock.
Ticks(d) == d * FrameTicks

\* Distances in time add up as distances in frames do.
LEMMA TicksAdd ==
  ASSUME NEW a \in Int, NEW b \in Int
  PROVE  /\ Ticks(a) \in Int /\ Ticks(0) = 0 /\ Ticks(-a) = -Ticks(a)
         /\ Ticks(a) + Ticks(b) = Ticks(a + b)
         /\ Ticks(a) - Ticks(b) = Ticks(a - b)
         /\ a <= b => Ticks(a) <= Ticks(b)
<1>1. FrameTicks \in Nat /\ FrameTicks > 0
  BY StreamAssumption
<1>2. a <= b => a * FrameTicks <= b * FrameTicks
  BY <1>1
<1> QED BY <1>1, <1>2 DEF Ticks

\* Two words that are k apart, shifted by the same word: the distance is read
\* as k ahead or as k behind.
LEMMA Shifted ==
  ASSUME NEW half \in Nat, NEW a \in Word(half), NEW b \in Word(half),
         NEW c \in Word(half), NEW k \in Nat, k < half, a = Plus(b, k, half)
  PROVE  /\ Signed(Minus(Plus(a, c, half), Plus(b, c, half), half), half) = k
         /\ Signed(Minus(Plus(b, c, half), Plus(a, c, half), half), half) = -k
BY DEF Word, Plus, Minus, Signed

\* The words themselves, also further apart than half the range.
LEMMA Distance ==
  ASSUME NEW half \in Nat, NEW a \in Word(half), NEW b \in Word(half),
         NEW k \in Nat, k < 2 * half, a = Plus(b, k, half)
  PROVE  /\ Signed(Minus(a, b, half), half) = IF k < half THEN k ELSE k - 2 * half
         /\ Signed(Minus(b, a, half), half) = IF k <= half /\ k > 0 THEN -k
                                              ELSE IF k = 0 THEN 0 ELSE 2 * half - k
BY DEF Word, Plus, Minus, Signed

\* The offset that takes a word to another takes it there.
LEMMA Offset ==
  ASSUME NEW half \in Nat, NEW a \in Word(half), NEW b \in Word(half)
  PROVE  /\ Minus(b, a, half) \in Word(half) /\ Plus(a, Minus(b, a, half), half) = b
         /\ Plus(a, 0, half) = a /\ Plus(a, b, half) \in Word(half)
BY DEF Word, Plus, Minus

LEMMA WordSum ==
  ASSUME NEW half \in Nat, NEW a \in Word(half), NEW b \in Word(half)
  PROVE  Plus(a, b, half) \in Word(half)
BY Offset, Zenon

\* Going back from a word that is k ahead, by j of them.
LEMMA BackFrom ==
  ASSUME NEW half \in Nat, NEW a \in Word(half), NEW k \in Nat, k < half
  PROVE  /\ Plus(a, k, half) \in Word(half)
         /\ Signed(Minus(Plus(a, k, half), a, half), half) = k
         /\ Minus(Plus(a, k, half), k, half) = a
         /\ Minus(a, k, half) \in Word(half) /\ Plus(Minus(a, k, half), k, half) = a
BY DEF Word, Plus, Minus, Signed

\* The numbers that fit together.
LEMMA Limits ==
  /\ SeqHalf \in Nat /\ TsHalf \in Nat /\ SeqHalf > 1 /\ TsHalf > 0
  /\ MaxN \in Nat /\ Window \in Nat /\ Window < SeqHalf
  /\ MaxSeqJump \in Nat /\ MaxSeqJump < SeqHalf
  /\ 2 * Window + MaxSeqJump < 2 * SeqHalf
  /\ Ticks(MaxSeqJump) < TsHalf
  /\ "none" \notin Sources
BY StreamAssumption, FrameAssumption DEF Ticks

\* Where the timestamp of packet n is, seen from packet m.
LEMMA StampApart ==
  ASSUME NEW s \in Sources, NEW m \in 0 .. MaxN, NEW n \in 0 .. MaxN
  PROVE  /\ Stamp[s][m] \in Word(TsHalf)
         /\ m <= n /\ Ticks(n - m) < TsHalf =>
              Stamp[s][n] = Plus(Stamp[s][m], Ticks(n - m), TsHalf)
<1>1. Stamp[s][m] \in Word(TsHalf)
  BY StreamAssumption
<1>2. ASSUME m <= n, Ticks(n - m) < TsHalf
      PROVE  Stamp[s][n] = Plus(Stamp[s][m], Ticks(n - m), TsHalf)
  <2>1. Ticks(n - m) < 2 * TsHalf
    <3>1. n - m \in Int /\ Ticks(n - m) \in Int BY TicksAdd
    <3> QED BY <1>2, <3>1, Limits
  <2> QED BY <1>2, <2>1, FrameAssumption DEF Ticks
<1> QED BY <1>1, <1>2

Shape(r) ==
  r = [started |-> r.started, outSSRC |-> r.outSSRC, srcSSRC |-> r.srcSSRC,
       seqOff |-> r.seqOff, tsOff |-> r.tsOff, lastInSeq |-> r.lastInSeq,
       lastOutSeq |-> r.lastOutSeq, lastOutTS |-> r.lastOutTS]

\* A rebaser whose newest packet is packet m of s, under its present offsets.
Follows(r, s, m) ==
  /\ Shape(r) /\ r.started /\ r.srcSSRC = s
  /\ r.seqOff \in Word(SeqHalf) /\ r.tsOff \in Word(TsHalf)
  /\ r.lastInSeq = Number[s][m]
  /\ r.lastOutSeq = Plus(Number[s][m], r.seqOff, SeqHalf)
  /\ r.lastOutTS = Plus(Stamp[s][m], r.tsOff, TsHalf)

\* rewrite with a packet of the same epoch: the offsets stay, the newest packet
\* advances, and the output is as far from the last as the input is.
LEMMA RewriteSame ==
  ASSUME NEW r, NEW s \in Sources, NEW m \in 0 .. MaxN, NEW n \in 0 .. MaxN,
         Follows(r, s, m), Abs(n - m) <= MaxSeqJump, NEW f \in Nat,
         NEW q, q = Rewrite(r, Packet(s, n), f),
         NEW o, o = Out(q, Packet(s, n))
  PROVE  /\ Follows(q, s, Larger(m, n)) /\ q.outSSRC = r.outSSRC
         /\ o.seq \in Int /\ o.ts \in Int
         /\ n > m => o.seq = q.lastOutSeq /\ o.ts = q.lastOutTS
         /\ n <= m => q.lastOutSeq = r.lastOutSeq /\ q.lastOutTS = r.lastOutTS
         /\ Signed(Minus(o.seq, r.lastOutSeq, SeqHalf), SeqHalf) = n - m
         /\ Signed(Minus(o.ts, r.lastOutTS, TsHalf), TsHalf) = Ticks(n - m)
<1> DEFINE p == Packet(s, n)
           a == Number[s][m]  b == Number[s][n]
           t == Stamp[s][m]   v == Stamp[s][n]
<1>1. p.ssrc = s /\ p.seq = b /\ p.ts = v
  BY DEF Packet
<1>2. /\ a \in Word(SeqHalf) /\ b \in Word(SeqHalf)
      /\ t \in Word(TsHalf) /\ v \in Word(TsHalf)
  BY NumberApart, StampApart
<1>3. n - m \in Int /\ m - n \in Int /\ m - n <= MaxSeqJump /\ n - m <= MaxSeqJump
  BY Limits DEF Abs
<1>4. /\ Ticks(n - m) \in Int /\ Ticks(n - m) = -Ticks(m - n)
      /\ Ticks(m - n) < TsHalf /\ Ticks(n - m) < TsHalf
      /\ n >= m => Ticks(n - m) \in Nat
      /\ n <= m => Ticks(m - n) \in Nat
  <2>1. -(m - n) = n - m /\ MaxSeqJump \in Int /\ 0 \in Int
    BY <1>3, Limits
  <2>2. /\ Ticks(n - m) \in Int /\ Ticks(m - n) \in Int /\ Ticks(0) = 0
        /\ Ticks(-(m - n)) = -Ticks(m - n) /\ Ticks(MaxSeqJump) \in Int
    BY <1>3, <2>1, TicksAdd
  <2>3. Ticks(n - m) <= Ticks(MaxSeqJump) /\ Ticks(m - n) <= Ticks(MaxSeqJump)
    BY <1>3, <2>1, TicksAdd
  <2>4. /\ 0 <= n - m => Ticks(0) <= Ticks(n - m)
        /\ 0 <= m - n => Ticks(0) <= Ticks(m - n)
    BY <1>3, <2>1, TicksAdd, Zenon
  <2> QED BY <1>3, <2>1, <2>2, <2>3, <2>4, Limits
<1>5. /\ n >= m => b = Plus(a, n - m, SeqHalf) /\ v = Plus(t, Ticks(n - m), TsHalf)
      /\ n <= m => a = Plus(b, m - n, SeqHalf) /\ t = Plus(v, Ticks(m - n), TsHalf)
  BY <1>3, <1>4, NumberApart, StampApart, Limits
<1>6. /\ r.seqOff \in Word(SeqHalf) /\ r.tsOff \in Word(TsHalf)
      /\ r.lastInSeq = a /\ r.lastOutSeq = Plus(a, r.seqOff, SeqHalf)
      /\ r.lastOutTS = Plus(t, r.tsOff, TsHalf) /\ r.srcSSRC = s /\ r.started
  BY DEF Follows
<1> HIDE DEF a, b, t, v, p
<1>7. Signed(Minus(b, a, SeqHalf), SeqHalf) = n - m
  BY <1>2, <1>3, <1>5, Limits, Distance
<1>8. Signed(Minus(Plus(b, r.seqOff, SeqHalf), r.lastOutSeq, SeqHalf), SeqHalf) = n - m
  BY <1>2, <1>3, <1>5, <1>6, Limits, Shifted
<1>9. Signed(Minus(Plus(v, r.tsOff, TsHalf), r.lastOutTS, TsHalf), TsHalf) = Ticks(n - m)
  BY <1>2, <1>3, <1>4, <1>5, <1>6, Limits, Shifted
<1>10. Adopt(r, p, f) = r
  <2>1. ~SourceChanged(r, p)
    BY <1>1, <1>3, <1>6, <1>7, Limits DEF SourceChanged, Abs
  <2> QED BY <1>6, <2>1 DEF Adopt
<1>11. q = [r EXCEPT !.lastInSeq = IF n > m THEN b ELSE @,
                     !.lastOutSeq = IF n > m THEN Plus(b, r.seqOff, SeqHalf) ELSE @,
                     !.lastOutTS = IF n > m THEN Plus(v, r.tsOff, TsHalf) ELSE @]
  <2>1. /\ Newer(b, a, SeqHalf) <=> n > m
        /\ Newer(Plus(b, r.seqOff, SeqHalf), r.lastOutSeq, SeqHalf) <=> n > m
    BY <1>3, <1>7, <1>8 DEF Newer
  <2>2. Out(r, p).seq = Plus(b, r.seqOff, SeqHalf) /\ Out(r, p).ts = Plus(v, r.tsOff, TsHalf)
    BY <1>1 DEF Out
  <2>3. q = Advance(r, p)
    BY <1>10 DEF Rewrite, p
  <2> QED BY <1>1, <1>6, <2>1, <2>2, <2>3, Zenon DEF Advance
<1>12. /\ Shape(q) /\ q.started = r.started /\ q.outSSRC = r.outSSRC
       /\ q.srcSSRC = r.srcSSRC /\ q.seqOff = r.seqOff /\ q.tsOff = r.tsOff
       /\ q.lastInSeq = IF n > m THEN b ELSE r.lastInSeq
       /\ q.lastOutSeq = IF n > m THEN Plus(b, r.seqOff, SeqHalf) ELSE r.lastOutSeq
       /\ q.lastOutTS = IF n > m THEN Plus(v, r.tsOff, TsHalf) ELSE r.lastOutTS
  <2>1. Shape(r) BY DEF Follows
  <2> QED BY <1>11, <2>1, Zenon DEF Shape
<1>13. o.seq = Plus(b, r.seqOff, SeqHalf) /\ o.ts = Plus(v, r.tsOff, TsHalf)
  BY <1>1, <1>12 DEF Out, p
<1>14. Follows(q, s, Larger(m, n))
  <2>1. CASE n > m
    <3>1. Larger(m, n) = n BY <2>1 DEF Larger
    <3> QED BY <1>6, <1>12, <2>1, <3>1 DEF Follows, b, v
  <2>2. CASE n <= m
    <3>1. Larger(m, n) = m BY <2>2 DEF Larger
    <3> QED BY <1>6, <1>12, <2>2, <3>1 DEF Follows, a, t
  <2> QED BY <2>1, <2>2
<1>15. o.seq \in Int /\ o.ts \in Int
  BY <1>2, <1>6, <1>13, Limits DEF Word, Plus
<1> QED BY <1>8, <1>9, <1>12, <1>13, <1>14, <1>15

\* Within an epoch and the window of the network, a jump of the numbers is a
\* jump of the packets.
LEMMA JumpSeen ==
  ASSUME NEW s \in Sources, NEW m \in 0 .. MaxN, NEW n \in 0 .. MaxN,
         -Window <= n - m, n - m <= 2 * Window, Abs(n - m) > MaxSeqJump
  PROVE  Abs(Signed(Minus(Number[s][n], Number[s][m], SeqHalf), SeqHalf)) > MaxSeqJump
<1> DEFINE a == Number[s][m]  b == Number[s][n]
<1>1. a \in Word(SeqHalf) /\ b \in Word(SeqHalf)
  BY NumberApart
<1>2. n - m \in Int /\ m - n \in Int
  OBVIOUS
<1>3. CASE n >= m
  <2>1. n - m \in Nat /\ n - m < 2 * SeqHalf /\ n - m > MaxSeqJump
    BY <1>2, <1>3, Limits DEF Abs
  <2>2. b = Plus(a, n - m, SeqHalf)
    BY <1>3, <2>1, StreamAssumption
  <2> HIDE DEF a, b
  <2>3. Signed(Minus(b, a, SeqHalf), SeqHalf) =
          IF n - m < SeqHalf THEN n - m ELSE n - m - 2 * SeqHalf
    BY <1>1, <2>1, <2>2, Limits, Distance
  <2>4. Abs(Signed(Minus(b, a, SeqHalf), SeqHalf)) > MaxSeqJump
    BY <2>1, <2>3, Limits DEF Abs
  <2> QED BY <2>4 DEF a, b
<1>4. CASE n < m
  <2>1. m - n \in Nat /\ m - n < SeqHalf /\ m - n > MaxSeqJump
    BY <1>2, <1>4, Limits DEF Abs
  <2>2. a = Plus(b, m - n, SeqHalf)
    BY <1>4, <2>1, NumberApart
  <2> HIDE DEF a, b
  <2>3. Signed(Minus(b, a, SeqHalf), SeqHalf) = -(m - n)
    BY <1>1, <2>1, <2>2, Limits, Distance
  <2>4. Abs(Signed(Minus(b, a, SeqHalf), SeqHalf)) > MaxSeqJump
    BY <2>1, <2>3, Limits DEF Abs
  <2> QED BY <2>4 DEF a, b
<1> QED BY <1>3, <1>4

\* The frames a change of the source skips are some, and not too many.
LEMMA FramesBound ==
  ASSUME NEW f \in Nat
  PROVE  /\ Frames(f) * FrameTicks \in Nat /\ 0 < Frames(f) * FrameTicks
         /\ Frames(f) * FrameTicks < TsHalf /\ FrameTicks <= Frames(f) * FrameTicks
<1> DEFINE k == Frames(f)
<1>1. k \in Nat /\ 1 <= k /\ k <= MaxRebaseFrames
  BY StreamAssumption DEF Frames
<1>2. /\ FrameTicks \in Nat /\ FrameTicks > 0 /\ MaxRebaseFrames \in Nat
      /\ MaxRebaseFrames * FrameTicks < TsHalf /\ TsHalf \in Nat
  BY StreamAssumption
<1> HIDE DEF k
<1>3. 1 * FrameTicks <= k * FrameTicks /\ k * FrameTicks <= MaxRebaseFrames * FrameTicks
  BY <1>1, <1>2
<1>4. k * FrameTicks \in Nat
  BY <1>1, <1>2
<1> QED BY <1>2, <1>3, <1>4 DEF k

\* The six assignments of a change of the source, and the fields after them.
Assigned(r, so, to, ssrc, in, ls, lt) ==
  [r EXCEPT !.seqOff = so, !.tsOff = to, !.srcSSRC = ssrc, !.lastInSeq = in,
            !.lastOutSeq = ls, !.lastOutTS = lt]

LEMMA SixFields ==
  ASSUME NEW r, Shape(r), NEW a, NEW b, NEW c, NEW d, NEW e, NEW h, NEW g,
         g = Assigned(r, a, b, c, d, e, h)
  PROVE  /\ Shape(g) /\ g.started = r.started /\ g.outSSRC = r.outSSRC
         /\ g.srcSSRC = c /\ g.seqOff = a /\ g.tsOff = b /\ g.lastInSeq = d
         /\ g.lastOutSeq = e /\ g.lastOutTS = h
<1>0. PICK x : x = [r EXCEPT !.seqOff = a, !.tsOff = b, !.srcSSRC = c]
  OBVIOUS
<1>1. g = [x EXCEPT !.lastInSeq = d, !.lastOutSeq = e, !.lastOutTS = h]
  BY <1>0 DEF Assigned
<1>2. /\ Shape(x) /\ x.started = r.started /\ x.outSSRC = r.outSSRC
      /\ x.srcSSRC = c /\ x.seqOff = a /\ x.tsOff = b
  BY <1>0, Zenon DEF Shape
<1> QED BY <1>1, <1>2, Zenon DEF Shape

\* rewrite with a packet that starts an epoch: the output is one number and
\* some frames after the last.
LEMMA RewriteChanged ==
  ASSUME NEW r, NEW s \in Sources, NEW m \in 0 .. MaxN, Follows(r, s, m),
         NEW z \in Sources, NEW n \in 0 .. MaxN, NEW f \in Nat,
         SourceChanged(r, Packet(z, n)),
         NEW q, q = Rewrite(r, Packet(z, n), f),
         NEW o, o = Out(q, Packet(z, n))
  PROVE  /\ Follows(q, z, n) /\ q.outSSRC = r.outSSRC
         /\ o.seq = q.lastOutSeq /\ o.ts = q.lastOutTS
         /\ Signed(Minus(o.seq, r.lastOutSeq, SeqHalf), SeqHalf) = 1
         /\ Signed(Minus(o.ts, r.lastOutTS, TsHalf), TsHalf) = Frames(f) * FrameTicks
<1> DEFINE p == Packet(z, n)  b == Number[z][n]  v == Stamp[z][n]
           k == Frames(f) * FrameTicks
           nextSeq == Plus(r.lastOutSeq, 1, SeqHalf)
           nextTS == Plus(r.lastOutTS, k, TsHalf)
<1>1. p.ssrc = z /\ p.seq = b /\ p.ts = v
  BY DEF Packet
<1>2. b \in Word(SeqHalf) /\ v \in Word(TsHalf)
  BY NumberApart, StampApart
<1>0. r.started /\ Shape(r)
  BY DEF Follows
<1>s. Shape(r)
  BY <1>0
<1>3. r.lastOutSeq \in Word(SeqHalf) /\ r.lastOutTS \in Word(TsHalf)
  <2>1. Number[s][m] \in Word(SeqHalf) /\ Stamp[s][m] \in Word(TsHalf)
    BY NumberApart, StampApart
  <2>2. /\ r.seqOff \in Word(SeqHalf) /\ r.tsOff \in Word(TsHalf)
        /\ r.lastOutSeq = Plus(Number[s][m], r.seqOff, SeqHalf)
        /\ r.lastOutTS = Plus(Stamp[s][m], r.tsOff, TsHalf)
    BY DEF Follows
  <2> QED BY <2>1, <2>2, Limits, WordSum
<1>4. k \in Nat /\ 0 < k /\ k < TsHalf /\ FrameTicks \in Nat /\ FrameTicks <= k
      /\ FrameTicks < TsHalf
  BY FramesBound, StreamAssumption
<1> HIDE DEF b, v, k, p
<1>5. /\ nextSeq \in Word(SeqHalf) /\ nextTS \in Word(TsHalf)
      /\ Signed(Minus(nextSeq, r.lastOutSeq, SeqHalf), SeqHalf) = 1
      /\ Signed(Minus(nextTS, r.lastOutTS, TsHalf), TsHalf) = k
  BY <1>3, <1>4, Limits, BackFrom
<1> HIDE DEF nextSeq, nextTS
<1> DEFINE so == Minus(nextSeq, b, SeqHalf)  to == Minus(nextTS, v, TsHalf)
           ls == Minus(nextSeq, 1, SeqHalf)  lt == Minus(nextTS, FrameTicks, TsHalf)
<1>g. PICK g : g = Assigned(r, so, to, z, b, ls, lt)
  OBVIOUS
<1>6. Adopt(r, p, f) = g
  <2>1. SourceChanged(r, p) BY DEF p
  <2>2. Adopt(r, p, f) = Rebase(r, p, f) BY <1>0, <2>1 DEF Adopt
  <2> QED BY <1>1, <1>g, <2>2 DEF Rebase, Assigned, nextSeq, nextTS, k
<1> HIDE DEF so, to, ls, lt
<1>7. /\ Shape(g) /\ g.started = r.started /\ g.outSSRC = r.outSSRC /\ g.srcSSRC = z
      /\ g.seqOff = so /\ g.tsOff = to /\ g.lastInSeq = b
      /\ g.lastOutSeq = ls /\ g.lastOutTS = lt
  BY <1>g, <1>s, SixFields
<1>8. /\ g.seqOff \in Word(SeqHalf) /\ Plus(b, g.seqOff, SeqHalf) = nextSeq
      /\ g.tsOff \in Word(TsHalf) /\ Plus(v, g.tsOff, TsHalf) = nextTS
  BY <1>2, <1>5, <1>7, Limits, Offset DEF so, to
<1>9. Newer(nextSeq, g.lastOutSeq, SeqHalf) /\ ~Newer(b, b, SeqHalf)
  <2>0. 1 \in Nat /\ 1 < SeqHalf /\ SeqHalf \in Nat
    BY Limits
  <2>1. g.lastOutSeq \in Word(SeqHalf) /\ nextSeq = Plus(g.lastOutSeq, 1, SeqHalf)
    <3>1. ls \in Word(SeqHalf) /\ nextSeq = Plus(ls, 1, SeqHalf)
      BY <1>5, <2>0, BackFrom, Zenon DEF ls
    <3> QED BY <1>7, <3>1, Zenon
  <2>2. Signed(Minus(nextSeq, g.lastOutSeq, SeqHalf), SeqHalf) = 1
    BY <2>0, <2>1, BackFrom, Zenon
  <2>3. Signed(Minus(b, b, SeqHalf), SeqHalf) = 0
    BY <1>2, Limits DEF Minus, Signed, Word
  <2> QED BY <2>2, <2>3 DEF Newer
<1>10. q = [g EXCEPT !.lastInSeq = b, !.lastOutSeq = nextSeq, !.lastOutTS = nextTS]
  <2>1. Out(g, p).seq = nextSeq /\ Out(g, p).ts = nextTS
    BY <1>1, <1>8 DEF Out
  <2>2. q = Advance(g, p)
    BY <1>6 DEF Rewrite, p
  <2> QED BY <1>1, <1>7, <1>9, <2>1, <2>2 DEF Advance
<1>11. /\ Shape(q) /\ q.started = g.started /\ q.outSSRC = g.outSSRC
       /\ q.srcSSRC = g.srcSSRC /\ q.seqOff = g.seqOff /\ q.tsOff = g.tsOff
       /\ q.lastInSeq = b /\ q.lastOutSeq = nextSeq /\ q.lastOutTS = nextTS
  BY <1>7, <1>10, Zenon DEF Shape
<1>12. o.seq = nextSeq /\ o.ts = nextTS
  BY <1>1, <1>8, <1>11 DEF Out, p
<1>13. Follows(q, z, n)
  BY <1>0, <1>7, <1>8, <1>11 DEF Follows, b, v
<1> QED BY <1>5, <1>7, <1>11, <1>12, <1>13 DEF k

\* rewrite with the first packet, which passes as it is.
LEMMA RewriteFirst ==
  ASSUME NEW s \in Sources, NEW n \in 0 .. MaxN, NEW f \in Nat,
         NEW q, q = Rewrite(NewRebaser, Packet(s, n), f),
         NEW o, o = Out(q, Packet(s, n))
  PROVE  /\ Follows(q, s, n)
         /\ o.seq = q.lastOutSeq /\ o.ts = q.lastOutTS /\ o.seq \in Int /\ o.ts \in Int
<1> DEFINE p == Packet(s, n)  b == Number[s][n]  v == Stamp[s][n]  yes == TRUE
<1>1. p.ssrc = s /\ p.seq = b /\ p.ts = v
  BY DEF Packet
<1>2. b \in Word(SeqHalf) /\ v \in Word(TsHalf)
  BY NumberApart, StampApart
<1>3. PICK g : g = First(NewRebaser, p)
  OBVIOUS
<1>4. Adopt(NewRebaser, p, f) = g
  <2>1. ~NewRebaser.started BY DEF NewRebaser
  <2> QED BY <1>3, <2>1 DEF Adopt
<1> HIDE DEF p, b, v, yes
<1>5. /\ Shape(g) /\ g.started = yes /\ g.outSSRC = s /\ g.srcSSRC = s
      /\ g.seqOff = 0 /\ g.tsOff = 0 /\ g.lastInSeq = b
      /\ g.lastOutSeq = b /\ g.lastOutTS = v
  <2>1. PICK x : x = [NewRebaser EXCEPT !.started = yes, !.outSSRC = s, !.srcSSRC = s]
    OBVIOUS
  <2>2. g = [x EXCEPT !.lastInSeq = b, !.lastOutSeq = b, !.lastOutTS = v]
    BY <1>1, <1>3, <2>1 DEF First, yes
  <2>3. /\ Shape(x) /\ x.started = yes /\ x.outSSRC = s /\ x.srcSSRC = s
        /\ x.seqOff = 0 /\ x.tsOff = 0
    BY <2>1, Zenon DEF Shape, NewRebaser
  <2> QED BY <2>2, <2>3, Zenon DEF Shape
<1>6. /\ Plus(b, 0, SeqHalf) = b /\ Plus(v, 0, TsHalf) = v
      /\ 0 \in Word(SeqHalf) /\ 0 \in Word(TsHalf)
  BY <1>2, Limits DEF Plus, Word
<1>7. ~Newer(b, b, SeqHalf)
  BY <1>2, Limits DEF Newer, Minus, Signed, Word
<1>8. q = [g EXCEPT !.lastInSeq = @, !.lastOutSeq = @, !.lastOutTS = @]
  <2>1. Out(g, p).seq = b /\ Out(g, p).ts = v
    BY <1>1, <1>5, <1>6 DEF Out
  <2>2. q = Advance(g, p)
    BY <1>4 DEF Rewrite, p
  <2> QED BY <1>1, <1>5, <1>7, <2>1, <2>2 DEF Advance
<1>9. /\ Shape(q) /\ q.started = g.started /\ q.outSSRC = g.outSSRC
      /\ q.srcSSRC = g.srcSSRC /\ q.seqOff = g.seqOff /\ q.tsOff = g.tsOff
      /\ q.lastInSeq = b /\ q.lastOutSeq = b /\ q.lastOutTS = v
  BY <1>5, <1>8, Zenon DEF Shape
<1>10. o.seq = b /\ o.ts = v
  BY <1>1, <1>5, <1>6, <1>9 DEF Out, p
<1>11. q.started
  BY <1>5, <1>9 DEF yes
<1>12. Follows(q, s, n)
  BY <1>5, <1>6, <1>9, <1>11 DEF Follows, b, v
<1> QED BY <1>2, <1>9, <1>10, <1>12, Limits DEF Word

-----------------------------------------------------------------------------
(* The timeline *)

\* A packet that was handed on, seen from the newest of the present epoch.
Behind(x, ep, t, ssrc) ==
  /\ x.n \in Int /\ x.ext \in Int /\ x.extTS \in Int /\ x.epoch \in Int
  /\ x.ssrc = ssrc /\ x.epoch <= ep.id
  /\ x.ext <= t.ext /\ x.extTS <= t.extTS
  /\ x.epoch = ep.id =>
       /\ x.ext = t.ext + (x.n - ep.newest)
       /\ x.extTS = t.extTS + Ticks(x.n - ep.newest)
       /\ ~x.late => x.n >= ep.first
  /\ x.epoch < ep.id =>
       /\ x.ext < t.ext - (ep.newest - ep.first)
       /\ x.extTS < t.extTS - Ticks(ep.newest - ep.first)

\* The numbers of an epoch and of the newest packet.
Counts(ep, t) ==
  /\ ep.id \in Nat /\ ep.first \in 0 .. MaxN /\ ep.newest \in 0 .. MaxN
  /\ ep.first <= ep.newest
  /\ t.ext \in Int /\ t.extTS \in Int

\* Timeline, of two packets.
Ordered(x, y) ==
  /\ x.ssrc = y.ssrc
  /\ x.epoch = y.epoch =>
       x.ext - y.ext = x.n - y.n /\ x.extTS - y.extTS = Ticks(x.n - y.n)
  /\ x.epoch < y.epoch /\ ~y.late => x.ext < y.ext /\ x.extTS < y.extTS

\* The epoch goes on: its newest packet may have moved.
LEMMA Carry ==
  ASSUME NEW x, NEW ssrc, NEW ep, NEW t, Counts(ep, t), Behind(x, ep, t, ssrc),
         NEW ez, NEW tz, Counts(ez, tz), ez.id = ep.id, ez.first = ep.first,
         ez.newest >= ep.newest,
         tz.ext = t.ext + (ez.newest - ep.newest),
         tz.extTS = t.extTS + Ticks(ez.newest - ep.newest)
  PROVE  Behind(x, ez, tz, ssrc)
<1> DEFINE k == ez.newest - ep.newest
<1>1. k \in Int /\ 0 <= k /\ 0 \in Int
  BY DEF Counts
<1>2. Ticks(k) \in Int /\ 0 <= Ticks(k)
  BY <1>1, TicksAdd
<1>3. CASE x.epoch = ep.id
  <2>1. x.n - ep.newest \in Int /\ (x.n - ep.newest) - k = x.n - ez.newest
    BY DEF Counts, Behind
  <2>2. Ticks(x.n - ep.newest) - Ticks(k) = Ticks(x.n - ez.newest)
    BY <1>1, <2>1, TicksAdd
  <2>3. Ticks(x.n - ep.newest) \in Int
    BY <2>1, TicksAdd
  <2> HIDE DEF k
  <2>4. /\ x.ext = tz.ext + (x.n - ez.newest)
        /\ x.extTS = tz.extTS + Ticks(x.n - ez.newest)
    BY <1>1, <1>2, <1>3, <2>1, <2>2, <2>3 DEF Counts, Behind, k
  <2> QED BY <1>1, <1>2, <1>3, <2>4 DEF Counts, Behind, k
<1>4. CASE x.epoch < ep.id
  <2>1. ep.newest - ep.first \in Int /\ (ep.newest - ep.first) + k = ez.newest - ez.first
    BY DEF Counts
  <2>2. Ticks(ep.newest - ep.first) + Ticks(k) = Ticks(ez.newest - ez.first)
    BY <1>1, <2>1, TicksAdd
  <2>3. Ticks(ep.newest - ep.first) \in Int
    BY <2>1, TicksAdd
  <2>4. /\ x.ext < tz.ext - (ez.newest - ez.first)
        /\ x.extTS < tz.extTS - Ticks(ez.newest - ez.first)
    BY <1>1, <1>2, <1>4, <2>1, <2>2, <2>3 DEF Counts, Behind
  <2> QED BY <1>1, <1>2, <1>4, <2>4 DEF Counts, Behind
<1> QED BY <1>3, <1>4 DEF Counts, Behind

\* A new epoch starts, ahead of the last in number and in time.
LEMMA Fresh ==
  ASSUME NEW x, NEW ssrc, NEW ep, NEW t, Counts(ep, t), Behind(x, ep, t, ssrc),
         NEW ez, NEW tz, Counts(ez, tz), ez.id = ep.id + 1, ez.first = ez.newest,
         tz.ext > t.ext, tz.extTS > t.extTS
  PROVE  Behind(x, ez, tz, ssrc)
<1>1. ez.newest - ez.first = 0
  BY DEF Counts
<1>2. Ticks(0) = 0
  BY StreamAssumption DEF Ticks
<1> QED BY <1>1, <1>2 DEF Counts, Behind

\* A packet of the present epoch is in order with every other.
LEMMA InOrder ==
  ASSUME NEW x, NEW y, NEW ssrc, NEW ep, NEW t, Counts(ep, t),
         Behind(x, ep, t, ssrc), Behind(y, ep, t, ssrc), y.epoch = ep.id
  PROVE  Ordered(x, y) /\ Ordered(y, x)
<1> DEFINE a == x.n - ep.newest  b == y.n - ep.newest
<1>0. /\ x.n \in Int /\ y.n \in Int /\ ep.newest \in Int
      /\ x.epoch \in Int /\ ep.id \in Int /\ x.epoch <= ep.id
  <2>1. x.n \in Int /\ x.epoch \in Int /\ x.epoch <= ep.id BY DEF Behind
  <2>2. y.n \in Int BY DEF Behind
  <2> QED BY <2>1, <2>2 DEF Counts
<1>1. /\ a \in Int /\ b \in Int /\ a - b = x.n - y.n /\ b - a = y.n - x.n
  BY <1>0
<1>2. /\ Ticks(a) \in Int /\ Ticks(b) \in Int
      /\ Ticks(a) - Ticks(b) = Ticks(x.n - y.n) /\ Ticks(b) - Ticks(a) = Ticks(y.n - x.n)
  BY <1>1, TicksAdd
<1>3. CASE x.epoch = ep.id
  BY <1>1, <1>2, <1>3 DEF Counts, Behind, Ordered
<1>4. CASE x.epoch < ep.id
  <2>1. ASSUME ~y.late PROVE x.ext < y.ext /\ x.extTS < y.extTS
    <3> DEFINE c == ep.newest - ep.first
    <3>1. c \in Int /\ -c <= b /\ -c \in Int
      BY <1>4, <2>1 DEF Counts, Behind
    <3>2. Ticks(c) \in Int /\ Ticks(-c) = -Ticks(c) /\ Ticks(-c) <= Ticks(b)
      BY <1>1, <3>1, TicksAdd
    <3>3. /\ x.ext < t.ext - c /\ x.extTS < t.extTS - Ticks(c)
          /\ y.ext = t.ext + b /\ y.extTS = t.extTS + Ticks(b)
      BY <1>4 DEF Behind
    <3>4. /\ x.ext \in Int /\ y.ext \in Int /\ x.extTS \in Int /\ y.extTS \in Int
          /\ t.ext \in Int /\ t.extTS \in Int
      BY DEF Behind, Counts
    <3> HIDE DEF c, b
    <3> QED BY <1>1, <1>2, <3>1, <3>2, <3>3, <3>4
  <2> QED BY <1>4, <2>1 DEF Behind, Counts, Ordered
<1> QED BY <1>0, <1>3, <1>4

\* The rebaser is at the newest packet of the epoch, LiveKit has that packet as
\* its newest, and every packet it has got is behind it and in order.
TimelineInv ==
  \/ src = "none" /\ inbound = NewRebaser /\ emitted = {} /\ epoch.id = 0
  \/ /\ src \in Sources /\ Follows(inbound, src, epoch.newest)
     /\ Counts(epoch, top)
     /\ top.seq = inbound.lastOutSeq /\ top.ts = inbound.lastOutTS
     /\ epoch = [first |-> epoch.first, newest |-> epoch.newest, id |-> epoch.id]
     /\ seen = [first |-> seen.first, newest |-> seen.newest, count |-> seen.count]
     /\ seen.newest \in 0 .. MaxN
     /\ epoch.newest <= seen.newest /\ seen.newest - epoch.newest <= Window
     /\ \A x \in emitted : Behind(x, epoch, top, inbound.outSSRC)
     /\ \A x, y \in emitted : Ordered(x, y)

\* One more packet that is in the present epoch.
LEMMA OneMore ==
  ASSUME NEW S, NEW w, NEW ssrc, NEW ep, NEW t, Counts(ep, t),
         \A x \in S : Behind(x, ep, t, ssrc), \A x, y \in S : Ordered(x, y),
         Behind(w, ep, t, ssrc), w.epoch = ep.id
  PROVE  /\ \A x \in S \cup {w} : Behind(x, ep, t, ssrc)
         /\ \A x, y \in S \cup {w} : Ordered(x, y)
<1>1. \A x \in S \cup {w} : Behind(x, ep, t, ssrc)
  OBVIOUS
<1>2. \A x \in S \cup {w} : Ordered(x, w) /\ Ordered(w, x)
  BY <1>1, InOrder
<1> QED BY <1>1, <1>2

\* A packet arrives.
LEMMA TimelineArrive ==
  ASSUME TimelineInv, NEW s \in Sources, NEW n \in 0 .. MaxN, NEW f \in Elapsed,
         Arrive(s, n, f)
  PROVE  TimelineInv'
<1> DEFINE p == Packet(s, n)  r == Rewrite(inbound, p, f)  o == Out(r, p)
           u == Unwrap(o)  new == NewEpoch(s, n)
           ez == IF new THEN [first |-> n, newest |-> n, id |-> epoch.id + 1]
                 ELSE [epoch EXCEPT !.newest = Larger(@, n)]
           late == n < ez.first
           w == [n |-> n, epoch |-> ez.id, ext |-> u.ext, extTS |-> u.extTS,
                 ssrc |-> r.outSSRC, late |-> late]
<1>1. f \in Nat /\ s # "none"
  BY StreamAssumption
<1>2. /\ inbound' = r /\ src' = s /\ epoch' = ez /\ emitted' = emitted \cup {w}
      /\ top' = IF src = "none" \/ u.ext > top.ext THEN u ELSE top
      /\ s = src => Abs(n - seen.newest) <= Window
      /\ seen' = IF s # src THEN [first |-> n, newest |-> n, count |-> 1]
                 ELSE [seen EXCEPT !.newest = Larger(@, n), !.count = @ + 1]
  BY DEF Arrive
<1> HIDE DEF late
<1>3. /\ w.n = n /\ w.epoch = ez.id /\ w.ext = u.ext /\ w.extTS = u.extTS
      /\ w.ssrc = r.outSSRC /\ w.late = late
  OBVIOUS
<1>4. ~w.late => ~(n < ez.first)
  BY <1>3, Zenon DEF late
<1> HIDE DEF w, r, o, u, ez
<1>5. CASE src = "none"
  <2>1. /\ inbound = NewRebaser /\ emitted = {} /\ epoch.id = 0 /\ s # src
    BY <1>1, <1>5, Limits DEF TimelineInv
  <2>2. /\ Follows(r, s, n) /\ o.seq = r.lastOutSeq /\ o.ts = r.lastOutTS
        /\ o.seq \in Int /\ o.ts \in Int
    BY <1>1, <2>1, RewriteFirst DEF r, o, p
  <2>3. ez.first = n /\ ez.newest = n /\ ez.id = 1
        /\ ez = [first |-> ez.first, newest |-> ez.newest, id |-> ez.id]
    BY <2>1 DEF ez, NewEpoch
  <2>4. u.ext = o.seq /\ u.extTS = o.ts /\ u.seq = o.seq /\ u.ts = o.ts /\ top' = u
    BY <1>2, <1>5 DEF u, Unwrap
  <2>5. Counts(ez, u)
    BY <2>2, <2>3, <2>4 DEF Counts
  <2>6. Behind(w, ez, u, r.outSSRC)
    <3>1. n - ez.newest = 0 /\ Ticks(0) = 0 /\ n \in Int
      BY <2>3, StreamAssumption DEF Ticks
    <3> QED BY <1>3, <1>4, <2>2, <2>3, <2>4, <3>1 DEF Behind
  <2>7. /\ \A x \in emitted' : Behind(x, ez, u, r.outSSRC)
        /\ \A x, y \in emitted' : Ordered(x, y)
    <3>1. /\ \A x \in emitted : Behind(x, ez, u, r.outSSRC)
          /\ \A x, y \in emitted : Ordered(x, y)
      BY <2>1
    <3>2. /\ \A x \in emitted \cup {w} : Behind(x, ez, u, r.outSSRC)
          /\ \A x, y \in emitted \cup {w} : Ordered(x, y)
      <4>1. w.epoch = ez.id BY <1>3
      <4> QED BY <2>5, <2>6, <3>1, <4>1, OneMore
    <3> QED BY <1>2, <3>2
  <2>8. /\ seen'.newest = n
        /\ seen' = [first |-> seen'.first, newest |-> seen'.newest, count |-> seen'.count]
    BY <1>2, <2>1
  <2> QED
    BY <1>2, <2>2, <2>3, <2>4, <2>5, <2>7, <2>8, Limits DEF TimelineInv
<1>6. CASE src # "none"
  <2> DEFINE m == epoch.newest
  <2>1. /\ src \in Sources /\ Follows(inbound, src, m) /\ Counts(epoch, top)
        /\ top.seq = inbound.lastOutSeq /\ top.ts = inbound.lastOutTS
        /\ epoch = [first |-> epoch.first, newest |-> epoch.newest, id |-> epoch.id]
        /\ seen = [first |-> seen.first, newest |-> seen.newest, count |-> seen.count]
        /\ seen.newest \in 0 .. MaxN
        /\ m <= seen.newest /\ seen.newest - m <= Window
        /\ \A x \in emitted : Behind(x, epoch, top, inbound.outSSRC)
        /\ \A x, y \in emitted : Ordered(x, y)
    BY <1>6 DEF TimelineInv
  <2>2. m \in 0 .. MaxN /\ top.ext \in Int /\ top.extTS \in Int
    BY <2>1 DEF Counts
  <2>3. /\ u.ext = top.ext + Signed(Minus(o.seq, top.seq, SeqHalf), SeqHalf)
        /\ u.extTS = top.extTS + Signed(Minus(o.ts, top.ts, TsHalf), TsHalf)
        /\ u.seq = o.seq /\ u.ts = o.ts
    BY <1>6 DEF u, Unwrap
  <2>4. top' = IF u.ext > top.ext THEN u ELSE top
    BY <1>2, <1>6
  <2>n. n \in Int /\ m \in Int /\ n - m \in Int
    BY <2>2
  <2>5. CASE ~new
    <3> DEFINE l == Larger(m, n)  t == top'
    <3>1. s = src /\ Abs(n - m) <= MaxSeqJump
      BY <2>5, <2>n, Limits DEF NewEpoch, Abs
    <3>2. /\ Follows(r, s, l) /\ r.outSSRC = inbound.outSSRC
          /\ o.seq \in Int /\ o.ts \in Int
          /\ n > m => o.seq = r.lastOutSeq /\ o.ts = r.lastOutTS
          /\ n <= m => r.lastOutSeq = inbound.lastOutSeq /\ r.lastOutTS = inbound.lastOutTS
          /\ Signed(Minus(o.seq, top.seq, SeqHalf), SeqHalf) = n - m
          /\ Signed(Minus(o.ts, top.ts, TsHalf), TsHalf) = Ticks(n - m)
      BY <1>1, <2>1, <2>2, <3>1, RewriteSame DEF r, o, p
    <3>3. /\ u.ext = top.ext + (n - m) /\ u.extTS = top.extTS + Ticks(n - m)
          /\ Ticks(n - m) \in Int
      BY <2>3, <2>n, <3>2, TicksAdd, Zenon
    <3>4. /\ ez.first = epoch.first /\ ez.newest = l /\ ez.id = epoch.id
          /\ ez = [first |-> ez.first, newest |-> ez.newest, id |-> ez.id]
      BY <2>1, <2>5 DEF ez
    <3>5. l = (IF n > m THEN n ELSE m) /\ l \in 0 .. MaxN /\ m <= l
      BY <2>2, <2>n DEF Larger
    <3> HIDE DEF l
    <3>6. /\ t.ext = top.ext + (l - m) /\ t.extTS = top.extTS + Ticks(l - m)
          /\ t.seq = r.lastOutSeq /\ t.ts = r.lastOutTS
      <4>1. CASE n > m
        <5>1. top' = u BY <2>2, <2>4, <2>n, <3>3, <4>1
        <5> QED BY <2>3, <3>2, <3>3, <3>5, <4>1, <5>1, Zenon
      <4>2. CASE ~(n > m)
        <5>1. top' = top BY <2>2, <2>4, <2>n, <3>3, <4>2
        <5>2. l - m = 0 /\ Ticks(0) = 0 BY <2>n, <3>5, <4>2, StreamAssumption DEF Ticks
        <5> QED BY <2>1, <2>2, <2>n, <3>2, <4>2, <5>1, <5>2
      <4> QED BY <4>1, <4>2, Zenon
    <3>7. l - m \in Int /\ Ticks(l - m) \in Int
      <4>1. l - m \in Int BY <2>n, <3>5
      <4> QED BY <4>1, TicksAdd, Zenon
    <3>8. Counts(ez, t)
      BY <2>1, <2>2, <3>4, <3>5, <3>6, <3>7 DEF Counts
    <3> HIDE DEF t
    <3>9. \A x \in emitted : Behind(x, ez, t, r.outSSRC)
      BY <2>1, <3>2, <3>4, <3>5, <3>6, <3>8, Carry
    <3>10. Behind(w, ez, t, r.outSSRC)
      <4>1. (n - m) - (l - m) = n - l /\ n - m <= l - m
        BY <2>n, <3>5
      <4>2. Ticks(n - m) - Ticks(l - m) = Ticks(n - l) /\ Ticks(n - m) <= Ticks(l - m)
        <5>1. /\ Ticks(n - m) - Ticks(l - m) = Ticks((n - m) - (l - m))
              /\ n - m <= l - m => Ticks(n - m) <= Ticks(l - m)
          BY <2>n, <3>7, TicksAdd, Zenon
        <5> QED BY <4>1, <5>1
      <4>3. u.ext = t.ext + (n - l) /\ u.ext <= t.ext /\ u.ext \in Int
        BY <2>2, <2>n, <3>3, <3>5, <3>6, <3>7
      <4>4. u.extTS = t.extTS + Ticks(n - l) /\ u.extTS <= t.extTS /\ u.extTS \in Int
        BY <2>2, <3>3, <3>6, <3>7, <4>2
      <4>5. ez.id \in Int /\ (~w.late => n >= ez.first)
        BY <1>4, <2>n, <3>8 DEF Counts
      <4> QED BY <1>3, <2>n, <3>4, <4>3, <4>4, <4>5 DEF Behind
    <3>11. /\ \A x \in emitted' : Behind(x, ez, t, r.outSSRC)
           /\ \A x, y \in emitted' : Ordered(x, y)
      <4>1. /\ \A x \in emitted \cup {w} : Behind(x, ez, t, r.outSSRC)
            /\ \A x, y \in emitted \cup {w} : Ordered(x, y)
        <5>1. w.epoch = ez.id /\ \A x, y \in emitted : Ordered(x, y) BY <1>3, <2>1
        <5> QED BY <3>8, <3>9, <3>10, <5>1, OneMore
      <4> QED BY <1>2, <4>1
    <3>12. /\ seen'.newest = Larger(seen.newest, n)
           /\ seen' = [first |-> seen'.first, newest |-> seen'.newest, count |-> seen'.count]
      BY <1>2, <2>1, <3>1, Zenon
    <3>13. seen'.newest \in 0 .. MaxN /\ l <= seen'.newest /\ seen'.newest - l <= Window
      BY <2>1, <2>2, <2>n, <3>5, <3>12, Limits DEF Larger
    <3> QED
      BY <1>2, <3>2, <3>4, <3>6, <3>8, <3>11, <3>12, <3>13 DEF TimelineInv, t
  <2>6. CASE new
    <3> DEFINE k == Frames(f) * FrameTicks
    <3>1. SourceChanged(inbound, p)
      <4>1. /\ p.ssrc = s /\ p.seq = Number[s][n]
            /\ inbound.srcSSRC = src /\ inbound.lastInSeq = Number[src][m]
        BY <2>1 DEF Follows, Packet
      <4>2. CASE s # src BY <4>1, <4>2, Zenon DEF SourceChanged
      <4>3. CASE s = src
        <5>1. Abs(n - m) > MaxSeqJump BY <2>6, <4>3 DEF NewEpoch
        <5>2. -Window <= n - m /\ n - m <= 2 * Window
          BY <1>2, <2>1, <2>n, <4>3, Limits DEF Abs
        <5> QED BY <2>2, <4>1, <4>3, <5>1, <5>2, JumpSeen, Zenon DEF SourceChanged
      <4> QED BY <4>2, <4>3
    <3>2. /\ Follows(r, s, n) /\ r.outSSRC = inbound.outSSRC
          /\ o.seq = r.lastOutSeq /\ o.ts = r.lastOutTS
          /\ Signed(Minus(o.seq, top.seq, SeqHalf), SeqHalf) = 1
          /\ Signed(Minus(o.ts, top.ts, TsHalf), TsHalf) = k
      BY <1>1, <2>1, <2>2, <3>1, RewriteChanged DEF r, o, p
    <3>3. k \in Nat /\ 0 < k
      BY <1>1, FramesBound
    <3> HIDE DEF k
    <3>4. /\ u.ext = top.ext + 1 /\ u.extTS = top.extTS + k
          /\ u.ext \in Int /\ u.extTS \in Int
          /\ u.ext > top.ext /\ u.extTS > top.extTS /\ top' = u
      <4>1. u.ext = top.ext + 1 /\ u.extTS = top.extTS + k
        BY <2>3, <3>2, Zenon
      <4>2. /\ u.ext \in Int /\ u.extTS \in Int
            /\ u.ext > top.ext /\ u.extTS > top.extTS
        BY <2>2, <3>3, <4>1
      <4> QED BY <2>4, <4>1, <4>2, Zenon
    <3>5. /\ ez.first = n /\ ez.newest = n /\ ez.id = epoch.id + 1
          /\ ez = [first |-> ez.first, newest |-> ez.newest, id |-> ez.id]
      BY <2>6 DEF ez
    <3>6. Counts(ez, u)
      BY <2>1, <2>n, <3>4, <3>5 DEF Counts
    <3>7. \A x \in emitted : Behind(x, ez, u, r.outSSRC)
      BY <2>1, <3>2, <3>4, <3>5, <3>6, Fresh
    <3>8. Behind(w, ez, u, r.outSSRC)
      <4>0. Ticks(0) = 0
        BY StreamAssumption DEF Ticks
      <4>1. n - ez.newest = 0 /\ Ticks(0) = 0 /\ ez.id \in Int
        BY <2>n, <3>5, <3>6, <4>0 DEF Counts
      <4> QED BY <1>3, <1>4, <2>n, <3>4, <3>5, <4>1 DEF Behind
    <3>9. /\ \A x \in emitted' : Behind(x, ez, u, r.outSSRC)
          /\ \A x, y \in emitted' : Ordered(x, y)
      <4>1. /\ \A x \in emitted \cup {w} : Behind(x, ez, u, r.outSSRC)
            /\ \A x, y \in emitted \cup {w} : Ordered(x, y)
        BY <1>3, <2>1, <3>6, <3>7, <3>8, OneMore
      <4> QED BY <1>2, <4>1
    <3>10. /\ seen'.newest = IF s # src THEN n ELSE Larger(seen.newest, n)
           /\ seen' = [first |-> seen'.first, newest |-> seen'.newest, count |-> seen'.count]
      BY <1>2, <2>1, Zenon
    <3>11. seen'.newest \in 0 .. MaxN /\ n <= seen'.newest /\ seen'.newest - n <= Window
      BY <1>2, <2>1, <2>n, <3>10, Limits DEF Larger, Abs
    <3> QED
      BY <1>2, <2>3, <3>2, <3>4, <3>5, <3>6, <3>9, <3>10, <3>11 DEF TimelineInv
  <2> QED BY <2>5, <2>6
<1> QED BY <1>5, <1>6

\* The timeline holds together in every reachable state.
THEOREM TimelineInvariant == Spec => []TimelineInv
<1>1. Init => TimelineInv
  BY DEF Init, TimelineInv
<1>2. TimelineInv /\ [Next]_vars => TimelineInv'
  <2> SUFFICES ASSUME TimelineInv, [Next]_vars PROVE TimelineInv'
    OBVIOUS
  <2>1. CASE UNCHANGED <<inbound, src, seen, epoch, top, emitted>>
    BY <2>1 DEF TimelineInv
  <2>2. CASE SendReport BY <2>1, <2>2 DEF SendReport
  <2>3. CASE UNCHANGED vars BY <2>1, <2>3 DEF vars
  <2> QED BY <2>2, <2>3, TimelineArrive DEF Next
<1> QED BY <1>1, <1>2, PTL DEF Spec

\* What the rebaser hands to LiveKit is one stream, whatever the network and the
\* sender do: within an epoch the distances are the sender's, in number and in
\* time, and an epoch is behind all that came before it (rebase.go:19).
THEOREM OneTimeline == Spec => []Timeline
<1>1. TimelineInv => Timeline
  <2>1. TimelineInv => \A x, y \in emitted : Ordered(x, y)
    BY DEF TimelineInv
  <2> QED BY <2>1 DEF Ordered, Timeline, Ticks
<1> QED BY <1>1, TimelineInvariant, PTL
=============================================================================
