------------------------------ MODULE RxStats ------------------------------
(***************************************************************************)
(* Reception statistics (internal/media/rtpstats.go): what update and report  *)
(* do to rxStats, each under its mutex.  Jitter and round-trip time, which     *)
(* are floating point, are left out.  The 32-bit counters are numbers here:    *)
(* at 50 packets a second they last for years.                                *)
(***************************************************************************)
EXTENDS Words

\* The zero rxStats.
NewStats ==
  [started |-> FALSE, ssrc |-> "none", baseSeq |-> 0, maxSeq |-> 0, cycles |-> 0,
   received |-> 0, reorder |-> 0, expectedPrior |-> 0, receivedPrior |-> 0]

\* A new source restarts the counters.
Restart(p) ==
  [started |-> TRUE, ssrc |-> p.ssrc, baseSeq |-> p.seq, maxSeq |-> p.seq,
   cycles |-> 0, received |-> 0, reorder |-> 0, expectedPrior |-> 0,
   receivedPrior |-> 0]

\* Mutants of Count: a wrap is not noticed; the first packet is not counted.
CountNoWrap(s, p) ==
  LET t == IF ~s.started \/ p.ssrc # s.ssrc THEN Restart(p)
           ELSE IF Minus(p.seq, s.maxSeq, SeqHalf) < SeqHalf
                THEN [s EXCEPT !.maxSeq = p.seq]
           ELSE [s EXCEPT !.reorder = @ + 1]
  IN [t EXCEPT !.received = @ + 1]

CountAfterFirst(s, p) ==
  IF ~s.started \/ p.ssrc # s.ssrc THEN Restart(p)
  ELSE IF Minus(p.seq, s.maxSeq, SeqHalf) < SeqHalf
    THEN [s EXCEPT !.maxSeq = p.seq, !.received = @ + 1,
                   !.cycles = IF p.seq < s.maxSeq THEN @ + 2 * SeqHalf ELSE @]
  ELSE [s EXCEPT !.reorder = @ + 1, !.received = @ + 1]

\* update
Count(s, p) ==
  LET t == IF ~s.started \/ p.ssrc # s.ssrc THEN Restart(p)
           ELSE IF Minus(p.seq, s.maxSeq, SeqHalf) < SeqHalf
                THEN [s EXCEPT !.maxSeq = p.seq,
                               !.cycles = IF p.seq < s.maxSeq
                                          THEN @ + 2 * SeqHalf ELSE @]
           ELSE [s EXCEPT !.reorder = @ + 1]
  IN [t EXCEPT !.received = @ + 1]

ExtMax(s) == s.cycles + s.maxSeq

Expected(s) == ExtMax(s) - s.baseSeq + 1

\* What snapshot gives as Lost; report has the same, but not below zero.
Lost(s) == Expected(s) - s.received

ExpectedInterval(s) == Expected(s) - s.expectedPrior
LostInterval(s) == ExpectedInterval(s) - (s.received - s.receivedPrior)

\* FractionLost, before its conversion to uint8.
Fraction(s) ==
  IF ExpectedInterval(s) > 0 /\ LostInterval(s) > 0
  THEN (LostInterval(s) * 256) \div ExpectedInterval(s) ELSE 0

\* report
Report(s) ==
  IF s.started
  THEN [s EXCEPT !.expectedPrior = Expected(s), !.receivedPrior = s.received]
  ELSE s
=============================================================================
