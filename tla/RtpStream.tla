----------------------------- MODULE RtpStream -----------------------------
(***************************************************************************)
(* RTP from Meta over a network that loses, repeats and reorders, from a      *)
(* sender that may change its SSRC or restart: what the reception statistics  *)
(* count, and what the inbound rebaser makes of it for LiveKit.               *)
(*                                                                         *)
(* Packet n of a source is its n-th packet; it carries the number and the     *)
(* timestamp the source gave it, which wrap.  The code sees only these.       *)
(***************************************************************************)
EXTENDS Rebaser, RxStats, FiniteSets

CONSTANTS
  Sources,      \* the SSRCs
  Number,       \* the sequence number of packet n of a source
  Stamp,        \* its timestamp
  MaxN,         \* bound on n
  Window,       \* a packet is at most so far from the newest of its source
  Elapsed,      \* frames that may pass between two packets
  MaxArrivals   \* bound on the packets that arrive

\* Packets count up, and what the network does to them stays within what 16
\* bits can tell apart.
ASSUME StreamAssumption ==
  /\ SeqHalf \in Nat \ {0, 1} /\ TsHalf \in Nat \ {0}
  /\ MaxN \in Nat /\ Window \in 1 .. SeqHalf - 1
  /\ MaxSeqJump \in 1 .. SeqHalf - 1
  /\ FrameTicks \in Nat \ {0} /\ MaxRebaseFrames \in Nat \ {0}
  /\ MaxRebaseFrames * FrameTicks < TsHalf
  /\ Elapsed \subseteq Nat
  /\ "none" \notin Sources
  /\ Number \in [Sources -> [0 .. MaxN -> Word(SeqHalf)]]
  /\ Stamp \in [Sources -> [0 .. MaxN -> Word(TsHalf)]]
  /\ \A s \in Sources : \A m, n \in 0 .. MaxN :
       n <= m /\ m - n < 2 * SeqHalf =>
         Number[s][m] = Plus(Number[s][n], m - n, SeqHalf)

\* A packet is a frame, and its timestamp says so; jumps are told from wraps.
ASSUME FrameAssumption ==
  /\ 2 * Window + MaxSeqJump < 2 * SeqHalf
  /\ MaxSeqJump * FrameTicks < TsHalf
  /\ \A s \in Sources : \A m, n \in 0 .. MaxN :
       n <= m /\ (m - n) * FrameTicks < 2 * TsHalf =>
         Stamp[s][m] = Plus(Stamp[s][n], (m - n) * FrameTicks, TsHalf)

VARIABLES
  rx,        \* Transport.rx
  inbound,   \* Bridge.inbound
  src,       \* the source of the packet that arrived last
  arrivals,  \* packets that arrived
  seen,      \* since src took over: the first, the newest and the number of them
  epoch,     \* the same since the sender last changed or jumped, and how many
             \* epochs there have been
  top,       \* the newest packet LiveKit has got, in its own unwrapped numbers
  emitted    \* every packet it has got

vars == <<rx, inbound, src, arrivals, seen, epoch, top, emitted>>

Packet(s, n) == [ssrc |-> s, seq |-> Number[s][n], ts |-> Stamp[s][n]]

Init ==
  /\ rx = NewStats
  /\ inbound = NewRebaser
  /\ src = "none" /\ arrivals = 0
  /\ seen = [first |-> 0, newest |-> 0, count |-> 0]
  /\ epoch = [first |-> 0, newest |-> 0, id |-> 0]
  /\ top = [ext |-> 0, extTS |-> 0, seq |-> 0, ts |-> 0]
  /\ emitted = {}

Larger(a, b) == IF a > b THEN a ELSE b

\* Whether packet n of s is the first, from another source, or more than
\* MaxSeqJump away from the newest.
NewEpoch(s, n) == s # src \/ Abs(n - epoch.newest) > MaxSeqJump

\* How a receiver unwraps: the next packet is the one nearest to the newest.
Unwrap(o) ==
  IF src = "none" THEN [ext |-> o.seq, extTS |-> o.ts, seq |-> o.seq, ts |-> o.ts]
  ELSE [ext |-> top.ext + Signed(Minus(o.seq, top.seq, SeqHalf), SeqHalf),
        extTS |-> top.extTS + Signed(Minus(o.ts, top.ts, TsHalf), TsHalf),
        seq |-> o.seq, ts |-> o.ts]

\* Packet n of s arrives: readStream counts it, and WriteFromMeta rewrites it
\* and hands it to LiveKit.
Arrive(s, n, elapsed) ==
  /\ arrivals < MaxArrivals /\ arrivals' = arrivals + 1
  /\ s = src => Abs(n - seen.newest) <= Window
  /\ LET p == Packet(s, n)
         r == Rewrite(inbound, p, elapsed)
         u == Unwrap(Out(r, p))
         new == NewEpoch(s, n)
         e == IF new THEN [first |-> n, newest |-> n, id |-> epoch.id + 1]
              ELSE [epoch EXCEPT !.newest = Larger(@, n)]
     IN /\ rx' = Count(rx, p)
        /\ inbound' = r
        /\ src' = s
        /\ seen' = IF s # src THEN [first |-> n, newest |-> n, count |-> 1]
                   ELSE [seen EXCEPT !.newest = Larger(@, n), !.count = @ + 1]
        /\ epoch' = e
        /\ top' = IF src = "none" \/ u.ext > top.ext THEN u ELSE top
        /\ emitted' = emitted \cup
             {[n |-> n, epoch |-> e.id, ext |-> u.ext, extTS |-> u.extTS,
               ssrc |-> r.outSSRC, late |-> n < e.first]}

\* RunRTCP's tick: the report of this interval.
SendReport ==
  /\ rx' = Report(rx)
  /\ UNCHANGED <<inbound, src, arrivals, seen, epoch, top, emitted>>

Next ==
  \/ \E s \in Sources, n \in 0 .. MaxN, f \in Elapsed : Arrive(s, n, f)
  \/ SendReport

Spec == Init /\ [][Next]_vars

-----------------------------------------------------------------------------
\* The statistics follow the true packets, through wraps of the sequence
\* number, gaps, reordering and duplicates: the extended highest number is as
\* far from the first as the newest packet is from the first, so that expected
\* and lost (rtpstats.go:88, 100) are right.
LossCounted ==
  src # "none" =>
    /\ rx.ssrc = src
    /\ Expected(rx) = seen.newest - seen.first + 1
    /\ Lost(rx) = seen.newest - seen.first + 1 - seen.count

\* The fraction of a report, (lost << 8) / expected, fits into a byte
\* (rtpstats.go:107), and the unsigned difference before it does not wrap:
\* expected grows only with a packet that is counted, also across restarts.
FractionFits ==
  rx.started => ExpectedInterval(rx) >= 0 /\ Fraction(rx) <= 255

\* What rebase.go:19 promises, as LiveKit sees it.  Packets between which the
\* sender did not change keep their distance, so that a gap stays a gap, a
\* duplicate a duplicate and a late packet late; when it has changed, the
\* output goes on behind everything sent before, in number and in time.  Not
\* covered are packets overtaken by the first of their own epoch (late): they
\* fall back on numbers already used.  The output SSRC never changes.
Timeline ==
  \A e, f \in emitted :
    /\ e.ssrc = f.ssrc
    /\ e.epoch = f.epoch =>
         e.ext - f.ext = e.n - f.n /\ e.extTS - f.extTS = (e.n - f.n) * FrameTicks
    /\ e.epoch < f.epoch /\ ~f.late => e.ext < f.ext /\ e.extTS < f.extTS
=============================================================================
