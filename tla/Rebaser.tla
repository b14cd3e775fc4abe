------------------------------ MODULE Rebaser ------------------------------
(***************************************************************************)
(* The RTP rebaser (internal/livekitbridge/rebase.go): what rewrite does to   *)
(* its own state and to a packet.  It runs under the rebaser's mutex, so that *)
(* one call is one step.  A packet is a record of ssrc, seq and ts; payload   *)
(* type and header extensions are left out.                                   *)
(***************************************************************************)
EXTENDS Words

CONSTANTS
  FrameTicks,      \* opusFrameTicks, 960 in the code
  MaxSeqJump,      \* maxSeqJump, 3000
  MaxRebaseFrames  \* maxRebaseFrames, 500

\* The zero rtpRebaser.
NewRebaser ==
  [started |-> FALSE, outSSRC |-> "none", srcSSRC |-> "none", seqOff |-> 0,
   tsOff |-> 0, lastInSeq |-> 0, lastOutSeq |-> 0, lastOutTS |-> 0]

\* The first packet fixes the output SSRC, one to one, and is passed as it is.
First(r, p) ==
  [r EXCEPT !.started = TRUE, !.outSSRC = p.ssrc, !.srcSSRC = p.ssrc,
            !.lastInSeq = p.seq, !.lastOutSeq = p.seq, !.lastOutTS = p.ts]

SourceChanged(r, p) ==
  \/ p.ssrc # r.srcSSRC
  \/ Abs(Signed(Minus(p.seq, r.lastInSeq, SeqHalf), SeqHalf)) > MaxSeqJump

\* The frames that fit into the time since the last packet, within limits.
Frames(elapsed) ==
  IF elapsed < 1 THEN 1
  ELSE IF elapsed > MaxRebaseFrames THEN MaxRebaseFrames ELSE elapsed

\* Another source: the output goes on one number and some frames later.
Rebase(r, p, elapsed) ==
  LET nextSeq == Plus(r.lastOutSeq, 1, SeqHalf)
      nextTS == Plus(r.lastOutTS, Frames(elapsed) * FrameTicks, TsHalf)
  IN [r EXCEPT !.seqOff = Minus(nextSeq, p.seq, SeqHalf),
               !.tsOff = Minus(nextTS, p.ts, TsHalf),
               !.srcSSRC = p.ssrc,
               !.lastInSeq = p.seq,
               !.lastOutSeq = Minus(nextSeq, 1, SeqHalf),
               !.lastOutTS = Minus(nextTS, FrameTicks, TsHalf)]

Adopt(r, p, elapsed) ==
  IF ~r.started THEN First(r, p)
  ELSE IF SourceChanged(r, p) THEN Rebase(r, p, elapsed)
  ELSE r

\* The packet shifted by the offsets.
Out(r, p) ==
  [ssrc |-> r.outSSRC,
   seq |-> Plus(p.seq, r.seqOff, SeqHalf),
   ts |-> Plus(p.ts, r.tsOff, TsHalf)]

\* The highest numbers so far, on both sides.
Advance(r, p) ==
  LET o == Out(r, p)
      ahead == Newer(o.seq, r.lastOutSeq, SeqHalf)
  IN [r EXCEPT
        !.lastInSeq = IF Newer(p.seq, @, SeqHalf) THEN p.seq ELSE @,
        !.lastOutSeq = IF ahead THEN o.seq ELSE @,
        !.lastOutTS = IF ahead THEN o.ts ELSE @]

\* rewrite, `elapsed' frames after the packet before: the new state of the
\* rebaser, with which Out gives the packet.
Rewrite(r, p, elapsed) == Advance(Adopt(r, p, elapsed), p)
=============================================================================
