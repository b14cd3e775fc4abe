---------------------------- MODULE MCRtpStream ----------------------------
(* Two sources whose numbers and timestamps wrap after a few packets. *)
EXTENDS RtpStream

MCSources == {"a", "b"}
Start == [a |-> 2 * SeqHalf - 2, b |-> 5]
StartTS == [a |-> 2 * TsHalf - 3, b |-> 7]
MCNumber == [s \in MCSources |-> [n \in 0 .. MaxN |-> (Start[s] + n) % (2 * SeqHalf)]]
MCStamp ==
  [s \in MCSources |->
     [n \in 0 .. MaxN |-> (StartTS[s] + n * FrameTicks) % (2 * TsHalf)]]
MCElapsed == {0, MaxRebaseFrames + 1}
=============================================================================
