---------------------------- MODULE MCCallPorts ----------------------------
(* Instances of CallPorts for TLC; every inbound request carries the same id. *)
EXTENDS CallPorts, TLC

CONSTANT inboundId

MCIdOf == [r \in Reqs |-> IF r \in AcceptReqs THEN inboundId ELSE r]
MCCallIDs == {MCIdOf[r] : r \in Reqs}

Symmetry == Permutations(AcceptReqs)
=============================================================================
