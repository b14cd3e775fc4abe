--------------------------- MODULE MCCallManager ---------------------------
(***************************************************************************)
(* Instances of CallManager for TLC.  Every inbound request carries the     *)
(* same WhatsApp call id, every outbound one its own.                       *)
(***************************************************************************)
EXTENDS CallManager, TLC

CONSTANT inboundId

MCIdOf == [r \in Reqs |-> IF r \in AcceptReqs THEN inboundId ELSE r]
MCCallIDs == {MCIdOf[r] : r \in Reqs}

Symmetry == Permutations(AcceptReqs)
=============================================================================
