------------------------------ MODULE MediaLeg ------------------------------
(***************************************************************************)
(* What the rest of a call sees of its media transport                       *)
(* (internal/media/transport.go), without the goroutines that set it up and  *)
(* close it: it comes up or fails, once; one that is up may lose the          *)
(* connection under its mux; and a closed one stays closed.                   *)
(***************************************************************************)
VARIABLE media  \* "new", "up", "lost", "failed" or "closed"

Init == media = "new"

\* The connection may be lost before the sessions are there to be seen.
SetUp == media = "new" /\ media' \in {"up", "lost", "failed"}

\* readLoop closes the mux; the Transport keeps its sessions and its nil error.
Lose == media = "up" /\ media' = "lost"

Close == media \in {"new", "up", "lost", "failed"} /\ media' = "closed"

Step == SetUp \/ Lose \/ Close

Spec == Init /\ [][Step]_media
=============================================================================
