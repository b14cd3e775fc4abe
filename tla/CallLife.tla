------------------------------ MODULE CallLife ------------------------------
(***************************************************************************)
(* What the call manager promises of a WhatsApp call, to the callers that     *)
(* wait for it and to Meta, without the goroutines that keep the promise.     *)
(*   at        "idle", "live" (its id is taken in Manager.calls) or "over"     *)
(*   told      what c.ready tells the waiters, "open" before                   *)
(*   signaled  Meta has the connector's answer or has placed the call         *)
(*   hungUp    stopUser has noted the hang-up that Meta reported              *)
(*   verdict   whether Meta is sent a Terminate, "open" before it is decided  *)
(***************************************************************************)
CONSTANTS Calls, IdOf

VARIABLE life

Init ==
  life = [c \in Calls |-> [at |-> "idle", told |-> "open", signaled |-> FALSE,
                           hungUp |-> FALSE, verdict |-> "open"]]

Become(c, r) == life' = [life EXCEPT ![c] = r]

\* One call of an id at a time, however many requests name it.
Begin(c) ==
  /\ life[c].at = "idle" /\ life[c].verdict = "open"
  /\ \A d \in Calls : IdOf[d] = IdOf[c] => life[d].at # "live"
  /\ Become(c, [life[c] EXCEPT !.at = "live"])

Signal(c) ==
  /\ life[c].at # "over" /\ life[c].verdict = "open"
  /\ Become(c, [life[c] EXCEPT !.signaled = TRUE])

\* A hang-up may be noted at any time, also when the call is over.
HangUp(c) ==
  /\ life[c].at # "idle"
  /\ Become(c, [life[c] EXCEPT !.hungUp = TRUE])

\* The waiters are told once, and told success only of a call Meta knows.
Tell(c) ==
  /\ life[c].at = "live" /\ life[c].told = "open" /\ life[c].verdict = "open"
  /\ \/ life[c].signaled /\ Become(c, [life[c] EXCEPT !.told = "nil"])
     \/ Become(c, [life[c] EXCEPT !.told = "err"])

\* Decided once, when the waiters have been told: Meta is sent a Terminate
\* exactly if it knows the call and no hang-up has been noted.
Decide(c) ==
  /\ life[c].at = "live" /\ life[c].told # "open" /\ life[c].verdict = "open"
  /\ Become(c, [life[c] EXCEPT !.verdict =
                  IF life[c].signaled /\ ~life[c].hungUp THEN "terminate" ELSE "silent"])

\* A call that Meta has placed and that comes too late for a draining manager.
Dismiss(c) ==
  /\ life[c].at = "idle" /\ life[c].told = "open" /\ life[c].verdict = "open"
  /\ life[c].signaled
  /\ Become(c, [life[c] EXCEPT !.told = "err", !.verdict = "terminate"])

\* The id is free again only after all that.
Finish(c) ==
  /\ life[c].at = "live" /\ life[c].verdict # "open"
  /\ Become(c, [life[c] EXCEPT !.at = "over"])

Next ==
  \E c \in Calls :
    \/ Begin(c) \/ Signal(c) \/ HangUp(c) \/ Tell(c) \/ Decide(c) \/ Dismiss(c)
    \/ Finish(c)

Spec == Init /\ [][Next]_life
=============================================================================
