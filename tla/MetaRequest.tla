---------------------------- MODULE MetaRequest ----------------------------
(***************************************************************************)
(* What internal/meta promises its caller about one request to Meta's calls *)
(* API: a pre_accept, an accept or a connect takes effect at most once, and *)
(* only a terminate may take effect again; success is reported only for a   *)
(* request that took effect.  An error promises nothing: the request may    *)
(* have taken effect before, and may still take effect after it.            *)
(***************************************************************************)
EXTENDS Naturals

CONSTANTS
  Requests  \* requests the call manager makes

Actions == {"pre_accept", "accept", "connect", "terminate"}

VARIABLES
  state,    \* "idle", "open", "ok" or "failed"
  action,   \* the action of each request
  effects   \* how often Meta has carried it out

vars == <<state, action, effects>>

Repeatable(a) == a = "terminate"

Init ==
  /\ state = [r \in Requests |-> "idle"]
  /\ action \in [Requests -> Actions]
  /\ effects = [r \in Requests |-> 0]

Ask(r) ==
  /\ state[r] = "idle"
  /\ state' = [state EXCEPT ![r] = "open"]
  /\ UNCHANGED <<action, effects>>

TakeEffect(r) ==
  /\ state[r] # "idle"
  /\ effects[r] = 0 \/ Repeatable(action[r])
  /\ effects' = [effects EXCEPT ![r] = @ + 1]
  /\ UNCHANGED <<state, action>>

Succeed(r) ==
  /\ state[r] = "open" /\ effects[r] > 0
  /\ state' = [state EXCEPT ![r] = "ok"]
  /\ UNCHANGED <<action, effects>>

Fail(r) ==
  /\ state[r] = "open"
  /\ state' = [state EXCEPT ![r] = "failed"]
  /\ UNCHANGED <<action, effects>>

Next == \E r \in Requests : Ask(r) \/ TakeEffect(r) \/ Succeed(r) \/ Fail(r)

\* What it never does, and that every request that is made is answered.
Safety == Init /\ [][Next]_vars

Spec ==
  /\ Safety
  /\ \A r \in Requests : WF_vars(Succeed(r) \/ Fail(r))
=============================================================================
