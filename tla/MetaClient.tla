----------------------------- MODULE MetaClient -----------------------------
(***************************************************************************)
(* The client of Meta's calls API (internal/meta/client.go): attempts,      *)
(* errors, retries by policy, back-off and the end of the caller's context, *)
(* over a network that loses requests and responses and delays requests.    *)
(***************************************************************************)
EXTENDS Naturals

CONSTANTS
  Requests,    \* requests the call manager makes
  maxAttempts  \* the total number of tries for a retryable request

ASSUME AttemptsAssumption == maxAttempts \in Nat \ {0}

Actions == {"pre_accept", "accept", "connect", "terminate"}

\* The policy each of PreAccept, Accept, Dial and Terminate passes to call.
PolicyOf(a) ==
  CASE a = "connect" -> "retryNever"
    [] a \in {"pre_accept", "accept"} -> "retryUnprocessed"
    [] a = "terminate" -> "retryAny"

(***************************************************************************)
(* How callOnce ends:                                                       *)
(*   ok         2xx (with a call id when the action is connect)             *)
(*   noid       2xx without a call id, an error of connect                  *)
(*   busy       429 or 503       client  another status below 500           *)
(*   server     another 5xx      dial    no connection                      *)
(*   lost       a timeout, reset or deadline after the request left         *)
(*   cancelled  context.Canceled                                            *)
(*   invalid    no API version or destination: nothing was sent             *)
(***************************************************************************)
Errors == {"noid", "busy", "client", "server", "dial", "lost", "cancelled",
           "invalid"}
Outcomes == Errors \cup {"ok"}

VARIABLES
  pc,       \* "idle", "once" (in callOnce), "decide", "backoff", "ok", "failed"
  action,   \* the action of each request
  attempt,  \* the loop variable of call
  last,     \* how the last callOnce ended
  ctx,      \* the caller's context: "live", "cancelled" or "deadline"
  flying,   \* attempts the client gave up on that Meta may yet receive
  effects   \* how often Meta has carried the request out

vars == <<pc, action, attempt, last, ctx, flying, effects>>

\* Every variable holds what its declaration says; call never makes more than
\* maxAttempts attempts.
TypeOK ==
  /\ pc \in [Requests -> {"idle", "once", "decide", "backoff", "ok", "failed"}]
  /\ action \in [Requests -> Actions]
  /\ attempt \in [Requests -> 0 .. maxAttempts]
  /\ last \in [Requests -> Outcomes]
  /\ ctx \in [Requests -> {"live", "cancelled", "deadline"}]
  /\ flying \in [Requests -> Nat]
  /\ effects \in [Requests -> Nat]

Init ==
  /\ pc = [r \in Requests |-> "idle"]
  /\ action \in [Requests -> Actions]
  /\ attempt = [r \in Requests |-> 0]
  /\ last = [r \in Requests |-> "ok"]
  /\ ctx = [r \in Requests |-> "live"]
  /\ flying = [r \in Requests |-> 0]
  /\ effects = [r \in Requests |-> 0]

\* Mutants of Retryable: a lost response is retried for every policy but
\* retryNever; 5xx is never retried.
RetryableLost(policy, o) ==
  /\ policy # "retryNever" /\ o # "ok"
  /\ \/ o \in {"busy", "dial", "lost"}
     \/ policy = "retryAny" /\ o \notin {"client", "cancelled"}

RetryableNoServer(policy, o) ==
  /\ policy # "retryNever" /\ o # "ok"
  /\ \/ o \in {"busy", "dial"}
     \/ policy = "retryAny" /\ o \notin {"client", "server", "cancelled"}

Retryable(policy, o) ==
  /\ policy # "retryNever" /\ o # "ok"
  /\ \/ o \in {"busy", "dial"}
     \/ policy = "retryAny" /\ o \notin {"client", "cancelled"}

\* A request is invalid from its first attempt or never.
MayBeValid(r) == attempt[r] = 0 \/ last[r] # "invalid"
MayBeInvalid(r) == attempt[r] = 0 \/ last[r] = "invalid"

\* callOnce starts.  When the context has ended a request that is found valid
\* is not sent by http.Client.Do.
Enter(r) ==
  \/ /\ ctx[r] = "live"
     /\ pc' = [pc EXCEPT ![r] = "once"] /\ UNCHANGED last
  \/ /\ ctx[r] # "live"
     /\ pc' = [pc EXCEPT ![r] = "decide"]
     /\ \/ MayBeInvalid(r) /\ last' = [last EXCEPT ![r] = "invalid"]
        \/ /\ MayBeValid(r)
           /\ last' = [last EXCEPT ![r] =
                         IF ctx[r] = "cancelled" THEN "cancelled" ELSE "lost"]

Begin(r) ==
  /\ pc[r] = "idle"
  /\ attempt' = [attempt EXCEPT ![r] = 1]
  /\ Enter(r)
  /\ UNCHANGED <<action, ctx, flying, effects>>

\* What an attempt that ends with o may have done at Meta (external): "now",
\* "later" or "never".  A status below 500 and 503 say it did nothing.
Fate(o) ==
  CASE o \in {"ok", "noid"} -> {"now"}
    [] o = "server" -> {"now", "never"}
    [] o \in {"lost", "cancelled"} -> {"now", "later", "never"}
    [] o \in {"busy", "client", "dial", "invalid"} -> {"never"}

Possible(r) ==
  IF attempt[r] > 1 /\ last[r] = "invalid" THEN {"invalid"}
  ELSE {"ok", "busy", "client", "server", "dial", "lost"}
       \cup (IF action[r] = "connect" THEN {"noid"} ELSE {})
       \cup (IF attempt[r] = 1 THEN {"invalid"} ELSE {})
       \cup (IF ctx[r] = "cancelled" THEN {"cancelled"} ELSE {})

CallOnce(r) ==
  /\ pc[r] = "once"
  /\ pc' = [pc EXCEPT ![r] = "decide"]
  /\ \E o \in Possible(r) : \E fate \in Fate(o) :
       /\ last' = [last EXCEPT ![r] = o]
       /\ effects' = [effects EXCEPT ![r] = IF fate = "now" THEN @ + 1 ELSE @]
       /\ flying' = [flying EXCEPT ![r] = IF fate = "later" THEN @ + 1 ELSE @]
  /\ UNCHANGED <<action, attempt, ctx>>

\* Mutant of Decide: running out of attempts is no error.
DecideLastWins(r) ==
  /\ pc[r] = "decide"
  /\ pc' = [pc EXCEPT ![r] =
              CASE last[r] = "ok" \/ attempt[r] = maxAttempts -> "ok"
                [] Retryable(PolicyOf(action[r]), last[r]) -> "backoff"
                [] OTHER -> "failed"]
  /\ UNCHANGED <<action, attempt, last, ctx, flying, effects>>

Decide(r) ==
  /\ pc[r] = "decide"
  /\ pc' = [pc EXCEPT ![r] =
              CASE last[r] = "ok" -> "ok"
                [] /\ attempt[r] # maxAttempts
                   /\ Retryable(PolicyOf(action[r]), last[r]) -> "backoff"
                [] OTHER -> "failed"]
  /\ UNCHANGED <<action, attempt, last, ctx, flying, effects>>

\* The pause before a retry: its timer, or the end of the context.
Backoff(r) ==
  /\ pc[r] = "backoff"
  /\ \/ /\ attempt' = [attempt EXCEPT ![r] = @ + 1]
        /\ Enter(r)
     \/ /\ ctx[r] # "live"
        /\ pc' = [pc EXCEPT ![r] = "failed"]
        /\ UNCHANGED <<attempt, last>>
  /\ UNCHANGED <<action, ctx, flying, effects>>

-----------------------------------------------------------------------------
(* The outside *)

ContextEnds(r) ==
  /\ ctx[r] = "live"
  /\ pc[r] \notin {"ok", "failed"}
  /\ \E how \in {"cancelled", "deadline"} : ctx' = [ctx EXCEPT ![r] = how]
  /\ UNCHANGED <<pc, action, attempt, last, flying, effects>>

\* Meta receives a request whose sender has given up waiting (external).
LateEffect(r) ==
  /\ flying[r] > 0
  /\ flying' = [flying EXCEPT ![r] = @ - 1]
  /\ effects' = [effects EXCEPT ![r] = @ + 1]
  /\ UNCHANGED <<pc, action, attempt, last, ctx>>

ClientStep(r) == Begin(r) \/ CallOnce(r) \/ Decide(r) \/ Backoff(r)

Finished == \A r \in Requests : pc[r] \in {"ok", "failed"}

Next ==
  \/ \E r \in Requests : ClientStep(r) \/ ContextEnds(r) \/ LateEffect(r)
  \/ Finished /\ UNCHANGED vars

\* The HTTP client's timeout ends every attempt and the timer every pause.
\* The network need not deliver what is delayed, nor the context end.
Spec ==
  /\ Init /\ [][Next]_vars
  /\ \A r \in Requests : WF_vars(CallOnce(r) \/ Decide(r) \/ Backoff(r))

-----------------------------------------------------------------------------
\* A pre_accept, an accept or a connect reaches Meta's state at most once,
\* delayed attempts included, whatever mix of errors the attempts meet: a
\* retry follows only an attempt that clearly was not processed.
EffectAtMostOnce ==
  \A r \in Requests :
    action[r] # "terminate" => effects[r] + flying[r] <= 1

\* A terminate is given up only when its attempts are used up, its context
\* has ended, or Meta has refused it: 5xx and lost responses do not end it.
TerminatePersists ==
  \A r \in Requests :
    action[r] = "terminate" /\ pc[r] = "failed" =>
      attempt[r] = maxAttempts \/ ctx[r] # "live" \/ last[r] = "client"

\* The client keeps the promise MetaRequest states: every request returns to
\* the call manager, and success is reported only for one that took effect.
Promise == INSTANCE MetaRequest WITH
  state <- [r \in Requests |->
              IF pc[r] \in {"once", "decide", "backoff"} THEN "open" ELSE pc[r]]

KeepsPromise == Promise!Spec
=============================================================================
