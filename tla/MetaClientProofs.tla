-------------------------- MODULE MetaClientProofs --------------------------
(***************************************************************************)
(* MetaClient, for every set of requests and every number of attempts.      *)
(***************************************************************************)
EXTENDS MetaClient, TLAPS

\* Where the client still may send, nothing it has sent took or can take
\* effect; and a pause is followed by an attempt that is within the limit.
Unsent(r) ==
  (\/ pc[r] \in {"idle", "once", "backoff"}
   \/ pc[r] = "decide" /\ last[r] \in {"busy", "dial"})
  => effects[r] = 0 /\ flying[r] = 0

RequestOK(r) ==
  /\ action[r] # "terminate" =>
       effects[r] + flying[r] <= 1 /\ Unsent(r)
  /\ pc[r] = "backoff" => attempt[r] < maxAttempts
  /\ pc[r] = "idle" => effects[r] = 0 /\ flying[r] = 0
  /\ pc[r] \in {"once", "decide"} => attempt[r] >= 1
  /\ action[r] = "terminate" /\ pc[r] = "failed" =>
       attempt[r] = maxAttempts \/ ctx[r] # "live" \/ last[r] = "client"
  /\ last[r] = "cancelled" => ctx[r] # "live"
  /\ pc[r] = "decide" /\ last[r] = "ok" => effects[r] > 0

IInv == TypeOK /\ \A r \in Requests : RequestOK(r)

\* A step of one request leaves the others as they are.
Others(r) ==
  \A x \in Requests \ {r} :
    /\ pc'[x] = pc[x] /\ action'[x] = action[x] /\ attempt'[x] = attempt[x]
    /\ last'[x] = last[x] /\ ctx'[x] = ctx[x]
    /\ flying'[x] = flying[x] /\ effects'[x] = effects[x]

\* The invariant holds before any request is made.
LEMMA InitIInv == Init => IInv
BY AttemptsAssumption DEF Init, IInv, TypeOK, RequestOK, Unsent, Outcomes, Errors

\* A step that keeps the types and treats its own request well keeps the
\* invariant.
LEMMA OneRequest ==
  ASSUME IInv, TypeOK', NEW r \in Requests, Others(r), RequestOK(r)'
  PROVE  IInv'
<1> SUFFICES ASSUME NEW x \in Requests, x # r PROVE RequestOK(x)'
  BY DEF IInv
<1> QED BY DEF IInv, Others, RequestOK, Unsent

\* Begin keeps the invariant.
LEMMA BeginIInv ==
  ASSUME IInv, NEW r \in Requests, Begin(r)
  PROVE  IInv'
<1>1. TypeOK'
  BY AttemptsAssumption DEF IInv, TypeOK, Begin, Enter, Outcomes, Errors
<1>2. Others(r)
  BY DEF IInv, TypeOK, Begin, Enter, Others
<1>3. RequestOK(r)'
  BY AttemptsAssumption DEF IInv, TypeOK, RequestOK, Unsent, Begin, Enter
<1> QED BY <1>1, <1>2, <1>3, OneRequest

\* An attempt keeps the invariant: what ends with 429, 503 or no connection
\* has had no effect.
LEMMA CallOnceIInv ==
  ASSUME IInv, NEW r \in Requests, CallOnce(r)
  PROVE  IInv'
<1>o. PICK o \in Possible(r) : \E fate \in Fate(o) :
        /\ last' = [last EXCEPT ![r] = o]
        /\ effects' = [effects EXCEPT ![r] = IF fate = "now" THEN @ + 1 ELSE @]
        /\ flying' = [flying EXCEPT ![r] = IF fate = "later" THEN @ + 1 ELSE @]
  BY DEF CallOnce
<1>0. PICK fate \in Fate(o) :
        /\ last' = [last EXCEPT ![r] = o]
        /\ effects' = [effects EXCEPT ![r] = IF fate = "now" THEN @ + 1 ELSE @]
        /\ flying' = [flying EXCEPT ![r] = IF fate = "later" THEN @ + 1 ELSE @]
  BY <1>o
<1>1. /\ o \in Outcomes
      /\ o = "cancelled" => ctx[r] # "live"
  BY DEF Possible, Outcomes, Errors
<1>2. o \in {"busy", "dial"} => fate \notin {"now", "later"}
  BY DEF Fate
<1>3. TypeOK'
  BY <1>0, <1>1 DEF IInv, TypeOK, CallOnce
<1>4. Others(r)
  BY <1>0 DEF IInv, TypeOK, CallOnce, Others
<1>5. RequestOK(r)'
  <2>1. /\ pc[r] = "once" /\ pc'[r] = "decide" /\ last'[r] = o
        /\ UNCHANGED <<action, attempt, ctx>>
    BY <1>0 DEF IInv, TypeOK, CallOnce
  <2>2. /\ effects'[r] = IF fate = "now" THEN effects[r] + 1 ELSE effects[r]
        /\ flying'[r] = IF fate = "later" THEN flying[r] + 1 ELSE flying[r]
        /\ effects[r] \in Nat /\ flying[r] \in Nat
    BY <1>0 DEF IInv, TypeOK
  <2>3. RequestOK(r)
    BY DEF IInv
  <2>4. action[r] # "terminate" => effects[r] = 0 /\ flying[r] = 0
    BY <2>1, <2>3 DEF RequestOK, Unsent
  <2>5. action[r] # "terminate" =>
          /\ effects'[r] + flying'[r] <= 1
          /\ o \in {"busy", "dial"} => effects'[r] = 0 /\ flying'[r] = 0
    BY <1>2, <2>2, <2>4
  <2>6. o = "cancelled" => ctx[r] # "live"
    BY <1>1
  <2>7. pc'[r] \in {"once", "decide"} => attempt'[r] >= 1
    BY <2>1, <2>3 DEF RequestOK
  <2>8. o = "ok" => effects'[r] > 0
    <3>1. o = "ok" => fate = "now" BY DEF Fate
    <3> QED BY <2>2, <3>1
  <2> QED BY <2>1, <2>5, <2>6, <2>7, <2>8 DEF RequestOK, Unsent
<1> QED BY <1>3, <1>4, <1>5, OneRequest

\* Decide keeps the invariant: only an attempt without effect is retried,
\* unless the action is terminate.
LEMMA DecideIInv ==
  ASSUME IInv, NEW r \in Requests, Decide(r)
  PROVE  IInv'
<1>1. TypeOK'
  BY DEF IInv, TypeOK, Decide
<1>2. Others(r)
  BY DEF IInv, TypeOK, Decide, Others
<1>3. /\ action[r] # "terminate" /\ Retryable(PolicyOf(action[r]), last[r]) =>
           last[r] \in {"busy", "dial"}
      /\ action[r] = "terminate" /\ ~Retryable(PolicyOf(action[r]), last[r]) =>
           last[r] \in {"ok", "client", "cancelled"}
  <2>1. action[r] \in Actions
    BY DEF IInv, TypeOK
  <2> QED BY <2>1 DEF Actions, PolicyOf, Retryable
<1>4. RequestOK(r)'
  <2>1. /\ pc[r] = "decide"
        /\ UNCHANGED <<action, attempt, last, ctx, flying, effects>>
        /\ attempt[r] \in 0 .. maxAttempts /\ RequestOK(r)
    BY DEF IInv, TypeOK, Decide
  <2>2. \/ last[r] = "ok" /\ pc'[r] = "ok"
        \/ /\ attempt[r] # maxAttempts
           /\ Retryable(PolicyOf(action[r]), last[r]) /\ pc'[r] = "backoff"
        \/ /\ \/ attempt[r] = maxAttempts
              \/ ~Retryable(PolicyOf(action[r]), last[r])
           /\ last[r] # "ok" /\ pc'[r] = "failed"
    BY DEF IInv, TypeOK, Decide
  <2> QED BY <1>3, <2>1, <2>2, AttemptsAssumption DEF RequestOK, Unsent
<1> QED BY <1>1, <1>2, <1>4, OneRequest

\* The pause before a retry keeps the invariant.
LEMMA BackoffIInv ==
  ASSUME IInv, NEW r \in Requests, Backoff(r)
  PROVE  IInv'
<1>0. attempt[r] \in 0 .. maxAttempts /\ attempt[r] < maxAttempts
  BY DEF IInv, TypeOK, RequestOK, Backoff
<1>1. TypeOK'
  <2>1. attempt' \in [Requests -> 0 .. maxAttempts]
    <3>1. attempt[r] + 1 \in 0 .. maxAttempts
      BY <1>0, AttemptsAssumption
    <3> QED BY <3>1 DEF IInv, TypeOK, Backoff
  <2>2. last' \in [Requests -> Outcomes]
    BY DEF IInv, TypeOK, Backoff, Enter, Outcomes, Errors
  <2> QED BY <2>1, <2>2 DEF IInv, TypeOK, Backoff, Enter
<1>2. Others(r)
  BY DEF IInv, TypeOK, Backoff, Enter, Others
<1>3. RequestOK(r)'
  BY AttemptsAssumption DEF IInv, TypeOK, RequestOK, Unsent, Backoff, Enter
<1> QED BY <1>1, <1>2, <1>3, OneRequest

\* The end of a context and a delayed effect keep the invariant.
LEMMA OutsideIInv ==
  ASSUME IInv, NEW r \in Requests, ContextEnds(r) \/ LateEffect(r)
  PROVE  IInv'
<1>1. TypeOK'
  BY DEF IInv, TypeOK, ContextEnds, LateEffect
<1>2. Others(r)
  BY DEF IInv, TypeOK, ContextEnds, LateEffect, Others
<1>3. RequestOK(r)'
  BY DEF IInv, TypeOK, RequestOK, Unsent, ContextEnds, LateEffect
<1> QED BY <1>1, <1>2, <1>3, OneRequest

\* Every step keeps the invariant.
LEMMA NextIInv == IInv /\ [Next]_vars => IInv'
<1> SUFFICES ASSUME IInv, [Next]_vars PROVE IInv'
  OBVIOUS
<1>1. CASE UNCHANGED vars
  BY <1>1 DEF vars, IInv, TypeOK, RequestOK, Unsent
<1>2. CASE Next
  BY <1>1, <1>2, BeginIInv, CallOnceIInv, DecideIInv, BackoffIInv, OutsideIInv
     DEF Next, ClientStep
<1> QED BY <1>1, <1>2

\* The invariant holds in every reachable state.
THEOREM InductiveInvariant == Spec => []IInv
BY InitIInv, NextIInv, PTL DEF Spec

\* No mix of lost, delayed, refused and repeated attempts makes a pre_accept,
\* an accept or a connect take effect twice.
THEOREM AtMostOnce == Spec => []EffectAtMostOnce
<1>1. IInv => EffectAtMostOnce
  BY DEF IInv, RequestOK, EffectAtMostOnce
<1> QED BY <1>1, InductiveInvariant, PTL

\* call makes at most maxAttempts attempts, and its variables keep their types.
THEOREM TypeCorrect == Spec => []TypeOK
<1>1. IInv => TypeOK
  BY DEF IInv
<1> QED BY <1>1, InductiveInvariant, PTL

\* A terminate is given up only for the three reasons.
THEOREM TerminateKeepsTrying == Spec => []TerminatePersists
<1>1. IInv => TerminatePersists
  BY DEF IInv, RequestOK, TerminatePersists
<1> QED BY <1>1, InductiveInvariant, PTL

-----------------------------------------------------------------------------
(* The refinement of MetaRequest *)

\* The mapping of pc to the state of a request.
StateOf == [r \in Requests |->
              IF pc[r] \in {"once", "decide", "backoff"} THEN "open" ELSE pc[r]]

\* A step that changes one request moves that request alone in the mapping.
LEMMA StateStep ==
  ASSUME TypeOK, NEW r \in Requests, NEW v,
         pc' = [pc EXCEPT ![r] = v]
  PROVE  StateOf' = [StateOf EXCEPT ![r] =
                       IF v \in {"once", "decide", "backoff"} THEN "open" ELSE v]
BY DEF StateOf, TypeOK

\* The first state of the client is one of MetaRequest's.
LEMMA PromiseInit == Init => Promise!Init
BY DEF Init, Promise!Init, Actions, Promise!Actions

\* Begin asks, callOnce takes effect or not, Decide and Backoff answer.
LEMMA PromiseStep == IInv /\ [Next]_vars => [Promise!Next]_(Promise!vars)
<1> SUFFICES ASSUME IInv, [Next]_vars PROVE [Promise!Next]_(Promise!vars)
  OBVIOUS
<1> USE DEF Promise!vars
<1>1. ASSUME NEW r \in Requests, Begin(r) PROVE Promise!Ask(r)
  <2>1. StateOf[r] = "idle" /\ StateOf' = [StateOf EXCEPT ![r] = "open"]
    BY <1>1, StateStep DEF Begin, Enter, IInv, StateOf
  <2> QED BY <1>1, <2>1 DEF Promise!Ask, StateOf, Begin
<1>2. ASSUME NEW r \in Requests, CallOnce(r)
      PROVE  Promise!TakeEffect(r) \/ UNCHANGED <<StateOf, action, effects>>
  <2>0. /\ pc[r] = "once" /\ pc' = [pc EXCEPT ![r] = "decide"] /\ action' = action
        /\ \/ effects' = [effects EXCEPT ![r] = @ + 1]
           \/ effects' = effects
    <3>1. PICK fate :
            effects' = [effects EXCEPT ![r] = IF fate = "now" THEN @ + 1 ELSE @]
      BY <1>2 DEF CallOnce
    <3>2. CASE fate = "now" BY <1>2, <3>1, <3>2 DEF CallOnce
    <3>3. CASE fate # "now"
      BY <1>2, <3>1, <3>3 DEF CallOnce, IInv, TypeOK
    <3> QED BY <3>2, <3>3
  <2>1. StateOf[r] = "open" /\ StateOf' = StateOf
    <3>1. StateOf' = [StateOf EXCEPT ![r] = "open"]
      BY <2>0, StateStep DEF IInv
    <3> QED BY <2>0, <3>1 DEF StateOf
  <2>2. effects[r] = 0 \/ action[r] = "terminate"
    BY <2>0 DEF IInv, RequestOK, Unsent
  <2> QED
    BY <2>0, <2>1, <2>2 DEF Promise!TakeEffect, Promise!Repeatable, StateOf
<1>3. ASSUME NEW r \in Requests, Decide(r)
      PROVE  \/ Promise!Succeed(r) \/ Promise!Fail(r)
             \/ UNCHANGED <<StateOf, action, effects>>
  <2> DEFINE v == CASE last[r] = "ok" -> "ok"
                    [] /\ attempt[r] # maxAttempts
                       /\ Retryable(PolicyOf(action[r]), last[r]) -> "backoff"
                    [] OTHER -> "failed"
  <2>0. /\ pc' = [pc EXCEPT ![r] = v]
        /\ v \in {"ok", "backoff", "failed"}
        /\ v = "ok" => last[r] = "ok"
    <3>1. pc' = [pc EXCEPT ![r] = v] BY <1>3 DEF Decide
    <3>2. v \in {"ok", "backoff", "failed"} /\ (v = "ok" => last[r] = "ok") OBVIOUS
    <3> QED BY <3>1, <3>2
  <2> HIDE DEF v
  <2>1. StateOf[r] = "open"
    BY <1>3 DEF Decide, StateOf
  <2>2. StateOf' = [StateOf EXCEPT ![r] = IF v = "backoff" THEN "open" ELSE v]
    BY <2>0, StateStep DEF IInv
  <2>3. UNCHANGED <<action, effects>> BY <1>3 DEF Decide
  <2>4. CASE v = "ok"
    <3>1. effects[r] > 0 BY <1>3, <2>0, <2>4 DEF Decide, IInv, RequestOK
    <3> QED BY <2>1, <2>2, <2>3, <2>4, <3>1 DEF Promise!Succeed, StateOf
  <2>5. CASE v = "failed"
    BY <2>1, <2>2, <2>3, <2>5 DEF Promise!Fail, StateOf
  <2>6. CASE v = "backoff"
    <3>1. StateOf' = StateOf BY <2>1, <2>2, <2>6 DEF StateOf
    <3> QED BY <2>3, <3>1
  <2> QED BY <2>0, <2>4, <2>5, <2>6
<1>4. ASSUME NEW r \in Requests, Backoff(r)
      PROVE  Promise!Fail(r) \/ UNCHANGED <<StateOf, action, effects>>
  <2>0. PICK v \in {"once", "decide", "failed"} : pc' = [pc EXCEPT ![r] = v]
    BY <1>4 DEF Backoff, Enter
  <2>1. StateOf[r] = "open"
    BY <1>4 DEF Backoff, StateOf
  <2>2. StateOf' = [StateOf EXCEPT ![r] = IF v = "failed" THEN v ELSE "open"]
    BY <2>0, StateStep DEF IInv
  <2>3. UNCHANGED <<action, effects>> BY <1>4 DEF Backoff
  <2>4. CASE v = "failed"
    BY <2>1, <2>2, <2>3, <2>4 DEF Promise!Fail, StateOf
  <2>5. CASE v # "failed"
    <3>1. StateOf' = StateOf BY <2>1, <2>2, <2>5 DEF StateOf
    <3> QED BY <2>3, <3>1
  <2> QED BY <2>4, <2>5
<1>5. ASSUME NEW r \in Requests, LateEffect(r) PROVE Promise!TakeEffect(r)
  <2>1. pc' = pc /\ action' = action /\ effects' = [effects EXCEPT ![r] = @ + 1]
    BY <1>5 DEF LateEffect
  <2>2. StateOf' = StateOf BY <2>1 DEF StateOf
  <2>3. StateOf[r] # "idle"
    <3>1. pc[r] # "idle" BY <1>5 DEF LateEffect, IInv, RequestOK
    <3> QED BY <3>1 DEF StateOf
  <2>4. effects[r] = 0 \/ action[r] = "terminate"
    <3>1. flying[r] \in Nat /\ effects[r] \in Nat /\ flying[r] > 0
      BY <1>5 DEF LateEffect, IInv, TypeOK
    <3>2. action[r] # "terminate" => effects[r] + flying[r] <= 1
      BY DEF IInv, RequestOK
    <3> QED BY <3>1, <3>2
  <2> QED
    BY <2>1, <2>2, <2>3, <2>4 DEF Promise!TakeEffect, Promise!Repeatable, StateOf
<1>6. ASSUME NEW r \in Requests, ContextEnds(r)
      PROVE  UNCHANGED <<StateOf, action, effects>>
  BY <1>6 DEF ContextEnds, StateOf
<1>7. CASE UNCHANGED vars
  BY <1>7 DEF vars
<1>8. CASE \E r \in Requests : ClientStep(r) \/ ContextEnds(r) \/ LateEffect(r)
  BY <1>1, <1>2, <1>3, <1>4, <1>5, <1>6, <1>8 DEF ClientStep, Promise!Next, StateOf
<1> QED
  BY <1>7, <1>8 DEF Next

\* The client keeps MetaRequest's promise but for its fairness: to the call
\* manager a request, with all its attempts, is one that takes effect at most
\* once unless it is a terminate, and that succeeds only after it did.
THEOREM KeepsPromiseSafely == Spec => Promise!Safety
BY InductiveInvariant, PromiseInit, PromiseStep, PTL DEF Spec, Promise!Safety
=============================================================================
