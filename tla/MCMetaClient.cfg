CONSTANTS
  Requests = {r1}
  maxAttempts = 3
SPECIFICATION Spec
INVARIANTS EffectAtMostOnce TerminatePersists
PROPERTIES KeepsPromise
