------------------------------- MODULE Ports -------------------------------
(***************************************************************************)
(* The allocator of UDP media ports (internal/media/ports.go).  Listen draws  *)
(* a start from an atomic cursor and then tries the ports one by one, while   *)
(* other Listens, Closes and other processes of the host go on: the cursor    *)
(* spreads the callers, and nothing is reserved.                              *)
(*                                                                         *)
(* Port Min + p is p here.  Binding is taken to fail only for a port in use.  *)
(***************************************************************************)
EXTENDS Naturals, FiniteSets

CONSTANTS
  Callers,     \* those who may call Listen
  PortCount,   \* n = Max - Min + 1
  CursorRange, \* the range of the cursor, 2^32 in the code
  Served,      \* Listens before the first one modelled
  Nobody,      \* a free port has this owner
  Elsewhere    \* and this one, if another process has bound it

ASSUME PortsAssumption ==
  /\ PortCount \in Nat \ {0} /\ CursorRange \in Nat \ {0} /\ Served \in Nat
  /\ Nobody \notin Callers /\ Elsewhere \notin Callers /\ Nobody # Elsewhere

VARIABLES
  next,   \* PortAllocator.next
  owner,  \* who has bound each port
  scan    \* the Listen of each caller

portVars == <<next, owner, scan>>

Ports == 0 .. PortCount - 1

(***************************************************************************)
(* A Listen: where it is, its start, the number of ports it has tried, and    *)
(* the ports that have been free ever since it drew its start.                *)
(***************************************************************************)
ScanType ==
  [at : {"idle", "scan", "bound", "failed"}, start : Ports, i : 0 .. PortCount,
   free : SUBSET Ports]

\* Every variable holds what its declaration says.
PortTypeOK ==
  /\ next \in 0 .. CursorRange - 1
  /\ owner \in [Ports -> Callers \cup {Nobody, Elsewhere}]
  /\ scan \in [Callers -> ScanType]

NoScan == [at |-> "idle", start |-> 0, i |-> 0, free |-> {}]

PortInit ==
  /\ next = Served % CursorRange
  /\ owner \in [Ports -> {Nobody, Elsewhere}]
  /\ scan = [c \in Callers |-> NoScan]

FreeIn(o) == {p \in Ports : o[p] = Nobody}

\* The ports become o and the Listens s; for a Listen under way a port that is
\* taken is no longer one that was free all the time.
Become(o, s) ==
  /\ owner' = o
  /\ scan' = [c \in Callers |->
                IF s[c].at = "scan"
                THEN [s[c] EXCEPT !.free = @ \cap FreeIn(o)] ELSE s[c]]

\* next.Add(1) - 1, which wraps, modulo n.
Draw(c) ==
  /\ scan[c].at = "idle"
  /\ next' = (next + 1) % CursorRange
  /\ scan' = [scan EXCEPT ![c] = [at |-> "scan", start |-> next % PortCount,
                                  i |-> 0, free |-> FreeIn(owner)]]
  /\ UNCHANGED owner

\* The port a Listen tries next: (start + i) % n, as start and i are below n.
Candidate(s) ==
  IF s.start + s.i < PortCount THEN s.start + s.i ELSE s.start + s.i - PortCount

\* Mutant of Tried: the last port is left out.
TriedShort(s) ==
  [s EXCEPT !.i = @ + 1, !.at = IF s.i + 2 >= PortCount THEN "failed" ELSE "scan"]

\* A port in use: on to the next, if there is one.
Tried(s) ==
  [s EXCEPT !.i = @ + 1, !.at = IF s.i + 1 = PortCount THEN "failed" ELSE "scan"]

\* One turn of the loop of Listen.
TryBind(c) ==
  LET p == Candidate(scan[c])
  IN /\ scan[c].at = "scan"
     /\ \/ /\ owner[p] = Nobody
           /\ Become([owner EXCEPT ![p] = c],
                     [scan EXCEPT ![c] = [NoScan EXCEPT !.at = "bound"]])
        \/ /\ owner[p] # Nobody
           /\ Become(owner, [scan EXCEPT ![c] = Tried(scan[c])])
     /\ UNCHANGED next

\* Callers close their sockets.
CloseSockets(cs) ==
  /\ Become([p \in Ports |-> IF owner[p] \in cs THEN Nobody ELSE owner[p]],
            [c \in Callers |-> IF c \in cs THEN NoScan ELSE scan[c]])
  /\ UNCHANGED next

\* Another process binds a port or gives it back.
HostStep(p) ==
  /\ \/ owner[p] = Nobody /\ Become([owner EXCEPT ![p] = Elsewhere], scan)
     \/ owner[p] = Elsewhere /\ Become([owner EXCEPT ![p] = Nobody], scan)
  /\ UNCHANGED next

-----------------------------------------------------------------------------
\* Listen reports that there is no free port only if none has been free all
\* the while: from any start, also one drawn as the cursor wraps, it has tried
\* each of them, whoever took and gave back ports meanwhile (ports.go:19).
ScanComplete == \A c \in Callers : scan[c].at = "failed" => scan[c].free = {}
=============================================================================
