-------------------------- MODULE CallPortsProofs --------------------------
(***************************************************************************)
(* CallPorts, for every number of ports, every range and start of the cursor,  *)
(* and any requests: it implements CallManager, whose invariant then says when *)
(* a call's socket is closed.                                                 *)
(***************************************************************************)
EXTENDS CallPorts, CallManagerSafety

\* The port that a Listen tries at turn j.
PortAt(start, j) ==
  IF start + j < PortCount THEN start + j ELSE start + j - PortCount

\* A Listen has tried its ports in turn, and each was in use at some time since
\* it drew its start.
ScanInv ==
  \A c \in Callers :
    /\ scan[c].at = "scan" => scan[c].i < PortCount /\ scan[c].free \subseteq FreeIn(owner)
    /\ scan[c].at = "failed" => scan[c].i = PortCount
    /\ scan[c].at \in {"scan", "failed"} =>
         \A j \in Nat : j < scan[c].i => PortAt(scan[c].start, j) \notin scan[c].free

\* A port belongs to a call with an open socket, or to a Listen that is about
\* to hand it over.
PortHeld(c) ==
  \/ call[c].udp = "open"
  \/ rpc[c] = "listen" /\ scan[c].at = "bound"

OwnerInv == \A p \in Ports : \A c \in Reqs : owner[p] = c => PortHeld(c)

PInv == PortTypeOK /\ ScanInv /\ OwnerInv

-----------------------------------------------------------------------------
(* The allocator *)

\* The turns of a Listen reach every port.
LEMMA EveryPortHasATurn ==
  ASSUME NEW start \in Ports, NEW p \in Ports
  PROVE  \E j \in Nat : j < PortCount /\ PortAt(start, j) = p
<1>1. CASE p >= start
  <2>1. p - start \in Nat
    BY <1>1, PortsAssumption DEF Ports
  <2> WITNESS p - start \in Nat
  <2> QED BY <1>1, <2>1, PortsAssumption DEF Ports, PortAt
<1>2. CASE p < start
  <2>1. p - start + PortCount \in Nat
    BY <1>2, PortsAssumption DEF Ports
  <2> WITNESS p - start + PortCount \in Nat
  <2> QED BY <1>2, <2>1, PortsAssumption DEF Ports, PortAt
<1> QED BY <1>1, <1>2, PortsAssumption DEF Ports

LEMMA ScanInvGivesComplete == PortTypeOK /\ ScanInv => ScanComplete
<1> SUFFICES ASSUME PortTypeOK, ScanInv, NEW c \in Callers, scan[c].at = "failed",
                    NEW p \in scan[c].free
             PROVE  FALSE
  BY DEF ScanComplete
<1>1. scan[c].start \in Ports /\ p \in Ports
  BY DEF PortTypeOK, ScanType
<1>2. PICK j \in Nat : j < PortCount /\ PortAt(scan[c].start, j) = p
  BY <1>1, EveryPortHasATurn
<1> QED BY <1>2 DEF ScanInv

\* Become with Listens that keep their types and what is known of them, and
\* ports of which none is freed under a Listen: ScanInv is kept.
LEMMA BecomeKeeps ==
  ASSUME NEW o \in [Ports -> Callers \cup {Nobody, Elsewhere}],
         NEW s \in [Callers -> ScanType],
         Become(o, s), next' \in 0 .. CursorRange - 1,
         \A c \in Callers :
           /\ s[c].at = "scan" => s[c].i < PortCount
           /\ s[c].at = "failed" => s[c].i = PortCount
           /\ s[c].at = "scan" => \A j \in Nat :
                j < s[c].i => PortAt(s[c].start, j) \notin s[c].free \cap FreeIn(o)
           /\ s[c].at = "failed" => \A j \in Nat :
                j < s[c].i => PortAt(s[c].start, j) \notin s[c].free
  PROVE  PortTypeOK' /\ ScanInv'
<1>1. /\ owner' = o
      /\ \A c \in Callers :
           /\ scan'[c].at = s[c].at /\ scan'[c].start = s[c].start /\ scan'[c].i = s[c].i
           /\ scan'[c].free = IF s[c].at = "scan" THEN s[c].free \cap FreeIn(o)
                              ELSE s[c].free
  BY DEF Become, ScanType
<1>2. scan' \in [Callers -> ScanType]
  BY DEF Become, ScanType
<1>3. PortTypeOK'
  BY <1>1, <1>2 DEF PortTypeOK
<1>4. FreeIn(owner') = FreeIn(o)
  BY <1>1
<1> SUFFICES ASSUME NEW c \in Callers
             PROVE  /\ scan'[c].at = "scan" =>
                         scan'[c].i < PortCount /\ scan'[c].free \subseteq FreeIn(owner')
                    /\ scan'[c].at = "failed" => scan'[c].i = PortCount
                    /\ scan'[c].at \in {"scan", "failed"} => \A j \in Nat :
                         j < scan'[c].i => PortAt(scan'[c].start, j) \notin scan'[c].free
  BY <1>3 DEF ScanInv, FreeIn, PortAt
<1> QED BY <1>1, <1>4

\* What ScanInv says of a Listen that goes on as it was.
LEMMA ScanKept ==
  ASSUME PortTypeOK, ScanInv, NEW c \in Callers
  PROVE  /\ scan[c] \in ScanType
         /\ scan[c].at = "scan" => scan[c].i < PortCount
         /\ scan[c].at = "failed" => scan[c].i = PortCount
         /\ scan[c].at \in {"scan", "failed"} => \A j \in Nat :
              j < scan[c].i => PortAt(scan[c].start, j) \notin scan[c].free
BY DEF PortTypeOK, ScanInv

LEMMA NoScanTyped ==
  NoScan \in ScanType /\ [NoScan EXCEPT !.at = "bound"] \in ScanType
BY PortsAssumption DEF NoScan, ScanType, Ports

\* Drawing a start.
LEMMA DrawScan ==
  ASSUME PortTypeOK, ScanInv, NEW c \in Callers, Draw(c)
  PROVE  PortTypeOK' /\ ScanInv' /\ UNCHANGED owner
<1>1. /\ next \in Nat /\ next % PortCount \in Ports
      /\ (next + 1) % CursorRange \in 0 .. CursorRange - 1
  BY PortsAssumption DEF PortTypeOK, Ports
<1>2. /\ UNCHANGED owner /\ next' \in 0 .. CursorRange - 1
      /\ \A x \in Callers \ {c} : scan'[x] = scan[x]
      /\ scan'[c] = [at |-> "scan", start |-> next % PortCount, i |-> 0,
                     free |-> FreeIn(owner)]
      /\ scan' \in [Callers -> ScanType]
  BY <1>1, PortsAssumption DEF Draw, PortTypeOK, ScanType, FreeIn, Ports
<1>3. PortTypeOK'
  BY <1>2 DEF PortTypeOK
<1> SUFFICES ASSUME NEW x \in Callers
             PROVE  /\ scan'[x].at = "scan" =>
                         scan'[x].i < PortCount /\ scan'[x].free \subseteq FreeIn(owner)
                    /\ scan'[x].at = "failed" => scan'[x].i = PortCount
                    /\ scan'[x].at \in {"scan", "failed"} => \A j \in Nat :
                         j < scan'[x].i => PortAt(scan'[x].start, j) \notin scan'[x].free
  BY <1>2, <1>3 DEF ScanInv, FreeIn, PortAt
<1>4. CASE x = c
  BY <1>2, <1>4, PortsAssumption
<1>5. CASE x # c
  BY <1>2, <1>5 DEF ScanInv
<1> QED BY <1>4, <1>5

\* One turn of the loop of Listen.
LEMMA TryScan ==
  ASSUME PortTypeOK, ScanInv, NEW c \in Callers, TryBind(c)
  PROVE  PortTypeOK' /\ ScanInv'
<1> DEFINE p == Candidate(scan[c])
<1>1. /\ scan[c] \in ScanType /\ scan[c].at = "scan" /\ scan[c].i < PortCount
      /\ scan[c].free \subseteq FreeIn(owner) /\ next' \in 0 .. CursorRange - 1
      /\ owner \in [Ports -> Callers \cup {Nobody, Elsewhere}]
      /\ scan \in [Callers -> ScanType]
  BY DEF TryBind, PortTypeOK, ScanInv
<1>2. p = PortAt(scan[c].start, scan[c].i) /\ p \in Ports
  BY <1>1, PortsAssumption DEF Candidate, PortAt, ScanType, Ports
<1> HIDE DEF p
<1>3. CASE owner[p] = Nobody /\ Become([owner EXCEPT ![p] = c],
                                     [scan EXCEPT ![c] = [NoScan EXCEPT !.at = "bound"]])
  <2> DEFINE o == [owner EXCEPT ![p] = c]
             s == [scan EXCEPT ![c] = [NoScan EXCEPT !.at = "bound"]]
  <2>1. o \in [Ports -> Callers \cup {Nobody, Elsewhere}] /\ s \in [Callers -> ScanType]
    BY <1>1, <1>2, NoScanTyped
  <2>2. s[c].at = "bound" /\ \A x \in Callers \ {c} : s[x] = scan[x]
    BY <1>1 DEF NoScan
  <2>3. Become(o, s)
    BY <1>3
  <2> HIDE DEF o, s
  <2> QED BY <1>1, <2>1, <2>2, <2>3, ScanKept, BecomeKeeps
<1>4. CASE owner[p] # Nobody /\ Become(owner, [scan EXCEPT ![c] = Tried(scan[c])])
  <2> DEFINE s == [scan EXCEPT ![c] = Tried(scan[c])]
  <2>1. /\ s \in [Callers -> ScanType] /\ \A x \in Callers \ {c} : s[x] = scan[x]
        /\ s[c].i = scan[c].i + 1 /\ s[c].start = scan[c].start
        /\ s[c].free = scan[c].free
        /\ s[c].at = IF scan[c].i + 1 = PortCount THEN "failed" ELSE "scan"
    <3> DEFINE t == Tried(scan[c])
    <3>1. /\ t.i = scan[c].i + 1 /\ t.start = scan[c].start /\ t.free = scan[c].free
          /\ t.at = IF scan[c].i + 1 = PortCount THEN "failed" ELSE "scan"
      BY <1>1 DEF Tried, ScanType
    <3>2. t \in ScanType
      <4>1. scan[c].i + 1 \in 0 .. PortCount
        BY <1>1, PortsAssumption DEF ScanType
      <4> QED BY <1>1, <4>1 DEF Tried, ScanType
    <3> HIDE DEF t
    <3>3. s = [scan EXCEPT ![c] = t]
      BY DEF t
    <3> HIDE DEF s
    <3> QED BY <1>1, <3>1, <3>2, <3>3
  <2>2. PortAt(scan[c].start, scan[c].i) \notin scan[c].free
    BY <1>1, <1>2, <1>4 DEF FreeIn
  <2>3. \A j \in Nat : j < s[c].i => PortAt(s[c].start, j) \notin s[c].free
    <3> SUFFICES ASSUME NEW j \in Nat, j < scan[c].i + 1
                 PROVE  PortAt(scan[c].start, j) \notin scan[c].free
      BY <2>1
    <3>1. j < scan[c].i \/ j = scan[c].i
      BY <1>1, PortsAssumption DEF ScanType
    <3> QED BY <1>1, <2>2, <3>1, ScanKept
  <2>4. s[c].i <= PortCount /\ (s[c].at = "scan" => s[c].i < PortCount)
        /\ (s[c].at = "failed" => s[c].i = PortCount)
    BY <1>1, <2>1, PortsAssumption DEF ScanType
  <2>5. Become(owner, s)
    BY <1>4
  <2> HIDE DEF s
  <2> QED BY <1>1, <2>1, <2>3, <2>4, <2>5, ScanKept, BecomeKeeps
<1> QED BY <1>3, <1>4 DEF TryBind, p

\* Sockets are closed, or another process binds or gives back.
LEMMA OthersScan ==
  ASSUME PortTypeOK, ScanInv,
         (\E cs \in SUBSET Callers : CloseSockets(cs)) \/ (\E p \in Ports : HostStep(p))
  PROVE  PortTypeOK' /\ ScanInv'
<1>1. /\ owner \in [Ports -> Callers \cup {Nobody, Elsewhere}]
      /\ scan \in [Callers -> ScanType] /\ next' \in 0 .. CursorRange - 1
  BY DEF CloseSockets, HostStep, PortTypeOK
<1>2. ASSUME NEW cs \in SUBSET Callers, CloseSockets(cs) PROVE PortTypeOK' /\ ScanInv'
  <2> DEFINE o == [p \in Ports |-> IF owner[p] \in cs THEN Nobody ELSE owner[p]]
             s == [c \in Callers |-> IF c \in cs THEN NoScan ELSE scan[c]]
  <2>1. o \in [Ports -> Callers \cup {Nobody, Elsewhere}] /\ s \in [Callers -> ScanType]
    BY <1>1, NoScanTyped
  <2>2. \A x \in Callers : s[x].at = "idle" \/ s[x] = scan[x]
    BY DEF NoScan
  <2>3. Become(o, s)
    BY <1>2 DEF CloseSockets
  <2> HIDE DEF o, s
  <2> QED BY <1>1, <2>1, <2>2, <2>3, ScanKept, BecomeKeeps
<1>3. ASSUME NEW p \in Ports, HostStep(p) PROVE PortTypeOK' /\ ScanInv'
  <2>1. PICK w \in {Nobody, Elsewhere} : Become([owner EXCEPT ![p] = w], scan)
    BY <1>3 DEF HostStep
  <2> DEFINE o == [owner EXCEPT ![p] = w]
  <2>2. o \in [Ports -> Callers \cup {Nobody, Elsewhere}]
    BY <1>1
  <2>3. Become(o, scan)
    BY <2>1
  <2> HIDE DEF o
  <2> QED BY <1>1, <2>2, <2>3, ScanKept, BecomeKeeps
<1> QED BY <1>2, <1>3

-----------------------------------------------------------------------------
(* The sockets of the calls *)

SocketStays == \A c \in Reqs : call[c].udp = "open" => call'[c].udp # "none"

ListenEnds ==
  \A c \in Reqs : rpc[c] = "listen" /\ rpc'[c] # "listen" =>
    rpc'[c] = "returned" \/ (rpc'[c] = "negotiate" /\ call'[c].udp = "open")

\* A step of c changes its object alone, and the object's socket as it may.
SocketOf(c) ==
  /\ \A x \in Reqs \ {c} : call'[x] = call[x]
  /\ call[c].udp = "open" => call'[c].udp # "none"

LEMMA SetSocket ==
  ASSUME NEW c \in Reqs, SocketOf(c)
  PROVE  SocketStays
BY DEF SocketOf, SocketStays

\* A step that sets c's object to one whose socket is open no longer only
\* because it was closed.
LEMMA SetSocketOf ==
  ASSUME TypeOK, NEW c \in Reqs, NEW q, Set(c, q), call[c].udp = "open" => q.udp # "none"
  PROVE  SocketOf(c)
BY DEF SocketOf, Set, TypeOK

\* Assignments to other fields leave the socket alone.
LEMMA FieldSocket ==
  ASSUME TypeOK, NEW c \in Reqs, NEW v, NEW w
  PROVE  /\ Set(c, [call[c] EXCEPT !.pc = v]) => SocketOf(c)
         /\ Set(c, [call[c] EXCEPT !.token = v]) => SocketOf(c)
         /\ Set(c, [call[c] EXCEPT !.meta = v, !.pc = w]) => SocketOf(c)
         /\ Set(c, [call[c] EXCEPT !.bridge = v, !.pc = w]) => SocketOf(c)
         /\ Set(c, [call[c] EXCEPT !.transport = v, !.pc = w]) => SocketOf(c)
         /\ Set(c, [call[c] EXCEPT !.udp = "closed", !.meta = w]) => SocketOf(c)
<1>1. call[c] \in CallType
  BY DEF TypeOK
<1>2. [call[c] EXCEPT !.pc = v].udp = call[c].udp
  BY <1>1 DEF CallType
<1>3. [call[c] EXCEPT !.token = v].udp = call[c].udp
  BY <1>1 DEF CallType
<1>4. [call[c] EXCEPT !.meta = v, !.pc = w].udp = call[c].udp
  BY <1>1 DEF CallType
<1>5. [call[c] EXCEPT !.bridge = v, !.pc = w].udp = call[c].udp
  BY <1>1 DEF CallType
<1>6. [call[c] EXCEPT !.transport = v, !.pc = w].udp = call[c].udp
  BY <1>1 DEF CallType
<1>7. [call[c] EXCEPT !.udp = "closed", !.meta = w].udp # "none"
  BY <1>1 DEF CallType
<1>8. ASSUME NEW q, q.udp = call[c].udp \/ q.udp # "none"
      PROVE  Set(c, q) => SocketOf(c)
  BY <1>8, SetSocketOf
<1> QED BY <1>2, <1>3, <1>4, <1>5, <1>6, <1>7, <1>8, Zenon

\* So do the operations on a Call object, but for CloseTransport.
LEMMA ObjectSocket ==
  ASSUME NEW r \in CallType, NEW v
  PROVE  /\ SignalReady(r, v).udp = r.udp /\ Cancel(r, v).udp = r.udp
         /\ StopBusiness(r).udp = r.udp /\ StopUser(r).udp = r.udp
         /\ Snapshot(r).udp = r.udp /\ CloseTransport(r).udp = "closed"
<1>1. SignalReady(r, v).udp = r.udp
  BY DEF SignalReady, CallType
<1>2. Cancel(r, v).udp = r.udp
  BY DEF Cancel, CallType
<1>3. StopBusiness(r).udp = r.udp
  BY DEF StopBusiness, CallType
<1>4. StopUser(r).udp = r.udp
  BY DEF StopUser, CallType
<1>5. Snapshot(r).udp = r.udp
  BY DEF Snapshot, CallType
<1>6. CloseTransport(r).udp = "closed"
  BY DEF CloseTransport, CallType
<1> QED BY <1>1, <1>2, <1>3, <1>4, <1>5, <1>6

LEMMA AcceptSocket ==
  ASSUME TypeOK, NEW a \in AcceptReqs,
         AcceptCheck(a) \/ AcceptStep(a) \/ AcceptCallerGone(a)
  PROVE  SocketStays /\ ListenEnds
<1> DEFINE r == call[a]
<1>1. a \in Reqs /\ r \in CallType
  BY DEF Reqs, TypeOK
<1>2. SocketOf(a)
  <2>1. CASE AcceptCheck(a) \/ AcceptReady(a) \/ AcceptCallerGone(a)
    BY <1>1, <2>1 DEF SocketOf, AcceptCheck, AcceptReady, AcceptCallerGone
  <2>2. CASE AcceptListen(a) \/ AcceptNegotiate(a) \/ AcceptRegister(a)
    BY <1>1, <2>2 DEF SocketOf, Set, TypeOK, AcceptListen, AcceptNegotiate,
      AcceptRegister, Register, CallType
  <2>3. CASE AcceptDiscard(a) \/ AcceptStop(a) \/ AcceptCancel(a)
    <3>1. CloseTransport(r) \in CallType
      BY <1>1, StepTypes
    <3>2. /\ Cancel(CloseTransport(r), "self").udp = "closed"
          /\ StopBusiness(r).udp = r.udp /\ Cancel(r, "self").udp = r.udp
      BY <1>1, <3>1, ObjectSocket
    <3> QED BY <1>1, <2>3, <3>2, SetSocketOf DEF AcceptDiscard, AcceptStop, AcceptCancel
  <2> QED BY <2>1, <2>2, <2>3 DEF AcceptStep
<1>3. \A x \in Reqs \ {a} : rpc'[x] = rpc[x]
  BY <1>1 DEF AcceptCheck, AcceptStep, AcceptCallerGone, AcceptListen, AcceptNegotiate,
    AcceptRegister, AcceptDiscard, AcceptReady, AcceptStop, AcceptCancel, WaitOrReturn,
    Return, WaitFailed, TypeOK
<1>4. rpc[a] = "listen" => AcceptListen(a)
  BY DEF AcceptCheck, AcceptStep, AcceptCallerGone, AcceptNegotiate, AcceptRegister,
    AcceptDiscard, AcceptReady, AcceptStop, AcceptCancel
<1>5. AcceptListen(a) =>
        rpc'[a] = "returned" \/ (rpc'[a] = "negotiate" /\ call'[a].udp = "open")
  BY <1>1 DEF AcceptListen, Return, Set, TypeOK, CallType
<1> QED BY <1>1, <1>2, <1>3, <1>4, <1>5, SetSocket DEF ListenEnds

LEMMA DialSocket ==
  ASSUME TypeOK, NEW d \in DialReqs, DialCheck(d) \/ DialStep(d)
  PROVE  SocketStays /\ ListenEnds
<1> DEFINE r == call[d]
<1>1. d \in Reqs /\ r \in CallType
  BY DEF Reqs, TypeOK
<1>2. SocketOf(d)
  <2>1. CASE DialRegister(d)
    <3>1. CASE Register(d)
      BY <1>1, <3>1, FieldSocket, Zenon DEF Register
    <3>2. ASSUME NEW m, Set(d, [SignalReady(Cancel(StopBusiness(r), "self"), "err")
                                  EXCEPT !.termToken = "orig", !.meta = m,
                                         !.udp = "closed"])
          PROVE  SocketOf(d)
      <4> DEFINE q == SignalReady(Cancel(StopBusiness(r), "self"), "err")
      <4>1. q \in CallType
        BY <1>1, StepTypes
      <4> HIDE DEF q
      <4>2. [q EXCEPT !.termToken = "orig", !.meta = m, !.udp = "closed"].udp = "closed"
        BY <4>1 DEF CallType
      <4> QED BY <1>1, <3>2, <4>2, SetSocketOf DEF q
    <3> QED BY <2>1, <3>1, <3>2 DEF DialRegister
  <2>2. CASE DialMeta(d)
    <3>1. [r EXCEPT !.signaled = TRUE, !.meta = "open"].udp = r.udp
      BY <1>1 DEF CallType
    <3>2. ASSUME NEW m, Set(d, [r EXCEPT !.udp = "closed", !.meta = m]) PROVE SocketOf(d)
      BY <1>1, <3>2, FieldSocket, Zenon
    <3>3. CASE Set(d, [r EXCEPT !.signaled = TRUE, !.meta = "open"])
      BY <1>1, <3>1, <3>3, SetSocketOf
    <3> QED BY <2>2, <3>2, <3>3 DEF DialMeta
  <2>3. CASE DialCheck(d) \/ DialListen(d) \/ DialNegotiate(d)
    BY <1>1, <2>3 DEF SocketOf, Set, TypeOK, DialCheck, DialListen, DialNegotiate, CallType
  <2> QED BY <2>1, <2>2, <2>3 DEF DialStep
<1>3. \A x \in Reqs \ {d} : rpc'[x] = rpc[x]
  BY <1>1 DEF DialCheck, DialStep, DialListen, DialNegotiate, DialMeta, DialRegister, TypeOK
<1>4. rpc[d] = "listen" => DialListen(d)
  BY DEF DialCheck, DialStep, DialNegotiate, DialMeta, DialRegister
<1>5. DialListen(d) =>
        rpc'[d] = "returned" \/ (rpc'[d] = "negotiate" /\ call'[d].udp = "open")
  BY <1>1 DEF DialListen, Set, TypeOK, CallType
<1> QED BY <1>1, <1>2, <1>3, <1>4, <1>5, SetSocket DEF ListenEnds

\* The goroutine of a call.
LEMMA RunSocket ==
  ASSUME TypeOK, NEW c \in Reqs, RunStep(c) \/ MediaStops(c)
  PROVE  SocketStays /\ UNCHANGED rpc
<1> DEFINE r == call[c]
<1>1. r \in CallType
  BY DEF TypeOK
<1>2. CASE RunLocal(c)
  <2>1. SocketOf(c)
    <3>1. CASE \/ ConnectBridge(c) \/ AwaitAnswer(c) \/ WaitMedia(c) \/ MetaAccept(c)
               \/ EndCancelled(c) \/ EndLiveKitClosed(c) \/ EndMaxDuration(c)
               \/ Terminate(c)
      BY <3>1, FieldSocket, Zenon DEF ConnectBridge, AwaitAnswer, WaitMedia, MetaAccept,
        EndCancelled, EndLiveKitClosed, EndMaxDuration, Goto, Terminate
    <3>2. CASE \/ Connected(c) \/ Fail(c) \/ StopSelf(c) \/ CancelSelf(c) \/ Cleanup(c)
      <4>1. PICK v \in RunLocs :
              \/ Set(c, SignalReady([r EXCEPT !.pc = v], "nil"))
              \/ Set(c, SignalReady([r EXCEPT !.pc = v], "err"))
              \/ Set(c, StopBusiness([r EXCEPT !.pc = v]))
              \/ Set(c, Cancel([r EXCEPT !.pc = v], "self"))
        BY <3>2, Zenon DEF Connected, Fail, StopSelf, CancelSelf, Cleanup, RunLocs
      <4> DEFINE q == [r EXCEPT !.pc = v]
      <4>2. q \in CallType /\ q.udp = r.udp
        BY <1>1 DEF CallType
      <4> HIDE DEF q
      <4>3. /\ SignalReady(q, "nil").udp = r.udp /\ SignalReady(q, "err").udp = r.udp
            /\ StopBusiness(q).udp = r.udp /\ Cancel(q, "self").udp = r.udp
        BY <4>2, ObjectSocket
      <4> QED BY <4>1, <4>3, SetSocketOf DEF q
    <3>3. CASE PreAccept(c)
      <4>1. [r EXCEPT !.signaled = TRUE, !.meta = MetaTaken(r.meta),
                      !.transport = "started", !.pc = "media"].udp = r.udp
        BY <1>1 DEF CallType
      <4>2. Set(c, [r EXCEPT !.signaled = TRUE, !.meta = MetaTaken(r.meta),
                             !.transport = "started", !.pc = "media"]) => SocketOf(c)
        BY <4>1, SetSocketOf
      <4> QED BY <3>3, <4>2, FieldSocket, Zenon DEF PreAccept
    <3>4. CASE TakeSnapshot(c)
      BY <1>1, <3>4, SetSocketOf, ObjectSocket DEF TakeSnapshot
    <3>5. CASE Release(c)
      <4> DEFINE q == [r EXCEPT !.pc = "delete",
                         !.bridge = IF @ = "none" THEN @ ELSE "closed"]
      <4>1. q \in CallType
        <5>1. r.bridge \in {"none", "up", "dropped", "closed"}
          BY <1>1 DEF CallType
        <5> QED BY <1>1, <5>1, FieldTypes DEF RunLocs
      <4>3. Set(c, CloseTransport(q)) \/ Set(c, [q EXCEPT !.udp = "closed"])
        BY <3>5 DEF Release
      <4> HIDE DEF q
      <4>2. CloseTransport(q).udp = "closed" /\ [q EXCEPT !.udp = "closed"].udp = "closed"
        BY <4>1 DEF CloseTransport, CallType
      <4> QED BY <4>2, <4>3, SetSocketOf
    <3> QED BY <1>2, <3>1, <3>2, <3>3, <3>4, <3>5 DEF RunLocal
  <2> QED BY <2>1, SetSocket DEF RunStep, MediaStops
<1>3. CASE Delete(c) \/ WgDone(c) \/ EndMediaStopped(c)
  <2>1. SocketOf(c)
    BY <1>1, <1>3 DEF SocketOf, Set, TypeOK, Delete, WgDone, EndMediaStopped, Goto, CallType
  <2> QED BY <2>1, SetSocket DEF RunStep, MediaStops
<1> QED BY <1>2, <1>3 DEF RunStep, MediaStops

\* Connect, Disconnect, the callbacks, the stops and main.
LEMMA BesideSocket ==
  ASSUME TypeOK,
         \/ \E c \in DialReqs : \/ ConnectLookup(c) \/ ConnectApply(c)
                                \/ ConnectReady(c) \/ ConnectCallerGone(c)
         \/ \E c \in Reqs, kind \in {"user", "business"}, t \in BOOLEAN :
              DisconnectLookup(c, kind, t)
         \/ \E c \in Reqs : RoomDisconnected(c)
         \/ \E s \in stops : Stop(s)
         \/ Signal \/ MainStep
  PROVE  SocketStays /\ UNCHANGED rpc
<1>1. UNCHANGED rpc
  BY DEF ConnectLookup, ConnectApply, ConnectReady, ConnectCallerGone, DisconnectLookup,
    RoomDisconnected, Stop, Signal, MainStep, WindowExpires, BeginDrain, EndSweep, Exit
<1>2. CASE UNCHANGED call
  BY <1>1, <1>2 DEF SocketStays
<1>3. ASSUME NEW c \in DialReqs, ConnectApply(c) PROVE SocketStays
  <2>1. c \in Reqs /\ call[c] \in CallType
    BY DEF Reqs, TypeOK
  <2>2. UNCHANGED call \/ Set(c, ApplyAnswer(call[c]))
    BY <1>3 DEF ConnectApply
  <2>3. ApplyAnswer(call[c]).udp = call[c].udp
    BY <2>1 DEF ApplyAnswer, CallType
  <2>4. SocketOf(c)
    BY <2>1, <2>2, <2>3 DEF SocketOf, Set, TypeOK
  <2> QED BY <2>1, <2>4, SetSocket
<1>4. ASSUME NEW c \in Reqs, NEW kind, NEW t, DisconnectLookup(c, kind, t)
      PROVE  SocketStays
  <2>1. SocketOf(c)
    BY <1>4 DEF SocketOf, Set, TypeOK, DisconnectLookup, CallType
  <2> QED BY <2>1, SetSocket
<1>5. ASSUME NEW c \in Reqs, RoomDisconnected(c) PROVE SocketStays
  <2>1. SocketOf(c)
    BY <1>5 DEF SocketOf, Set, TypeOK, RoomDisconnected, CallType
  <2> QED BY <2>1, SetSocket
<1>6. ASSUME NEW s \in stops, Stop(s) PROVE SocketStays
  <2>1. s.call \in Reqs /\ call[s.call] \in CallType
    BY DEF TypeOK, StopType
  <2>2. SocketOf(s.call)
    <3> DEFINE r == call[s.call]
    <3>1. \/ Set(s.call, [r EXCEPT !.token = "fresh"])
          \/ Set(s.call, StopUser(r)) \/ Set(s.call, StopBusiness(r))
          \/ Set(s.call, Cancel(r, s.kind))
      BY <1>6 DEF Stop, StopStep
    <3>2. /\ StopUser(r).udp = r.udp /\ StopBusiness(r).udp = r.udp
          /\ Cancel(r, s.kind).udp = r.udp
      BY <2>1, ObjectSocket
    <3>3. Set(s.call, [r EXCEPT !.token = "fresh"]) => SocketOf(s.call)
      BY <2>1, FieldSocket, Zenon
    <3> HIDE DEF r
    <3> QED BY <2>1, <3>1, <3>2, <3>3, SetSocketOf DEF r
  <2> QED BY <2>1, <2>2, SetSocket
<1>7. CASE Signal \/ MainStep
  <2>1. UNCHANGED call
    BY <1>7 DEF Signal, MainStep, WindowExpires, BeginDrain, EndSweep, Exit
  <2> QED BY <1>2, <2>1
<1>8. ASSUME NEW c \in DialReqs, ConnectLookup(c) \/ ConnectReady(c) \/ ConnectCallerGone(c)
      PROVE  SocketStays
  <2>1. UNCHANGED call
    BY <1>8 DEF ConnectLookup, ConnectReady, ConnectCallerGone
  <2> QED BY <1>2, <2>1
<1> QED BY <1>1, <1>3, <1>4, <1>5, <1>6, <1>7, <1>8

\* A socket is opened once, by the Listen that returned, and then closed.
LEMMA NextSocket ==
  ASSUME TypeOK, [Next]_vars
  PROVE  SocketStays /\ ListenEnds
<1>1. CASE UNCHANGED vars
  BY <1>1 DEF vars, SocketStays, ListenEnds
<1>2. UNCHANGED rpc => ListenEnds
  BY DEF ListenEnds
<1>3. CASE Next
  BY <1>1, <1>2, <1>3, AcceptSocket, DialSocket, RunSocket, BesideSocket DEF Next
<1> QED BY <1>1, <1>3

-----------------------------------------------------------------------------
(* The two together *)

\* A step of CallPorts is a step of CallManager, or none.
LEMMA ManagerGoesOn == [CPNext]_cpVars => [Next]_vars
BY DEF CPNext, cpVars, Listen, ManagerStep, vars

LEMMA InitPInv == CPInit => PInv
<1> SUFFICES ASSUME CPInit PROVE PInv
  OBVIOUS
<1>1. Served % CursorRange \in 0 .. CursorRange - 1
  BY PortsAssumption
<1>2. PortTypeOK
  BY <1>1, NoScanTyped DEF CPInit, PortInit, PortTypeOK
<1>3. ScanInv
  BY DEF CPInit, PortInit, ScanInv, NoScan
<1>4. OwnerInv
  BY PortsAssumption, CallPortsAssumption DEF CPInit, PortInit, OwnerInv
<1> QED BY <1>2, <1>3, <1>4 DEF PInv

\* Listen's own steps: a port it binds is its request's.
LEMMA ListenPInv ==
  ASSUME PInv, NEW r \in Reqs, Listen(r)
  PROVE  PInv'
<1>i. PortTypeOK /\ ScanInv /\ OwnerInv /\ r \in Callers
  BY CallPortsAssumption DEF PInv
<1>u. rpc[r] = "listen" /\ UNCHANGED <<call, rpc>>
  BY DEF Listen, vars
<1>1. CASE Draw(r)
  <2>1. PortTypeOK' /\ ScanInv' /\ UNCHANGED owner
    BY <1>i, <1>1, DrawScan
  <2>2. scan[r].at = "idle" /\ \A c \in Callers \ {r} : scan'[c] = scan[c]
    BY <1>i, <1>1 DEF Draw, PortTypeOK
  <2>3. OwnerInv'
    <3> SUFFICES ASSUME NEW p \in Ports, NEW c \in Reqs, owner'[p] = c
                 PROVE  PortHeld(c)'
      BY DEF OwnerInv
    <3>1. PortHeld(c)
      BY <1>i, <2>1 DEF OwnerInv
    <3> QED BY <1>u, <2>2, <3>1, CallPortsAssumption DEF PortHeld
  <2> QED BY <2>1, <2>3 DEF PInv
<1>2. CASE TryBind(r)
  <2>1. PortTypeOK' /\ ScanInv'
    BY <1>i, <1>2, TryScan
  <2>2. /\ scan[r].at = "scan" /\ \A c \in Callers \ {r} : scan'[c].at = scan[c].at
        /\ \A p \in Ports :
             owner'[p] = owner[p] \/ (owner'[p] = r /\ scan'[r].at = "bound")
        /\ scan'[r].at = "bound" \/ UNCHANGED owner
    <3> DEFINE q == Candidate(scan[r])
    <3>1. CASE Become([owner EXCEPT ![q] = r],
                      [scan EXCEPT ![r] = [NoScan EXCEPT !.at = "bound"]])
      <4> HIDE DEF q
      <4> QED BY <1>i, <1>2, <3>1 DEF TryBind, Become, NoScan, PortTypeOK, ScanType
    <3>2. CASE Become(owner, [scan EXCEPT ![r] = Tried(scan[r])])
      BY <1>i, <1>2, <3>2 DEF TryBind, Become, PortTypeOK, ScanType
    <3> QED BY <1>2, <3>1, <3>2 DEF TryBind
  <2>3. OwnerInv'
    <3> SUFFICES ASSUME NEW p \in Ports, NEW c \in Reqs, owner'[p] = c
                 PROVE  PortHeld(c)'
      BY DEF OwnerInv
    <3>1. CASE owner[p] = c
      BY <1>i, <1>u, <2>2, <3>1, CallPortsAssumption DEF OwnerInv, PortHeld
    <3>2. CASE owner[p] # c
      BY <1>u, <2>2, <3>2 DEF PortHeld
    <3> QED BY <3>1, <3>2
  <2> QED BY <2>1, <2>3 DEF PInv
<1> QED BY <1>1, <1>2 DEF Listen

\* A step of the manager: whoever no longer has an open socket has closed it,
\* and has lost its port.
LEMMA ManagerPInv ==
  ASSUME IInv, PInv, ManagerStep
  PROVE  PInv'
<1>i. PortTypeOK /\ ScanInv /\ OwnerInv /\ TypeOK
  BY DEF PInv, IInv
<1>1. SocketStays /\ ListenEnds /\ ListenReturned
  BY <1>i, NextSocket DEF ManagerStep
<1>t. TypeOK'
  BY NextIInv DEF ManagerStep, IInv
<1>2. PortTypeOK' /\ ScanInv'
  <2>1. CASE UNCHANGED portVars
    BY <1>i, <2>1 DEF portVars, PortTypeOK, ScanInv, FreeIn
  <2>2. Closing \in SUBSET Callers
    BY CallPortsAssumption DEF Closing
  <2> QED BY <1>i, <2>1, <2>2, OthersScan DEF ManagerStep
<1>3. /\ \A p \in Ports : \A c \in Reqs :
           owner'[p] = c => owner[p] = c /\ c \notin Closing
      /\ \A c \in Reqs : c \notin Closing => scan'[c].at = scan[c].at
  <2>1. CASE Closing = {}
    BY <2>1 DEF ManagerStep, portVars
  <2>2. CASE CloseSockets(Closing)
    BY <1>i, <2>2, PortsAssumption, CallPortsAssumption
      DEF CloseSockets, Become, PortTypeOK, ScanType
  <2> QED BY <2>1, <2>2 DEF ManagerStep
<1>4. OwnerInv'
  <2> SUFFICES ASSUME NEW p \in Ports, NEW c \in Reqs, owner'[p] = c
               PROVE  PortHeld(c)'
    BY DEF OwnerInv
  <2>1. owner[p] = c /\ c \notin Closing /\ PortHeld(c) /\ scan'[c].at = scan[c].at
    BY <1>i, <1>3 DEF OwnerInv
  <2>2. CASE call[c].udp = "open"
    <3>1. call'[c].udp \in {"none", "open", "closed"}
      BY <1>t DEF TypeOK, CallType
    <3> QED BY <1>1, <2>1, <2>2, <3>1 DEF SocketStays, Closing, PortHeld
  <2>3. CASE rpc[c] = "listen" /\ scan[c].at = "bound"
    <3>1. rpc'[c] # "listen" => call'[c].udp = "open"
      BY <1>1, <2>3 DEF ListenEnds, ListenReturned
    <3> QED BY <2>1, <2>3, <3>1 DEF PortHeld
  <2> QED BY <2>1, <2>2, <2>3 DEF PortHeld
<1> QED BY <1>2, <1>4 DEF PInv

\* Another process.
LEMMA HostPInv ==
  ASSUME PInv, NEW p \in Ports, HostStep(p), UNCHANGED vars
  PROVE  PInv'
<1>i. PortTypeOK /\ ScanInv /\ OwnerInv /\ UNCHANGED <<call, rpc>>
  BY DEF PInv, vars
<1>1. PortTypeOK' /\ ScanInv'
  BY <1>i, OthersScan
<1>2. /\ \A q \in Ports : \A c \in Reqs : owner'[q] = c => owner[q] = c
      /\ \A c \in Reqs : scan'[c].at = scan[c].at
  BY <1>i, PortsAssumption, CallPortsAssumption
    DEF HostStep, Become, PortTypeOK, ScanType
<1>3. OwnerInv'
  BY <1>i, <1>2 DEF OwnerInv, PortHeld
<1> QED BY <1>1, <1>3 DEF PInv

LEMMA StepPInv == IInv /\ PInv /\ [CPNext]_cpVars => PInv'
<1> SUFFICES ASSUME IInv, PInv, [CPNext]_cpVars PROVE PInv'
  OBVIOUS
<1>1. CASE UNCHANGED cpVars
  BY <1>1 DEF cpVars, portVars, vars, PInv, PortTypeOK, ScanInv, FreeIn, OwnerInv, PortHeld
<1> QED BY <1>1, ListenPInv, ManagerPInv, HostPInv DEF CPNext

\* On real ports the manager does what CallManager lets it do: CallPorts
\* implements CallManager, and all that is proved of the latter holds here.
THEOREM PortsImplementManager == CPSpec => Spec
<1>1. CPInit => Init
  BY DEF CPInit
<1> QED BY <1>1, ManagerGoesOn, PTL DEF CPSpec, Spec

\* In particular the calls live as CallLife promises on real ports.
THEOREM CallsOnPortsLiveAsPromised == CPSpec => LivesAsPromised
BY PortsImplementManager, CallsLiveAsPromised, PTL

\* The inductive invariants of manager and allocator.
THEOREM PortInvariant == CPSpec => [](IInv /\ PInv)
<1>1. CPSpec => []IInv
  BY PortsImplementManager, InductiveInvariant, PTL
<1> QED BY <1>1, InitPInv, StepPInv, PTL DEF CPSpec

\* PortAllocator.Listen fails only if no port was free throughout, for every
\* number of ports and of concurrent callers, and as the cursor wraps.
THEOREM ListenIsComplete == CPSpec => []ScanComplete
<1>1. PInv => ScanComplete
  BY ScanInvGivesComplete DEF PInv
<1> QED BY <1>1, PortInvariant, PTL

\* No port is lost: a call that is over, or was never registered, owns none.
THEOREM PortsComeBack == CPSpec => []PortsReturned
<1>1. IInv /\ PInv => PortsReturned
  <2> SUFFICES ASSUME IInv, PInv, NEW c \in Reqs, NEW p \in Ports, owner[p] = c,
                      \/ call[c].pc \in {"delete", "wgdone", "done"}
                      \/ call[c].pc = "none" /\ rpc[c] = "returned"
               PROVE  FALSE
    BY DEF PortsReturned
  <2>1. call[c].udp = "open" \/ rpc[c] = "listen"
    BY DEF PInv, OwnerInv, PortHeld
  <2>2. call[c].udp # "open"
    BY DEF IInv, ObjectOK, SetupOK, OwnerOK, Quiet
  <2>3. rpc[c] = "listen" => call[c].pc = "none"
    BY DEF IInv, ObjectOK, OwnerOK
  <2> QED BY <2>1, <2>2, <2>3
<1> QED BY <1>1, PortInvariant, PTL
=============================================================================
