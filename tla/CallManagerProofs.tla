------------------------- MODULE CallManagerProofs -------------------------
(***************************************************************************)
(* CallManager, for every set of requests and ids: the types of its          *)
(* variables and its inductive invariant, which the steps of the goroutines, *)
(* the handlers, the stops and main keep.  The one step that needs more than *)
(* types to keep them is wg.Done: wg > 0.                                    *)
(***************************************************************************)
EXTENDS CallManager, FiniteSetTheorems, TLAPS

\* A field of a Call object set to a value of the field's type.
LEMMA FieldTypes ==
  ASSUME NEW r \in CallType
  PROVE  /\ \A v \in RunLocs : [r EXCEPT !.pc = v] \in CallType
         /\ [r EXCEPT !.signaled = TRUE] \in CallType
         /\ [r EXCEPT !.answered = TRUE] \in CallType
         /\ \A v \in {"none", "new", "late", "started", "up", "closed"} :
              [r EXCEPT !.transport = v] \in CallType
         /\ \A v \in {"none", "open", "closed"} :
              [r EXCEPT !.udp = v] \in CallType
         /\ \A v \in {"none", "up", "dropped", "closed"} :
              [r EXCEPT !.bridge = v] \in CallType
         /\ [r EXCEPT !.token = "fresh"] \in CallType
         /\ \A v \in {"no", "orig", "fresh"} :
              [r EXCEPT !.termToken = v] \in CallType
         /\ \A v \in {"none", "open", "ended"} :
              [r EXCEPT !.meta = v] \in CallType
<1>1. \A v \in RunLocs : [r EXCEPT !.pc = v] \in CallType
  BY DEF CallType
<1>2. [r EXCEPT !.signaled = TRUE] \in CallType
  BY Zenon DEF CallType
<1>3. [r EXCEPT !.answered = TRUE] \in CallType
  BY Zenon DEF CallType
<1>4. \A v \in {"none", "new", "late", "started", "up", "closed"} :
        [r EXCEPT !.transport = v] \in CallType
  BY DEF CallType
<1>5. \A v \in {"none", "open", "closed"} :
        [r EXCEPT !.udp = v] \in CallType
  BY DEF CallType
<1>6. \A v \in {"none", "up", "dropped", "closed"} :
        [r EXCEPT !.bridge = v] \in CallType
  BY DEF CallType
<1>7. [r EXCEPT !.token = "fresh"] \in CallType
  BY DEF CallType
<1>8. \A v \in {"no", "orig", "fresh"} :
        [r EXCEPT !.termToken = v] \in CallType
  BY DEF CallType
<1>9. \A v \in {"none", "open", "ended"} :
        [r EXCEPT !.meta = v] \in CallType
  BY DEF CallType
<1> QED BY <1>1, <1>2, <1>3, <1>4, <1>5, <1>6, <1>7, <1>8, <1>9

\* What one hold of c.mu makes of a Call object is a Call object.
LEMMA StepTypes ==
  ASSUME NEW r \in CallType, NEW res \in {"nil", "err"},
         NEW who \in {"user", "business", "livekit", "shutdown", "self"}
  PROVE  /\ SignalReady(r, res) \in CallType
         /\ StopBusiness(r) \in CallType
         /\ StopUser(r) \in CallType
         /\ Cancel(r, who) \in CallType
         /\ CloseTransport(r) \in CallType
         /\ Snapshot(r) \in CallType
         /\ ApplyAnswer(r) \in CallType
<1>1. SignalReady(r, res) \in CallType
  BY DEF CallType, SignalReady
<1>2. StopBusiness(r) \in CallType
  BY Zenon DEF CallType, StopBusiness
<1>3. StopUser(r) \in CallType
  BY Zenon DEF CallType, StopUser
<1>4. Cancel(r, who) \in CallType
  BY DEF CallType, Cancel
<1>5. CloseTransport(r) \in CallType
  BY Zenon DEF CallType, CloseTransport
<1>6. Snapshot(r) \in CallType
  <2>1. r.token \in {"no", "orig", "fresh"}
    BY DEF CallType
  <2>2. \A p \in RunLocs, t \in {"no", "orig", "fresh"} :
          [r EXCEPT !.pc = p, !.termToken = t] \in CallType
    BY FieldTypes, Zenon
  <2> QED BY <2>1, <2>2, Zenon DEF Snapshot, RunLocs
<1>7. ApplyAnswer(r) \in CallType
  BY Zenon DEF CallType, ApplyAnswer, AfterSnapshot
<1> QED BY <1>1, <1>2, <1>3, <1>4, <1>5, <1>6, <1>7

\* The empty manager NewManager returns is well typed.
LEMMA InitTypeOK == Init => TypeOK
<1> SUFFICES ASSUME Init PROVE TypeOK
  OBVIOUS
<1>1. NewCall \in CallType
  BY DEF NewCall, CallType, RunLocs
<1>2. call \in [Reqs -> CallType]
  BY <1>1 DEF Init
<1> QED BY <1>2, ManagerAssumption, Zenon DEF Init, TypeOK, RpcLocs

\* Replacing one Call object by another keeps the family of objects typed.
LEMMA SetType ==
  ASSUME TypeOK, NEW c \in Reqs, NEW r \in CallType, Set(c, r)
  PROVE  call' \in [Reqs -> CallType]
BY DEF Set, TypeOK

\* A step of Manager.Accept keeps the types.
LEMMA AcceptTypeOK ==
  ASSUME TypeOK, NEW a \in AcceptReqs,
         AcceptCheck(a) \/ AcceptStep(a) \/ AcceptCallerGone(a)
  PROVE  TypeOK'
<1>0. a \in Reqs /\ call[a] \in CallType /\ IdOf[a] \in CallIDs
      /\ calls[IdOf[a]] \in Reqs \cup {NoCall}
  BY ManagerAssumption DEF Reqs, TypeOK
<1>1. CASE AcceptCheck(a)
  BY <1>0, <1>1 DEF AcceptCheck, Return, WaitOrReturn, TypeOK, RpcLocs, mgrVars, mainVars
<1>2. CASE AcceptListen(a)
  <2>1. [call[a] EXCEPT !.udp = "open"] \in CallType
    BY <1>0 DEF CallType
  <2> QED BY <1>0, <1>2, <2>1 DEF Set, AcceptListen, Return, TypeOK, RpcLocs,
             mgrVars, mainVars
<1>3. CASE AcceptNegotiate(a)
  <2>1. /\ [call[a] EXCEPT !.transport = "new"] \in CallType
        /\ [call[a] EXCEPT !.udp = "closed"] \in CallType
    BY <1>0 DEF CallType
  <2> QED BY <1>0, <1>3, <2>1 DEF Set, AcceptNegotiate, Return, TypeOK, RpcLocs,
             mgrVars, mainVars
<1>4. CASE AcceptRegister(a)
  <2>1. [call[a] EXCEPT !.pc = "bridge"] \in CallType
    BY <1>0 DEF CallType, RunLocs
  <2>2. CASE calls[IdOf[a]] # NoCall
    BY <1>0, <1>4, <2>2 DEF AcceptRegister, Set, TypeOK, RpcLocs, mgrVars, mainVars
  <2>3. CASE calls[IdOf[a]] = NoCall
    BY <1>0, <1>4, <2>1, <2>3 DEF AcceptRegister, Register, Set, Return, WaitOrReturn,
       TypeOK, RpcLocs, mainVars
  <2> QED BY <2>2, <2>3
<1>5. CASE AcceptDiscard(a)
  <2>1. Cancel(CloseTransport(call[a]), "self") \in CallType
    BY <1>0, StepTypes
  <2> QED BY <1>0, <1>5, <2>1 DEF Set, AcceptDiscard, Return, WaitOrReturn, TypeOK, RpcLocs, mgrVars, mainVars
<1>6. CASE AcceptReady(a)
  BY <1>0, <1>6 DEF AcceptReady, WaitFailed, Return, TypeOK, RpcLocs,
     mgrVars, mainVars
<1>7. CASE AcceptCallerGone(a)
  BY <1>0, <1>7 DEF AcceptCallerGone, WaitFailed, Return, TypeOK, RpcLocs,
     mgrVars, mainVars
<1>8. CASE AcceptStop(a)
  <2>1. StopBusiness(call[a]) \in CallType
    BY <1>0, StepTypes
  <2> QED BY <1>0, <1>8, <2>1 DEF Set, AcceptStop, TypeOK, RpcLocs, mgrVars, mainVars
<1>9. CASE AcceptCancel(a)
  <2>1. Cancel(call[a], "self") \in CallType
    BY <1>0, StepTypes
  <2> QED BY <1>0, <1>9, <2>1 DEF Set, AcceptCancel, Return, TypeOK, RpcLocs,
             mgrVars, mainVars
<1> QED
  BY <1>1, <1>2, <1>3, <1>4, <1>5, <1>6, <1>7, <1>8, <1>9 DEF AcceptStep

\* A step of Manager.Dial keeps the types.
LEMMA DialTypeOK ==
  ASSUME TypeOK, NEW d \in DialReqs, DialCheck(d) \/ DialStep(d)
  PROVE  TypeOK'
<1>0. d \in Reqs /\ call[d] \in CallType /\ IdOf[d] \in CallIDs
  BY ManagerAssumption DEF Reqs, TypeOK
<1>1. CASE DialCheck(d)
  BY <1>0, <1>1 DEF DialCheck, TypeOK, RpcLocs, mgrVars, mainVars
<1>2. CASE DialListen(d)
  <2>1. [call[d] EXCEPT !.udp = "open"] \in CallType
    BY <1>0 DEF CallType
  <2> QED BY <1>0, <1>2, <2>1 DEF Set, DialListen, TypeOK, RpcLocs, mgrVars, mainVars
<1>3. CASE DialNegotiate(d)
  <2>1. [call[d] EXCEPT !.udp = "closed"] \in CallType
    BY <1>0 DEF CallType
  <2> QED BY <1>0, <1>3, <2>1 DEF Set, DialNegotiate, TypeOK, RpcLocs, mgrVars, mainVars
<1>4. CASE DialMeta(d)
  <2>1. MetaMayHold(call[d].meta) \subseteq {"none", "open", "ended"}
    BY <1>0 DEF MetaMayHold, MetaTaken, CallType
  <2>2. /\ [call[d] EXCEPT !.signaled = TRUE, !.meta = "open"] \in CallType
        /\ \A m \in {"none", "open", "ended"} :
             [call[d] EXCEPT !.udp = "closed", !.meta = m] \in CallType
    BY <1>0, FieldTypes, Zenon
  <2>3. call' \in [Reqs -> CallType]
    BY <1>0, <1>4, <2>1, <2>2, SetType, Zenon DEF DialMeta
  <2> QED BY <1>0, <1>4, <2>3, Zenon DEF DialMeta, TypeOK, RpcLocs, mgrVars, mainVars
<1>5. CASE DialRegister(d)
  <2>1. ASSUME NEW m \in {"open", "ended"}
        PROVE  [SignalReady(Cancel(StopBusiness(call[d]), "self"), "err")
                  EXCEPT !.termToken = "orig", !.meta = m, !.udp = "closed"]
               \in CallType
    <3>1. SignalReady(Cancel(StopBusiness(call[d]), "self"), "err") \in CallType
      BY <1>0, StepTypes
    <3> QED BY <3>1, FieldTypes, Zenon
  <2>2. CASE draining
    BY <1>0, <1>5, <2>1, <2>2 DEF DialRegister, Set, TypeOK, RpcLocs, mgrVars, mainVars
  <2>3. CASE ~draining
    <3>1. [call[d] EXCEPT !.pc = "bridge"] \in CallType
      BY <1>0 DEF CallType, RunLocs
    <3> QED BY <1>0, <1>5, <2>3, <3>1 DEF DialRegister, Register, Set, TypeOK,
               RpcLocs, mainVars
  <2> QED BY <2>2, <2>3
<1> QED BY <1>1, <1>2, <1>3, <1>4, <1>5 DEF DialStep

\* A step of Manager.Connect keeps the types.
LEMMA ConnectTypeOK ==
  ASSUME TypeOK, NEW c \in DialReqs,
         \/ ConnectLookup(c) \/ ConnectApply(c)
         \/ ConnectReady(c) \/ ConnectCallerGone(c)
  PROVE  TypeOK'
<1>0. c \in Reqs /\ call[c] \in CallType /\ ApplyAnswer(call[c]) \in CallType
  BY StepTypes DEF Reqs, TypeOK
<1>1. CASE ConnectLookup(c)
  BY <1>1 DEF ConnectLookup, TypeOK, mgrVars, mainVars
<1>2. CASE ConnectApply(c)
  BY <1>0, <1>2 DEF Set, ConnectApply, TypeOK, mgrVars, mainVars
<1>3. CASE ConnectReady(c) \/ ConnectCallerGone(c)
  BY <1>3 DEF ConnectReady, ConnectCallerGone, TypeOK, mgrVars, mainVars
<1> QED BY <1>1, <1>2, <1>3

\* A Disconnect webhook keeps the types.
LEMMA DisconnectTypeOK ==
  ASSUME TypeOK, NEW c \in Reqs, NEW kind \in {"user", "business"},
         NEW t \in BOOLEAN, DisconnectLookup(c, kind, t)
  PROVE  TypeOK'
<1>1. [call[c] EXCEPT !.meta = "ended"] \in CallType
  BY DEF TypeOK, CallType
<1>2. call' \in [Reqs -> CallType]
  BY <1>1 DEF DisconnectLookup, Set, TypeOK
<1>3. stops' \subseteq StopType
  BY DEF DisconnectLookup, TypeOK, StopType, StopKinds
<1> QED BY <1>2, <1>3 DEF DisconnectLookup, TypeOK, mgrVars, mainVars

\* The bridge's OnDisconnected callback keeps the types.
LEMMA RoomTypeOK ==
  ASSUME TypeOK, NEW c \in Reqs, RoomDisconnected(c)
  PROVE  TypeOK'
<1>1. \A b \in {"none", "up", "dropped", "closed"} :
        [call[c] EXCEPT !.bridge = b] \in CallType
  BY DEF TypeOK, CallType
<1>2. call[c].bridge \in {"none", "up", "dropped", "closed"}
  BY DEF TypeOK, CallType
<1>3. call' \in [Reqs -> CallType]
  BY <1>1, <1>2 DEF RoomDisconnected, Set, TypeOK
<1>4. stops' \subseteq StopType
  BY DEF RoomDisconnected, TypeOK, StopType, StopKinds
<1> QED BY <1>3, <1>4 DEF RoomDisconnected, TypeOK, mgrVars, mainVars

\* A step of a stopUser or stopBusiness goroutine keeps the types.
LEMMA StopTypeOK ==
  ASSUME TypeOK, NEW s \in stops, Stop(s)
  PROVE  TypeOK'
<1>0. /\ s \in StopType /\ s.call \in Reqs /\ call[s.call] \in CallType
      /\ s.kind \in StopKinds
      /\ [s EXCEPT !.at = "flag"] \in StopType
      /\ [s EXCEPT !.at = "cancel"] \in StopType
  BY DEF TypeOK, StopType
<1>1. /\ StopUser(call[s.call]) \in CallType
      /\ StopBusiness(call[s.call]) \in CallType
      /\ Cancel(call[s.call], s.kind) \in CallType
      /\ [call[s.call] EXCEPT !.token = "fresh"] \in CallType
  <2>1. [call[s.call] EXCEPT !.token = "fresh"] \in CallType
    BY <1>0 DEF CallType
  <2> QED BY <1>0, <2>1, StepTypes DEF StopKinds
<1> QED BY <1>0, <1>1 DEF Stop, StopStep, Set, TypeOK, mgrVars, mainVars

\* Moving a call's goroutine to another location keeps the types.
LEMMA GotoType ==
  ASSUME TypeOK, NEW c \in Reqs, NEW from \in RunLocs, NEW to \in RunLocs,
         Goto(c, from, to)
  PROVE  call' \in [Reqs -> CallType]
<1>1. [call[c] EXCEPT !.pc = to] \in CallType
  BY FieldTypes, Zenon DEF TypeOK
<1> QED BY <1>1 DEF Goto, Set, TypeOK

\* The steps of runInbound and runOutbound up to cleanup's end keep the types.
LEMMA RunLocalType ==
  ASSUME TypeOK, NEW c \in Reqs, RunLocal(c) \/ EndMediaStopped(c)
  PROVE  call' \in [Reqs -> CallType]
<1>0. /\ call[c] \in CallType
      /\ call[c].bridge \in {"none", "up", "dropped", "closed"}
      /\ call[c].meta \in {"none", "open", "ended"}
  BY DEF TypeOK, CallType
<1>pc. \A v \in RunLocs : [call[c] EXCEPT !.pc = v] \in CallType
  BY <1>0, FieldTypes, Zenon
<1>1. CASE ConnectBridge(c)
  <2>1. \A b \in {"none", "up", "dropped", "closed"}, v \in RunLocs :
          [call[c] EXCEPT !.bridge = b, !.pc = v] \in CallType
    BY <1>0, FieldTypes, Zenon
  <2> QED BY <1>0, <1>1, <2>1, Zenon DEF ConnectBridge, Set, TypeOK, RunLocs
<1>2. CASE PreAccept(c)
  <2>0. MetaTaken(call[c].meta) \in {"none", "open", "ended"}
    BY DEF MetaTaken
  <2>1. [call[c] EXCEPT !.signaled = TRUE, !.meta = MetaTaken(call[c].meta),
                        !.transport = "started", !.pc = "media"] \in CallType
    BY <1>0, <2>0, FieldTypes, Zenon DEF RunLocs
  <2>2. \A m \in {"none", "open", "ended"} :
          [call[c] EXCEPT !.meta = m, !.pc = "fail"] \in CallType
    BY <1>0, FieldTypes, Zenon DEF RunLocs
  <2>3. MetaMayHold(call[c].meta) \subseteq {"none", "open", "ended"}
    BY <1>0, <2>0 DEF MetaMayHold
  <2> QED BY <1>2, <2>1, <2>2, <2>3, SetType, Zenon DEF PreAccept
<1>3. CASE AwaitAnswer(c)
  <2>1. [call[c] EXCEPT !.transport = "started", !.pc = "media"] \in CallType
    BY <1>0, FieldTypes, Zenon DEF RunLocs
  <2> QED BY <1>3, <2>1, GotoType DEF AwaitAnswer, Set, TypeOK, RunLocs
<1>4. CASE WaitMedia(c)
  <2>1. \A v \in RunLocs :
          [call[c] EXCEPT !.transport = "up", !.pc = v] \in CallType
    BY <1>0, FieldTypes, Zenon
  <2> QED BY <1>4, <2>1, GotoType, Zenon DEF WaitMedia, Set, TypeOK, RunLocs
<1>5. CASE MetaAccept(c)
  BY <1>5, GotoType DEF MetaAccept, RunLocs
<1>6. CASE Connected(c)
  <2>1. SignalReady([call[c] EXCEPT !.pc = "relay"], "nil") \in CallType
    BY <1>pc, StepTypes DEF RunLocs
  <2> QED BY <1>6, <2>1 DEF Connected, Set, TypeOK
<1>7. CASE EndCancelled(c) \/ EndLiveKitClosed(c) \/ EndMaxDuration(c)
           \/ EndMediaStopped(c)
  BY <1>7, GotoType DEF EndCancelled, EndLiveKitClosed, EndMaxDuration,
     EndMediaStopped, RunLocs
<1>8. CASE Fail(c)
  <2>1. SignalReady([call[c] EXCEPT !.pc = "stop"], "err") \in CallType
    BY <1>pc, StepTypes DEF RunLocs
  <2> QED BY <1>8, <2>1 DEF Fail, Set, TypeOK
<1>9. CASE StopSelf(c)
  <2>1. StopBusiness([call[c] EXCEPT !.pc = "cancel"]) \in CallType
    BY <1>pc, StepTypes DEF RunLocs
  <2> QED BY <1>9, <2>1 DEF StopSelf, Set, TypeOK
<1>10. CASE CancelSelf(c)
  <2>1. Cancel([call[c] EXCEPT !.pc = "cleanup"], "self") \in CallType
    BY <1>pc, StepTypes DEF RunLocs
  <2> QED BY <1>10, <2>1 DEF CancelSelf, Set, TypeOK
<1>11. CASE Cleanup(c)
  <2>1. SignalReady([call[c] EXCEPT !.pc = "snapshot"], "err") \in CallType
    BY <1>pc, StepTypes DEF RunLocs
  <2> QED BY <1>11, <2>1 DEF Cleanup, Set, TypeOK
<1>14. CASE TakeSnapshot(c)
  <2>1. Snapshot(call[c]) \in CallType
    BY <1>0, StepTypes
  <2> QED BY <1>14, <2>1 DEF TakeSnapshot, Set, TypeOK
<1>12. CASE Terminate(c)
  <2>1. \A m \in {"none", "open", "ended"} :
          [call[c] EXCEPT !.meta = m, !.pc = "release"] \in CallType
    BY <1>0, FieldTypes, Zenon DEF RunLocs
  <2> QED BY <1>0, <1>12, <2>1, SetType, Zenon DEF Terminate
<1>13. CASE Release(c)
  <2> DEFINE closed == [call[c] EXCEPT !.pc = "delete",
                          !.bridge = IF @ = "none" THEN @ ELSE "closed"]
  <2>1. closed \in CallType
    BY <1>0, FieldTypes, Zenon DEF RunLocs
  <2>2. CloseTransport(closed) \in CallType /\ [closed EXCEPT !.udp = "closed"] \in CallType
    BY <2>1, StepTypes, FieldTypes, Zenon
  <2> QED BY <1>13, <2>2, SetType DEF Release
<1> QED BY <1>1, <1>2, <1>3, <1>4, <1>5, <1>6, <1>7, <1>8, <1>9, <1>10, <1>11,
           <1>12, <1>13, <1>14 DEF RunLocal

\* Every step of a call goroutine, finish included, keeps the types; the
\* wait-group counter stays natural because Done follows one Add.
LEMMA RunTypeOK ==
  ASSUME TypeOK, NEW c \in Reqs, RunStep(c) \/ MediaStops(c),
         call[c].pc = "wgdone" => wg > 0
  PROVE  TypeOK'
<1>1. CASE RunLocal(c) /\ UNCHANGED mgrVars
           /\ UNCHANGED <<rpc, on, stops, connects, mainVars>>
  BY <1>1, RunLocalType DEF TypeOK, mgrVars, mainVars
<1>2. CASE MediaStops(c)
  BY <1>2, RunLocalType DEF MediaStops, TypeOK, mgrVars, mainVars
<1>3. CASE Delete(c) /\ UNCHANGED <<rpc, on, stops, connects, mainVars>>
  <2>1. call' \in [Reqs -> CallType]
    BY <1>3, GotoType DEF Delete, RunLocs
  <2>2. calls' \in [CallIDs -> Reqs \cup {NoCall}]
    BY <1>3, Zenon DEF Delete, TypeOK
  <2> QED BY <1>3, <2>1, <2>2 DEF Delete, TypeOK, mainVars
<1>4. CASE WgDone(c) /\ UNCHANGED <<rpc, on, stops, connects, mainVars>>
  <2>1. call' \in [Reqs -> CallType]
    BY <1>4, GotoType DEF WgDone, RunLocs
  <2>2. wg' \in Nat
    BY <1>4 DEF WgDone, Goto, TypeOK
  <2> QED BY <1>4, <2>1, <2>2 DEF WgDone, TypeOK, mainVars
<1> QED BY <1>1, <1>2, <1>3, <1>4 DEF RunStep

\* A step of main, Shutdown included, keeps the types.
LEMMA MainTypeOK ==
  ASSUME TypeOK, Signal \/ MainStep
  PROVE  TypeOK'
<1>1. CASE BeginDrain
  BY <1>1 DEF BeginDrain, TypeOK, StopType, StopKinds
<1>2. CASE Signal \/ WindowExpires \/ EndSweep \/ Exit
  BY <1>2 DEF Signal, WindowExpires, EndSweep, Exit, TypeOK, mgrVars
<1> QED BY <1>1, <1>2 DEF MainStep

\* Every step keeps the types, given that wg.Done finds a positive counter.
LEMMA NextTypeOK ==
  ASSUME TypeOK, [Next]_vars,
         \A c \in Reqs : call[c].pc = "wgdone" => wg > 0
  PROVE  TypeOK'
<1>1. CASE UNCHANGED vars
  BY <1>1 DEF TypeOK, vars
<1>2. CASE Next
  BY <1>1, <1>2, AcceptTypeOK, DialTypeOK, ConnectTypeOK, DisconnectTypeOK,
     RoomTypeOK, StopTypeOK, RunTypeOK, MainTypeOK DEF Next
<1> QED BY <1>1, <1>2

-----------------------------------------------------------------------------
(***************************************************************************)
(* The inductive invariant.  Most of it speaks of one Call object, so that  *)
(* a step is examined through the one object it changes.                    *)
(***************************************************************************)
Told(r) == r.terminate \/ r.userTerminated

Quiet(r) ==
  /\ r.udp # "open"
  /\ r.transport \notin {"new", "started", "up"}
  /\ r.bridge \notin {"up", "dropped"}

\* Flags: they are set before the context is cancelled, and cleanup's
\* snapshot is taken after.
FlagsOK(r) ==
  /\ r.userTerminated => ~r.terminate
  /\ r.cancelled = "user" => r.userTerminated
  /\ r.cancelled = "business" => r.token = "fresh"
  /\ r.pc # "none" /\ r.cancelled # "no" => Told(r)
  /\ r.pc = "cancel" => Told(r)
  /\ r.pc \in AfterSnapshot \cup {"cleanup", "snapshot"} => r.cancelled # "no"
  /\ r.termToken # "no" => r.cancelled \notin {"no", "user"}
  /\ r.termToken = "orig" => r.cancelled # "business"
  /\ r.pc \in AfterSnapshot /\ r.signaled /\ ~r.userTerminated
     => r.termToken # "no"

\* Progress: what a goroutine has set up by the time it is at a location.
SetupOK(r) ==
  /\ r.pc = "bridge" => r.bridge \in {"none", "dropped"}
  /\ r.pc \in {"preaccept", "answer", "media", "accept", "connected", "relay"}
     => r.bridge \in {"up", "dropped"}
  /\ r.pc \in {"answer", "media", "accept", "connected", "relay"} => r.signaled
  /\ r.pc \in {"accept", "connected", "relay"} => r.transport = "up"
  /\ r.ready = "nil" =>
       /\ r.pc \in {"relay", "stop", "cancel", "cleanup", "snapshot"}
                   \cup AfterSnapshot
       /\ r.signaled
       /\ r.transport \in {"up", "closed"}
       /\ r.bridge # "none"
  /\ r.pc \in {"delete", "wgdone", "done"} => Quiet(r)
  /\ r.pc \in AfterSnapshot \cup {"snapshot"} => r.ready # "open"

\* An object and the request that makes it.
OwnerOK(c, r, loc) ==
  /\ Outbound(c) /\ (r.pc # "none" \/ loc = "register") => r.signaled
  /\ loc \in {"idle", "listen", "negotiate", "dial", "register", "discard"} =>
       /\ r.pc = "none" /\ r.cancelled = "no" /\ r.termToken = "no"
       /\ r.ready = "open" /\ r.bridge = "none"
  /\ loc \in {"idle", "listen", "negotiate", "dial"} =>
       r.transport = "none" /\ ~r.signaled
  /\ loc \in {"idle", "listen"} => r.udp = "none"
  /\ ~Outbound(c) /\ r.pc = "none" => ~r.signaled
  /\ Outbound(c) /\ loc = "register" => r.transport = "none"
  /\ loc \in {"stop", "cancel"} => r.pc # "none"
  /\ loc = "cancel" => Told(r)
  /\ Outbound(c) =>
       loc \in {"idle", "listen", "negotiate", "dial", "register", "returned"}
  /\ r.pc = "none" /\ loc \in {"waiting", "returned"} =>
       Quiet(r) /\ (r.signaled => r.termToken # "no")

\* A stop acts on a registered call, and has set what it is past.
StopOK(s) ==
  /\ call[s.call].pc # "none"
  /\ s.kind = "user" /\ s.at = "cancel" => call[s.call].userTerminated
  /\ s.kind = "business" /\ s.at # "token" => call[s.call].token = "fresh"
  /\ s.at = "cancel" => Told(call[s.call])

ObjectOK(c) ==
  /\ FlagsOK(call[c])
  /\ SetupOK(call[c])
  /\ OwnerOK(c, call[c], rpc[c])

\* An Accept that waits for its own call has registered it.
WaiterOK(a, loc, o, r) ==
  /\ loc = "waiting" /\ o = a => r.pc # "none"
  /\ loc = "discard" => o # a

HandlersOK ==
  /\ \A a \in AcceptReqs : WaiterOK(a, rpc[a], on[a], call[a])
  /\ \A x \in connects : call[x[1]].pc # "none"

IInv ==
  /\ TypeOK
  /\ \A c \in Reqs : ObjectOK(c)
  /\ \A s \in stops : StopOK(s)
  /\ HandlersOK
  /\ MapTracksLive
  /\ WgCounts

\* The inductive invariant holds of the empty manager NewManager returns.
LEMMA InitIInv == Init => IInv
<1> SUFFICES ASSUME Init PROVE IInv
  OBVIOUS
<1>1. TypeOK
  BY InitTypeOK
<1>2. \A c \in Reqs : call[c] = NewCall /\ rpc[c] = "idle"
  BY DEF Init
<1>3. \A c \in Reqs : ObjectOK(c)
  <2>1. FlagsOK(NewCall)
    BY DEF FlagsOK, NewCall, AfterSnapshot
  <2>2. SetupOK(NewCall)
    BY DEF SetupOK, NewCall, AfterSnapshot
  <2>3. \A c \in Reqs : OwnerOK(c, NewCall, "idle")
    BY DEF OwnerOK, NewCall
  <2> QED BY <1>2, <2>1, <2>2, <2>3 DEF ObjectOK
<1>4. MapTracksLive
  BY <1>2, ManagerAssumption DEF MapTracksLive, Live, NewCall, Init
<1>5. WgCounts
  <2>1. Counted = {}
    BY <1>2 DEF Counted, NewCall
  <2> QED BY <2>1, FS_EmptySet DEF WgCounts, Init
<1>6. HandlersOK
  BY ManagerAssumption DEF HandlersOK, WaiterOK, Init, Reqs
<1> QED BY <1>1, <1>3, <1>4, <1>5, <1>6 DEF IInv, Init

-----------------------------------------------------------------------------
(* Steps that change one Call object and leave its place in Manager.calls   *)
(* and Manager.wg alone.                                                    *)

Keeps(r, q) ==
  /\ r.pc = "none" <=> q.pc = "none"
  /\ r.pc \in {"none", "wgdone", "done"} <=> q.pc \in {"none", "wgdone", "done"}
  /\ r.pc = "done" <=> q.pc = "done"
  /\ Told(r) => Told(q)
  /\ r.userTerminated => q.userTerminated
  /\ r.token = "fresh" => q.token = "fresh"

\* Set replaces exactly one Call object.
LEMMA SetAt ==
  ASSUME TypeOK, NEW c \in Reqs, NEW q \in CallType, Set(c, q)
  PROVE  call'[c] = q /\ \A x \in Reqs \ {c} : call'[x] = call[x]
BY DEF Set, TypeOK

\* A step that keeps what others rely on in one Call object keeps the
\* conjuncts about the map, the counter, the handlers and the stops.
LEMMA KeepsAll ==
  ASSUME IInv, NEW c \in Reqs, NEW q \in CallType, Set(c, q),
         Keeps(call[c], q), calls' = calls, wg' = wg
  PROVE  /\ MapTracksLive'
         /\ WgCounts'
         /\ \A s \in stops : StopOK(s)'
         /\ \A x \in Reqs : call[x].pc # "none" => call'[x].pc # "none"
<1>0. call'[c] = q /\ \A x \in Reqs \ {c} : call'[x] = call[x]
  BY SetAt DEF IInv
<1>1. \A x \in Reqs : Keeps(call[x], call'[x])
  BY <1>0 DEF Keeps, Told
<1>2. MapTracksLive'
  BY <1>1 DEF IInv, MapTracksLive, Live, Keeps
<1>3. Counted' = Counted
  BY <1>1 DEF Counted, Keeps
<1>4. \A s \in stops : StopOK(s)'
  <2> SUFFICES ASSUME NEW s \in stops PROVE StopOK(s)'
    OBVIOUS
  <2>1. s.call \in Reqs /\ StopOK(s)
    BY DEF IInv, TypeOK, StopType
  <2> QED BY <1>1, <2>1 DEF StopOK, Keeps, Told
<1> QED BY <1>1, <1>2, <1>3, <1>4 DEF IInv, WgCounts, Keeps

\* If the changed object satisfies the per-object conjuncts, all objects do.
LEMMA ObjectsOK ==
  ASSUME IInv, NEW c \in Reqs, NEW q \in CallType, Set(c, q),
         \A x \in Reqs \ {c} : rpc'[x] = rpc[x],
         FlagsOK(q), SetupOK(q), OwnerOK(c, q, rpc'[c])
  PROVE  \A x \in Reqs : ObjectOK(x)'
<1>0. call'[c] = q /\ \A x \in Reqs \ {c} : call'[x] = call[x]
  BY SetAt DEF IInv
<1>1. ObjectOK(c)'
  BY <1>0 DEF ObjectOK
<1>2. ASSUME NEW x \in Reqs \ {c} PROVE ObjectOK(x)'
  BY <1>0, <1>2 DEF IInv, ObjectOK
<1> QED BY <1>1, <1>2

\* What a step of a call's goroutine owes the invariant.
Good(r, q) ==
  FlagsOK(q) /\ SetupOK(q) /\ Keeps(r, q) /\ (r.signaled => q.signaled)

\* The object Set stores is typed when the step keeps the types.
LEMMA SetBoth ==
  ASSUME TypeOK, TypeOK', NEW c \in Reqs, NEW q, Set(c, q)
  PROVE  q \in CallType /\ call'[c] = q
BY DEF Set, TypeOK

\* A good change of one Call object by its own goroutine or by a stop keeps
\* the inductive invariant.
LEMMA GoodStep ==
  ASSUME IInv, TypeOK', NEW c \in Reqs, NEW q, Set(c, q), Good(call[c], q),
         call[c].pc # "none", calls' = calls, wg' = wg,
         UNCHANGED <<rpc, on>>,
         \A s \in stops' \ stops : StopOK(s)',
         \A x \in connects' \ connects : call'[x[1]].pc # "none"
  PROVE  IInv'
<1>1. q \in CallType /\ call'[c] = q
  BY SetBoth DEF IInv
<1>2. OwnerOK(c, q, rpc'[c])
  <2>1. OwnerOK(c, call[c], rpc[c])
    BY DEF IInv, ObjectOK
  <2> QED BY <2>1 DEF OwnerOK, Good, Keeps
<1>3. \A x \in Reqs : ObjectOK(x)'
  BY <1>1, <1>2, ObjectsOK DEF Good
<1>4. /\ MapTracksLive'
      /\ WgCounts'
      /\ \A s \in stops : StopOK(s)'
      /\ \A x \in Reqs : call[x].pc # "none" => call'[x].pc # "none"
  BY <1>1, KeepsAll DEF Good
<1>5. HandlersOK'
  BY <1>4 DEF HandlersOK, WaiterOK, IInv, TypeOK, Reqs
<1>6. \A s \in stops' : StopOK(s)'
  BY <1>4
<1> QED BY <1>3, <1>4, <1>5, <1>6 DEF IInv

\* A step that changes no Call object and no Accept or Dial handler.
LEMMA BesideStep ==
  ASSUME IInv, TypeOK', UNCHANGED <<calls, wg, call, rpc, on>>,
         \A s \in stops' \ stops : StopOK(s),
         \A x \in connects' \ connects : call[x[1]].pc # "none"
  PROVE  IInv'
<1>1. \A c \in Reqs : ObjectOK(c)'
  BY DEF IInv, ObjectOK
<1>2. MapTracksLive' /\ WgCounts'
  BY DEF IInv, MapTracksLive, Live, WgCounts, Counted
<1>3. \A s \in stops' : StopOK(s)'
  BY DEF IInv, StopOK
<1>4. HandlersOK'
  BY DEF IInv, HandlersOK
<1> QED BY <1>1, <1>2, <1>3, <1>4 DEF IInv

\* A step of the Accept or Dial handler of c on an object whose place in
\* Manager.calls stays as it is.
LEMMA HandlerStep ==
  ASSUME IInv, TypeOK', NEW c \in Reqs, NEW q, Set(c, q),
         FlagsOK(q), SetupOK(q), Keeps(call[c], q), OwnerOK(c, q, rpc'[c]),
         \A x \in Reqs \ {c} : rpc'[x] = rpc[x],
         \A x \in AcceptReqs \ {c} : on'[x] = on[x],
         c \in AcceptReqs => WaiterOK(c, rpc'[c], on'[c], q),
         UNCHANGED <<calls, wg, stops, connects>>
  PROVE  IInv'
<1>1. q \in CallType /\ call'[c] = q /\ \A x \in Reqs \ {c} : call'[x] = call[x]
  BY SetBoth, SetAt DEF IInv
<1>2. \A x \in Reqs : ObjectOK(x)'
  BY <1>1, ObjectsOK
<1>3. /\ MapTracksLive'
      /\ WgCounts'
      /\ \A s \in stops : StopOK(s)'
      /\ \A x \in Reqs : call[x].pc # "none" => call'[x].pc # "none"
  BY <1>1, KeepsAll
<1>4. \A a \in AcceptReqs : WaiterOK(a, rpc'[a], on'[a], call'[a])
  BY <1>1 DEF IInv, HandlersOK, Reqs
<1>5. \A x \in connects' : call'[x[1]].pc # "none"
  BY <1>3 DEF IInv, HandlersOK, TypeOK, Reqs
<1> QED BY <1>2, <1>3, <1>4, <1>5 DEF IInv, HandlersOK

SameButPc(r, q) ==
  /\ q.cancelled = r.cancelled /\ q.terminate = r.terminate
  /\ q.userTerminated = r.userTerminated /\ q.signaled = r.signaled
  /\ q.ready = r.ready /\ q.transport = r.transport /\ q.udp = r.udp
  /\ q.bridge = r.bridge /\ q.token = r.token /\ q.termToken = r.termToken

\* Moving a goroutine changes nothing else of its Call object.
LEMMA PcOnly ==
  ASSUME NEW r \in CallType, NEW to
  PROVE  /\ [r EXCEPT !.pc = to].pc = to
         /\ SameButPc(r, [r EXCEPT !.pc = to])
BY DEF CallType, SameButPc

\* Moves between locations that need nothing the object lacks are good.
LEMMA GotoGood ==
  ASSUME NEW r \in CallType, NEW to \in RunLocs, FlagsOK(r), SetupOK(r),
         \/ r.pc \in {"answer", "media", "accept"} /\ to = "fail"
         \/ r.pc = "relay" /\ to = "stop"
         \/ r.pc \in {"answer", "relay"} /\ r.cancelled # "no" /\ to = "cleanup"
         \/ r.pc = "accept" /\ to = "connected"
  PROVE  Good(r, [r EXCEPT !.pc = to])
<1> DEFINE q == [r EXCEPT !.pc = to]
<1>1. q.pc = to /\ SameButPc(r, q)
  BY PcOnly
<1> HIDE DEF q
<1>2. FlagsOK(q)
  BY <1>1 DEF SameButPc, FlagsOK, Told, AfterSnapshot
<1>3. SetupOK(q)
  BY <1>1 DEF SameButPc, SetupOK, AfterSnapshot
<1>4. Keeps(r, q)
  BY <1>1 DEF SameButPc, Keeps, Told
<1> QED BY <1>1, <1>2, <1>3, <1>4 DEF SameButPc, Good, q

\* connectBridge is good: it sets the bridge, or leaves the object failing.
LEMMA BridgeGood ==
  ASSUME NEW r \in CallType, FlagsOK(r), SetupOK(r), r.pc = "bridge",
         NEW to \in {"answer", "preaccept"}, to = "answer" => r.signaled
  PROVE  /\ Good(r, [r EXCEPT !.bridge = "none", !.pc = "fail"])
         /\ Good(r, [r EXCEPT !.bridge = IF @ = "none" THEN "up" ELSE @,
                              !.pc = to])
<1>1. Good(r, [r EXCEPT !.bridge = "none", !.pc = "fail"])
  BY DEF Good, FlagsOK, SetupOK, Keeps, Told, Quiet, AfterSnapshot, CallType
<1>2. Good(r, [r EXCEPT !.bridge = IF @ = "none" THEN "up" ELSE @, !.pc = to])
  BY DEF Good, FlagsOK, SetupOK, Keeps, Told, Quiet, AfterSnapshot, CallType
<1> QED BY <1>1, <1>2

\* PreAccept is good: the success path sets signaled and readies the waiters.
LEMMA PreAcceptGood ==
  ASSUME NEW r \in CallType, FlagsOK(r), SetupOK(r), r.pc = "preaccept", NEW m
  PROVE  /\ Good(r, [r EXCEPT !.signaled = TRUE, !.meta = m,
                              !.transport = "started", !.pc = "media"])
         /\ Good(r, [r EXCEPT !.meta = m, !.pc = "fail"])
<1>1. Good(r, [r EXCEPT !.signaled = TRUE, !.meta = m,
                        !.transport = "started", !.pc = "media"])
  BY DEF Good, FlagsOK, SetupOK, Keeps, Told, Quiet, AfterSnapshot, CallType
<1>2. Good(r, [r EXCEPT !.meta = m, !.pc = "fail"])
  BY DEF Good, FlagsOK, SetupOK, Keeps, Told, Quiet, AfterSnapshot, CallType
<1> QED BY <1>1, <1>2

\* Starting and awaiting the media transport, and the accept that follows,
\* are good.
LEMMA MediaGood ==
  ASSUME NEW r \in CallType, FlagsOK(r), SetupOK(r)
  PROVE  /\ r.pc = "answer" =>
              Good(r, [r EXCEPT !.transport = "started", !.pc = "media"])
         /\ \A to \in {"connected", "accept"} : r.pc = "media" =>
              Good(r, [r EXCEPT !.transport = "up", !.pc = to])
         /\ r.pc = "connected" =>
              Good(r, SignalReady([r EXCEPT !.pc = "relay"], "nil"))
<1>1. r.pc = "answer" =>
        Good(r, [r EXCEPT !.transport = "started", !.pc = "media"])
  BY DEF Good, FlagsOK, SetupOK, Keeps, Told, Quiet, AfterSnapshot, CallType
<1>2. ASSUME NEW to \in {"connected", "accept"}, r.pc = "media"
      PROVE  Good(r, [r EXCEPT !.transport = "up", !.pc = to])
  BY <1>2 DEF Good, FlagsOK, SetupOK, Keeps, Told, Quiet, AfterSnapshot, CallType
<1>3. r.pc = "connected" =>
        Good(r, SignalReady([r EXCEPT !.pc = "relay"], "nil"))
  BY DEF SignalReady, Good, FlagsOK, SetupOK, Keeps, Told, Quiet, AfterSnapshot,
     CallType
<1> QED BY <1>1, <1>2, <1>3

\* fail, stopBusiness, cancel and the two halves of cleanup that hold c.mu
\* are good.
LEMMA EndGood ==
  ASSUME NEW r \in CallType, FlagsOK(r), SetupOK(r)
  PROVE  /\ r.pc = "fail" =>
              Good(r, SignalReady([r EXCEPT !.pc = "stop"], "err"))
         /\ r.pc = "stop" => Good(r, StopBusiness([r EXCEPT !.pc = "cancel"]))
         /\ r.pc = "cancel" =>
              Good(r, Cancel([r EXCEPT !.pc = "cleanup"], "self"))
         /\ r.pc = "cleanup" =>
              Good(r, SignalReady([r EXCEPT !.pc = "snapshot"], "err"))
         /\ r.pc = "snapshot" => Good(r, Snapshot(r))
<1>1. r.pc = "fail" => Good(r, SignalReady([r EXCEPT !.pc = "stop"], "err"))
  BY DEF SignalReady, Good, FlagsOK, SetupOK, Keeps, Told, Quiet, AfterSnapshot,
     CallType
<1>2. r.pc = "stop" => Good(r, StopBusiness([r EXCEPT !.pc = "cancel"]))
  BY Zenon DEF StopBusiness, Good, FlagsOK, SetupOK, Keeps, Told, Quiet,
     AfterSnapshot, CallType
<1>3. r.pc = "cancel" => Good(r, Cancel([r EXCEPT !.pc = "cleanup"], "self"))
  BY DEF Cancel, Good, FlagsOK, SetupOK, Keeps, Told, Quiet, AfterSnapshot,
     CallType
<1>4. r.pc = "cleanup" =>
        Good(r, SignalReady([r EXCEPT !.pc = "snapshot"], "err"))
  BY DEF SignalReady, Good, FlagsOK, SetupOK, Keeps, Told, Quiet, AfterSnapshot,
     CallType
<1>5. r.pc = "snapshot" => Good(r, Snapshot(r))
  BY DEF Snapshot, Good, FlagsOK, SetupOK, Keeps, Told, Quiet, AfterSnapshot,
     CallType
<1> QED BY <1>1, <1>2, <1>3, <1>4, <1>5

\* Terminate and the release of the resources in cleanup are good.
LEMMA ReleaseGood ==
  ASSUME NEW r \in CallType, FlagsOK(r), SetupOK(r), NEW m
  PROVE  /\ r.pc = "terminate" => Good(r, [r EXCEPT !.meta = m, !.pc = "release"])
         /\ LET closed == [r EXCEPT !.pc = "delete",
                             !.bridge = IF @ = "none" THEN @ ELSE "closed"]
            IN  /\ r.pc = "release" => Good(r, CloseTransport(closed))
                /\ r.pc = "release" /\ r.transport \in {"none", "late"} =>
                     Good(r, [closed EXCEPT !.udp = "closed"])
<1> DEFINE closed == [r EXCEPT !.pc = "delete",
                        !.bridge = IF @ = "none" THEN @ ELSE "closed"]
<1>1. r.pc = "terminate" => Good(r, [r EXCEPT !.meta = m, !.pc = "release"])
  BY DEF Good, FlagsOK, SetupOK, Keeps, Told, Quiet, AfterSnapshot, CallType
<1>2. r.pc = "release" => Good(r, CloseTransport(closed))
  BY DEF CloseTransport, Good, FlagsOK, SetupOK, Keeps, Told, Quiet,
     AfterSnapshot, CallType
<1>3. r.pc = "release" /\ r.transport \in {"none", "late"} =>
        Good(r, [closed EXCEPT !.udp = "closed"])
  BY DEF Good, FlagsOK, SetupOK, Keeps, Told, Quiet, AfterSnapshot, CallType
<1> QED BY <1>1, <1>2, <1>3

\* The goroutine's own steps, except the two that finish takes last.
LEMMA RunLocalIInv ==
  ASSUME IInv, TypeOK', NEW c \in Reqs, RunLocal(c) \/ EndMediaStopped(c),
         UNCHANGED <<mgrVars, rpc, on, stops, connects>>
  PROVE  IInv'
<1> DEFINE r == call[c]
<1>0. /\ r \in CallType /\ FlagsOK(r) /\ SetupOK(r) /\ OwnerOK(c, r, rpc[c])
      /\ calls' = calls /\ wg' = wg
  BY DEF IInv, TypeOK, ObjectOK, mgrVars
<1>s. ASSUME NEW q, Set(c, q), Good(r, q), r.pc # "none" PROVE IInv'
  BY <1>0, <1>s, GoodStep
<1>g. ASSUME NEW from \in RunLocs, NEW to \in RunLocs, Goto(c, from, to),
             \/ r.pc \in {"answer", "media", "accept"} /\ to = "fail"
             \/ r.pc = "relay" /\ to = "stop"
             \/ /\ r.pc \in {"answer", "relay"} /\ r.cancelled # "no"
                /\ to = "cleanup"
             \/ r.pc = "accept" /\ to = "connected"
      PROVE  IInv'
  <2>1. Good(r, [r EXCEPT !.pc = to]) /\ r.pc # "none"
    BY <1>0, <1>g, GotoGood
  <2> QED BY <1>g, <2>1, <1>s DEF Goto
<1> HIDE DEF r
<1>1. CASE ConnectBridge(c)
  BY <1>0, <1>1, <1>s, BridgeGood, Zenon DEF ConnectBridge, OwnerOK, r
<1>2. CASE PreAccept(c)
  BY <1>0, <1>2, <1>s, PreAcceptGood, Zenon DEF PreAccept, r
<1>3. CASE AwaitAnswer(c)
  <2>1. CASE \/ Goto(c, "answer", "fail")
             \/ call[c].cancelled # "no" /\ Goto(c, "answer", "cleanup")
    BY <2>1, <1>g DEF Goto, RunLocs, r
  <2>2. CASE r.pc = "answer" /\ Set(c, [call[c] EXCEPT !.transport = "started",
                                                       !.pc = "media"])
    BY <1>0, <2>2, <1>s, MediaGood, Zenon DEF r
  <2> QED BY <1>3, <2>1, <2>2 DEF AwaitAnswer, r
<1>4. CASE WaitMedia(c)
  <2>1. CASE Goto(c, "media", "fail")
    BY <2>1, <1>g DEF Goto, RunLocs, r
  <2>2. CASE r.pc = "media" /\ \E to \in {"connected", "accept"} :
               Set(c, [call[c] EXCEPT !.transport = "up", !.pc = to])
    BY <1>0, <2>2, <1>s, MediaGood, Zenon DEF r
  <2> QED BY <1>4, <2>1, <2>2, Zenon DEF WaitMedia, r
<1>5. CASE MetaAccept(c)
  BY <1>5, <1>g DEF MetaAccept, Goto, RunLocs, r
<1>6. CASE Connected(c)
  BY <1>0, <1>6, <1>s, MediaGood, Zenon DEF Connected, r
<1>7. CASE EndCancelled(c) \/ EndLiveKitClosed(c) \/ EndMaxDuration(c)
           \/ EndMediaStopped(c)
  BY <1>7, <1>g DEF EndCancelled, EndLiveKitClosed, EndMaxDuration,
     EndMediaStopped, Goto, RunLocs, r
<1>8. CASE Fail(c)
  BY <1>0, <1>8, <1>s, EndGood, Zenon DEF Fail, r
<1>9. CASE StopSelf(c)
  BY <1>0, <1>9, <1>s, EndGood, Zenon DEF StopSelf, r
<1>10. CASE CancelSelf(c)
  BY <1>0, <1>10, <1>s, EndGood, Zenon DEF CancelSelf, r
<1>11. CASE Cleanup(c)
  BY <1>0, <1>11, <1>s, EndGood, Zenon DEF Cleanup, r
<1>14. CASE TakeSnapshot(c)
  BY <1>0, <1>14, <1>s, EndGood, Zenon DEF TakeSnapshot, r
<1>12. CASE Terminate(c)
  BY <1>0, <1>12, <1>s, ReleaseGood, Zenon DEF Terminate, r
<1>13. CASE Release(c)
  BY <1>0, <1>13, <1>s, ReleaseGood, Zenon DEF Release, r
<1> QED BY <1>1, <1>2, <1>3, <1>4, <1>5, <1>6, <1>7, <1>8, <1>9, <1>10, <1>11,
           <1>12, <1>13, <1>14 DEF RunLocal

\* Only finitely many goroutines are counted by the wait group.
LEMMA CountedFinite == IsFiniteSet(Counted)
<1>1. IsFiniteSet(Reqs)
  BY ManagerAssumption, FS_Union, Zenon DEF Reqs
<1> QED BY <1>1, FS_Subset DEF Counted

\* Why wg.Done never takes the counter below zero.
LEMMA WgPositive ==
  ASSUME IInv, NEW c \in Reqs, call[c].pc = "wgdone"
  PROVE  wg > 0
<1>1. c \in Counted
  BY DEF Counted
<1>2. Cardinality(Counted) # 0 /\ Cardinality(Counted) \in Nat
  BY <1>1, CountedFinite, FS_EmptySet, FS_CardinalityType
<1> QED BY <1>2 DEF IInv, WgCounts

\* The two last moves of finish ask nothing new of the object.
LEMMA FinishOK ==
  ASSUME NEW c \in Reqs, NEW r \in CallType, NEW q, NEW loc,
         FlagsOK(r), SetupOK(r), OwnerOK(c, r, loc), SameButPc(r, q),
         \/ r.pc = "delete" /\ q.pc = "wgdone"
         \/ r.pc = "wgdone" /\ q.pc = "done"
  PROVE  FlagsOK(q) /\ SetupOK(q) /\ OwnerOK(c, q, loc)
<1>1. FlagsOK(q)
  BY DEF SameButPc, FlagsOK, Told, AfterSnapshot
<1>2. SetupOK(q)
  BY DEF SameButPc, SetupOK, Quiet, AfterSnapshot
<1>3. OwnerOK(c, q, loc)
  BY DEF SameButPc, OwnerOK, Told
<1> QED BY <1>1, <1>2, <1>3

\* The stops hold on to their calls when a goroutine only moves.
LEMMA StopsStay ==
  ASSUME IInv, NEW c \in Reqs, SameButPc(call[c], call'[c]),
         call'[c].pc # "none", \A x \in Reqs \ {c} : call'[x] = call[x]
  PROVE  \A s \in stops : StopOK(s)'
<1> SUFFICES ASSUME NEW s \in stops PROVE StopOK(s)'
  OBVIOUS
<1>1. s.call \in Reqs /\ StopOK(s)
  BY DEF IInv, TypeOK, StopType
<1>2. CASE s.call = c
  BY <1>1, <1>2 DEF SameButPc, StopOK, Told
<1>3. CASE s.call # c
  <2>1. call'[s.call] = call[s.call]
    BY <1>1, <1>3
  <2> QED BY <1>1, <2>1 DEF StopOK, Told
<1> QED BY <1>2, <1>3

\* finish's removal from Manager.calls keeps the inductive invariant: it
\* removes its own call and no other.
LEMMA DeleteIInv ==
  ASSUME IInv, TypeOK', NEW c \in Reqs, Delete(c),
         UNCHANGED <<rpc, on, stops, connects>>
  PROVE  IInv'
<1> DEFINE q == [call[c] EXCEPT !.pc = "wgdone"]
<1>0. /\ call[c] \in CallType /\ call[c].pc = "delete" /\ Set(c, q)
      /\ ObjectOK(c)
  BY DEF IInv, TypeOK, Delete, Goto
<1>1. /\ q \in CallType /\ call'[c] = q
      /\ \A x \in Reqs \ {c} : call'[x] = call[x]
  BY <1>0, SetBoth, SetAt DEF IInv
<1>2. q.pc = "wgdone" /\ SameButPc(call[c], q)
  BY <1>0, PcOnly
<1> HIDE DEF q
<1>3. FlagsOK(q) /\ SetupOK(q) /\ OwnerOK(c, q, rpc'[c])
  BY <1>0, <1>2, FinishOK DEF ObjectOK
<1>4. \A x \in Reqs : ObjectOK(x)'
  BY <1>0, <1>1, <1>3, ObjectsOK
<1>5. MapTracksLive'
  <2>1. calls[IdOf[c]] = c
    BY <1>0 DEF IInv, MapTracksLive, Live
  <2>2. calls' = [calls EXCEPT ![IdOf[c]] = NoCall]
    BY DEF Delete
  <2>3. ASSUME NEW x \in Reqs
        PROVE  Live(x)' <=> calls'[IdOf[x]] = x
    <3>1. IdOf[x] \in CallIDs /\ IdOf[c] \in CallIDs /\ x # NoCall
      BY ManagerAssumption
    <3>2. CASE x = c
      BY <1>1, <1>2, <2>2, <3>1, <3>2 DEF Live, IInv, TypeOK
    <3>3. CASE x # c
      BY <1>1, <2>1, <2>2, <3>1, <3>3 DEF Live, IInv, TypeOK, MapTracksLive
    <3> QED BY <3>2, <3>3
  <2> QED BY <2>3 DEF MapTracksLive
<1>6. WgCounts'
  <2>1. Counted' = Counted
    BY <1>0, <1>1, <1>2 DEF Counted
  <2> QED BY <2>1 DEF IInv, WgCounts, Delete
<1>7. \A s \in stops' : StopOK(s)'
  BY <1>1, <1>2, StopsStay
<1>8. HandlersOK'
  BY <1>1, <1>2 DEF IInv, HandlersOK, WaiterOK, TypeOK, Reqs
<1> QED BY <1>4, <1>5, <1>6, <1>7, <1>8 DEF IInv

\* finish's wg.Done keeps the inductive invariant.
LEMMA WgDoneIInv ==
  ASSUME IInv, TypeOK', NEW c \in Reqs, WgDone(c),
         UNCHANGED <<rpc, on, stops, connects>>
  PROVE  IInv'
<1> DEFINE q == [call[c] EXCEPT !.pc = "done"]
<1>0. /\ call[c] \in CallType /\ call[c].pc = "wgdone" /\ Set(c, q)
      /\ ObjectOK(c)
  BY DEF IInv, TypeOK, WgDone, Goto
<1>1. /\ q \in CallType /\ call'[c] = q
      /\ \A x \in Reqs \ {c} : call'[x] = call[x]
  BY <1>0, SetBoth, SetAt DEF IInv
<1>2. q.pc = "done" /\ SameButPc(call[c], q)
  BY <1>0, PcOnly
<1> HIDE DEF q
<1>3. FlagsOK(q) /\ SetupOK(q) /\ OwnerOK(c, q, rpc'[c])
  BY <1>0, <1>2, FinishOK DEF ObjectOK
<1>4. \A x \in Reqs : ObjectOK(x)'
  BY <1>0, <1>1, <1>3, ObjectsOK
<1>5. MapTracksLive'
  BY <1>0, <1>1, <1>2 DEF IInv, MapTracksLive, Live, WgDone
<1>6. WgCounts'
  <2>1. Counted' = Counted \ {c} /\ c \in Counted
    BY <1>0, <1>1, <1>2 DEF Counted
  <2>2. Cardinality(Counted \ {c}) = Cardinality(Counted) - 1
    BY <2>1, CountedFinite, FS_RemoveElement, Zenon
  <2> QED BY <2>1, <2>2 DEF IInv, WgCounts, WgDone
<1>7. \A s \in stops' : StopOK(s)'
  BY <1>1, <1>2, StopsStay
<1>8. HandlersOK'
  BY <1>1, <1>2 DEF IInv, HandlersOK, WaiterOK, TypeOK, Reqs
<1> QED BY <1>4, <1>5, <1>6, <1>7, <1>8 DEF IInv

\* Registration.  An Accept has found no call under its id; a Dial has an id
\* no other request has.
LEMMA RegisterIInv ==
  ASSUME IInv, TypeOK', NEW c \in Reqs, Register(c), rpc[c] = "register",
         calls[IdOf[c]] = NoCall \/ c \in DialReqs,
         rpc'[c] \in {"waiting", "returned"},
         c \in DialReqs => rpc'[c] = "returned",
         \A x \in Reqs \ {c} : rpc'[x] = rpc[x],
         \A x \in AcceptReqs \ {c} : on'[x] = on[x],
         UNCHANGED <<stops, connects>>
  PROVE  IInv'
<1> DEFINE q == [call[c] EXCEPT !.pc = "bridge"]
<1>0. call[c] \in CallType /\ Set(c, q) /\ ObjectOK(c)
  BY DEF IInv, TypeOK, Register
<1>1. /\ q \in CallType /\ call'[c] = q
      /\ \A x \in Reqs \ {c} : call'[x] = call[x]
  BY <1>0, SetBoth, SetAt DEF IInv
<1>2. q.pc = "bridge" /\ SameButPc(call[c], q)
  BY <1>0, PcOnly
<1> HIDE DEF q
<1>3. /\ call[c].pc = "none" /\ call[c].cancelled = "no"
      /\ call[c].termToken = "no" /\ call[c].ready = "open"
      /\ call[c].bridge = "none" /\ (Outbound(c) => call[c].signaled)
      /\ FlagsOK(call[c])
  BY <1>0 DEF ObjectOK, OwnerOK
<1>4. FlagsOK(q) /\ SetupOK(q)
  <2>1. FlagsOK(q)
    BY <1>2, <1>3 DEF SameButPc, FlagsOK, Told, AfterSnapshot
  <2>2. SetupOK(q)
    BY <1>2, <1>3 DEF SameButPc, SetupOK, AfterSnapshot
  <2> QED BY <2>1, <2>2
<1>5. OwnerOK(c, q, rpc'[c])
  BY <1>2, <1>3 DEF SameButPc, OwnerOK, Outbound
<1>6. \A x \in Reqs : ObjectOK(x)'
  BY <1>0, <1>1, <1>4, <1>5, ObjectsOK
<1>7. MapTracksLive'
  <2>1. calls' = [calls EXCEPT ![IdOf[c]] = c]
    BY DEF Register
  <2>2. ASSUME NEW x \in Reqs
        PROVE  Live(x)' <=> calls'[IdOf[x]] = x
    <3>1. IdOf[x] \in CallIDs /\ IdOf[c] \in CallIDs /\ x # NoCall
      BY ManagerAssumption
    <3>2. CASE x = c
      BY <1>1, <1>2, <2>1, <3>1, <3>2 DEF Live, IInv, TypeOK
    <3>3. CASE x # c /\ IdOf[x] # IdOf[c]
      BY <1>1, <2>1, <3>1, <3>3 DEF Live, IInv, TypeOK, MapTracksLive
    <3>4. CASE x # c /\ IdOf[x] = IdOf[c]
      <4>1. calls[IdOf[x]] = NoCall
        BY <3>4, ManagerAssumption
      <4>2. ~Live(x)
        BY <3>1, <4>1 DEF IInv, MapTracksLive
      <4> QED BY <1>1, <2>1, <3>1, <3>4, <4>2 DEF Live, IInv, TypeOK
    <3> QED BY <3>2, <3>3, <3>4
  <2> QED BY <2>2 DEF MapTracksLive
<1>8. WgCounts'
  <2>0. /\ call'[c].pc = "bridge" /\ call[c].pc = "none"
        /\ \A x \in Reqs \ {c} : call'[x].pc = call[x].pc
    BY <1>1, <1>2, <1>3
  <2>1. Counted' = Counted \cup {c} /\ c \notin Counted
    BY <2>0 DEF Counted
  <2>2. Cardinality(Counted \cup {c}) = Cardinality(Counted) + 1
    BY <2>1, CountedFinite, FS_AddElement, Zenon
  <2> QED BY <2>1, <2>2 DEF IInv, WgCounts, Register
<1>9. \A s \in stops' : StopOK(s)'
  BY <1>1, <1>2, StopsStay
<1>10. HandlersOK'
  BY <1>1, <1>2 DEF IInv, HandlersOK, WaiterOK, TypeOK, Reqs
<1> QED BY <1>6, <1>7, <1>8, <1>9, <1>10 DEF IInv

\* A handler step that changes no Call object (an early return, a wait that
\* ends) keeps the invariant when it may be at its new location.
LEMMA HandlerOnly ==
  ASSUME IInv, TypeOK', NEW c \in Reqs,
         UNCHANGED <<calls, wg, call, stops, connects>>,
         \A x \in Reqs \ {c} : rpc'[x] = rpc[x],
         \A x \in AcceptReqs \ {c} : on'[x] = on[x],
         OwnerOK(c, call[c], rpc'[c]),
         c \in AcceptReqs => WaiterOK(c, rpc'[c], on'[c], call[c])
  PROVE  IInv'
<1>1. Set(c, call[c])
  BY DEF Set, IInv, TypeOK
<1>2. FlagsOK(call[c]) /\ SetupOK(call[c]) /\ Keeps(call[c], call[c])
  BY DEF IInv, ObjectOK, Keeps
<1> QED BY <1>1, <1>2, HandlerStep

\* Where Return and WaitOrReturn leave the handler of an Accept.
LEMMA ReturnAt ==
  ASSUME TypeOK, NEW a \in AcceptReqs
  PROVE  /\ Return(a) =>
              /\ rpc'[a] = "returned" /\ on'[a] = NoCall
              /\ \A x \in Reqs \ {a} : rpc'[x] = rpc[x]
              /\ \A x \in AcceptReqs \ {a} : on'[x] = on[x]
         /\ \A c : WaitOrReturn(a, c) =>
              /\ \/ rpc'[a] = "returned" /\ on'[a] = NoCall
                 \/ rpc'[a] = "waiting" /\ on'[a] = c
              /\ \A x \in Reqs \ {a} : rpc'[x] = rpc[x]
              /\ \A x \in AcceptReqs \ {a} : on'[x] = on[x]
BY DEF Return, WaitOrReturn, TypeOK, Reqs

\* A request's own object is not in Manager.calls before it is registered.
LEMMA NotYetMapped ==
  ASSUME IInv, NEW c \in Reqs, call[c].pc = "none"
  PROVE  calls[IdOf[c]] # c
BY DEF IInv, MapTracksLive, Live

\* Accept's first look at Manager.calls and draining keeps the invariant.
LEMMA AcceptCheckIInv ==
  ASSUME IInv, TypeOK', NEW a \in AcceptReqs, AcceptCheck(a)
  PROVE  IInv'
<1>1. /\ a \in Reqs /\ a # NoCall /\ rpc[a] = "idle"
      /\ UNCHANGED <<calls, wg, call, stops, connects>>
  BY ManagerAssumption DEF Reqs, AcceptCheck, mgrVars
<1>2. OwnerOK(a, call[a], "idle") /\ TypeOK
  BY <1>1 DEF IInv, ObjectOK
<1>3. call[a].pc = "none" /\ calls[IdOf[a]] # a
  BY <1>1, <1>2, NotYetMapped DEF OwnerOK
<1>4. /\ rpc'[a] \in {"returned", "waiting", "listen"}
      /\ rpc'[a] = "waiting" => on'[a] # a
      /\ \A x \in Reqs \ {a} : rpc'[x] = rpc[x]
      /\ \A x \in AcceptReqs \ {a} : on'[x] = on[x]
  <2>1. CASE Return(a)
    BY <1>2, <2>1, ReturnAt
  <2>2. CASE WaitOrReturn(a, calls[IdOf[a]])
    BY <1>2, <1>3, <2>2, ReturnAt
  <2>3. CASE rpc' = [rpc EXCEPT ![a] = "listen"] /\ UNCHANGED on
    BY <1>1, <1>2, <2>3 DEF TypeOK
  <2> QED BY <2>1, <2>2, <2>3 DEF AcceptCheck
<1>5. OwnerOK(a, call[a], rpc'[a])
  BY <1>2, <1>4, ManagerAssumption, Zenon DEF OwnerOK, Quiet, Outbound
<1>6. WaiterOK(a, rpc'[a], on'[a], call[a])
  BY <1>4 DEF WaiterOK
<1> QED BY <1>1, <1>4, <1>5, <1>6, HandlerOnly

\* Accept opening its socket and answering the offer keeps the invariant.
LEMMA AcceptSetupIInv ==
  ASSUME IInv, TypeOK', NEW a \in AcceptReqs,
         AcceptListen(a) \/ AcceptNegotiate(a)
  PROVE  IInv'
<1> DEFINE r == call[a]
<1>1. /\ a \in Reqs /\ a # NoCall /\ r \in CallType /\ TypeOK /\ ~Outbound(a)
      /\ UNCHANGED <<calls, wg, stops, connects>>
      /\ OwnerOK(a, r, rpc[a]) /\ FlagsOK(r) /\ SetupOK(r)
  BY ManagerAssumption DEF Reqs, AcceptListen, AcceptNegotiate, mgrVars, IInv,
     TypeOK, ObjectOK, Outbound
<1>2. /\ rpc'[a] \in {"returned", "negotiate", "register"}
      /\ \A x \in Reqs \ {a} : rpc'[x] = rpc[x]
      /\ \A x \in AcceptReqs \ {a} : on'[x] = on[x]
      /\ Return(a) => rpc'[a] = "returned"
  BY <1>1, ReturnAt DEF AcceptListen, AcceptNegotiate, TypeOK
<1>3. \A q : WaiterOK(a, rpc'[a], on'[a], q)
  BY <1>2 DEF WaiterOK
<1>s. ASSUME NEW q, Set(a, q), FlagsOK(q), SetupOK(q), Keeps(r, q),
             OwnerOK(a, q, rpc'[a])
      PROVE  IInv'
  BY <1>1, <1>2, <1>3, <1>s, HandlerStep, Zenon
<1> HIDE DEF r
<1>4. CASE AcceptListen(a)
  <2>1. CASE Return(a) /\ UNCHANGED call
    <3>1. OwnerOK(a, r, rpc'[a])
      BY <1>1, <1>2, <1>4, <2>1 DEF OwnerOK, AcceptListen, Quiet
    <3> QED BY <1>1, <1>2, <1>3, <2>1, <3>1, HandlerOnly, Zenon DEF r
  <2>2. CASE rpc' = [rpc EXCEPT ![a] = "negotiate"]
             /\ Set(a, [r EXCEPT !.udp = "open"])
    <3> DEFINE q == [r EXCEPT !.udp = "open"]
    <3>1. rpc'[a] = "negotiate"
      BY <1>1, <2>2 DEF TypeOK
    <3>2. FlagsOK(q) /\ SetupOK(q) /\ Keeps(r, q)
      BY <1>1, <1>4 DEF AcceptListen, OwnerOK, FlagsOK, SetupOK, Keeps, Told,
         AfterSnapshot, CallType
    <3>3. OwnerOK(a, q, rpc'[a])
      BY <1>1, <1>4, <3>1 DEF AcceptListen, OwnerOK, CallType
    <3> QED BY <2>2, <3>2, <3>3, <1>s
  <2> QED BY <1>4, <2>1, <2>2 DEF AcceptListen, r
<1>5. CASE AcceptNegotiate(a)
  <2>1. CASE Return(a) /\ Set(a, [r EXCEPT !.udp = "closed"])
    <3> DEFINE q == [r EXCEPT !.udp = "closed"]
    <3>1. FlagsOK(q) /\ SetupOK(q) /\ Keeps(r, q)
      BY <1>1, <1>5 DEF AcceptNegotiate, OwnerOK, FlagsOK, SetupOK, Keeps, Told,
         AfterSnapshot, CallType
    <3>2. OwnerOK(a, q, rpc'[a])
      BY <1>1, <1>2, <1>5, <2>1 DEF AcceptNegotiate, OwnerOK, Quiet, CallType
    <3> QED BY <2>1, <3>1, <3>2, <1>s
  <2>2. CASE rpc' = [rpc EXCEPT ![a] = "register"]
             /\ Set(a, [r EXCEPT !.transport = "new"])
    <3> DEFINE q == [r EXCEPT !.transport = "new"]
    <3>1. rpc'[a] = "register"
      BY <1>1, <2>2 DEF TypeOK
    <3>2. FlagsOK(q) /\ SetupOK(q) /\ Keeps(r, q)
      BY <1>1, <1>5 DEF AcceptNegotiate, OwnerOK, FlagsOK, SetupOK, Keeps, Told,
         AfterSnapshot, CallType
    <3>3. OwnerOK(a, q, rpc'[a])
      BY <1>1, <1>5, <3>1 DEF AcceptNegotiate, OwnerOK, CallType
    <3> QED BY <2>2, <3>2, <3>3, <1>s
  <2> QED BY <1>5, <2>1, <2>2 DEF AcceptNegotiate, r
<1> QED BY <1>4, <1>5

\* Accept's second look at Manager.calls keeps the invariant.
LEMMA AcceptRegisterIInv ==
  ASSUME IInv, TypeOK', NEW a \in AcceptReqs, AcceptRegister(a)
  PROVE  IInv'
<1>1. /\ a \in Reqs /\ a \notin DialReqs /\ TypeOK /\ rpc[a] = "register"
      /\ UNCHANGED <<stops, connects>>
  BY ManagerAssumption DEF Reqs, AcceptRegister, IInv
<1>2. OwnerOK(a, call[a], "register")
  BY <1>1 DEF IInv, ObjectOK
<1>3. CASE calls[IdOf[a]] = NoCall /\ Register(a) /\ WaitOrReturn(a, a)
  <2>1. /\ rpc'[a] \in {"waiting", "returned"}
        /\ \A x \in Reqs \ {a} : rpc'[x] = rpc[x]
        /\ \A x \in AcceptReqs \ {a} : on'[x] = on[x]
    BY <1>1, <1>3, ReturnAt
  <2> QED BY <1>1, <1>3, <2>1, RegisterIInv
<1>4. CASE /\ rpc' = [rpc EXCEPT ![a] = "discard"]
           /\ on' = [on EXCEPT ![a] = calls[IdOf[a]]]
           /\ UNCHANGED <<mgrVars, call>>
  <2>1. calls[IdOf[a]] # a
    BY <1>1, <1>2, NotYetMapped DEF OwnerOK
  <2>2. /\ rpc'[a] = "discard" /\ on'[a] # a
        /\ \A x \in Reqs \ {a} : rpc'[x] = rpc[x]
        /\ \A x \in AcceptReqs \ {a} : on'[x] = on[x]
    BY <1>1, <1>4, <2>1 DEF TypeOK
  <2>3. OwnerOK(a, call[a], rpc'[a]) /\ WaiterOK(a, rpc'[a], on'[a], call[a])
    BY <1>1, <1>2, <2>2 DEF OwnerOK, WaiterOK, Outbound
  <2> QED BY <1>1, <1>4, <2>2, <2>3, HandlerOnly DEF mgrVars
<1> QED BY <1>3, <1>4 DEF AcceptRegister

\* A duplicate Accept that closes what it made keeps the invariant.
LEMMA AcceptDiscardIInv ==
  ASSUME IInv, TypeOK', NEW a \in AcceptReqs, AcceptDiscard(a)
  PROVE  IInv'
<1> DEFINE q == Cancel(CloseTransport(call[a]), "self")
<1>1. /\ a \in Reqs /\ ~Outbound(a) /\ TypeOK /\ call[a] \in CallType
      /\ rpc[a] = "discard" /\ Set(a, q) /\ on[a] # a /\ a # NoCall
      /\ OwnerOK(a, call[a], "discard") /\ FlagsOK(call[a])
      /\ UNCHANGED <<calls, wg, stops, connects>>
  BY ManagerAssumption DEF Reqs, AcceptDiscard, IInv, TypeOK, ObjectOK, Outbound,
     mgrVars, HandlersOK, WaiterOK
<1>2. /\ rpc'[a] \in {"waiting", "returned"} /\ on'[a] # a
      /\ \A x \in Reqs \ {a} : rpc'[x] = rpc[x]
      /\ \A x \in AcceptReqs \ {a} : on'[x] = on[x]
  BY <1>1, ReturnAt DEF AcceptDiscard
<1>6. /\ q.pc = "none" /\ q.cancelled = "self" /\ q.termToken = "no"
      /\ q.ready = "open" /\ q.bridge = "none" /\ ~q.signaled
      /\ q.transport = "closed" /\ q.udp = "closed"
      /\ q.terminate = call[a].terminate
      /\ q.userTerminated = call[a].userTerminated /\ q.token = call[a].token
  BY <1>1 DEF OwnerOK, Cancel, CloseTransport, CallType
<1>7. call[a].pc = "none"
  BY <1>1, Zenon DEF OwnerOK
<1> HIDE DEF q
<1>3. FlagsOK(q) /\ SetupOK(q) /\ Keeps(call[a], q)
  <2>1. FlagsOK(q)
    BY <1>1, <1>6 DEF FlagsOK, AfterSnapshot
  <2>2. SetupOK(q)
    BY <1>6 DEF SetupOK, AfterSnapshot
  <2>3. Keeps(call[a], q)
    BY <1>6, <1>7 DEF Keeps, Told
  <2> QED BY <2>1, <2>2, <2>3
<1>4. OwnerOK(a, q, rpc'[a])
  BY <1>1, <1>2, <1>6, Zenon DEF OwnerOK, Quiet
<1>5. WaiterOK(a, rpc'[a], on'[a], q)
  BY <1>2 DEF WaiterOK
<1> QED BY <1>1, <1>2, <1>3, <1>4, <1>5, HandlerStep, Zenon

\* The end of an Accept's wait keeps the invariant.
LEMMA AcceptWaitIInv ==
  ASSUME IInv, TypeOK', NEW a \in AcceptReqs,
         AcceptReady(a) \/ AcceptCallerGone(a)
  PROVE  IInv'
<1>1. /\ a \in Reqs /\ ~Outbound(a) /\ TypeOK /\ a # NoCall
      /\ rpc[a] = "waiting" /\ OwnerOK(a, call[a], "waiting")
      /\ WaiterOK(a, "waiting", on[a], call[a])
      /\ UNCHANGED <<calls, wg, call, stops, connects>>
  BY ManagerAssumption DEF Reqs, AcceptReady, AcceptCallerGone, IInv, ObjectOK,
     Outbound, mgrVars, HandlersOK
<1>2. CASE Return(a)
  <2>1. /\ rpc'[a] = "returned" /\ on'[a] = NoCall
        /\ \A x \in Reqs \ {a} : rpc'[x] = rpc[x]
        /\ \A x \in AcceptReqs \ {a} : on'[x] = on[x]
    BY <1>1, <1>2, ReturnAt, Zenon
  <2>2. OwnerOK(a, call[a], rpc'[a]) /\ WaiterOK(a, rpc'[a], on'[a], call[a])
    BY <1>1, <2>1 DEF OwnerOK, WaiterOK
  <2> QED BY <1>1, <2>1, <2>2, HandlerOnly, Zenon
<1>3. CASE on[a] = a /\ rpc' = [rpc EXCEPT ![a] = "stop"] /\ UNCHANGED on
  <2>1. /\ rpc'[a] = "stop"
        /\ \A x \in Reqs \ {a} : rpc'[x] = rpc[x]
    BY <1>1, <1>3 DEF TypeOK
  <2>2. OwnerOK(a, call[a], rpc'[a]) /\ WaiterOK(a, rpc'[a], on'[a], call[a])
    BY <1>1, <1>3, <2>1, Zenon DEF OwnerOK, WaiterOK
  <2> QED BY <1>1, <1>3, <2>1, <2>2, HandlerOnly
<1> QED BY <1>2, <1>3 DEF AcceptReady, AcceptCallerGone, WaitFailed

\* The stopBusiness of an Accept whose wait failed keeps the invariant.
LEMMA AcceptStopIInv ==
  ASSUME IInv, TypeOK', NEW a \in AcceptReqs, AcceptStop(a) \/ AcceptCancel(a)
  PROVE  IInv'
<1> DEFINE r == call[a]
<1>1. /\ a \in Reqs /\ ~Outbound(a) /\ TypeOK /\ r \in CallType
      /\ UNCHANGED <<calls, wg, stops, connects>>
      /\ OwnerOK(a, r, rpc[a]) /\ FlagsOK(r) /\ SetupOK(r)
  BY ManagerAssumption DEF Reqs, AcceptStop, AcceptCancel, mgrVars, IInv, TypeOK,
     ObjectOK, Outbound
<1> HIDE DEF r
<1>2. CASE AcceptStop(a)
  <2> DEFINE q == StopBusiness(r)
  <2>1. /\ rpc[a] = "stop" /\ rpc'[a] = "cancel" /\ Set(a, q)
        /\ \A x \in Reqs \ {a} : rpc'[x] = rpc[x]
        /\ on' = on
    BY <1>1, <1>2, Zenon DEF AcceptStop, TypeOK, r
  <2>2. FlagsOK(q) /\ SetupOK(q) /\ Keeps(r, q)
    BY <1>1 DEF StopBusiness, FlagsOK, SetupOK, Keeps, Told, Quiet,
       AfterSnapshot, CallType
  <2>3. OwnerOK(a, q, rpc'[a])
    BY <1>1, <2>1, Zenon DEF StopBusiness, OwnerOK, Told, CallType
  <2>4. WaiterOK(a, rpc'[a], on'[a], q)
    BY <2>1, Zenon DEF WaiterOK
  <2> HIDE DEF q
  <2> QED BY <1>1, <2>1, <2>2, <2>3, <2>4, HandlerStep, Zenon DEF r
<1>3. CASE AcceptCancel(a)
  <2> DEFINE q == Cancel(r, "self")
  <2>1. /\ rpc[a] = "cancel" /\ rpc'[a] = "returned" /\ Set(a, q)
        /\ \A x \in Reqs \ {a} : rpc'[x] = rpc[x]
        /\ \A x \in AcceptReqs \ {a} : on'[x] = on[x]
    BY <1>1, <1>3, ReturnAt DEF AcceptCancel, r
  <2>2. FlagsOK(q) /\ SetupOK(q) /\ Keeps(r, q)
    BY <1>1, <2>1 DEF OwnerOK, Cancel, FlagsOK, SetupOK, Keeps, Told, Quiet,
       AfterSnapshot, CallType
  <2>3. OwnerOK(a, q, rpc'[a])
    BY <1>1, <2>1 DEF Cancel, OwnerOK, Told, CallType
  <2>4. WaiterOK(a, rpc'[a], on'[a], q)
    BY <2>1 DEF WaiterOK
  <2> HIDE DEF q
  <2> QED BY <1>1, <2>1, <2>2, <2>3, <2>4, HandlerStep, Zenon DEF r
<1> QED BY <1>2, <1>3

\* Dial up to Meta's reply keeps the invariant.
LEMMA DialSetupIInv ==
  ASSUME IInv, TypeOK', NEW d \in DialReqs,
         DialCheck(d) \/ DialListen(d) \/ DialNegotiate(d) \/ DialMeta(d)
  PROVE  IInv'
<1> DEFINE r == call[d]
<1>1. /\ d \in Reqs /\ d \notin AcceptReqs /\ Outbound(d) /\ TypeOK
      /\ r \in CallType /\ UNCHANGED <<calls, wg, on, stops, connects>>
      /\ OwnerOK(d, r, rpc[d]) /\ FlagsOK(r) /\ SetupOK(r)
  BY ManagerAssumption, Zenon
  DEF Reqs, DialCheck, DialListen, DialNegotiate, DialMeta,
     mgrVars, IInv, TypeOK, ObjectOK, Outbound
<1>o. ASSUME NEW loc \in RpcLocs, rpc' = [rpc EXCEPT ![d] = loc],
             UNCHANGED call, OwnerOK(d, r, loc)
      PROVE  IInv'
  <2>1. rpc'[d] = loc /\ \A x \in Reqs \ {d} : rpc'[x] = rpc[x]
    BY <1>1, <1>o DEF TypeOK
  <2> QED BY <1>1, <1>o, <2>1, HandlerOnly
<1>s. ASSUME NEW loc \in RpcLocs, NEW q, rpc' = [rpc EXCEPT ![d] = loc],
             Set(d, q), FlagsOK(q), SetupOK(q), Keeps(r, q), OwnerOK(d, q, loc)
      PROVE  IInv'
  <2>1. rpc'[d] = loc /\ \A x \in Reqs \ {d} : rpc'[x] = rpc[x]
    BY <1>1, <1>s DEF TypeOK
  <2> QED BY <1>1, <1>s, <2>1, HandlerStep
<1> HIDE DEF r
<1>2. CASE DialCheck(d)
  <2>1. OwnerOK(d, r, "returned") /\ OwnerOK(d, r, "listen")
    BY <1>1, <1>2 DEF DialCheck, OwnerOK, Quiet
  <2>2. \E loc \in {"returned", "listen"} : rpc' = [rpc EXCEPT ![d] = loc]
    BY <1>2, Zenon DEF DialCheck
  <2> QED BY <1>2, <2>1, <2>2, <1>o, Zenon DEF DialCheck, RpcLocs
<1>3. CASE DialListen(d)
  <2>1. OwnerOK(d, r, "returned")
    BY <1>1, <1>3 DEF DialListen, OwnerOK, Quiet
  <2> DEFINE q == [r EXCEPT !.udp = "open"]
  <2>2. FlagsOK(q) /\ SetupOK(q) /\ Keeps(r, q)
    BY <1>1, <1>3 DEF DialListen, OwnerOK, FlagsOK, SetupOK, Keeps, Told,
       AfterSnapshot, CallType
  <2>3. OwnerOK(d, q, "negotiate")
    BY <1>1, <1>3 DEF DialListen, OwnerOK, CallType
  <2>4. CASE rpc' = [rpc EXCEPT ![d] = "negotiate"] /\ Set(d, q)
    BY <2>2, <2>3, <2>4, <1>s DEF RpcLocs
  <2>5. CASE rpc' = [rpc EXCEPT ![d] = "returned"] /\ UNCHANGED call
    BY <2>1, <2>5, <1>o DEF RpcLocs
  <2> QED BY <1>3, <2>4, <2>5 DEF DialListen, r
<1>4. CASE DialNegotiate(d)
  <2>1. OwnerOK(d, r, "dial")
    BY <1>1, <1>4 DEF DialNegotiate, OwnerOK
  <2> DEFINE q == [r EXCEPT !.udp = "closed"]
  <2>2. FlagsOK(q) /\ SetupOK(q) /\ Keeps(r, q)
    BY <1>1, <1>4 DEF DialNegotiate, OwnerOK, FlagsOK, SetupOK, Keeps, Told,
       AfterSnapshot, CallType
  <2>3. OwnerOK(d, q, "returned")
    BY <1>1, <1>4 DEF DialNegotiate, OwnerOK, Quiet, CallType
  <2>4. CASE rpc' = [rpc EXCEPT ![d] = "dial"] /\ UNCHANGED call
    BY <2>1, <2>4, <1>o DEF RpcLocs
  <2>5. CASE rpc' = [rpc EXCEPT ![d] = "returned"] /\ Set(d, q)
    BY <2>2, <2>3, <2>5, <1>s DEF RpcLocs
  <2> QED BY <1>4, <2>4, <2>5 DEF DialNegotiate, r
<1>5. CASE DialMeta(d)
  <2>1. CASE /\ rpc' = [rpc EXCEPT ![d] = "register"]
             /\ Set(d, [r EXCEPT !.signaled = TRUE, !.meta = "open"])
    <3> DEFINE q == [r EXCEPT !.signaled = TRUE, !.meta = "open"]
    <3>1. FlagsOK(q) /\ SetupOK(q) /\ Keeps(r, q)
      BY <1>1, <1>5, Zenon DEF DialMeta, OwnerOK, FlagsOK, SetupOK, Keeps, Told,
         AfterSnapshot, CallType
    <3>2. OwnerOK(d, q, "register")
      BY <1>1, <1>5, Zenon DEF DialMeta, OwnerOK, CallType
    <3> QED BY <2>1, <3>1, <3>2, <1>s DEF RpcLocs
  <2>2. ASSUME NEW m, rpc' = [rpc EXCEPT ![d] = "returned"],
               Set(d, [r EXCEPT !.udp = "closed", !.meta = m])
        PROVE  IInv'
    <3> DEFINE q == [r EXCEPT !.udp = "closed", !.meta = m]
    <3>1. FlagsOK(q) /\ SetupOK(q) /\ Keeps(r, q)
      BY <1>1, <1>5, Zenon DEF DialMeta, OwnerOK, FlagsOK, SetupOK, Keeps, Told,
         AfterSnapshot, CallType
    <3>2. OwnerOK(d, q, "returned")
      BY <1>1, <1>5, Zenon DEF DialMeta, OwnerOK, Quiet, CallType
    <3> QED BY <2>2, <3>1, <3>2, <1>s DEF RpcLocs
  <2> QED BY <1>5, <2>1, <2>2, Zenon DEF DialMeta, r
<1> QED BY <1>2, <1>3, <1>4, <1>5

\* Dial registering its call, or ending it because the manager drains, keeps
\* the invariant.
LEMMA DialRegisterIInv ==
  ASSUME IInv, TypeOK', NEW d \in DialReqs, DialRegister(d)
  PROVE  IInv'
<1> DEFINE r == call[d]
<1>1. /\ d \in Reqs /\ d \notin AcceptReqs /\ Outbound(d) /\ TypeOK
      /\ r \in CallType /\ UNCHANGED <<on, stops, connects>>
      /\ rpc[d] = "register" /\ OwnerOK(d, r, rpc[d])
      /\ FlagsOK(r) /\ SetupOK(r)
  BY ManagerAssumption DEF Reqs, DialRegister, IInv, TypeOK, ObjectOK, Outbound
<1>2. rpc'[d] = "returned" /\ \A x \in Reqs \ {d} : rpc'[x] = rpc[x]
  BY <1>1 DEF DialRegister, TypeOK
<1>3. CASE Register(d)
  BY <1>1, <1>2, <1>3, RegisterIInv
<1>4. ASSUME NEW m, UNCHANGED mgrVars,
             Set(d, [SignalReady(Cancel(StopBusiness(r), "self"), "err")
                       EXCEPT !.termToken = "orig", !.meta = m,
                              !.udp = "closed"])
      PROVE  IInv'
  <2> DEFINE q == [SignalReady(Cancel(StopBusiness(r), "self"), "err")
                     EXCEPT !.termToken = "orig", !.meta = m, !.udp = "closed"]
  <2>0. /\ q.pc = "none" /\ q.cancelled = "self" /\ q.termToken = "orig"
        /\ q.terminate = (r.terminate \/ ~r.userTerminated)
        /\ q.userTerminated = r.userTerminated /\ q.signaled = r.signaled
        /\ q.ready = "err" /\ q.transport = "none" /\ q.bridge = "none"
        /\ q.udp = "closed" /\ q.token = r.token /\ r.pc = "none"
    BY <1>1 DEF SignalReady, Cancel, StopBusiness, OwnerOK, CallType
  <2> HIDE DEF q
  <2>1. FlagsOK(q) /\ SetupOK(q) /\ Keeps(r, q)
    <3>1. FlagsOK(q)
      BY <1>1, <2>0, Zenon DEF FlagsOK, AfterSnapshot
    <3>2. SetupOK(q)
      BY <2>0 DEF SetupOK
    <3>3. Keeps(r, q)
      BY <2>0, Zenon DEF Keeps, Told
    <3> QED BY <3>1, <3>2, <3>3
  <2>2. OwnerOK(d, q, rpc'[d])
    BY <1>1, <1>2, <2>0 DEF OwnerOK, Quiet
  <2>3. Set(d, q) /\ UNCHANGED <<calls, wg>>
    BY <1>4 DEF q, mgrVars
  <2> QED BY <1>1, <1>2, <2>1, <2>2, <2>3, HandlerStep, Zenon
<1> QED BY <1>3, <1>4, Zenon DEF DialRegister

\* ApplyAnswer is good: a transport made before the snapshot comes with no
\* location that asks for none, one made after it is late.
LEMMA ApplyGood ==
  ASSUME NEW r \in CallType, FlagsOK(r), SetupOK(r), r.transport = "none"
  PROVE  Good(r, ApplyAnswer(r))
<1> DEFINE q == ApplyAnswer(r)
<1>1. /\ q.transport = IF r.pc \in AfterSnapshot THEN "late" ELSE "new"
      /\ q.pc = r.pc /\ q.cancelled = r.cancelled
      /\ q.terminate = r.terminate /\ q.userTerminated = r.userTerminated
      /\ q.signaled = r.signaled /\ q.ready = r.ready
      /\ q.bridge = r.bridge /\ q.udp = r.udp
      /\ q.token = r.token /\ q.termToken = r.termToken
  BY DEF ApplyAnswer, CallType
<1> HIDE DEF q
<1>2. FlagsOK(q)
  BY <1>1 DEF FlagsOK, Told
<1>3. SetupOK(q)
  BY <1>1 DEF SetupOK, Quiet, AfterSnapshot
<1>4. Keeps(r, q) /\ (r.signaled => q.signaled)
  BY <1>1 DEF Keeps, Told
<1> QED BY <1>2, <1>3, <1>4 DEF Good, q

\* A Connect handler keeps the invariant, also when the answer it applies
\* comes while cleanup runs.
LEMMA ConnectIInv ==
  ASSUME IInv, TypeOK', NEW c \in DialReqs,
         \/ ConnectLookup(c) \/ ConnectApply(c)
         \/ ConnectReady(c) \/ ConnectCallerGone(c)
  PROVE  IInv'
<1>1. /\ c \in Reqs /\ TypeOK /\ call[c] \in CallType
      /\ FlagsOK(call[c]) /\ SetupOK(call[c])
      /\ UNCHANGED <<calls, wg, rpc, on, stops>>
  BY DEF Reqs, IInv, TypeOK, ObjectOK, ConnectLookup, ConnectApply, ConnectReady,
     ConnectCallerGone, mgrVars
<1>2. CASE ConnectLookup(c)
  <2>1. call[c].pc # "none"
    BY <1>1, <1>2 DEF ConnectLookup, IInv, MapTracksLive, Live
  <2>5. UNCHANGED call /\ connects' = connects \cup {<<c, "apply">>}
    BY <1>2 DEF ConnectLookup
  <2>2. UNCHANGED call /\ \A x \in connects' \ connects : x = <<c, "apply">>
    BY <2>5
  <2>3. \A x \in connects' \ connects : call[x[1]].pc # "none"
    BY <2>1, <2>2
  <2>4. UNCHANGED <<calls, wg, call, rpc, on>> /\ stops' \ stops = {}
    BY <1>1, <2>2
  <2> QED BY <2>3, <2>4, BesideStep, Zenon
<1>3. CASE ConnectApply(c)
  <2>1. call[c].pc # "none"
    BY <1>3 DEF ConnectApply, IInv, HandlersOK
  <2>5. connects' \subseteq connects \cup {<<c, "wait">>}
    BY <1>3, Zenon DEF ConnectApply
  <2>2. \A x \in connects' \ connects : x = <<c, "wait">>
    BY <2>5
  <2>3. CASE UNCHANGED call
    <3>1. \A x \in connects' \ connects : call[x[1]].pc # "none"
      BY <2>1, <2>2
    <3>2. UNCHANGED <<calls, wg, call, rpc, on>> /\ stops' \ stops = {}
      BY <1>1, <2>3
    <3> QED BY <3>1, <3>2, BesideStep
  <2>4. CASE call[c].transport = "none" /\ Set(c, ApplyAnswer(call[c]))
    <3> DEFINE q == ApplyAnswer(call[c])
    <3>1. Good(call[c], q)
      BY <1>1, <2>4, ApplyGood, Zenon
    <3>2. call'[c] = q /\ q.pc # "none"
      BY <1>1, <2>1, <2>4, <3>1 DEF Set, TypeOK, Good, Keeps
    <3> HIDE DEF q
    <3>3. ASSUME NEW x \in connects' \ connects
          PROVE  call'[x[1]].pc # "none"
      <4>1. x[1] = c
        BY <2>2
      <4> QED BY <3>2, <4>1, Zenon
    <3> QED BY <1>1, <2>1, <2>4, <3>1, <3>3, GoodStep, Zenon DEF q
  <2> QED BY <1>3, <2>3, <2>4 DEF ConnectApply
<1>4. CASE ConnectReady(c) \/ ConnectCallerGone(c)
  <2>1. UNCHANGED call /\ connects' \ connects = {}
    BY <1>4 DEF ConnectReady, ConnectCallerGone
  <2> QED BY <1>1, <2>1, BesideStep, Zenon
<1> QED BY <1>2, <1>3, <1>4

\* A Disconnect that finds its call, and a LiveKit callback, keep the
\* invariant: the stop they start acts on a registered call.
LEMMA DisconnectIInv ==
  ASSUME IInv, TypeOK', NEW c \in Reqs,
         \/ \E kind \in {"user", "business"}, t \in BOOLEAN :
              DisconnectLookup(c, kind, t)
         \/ RoomDisconnected(c)
  PROVE  IInv'
<1>1. /\ TypeOK /\ call[c] \in CallType /\ FlagsOK(call[c]) /\ SetupOK(call[c])
      /\ UNCHANGED <<calls, wg, rpc, on, connects>>
  BY DEF IInv, TypeOK, ObjectOK, DisconnectLookup, RoomDisconnected, mgrVars
<1>2. call[c].pc # "none"
  BY DEF DisconnectLookup, RoomDisconnected, IInv, MapTracksLive, Live
<1>3. \A s \in stops' \ stops :
        /\ s.call = c /\ s.at # "cancel"
        /\ s.kind = "business" => s.at = "token"
  BY DEF DisconnectLookup, RoomDisconnected
<1>s. ASSUME NEW q, Set(c, q), Good(call[c], q)
      PROVE  IInv'
  <2>1. call'[c] = q /\ q.pc # "none"
    BY <1>1, <1>2, <1>s DEF Set, TypeOK, Good, Keeps
  <2>2. \A s \in stops' \ stops : StopOK(s)'
    BY <1>3, <2>1 DEF StopOK
  <2> QED BY <1>1, <1>2, <1>s, <2>2, GoodStep, Zenon
<1>4. Good(call[c], [call[c] EXCEPT !.meta = "ended"])
  <2> DEFINE q == [call[c] EXCEPT !.meta = "ended"]
  <2>1. q.pc = call[c].pc /\ SameButPc(call[c], q)
    BY <1>1 DEF SameButPc, CallType
  <2> HIDE DEF q
  <2>2. FlagsOK(q)
    BY <1>1, <2>1 DEF SameButPc, FlagsOK, Told
  <2>3. SetupOK(q)
    BY <1>1, <2>1 DEF SameButPc, SetupOK, Quiet
  <2>4. Keeps(call[c], q) /\ (call[c].signaled => q.signaled)
    BY <2>1 DEF SameButPc, Keeps, Told
  <2> QED BY <2>2, <2>3, <2>4 DEF Good, q
<1>5. Good(call[c], call[c])
  BY <1>1 DEF Good, Keeps
<1>6. Good(call[c], [call[c] EXCEPT !.bridge =
                IF @ = "up" \/ call[c].pc = "bridge" THEN "dropped" ELSE @])
  <2> DEFINE r == call[c]
             q == [call[c] EXCEPT !.bridge =
                     IF @ = "up" \/ call[c].pc = "bridge" THEN "dropped" ELSE @]
  <2>1. /\ q.bridge = IF r.bridge = "up" \/ r.pc = "bridge" THEN "dropped"
                      ELSE r.bridge
        /\ q.pc = r.pc /\ q.cancelled = r.cancelled
        /\ q.terminate = r.terminate /\ q.userTerminated = r.userTerminated
        /\ q.signaled = r.signaled /\ q.ready = r.ready
        /\ q.transport = r.transport /\ q.udp = r.udp
        /\ q.token = r.token /\ q.termToken = r.termToken
    BY <1>1 DEF CallType
  <2>0. FlagsOK(r) /\ SetupOK(r)
    BY <1>1
  <2> HIDE DEF q, r
  <2>2. FlagsOK(q)
    BY <2>0, <2>1 DEF FlagsOK, Told
  <2>3. SetupOK(q)
    BY <2>0, <2>1 DEF SetupOK, Quiet, AfterSnapshot
  <2>4. Keeps(r, q) /\ (r.signaled => q.signaled)
    BY <2>1 DEF Keeps, Told
  <2> QED BY <2>2, <2>3, <2>4 DEF Good, q, r
<1>7. CASE RoomDisconnected(c)
  BY <1>6, <1>7, <1>s DEF RoomDisconnected
<1>8. ASSUME NEW kind, NEW t, DisconnectLookup(c, kind, t)
      PROVE  IInv'
  BY <1>4, <1>5, <1>8, <1>s DEF DisconnectLookup
<1> QED BY <1>7, <1>8

\* A step of a stopUser or stopBusiness run keeps the invariant: it cancels
\* the context only after it has set its flag.
LEMMA StopIInv ==
  ASSUME IInv, TypeOK', NEW s \in stops, Stop(s)
  PROVE  IInv'
<1> DEFINE c == s.call
           r == call[c]
<1>1. /\ TypeOK /\ s \in StopType /\ c \in Reqs /\ r \in CallType
      /\ FlagsOK(r) /\ SetupOK(r) /\ StopOK(s)
      /\ UNCHANGED <<calls, wg, rpc, on, connects>>
  BY DEF IInv, TypeOK, StopType, ObjectOK, Stop, mgrVars
<1>2. r.pc # "none"
  BY <1>1 DEF StopOK
<1> HIDE DEF c, r
<1>s. ASSUME NEW q, Set(c, q), Good(r, q),
             \A x \in stops' \ stops :
               /\ x.call = c
               /\ x.kind = "user" /\ x.at = "cancel" => q.userTerminated
               /\ x.kind = "business" /\ x.at # "token" => q.token = "fresh"
               /\ x.at = "cancel" => Told(q)
      PROVE  IInv'
  <2>1. call'[c] = q /\ q.pc # "none"
    BY <1>1, <1>2, <1>s DEF Set, TypeOK, Good, Keeps
  <2>2. \A x \in stops' \ stops : StopOK(x)'
    BY <1>s, <2>1 DEF StopOK
  <2> QED BY <1>1, <1>2, <1>s, <2>2, GoodStep, Zenon DEF r
<1>3. CASE /\ s.at = "token"
           /\ Set(c, [r EXCEPT !.token = "fresh"])
           /\ stops' = (stops \ {s}) \cup {[s EXCEPT !.at = "flag"]}
  <2> DEFINE q == [r EXCEPT !.token = "fresh"]
  <2>1. Good(r, q) /\ q.token = "fresh"
    BY <1>1 DEF Good, FlagsOK, SetupOK, Keeps, Told, Quiet, AfterSnapshot,
       CallType
  <2>2. \A x \in stops' \ stops : x.call = c /\ x.at = "flag"
    BY <1>1, <1>3 DEF StopType, c
  <2> HIDE DEF q
  <2> QED BY <1>3, <2>1, <2>2, <1>s, Zenon DEF q
<1>4. CASE /\ s.at = "flag"
           /\ Set(c, IF s.kind = "user" THEN StopUser(r) ELSE StopBusiness(r))
           /\ stops' = (stops \ {s}) \cup {[s EXCEPT !.at = "cancel"]}
  <2>1. \A x \in stops' \ stops : x.call = c /\ x.kind = s.kind /\ x.at = "cancel"
    BY <1>1, <1>4 DEF StopType, c
  <2>2. CASE s.kind = "user"
    <3> DEFINE q == StopUser(r)
    <3>1. Good(r, q)
      BY <1>1 DEF StopUser, Good, FlagsOK, SetupOK, Keeps, Told, Quiet,
         AfterSnapshot, CallType
    <3>2. q.userTerminated /\ Told(q)
      BY <1>1 DEF StopUser, Told, CallType
    <3> HIDE DEF q
    <3> QED BY <1>4, <2>1, <2>2, <3>1, <3>2, <1>s DEF q
  <2>3. CASE s.kind # "user"
    <3> DEFINE q == StopBusiness(r)
    <3>1. Good(r, q)
      BY <1>1 DEF StopBusiness, Good, FlagsOK, SetupOK, Keeps, Told, Quiet,
         AfterSnapshot, CallType
    <3>2. Told(q) /\ q.token = r.token
      BY <1>1, Zenon DEF StopBusiness, Told, CallType
    <3>3. s.kind = "business" => r.token = "fresh"
      BY <1>1, <1>4 DEF StopOK, r, c
    <3> HIDE DEF q
    <3> QED BY <1>4, <2>1, <2>3, <3>1, <3>2, <3>3, <1>s DEF q
  <2> QED BY <2>2, <2>3
<1>5. CASE /\ s.at = "cancel"
           /\ Set(c, Cancel(r, s.kind))
           /\ stops' = stops \ {s}
  <2> DEFINE k == s.kind
  <2>1. /\ k \in StopKinds /\ Told(r)
        /\ k = "user" => r.userTerminated
        /\ k = "business" => r.token = "fresh"
    BY <1>1, <1>5 DEF StopOK, StopType, r, c
  <2> HIDE DEF k
  <2>2. Good(r, Cancel(r, k))
    BY <1>1, <2>1 DEF StopKinds, Cancel, Good, FlagsOK, SetupOK, Keeps, Told,
       Quiet, AfterSnapshot, CallType
  <2>3. stops' \ stops = {}
    BY <1>5
  <2> QED BY <1>5, <2>2, <2>3, <1>s DEF k
<1> QED BY <1>3, <1>4, <1>5 DEF Stop, StopStep, c, r

\* main's steps keep the invariant: Shutdown stops calls of Manager.calls only.
LEMMA MainIInv ==
  ASSUME IInv, TypeOK', Signal \/ MainStep
  PROVE  IInv'
<1>1. UNCHANGED <<calls, wg, call, rpc, on, connects>>
  BY DEF Signal, MainStep, WindowExpires, BeginDrain, EndSweep, Exit, mgrVars
<1>2. \A s \in stops' \ stops :
        /\ s.call \in Reqs /\ calls[IdOf[s.call]] = s.call
        /\ s.kind = "shutdown" /\ s.at = "flag"
  <2>1. CASE BeginDrain
    <3>1. stops' = stops \cup
            {[call |-> c, kind |-> "shutdown", at |-> "flag"] :
               c \in {x \in Reqs : calls[IdOf[x]] = x}}
      BY <2>1, Zenon DEF BeginDrain
    <3> SUFFICES ASSUME NEW s \in stops' \ stops
                 PROVE  /\ s.call \in Reqs /\ calls[IdOf[s.call]] = s.call
                        /\ s.kind = "shutdown" /\ s.at = "flag"
      OBVIOUS
    <3>2. PICK c \in Reqs : /\ calls[IdOf[c]] = c
                            /\ s = [call |-> c, kind |-> "shutdown", at |-> "flag"]
      BY <3>1
    <3> QED BY <3>2
  <2>2. CASE ~BeginDrain
    <3>1. stops' = stops
      BY <2>2 DEF Signal, MainStep, WindowExpires, EndSweep, Exit
    <3> QED BY <3>1
  <2> QED BY <2>1, <2>2
<1>3. \A s \in stops' \ stops : StopOK(s)
  BY <1>2 DEF StopOK, IInv, MapTracksLive, Live
<1> QED BY <1>1, <1>3, BesideStep

\* Every step keeps the invariant.
LEMMA NextIInv == IInv /\ [Next]_vars => IInv'
<1> SUFFICES ASSUME IInv, [Next]_vars PROVE IInv'
  OBVIOUS
<1>1. TypeOK'
  <2>1. \A c \in Reqs : call[c].pc = "wgdone" => wg > 0
    BY WgPositive
  <2> QED BY <2>1, NextTypeOK DEF IInv
<1>2. CASE UNCHANGED vars
  BY <1>1, <1>2, BesideStep DEF vars
<1>3. ASSUME NEW a \in AcceptReqs,
             AcceptCheck(a) \/ AcceptStep(a) \/ AcceptCallerGone(a)
      PROVE  IInv'
  BY <1>1, <1>3, AcceptCheckIInv, AcceptSetupIInv, AcceptRegisterIInv,
     AcceptDiscardIInv, AcceptWaitIInv, AcceptStopIInv DEF AcceptStep
<1>4. ASSUME NEW d \in DialReqs, DialCheck(d) \/ DialStep(d)
      PROVE  IInv'
  BY <1>1, <1>4, DialSetupIInv, DialRegisterIInv DEF DialStep
<1>5. ASSUME NEW c \in DialReqs,
             \/ ConnectLookup(c) \/ ConnectApply(c)
             \/ ConnectReady(c) \/ ConnectCallerGone(c)
      PROVE  IInv'
  BY <1>1, <1>5, ConnectIInv
<1>6. ASSUME NEW c \in Reqs,
             \/ \E kind \in {"user", "business"}, t \in BOOLEAN :
                  DisconnectLookup(c, kind, t)
             \/ RoomDisconnected(c)
      PROVE  IInv'
  BY <1>1, <1>6, DisconnectIInv
<1>7. ASSUME NEW s \in stops, Stop(s) PROVE IInv'
  BY <1>1, <1>7, StopIInv
<1>8. ASSUME NEW c \in Reqs, RunStep(c) \/ MediaStops(c) PROVE IInv'
  BY <1>1, <1>8, RunLocalIInv, DeleteIInv, WgDoneIInv DEF RunStep, MediaStops
<1>9. CASE Signal \/ MainStep
  BY <1>1, <1>9, MainIInv
<1> QED BY <1>2, <1>3, <1>4, <1>5, <1>6, <1>7, <1>8, <1>9 DEF Next

-----------------------------------------------------------------------------
\* The invariant holds in every reachable state, for any requests and ids.
THEOREM InductiveInvariant == Spec => []IInv
BY InitIInv, NextIInv, PTL DEF Spec
=============================================================================
