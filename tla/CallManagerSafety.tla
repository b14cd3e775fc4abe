------------------------- MODULE CallManagerSafety -------------------------
(***************************************************************************)
(* What follows from the inductive invariant of CallManagerProofs: the       *)
(* safety of CallManager, that its steps undo nothing, and that it gives     *)
(* every call the life CallLife describes.                                   *)
(***************************************************************************)
EXTENDS CallManagerProofs

\* Every variable keeps its type; in particular wg.Done never takes
\* Manager.wg's counter below zero.
THEOREM TypeCorrect == Spec => []TypeOK
<1>1. IInv => TypeOK
  BY DEF IInv
<1> QED BY <1>1, InductiveInvariant, PTL

\* However many Accepts carry the same call id, the id maps to a call exactly
\* while that call's goroutine runs.
THEOREM OneGoroutinePerCallID == Spec => []MapTracksLive
<1>1. IInv => MapTracksLive
  BY DEF IInv
<1> QED BY <1>1, InductiveInvariant, PTL

\* Manager.wg counts the goroutines that have not called Done.
THEOREM WaitGroupCounts == Spec => []WgCounts
<1>1. IInv => WgCounts
  BY DEF IInv
<1> QED BY <1>1, InductiveInvariant, PTL

\* A hang-up Meta reported is not repeated to Meta, however many stopUser and
\* stopBusiness runs race.
THEOREM HangupNotRepeated == Spec => []UserHangupNotRepeated
<1>1. IInv => UserHangupNotRepeated
  BY DEF IInv, ObjectOK, FlagsOK, UserHangupNotRepeated
<1> QED BY <1>1, InductiveInvariant, PTL

\* No call Meta has set up ends without a Terminate, unless Meta hung up.
THEOREM NoCallDroppedSilently == Spec => []NoSilentDrop
<1>1. IInv => NoSilentDrop
  BY DEF IInv, ObjectOK, FlagsOK, OwnerOK, NoSilentDrop, AfterSnapshot
<1> QED BY <1>1, InductiveInvariant, PTL

\* A business Disconnect that ends a call has its token used by cleanup.
THEOREM RotatedTokenUsed == Spec => []FreshTokenUsed
<1>1. IInv => FreshTokenUsed
  BY DEF IInv, ObjectOK, FlagsOK, FreshTokenUsed
<1> QED BY <1>1, InductiveInvariant, PTL

\* Sockets, transports and rooms are closed on every way out of Accept, Dial
\* and the goroutines.
THEOREM NothingLeaks == Spec => []ResourcesReleased
<1>1. IInv => ResourcesReleased
  BY DEF IInv, ObjectOK, SetupOK, OwnerOK, Quiet, ResourcesReleased, Held
<1> QED BY <1>1, InductiveInvariant, PTL

\* A waiter is told nil only about a call whose three legs came up.
THEOREM ReadyIsTruthful == Spec => []ReadyMeansUp
<1>1. IInv => ReadyMeansUp
  BY DEF IInv, ObjectOK, SetupOK, ReadyMeansUp
<1> QED BY <1>1, InductiveInvariant, PTL

-----------------------------------------------------------------------------
(* Waiters, and the end of the process *)

\* Manager.calls holds a call under its own id.
MapIds == \A i \in CallIDs : calls[i] # NoCall => IdOf[calls[i]] = i

\* Whoever waits for a call, or is about to, waits for a registered one.
Waits ==
  \A a \in AcceptReqs :
    rpc[a] \in {"waiting", "discard"} => on[a] \in Reqs /\ call[on[a]].pc # "none"

\* Past the HTTP server's shutdown, unless the window has ended, no handler runs.
Drained ==
  expired = "no" /\ proc \in {"sweep", "wait", "exited"} =>
    /\ \A r \in Reqs : rpc[r] \in {"idle", "returned"}
    /\ proc = "exited" => wg = 0

\* A step of the object c that leaves its goroutine where it is.
SameLocations(c) ==
  /\ call'[c].pc = call[c].pc
  /\ \A x \in Reqs : x # c => call'[x] = call[x]

\* Only the goroutine of a call in Manager.calls takes the steps of a run.
LEMMA RunsLive ==
  ASSUME NEW c \in Reqs, RunLocal(c) \/ EndMediaStopped(c)
  PROVE  Live(c) /\ \E q : Set(c, q)
<1>g. ASSUME NEW from, NEW to, Goto(c, from, to), from \notin {"none", "wgdone", "done"}
      PROVE  Live(c) /\ \E q : Set(c, q)
  BY <1>g DEF Goto, Live
<1>1. CASE ConnectBridge(c) \/ PreAccept(c)
  <2>1. call[c].pc = "bridge" \/ call[c].pc = "preaccept"
    BY <1>1, Zenon DEF ConnectBridge, PreAccept
  <2>2. \E q : Set(c, q)
    BY <1>1, Zenon DEF ConnectBridge, PreAccept
  <2> QED BY <2>1, <2>2 DEF Live
<1>2. CASE AwaitAnswer(c) \/ WaitMedia(c)
  BY <1>2 DEF AwaitAnswer, WaitMedia, Goto, Live
<1>3. CASE \/ MetaAccept(c) \/ EndCancelled(c) \/ EndLiveKitClosed(c)
           \/ EndMaxDuration(c) \/ EndMediaStopped(c)
  BY <1>3, <1>g DEF MetaAccept, EndCancelled, EndLiveKitClosed, EndMaxDuration,
     EndMediaStopped
<1>4. CASE Connected(c) \/ Fail(c) \/ StopSelf(c) \/ CancelSelf(c) \/ Cleanup(c)
  BY <1>4 DEF Connected, Fail, StopSelf, CancelSelf, Cleanup, Live
<1>5. CASE TakeSnapshot(c) \/ Terminate(c) \/ Release(c)
  BY <1>5 DEF TakeSnapshot, Terminate, Release, Live
<1> QED BY <1>1, <1>2, <1>3, <1>4, <1>5 DEF RunLocal

\* The location is one of a Call object's fields among others.
LEMMA OtherFields ==
  ASSUME NEW r \in CallType
  PROVE  /\ StopBusiness(r).pc = r.pc /\ StopUser(r).pc = r.pc
         /\ \A who : Cancel(r, who).pc = r.pc
         /\ \A res : SignalReady(r, res).pc = r.pc
         /\ ApplyAnswer(r).pc = r.pc
<1>1. StopBusiness(r).pc = r.pc /\ StopUser(r).pc = r.pc
  BY DEF CallType, StopBusiness, StopUser
<1>2. \A who : Cancel(r, who).pc = r.pc
  BY DEF CallType, Cancel
<1>3. \A res : SignalReady(r, res).pc = r.pc
  BY DEF CallType, SignalReady
<1>4. ApplyAnswer(r).pc = r.pc
  BY DEF CallType, ApplyAnswer
<1> QED BY <1>1, <1>2, <1>3, <1>4

\* Writing an object with the same location moves no goroutine.
LEMMA FieldSet ==
  ASSUME NEW c \in Reqs, call \in [Reqs -> CallType], NEW q, Set(c, q),
         q.pc = call[c].pc
  PROVE  SameLocations(c)
BY DEF Set, SameLocations

\* A goroutine that was started stays so, and none is started by Dial once the
\* manager drains.
LEMMA Locations ==
  ASSUME IInv, IInv', [Next]_vars
  PROVE  /\ \A c \in Reqs : call[c].pc # "none" => call'[c].pc # "none"
         /\ draining => \A d \in DialReqs : call[d].pc = "none" => call'[d].pc = "none"
<1> DEFINE Fine == /\ \A c \in Reqs : call[c].pc # "none" => call'[c].pc # "none"
                   /\ draining => \A d \in DialReqs :
                                    call[d].pc = "none" => call'[d].pc = "none"
<1>0. TypeOK /\ \A c \in Reqs : call[c] \in CallType
  BY DEF IInv, TypeOK
<1>a. AcceptReqs \cap DialReqs = {} /\ AcceptReqs \subseteq Reqs /\ DialReqs \subseteq Reqs
  BY ManagerAssumption DEF Reqs
<1>b. ASSUME NEW c \in Reqs, SameLocations(c) PROVE Fine
  BY <1>a, <1>b DEF SameLocations
<1>c. ASSUME call' = call PROVE Fine
  BY <1>c
<1>d. ASSUME NEW c \in Reqs, call[c].pc # "none", \A x \in Reqs : x # c => call'[x] = call[x],
             call'[c].pc # "none"
      PROVE  Fine
  BY <1>d, <1>a
<1> HIDE DEF Fine
<1>2. ASSUME NEW a \in AcceptReqs,
             AcceptCheck(a) \/ AcceptStep(a) \/ AcceptCallerGone(a)
      PROVE  Fine
  <2>0. a \in Reqs /\ a \notin DialReqs /\ call \in [Reqs -> CallType]
    BY <1>0, <1>a DEF TypeOK
  <2>1. CASE UNCHANGED call
    BY <1>c, <2>1
  <2>2. CASE AcceptListen(a) /\ ~UNCHANGED call
    <3>1. SameLocations(a)
      BY <2>0, <2>2 DEF AcceptListen, Set, SameLocations, CallType
    <3> QED BY <1>b, <2>0, <3>1
  <2>3. CASE AcceptNegotiate(a)
    <3>1. SameLocations(a)
      BY <2>0, <2>3 DEF AcceptNegotiate, Set, SameLocations, CallType
    <3> QED BY <1>b, <2>0, <3>1
  <2>4. CASE Register(a)
    <3>1. call'[a].pc = "bridge" /\ \A x \in Reqs : x # a => call'[x] = call[x]
      BY <2>0, <2>4 DEF Register, Set, CallType
    <3> QED BY <2>0, <1>a, <3>1 DEF Fine
  <2>5. CASE AcceptDiscard(a)
    <3>1. SameLocations(a)
      BY <2>0, <2>5 DEF AcceptDiscard, Cancel, CloseTransport, Set, SameLocations,
         CallType
    <3> QED BY <1>b, <2>0, <3>1
  <2>6. CASE AcceptStop(a) \/ AcceptCancel(a)
    <3>1. SameLocations(a)
      BY <2>0, <2>6 DEF AcceptStop, AcceptCancel, StopBusiness, Cancel, Set,
         SameLocations, CallType
    <3> QED BY <1>b, <2>0, <3>1
  <2> QED BY <1>2, <2>1, <2>2, <2>3, <2>4, <2>5, <2>6 DEF AcceptStep, AcceptCheck,
        AcceptRegister, AcceptReady, AcceptCallerGone
<1>3. ASSUME NEW d \in DialReqs, DialCheck(d) \/ DialStep(d)
      PROVE  Fine
  <2>0. d \in Reqs /\ call \in [Reqs -> CallType]
    BY <1>0, <1>a DEF TypeOK
  <2>1. CASE UNCHANGED call
    BY <1>c, <2>1
  <2>2. CASE (DialListen(d) \/ DialNegotiate(d)) /\ ~UNCHANGED call
    <3>1. SameLocations(d)
      BY <2>0, <2>2 DEF DialListen, DialNegotiate, Set, SameLocations, CallType
    <3> QED BY <1>b, <2>0, <3>1
  <2>3. CASE DialMeta(d)
    <3> DEFINE q == [call[d] EXCEPT !.signaled = TRUE, !.meta = "open"]
    <3>2. q.pc = call[d].pc
      BY <2>0 DEF CallType
    <3>3. ASSUME Set(d, q) PROVE SameLocations(d)
      <4> HIDE DEF q
      <4> QED BY <2>0, <3>2, <3>3, FieldSet
    <3>4. ASSUME NEW m, Set(d, [call[d] EXCEPT !.udp = "closed", !.meta = m])
          PROVE  SameLocations(d)
      BY <2>0, <3>4 DEF Set, SameLocations, CallType
    <3>1. SameLocations(d)
      BY <2>3, <3>3, <3>4, Zenon DEF DialMeta
    <3> QED BY <1>b, <2>0, <3>1
  <2>4. CASE ~draining /\ Register(d)
    <3>1. call'[d].pc = "bridge" /\ \A x \in Reqs : x # d => call'[x] = call[x]
      BY <2>0, <2>4 DEF Register, Set, CallType
    <3> QED BY <2>4, <3>1 DEF Fine
  <2>5. CASE DialRegister(d) /\ draining
    <3> DEFINE r == SignalReady(Cancel(StopBusiness(call[d]), "self"), "err")
    <3>2. StopBusiness(call[d]) \in CallType /\ StopBusiness(call[d]).pc = call[d].pc
      BY <2>0, StepTypes, OtherFields
    <3>3. /\ Cancel(StopBusiness(call[d]), "self") \in CallType
          /\ Cancel(StopBusiness(call[d]), "self").pc = call[d].pc
      BY <3>2, StepTypes, OtherFields
    <3>4. r \in CallType /\ r.pc = call[d].pc
      BY <3>3, StepTypes, OtherFields
    <3>5. PICK m \in {"open", "ended"} :
            Set(d, [r EXCEPT !.termToken = "orig", !.meta = m, !.udp = "closed"])
      BY <2>5 DEF DialRegister
    <3> HIDE DEF r
    <3>1. SameLocations(d)
      BY <2>0, <3>4, <3>5 DEF Set, SameLocations, CallType
    <3> QED BY <1>b, <2>0, <3>1
  <2> QED BY <1>3, <2>1, <2>2, <2>3, <2>4, <2>5 DEF DialStep, DialCheck, DialRegister
<1>4. ASSUME NEW c \in DialReqs,
             \/ ConnectLookup(c) \/ ConnectApply(c)
             \/ ConnectReady(c) \/ ConnectCallerGone(c)
      PROVE  Fine
  <2>0. c \in Reqs /\ call \in [Reqs -> CallType]
    BY <1>0, <1>a DEF TypeOK
  <2>1. UNCHANGED call \/ Set(c, ApplyAnswer(call[c]))
    BY <1>4 DEF ConnectLookup, ConnectApply, ConnectReady, ConnectCallerGone
  <2>2. ApplyAnswer(call[c]).pc = call[c].pc
    BY <2>0, OtherFields
  <2> QED BY <1>b, <1>c, <2>0, <2>1, <2>2, FieldSet
<1>5. ASSUME NEW c \in Reqs, NEW kind, NEW t, DisconnectLookup(c, kind, t)
      PROVE  Fine
  <2>1. SameLocations(c)
    BY <1>0, <1>5 DEF TypeOK, DisconnectLookup, Set, SameLocations, CallType
  <2> QED BY <1>b, <2>1
<1>6. ASSUME NEW c \in Reqs, RoomDisconnected(c)
      PROVE  Fine
  <2>1. SameLocations(c)
    BY <1>0, <1>6 DEF TypeOK, RoomDisconnected, Set, SameLocations, CallType
  <2> QED BY <1>b, <2>1
<1>7. ASSUME NEW s \in stops, Stop(s)
      PROVE  Fine
  <2> DEFINE c == s.call
  <2>0. c \in Reqs /\ call \in [Reqs -> CallType]
    BY <1>0 DEF TypeOK, StopType
  <2> HIDE DEF c
  <2>1. \/ Set(c, [call[c] EXCEPT !.token = "fresh"])
        \/ Set(c, StopUser(call[c])) \/ Set(c, StopBusiness(call[c]))
        \/ Set(c, Cancel(call[c], s.kind))
    BY <1>7 DEF Stop, StopStep, c
  <2>3. /\ StopUser(call[c]).pc = call[c].pc /\ StopBusiness(call[c]).pc = call[c].pc
        /\ Cancel(call[c], s.kind).pc = call[c].pc
    BY <2>0, OtherFields
  <2>4. Set(c, [call[c] EXCEPT !.token = "fresh"]) => SameLocations(c)
    BY <2>0 DEF Set, SameLocations, CallType
  <2>2. SameLocations(c)
    BY <2>0, <2>1, <2>3, <2>4, FieldSet
  <2> QED BY <1>b, <2>0, <2>2
<1>8. ASSUME NEW c \in Reqs, RunStep(c) \/ MediaStops(c)
      PROVE  Fine
  <2>1. CASE Delete(c) \/ WgDone(c)
    <3>1. PICK from, to : /\ Goto(c, from, to) /\ from # "none" /\ to # "none"
      BY <2>1 DEF Delete, WgDone
    <3>2. call'[c].pc # "none" /\ \A x \in Reqs : x # c => call'[x] = call[x]
      BY <1>0, <3>1 DEF TypeOK, Goto, Set, CallType
    <3> QED BY <1>d, <3>1, <3>2 DEF Goto
  <2>2. CASE (RunLocal(c) \/ EndMediaStopped(c)) /\ UNCHANGED mgrVars
    <3>1. Live(c) /\ \E q : Set(c, q)
      BY <2>2, RunsLive
    <3>3. Live(c)'
      BY <2>2, <3>1 DEF IInv, MapTracksLive, mgrVars
    <3>4. \A x \in Reqs : x # c => call'[x] = call[x]
      BY <3>1 DEF Set, IInv, TypeOK
    <3> QED BY <1>d, <3>1, <3>3, <3>4 DEF Live
  <2> QED BY <1>8, <2>1, <2>2 DEF RunStep, MediaStops
<1>9. CASE Signal \/ MainStep \/ UNCHANGED vars
  BY <1>c, <1>9 DEF Signal, MainStep, WindowExpires, BeginDrain, EndSweep, Exit, vars
<1> QED BY <1>2, <1>3, <1>4, <1>5, <1>6, <1>7, <1>8, <1>9, Zenon DEF Next, Fine

\* The three conditions hold of the empty manager.
LEMMA ExtraInit == Init => MapIds /\ Waits /\ Drained
BY DEF Init, MapIds, Waits, Drained, Reqs

\* Only registration and finish write Manager.calls, both under the call's id.
LEMMA MapIdsStep ==
  ASSUME IInv, MapIds, [Next]_vars
  PROVE  MapIds'
<1>0. /\ calls \in [CallIDs -> Reqs \cup {NoCall}] /\ IdOf \in [Reqs -> CallIDs]
      /\ AcceptReqs \subseteq Reqs /\ DialReqs \subseteq Reqs
  BY ManagerAssumption DEF IInv, TypeOK, Reqs
<1>1. ASSUME UNCHANGED calls PROVE MapIds'
  BY <1>1 DEF MapIds
<1>2. ASSUME NEW c \in Reqs,
             \/ calls' = [calls EXCEPT ![IdOf[c]] = c]
             \/ calls' = [calls EXCEPT ![IdOf[c]] = NoCall]
      PROVE  MapIds'
  BY <1>0, <1>2 DEF MapIds
<1>3. ASSUME NEW a \in AcceptReqs,
             AcceptCheck(a) \/ AcceptStep(a) \/ AcceptCallerGone(a)
      PROVE  MapIds'
  BY <1>0, <1>1, <1>2, <1>3 DEF AcceptStep, AcceptCheck, AcceptListen, AcceptNegotiate,
     AcceptRegister, AcceptDiscard, AcceptReady, AcceptCallerGone, AcceptStop,
     AcceptCancel, Register, mgrVars
<1>4. ASSUME NEW d \in DialReqs, DialCheck(d) \/ DialStep(d)
      PROVE  MapIds'
  <2>1. UNCHANGED mgrVars \/ Register(d)
    BY <1>4, Zenon DEF DialStep, DialCheck, DialListen, DialNegotiate, DialMeta,
       DialRegister
  <2> QED BY <1>0, <1>1, <1>2, <2>1 DEF Register, mgrVars
<1>5. ASSUME NEW c \in Reqs,
             \/ ConnectLookup(c) \/ ConnectApply(c)
             \/ ConnectReady(c) \/ ConnectCallerGone(c)
             \/ RoomDisconnected(c) \/ RunStep(c) \/ MediaStops(c)
             \/ \E kind, t : DisconnectLookup(c, kind, t)
      PROVE  MapIds'
  BY <1>1, <1>2, <1>5 DEF ConnectLookup, ConnectApply, ConnectReady, ConnectCallerGone,
     RoomDisconnected, RunStep, MediaStops, Delete, WgDone, DisconnectLookup, mgrVars
<1>6. CASE (\E s \in stops : Stop(s)) \/ Signal \/ MainStep \/ UNCHANGED vars
  BY <1>1, <1>6 DEF Stop, Signal, MainStep, WindowExpires, BeginDrain, EndSweep, Exit,
     mgrVars, vars
<1> QED BY <1>0, <1>3, <1>4, <1>5, <1>6 DEF Next

\* An Accept waits for a call it found in Manager.calls or registered itself.
LEMMA WaitsStep ==
  ASSUME IInv, IInv', MapIds, Waits, [Next]_vars
  PROVE  Waits'
<1>0. /\ rpc \in [Reqs -> RpcLocs] /\ on \in [AcceptReqs -> Reqs \cup {NoCall}]
      /\ calls \in [CallIDs -> Reqs \cup {NoCall}] /\ IdOf \in [Reqs -> CallIDs]
      /\ AcceptReqs \subseteq Reqs /\ DialReqs \cap AcceptReqs = {}
  BY ManagerAssumption DEF IInv, TypeOK, Reqs
<1>s. \A c \in Reqs : call[c].pc # "none" => call'[c].pc # "none"
  BY Locations
<1>u. ASSUME UNCHANGED on, \A a \in AcceptReqs : rpc'[a] = rpc[a]
      PROVE  Waits'
  BY <1>s, <1>u DEF Waits
<1>m. \A i \in CallIDs : calls[i] # NoCall => calls[i] \in Reqs /\ call[calls[i]].pc # "none"
  BY <1>0 DEF MapIds, IInv, MapTracksLive, Live
<1>w. ASSUME NEW a \in AcceptReqs,
             \A b \in AcceptReqs : b # a => rpc'[b] = rpc[b] /\ on'[b] = on[b],
             rpc'[a] \in {"waiting", "discard"} =>
               on'[a] \in Reqs /\ call'[on'[a]].pc # "none"
      PROVE  Waits'
  BY <1>s, <1>w DEF Waits
<1>r. ASSUME NEW a \in AcceptReqs, Return(a) PROVE Waits'
  <2>1. /\ \A b \in AcceptReqs : b # a => rpc'[b] = rpc[b] /\ on'[b] = on[b]
        /\ rpc'[a] = "returned"
    BY <1>0, <1>r DEF Return
  <2> QED BY <1>w, <2>1
<1>c. ASSUME NEW a \in AcceptReqs, NEW c \in Reqs, call'[c].pc # "none",
             NEW loc, rpc' = [rpc EXCEPT ![a] = loc], on' = [on EXCEPT ![a] = c]
      PROVE  Waits'
  <2>1. /\ \A b \in AcceptReqs : b # a => rpc'[b] = rpc[b] /\ on'[b] = on[b]
        /\ on'[a] = c
    BY <1>0, <1>c
  <2> QED BY <1>c, <1>w, <2>1
<1>l. ASSUME NEW a \in AcceptReqs, NEW loc, loc \notin {"waiting", "discard"},
             rpc' = [rpc EXCEPT ![a] = loc], UNCHANGED on
      PROVE  Waits'
  <2>1. /\ \A b \in AcceptReqs : b # a => rpc'[b] = rpc[b] /\ on'[b] = on[b]
        /\ rpc'[a] = loc
    BY <1>0, <1>l
  <2> QED BY <1>l, <1>w, <2>1
<1>e. ASSUME NEW a \in AcceptReqs, NEW c \in Reqs, call'[c].pc # "none",
             WaitOrReturn(a, c)
      PROVE  Waits'
  BY <1>c, <1>e, <1>r DEF WaitOrReturn
<1>1. ASSUME NEW a \in AcceptReqs,
             AcceptCheck(a) \/ AcceptStep(a) \/ AcceptCallerGone(a)
      PROVE  Waits'
  <2> DEFINE found == calls[IdOf[a]]
  <2>0. /\ a \in Reqs
        /\ found # NoCall => found \in Reqs /\ call'[found].pc # "none"
    BY <1>0, <1>m, <1>s
  <2>1. CASE AcceptCheck(a)
    <3>1. \/ Return(a)
          \/ found # NoCall /\ WaitOrReturn(a, found)
          \/ rpc' = [rpc EXCEPT ![a] = "listen"] /\ UNCHANGED on
      BY <2>1 DEF AcceptCheck
    <3> HIDE DEF found
    <3> QED BY <1>e, <1>l, <1>r, <2>0, <3>1
  <2>2. CASE AcceptListen(a)
    BY <1>l, <1>r, <2>2 DEF AcceptListen
  <2>3. CASE AcceptNegotiate(a)
    BY <1>l, <1>r, <2>3 DEF AcceptNegotiate
  <2>4. CASE AcceptRegister(a)
    <3>1. Register(a) => call'[a].pc # "none"
      <4>1. call \in [Reqs -> CallType]
        BY DEF IInv, TypeOK
      <4> QED BY <2>0, <4>1 DEF Register, Set, CallType
    <3>2. \/ /\ found # NoCall
             /\ rpc' = [rpc EXCEPT ![a] = "discard"]
             /\ on' = [on EXCEPT ![a] = found]
          \/ Register(a) /\ WaitOrReturn(a, a)
      BY <2>4 DEF AcceptRegister
    <3> HIDE DEF found
    <3> QED BY <1>c, <1>e, <2>0, <3>1, <3>2
  <2>5. CASE AcceptDiscard(a)
    <3>1. on[a] \in Reqs /\ call[on[a]].pc # "none"
      BY <2>5 DEF AcceptDiscard, Waits
    <3>2. WaitOrReturn(a, on[a])
      BY <2>5 DEF AcceptDiscard
    <3> QED BY <1>c, <1>r, <1>s, <3>1, <3>2 DEF WaitOrReturn
  <2>6. CASE AcceptReady(a) \/ AcceptCallerGone(a)
    BY <1>l, <1>r, <2>6 DEF AcceptReady, AcceptCallerGone, WaitFailed
  <2>7. CASE AcceptStop(a)
    <3>1. rpc' = [rpc EXCEPT ![a] = "cancel"] /\ UNCHANGED on
      BY <2>7 DEF AcceptStop
    <3>2. /\ \A b \in AcceptReqs : b # a => rpc'[b] = rpc[b] /\ on'[b] = on[b]
          /\ rpc'[a] = "cancel"
      BY <1>0, <3>1
    <3> QED BY <1>w, <3>2
  <2>8. CASE AcceptCancel(a)
    BY <1>r, <2>8 DEF AcceptCancel
  <2> QED BY <1>1, <2>1, <2>2, <2>3, <2>4, <2>5, <2>6, <2>7, <2>8 DEF AcceptStep
<1>2. ASSUME NEW d \in DialReqs, DialCheck(d) \/ DialStep(d)
      PROVE  Waits'
  <2>1. UNCHANGED on /\ \E loc : rpc' = [rpc EXCEPT ![d] = loc]
    BY <1>2, Zenon DEF DialStep, DialCheck, DialListen, DialNegotiate, DialMeta,
       DialRegister
  <2> QED BY <1>0, <1>u, <2>1
<1>3. ASSUME NEW c,
             \/ ConnectLookup(c) \/ ConnectApply(c)
             \/ ConnectReady(c) \/ ConnectCallerGone(c)
             \/ RoomDisconnected(c) \/ RunStep(c) \/ MediaStops(c)
             \/ \E kind, t : DisconnectLookup(c, kind, t)
      PROVE  Waits'
  BY <1>u, <1>3 DEF ConnectLookup, ConnectApply, ConnectReady, ConnectCallerGone,
     RoomDisconnected, RunStep, MediaStops, DisconnectLookup
<1>4. CASE (\E s \in stops : Stop(s)) \/ Signal \/ MainStep \/ UNCHANGED vars
  BY <1>u, <1>4 DEF Stop, Signal, MainStep, WindowExpires, BeginDrain, EndSweep, Exit,
     vars
<1> QED BY <1>1, <1>2, <1>3, <1>4 DEF Next

\* server.Shutdown returns, within its window, when no handler runs; none
\* starts afterwards.
LEMMA DrainedStep ==
  ASSUME Drained, [Next]_vars
  PROVE  Drained'
<1> SUFFICES ASSUME expired' = "no", proc' \in {"sweep", "wait", "exited"}
             PROVE  /\ \A r \in Reqs : rpc'[r] \in {"idle", "returned"}
                    /\ proc' = "exited" => wg' = 0
  BY DEF Drained
<1> DEFINE Still == UNCHANGED <<rpc, proc, expired>>
<1>0. AcceptReqs \subseteq Reqs /\ DialReqs \subseteq Reqs
  BY DEF Reqs
<1>1. ASSUME Running, Still
      PROVE  /\ \A r \in Reqs : rpc'[r] \in {"idle", "returned"}
             /\ proc' = "exited" => wg' = 0
  BY <1>1 DEF Drained, Running
<1>2. ASSUME Running, NEW r \in Reqs, UNCHANGED mainVars,
             HandlersRun \/ rpc[r] \notin {"idle", "returned"}
      PROVE  FALSE
  BY <1>2 DEF Drained, HandlersRun, mainVars
<1>3. ASSUME Running, NEW a \in AcceptReqs,
             AcceptCheck(a) \/ AcceptStep(a) \/ AcceptCallerGone(a)
      PROVE  FALSE
  <2>1. /\ HandlersRun \/ rpc[a] \notin {"idle", "returned"}
        /\ UNCHANGED mainVars
    BY <1>3 DEF AcceptStep, AcceptCheck, AcceptListen, AcceptNegotiate, AcceptRegister,
       AcceptDiscard, AcceptReady, AcceptCallerGone, AcceptStop, AcceptCancel
  <2> QED BY <1>0, <1>2, <1>3, <2>1
<1>4. ASSUME Running, NEW d \in DialReqs, DialCheck(d) \/ DialStep(d)
      PROVE  FALSE
  <2>1. /\ \/ HandlersRun
           \/ rpc[d] = "listen" \/ rpc[d] = "negotiate"
           \/ rpc[d] = "dial" \/ rpc[d] = "register"
        /\ UNCHANGED mainVars
    BY <1>4, Zenon DEF DialStep, DialCheck, DialListen, DialNegotiate, DialMeta,
       DialRegister
  <2> QED BY <1>0, <1>2, <1>4, <2>1
<1>5. ASSUME NEW c,
             \/ ConnectLookup(c) \/ ConnectApply(c)
             \/ ConnectReady(c) \/ ConnectCallerGone(c)
             \/ RoomDisconnected(c) \/ RunStep(c) \/ MediaStops(c)
             \/ \E kind, t : DisconnectLookup(c, kind, t)
      PROVE  Still
  BY <1>5 DEF ConnectLookup, ConnectApply, ConnectReady, ConnectCallerGone,
     RoomDisconnected, RunStep, MediaStops, DisconnectLookup, mainVars
<1>6. ASSUME NEW s \in stops, Stop(s) PROVE Still
  BY <1>6 DEF Stop, mainVars
<1>7. CASE Running /\ (Signal \/ MainStep)
  BY <1>7 DEF Running, Signal, MainStep, WindowExpires, BeginDrain, EndSweep, Exit,
     InFlight, Drained, mgrVars
<1>8. CASE UNCHANGED vars
  BY <1>8 DEF vars, Drained
<1> HIDE DEF Still
<1> QED BY <1>1, <1>3, <1>4, <1>5, <1>6, <1>7, <1>8 DEF Next

\* The three conditions hold in every reachable state.
THEOREM WaitersAndExit == Spec => [](MapIds /\ Waits /\ Drained)
<1>1. IInv /\ IInv' /\ MapIds /\ Waits /\ Drained /\ [Next]_vars
      => (MapIds /\ Waits /\ Drained)'
  BY MapIdsStep, WaitsStep, DrainedStep
<1> QED BY <1>1, ExtraInit, InductiveInvariant, PTL DEF Spec

\* No Accept waits in vain: the call it waits for has signalled its result or
\* has still to pass cleanup's signalReady.
THEOREM NobodyWaitsInVain == Spec => []NoLostWaiter
<1>1. IInv /\ Waits => NoLostWaiter
  BY DEF IInv, ObjectOK, SetupOK, Waits, NoLostWaiter
<1> QED BY <1>1, InductiveInvariant, WaitersAndExit, PTL

\* Dial registers no call once the manager drains.
THEOREM NoDialWhileDraining == Spec => DrainStopsDials
<1>1. IInv /\ IInv' /\ [Next]_vars =>
        [draining => \A d \in DialReqs : call[d].pc = "none" => call'[d].pc = "none"]_vars
  BY Locations
<1> QED BY <1>1, InductiveInvariant, PTL DEF Spec, DrainStopsDials

\* A shutdown that ends within its window leaves no goroutine, socket or room.
THEOREM ExitIsClean == Spec => []CleanExit
<1>1. ASSUME IInv, MapIds, Drained PROVE CleanExit
  <2> SUFFICES ASSUME proc = "exited", expired = "no"
               PROVE  /\ Counted = {}
                      /\ calls = [i \in CallIDs |-> NoCall]
                      /\ \A c \in Reqs : ~Held(c)
    BY DEF CleanExit
  <2>1. wg = 0 /\ \A r \in Reqs : rpc[r] \in {"idle", "returned"}
    BY <1>1 DEF Drained
  <2>2. Counted = {}
    <3>1. Cardinality(Counted) = 0
      BY <1>1, <2>1 DEF IInv, WgCounts
    <3> QED BY <3>1, CountedFinite, FS_EmptySet
  <2>3. \A c \in Reqs : call[c].pc \in {"none", "done"}
    BY <2>2 DEF Counted
  <2>4. calls = [i \in CallIDs |-> NoCall]
    <3>1. calls \in [CallIDs -> Reqs \cup {NoCall}]
      BY <1>1 DEF IInv, TypeOK
    <3>2. \A i \in CallIDs : calls[i] = NoCall
      BY <1>1, <2>3, <3>1 DEF MapIds, IInv, MapTracksLive, Live
    <3> QED BY <3>1, <3>2
  <2>5. \A c \in Reqs : ~Held(c)
    BY <1>1, <2>1, <2>3, Zenon DEF IInv, ObjectOK, SetupOK, OwnerOK, Quiet, Held
  <2> QED BY <2>2, <2>4, <2>5
<1> QED BY <1>1, InductiveInvariant, WaitersAndExit, PTL

-----------------------------------------------------------------------------
(* What is never undone *)

\* How far the goroutine of a call has come.
Stage(l) ==
  CASE l = "none" -> 0 [] l = "bridge" -> 1 [] l \in {"preaccept", "answer"} -> 2
    [] l = "media" -> 3 [] l = "accept" -> 4 [] l = "connected" -> 5
    [] l = "relay" -> 6 [] l = "fail" -> 7 [] l = "stop" -> 8 [] l = "cancel" -> 9
    [] l = "cleanup" -> 10 [] l = "snapshot" -> 11 [] l = "terminate" -> 12
    [] l = "release" -> 13 [] l = "delete" -> 14 [] l = "wgdone" -> 15
    [] OTHER -> 16

\* A Call object r, later q: the goroutine has not gone back; what waiters were
\* told, who cancelled first and what was signaled stands; a rotated token is not
\* rotated back; nothing closed is open again; and the decision to tell Meta,
\* once cleanup has taken it, stands.
Forward(r, q) ==
  /\ Stage(r.pc) <= Stage(q.pc)
  /\ r.ready # "open" => q.ready = r.ready
  /\ r.cancelled # "no" => q.cancelled = r.cancelled
  /\ (r.signaled => q.signaled) /\ (r.answered => q.answered)
  /\ r.userTerminated => q.userTerminated
  /\ r.token = "fresh" => q.token = "fresh"
  /\ r.udp = "closed" => q.udp = "closed"
  /\ r.bridge = "closed" => q.bridge = "closed"
  /\ r.pc \in AfterSnapshot => q.termToken = r.termToken

\* No step of any of the goroutines, handlers and callbacks that write a Call
\* object undoes what another has done to it.
NothingUndone == [][\A c \in Reqs : Forward(call[c], call'[c])]_vars

\* Forward is reflexive and transitive.
LEMMA ForwardSame == \A r : r.pc \in RunLocs => Forward(r, r)
BY DEF Forward, Stage, RunLocs

LEMMA ForwardAgain ==
  ASSUME NEW r \in CallType, NEW g \in CallType, NEW q \in CallType,
         Forward(r, g), Forward(g, q)
  PROVE  Forward(r, q)
<1>1. r.pc \in RunLocs /\ g.pc \in RunLocs /\ q.pc \in RunLocs
  BY DEF CallType
<1>2. Stage(r.pc) \in Nat /\ Stage(g.pc) \in Nat /\ Stage(q.pc) \in Nat
  BY <1>1 DEF Stage
<1>3. Stage(r.pc) <= Stage(q.pc)
  BY <1>2 DEF Forward
<1>4. r.pc \in AfterSnapshot => g.pc \in AfterSnapshot
  BY <1>1 DEF Forward, Stage, AfterSnapshot, RunLocs
<1> QED BY <1>3, <1>4, Zenon DEF Forward

\* One field of an object is written.
LEMMA ForwardField ==
  ASSUME NEW r \in CallType
  PROVE  /\ \A v \in RunLocs : Stage(r.pc) <= Stage(v) =>
              Forward(r, [r EXCEPT !.pc = v])
         /\ Forward(r, [r EXCEPT !.signaled = TRUE])
         /\ \A v : Forward(r, [r EXCEPT !.transport = v])
         /\ \A v : Forward(r, [r EXCEPT !.meta = v])
         /\ Forward(r, [r EXCEPT !.token = "fresh"])
         /\ \A v : r.udp # "closed" \/ v = "closed" => Forward(r, [r EXCEPT !.udp = v])
         /\ \A v : r.bridge # "closed" \/ v = "closed" =>
              Forward(r, [r EXCEPT !.bridge = v])
         /\ \A v : r.pc \notin AfterSnapshot => Forward(r, [r EXCEPT !.termToken = v])
<1>s. Stage(r.pc) <= Stage(r.pc)
  BY DEF CallType, RunLocs, Stage
<1>1. ASSUME NEW v \in RunLocs, Stage(r.pc) <= Stage(v)
      PROVE  Forward(r, [r EXCEPT !.pc = v])
  BY <1>1 DEF CallType, Forward
<1>2. Forward(r, [r EXCEPT !.signaled = TRUE])
  BY <1>s DEF CallType, Forward
<1>3. \A v : Forward(r, [r EXCEPT !.transport = v])
  BY <1>s DEF CallType, Forward
<1>4. \A v : Forward(r, [r EXCEPT !.meta = v])
  BY <1>s DEF CallType, Forward
<1>5. Forward(r, [r EXCEPT !.token = "fresh"])
  BY <1>s DEF CallType, Forward
<1>6. \A v : r.udp # "closed" \/ v = "closed" => Forward(r, [r EXCEPT !.udp = v])
  BY <1>s DEF CallType, Forward
<1>7. \A v : r.bridge # "closed" \/ v = "closed" => Forward(r, [r EXCEPT !.bridge = v])
  BY <1>s DEF CallType, Forward
<1>8. \A v : r.pc \notin AfterSnapshot => Forward(r, [r EXCEPT !.termToken = v])
  BY <1>s DEF CallType, Forward
<1> QED BY <1>1, <1>2, <1>3, <1>4, <1>5, <1>6, <1>7, <1>8

\* One hold of c.mu, or one call on the object.
LEMMA ForwardHold ==
  ASSUME NEW r \in CallType, NEW res \in {"nil", "err"},
         NEW who \in {"user", "business", "livekit", "shutdown", "self"}
  PROVE  /\ Forward(r, SignalReady(r, res))
         /\ Forward(r, StopBusiness(r)) /\ Forward(r, StopUser(r))
         /\ Forward(r, Cancel(r, who)) /\ Forward(r, CloseTransport(r))
         /\ Forward(r, ApplyAnswer(r))
         /\ r.pc = "snapshot" => Forward(r, Snapshot(r))
<1>s. Stage(r.pc) <= Stage(r.pc)
  BY DEF CallType, RunLocs, Stage
<1>1. Forward(r, SignalReady(r, res))
  BY <1>s DEF CallType, Forward, SignalReady
<1>2. Forward(r, StopBusiness(r)) /\ Forward(r, StopUser(r))
  BY <1>s DEF CallType, Forward, StopBusiness, StopUser
<1>3. Forward(r, Cancel(r, who))
  BY <1>s DEF CallType, Forward, Cancel
<1>4. Forward(r, CloseTransport(r))
  BY <1>s DEF CallType, Forward, CloseTransport
<1>5. Forward(r, ApplyAnswer(r))
  BY <1>s DEF CallType, Forward, ApplyAnswer
<1>6. ASSUME r.pc = "snapshot" PROVE Forward(r, Snapshot(r))
  <2>1. /\ Stage("snapshot") <= Stage("terminate") /\ Stage("snapshot") <= Stage("release")
        /\ "snapshot" \notin AfterSnapshot
    BY DEF Stage, AfterSnapshot
  <2> QED BY <1>6, <2>1 DEF CallType, Forward, Snapshot
<1> QED BY <1>1, <1>2, <1>3, <1>4, <1>5, <1>6

\* One object is written, and the others stay.
LEMMA ForwardSet ==
  ASSUME TypeOK, NEW c \in Reqs, NEW q, Set(c, q), Forward(call[c], q)
  PROVE  \A x \in Reqs : Forward(call[x], call'[x])
<1>1. call'[c] = q /\ \A x \in Reqs \ {c} : call'[x] = call[x]
  BY DEF Set, TypeOK
<1>2. \A x \in Reqs : call[x].pc \in RunLocs
  BY DEF TypeOK, CallType
<1> QED BY <1>1, <1>2, ForwardSame

\* The order of the locations, along every path through a run.
LEMMA Stages ==
  /\ \A v \in RunLocs \ {"none"} : Stage("none") <= Stage(v)
  /\ Stage("bridge") <= Stage("fail") /\ Stage("bridge") <= Stage("answer")
  /\ Stage("bridge") <= Stage("preaccept") /\ Stage("preaccept") <= Stage("media")
  /\ Stage("preaccept") <= Stage("fail") /\ Stage("answer") <= Stage("media")
  /\ Stage("answer") <= Stage("fail") /\ Stage("answer") <= Stage("cleanup")
  /\ Stage("media") <= Stage("fail") /\ Stage("media") <= Stage("accept")
  /\ Stage("media") <= Stage("connected") /\ Stage("accept") <= Stage("connected")
  /\ Stage("accept") <= Stage("fail") /\ Stage("connected") <= Stage("relay")
  /\ Stage("relay") <= Stage("cleanup") /\ Stage("relay") <= Stage("stop")
  /\ Stage("fail") <= Stage("stop") /\ Stage("stop") <= Stage("cancel")
  /\ Stage("cancel") <= Stage("cleanup") /\ Stage("cleanup") <= Stage("snapshot")
  /\ Stage("terminate") <= Stage("release") /\ Stage("release") <= Stage("delete")
  /\ Stage("delete") <= Stage("wgdone") /\ Stage("wgdone") <= Stage("done")
BY DEF Stage, RunLocs

\* Goto, to a later location.
LEMMA ForwardGoto ==
  ASSUME TypeOK, NEW c \in Reqs, NEW from, NEW to \in RunLocs,
         Goto(c, from, to), Stage(from) <= Stage(to)
  PROVE  \A x \in Reqs : Forward(call[x], call'[x])
<1>1. Forward(call[c], [call[c] EXCEPT !.pc = to])
  BY ForwardField, Zenon DEF TypeOK, Goto
<1> QED BY <1>1, ForwardSet DEF Goto

\* The steps of a run.
LEMMA ForwardRun ==
  ASSUME IInv, NEW c \in Reqs, RunLocal(c) \/ EndMediaStopped(c)
  PROVE  \A x \in Reqs : Forward(call[x], call'[x])
<1> DEFINE r == call[c]
<1>0. TypeOK /\ r \in CallType /\ r.pc \in RunLocs /\ SetupOK(r)
  BY DEF IInv, TypeOK, CallType, ObjectOK
<1>w. ASSUME NEW q, Set(c, q), Forward(r, q)
      PROVE  \A x \in Reqs : Forward(call[x], call'[x])
  BY <1>0, <1>w, ForwardSet
<1> HIDE DEF r
<1>p. ASSUME NEW v \in RunLocs, Stage(r.pc) <= Stage(v)
      PROVE  [r EXCEPT !.pc = v] \in CallType /\ Forward(r, [r EXCEPT !.pc = v])
  BY <1>0, <1>p, FieldTypes, ForwardField, Zenon
<1>1. CASE ConnectBridge(c)
  <2>1. /\ r.pc = "bridge" /\ r.bridge # "closed"
        /\ \E b : \E v \in {"fail", "answer", "preaccept"} :
             Set(c, [r EXCEPT !.bridge = b, !.pc = v])
    BY <1>0, <1>1, Zenon DEF ConnectBridge, SetupOK, r
  <2>2. \A b : \A v \in {"fail", "answer", "preaccept"} :
          Forward(r, [r EXCEPT !.bridge = b, !.pc = v])
    BY <1>0, <2>1, Stages DEF CallType, Forward, AfterSnapshot
  <2> QED BY <1>w, <2>1, <2>2, Zenon
<1>2. CASE PreAccept(c)
  <2>1. /\ r.pc = "preaccept"
        /\ \/ Set(c, [r EXCEPT !.signaled = TRUE, !.meta = MetaTaken(r.meta),
                               !.transport = "started", !.pc = "media"])
           \/ \E m : Set(c, [r EXCEPT !.meta = m, !.pc = "fail"])
    BY <1>2, Zenon DEF PreAccept, r
  <2>2. Forward(r, [r EXCEPT !.signaled = TRUE, !.meta = MetaTaken(r.meta),
                             !.transport = "started", !.pc = "media"])
    <3> DEFINE g == [r EXCEPT !.signaled = TRUE]
               m == MetaTaken(r.meta)
               q == [g EXCEPT !.meta = m, !.transport = "started", !.pc = "media"]
    <3>0. m \in {"none", "open", "ended"}
      BY DEF MetaTaken
    <3>1. g \in CallType /\ Forward(r, g)
      BY <1>0, FieldTypes, ForwardField, Zenon
    <3>2. g.pc = "preaccept"
      BY <1>0, <2>1, Zenon DEF CallType
    <3> HIDE DEF g, m
    <3>3. q \in CallType
      BY <3>0, <3>1, FieldTypes, Zenon DEF RunLocs
    <3>4. Forward(g, q)
      BY <3>1, <3>2, Stages DEF CallType, Forward, AfterSnapshot
    <3>5. Forward(r, q)
      BY <1>0, <3>1, <3>3, <3>4, ForwardAgain
    <3> QED BY <3>5 DEF g, m
  <2>3. \A m : Forward(r, [r EXCEPT !.meta = m, !.pc = "fail"])
    BY <1>0, <2>1, Stages, Zenon DEF CallType, Forward, AfterSnapshot
  <2> QED BY <1>w, <2>1, <2>2, <2>3, Zenon
<1>3. CASE AwaitAnswer(c) \/ WaitMedia(c)
  <2>1. ASSUME NEW t, NEW v \in {"media", "connected", "accept"},
               Stage(r.pc) <= Stage(v), r.pc \notin AfterSnapshot
        PROVE  Forward(r, [r EXCEPT !.transport = t, !.pc = v])
    BY <1>0, <2>1 DEF CallType, Forward
  <2>2. \/ Goto(c, "answer", "fail") \/ Goto(c, "answer", "cleanup")
        \/ Goto(c, "media", "fail")
        \/ r.pc = "answer" /\ Set(c, [r EXCEPT !.transport = "started", !.pc = "media"])
        \/ r.pc = "media" /\ \E v \in {"connected", "accept"} :
             Set(c, [r EXCEPT !.transport = "up", !.pc = v])
    BY <1>3, Zenon DEF AwaitAnswer, WaitMedia, r
  <2>3. CASE \/ Goto(c, "answer", "fail") \/ Goto(c, "answer", "cleanup")
             \/ Goto(c, "media", "fail")
    BY <1>0, <2>3, ForwardGoto, Stages DEF RunLocs
  <2>4. CASE r.pc = "answer" /\ Set(c, [r EXCEPT !.transport = "started", !.pc = "media"])
    BY <1>w, <2>1, <2>4, Stages, Zenon DEF AfterSnapshot
  <2>5. ASSUME r.pc = "media", NEW v \in {"connected", "accept"},
               Set(c, [r EXCEPT !.transport = "up", !.pc = v])
        PROVE  \A x \in Reqs : Forward(call[x], call'[x])
    <3>1. Stage(r.pc) <= Stage(v) /\ r.pc \notin AfterSnapshot
      BY <2>5, Stages DEF AfterSnapshot
    <3> QED BY <1>w, <2>1, <2>5, <3>1, Zenon
  <2> QED BY <2>2, <2>3, <2>4, <2>5
<1>4. CASE MetaAccept(c) \/ EndCancelled(c) \/ EndLiveKitClosed(c)
           \/ EndMaxDuration(c) \/ EndMediaStopped(c)
  BY <1>0, <1>4, ForwardGoto, Stages DEF MetaAccept, EndCancelled,
     EndLiveKitClosed, EndMaxDuration, EndMediaStopped, RunLocs
<1>5. CASE Connected(c) \/ Fail(c) \/ Cleanup(c)
  <2>1. PICK v \in {"relay", "stop", "snapshot"}, res \in {"nil", "err"} :
          Set(c, SignalReady([r EXCEPT !.pc = v], res)) /\ Stage(r.pc) <= Stage(v)
    BY <1>5, Stages DEF Connected, Fail, Cleanup, r
  <2>2. [r EXCEPT !.pc = v] \in CallType /\ Forward(r, [r EXCEPT !.pc = v])
    BY <1>p, <2>1 DEF RunLocs
  <2>3. /\ SignalReady([r EXCEPT !.pc = v], res) \in CallType
        /\ Forward([r EXCEPT !.pc = v], SignalReady([r EXCEPT !.pc = v], res))
    BY <2>2, StepTypes, ForwardHold, Zenon
  <2> QED BY <1>0, <1>w, <2>1, <2>2, <2>3, ForwardAgain
<1>6. CASE StopSelf(c) \/ CancelSelf(c)
  <2>1. \/ /\ Set(c, StopBusiness([r EXCEPT !.pc = "cancel"])) /\ r.pc = "stop"
        \/ /\ Set(c, Cancel([r EXCEPT !.pc = "cleanup"], "self")) /\ r.pc = "cancel"
    BY <1>6 DEF StopSelf, CancelSelf, r
  <2>2. CASE Set(c, StopBusiness([r EXCEPT !.pc = "cancel"])) /\ r.pc = "stop"
    <3>1. [r EXCEPT !.pc = "cancel"] \in CallType /\ Forward(r, [r EXCEPT !.pc = "cancel"])
      BY <1>p, <2>2, Stages DEF RunLocs
    <3>2. /\ StopBusiness([r EXCEPT !.pc = "cancel"]) \in CallType
          /\ Forward([r EXCEPT !.pc = "cancel"], StopBusiness([r EXCEPT !.pc = "cancel"]))
      BY <3>1, StepTypes, ForwardHold
    <3> QED BY <1>0, <1>w, <2>2, <3>1, <3>2, ForwardAgain
  <2>3. CASE Set(c, Cancel([r EXCEPT !.pc = "cleanup"], "self")) /\ r.pc = "cancel"
    <3>1. [r EXCEPT !.pc = "cleanup"] \in CallType /\ Forward(r, [r EXCEPT !.pc = "cleanup"])
      BY <1>p, <2>3, Stages DEF RunLocs
    <3>2. /\ Cancel([r EXCEPT !.pc = "cleanup"], "self") \in CallType
          /\ Forward([r EXCEPT !.pc = "cleanup"], Cancel([r EXCEPT !.pc = "cleanup"], "self"))
      BY <3>1, StepTypes, ForwardHold
    <3> QED BY <1>0, <1>w, <2>3, <3>1, <3>2, ForwardAgain
  <2> QED BY <2>1, <2>2, <2>3
<1>7. CASE TakeSnapshot(c)
  BY <1>0, <1>7, <1>w, ForwardHold DEF TakeSnapshot, r
<1>8. CASE Terminate(c)
  <2>1. r.pc = "terminate" /\ \E m : Set(c, [r EXCEPT !.meta = m, !.pc = "release"])
    BY <1>8, Zenon DEF Terminate, r
  <2>2. \A m : Forward(r, [r EXCEPT !.meta = m, !.pc = "release"])
    BY <1>0, <2>1, Stages DEF CallType, Forward
  <2> QED BY <1>w, <2>1, <2>2, Zenon
<1>9. CASE Release(c)
  <2> DEFINE g == [r EXCEPT !.pc = "delete",
                            !.bridge = IF @ = "none" THEN @ ELSE "closed"]
  <2>1. /\ r.pc = "release"
        /\ Set(c, CloseTransport(g)) \/ Set(c, [g EXCEPT !.udp = "closed"])
    BY <1>9 DEF Release, r
  <2>2. g \in CallType /\ Forward(r, g)
    <3>1. g \in CallType
      <4>1. r.bridge \in {"none", "up", "dropped", "closed"}
        BY <1>0 DEF CallType
      <4> QED BY <1>0, <4>1, FieldTypes, Zenon DEF RunLocs
    <3>2. Forward(r, g)
      BY <1>0, <2>1, Stages DEF CallType, Forward
    <3> QED BY <3>1, <3>2
  <2> HIDE DEF g
  <2>3. /\ CloseTransport(g) \in CallType /\ Forward(g, CloseTransport(g))
        /\ [g EXCEPT !.udp = "closed"] \in CallType
        /\ Forward(g, [g EXCEPT !.udp = "closed"])
    BY <2>2, StepTypes, FieldTypes, ForwardHold, ForwardField, Zenon
  <2>4. Forward(r, CloseTransport(g)) /\ Forward(r, [g EXCEPT !.udp = "closed"])
    BY <1>0, <2>2, <2>3, ForwardAgain
  <2> QED BY <1>w, <2>1, <2>4
<1> QED BY <1>1, <1>2, <1>3, <1>4, <1>5, <1>6, <1>7, <1>8, <1>9, Zenon DEF RunLocal

\* The steps of Accept and Dial.
LEMMA ForwardHandlers ==
  ASSUME IInv, NEW c \in Reqs,
         \/ c \in AcceptReqs /\ (AcceptCheck(c) \/ AcceptStep(c) \/ AcceptCallerGone(c))
         \/ c \in DialReqs /\ (DialCheck(c) \/ DialStep(c))
  PROVE  \A x \in Reqs : Forward(call[x], call'[x])
<1> DEFINE r == call[c]
<1>0. /\ TypeOK /\ r \in CallType /\ r.pc \in RunLocs /\ OwnerOK(c, r, rpc[c])
      /\ \A x \in Reqs : call[x].pc \in RunLocs
  BY DEF IInv, TypeOK, CallType, ObjectOK
<1>w. ASSUME NEW q, Set(c, q), Forward(r, q)
      PROVE  \A x \in Reqs : Forward(call[x], call'[x])
  BY <1>0, <1>w, ForwardSet, Zenon
<1> HIDE DEF r
<1>1. CASE UNCHANGED call
  BY <1>0, <1>1, ForwardSame
<1>2. ASSUME \/ AcceptListen(c) \/ DialListen(c)
             \/ AcceptNegotiate(c) \/ DialNegotiate(c), ~UNCHANGED call
      PROVE  \A x \in Reqs : Forward(call[x], call'[x])
  <2>1. \/ Set(c, [r EXCEPT !.udp = "open"]) /\ r.udp = "none"
        \/ Set(c, [r EXCEPT !.transport = "new"])
        \/ Set(c, [r EXCEPT !.udp = "closed"])
    BY <1>0, <1>2 DEF AcceptListen, DialListen, AcceptNegotiate, DialNegotiate,
       OwnerOK, r
  <2>2. /\ Forward(r, [r EXCEPT !.transport = "new"])
        /\ Forward(r, [r EXCEPT !.udp = "closed"])
        /\ r.udp = "none" => Forward(r, [r EXCEPT !.udp = "open"])
    BY <1>0, ForwardField, Zenon
  <2> QED BY <1>w, <2>1, <2>2
<1>3. CASE Register(c) /\ rpc[c] = "register"
  <2>1. r.pc = "none" /\ Set(c, [r EXCEPT !.pc = "bridge"])
    BY <1>0, <1>3 DEF Register, OwnerOK, r
  <2>2. Forward(r, [r EXCEPT !.pc = "bridge"])
    BY <1>0, <2>1, Stages, ForwardField, Zenon DEF RunLocs
  <2> QED BY <1>w, <2>1, <2>2
<1>4. CASE AcceptDiscard(c)
  <2>1. /\ CloseTransport(r) \in CallType /\ Forward(r, CloseTransport(r))
    BY <1>0, StepTypes, ForwardHold, Zenon
  <2>2. /\ Cancel(CloseTransport(r), "self") \in CallType
        /\ Forward(CloseTransport(r), Cancel(CloseTransport(r), "self"))
    BY <2>1, StepTypes, ForwardHold
  <2>3. Forward(r, Cancel(CloseTransport(r), "self"))
    BY <1>0, <2>1, <2>2, ForwardAgain
  <2> QED BY <1>4, <1>w, <2>3 DEF AcceptDiscard, r
<1>5. CASE AcceptStop(c) \/ AcceptCancel(c)
  <2>1. Set(c, StopBusiness(r)) \/ Set(c, Cancel(r, "self"))
    BY <1>5 DEF AcceptStop, AcceptCancel, r
  <2> QED BY <1>0, <1>w, <2>1, ForwardHold, Zenon
<1>6. CASE DialMeta(c)
  <2>1. \/ Set(c, [r EXCEPT !.signaled = TRUE, !.meta = "open"])
        \/ \E m : Set(c, [r EXCEPT !.udp = "closed", !.meta = m])
    BY <1>6, Zenon DEF DialMeta, r
  <2>2. Forward(r, [r EXCEPT !.signaled = TRUE, !.meta = "open"])
    <3> DEFINE g == [r EXCEPT !.signaled = TRUE]
    <3>1. g \in CallType /\ Forward(r, g)
      BY <1>0, FieldTypes, ForwardField, Zenon
    <3> HIDE DEF g
    <3>2. [g EXCEPT !.meta = "open"] \in CallType /\ Forward(g, [g EXCEPT !.meta = "open"])
      BY <3>1, FieldTypes, ForwardField, Zenon
    <3>3. Forward(r, [g EXCEPT !.meta = "open"])
      BY <1>0, <3>1, <3>2, ForwardAgain
    <3> QED BY <3>3 DEF g
  <2>3. \A m : Forward(r, [r EXCEPT !.udp = "closed", !.meta = m])
    <3>1. Stage(r.pc) <= Stage(r.pc)
      BY <1>0 DEF Stage, RunLocs
    <3> QED BY <1>0, <3>1 DEF CallType, Forward
  <2> QED BY <1>w, <2>1, <2>2, <2>3, Zenon
<1>7. CASE DialRegister(c) /\ draining /\ ~Register(c)
  <2> DEFINE g == SignalReady(Cancel(StopBusiness(r), "self"), "err")
  <2>1. StopBusiness(r) \in CallType /\ Forward(r, StopBusiness(r))
        /\ StopBusiness(r).pc = r.pc
    BY <1>0, StepTypes, ForwardHold, OtherFields, Zenon
  <2>2. /\ Cancel(StopBusiness(r), "self") \in CallType
        /\ Forward(StopBusiness(r), Cancel(StopBusiness(r), "self"))
        /\ Cancel(StopBusiness(r), "self").pc = r.pc
    BY <2>1, StepTypes, ForwardHold, OtherFields
  <2>3. /\ g \in CallType /\ Forward(Cancel(StopBusiness(r), "self"), g) /\ g.pc = r.pc
    BY <2>2, StepTypes, ForwardHold, OtherFields
  <2>4. Forward(r, g)
    <3>1. Forward(r, Cancel(StopBusiness(r), "self"))
      BY <1>0, <2>1, <2>2, ForwardAgain, Zenon
    <3> QED BY <1>0, <2>2, <2>3, <3>1, ForwardAgain, Zenon
  <2>5. r.pc = "none"
    BY <1>0, <1>7 DEF DialRegister, OwnerOK
  <2>6. PICK m \in {"open", "ended"} :
          Set(c, [g EXCEPT !.termToken = "orig", !.meta = m, !.udp = "closed"])
    BY <1>7 DEF DialRegister, r
  <2> HIDE DEF g
  <2> DEFINE q == [g EXCEPT !.termToken = "orig", !.meta = m, !.udp = "closed"]
  <2>7. q \in CallType
    BY <2>3, FieldTypes, Zenon
  <2>8. Forward(g, q)
    <3>1. Stage(g.pc) <= Stage(g.pc) /\ g.pc \notin AfterSnapshot
      BY <2>3, <2>5 DEF Stage, AfterSnapshot
    <3> QED BY <2>3, <3>1 DEF CallType, Forward
  <2>9. Forward(r, q)
    BY <1>0, <2>3, <2>4, <2>7, <2>8, ForwardAgain
  <2> QED BY <1>w, <2>6, <2>9
<1>8. ASSUME c \in AcceptReqs, AcceptCheck(c) \/ AcceptStep(c) \/ AcceptCallerGone(c)
      PROVE  \/ UNCHANGED call \/ AcceptListen(c) \/ AcceptNegotiate(c)
             \/ (Register(c) /\ rpc[c] = "register") \/ AcceptDiscard(c)
             \/ AcceptStop(c) \/ AcceptCancel(c)
  BY <1>8, Zenon DEF AcceptCheck, AcceptCallerGone, AcceptStep, AcceptRegister, AcceptReady
<1>9. ASSUME c \in DialReqs, DialCheck(c) \/ DialStep(c)
      PROVE  \/ UNCHANGED call \/ DialListen(c) \/ DialNegotiate(c) \/ DialMeta(c)
             \/ Register(c) /\ rpc[c] = "register"
             \/ DialRegister(c) /\ draining /\ ~Register(c)
  BY <1>9, Zenon DEF DialCheck, DialStep, DialRegister
<1> QED BY <1>1, <1>2, <1>3, <1>4, <1>5, <1>6, <1>7, <1>8, <1>9, Zenon

\* Connect, Disconnect, the callbacks of LiveKit and the stops.
LEMMA ForwardEvents ==
  ASSUME IInv,
         \/ \E c \in DialReqs : ConnectApply(c)
         \/ \E c \in Reqs, kind \in {"user", "business"}, t \in BOOLEAN :
              DisconnectLookup(c, kind, t)
         \/ \E c \in Reqs : RoomDisconnected(c)
         \/ \E s \in stops : Stop(s)
  PROVE  \A x \in Reqs : Forward(call[x], call'[x])
<1>0. TypeOK /\ \A x \in Reqs : call[x] \in CallType /\ call[x].pc \in RunLocs
  BY DEF IInv, TypeOK, CallType
<1>w. ASSUME NEW c \in Reqs, NEW q, Set(c, q), Forward(call[c], q)
      PROVE  \A x \in Reqs : Forward(call[x], call'[x])
  BY <1>0, <1>w, ForwardSet
<1>1. ASSUME NEW c \in DialReqs, ConnectApply(c)
      PROVE  \A x \in Reqs : Forward(call[x], call'[x])
  <2>1. c \in Reqs /\ (UNCHANGED call \/ Set(c, ApplyAnswer(call[c])))
    BY <1>1 DEF ConnectApply, Reqs
  <2>2. Forward(call[c], ApplyAnswer(call[c]))
    BY <1>0, <2>1, ForwardHold, Zenon
  <2> QED BY <1>0, <1>w, <2>1, <2>2, ForwardSame
<1>2. ASSUME NEW c \in Reqs, NEW kind \in {"user", "business"}, NEW t \in BOOLEAN,
             DisconnectLookup(c, kind, t)
      PROVE  \A x \in Reqs : Forward(call[x], call'[x])
  <2>1. Set(c, [call[c] EXCEPT !.meta = "ended"]) \/ Set(c, call[c])
    BY <1>2 DEF DisconnectLookup
  <2> QED BY <1>0, <1>w, <2>1, ForwardField, ForwardSame, Zenon
<1>3. ASSUME NEW c \in Reqs, RoomDisconnected(c)
      PROVE  \A x \in Reqs : Forward(call[x], call'[x])
  <2>0. call[c].pc = "bridge" => call[c].bridge # "closed"
    BY DEF IInv, ObjectOK, SetupOK
  <2>1. \/ Set(c, [call[c] EXCEPT !.bridge = call[c].bridge])
        \/ Set(c, [call[c] EXCEPT !.bridge = "dropped"]) /\ call[c].bridge # "closed"
    BY <1>3, <2>0 DEF RoomDisconnected
  <2>2. Forward(call[c], [call[c] EXCEPT !.bridge = call[c].bridge])
    BY <1>0, ForwardField, Zenon
  <2> QED BY <1>0, <1>w, <2>1, <2>2, ForwardField, Zenon
<1>4. ASSUME NEW s \in stops, Stop(s)
      PROVE  \A x \in Reqs : Forward(call[x], call'[x])
  <2> DEFINE c == s.call
  <2>0. c \in Reqs /\ s.kind \in StopKinds
    BY <1>0 DEF TypeOK, StopType
  <2> HIDE DEF c
  <2>1. \/ Set(c, [call[c] EXCEPT !.token = "fresh"])
        \/ Set(c, StopUser(call[c])) \/ Set(c, StopBusiness(call[c]))
        \/ Set(c, Cancel(call[c], s.kind))
    BY <1>4 DEF Stop, StopStep, c
  <2>2. /\ Forward(call[c], [call[c] EXCEPT !.token = "fresh"])
        /\ Forward(call[c], StopUser(call[c])) /\ Forward(call[c], StopBusiness(call[c]))
        /\ Forward(call[c], Cancel(call[c], s.kind))
    BY <1>0, <2>0, ForwardField, ForwardHold, Zenon DEF StopKinds
  <2> QED BY <1>w, <2>0, <2>1, <2>2
<1> QED BY <1>1, <1>2, <1>3, <1>4

\* Whatever the interleaving, no step undoes what was done to a call: run and
\* cleanup never go back to an earlier stage, and what they or any handler,
\* callback or sweep have decided about the call stands.
THEOREM CallsOnlyMoveOn == Spec => NothingUndone
<1>1. IInv /\ [Next]_vars => [\A c \in Reqs : Forward(call[c], call'[c])]_vars
  <2> SUFFICES ASSUME IInv, Next PROVE \A c \in Reqs : Forward(call[c], call'[c])
    OBVIOUS
  <2>0. TypeOK /\ \A x \in Reqs : call[x].pc \in RunLocs
    BY DEF IInv, TypeOK, CallType
  <2>1. CASE UNCHANGED call
    BY <2>0, <2>1, ForwardSame
  <2>2. ASSUME NEW a \in AcceptReqs, AcceptCheck(a) \/ AcceptStep(a) \/ AcceptCallerGone(a)
        PROVE  \A c \in Reqs : Forward(call[c], call'[c])
    BY <2>2, ForwardHandlers, Zenon DEF Reqs
  <2>3. ASSUME NEW d \in DialReqs, DialCheck(d) \/ DialStep(d)
        PROVE  \A c \in Reqs : Forward(call[c], call'[c])
    BY <2>3, ForwardHandlers, Zenon DEF Reqs
  <2>4. ASSUME NEW c \in Reqs, RunStep(c) \/ MediaStops(c)
        PROVE  \A x \in Reqs : Forward(call[x], call'[x])
    <3>1. CASE RunLocal(c) \/ EndMediaStopped(c)
      BY <3>1, ForwardRun
    <3>2. CASE Delete(c) \/ WgDone(c)
      BY <2>0, <3>2, ForwardGoto, Stages DEF Delete, WgDone, RunLocs
    <3> QED BY <2>4, <3>1, <3>2 DEF RunStep, MediaStops
  <2>5. ASSUME NEW c \in DialReqs, \/ ConnectLookup(c) \/ ConnectReady(c)
                                   \/ ConnectCallerGone(c)
        PROVE  UNCHANGED call
    BY <2>5, Zenon DEF ConnectLookup, ConnectReady, ConnectCallerGone
  <2>6. CASE Signal \/ MainStep \/ (proc = "exited" /\ UNCHANGED vars)
    <3>1. UNCHANGED call
      BY <2>6, Zenon DEF Signal, MainStep, WindowExpires, BeginDrain, EndSweep, Exit, vars
    <3> QED BY <2>1, <3>1
  <2> QED BY <2>1, <2>2, <2>3, <2>4, <2>5, <2>6, ForwardEvents, Zenon DEF Next
<1> QED BY <1>1, InductiveInvariant, PTL DEF Spec, NothingUndone


-----------------------------------------------------------------------------
(* CallManager implements CallLife *)

\* How far a call has come for those who see only its life.
Phase(l) ==
  IF l = "none" THEN "idle"
  ELSE IF l \notin AfterSnapshot THEN "undecided"
  ELSE IF l \in {"wgdone", "done"} THEN "over" ELSE "decided"

\* What is seen of an object beside the place of its goroutine.
SameSeen(r, q) ==
  /\ q.ready = r.ready /\ q.signaled = r.signaled
  /\ q.userTerminated = r.userTerminated /\ q.termToken = r.termToken

\* Before its snapshot cleanup has decided nothing.
Undecided == \A c \in Reqs : Phase(call[c].pc) = "undecided" => call[c].termToken = "no"

\* A step that changes none of it.
LEMMA LifeSame ==
  ASSUME NEW r, NEW q, SameSeen(r, q), Phase(q.pc) = Phase(r.pc)
  PROVE  LifeOf(q) = LifeOf(r)
<1>1. /\ (r.pc = "none") = (q.pc = "none")
      /\ (r.pc \in {"wgdone", "done"}) = (q.pc \in {"wgdone", "done"})
      /\ (r.pc \in AfterSnapshot) = (q.pc \in AfterSnapshot)
  BY DEF Phase, AfterSnapshot
<1> QED BY <1>1 DEF LifeOf, SameSeen

\* The life of a call about which nothing is decided.
LEMMA LifeForm ==
  ASSUME NEW r, r.termToken = "no", Phase(r.pc) \in {"idle", "undecided"}
  PROVE  LifeOf(r) = [at |-> IF Phase(r.pc) = "idle" THEN "idle" ELSE "live",
                      told |-> r.ready, signaled |-> r.signaled,
                      hungUp |-> r.userTerminated, verdict |-> "open"]
<1>1. /\ (r.pc = "none") = (Phase(r.pc) = "idle") /\ r.pc \notin AfterSnapshot
      /\ r.pc \notin {"wgdone", "done"}
  BY DEF Phase, AfterSnapshot
<1> QED BY <1>1 DEF LifeOf

\* The lives of the calls after a write to one of them.
LEMMA LifeSet ==
  ASSUME NEW c \in Reqs, call \in [Reqs -> CallType], NEW q, Set(c, q)
  PROVE  /\ \A x \in Reqs : lives[x] = LifeOf(call[x])
         /\ lives' = [lives EXCEPT ![c] = LifeOf(q)]
<1>1. \A x \in Reqs : call'[x] = IF x = c THEN q ELSE call[x]
  BY DEF Set
<1> QED BY <1>1, Zenon DEF lives

\* A write that changes nothing of it.
LEMMA LifeQuiet ==
  ASSUME NEW c \in Reqs, call \in [Reqs -> CallType], NEW q, Set(c, q),
         SameSeen(call[c], q), Phase(q.pc) = Phase(call[c].pc), Undecided
  PROVE  UNCHANGED lives /\ Undecided'
<1>1. \A x \in Reqs : call'[x] = IF x = c THEN q ELSE call[x]
  BY DEF Set
<1>2. \A x \in Reqs : LifeOf(call'[x]) = LifeOf(call[x])
  BY <1>1, LifeSame
<1>3. Undecided'
  BY <1>1 DEF Undecided, SameSeen
<1> QED BY <1>2, <1>3 DEF lives

\* A step of the life of one call, from what it does to its object.
LEMMA LifeMove ==
  ASSUME call \in [Reqs -> CallType], NEW c \in Reqs, NEW q, Set(c, q)
  PROVE  LET r == LifeOf(call[c]) IN
         /\ /\ r.at = "idle" /\ r.verdict = "open"
            /\ \A d \in Reqs : IdOf[d] = IdOf[c] => LifeOf(call[d]).at # "live"
            /\ LifeOf(q) = [r EXCEPT !.at = "live"]
            => Life!Begin(c)
         /\ /\ r.at # "over" /\ r.verdict = "open"
            /\ LifeOf(q) = [r EXCEPT !.signaled = TRUE]
            => Life!Signal(c)
         /\ r.at # "idle" /\ LifeOf(q) = [r EXCEPT !.hungUp = TRUE] => Life!HangUp(c)
         /\ /\ r.at = "live" /\ r.told = "open" /\ r.verdict = "open"
            /\ \/ r.signaled /\ LifeOf(q) = [r EXCEPT !.told = "nil"]
               \/ LifeOf(q) = [r EXCEPT !.told = "err"]
            => Life!Tell(c)
         /\ /\ r.at = "live" /\ r.told # "open" /\ r.verdict = "open"
            /\ LifeOf(q) = [r EXCEPT !.verdict =
                              IF r.signaled /\ ~r.hungUp THEN "terminate" ELSE "silent"]
            => Life!Decide(c)
         /\ /\ r.at = "idle" /\ r.told = "open" /\ r.verdict = "open" /\ r.signaled
            /\ LifeOf(q) = [r EXCEPT !.told = "err", !.verdict = "terminate"]
            => Life!Dismiss(c)
         /\ /\ r.at = "live" /\ r.verdict # "open"
            /\ LifeOf(q) = [r EXCEPT !.at = "over"]
            => Life!Finish(c)
<1>1. /\ lives[c] = LifeOf(call[c]) /\ \A x \in Reqs : lives[x] = LifeOf(call[x])
      /\ lives' = [lives EXCEPT ![c] = LifeOf(q)]
  BY LifeSet
<1> QED
  BY <1>1, Zenon DEF Life!Begin, Life!Signal, Life!HangUp, Life!Tell,
     Life!Decide, Life!Dismiss, Life!Finish, Life!Become

\* The fields that are not seen, and the operations on them.
LEMMA Unseen ==
  ASSUME NEW r \in CallType
  PROVE  /\ \A v : /\ SameSeen(r, [r EXCEPT !.pc = v]) /\ SameSeen(r, [r EXCEPT !.udp = v])
                  /\ SameSeen(r, [r EXCEPT !.bridge = v])
                  /\ SameSeen(r, [r EXCEPT !.token = v])
                  /\ SameSeen(r, [r EXCEPT !.meta = v])
                  /\ SameSeen(r, [r EXCEPT !.transport = v])
                  /\ SameSeen(r, Cancel(r, v))
         /\ \A v, w : SameSeen(r, [r EXCEPT !.udp = v, !.meta = w])
         /\ SameSeen(r, StopBusiness(r)) /\ SameSeen(r, CloseTransport(r))
         /\ SameSeen(r, ApplyAnswer(r))
<1>1. \A v : /\ SameSeen(r, [r EXCEPT !.pc = v]) /\ SameSeen(r, [r EXCEPT !.udp = v])
             /\ SameSeen(r, [r EXCEPT !.bridge = v]) /\ SameSeen(r, [r EXCEPT !.token = v])
             /\ SameSeen(r, [r EXCEPT !.meta = v])
             /\ SameSeen(r, [r EXCEPT !.transport = v])
  BY DEF CallType, SameSeen
<1>2. \A v, w : SameSeen(r, [r EXCEPT !.udp = v, !.meta = w])
  BY DEF CallType, SameSeen
<1>3. \A v : SameSeen(r, Cancel(r, v))
  BY DEF CallType, SameSeen, Cancel
<1>4. SameSeen(r, StopBusiness(r)) /\ SameSeen(r, CloseTransport(r))
  BY DEF CallType, SameSeen, StopBusiness, CloseTransport
<1>5. SameSeen(r, ApplyAnswer(r))
  BY DEF CallType, SameSeen, ApplyAnswer
<1> QED BY <1>1, <1>2, <1>3, <1>4, <1>5, Zenon

\* Where the goroutine moves without changing the phase.
LEMMA Phases ==
  /\ \A l \in RunLocs \ (AfterSnapshot \cup {"none"}) : Phase(l) = "undecided"
  /\ \A l \in {"terminate", "release", "delete"} : Phase(l) = "decided"
  /\ \A l \in {"wgdone", "done"} : Phase(l) = "over"
  /\ Phase("none") = "idle"
BY DEF Phase, RunLocs, AfterSnapshot

\* The waiters of a registered call are told what SignalReady says, or know.
LEMMA LifeTell ==
  ASSUME NEW c \in Reqs, call \in [Reqs -> CallType], Undecided,
         NEW to, NEW res \in {"nil", "err"}, call[c].pc \in RunLocs,
         Set(c, SignalReady([call[c] EXCEPT !.pc = to], res)),
         Phase(call[c].pc) = "undecided", Phase(to) = "undecided",
         res = "nil" => call[c].signaled
  PROVE  [Life!Next]_lives /\ Undecided'
<1> DEFINE r == call[c]
           q == SignalReady([r EXCEPT !.pc = to], res)
<1>0. r \in CallType /\ r.termToken = "no"
  BY DEF Undecided
<1>1. /\ q.pc = to /\ q.signaled = r.signaled /\ q.userTerminated = r.userTerminated
      /\ q.termToken = "no" /\ q.ready = IF r.ready = "open" THEN res ELSE r.ready
  BY <1>0 DEF SignalReady, CallType
<1> HIDE DEF r, q
<1>2. Set(c, q)
  BY DEF r, q
<1>3. CASE r.ready # "open"
  <2>1. SameSeen(r, q)
    BY <1>0, <1>1, <1>3 DEF SameSeen
  <2>2. UNCHANGED lives /\ Undecided'
    BY <1>1, <1>2, <2>1, LifeQuiet DEF r
  <2> QED BY <2>2
<1>4. CASE r.ready = "open"
  <2>1. LifeOf(q) = [LifeOf(r) EXCEPT !.told = res]
    <3>1. /\ LifeOf(r) = [at |-> "live", told |-> r.ready, signaled |-> r.signaled,
                          hungUp |-> r.userTerminated, verdict |-> "open"]
          /\ LifeOf(q) = [at |-> "live", told |-> q.ready, signaled |-> q.signaled,
                          hungUp |-> q.userTerminated, verdict |-> "open"]
      BY <1>0, <1>1, LifeForm DEF r
    <3> QED BY <1>1, <1>4, <3>1
  <2>2. /\ LifeOf(r).at = "live" /\ LifeOf(r).told = "open" /\ LifeOf(r).verdict = "open"
        /\ LifeOf(r).signaled = r.signaled
    BY <1>0, <1>4 DEF LifeOf, Phase, r, AfterSnapshot
  <2>3. Life!Tell(c)
    <3>1. \/ LifeOf(r).signaled /\ LifeOf(q) = [LifeOf(r) EXCEPT !.told = "nil"]
          \/ LifeOf(q) = [LifeOf(r) EXCEPT !.told = "err"]
      BY <2>1, <2>2, Zenon DEF r
    <3> QED BY <1>2, <2>2, <3>1, LifeMove, Zenon DEF r
  <2>4. Undecided'
    BY <1>1, <1>2 DEF Undecided, Set
  <2> QED BY <2>3, <2>4, Zenon DEF Life!Next
<1> QED BY <1>3, <1>4

\* Meta learns of the call.
LEMMA LifeSignal ==
  ASSUME NEW c \in Reqs, call \in [Reqs -> CallType], Undecided, NEW q, Set(c, q),
         Phase(q.pc) = Phase(call[c].pc), Phase(q.pc) \in {"idle", "undecided"},
         call[c].termToken = "no", q.termToken = "no", q.signaled = TRUE,
         q.ready = call[c].ready, q.userTerminated = call[c].userTerminated
  PROVE  Life!Next /\ Undecided'
<1> DEFINE r == call[c]
<1>1. LifeOf(q) = [LifeOf(r) EXCEPT !.signaled = TRUE]
  <2> DEFINE at == IF Phase(r.pc) = "idle" THEN "idle" ELSE "live"
  <2>1. /\ LifeOf(r) = [at |-> at, told |-> r.ready, signaled |-> r.signaled,
                        hungUp |-> r.userTerminated, verdict |-> "open"]
        /\ LifeOf(q) = [at |-> at, told |-> r.ready, signaled |-> q.signaled,
                        hungUp |-> r.userTerminated, verdict |-> "open"]
    BY LifeForm
  <2> HIDE DEF at, r
  <2>2. LifeOf(q) = [LifeOf(r) EXCEPT !.signaled = q.signaled]
    BY <2>1
  <2> QED BY <2>2, Zenon
<1>2. LifeOf(r).at # "over" /\ LifeOf(r).verdict = "open"
  BY DEF LifeOf, Phase, AfterSnapshot
<1>3. Life!Signal(c)
  BY <1>1, <1>2, LifeMove, Zenon
<1>4. Undecided'
  BY DEF Undecided, Set
<1> QED BY <1>3, <1>4, Zenon DEF Life!Next

\* cleanup decides.
LEMMA LifeDecide ==
  ASSUME IInv, Undecided, NEW c \in Reqs, TakeSnapshot(c)
  PROVE  Life!Next /\ Undecided'
<1> DEFINE r == call[c]
           q == Snapshot(r)
           tell == r.terminate /\ r.signaled
<1>0. /\ call \in [Reqs -> CallType] /\ r \in CallType /\ Set(c, q) /\ r.pc = "snapshot"
      /\ r.ready # "open" /\ r.termToken = "no"
  BY Phases DEF IInv, TypeOK, TakeSnapshot, ObjectOK, SetupOK, Undecided, RunLocs,
     AfterSnapshot
<1>1. (r.userTerminated => ~r.terminate) /\ (r.terminate \/ r.userTerminated)
  BY <1>0 DEF IInv, ObjectOK, FlagsOK, Told
<1>2. /\ q.ready = r.ready /\ q.signaled = r.signaled
      /\ q.userTerminated = r.userTerminated
      /\ q.pc = IF tell THEN "terminate" ELSE "release"
      /\ q.termToken = IF tell THEN r.token ELSE "no"
  BY <1>0 DEF Snapshot, CallType
<1>3. r.token # "no" /\ r.signaled \in BOOLEAN /\ r.terminate \in BOOLEAN
      /\ r.userTerminated \in BOOLEAN
  BY <1>0 DEF CallType
<1>4. tell <=> r.signaled /\ ~r.userTerminated
  BY <1>1, <1>3
<1> HIDE DEF r, q, tell
<1>5. /\ LifeOf(r).at = "live" /\ LifeOf(r).told # "open" /\ LifeOf(r).verdict = "open"
      /\ LifeOf(r).signaled = r.signaled /\ LifeOf(r).hungUp = r.userTerminated
  BY <1>0 DEF LifeOf, AfterSnapshot
<1>6. LifeOf(q) = [LifeOf(r) EXCEPT !.verdict =
                     IF LifeOf(r).signaled /\ ~LifeOf(r).hungUp
                     THEN "terminate" ELSE "silent"]
  <2>1. CASE tell
    BY <1>0, <1>2, <1>3, <1>4, <1>5, <2>1 DEF LifeOf, AfterSnapshot
  <2>2. CASE ~tell
    BY <1>0, <1>2, <1>3, <1>4, <1>5, <2>2 DEF LifeOf, AfterSnapshot
  <2> QED BY <2>1, <2>2
<1>7. Life!Decide(c)
  BY <1>0, <1>5, <1>6, LifeMove, Zenon DEF r
<1>8. Undecided'
  <2>1. Phase(q.pc) # "undecided"
    BY <1>2, Phases
  <2> QED BY <1>0, <2>1 DEF Undecided, Set
<1> QED BY <1>7, <1>8, Zenon DEF Life!Next

\* Two writes of which nothing is seen.
LEMMA UnseenAgain ==
  ASSUME NEW r, NEW g, NEW q, SameSeen(r, g), SameSeen(g, q)
  PROVE  SameSeen(r, q)
BY DEF SameSeen

\* The goroutine of a registered call.
LEMMA LifeRun ==
  ASSUME IInv, Undecided, NEW c \in Reqs, RunLocal(c) \/ EndMediaStopped(c)
  PROVE  [Life!Next]_lives /\ Undecided'
<1> DEFINE r == call[c]
<1>0. /\ call \in [Reqs -> CallType] /\ r \in CallType /\ SetupOK(r)
  BY DEF IInv, TypeOK, ObjectOK
<1>w. ASSUME NEW q, Set(c, q), SameSeen(r, q), Phase(q.pc) = Phase(r.pc)
      PROVE  [Life!Next]_lives /\ Undecided'
  BY <1>0, <1>w, LifeQuiet
<1>u. r.termToken = "no" \/ Phase(r.pc) # "undecided"
  BY DEF Undecided
<1>g. ASSUME NEW from \in RunLocs \ (AfterSnapshot \cup {"none"}),
             NEW to \in RunLocs \ (AfterSnapshot \cup {"none"}), Goto(c, from, to)
      PROVE  [Life!Next]_lives /\ Undecided'
  <2>1. SameSeen(r, [r EXCEPT !.pc = to]) /\ [r EXCEPT !.pc = to].pc = to
    BY <1>0, Unseen, Zenon DEF CallType
  <2> QED BY <1>w, <1>g, <2>1, Phases, Zenon DEF Goto
<1> HIDE DEF r
<1>1. CASE ConnectBridge(c)
  <2>1. /\ r.pc = "bridge"
        /\ \E b : \E v \in {"fail", "answer", "preaccept"} :
             Set(c, [r EXCEPT !.bridge = b, !.pc = v])
    BY <1>1, Zenon DEF ConnectBridge, r
  <2>2. ASSUME NEW b, NEW v \in {"fail", "answer", "preaccept"}
        PROVE  /\ SameSeen(r, [r EXCEPT !.bridge = b, !.pc = v])
               /\ Phase([r EXCEPT !.bridge = b, !.pc = v].pc) = Phase(r.pc)
    BY <1>0, <2>1, Phases DEF CallType, SameSeen, Phase, AfterSnapshot
  <2> QED BY <1>w, <2>1, <2>2, Zenon
<1>2. CASE PreAccept(c)
  <2>1. /\ r.pc = "preaccept"
        /\ \/ Set(c, [r EXCEPT !.signaled = TRUE, !.meta = MetaTaken(r.meta),
                               !.transport = "started", !.pc = "media"])
           \/ \E m : Set(c, [r EXCEPT !.meta = m, !.pc = "fail"])
    BY <1>2, Zenon DEF PreAccept, r
  <2>2. Phase(r.pc) = "undecided" /\ Phase("media") = "undecided"
        /\ Phase("fail") = "undecided" /\ r.termToken = "no"
    BY <1>u, <2>1, Zenon DEF Phase, AfterSnapshot
  <2>3. CASE Set(c, [r EXCEPT !.signaled = TRUE, !.meta = MetaTaken(r.meta),
                              !.transport = "started", !.pc = "media"])
    <3> DEFINE q == [r EXCEPT !.signaled = TRUE, !.meta = MetaTaken(r.meta),
                              !.transport = "started", !.pc = "media"]
    <3>1. /\ q.pc = "media" /\ q.signaled = TRUE /\ q.ready = r.ready
          /\ q.termToken = r.termToken /\ q.userTerminated = r.userTerminated
      BY <1>0, Zenon DEF CallType
    <3> HIDE DEF q
    <3>2. Life!Next /\ Undecided'
      BY <1>0, <2>2, <2>3, <3>1, LifeSignal, Zenon DEF q, r
    <3> QED BY <3>2
  <2>4. ASSUME NEW m, Set(c, [r EXCEPT !.meta = m, !.pc = "fail"])
        PROVE  [Life!Next]_lives /\ Undecided'
    <3>1. SameSeen(r, [r EXCEPT !.meta = m, !.pc = "fail"])
          /\ [r EXCEPT !.meta = m, !.pc = "fail"].pc = "fail"
      BY <1>0 DEF CallType, SameSeen
    <3> QED BY <1>w, <2>2, <2>4, <3>1, Zenon
  <2> QED BY <2>1, <2>3, <2>4, Zenon
<1>3. CASE AwaitAnswer(c) \/ WaitMedia(c)
  <2>1. ASSUME NEW t, NEW v \in {"media", "connected", "accept"},
               r.pc \in {"answer", "media"}, Set(c, [r EXCEPT !.transport = t, !.pc = v])
        PROVE  [Life!Next]_lives /\ Undecided'
    <3>1. SameSeen(r, [r EXCEPT !.transport = t, !.pc = v])
          /\ [r EXCEPT !.transport = t, !.pc = v].pc = v
      BY <1>0 DEF CallType, SameSeen
    <3>2. Phase(v) = Phase(r.pc)
      BY <2>1 DEF Phase, AfterSnapshot
    <3> QED BY <1>w, <2>1, <3>1, <3>2, Zenon
  <2>2. \/ Goto(c, "answer", "fail") \/ Goto(c, "answer", "cleanup")
        \/ Goto(c, "media", "fail")
        \/ r.pc = "answer" /\ Set(c, [r EXCEPT !.transport = "started", !.pc = "media"])
        \/ r.pc = "media" /\ \E v \in {"connected", "accept"} :
             Set(c, [r EXCEPT !.transport = "up", !.pc = v])
    BY <1>3, Zenon DEF AwaitAnswer, WaitMedia, r
  <2>3. CASE \/ Goto(c, "answer", "fail") \/ Goto(c, "answer", "cleanup")
             \/ Goto(c, "media", "fail")
    BY <1>g, <2>3 DEF RunLocs, AfterSnapshot
  <2> QED BY <2>1, <2>2, <2>3, Zenon
<1>4. CASE MetaAccept(c) \/ EndCancelled(c) \/ EndLiveKitClosed(c)
           \/ EndMaxDuration(c) \/ EndMediaStopped(c)
  BY <1>4, <1>g DEF MetaAccept, EndCancelled, EndLiveKitClosed, EndMaxDuration,
     EndMediaStopped, RunLocs, AfterSnapshot
<1>5. CASE Connected(c) \/ Fail(c) \/ Cleanup(c)
  <2>1. /\ Phase("relay") = "undecided" /\ Phase("stop") = "undecided"
        /\ Phase("snapshot") = "undecided"
    BY DEF Phase, AfterSnapshot
  <2>2. CASE Connected(c)
    <3>1. /\ Set(c, SignalReady([call[c] EXCEPT !.pc = "relay"], "nil"))
          /\ Phase(call[c].pc) = "undecided" /\ call[c].signaled /\ call[c].pc \in RunLocs
      BY <1>0, <2>2 DEF Connected, SetupOK, Phase, AfterSnapshot, r, RunLocs
    <3> QED BY <1>0, <2>1, <3>1, LifeTell
  <2>3. CASE Fail(c) \/ Cleanup(c)
    <3>1. /\ \E to \in {"stop", "snapshot"} :
               Set(c, SignalReady([call[c] EXCEPT !.pc = to], "err"))
          /\ Phase(call[c].pc) = "undecided" /\ call[c].pc \in RunLocs
      BY <1>0, <2>3 DEF Fail, Cleanup, Phase, AfterSnapshot, r, RunLocs
    <3> QED BY <1>0, <2>1, <3>1, LifeTell
  <2> QED BY <1>5, <2>2, <2>3
<1>6. CASE StopSelf(c) \/ CancelSelf(c)
  <2>1. \/ /\ Set(c, StopBusiness([r EXCEPT !.pc = "cancel"])) /\ r.pc = "stop"
        \/ /\ Set(c, Cancel([r EXCEPT !.pc = "cleanup"], "self")) /\ r.pc = "cancel"
    BY <1>6 DEF StopSelf, CancelSelf, r
  <2>2. /\ SameSeen(r, StopBusiness([r EXCEPT !.pc = "cancel"]))
        /\ StopBusiness([r EXCEPT !.pc = "cancel"]).pc = "cancel"
    BY <1>0 DEF StopBusiness, SameSeen, CallType
  <2>3. /\ SameSeen(r, Cancel([r EXCEPT !.pc = "cleanup"], "self"))
        /\ Cancel([r EXCEPT !.pc = "cleanup"], "self").pc = "cleanup"
    BY <1>0 DEF Cancel, SameSeen, CallType
  <2>4. Phase("cancel") = Phase("stop") /\ Phase("cancel") = Phase("cleanup")
    BY DEF Phase, AfterSnapshot
  <2> QED BY <1>w, <2>1, <2>2, <2>3, <2>4
<1>7. CASE TakeSnapshot(c)
  BY <1>7, LifeDecide
<1>8. CASE Terminate(c)
  <2>1. r.pc = "terminate" /\ \E m : Set(c, [r EXCEPT !.meta = m, !.pc = "release"])
    BY <1>8, Zenon DEF Terminate, r
  <2>2. \A m : /\ SameSeen(r, [r EXCEPT !.meta = m, !.pc = "release"])
               /\ [r EXCEPT !.meta = m, !.pc = "release"].pc = "release"
    BY <1>0 DEF CallType, SameSeen
  <2>3. Phase("terminate") = Phase("release")
    BY Phases
  <2> QED BY <1>w, <2>1, <2>2, <2>3, Zenon
<1>9. CASE Release(c)
  <2> DEFINE g == [r EXCEPT !.pc = "delete",
                            !.bridge = IF @ = "none" THEN @ ELSE "closed"]
  <2>1. /\ r.pc = "release"
        /\ Set(c, CloseTransport(g)) \/ Set(c, [g EXCEPT !.udp = "closed"])
    BY <1>9 DEF Release, r
  <2>2. /\ SameSeen(r, CloseTransport(g)) /\ CloseTransport(g).pc = "delete"
        /\ SameSeen(r, [g EXCEPT !.udp = "closed"])
        /\ [g EXCEPT !.udp = "closed"].pc = "delete"
    BY <1>0 DEF CloseTransport, CallType, SameSeen
  <2>3. Phase("release") = Phase("delete")
    BY Phases
  <2> HIDE DEF g
  <2> QED BY <1>w, <2>1, <2>2, <2>3, Zenon
<1> QED BY <1>1, <1>2, <1>3, <1>4, <1>5, <1>6, <1>7, <1>8, <1>9, Zenon DEF RunLocal

\* The id of the call is taken, and by no other call.
LEMMA LifeBegin ==
  ASSUME IInv, Undecided, NEW c \in Reqs, Register(c), rpc[c] = "register",
         calls[IdOf[c]] = NoCall \/ c \in DialReqs
  PROVE  Life!Next /\ Undecided'
<1> DEFINE r == call[c]
           q == [r EXCEPT !.pc = "bridge"]
<1>0. /\ call \in [Reqs -> CallType] /\ r \in CallType /\ Set(c, q)
      /\ r.pc = "none" /\ r.termToken = "no"
  BY DEF IInv, TypeOK, ObjectOK, OwnerOK, Register
<1>1. SameSeen(r, q) /\ q.pc = "bridge"
  BY <1>0, Unseen, Zenon DEF CallType
<1>2. \A d \in Reqs : IdOf[d] = IdOf[c] => LifeOf(call[d]).at # "live"
  <2> SUFFICES ASSUME NEW d \in Reqs, IdOf[d] = IdOf[c] PROVE LifeOf(call[d]).at # "live"
    OBVIOUS
  <2>1. ~Live(d)
    BY <1>0, ManagerAssumption DEF IInv, MapTracksLive, Live
  <2> QED BY <2>1 DEF Live, LifeOf
<1> HIDE DEF r, q
<1>3. /\ LifeOf(r) = [at |-> "idle", told |-> r.ready, signaled |-> r.signaled,
                      hungUp |-> r.userTerminated, verdict |-> "open"]
      /\ LifeOf(q) = [at |-> "live", told |-> r.ready, signaled |-> r.signaled,
                      hungUp |-> r.userTerminated, verdict |-> "open"]
  <2>1. Phase("none") = "idle" /\ Phase("bridge") = "undecided"
    BY DEF Phase, AfterSnapshot
  <2> QED BY <1>0, <1>1, <2>1, LifeForm DEF SameSeen
<1>4. LifeOf(q) = [LifeOf(r) EXCEPT !.at = "live"] /\ LifeOf(r).at = "idle"
      /\ LifeOf(r).verdict = "open"
  BY <1>3
<1>5. Life!Begin(c)
  BY <1>0, <1>2, <1>4, LifeMove, Zenon DEF r
<1>6. Undecided'
  BY <1>0, <1>1 DEF Undecided, Set, SameSeen
<1> QED BY <1>5, <1>6, Zenon DEF Life!Next

\* A dial that comes too late is terminated at once.
LEMMA LifeDismiss ==
  ASSUME IInv, Undecided, NEW d \in DialReqs, DialRegister(d), ~Register(d)
  PROVE  Life!Next /\ Undecided'
<1> DEFINE r == call[d]
           g == SignalReady(Cancel(StopBusiness(r), "self"), "err")
<1>0. /\ d \in Reqs /\ call \in [Reqs -> CallType] /\ r \in CallType
      /\ r.pc = "none" /\ r.termToken = "no" /\ r.ready = "open" /\ r.signaled
  BY DEF IInv, TypeOK, ObjectOK, OwnerOK, DialRegister, Outbound, Reqs
<1>1. PICK m : Set(d, [g EXCEPT !.termToken = "orig", !.meta = m, !.udp = "closed"])
  BY Zenon DEF DialRegister
<1> DEFINE q == [g EXCEPT !.termToken = "orig", !.meta = m, !.udp = "closed"]
<1>2. /\ q.pc = "none" /\ q.ready = "err" /\ q.termToken = "orig"
      /\ q.signaled = r.signaled /\ q.userTerminated = r.userTerminated
  BY <1>0, Zenon DEF SignalReady, Cancel, StopBusiness, CallType
<1> HIDE DEF r, g, q
<1> DEFINE s == r.signaled
           h == r.userTerminated
<1>3. /\ LifeOf(r) = [at |-> "idle", told |-> "open", signaled |-> s,
                      hungUp |-> h, verdict |-> "open"]
      /\ LifeOf(q) = [at |-> "idle", told |-> "err", signaled |-> s,
                      hungUp |-> h, verdict |-> "terminate"]
  BY <1>0, <1>2 DEF LifeOf, AfterSnapshot
<1> HIDE DEF s, h
<1>4. /\ LifeOf(q) = [LifeOf(r) EXCEPT !.told = "err", !.verdict = "terminate"]
      /\ LifeOf(r).at = "idle" /\ LifeOf(r).told = "open" /\ LifeOf(r).verdict = "open"
      /\ LifeOf(r).signaled
  <2>1. LifeOf(q) = [LifeOf(r) EXCEPT !.told = "err", !.verdict = "terminate"]
    <3> DEFINE told == [LifeOf(r) EXCEPT !.told = "err"]
    <3>1. told = [at |-> "idle", told |-> "err", signaled |-> s, hungUp |-> h,
                  verdict |-> "open"]
      BY <1>3
    <3> HIDE DEF told
    <3>2. LifeOf(q) = [told EXCEPT !.verdict = "terminate"]
      BY <1>3, <3>1
    <3> QED BY <3>2 DEF told
  <2>2. /\ LifeOf(r).at = "idle" /\ LifeOf(r).told = "open"
        /\ LifeOf(r).verdict = "open" /\ LifeOf(r).signaled = s
    BY <1>3
  <2> QED BY <1>0, <2>1, <2>2, Zenon DEF s
<1>5. Life!Dismiss(d)
  BY <1>0, <1>1, <1>4, LifeMove, Zenon DEF r, q
<1>6. Undecided'
  BY <1>0, <1>1, <1>2, Phases DEF Undecided, Set, q
<1> QED BY <1>0, <1>5, <1>6, Zenon DEF Life!Next

\* Meta reports the end of a call, maybe one that is over.
LEMMA LifeHangUp ==
  ASSUME call \in [Reqs -> CallType], Undecided, NEW c \in Reqs, call[c].pc # "none",
         Set(c, StopUser(call[c]))
  PROVE  Life!Next /\ Undecided'
<1> DEFINE r == call[c]
           q == StopUser(r)
           at == IF r.pc \in {"wgdone", "done"} THEN "over" ELSE "live"
           verdict == IF r.termToken # "no" THEN "terminate"
                      ELSE IF r.pc \in AfterSnapshot THEN "silent" ELSE "open"
<1>1. /\ q.pc = r.pc /\ q.ready = r.ready /\ q.signaled = r.signaled
      /\ q.userTerminated = TRUE /\ q.termToken = r.termToken
  BY DEF StopUser, CallType
<1>2. /\ LifeOf(r) = [at |-> at, told |-> r.ready, signaled |-> r.signaled,
                      hungUp |-> r.userTerminated, verdict |-> verdict]
      /\ LifeOf(q) = [at |-> at, told |-> r.ready, signaled |-> r.signaled,
                      hungUp |-> q.userTerminated, verdict |-> verdict]
  <2> HIDE DEF q
  <2> QED BY <1>1 DEF LifeOf
<1>3. at # "idle"
  OBVIOUS
<1> HIDE DEF r, q, at, verdict
<1>4. LifeOf(q) = [LifeOf(r) EXCEPT !.hungUp = q.userTerminated] /\ LifeOf(r).at = at
  BY <1>2
<1>5. LifeOf(q) = [LifeOf(r) EXCEPT !.hungUp = TRUE] /\ LifeOf(r).at # "idle"
  BY <1>1, <1>3, <1>4, Zenon
<1>6. Life!HangUp(c)
  BY <1>5, LifeMove, Zenon DEF r, q
<1>7. Undecided'
  BY <1>1 DEF Undecided, Set, r, q
<1> QED BY <1>6, <1>7, Zenon DEF Life!Next

\* finish gives the id back.
LEMMA LifeFinish ==
  ASSUME call \in [Reqs -> CallType], Undecided, NEW c \in Reqs,
         Goto(c, "delete", "wgdone")
  PROVE  Life!Next /\ Undecided'
<1> DEFINE r == call[c]
           q == [r EXCEPT !.pc = "wgdone"]
           verdict == IF r.termToken # "no" THEN "terminate" ELSE "silent"
<1>0. r \in CallType /\ Set(c, q) /\ r.pc = "delete"
  BY DEF Goto
<1>1. SameSeen(r, q) /\ q.pc = "wgdone"
  BY <1>0, Unseen, Zenon DEF CallType
<1> HIDE DEF r, q
<1>2. /\ LifeOf(r) = [at |-> "live", told |-> r.ready, signaled |-> r.signaled,
                      hungUp |-> r.userTerminated, verdict |-> verdict]
      /\ LifeOf(q) = [at |-> "over", told |-> r.ready, signaled |-> r.signaled,
                      hungUp |-> r.userTerminated, verdict |-> verdict]
  BY <1>0, <1>1 DEF LifeOf, SameSeen, AfterSnapshot
<1>3. verdict # "open"
  OBVIOUS
<1> HIDE DEF verdict
<1>4. /\ LifeOf(q) = [LifeOf(r) EXCEPT !.at = "over"] /\ LifeOf(r).at = "live"
      /\ LifeOf(r).verdict # "open"
  BY <1>2, <1>3
<1>5. Life!Finish(c)
  BY <1>0, <1>4, LifeMove, Zenon DEF r
<1>6. Undecided'
  BY <1>0, <1>1, Phases DEF Undecided, Set
<1> QED BY <1>5, <1>6, Zenon DEF Life!Next

\* The steps of Accept and Dial.
LEMMA LifeHandlers ==
  ASSUME IInv, Undecided, NEW c \in Reqs,
         \/ c \in AcceptReqs /\ (AcceptCheck(c) \/ AcceptStep(c) \/ AcceptCallerGone(c))
         \/ c \in DialReqs /\ (DialCheck(c) \/ DialStep(c))
  PROVE  [Life!Next]_lives /\ Undecided'
<1> DEFINE r == call[c]
<1>0. /\ call \in [Reqs -> CallType] /\ r \in CallType /\ OwnerOK(c, r, rpc[c])
  BY DEF IInv, TypeOK, ObjectOK
<1>w. ASSUME NEW q, Set(c, q), SameSeen(r, q), q.pc = r.pc
      PROVE  [Life!Next]_lives /\ Undecided'
  BY <1>0, <1>w, LifeQuiet
<1> HIDE DEF r
<1>1. CASE UNCHANGED call
  BY <1>1 DEF lives, Undecided
<1>2. ASSUME \/ AcceptListen(c) \/ DialListen(c)
             \/ AcceptNegotiate(c) \/ DialNegotiate(c), ~UNCHANGED call
      PROVE  [Life!Next]_lives /\ Undecided'
  <2>1. \/ Set(c, [r EXCEPT !.udp = "open"]) \/ Set(c, [r EXCEPT !.transport = "new"])
        \/ Set(c, [r EXCEPT !.udp = "closed"])
    BY <1>2, Zenon DEF AcceptListen, DialListen, AcceptNegotiate, DialNegotiate, r
  <2>2. /\ [r EXCEPT !.udp = "open"].pc = r.pc /\ [r EXCEPT !.udp = "closed"].pc = r.pc
        /\ [r EXCEPT !.transport = "new"].pc = r.pc
    BY <1>0 DEF CallType
  <2> QED BY <1>0, <1>w, <2>1, <2>2, Unseen, Zenon
<1>3. CASE /\ Register(c) /\ rpc[c] = "register"
           /\ calls[IdOf[c]] = NoCall \/ c \in DialReqs
  BY <1>3, LifeBegin
<1>4. CASE AcceptDiscard(c) \/ AcceptStop(c) \/ AcceptCancel(c)
  <2>1. \/ Set(c, Cancel(CloseTransport(r), "self")) \/ Set(c, StopBusiness(r))
        \/ Set(c, Cancel(r, "self"))
    BY <1>4 DEF AcceptDiscard, AcceptStop, AcceptCancel, r
  <2>2. /\ CloseTransport(r) \in CallType /\ CloseTransport(r).pc = r.pc
        /\ SameSeen(r, CloseTransport(r))
    <3>1. CloseTransport(r).pc = r.pc
      BY <1>0 DEF CloseTransport, CallType
    <3> QED BY <1>0, <3>1, StepTypes, Unseen, Zenon
  <2>3. SameSeen(r, Cancel(CloseTransport(r), "self"))
    BY <2>2, Unseen, UnseenAgain, Zenon
  <2>4. /\ Cancel(CloseTransport(r), "self").pc = r.pc /\ StopBusiness(r).pc = r.pc
        /\ Cancel(r, "self").pc = r.pc
    BY <1>0, <2>2 DEF CallType, Cancel, StopBusiness
  <2> QED BY <1>0, <1>w, <2>1, <2>3, <2>4, Unseen, Zenon
<1>5. CASE DialMeta(c)
  <2>1. \/ Set(c, [r EXCEPT !.signaled = TRUE, !.meta = "open"])
        \/ \E m : Set(c, [r EXCEPT !.udp = "closed", !.meta = m])
    BY <1>5, Zenon DEF DialMeta, r
  <2>2. CASE Set(c, [r EXCEPT !.signaled = TRUE, !.meta = "open"])
    <3> DEFINE q == [r EXCEPT !.signaled = TRUE, !.meta = "open"]
    <3>1. r.pc = "none" /\ r.termToken = "no"
      BY <1>0, <1>5, Zenon DEF DialMeta, OwnerOK
    <3>2. /\ q.pc = r.pc /\ q.signaled = TRUE /\ q.ready = r.ready
          /\ q.termToken = r.termToken /\ q.userTerminated = r.userTerminated
      BY <1>0, Zenon DEF CallType
    <3> HIDE DEF q
    <3>3. Life!Next /\ Undecided'
      BY <1>0, <2>2, <3>1, <3>2, Phases, LifeSignal, Zenon DEF q, r
    <3> QED BY <3>3
  <2>3. \A m : [r EXCEPT !.udp = "closed", !.meta = m].pc = r.pc
    BY <1>0 DEF CallType
  <2> QED BY <1>0, <1>w, <2>1, <2>2, <2>3, Unseen, Zenon
<1>6. CASE c \in DialReqs /\ DialRegister(c) /\ ~Register(c)
  BY <1>6, LifeDismiss
<1>7. ASSUME c \in AcceptReqs, AcceptCheck(c) \/ AcceptStep(c) \/ AcceptCallerGone(c)
      PROVE  \/ UNCHANGED call \/ AcceptListen(c) \/ AcceptNegotiate(c)
             \/ (Register(c) /\ rpc[c] = "register" /\ calls[IdOf[c]] = NoCall)
             \/ AcceptDiscard(c) \/ AcceptStop(c) \/ AcceptCancel(c)
  BY <1>7, Zenon DEF AcceptCheck, AcceptCallerGone, AcceptStep, AcceptRegister, AcceptReady
<1>8. ASSUME c \in DialReqs, DialCheck(c) \/ DialStep(c)
      PROVE  \/ UNCHANGED call \/ DialListen(c) \/ DialNegotiate(c) \/ DialMeta(c)
             \/ Register(c) /\ rpc[c] = "register"
             \/ DialRegister(c) /\ ~Register(c)
  BY <1>8, Zenon DEF DialCheck, DialStep, DialRegister
<1> QED BY <1>1, <1>2, <1>3, <1>4, <1>5, <1>6, <1>7, <1>8, Zenon

\* Connect, Disconnect, the callbacks of LiveKit and the stops.
LEMMA LifeEvents ==
  ASSUME IInv, Undecided,
         \/ \E c \in DialReqs : ConnectApply(c)
         \/ \E c \in Reqs, kind \in {"user", "business"}, t \in BOOLEAN :
              DisconnectLookup(c, kind, t)
         \/ \E c \in Reqs : RoomDisconnected(c)
         \/ \E s \in stops : Stop(s)
  PROVE  [Life!Next]_lives /\ Undecided'
<1>0. /\ TypeOK /\ call \in [Reqs -> CallType] /\ \A x \in Reqs : call[x] \in CallType
  BY DEF IInv, TypeOK
<1>w. ASSUME NEW c \in Reqs, NEW q, Set(c, q), SameSeen(call[c], q), q.pc = call[c].pc
      PROVE  [Life!Next]_lives /\ Undecided'
  BY <1>0, <1>w, LifeQuiet
<1>1. CASE UNCHANGED call
  BY <1>1 DEF lives, Undecided
<1>2. ASSUME NEW c \in DialReqs, ConnectApply(c)
      PROVE  [Life!Next]_lives /\ Undecided'
  <2>1. c \in Reqs /\ (UNCHANGED call \/ Set(c, ApplyAnswer(call[c])))
    BY <1>2 DEF ConnectApply, Reqs
  <2>2. SameSeen(call[c], ApplyAnswer(call[c])) /\ ApplyAnswer(call[c]).pc = call[c].pc
    BY <1>0, <2>1, Unseen, OtherFields, Zenon
  <2> QED BY <1>1, <1>w, <2>1, <2>2
<1>3. ASSUME NEW c \in Reqs, NEW kind \in {"user", "business"}, NEW t \in BOOLEAN,
             DisconnectLookup(c, kind, t)
      PROVE  [Life!Next]_lives /\ Undecided'
  <2>1. Set(c, [call[c] EXCEPT !.meta = "ended"]) \/ Set(c, call[c])
    BY <1>3 DEF DisconnectLookup
  <2>2. /\ SameSeen(call[c], [call[c] EXCEPT !.meta = "ended"])
        /\ [call[c] EXCEPT !.meta = "ended"].pc = call[c].pc
        /\ SameSeen(call[c], call[c])
    BY <1>0, Unseen DEF CallType, SameSeen
  <2> QED BY <1>w, <2>1, <2>2, Zenon
<1>4. ASSUME NEW c \in Reqs, RoomDisconnected(c)
      PROVE  [Life!Next]_lives /\ Undecided'
  <2>1. \E b : Set(c, [call[c] EXCEPT !.bridge = b])
    BY <1>4, Zenon DEF RoomDisconnected
  <2>2. \A b : /\ SameSeen(call[c], [call[c] EXCEPT !.bridge = b])
               /\ [call[c] EXCEPT !.bridge = b].pc = call[c].pc
    BY <1>0, Unseen, Zenon DEF CallType
  <2> QED BY <1>w, <2>1, <2>2, Zenon
<1>5. ASSUME NEW s \in stops, Stop(s)
      PROVE  [Life!Next]_lives /\ Undecided'
  <2> DEFINE c == s.call
  <2>0. c \in Reqs /\ call[c].pc # "none"
    BY <1>0 DEF IInv, TypeOK, StopType, StopOK
  <2> HIDE DEF c
  <2>1. \/ Set(c, [call[c] EXCEPT !.token = "fresh"])
        \/ Set(c, StopUser(call[c])) \/ Set(c, StopBusiness(call[c]))
        \/ Set(c, Cancel(call[c], s.kind))
    BY <1>5 DEF Stop, StopStep, c
  <2>2. /\ [call[c] EXCEPT !.token = "fresh"].pc = call[c].pc
        /\ StopBusiness(call[c]).pc = call[c].pc
        /\ Cancel(call[c], s.kind).pc = call[c].pc
    BY <1>0, <2>0 DEF CallType, StopBusiness, Cancel
  <2>3. CASE Set(c, StopUser(call[c]))
    BY <1>0, <2>0, <2>3, LifeHangUp
  <2>4. /\ SameSeen(call[c], [call[c] EXCEPT !.token = "fresh"])
        /\ SameSeen(call[c], StopBusiness(call[c]))
        /\ SameSeen(call[c], Cancel(call[c], s.kind))
    BY <1>0, <2>0, Unseen, Zenon
  <2> QED BY <1>w, <2>0, <2>1, <2>2, <2>3, <2>4, Zenon
<1> QED BY <1>2, <1>3, <1>4, <1>5

\* The manager implements CallLife: every step of every handler, goroutine,
\* callback and sweep is a step of the life of one call, or changes no life.
THEOREM CallsLiveAsPromised == Spec => LivesAsPromised
<1>1. Init => Life!Init /\ Undecided
  <2> SUFFICES ASSUME Init PROVE Life!Init /\ Undecided
    OBVIOUS
  <2>1. \A c \in Reqs : call[c] = NewCall
    BY DEF Init
  <2>2. LifeOf(NewCall) = [at |-> "idle", told |-> "open", signaled |-> FALSE,
                           hungUp |-> FALSE, verdict |-> "open"]
    BY DEF LifeOf, NewCall, AfterSnapshot
  <2> QED BY <2>1, <2>2 DEF Life!Init, lives, Undecided, NewCall
<1>2. IInv /\ Undecided /\ [Next]_vars => [Life!Next]_lives /\ Undecided'
  <2> SUFFICES ASSUME IInv, Undecided, [Next]_vars PROVE [Life!Next]_lives /\ Undecided'
    OBVIOUS
  <2>0. call \in [Reqs -> CallType]
    BY DEF IInv, TypeOK
  <2>1. CASE UNCHANGED call
    BY <2>1 DEF lives, Undecided
  <2>2. ASSUME NEW a \in AcceptReqs, AcceptCheck(a) \/ AcceptStep(a) \/ AcceptCallerGone(a)
        PROVE  [Life!Next]_lives /\ Undecided'
    BY <2>2, LifeHandlers, Zenon DEF Reqs
  <2>3. ASSUME NEW d \in DialReqs, DialCheck(d) \/ DialStep(d)
        PROVE  [Life!Next]_lives /\ Undecided'
    BY <2>3, LifeHandlers, Zenon DEF Reqs
  <2>4. ASSUME NEW c \in Reqs, RunStep(c) \/ MediaStops(c)
        PROVE  [Life!Next]_lives /\ Undecided'
    <3>1. CASE RunLocal(c) \/ EndMediaStopped(c)
      BY <3>1, LifeRun
    <3>2. CASE Delete(c)
      BY <2>0, <3>2, LifeFinish DEF Delete
    <3>3. CASE WgDone(c)
      <4>1. /\ SameSeen(call[c], [call[c] EXCEPT !.pc = "done"])
            /\ Phase([call[c] EXCEPT !.pc = "done"].pc) = Phase(call[c].pc)
            /\ Set(c, [call[c] EXCEPT !.pc = "done"])
        BY <2>0, <3>3, Unseen, Phases, Zenon DEF WgDone, Goto, CallType
      <4> QED BY <2>0, <4>1, LifeQuiet, Zenon
    <3> QED BY <2>4, <3>1, <3>2, <3>3 DEF RunStep, MediaStops
  <2>5. ASSUME NEW c \in DialReqs, \/ ConnectLookup(c) \/ ConnectReady(c)
                                   \/ ConnectCallerGone(c)
        PROVE  UNCHANGED call
    BY <2>5, Zenon DEF ConnectLookup, ConnectReady, ConnectCallerGone
  <2>6. CASE \/ Signal \/ MainStep \/ (proc = "exited" /\ UNCHANGED vars)
             \/ UNCHANGED vars
    <3>1. UNCHANGED call
      BY <2>6, Zenon DEF Signal, MainStep, WindowExpires, BeginDrain, EndSweep, Exit, vars
    <3> QED BY <2>1, <3>1
  <2> QED BY <2>1, <2>2, <2>3, <2>4, <2>5, <2>6, LifeEvents, Zenon DEF Next
<1> QED BY <1>1, <1>2, InductiveInvariant, PTL DEF Spec, LivesAsPromised, Life!Spec
=============================================================================
