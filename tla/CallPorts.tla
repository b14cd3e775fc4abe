----------------------------- MODULE CallPorts -----------------------------
(***************************************************************************)
(* The call manager on the sockets of the port allocator.  Accept and Dial     *)
(* call PortAllocator.Listen step by step, and wherever CallManager closes the *)
(* socket of a call, its port is free again.                                  *)
(***************************************************************************)
EXTENDS CallManager, Ports

\* Each request listens for itself.
ASSUME CallPortsAssumption == Callers = Reqs

cpVars == <<vars, portVars>>

CPInit == Init /\ PortInit

\* Listen, inside Accept or Dial.
Listen(r) ==
  /\ Running /\ rpc[r] = "listen"
  /\ Draw(r) \/ TryBind(r)
  /\ UNCHANGED vars

\* Accept or Dial goes on as Listen has ended.
ListenReturned ==
  \A r \in Reqs : rpc[r] = "listen" /\ rpc'[r] # "listen" =>
    scan[r].at = IF rpc'[r] = "negotiate" THEN "bound" ELSE "failed"

\* The calls whose socket a step of the manager closes.
Closing == {c \in Reqs : call[c].udp = "open" /\ call'[c].udp = "closed"}

ManagerStep ==
  /\ Next
  /\ ListenReturned
  /\ IF Closing = {} THEN UNCHANGED portVars ELSE CloseSockets(Closing)

CPNext ==
  \/ \E r \in Reqs : Listen(r)
  \/ ManagerStep
  \/ \E p \in Ports : HostStep(p) /\ UNCHANGED vars

CPSpec == CPInit /\ [][CPNext]_cpVars

-----------------------------------------------------------------------------
\* A port outlives no call: once the goroutine of a call has released its
\* resources, or the request that made it has given up, it owns none, so that
\* duplicate Accepts and failed Dials do not use the range up.
PortsReturned ==
  \A c \in Reqs :
    (\/ call[c].pc \in {"delete", "wgdone", "done"}
     \/ call[c].pc = "none" /\ rpc[c] = "returned")
    => \A p \in Ports : owner[p] # c
=============================================================================
