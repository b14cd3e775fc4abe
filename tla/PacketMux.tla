----------------------------- MODULE PacketMux -----------------------------
(***************************************************************************)
(* The packet mux (internal/media/transport.go): one goroutine, readLoop,    *)
(* reads the ICE connection and hands every packet to the endpoint of its    *)
(* kind, DTLS, SRTP or SRTCP.  An endpoint is a bounded channel, and readLoop *)
(* waits when it is full, for all three kinds.                               *)
(*                                                                         *)
(* A packet is a record whose field `to' is the endpoint its first bytes     *)
(* select, or "none".                                                        *)
(***************************************************************************)
EXTENDS Naturals, Sequences

CONSTANT EndpointSize  \* capacity of endpoint.packets, 128 in the code

VARIABLES
  loop,      \* readLoop: "read", "put" or "done"
  hand,      \* the packet readLoop is putting
  packets,   \* the channel of each endpoint
  epClosed,  \* the endpoints whose channel closed is closed
  mux,       \* "open", then "closing" once m.closed is closed, then "closed"
  connFails  \* a read of the connection fails

muxVars == <<loop, hand, packets, epClosed, mux, connFails>>

Endpoints == {"dtls", "srtp", "srtcp"}

\* newPacketMux
Init ==
  /\ loop = "read" /\ hand = <<>>
  /\ packets = [e \in Endpoints |-> <<>>]
  /\ epClosed = {}
  /\ mux = "open"
  /\ connFails = FALSE

\* A packet is read.  One of no known kind is dropped, as is an empty one.
Read(p) ==
  /\ loop = "read" /\ ~connFails
  /\ \/ p.to \in Endpoints /\ loop' = "put" /\ hand' = p
     \/ p.to \notin Endpoints /\ UNCHANGED <<loop, hand>>
  /\ UNCHANGED <<packets, epClosed, mux, connFails>>

\* m.once: the first Close starts, a later one finds it under way.
StartClose == mux' = IF mux = "open" THEN "closing" ELSE mux

\* The read fails: readLoop closes the mux and returns.
ReadFails ==
  /\ loop = "read" /\ connFails
  /\ StartClose
  /\ loop' = "done"
  /\ UNCHANGED <<hand, packets, epClosed, connFails>>

HasRoom(e) == Len(packets[e]) < EndpointSize

\* Mutant of Put: a plain send, without the select.
PutBlocking ==
  /\ loop = "put" /\ hand' = <<>>
  /\ HasRoom(hand.to) /\ loop' = "read"
  /\ packets' = [packets EXCEPT ![hand.to] = Append(@, hand)]
  /\ UNCHANGED <<epClosed, mux, connFails>>

\* The select of readLoop: the channel has room, the endpoint is closed and the
\* packet dropped, or the mux is closed.
Put ==
  /\ loop = "put" /\ hand' = <<>>
  /\ \/ /\ HasRoom(hand.to) /\ loop' = "read"
        /\ packets' = [packets EXCEPT ![hand.to] = Append(@, hand)]
     \/ hand.to \in epClosed /\ loop' = "read" /\ UNCHANGED packets
     \/ mux # "open" /\ loop' = "done" /\ UNCHANGED packets
  /\ UNCHANGED <<epClosed, mux, connFails>>

LoopStep == ReadFails \/ Put

-----------------------------------------------------------------------------
\* packetMux.Close is called from outside.
Close ==
  /\ mux = "open" /\ StartClose
  /\ UNCHANGED <<loop, hand, packets, epClosed, connFails>>

\* The rest of Close: the connection and the endpoints.
CloseRest ==
  /\ mux = "closing" /\ mux' = "closed"
  /\ connFails' = TRUE /\ epClosed' = Endpoints
  /\ UNCHANGED <<loop, hand, packets>>

\* The network, or the ICE agent under the connection, fails.
ConnFails ==
  /\ ~connFails /\ connFails' = TRUE
  /\ UNCHANGED <<loop, hand, packets, epClosed, mux>>

\* endpoint.ReadFrom: the select takes a packet or sees the closed channel,
\* either when both are ready.
Take(e) ==
  /\ packets[e] # <<>>
  /\ packets' = [packets EXCEPT ![e] = Tail(@)]
  /\ UNCHANGED <<loop, hand, epClosed, mux, connFails>>

EOF(e) == e \in epClosed
=============================================================================
