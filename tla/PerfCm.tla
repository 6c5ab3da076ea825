------------------------------- MODULE PerfCm -------------------------------
(***************************************************************************)
(* How two peers of the benchmark library connect num_of_qps queue pairs   *)
(* through the RDMA connection manager (create_rdma_cm_connection), and    *)
(* take the connections down again (the connection part of destroy_ctx).   *)
(*                                                                         *)
(* One control identifier per connection: the client makes them all before *)
(* it starts, the server gets its own with each request.  An identifier is *)
(* named by the client's node that made it.  Each side reads its event     *)
(* channel one event at a time; the handlers number the connections in the *)
(* order in which events come, which need not be the order of the nodes.   *)
(***************************************************************************)
EXTENDS PerfOptions, Sequences, FiniteSets

VARIABLES
  cmPc,             \* where each side is in create_rdma_cm_connection
  connectsLeft,     \* cma_master.connects_left
  disconnectsLeft,  \* cma_master.disconnects_left
  connIndex,        \* cma_master.connection_index
  node,             \* cma_master.nodes: the identifier, the remote number
  qpOfId,           \* the identifiers that have a queue pair, per side
  qp,               \* ctx->qp: whose queue pair is the i-th
  link,             \* what the kernel has made of each identifier
  events,           \* the event channel of each side
  datagrams         \* UD: queue pair numbers on their way to the server

cmVars == <<cmPc, connectsLeft, disconnectsLeft, connIndex, node, qpOfId,
            qp, link, events, datagrams>>

NeedsReply == IsUd /\ BothWays

NoNode == [cma_id |-> None, remote_qpn |-> None, connected |-> FALSE]

CmInit ==
  /\ cmPc = [s \in Sides |-> "idle"]
  /\ connectsLeft = [s \in Sides |-> 0]
  /\ disconnectsLeft = [s \in Sides |-> 0]
  /\ connIndex = [s \in Sides |-> 0]
  /\ node = [s \in Sides |-> [i \in Ids |-> NoNode]]
  /\ qpOfId = [s \in Sides |-> {}]
  /\ qp = [s \in Sides |-> [i \in Ids |-> None]]
  /\ link = [i \in Ids |-> "new"]
  /\ events = [s \in Sides |-> <<>>]
  /\ datagrams = <<>>

-----------------------------------------------------------------------------
(* The kernel's side: what an identifier goes through.                     *)

Event(kind, i) == [kind |-> kind, id |-> i]

\* A resolution ends, in any order over the identifiers.
Resolved == [addr |-> "addr_resolved", route |-> "route_resolved"]
Unresolved == [addr |-> "addr_error", route |-> "route_error"]
ResolutionEnds(i) ==
  /\ link[i] \in DOMAIN Resolved
  /\ \/ /\ link' = [link EXCEPT ![i] = Resolved[link[i]]]
        /\ events' = [events EXCEPT !["client"] = Append(@, Event(Resolved[link[i]], i))]
     \/ /\ opt.faults
        /\ link' = [link EXCEPT ![i] = "error"]
        /\ events' = [events EXCEPT !["client"] = Append(@, Event(Unresolved[link[i]], i))]
  /\ UNCHANGED <<cmPc, connectsLeft, disconnectsLeft, connIndex, node, qpOfId, qp, datagrams>>

\* A request reaches the server: its kernel hands it to a listener, and
\* refuses it when nobody listens yet or any more.
RequestArrives(i) ==
  /\ link[i] = "request"
  /\ IF cmPc["server"] \in {"events", "ud_wait"}
     THEN /\ link' = [link EXCEPT ![i] = "offered"]
          /\ events' = [events EXCEPT !["server"] = Append(@, Event("connect_request", i))]
     ELSE /\ link' = [link EXCEPT ![i] = "refused"]
          /\ events' = [events EXCEPT !["client"] = Append(@, Event("rejected", i))]
  /\ UNCHANGED <<cmPc, connectsLeft, disconnectsLeft, connIndex, node, qpOfId, qp, datagrams>>

Kernel == \E i \in Ids : ResolutionEnds(i) \/ RequestArrives(i)

\* What becomes of the identifiers of a side that goes away: the requests it
\* has not answered are refused, its open connections close under the peer.
Closed(i) == CASE link[i] \in {"request", "offered"} -> "refused"
               [] link[i] = "up" -> "down"
               [] OTHER -> link[i]
Goodbyes(ids) ==
  [k \in 1..Cardinality(ids) |->
     LET i == CHOOSE n \in ids : Cardinality({m \in ids : m < n}) = k - 1 IN
     Event(IF link[i] = "up" THEN "disconnected" ELSE "rejected", i)]
PartAll == Goodbyes({i \in Ids : link[i] \in {"request", "offered", "up"}})
PartOpen == Goodbyes({i \in Ids : link[i] = "up"})

-----------------------------------------------------------------------------
(* Client.                                                                 *)

\* A side leaves with an error, its counters as they are.
Leave(s, where) == cmPc' = [cmPc EXCEPT ![s] = where]

\* rdma_cm_connect_error
ConnectError(s) == connectsLeft' = [connectsLeft EXCEPT ![s] = @ - 1]

\* create_rdma_cm_connection up to the first hand-shake: counter, channel and
\* nodes; the client's nodes get their identifiers here.
Allocate(s) ==
  /\ cmPc[s] = "idle"
  /\ connectsLeft' = [connectsLeft EXCEPT ![s] = opt.num_of_qps]
  /\ \/ /\ Leave(s, "allocated")
        /\ node' = [node EXCEPT ![s] = [i \in Ids |->
                      [NoNode EXCEPT !.cma_id = IF s = "client" /\ i \in Qps THEN i ELSE None]]]
     \/ opt.faults /\ Leave(s, "failed") /\ UNCHANGED node
  /\ UNCHANGED <<disconnectsLeft, connIndex, qpOfId, qp, link, events, datagrams>>

\* _rdma_cm_client_connection: resolve the address of every node.  A call that
\* fails counts as a connection error and ends the attempt.
ClientResolve ==
  /\ cmPc["client"] = "synced"
  /\ \/ /\ link' = [i \in Ids |-> IF i \in Qps THEN "addr" ELSE "new"]
        /\ Leave("client", "events")
        /\ UNCHANGED connectsLeft
     \/ /\ opt.faults
        /\ \E n \in Qps : link' = [i \in Ids |-> IF i < n THEN "addr" ELSE "new"]
        /\ ConnectError("client")
        /\ Leave("client", "retry")
  /\ UNCHANGED <<disconnectsLeft, connIndex, node, qpOfId, qp, events, datagrams>>

\* The head of a side's channel, taken by rdma_get_cm_event while connections
\* are missing (rdma_cm_connect_events).
Takes(s, kind) ==
  /\ cmPc[s] = "events"
  /\ connectsLeft[s] # 0
  /\ events[s] # <<>>
  /\ Head(events[s]).kind = kind

Took(s) == Tail(events[s])
EventId(s) == Head(events[s]).id

\* rdma_cm_address_handler; the type of service that could not be set is no
\* connection error.
AddressHandler ==
  /\ Takes("client", "addr_resolved")
  /\ events' = [events EXCEPT !["client"] = Took("client")]
  /\ \/ /\ link' = [link EXCEPT ![EventId("client")] = "route"]
        /\ UNCHANGED <<cmPc, connectsLeft>>
     \/ /\ opt.faults
        /\ Leave("client", "retry")
        /\ ConnectError("client") \/ (opt.tos # -1 /\ UNCHANGED connectsLeft)
        /\ UNCHANGED link
  /\ UNCHANGED <<disconnectsLeft, connIndex, node, qpOfId, qp, datagrams>>

\* rdma_cm_route_handler: the next index gets the queue pair of the identifier
\* whose route came, whichever node holds that identifier.  ctx_init of the
\* first connection, the queue pair or rdma_connect may fail.
RouteHandler ==
  LET i == EventId("client")
      k == connIndex["client"] IN
  /\ Takes("client", "route_resolved")
  /\ events' = [events EXCEPT !["client"] = Took("client")]
  /\ \/ /\ qpOfId' = [qpOfId EXCEPT !["client"] = @ \cup {i}]
        /\ qp' = [qp EXCEPT !["client"][k] = i]
        /\ link' = [link EXCEPT ![i] = "request"]
        /\ node' = [node EXCEPT !["client"][k].connected = TRUE]
        /\ connIndex' = [connIndex EXCEPT !["client"] = k + 1]
        /\ UNCHANGED <<cmPc, connectsLeft>>
     \/ /\ opt.faults
        /\ Leave("client", "retry")
        /\ ConnectError("client")
        /\ UNCHANGED <<qpOfId, qp, link, node, connIndex>>
  /\ UNCHANGED <<disconnectsLeft, datagrams>>

\* rdma_cm_establish_ud_connection: node e learns whom identifier i reached.
EstablishUd(e, i) ==
  node' = IF IsUd THEN [node EXCEPT !["client"][e].remote_qpn = i] ELSE node

\* rdma_cm_send_ud_connection_parameters: the peer, which must answer, is told
\* the number of the queue pair that sends.
SendUd(to, sender) ==
  datagrams' = IF NeedsReply THEN Append(datagrams, [to |-> to, imm |-> sender]) ELSE datagrams

\* rdma_cm_connection_established_handler on the client: node e is the e-th to
\* be established, and its own identifier's queue pair is the one that sends.
\* A node whose identifier has no queue pair yet has nothing to send from.
EstablishedHandler ==
  LET i == EventId("client")
      e == disconnectsLeft["client"]
      sender == node["client"][e].cma_id IN
  /\ Takes("client", "established")
  /\ events' = [events EXCEPT !["client"] = Took("client")]
  /\ \/ /\ NeedsReply /\ sender \notin qpOfId["client"]
        /\ Leave("client", "undefined")
        /\ UNCHANGED <<node, datagrams, connectsLeft, disconnectsLeft>>
     \/ /\ NeedsReply => sender \in qpOfId["client"]
        /\ EstablishUd(e, i)
        /\ SendUd(i, sender)
        /\ connectsLeft' = [connectsLeft EXCEPT !["client"] = @ - 1]
        /\ disconnectsLeft' = [disconnectsLeft EXCEPT !["client"] = @ + 1]
        /\ UNCHANGED cmPc
     \/ /\ opt.faults /\ IsUd
        /\ Leave("client", "retry")
        /\ ConnectError("client")
        /\ UNCHANGED <<node, datagrams, disconnectsLeft>>
  /\ UNCHANGED <<connIndex, qpOfId, qp, link>>

\* rdma_cm_event_error_handler: every error and every refusal ends the attempt.
EventErrorHandler ==
  /\ \E kind \in {"addr_error", "route_error", "rejected"} : Takes("client", kind)
  /\ events' = [events EXCEPT !["client"] = Took("client")]
  /\ ConnectError("client")
  /\ Leave("client", "retry")
  /\ UNCHANGED <<disconnectsLeft, connIndex, node, qpOfId, qp, link, datagrams>>

\* rdma_cm_disconnect_handler, met while connecting or while disconnecting.
DisconnectHandler(s) ==
  /\ \/ Takes(s, "disconnected")
     \/ /\ cmPc[s] = "disconnecting" /\ disconnectsLeft[s] # 0
        /\ events[s] # <<>> /\ Head(events[s]).kind = "disconnected"
  /\ events' = [events EXCEPT ![s] = Took(s)]
  /\ disconnectsLeft' = [disconnectsLeft EXCEPT ![s] = @ - 1]
  /\ UNCHANGED <<cmPc, connectsLeft, connIndex, node, qpOfId, qp, link, datagrams>>

\* rdma_cm_client_connection after a failed attempt: rdma_cm_destroy_cma frees
\* the nodes and the channel, and the next attempt resolves the freed nodes.
ClientRetries ==
  /\ cmPc["client"] = "retry"
  /\ Leave("client", "undefined")
  /\ link' = [i \in Ids |-> Closed(i)]
  /\ events' = [client |-> <<>>, server |-> events["server"] \o PartOpen]
  /\ UNCHANGED <<connectsLeft, disconnectsLeft, connIndex, node, qpOfId, qp, datagrams>>

-----------------------------------------------------------------------------
(* Server.                                                                 *)

\* rdma_cm_server_connection up to rdma_listen.
ServerListen ==
  /\ cmPc["server"] = "synced"
  /\ Leave("server", "events") \/ (opt.faults /\ Leave("server", "failed"))
  /\ UNCHANGED <<connectsLeft, disconnectsLeft, connIndex, node, qpOfId, qp, link, events, datagrams>>

\* The server ends in error: error_2 has counted and refused the request, and
\* the end of the program refuses or closes the rest.  When ctx_init failed,
\* ctx->cm_id is still null and rdma_reject is called on nothing.
ServerFails ==
  /\ \/ Leave("server", "failed")
     \/ connIndex["server"] = 0 /\ cmPc["server"] = "events" /\ Leave("server", "undefined")
  /\ ConnectError("server")
  /\ link' = [i \in Ids |-> Closed(i)]
  /\ events' = [server |-> <<>>, client |-> events["client"] \o PartAll]
  /\ UNCHANGED <<disconnectsLeft>>

\* The connection is counted (the last lines of the request handler).
Connected(k, i, qpn) ==
  /\ node' = [node EXCEPT !["server"][k] =
                [cma_id |-> i, remote_qpn |-> qpn, connected |-> TRUE]]
  /\ connIndex' = [connIndex EXCEPT !["server"] = k + 1]
  /\ connectsLeft' = [connectsLeft EXCEPT !["server"] = @ - 1]

\* rdma_cm_connection_request_handler up to rdma_accept: a queue pair for the
\* next index, UD's receive posted on it (by
\* rdma_cm_request_ud_connection_parameters) before the client is told.
RequestHandler ==
  LET i == EventId("server")
      k == connIndex["server"] IN
  /\ Takes("server", "connect_request")
  /\ \/ /\ qpOfId' = [qpOfId EXCEPT !["server"] = @ \cup {i}]
        /\ qp' = [qp EXCEPT !["server"][k] = i]
        /\ link' = [link EXCEPT ![i] = "up"]
        /\ events' = [client |-> Append(events["client"], Event("established", i)),
                      server |-> Took("server")]
        /\ IF NeedsReply
           THEN /\ Leave("server", "ud_wait")
                /\ node' = [node EXCEPT !["server"][k].cma_id = i]
                /\ UNCHANGED <<connIndex, connectsLeft>>
           ELSE Connected(k, i, None) /\ UNCHANGED cmPc
        /\ UNCHANGED <<disconnectsLeft, datagrams>>
     \/ opt.faults /\ ServerFails /\ UNCHANGED <<node, qpOfId, qp, connIndex, datagrams>>

\* rdma_cm_initialize_ud_connection_parameters: spin on the shared receive
\* queue until any completion comes, and take it for this connection's.
UdReply ==
  LET k == connIndex["server"] IN
  /\ cmPc["server"] = "ud_wait"
  /\ datagrams # <<>>
  /\ datagrams' = Tail(datagrams)
  /\ \/ /\ Connected(k, node["server"][k].cma_id, Head(datagrams).imm)
        /\ Leave("server", "events")
        /\ UNCHANGED <<disconnectsLeft, link, events>>
     \/ opt.faults /\ ServerFails /\ UNCHANGED <<node, connIndex>>
  /\ UNCHANGED <<qpOfId, qp>>

\* A datagram is lost: nothing ever repeats it.
DatagramLost ==
  /\ opt.faults /\ datagrams # <<>>
  /\ datagrams' = Tail(datagrams)
  /\ UNCHANGED <<cmPc, connectsLeft, disconnectsLeft, connIndex, node, qpOfId, qp, link, events>>

-----------------------------------------------------------------------------
(* Both.                                                                   *)

\* rdma_cm_connect_events ends when no connection is missing.
EventsEnd(s) ==
  /\ cmPc[s] = "events" /\ connectsLeft[s] = 0
  /\ Leave(s, "connected")
  /\ UNCHANGED <<connectsLeft, disconnectsLeft, connIndex, node, qpOfId, qp, link, events, datagrams>>

\* rdma_cm_disconnect_nodes: only the side that counted establishments, the
\* client, disconnects; then it waits for that many events.
Disconnect(s) ==
  /\ cmPc[s] = "used"
  /\ IF disconnectsLeft[s] = 0 \/ IsUd
     THEN Leave(s, "disconnected") /\ UNCHANGED <<node, link, events>>
     ELSE /\ Leave(s, "disconnecting")
          /\ node' = [node EXCEPT ![s] = [i \in Ids |-> [@[i] EXCEPT !.connected = FALSE]]]
          /\ link' = [i \in Ids |-> Closed(i)]
          /\ events' = [t \in Sides |-> IF cmPc[t] = "destroyed" THEN events[t]
                                        ELSE events[t] \o PartAll]
  /\ UNCHANGED <<connectsLeft, disconnectsLeft, connIndex, qpOfId, qp, datagrams>>

DisconnectsEnd(s) ==
  /\ cmPc[s] = "disconnecting" /\ disconnectsLeft[s] = 0
  /\ Leave(s, "disconnected")
  /\ UNCHANGED <<connectsLeft, disconnectsLeft, connIndex, node, qpOfId, qp, link, events, datagrams>>

\* rdma_cm_destroy_qps and rdma_cm_destroy_cma: queue pairs, identifiers,
\* channel and nodes go; what was still open closes under the peer.
Destroy(s) ==
  /\ cmPc[s] = "disconnected"
  /\ Leave(s, "destroyed")
  /\ qpOfId' = [qpOfId EXCEPT ![s] = {}]
  /\ node' = [node EXCEPT ![s] = [i \in Ids |-> NoNode]]
  /\ link' = [i \in Ids |-> Closed(i)]
  /\ events' = [t \in Sides |-> IF t = s \/ cmPc[t] = "destroyed" THEN <<>>
                                ELSE events[t] \o PartAll]
  /\ UNCHANGED <<connectsLeft, disconnectsLeft, connIndex, qp, datagrams>>

\* The program of a side is gone: its kernel closes what it had.
Vanish(s) ==
  /\ cmPc[s] # "gone"
  /\ Leave(s, "gone")
  /\ link' = [i \in Ids |-> Closed(i)]
  /\ events' = [t \in Sides |-> IF t = s \/ cmPc[t] \in {"destroyed", "gone"} THEN <<>>
                                ELSE events[t] \o PartAll]
  /\ UNCHANGED <<connectsLeft, disconnectsLeft, connIndex, node, qpOfId, qp, datagrams>>

ClientStep ==
  \/ ClientResolve \/ AddressHandler \/ RouteHandler \/ EstablishedHandler
  \/ EventErrorHandler \/ ClientRetries
ServerStep == ServerListen \/ RequestHandler \/ UdReply
=============================================================================
