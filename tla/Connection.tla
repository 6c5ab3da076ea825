----------------------------- MODULE Connection -----------------------------
(***************************************************************************)
(* The RDMA-CM connection of src/rdma_com.cc, src/env_basic.cc and         *)
(* src/tc_pro.cc: one server process and the client processes that dial    *)
(* it.  Each process has a main thread, which sleeps one second and then   *)
(* spins on is_alive, and a detached connection thread, which executes     *)
(* RDMAServer::run or RDMAClient::run and leaves when its event loop       *)
(* breaks.  Connection managers talk through per-process event channels.   *)
(*                                                                         *)
(* External: rdma_cm and the fabric (events posted by the calls, lost      *)
(* requests, notices of a peer's death), verbs objects, the operating      *)
(* system (process death at any moment).                                   *)
(***************************************************************************)
EXTENDS Integers, Sequences, FiniteSets

CONSTANTS
  Server,        \* the server process
  Clients,       \* the client processes
  None,          \* nullptr, or no event in hand
  NumRetries,    \* NUM_OF_RETRIES
  WrNumber,      \* conn_params.wr_cq_number
  NumQps,        \* conn_params.num_of_qps, the backlog of rdma_listen
  BuildFaults    \* how build_connection may go wrong: "fail", "null"

ASSUME ProcessAssumption ==
  /\ IsFiniteSet(Clients)
  /\ Server \notin Clients
  /\ None \notin Clients
ASSUME BoundAssumption ==
  /\ NumRetries \in Nat \ {0}
  /\ WrNumber \in Nat \ {0}
  /\ NumQps \in Nat \ {0}
ASSUME FaultAssumption == BuildFaults \subseteq {"fail", "null"}

VARIABLES
  mpc,        \* the main thread: "sleep", "spin", or "dead" with its process
  pc,         \* where the connection thread is, or how its process died
  alive,      \* thread_alive
  retry,      \* num_of_retry of each client
  events,     \* the queue of each cm_channel
  cur,        \* the event a thread has retrieved and is to handle
  unacked,    \* that event is not acknowledged yet
  link,       \* link[c]: what the fabric knows of c's connection
  cm_id,      \* the server's conn_ctx.cm_id, named by its client
  qp,         \* conn_ctx.qp: "none", "live" or "gone"
  recvs,      \* receive work requests posted on conn_ctx.qp
  connected,  \* conn_params.connected
  wire        \* processes a meta message is on its way to

threadVars == <<mpc, alive, retry>>
cmVars     == <<events, cur, unacked, link>>
connVars   == <<cm_id, qp, recvs, connected, wire>>
vars == <<pc, threadVars, cmVars, connVars>>

Procs == Clients \cup {Server}

EventTypes == {"ADDR_RESOLVED", "ADDR_ERROR", "ROUTE_RESOLVED", "ROUTE_ERROR",
               "CONNECT_REQUEST", "CONNECT_RESPONSE", "ESTABLISHED",
               "DISCONNECTED", "OTHER"}

(* An event of the connection that client id dialled.  "OTHER" stands for  *)
(* REJECTED, UNREACHABLE, DEVICE_REMOVAL...: no handler names them.        *)
Event == [type : EventTypes, id : Clients]
Ev(t, c) == [type |-> t, id |-> c]

ASSUME NoneAssumption == None \notin Event

Crashes == {"exited", "killed", "crashed", "aborted"}
Dead(p) == mpc[p] = "dead"

(* thread_alive is not initialised by the constructors (rdma_com.h:114). *)
Init ==
  /\ mpc = [p \in Procs |-> "sleep"]
  /\ pc = [p \in Procs |-> "new"]
  /\ alive \in [Procs -> BOOLEAN]
  /\ retry = [c \in Clients |-> NumRetries]
  /\ events = [p \in Procs |-> <<>>]
  /\ cur = [p \in Procs |-> None]
  /\ unacked = [p \in Procs |-> FALSE]
  /\ link = [c \in Clients |-> "idle"]
  /\ cm_id = None
  /\ qp = [p \in Procs |-> "none"]
  /\ recvs = [p \in Procs |-> 0]
  /\ connected = [p \in Procs |-> FALSE]
  /\ wire = {}
-----------------------------------------------------------------------------
(***************************************************************************)
(* External: what rdma_cm does.                                            *)
(***************************************************************************)

(* Event t of connection c appended to p's channel. *)
Post(p, t, c) == [events EXCEPT ![p] = Append(@, Ev(t, c))]

Goto(p, where) == pc' = [pc EXCEPT ![p] = where]

Listening == pc[Server] \in {"listen", "first", "serve", "handle"}
Requests == {i \in DOMAIN events[Server] :
               events[Server][i].type = "CONNECT_REQUEST"}

(* A connection is cut while it stands, or before it is established. *)
Cut(state) ==
  CASE state = "up" -> "down"
    [] state \in {"req", "rep"} -> "lost"
    [] OTHER -> state

(* What q's channel is told when process p dies. *)
Notice(p, q) ==
  IF (p = Server) = (q = Server) THEN <<>>
  ELSE LET c == IF p = Server THEN q ELSE p
       IN CASE link[c] = "up" -> <<Ev("DISCONNECTED", c)>>
            [] link[c] = "rep" -> <<Ev("OTHER", c)>>
            [] link[c] = "req" /\ p = Server -> <<Ev("OTHER", c)>>
            [] OTHER -> <<>>

(* Process p ends, for the reason how: its memory is gone (nobody reads    *)
(* what is left of it here) and the kernel tears its objects down.         *)
Die(p, how) ==
  /\ mpc' = [mpc EXCEPT ![p] = "dead"]
  /\ Goto(p, how)
  /\ events' = [q \in Procs |-> IF q = p \/ Dead(q) THEN <<>>
                                ELSE events[q] \o Notice(p, q)]
  /\ cur' = [cur EXCEPT ![p] = None]
  /\ alive' = [alive EXCEPT ![p] = FALSE]
  /\ unacked' = [unacked EXCEPT ![p] = FALSE]
  /\ link' = [c \in Clients |-> IF p \in {Server, c} THEN Cut(link[c]) ELSE link[c]]
  /\ wire' = wire \ {p}
  /\ UNCHANGED <<retry, cm_id, qp, recvs, connected>>

(* The user interrupts a process. *)
Kill(p) == ~Dead(p) /\ Die(p, "killed")

(* The server does not answer a request in time. *)
Timeout(c) ==
  /\ link[c] = "req"
  /\ link' = [link EXCEPT ![c] = "lost"]
  /\ events' = Post(c, "OTHER", c)
  /\ UNCHANGED <<pc, threadVars, cur, unacked, connVars>>

DeviceRemoval(p) ==
  /\ pc[p] \in {"listen", "serve"}
  /\ events[p] = <<>>
  /\ \E c \in Clients : p \in {Server, c} /\ events' = Post(p, "OTHER", c)
  /\ UNCHANGED <<pc, threadVars, cur, unacked, link, connVars>>

(* A meta message reaches a live queue pair and takes a posted receive. *)
Deliver(p) ==
  /\ p \in wire
  /\ wire' = wire \ {p}
  /\ recvs' = IF qp[p] = "live" /\ recvs[p] > 0
              THEN [recvs EXCEPT ![p] = @ - 1] ELSE recvs
  /\ UNCHANGED <<pc, threadVars, cmVars, cm_id, qp, connected>>
-----------------------------------------------------------------------------
(***************************************************************************)
(* tc_pro.cc: rdma_conn_thread and main.                                   *)
(***************************************************************************)

(* A faulty thread that leaves set_alive(true) out. *)
StartSilent(p) ==
  /\ pc[p] = "new"
  /\ Goto(p, "setup")
  /\ UNCHANGED <<threadVars, cmVars, connVars>>

Start(p) ==
  /\ pc[p] = "new"
  /\ alive' = [alive EXCEPT ![p] = TRUE]
  /\ Goto(p, "setup")
  /\ UNCHANGED <<mpc, retry, cmVars, connVars>>

(* run() has returned. *)
Finish(p) ==
  /\ pc[p] = "done"
  /\ alive' = [alive EXCEPT ![p] = FALSE]
  /\ Goto(p, "ended")
  /\ UNCHANGED <<mpc, retry, cmVars, connVars>>

(* sleep(1) is over, whether or not the thread has started by then. *)
MainWake(p) ==
  /\ mpc[p] = "sleep"
  /\ mpc' = [mpc EXCEPT ![p] = "spin"]
  /\ UNCHANGED <<pc, alive, retry, cmVars, connVars>>

MainExit(p) ==
  /\ mpc[p] = "spin"
  /\ ~alive[p]
  /\ Die(p, "exited")
-----------------------------------------------------------------------------
(***************************************************************************)
(* build_connection and the handlers of events.                            *)
(***************************************************************************)

(* One receive short of a full queue. *)
PostRecvsShort(p) == [recvs EXCEPT ![p] = WrNumber - 1]
PostRecvs(p) == [recvs EXCEPT ![p] = WrNumber]

(* build_connection past the point where it may still fail. *)
Build(p) ==
  /\ qp' = [qp EXCEPT ![p] = "live"]
  /\ recvs' = PostRecvs(p)
  /\ connected' = [connected EXCEPT ![p] = FALSE]

(* rdma_accept: the reply waits in c's channel, unless c has gone. *)
Accept(c) ==
  IF link[c] = "req"
  THEN /\ events' = Post(c, "CONNECT_RESPONSE", c)
       /\ link' = [link EXCEPT ![c] = "rep"]
  ELSE /\ events' = Post(Server, "OTHER", c)
       /\ UNCHANGED link

Accepting(c, ok) ==
  /\ Accept(c)
  /\ Goto(Server, ok)
  /\ unacked' = [unacked EXCEPT ![Server] = FALSE]

(* A faulty handler that, like the client's, ignores build_connection. *)
OnConnectRequestCareless(c, ok, failed) ==
  /\ \/ Build(Server)
     \/ "fail" \in BuildFaults /\ UNCHANGED <<qp, recvs, connected>>
  /\ Accepting(c, ok)
  /\ UNCHANGED mpc

(***************************************************************************)
(* on_connect_request: build_connection, then rdma_accept; either may      *)
(* fail, which sends the thread to label failed, past the ack.             *)
(***************************************************************************)
OnConnectRequest(c, ok, failed) ==
  /\ \/ Build(Server) /\ Accepting(c, ok)
     \/ /\ \/ Build(Server)
           \/ "fail" \in BuildFaults /\ UNCHANGED <<qp, recvs, connected>>
        /\ Goto(Server, failed)
        /\ UNCHANGED <<events, unacked, link>>
  /\ UNCHANGED mpc

(* on_connection: connected, and one meta message sent on conn_ctx.qp. *)
OnConnection(p, c) ==
  /\ connected' = [connected EXCEPT ![p] = TRUE]
  /\ wire' = wire \cup {q \in {Server, c} \ {p} : ~Dead(q)}
  /\ Goto(p, "serve")
  /\ UNCHANGED <<qp, recvs>>

(* A faulty on_disconnect that lets the event loop go on. *)
OnDisconnectContinues(p) ==
  /\ qp' = [qp EXCEPT ![p] = "gone"]
  /\ recvs' = [recvs EXCEPT ![p] = 0]
  /\ Goto(p, "serve")
  /\ UNCHANGED <<connected, wire>>

(***************************************************************************)
(* on_disconnect and destroy_connection.  rdma_destroy_id waits for every  *)
(* event to be acknowledged; FAILURE breaks the event loop.                *)
(***************************************************************************)
OnDisconnect(p) ==
  /\ qp' = [qp EXCEPT ![p] = "gone"]
  /\ recvs' = [recvs EXCEPT ![p] = 0]
  /\ Goto(p, IF unacked[p] THEN "blocked" ELSE "close")
  /\ UNCHANGED <<connected, wire>>

(* The branches of on_event both sides have; cur[p] is the event. *)
OnEvent(p) ==
  /\ pc[p] = "handle"
  /\ \/ cur[p].type = "ESTABLISHED" /\ OnConnection(p, cur[p].id)
     \/ cur[p].type = "DISCONNECTED" /\ OnDisconnect(p)
     \/ /\ cur[p].type \in {"OTHER", "CONNECT_RESPONSE"}
        /\ Goto(p, "close")
        /\ UNCHANGED <<qp, recvs, connected, wire>>
  /\ cur' = [cur EXCEPT ![p] = None]
  /\ UNCHANGED <<threadVars, events, unacked, link, cm_id>>

(***************************************************************************)
(* rdma_get_cm_event of the event loop.  Inside it a client that has a     *)
(* queue pair turns the server's response into ESTABLISHED and tells the   *)
(* server so; if that fails the event is CONNECT_ERROR, an OTHER here.     *)
(***************************************************************************)
GetEvent(p) ==
  /\ pc[p] = "serve" /\ events[p] # <<>>
  /\ LET ev == Head(events[p])
         response == p # Server /\ ev.type = "CONNECT_RESPONSE" /\ qp[p] = "live"
     IN \E told \in IF response THEN {Ev("ESTABLISHED", p), Ev("OTHER", p)} ELSE {ev} :
          LET up == response /\ told.type = "ESTABLISHED"
          IN /\ cur' = [cur EXCEPT ![p] = told]
             /\ events' = [q \in Procs |->
                  IF q = p THEN Tail(events[p])
                  ELSE IF up /\ q = Server /\ link[p] = "rep"
                  THEN Append(events[q], Ev("ESTABLISHED", p)) ELSE events[q]]
             /\ link' = IF up /\ link[p] = "rep" THEN [link EXCEPT ![p] = "up"] ELSE link
  /\ Goto(p, "handle")
  /\ UNCHANGED <<threadVars, connVars>>

(* A faulty turn of the loop that forgets to acknowledge. *)
RetrieveUnacked(p) == GetEvent(p) /\ unacked' = [unacked EXCEPT ![p] = TRUE]

(* The loop copies the event and acknowledges it before it is handled. *)
Retrieve(p) == GetEvent(p) /\ unacked' = [unacked EXCEPT ![p] = FALSE]

(* stop(), from another thread, while the connection stands. *)
Stop(p) ==
  /\ connected[p] /\ qp[p] = "live" /\ ~Dead(p)
  /\ LET c == IF p = Server THEN cm_id ELSE p
     IN /\ link[c] = "up"
        /\ link' = [link EXCEPT ![c] = "down"]
        /\ events' = [q \in Procs |->
             IF q \in {Server, c} /\ ~Dead(q)
             THEN Append(events[q], Ev("DISCONNECTED", c)) ELSE events[q]]
  /\ UNCHANGED <<pc, threadVars, cur, unacked, connVars>>
-----------------------------------------------------------------------------
(***************************************************************************)
(* RDMAServer::run.                                                        *)
(***************************************************************************)

(* Channel, identifier, address, bind and listen, or a failure of one. *)
ServerSetup ==
  /\ pc[Server] = "setup"
  /\ \E next \in {"listen", "done"} : Goto(Server, next)
  /\ UNCHANGED <<threadVars, cmVars, connVars>>

(* The first event is retrieved, and acknowledged only once handled. *)
RetrieveFirst ==
  /\ pc[Server] = "listen" /\ events[Server] # <<>>
  /\ cur' = [cur EXCEPT ![Server] = Head(events[Server])]
  /\ events' = [events EXCEPT ![Server] = Tail(@)]
  /\ unacked' = [unacked EXCEPT ![Server] = TRUE]
  /\ Goto(Server, "first")
  /\ UNCHANGED <<threadVars, link, connVars>>

ServerFirst ==
  /\ pc[Server] = "first"
  /\ \/ /\ cur[Server].type = "CONNECT_REQUEST"
        /\ cm_id' = cur[Server].id
        /\ OnConnectRequest(cur[Server].id, "serve", "done")
     \/ /\ cur[Server].type # "CONNECT_REQUEST"
        /\ Goto(Server, "done")
        /\ UNCHANGED <<mpc, events, unacked, link, cm_id, qp, recvs, connected>>
  /\ cur' = [cur EXCEPT ![Server] = None]
  /\ UNCHANGED <<alive, retry, wire>>

(* A faulty handler that accepts every client on one conn_ctx. *)
LaterRequestAccepted ==
  /\ pc[Server] = "handle" /\ cur[Server].type = "CONNECT_REQUEST"
  /\ OnConnectRequest(cur[Server].id, "serve", "close")
  /\ cur' = [cur EXCEPT ![Server] = None]
  /\ UNCHANGED <<alive, retry, cm_id, wire>>

(***************************************************************************)
(* A request of another client retrieved by the event loop.  Once its      *)
(* queue pair exists, assert(conn_ctx.cm_id == id) fails: conn_ctx.cm_id   *)
(* is the first client's.                                                  *)
(***************************************************************************)
LaterRequest ==
  /\ pc[Server] = "handle" /\ cur[Server].type = "CONNECT_REQUEST"
  /\ \/ /\ cur[Server].id # cm_id
        /\ Die(Server, "aborted")
     \/ /\ "fail" \in BuildFaults
        /\ Goto(Server, "close")
        /\ cur' = [cur EXCEPT ![Server] = None]
        /\ UNCHANGED <<threadVars, events, unacked, link, connVars>>

(* rdma_destroy_id(cm_id_control) rejects what is queued, then the channel *)
(* goes; a client only destroys its channel.                               *)
Close(p) ==
  /\ pc[p] = "close"
  /\ LET refused == IF p = Server THEN {c \in Clients : link[c] = "req"} ELSE {}
     IN /\ events' = [q \in Procs |->
             IF q = p THEN <<>>
             ELSE IF q \in refused THEN Append(events[q], Ev("OTHER", q))
             ELSE events[q]]
        /\ link' = [c \in Clients |-> IF c \in refused THEN "lost" ELSE link[c]]
  /\ Goto(p, "done")
  /\ UNCHANGED <<threadVars, cur, unacked, connVars>>
-----------------------------------------------------------------------------
(***************************************************************************)
(* RDMAClient::run.                                                        *)
(***************************************************************************)

ClientSetup(c) ==
  /\ pc[c] = "setup"
  /\ \E next \in {"resolve", "done"} : Goto(c, next)
  /\ UNCHANGED <<threadVars, cmVars, connVars>>

(* A faulty test that misses zero. *)
RetryLeftOrZero(c) == retry[c] >= 0
RetryLeft(c) == retry[c] # 0

(* The head of the first loop: the retry test and rdma_resolve_addr. *)
Resolve(c) ==
  /\ pc[c] = "resolve"
  /\ \/ Goto(c, "done") /\ UNCHANGED events
     \/ /\ RetryLeft(c)
        /\ \E t \in {"ADDR_RESOLVED", "ADDR_ERROR", "OTHER"} : events' = Post(c, t, c)
        /\ Goto(c, "addr")
  /\ UNCHANGED <<threadVars, cur, unacked, link, connVars>>

(* The events a client waits for one by one, each acknowledged at once. *)
Receives(c, where, type) ==
  /\ pc[c] = where /\ events[c] # <<>>
  /\ Head(events[c]).type = type

Pop(c) == events' = [events EXCEPT ![c] = Tail(@)]

(* A faulty retry that does not count. *)
CountNothing(c) == UNCHANGED retry
CountError(c) == retry' = [retry EXCEPT ![c] = @ - 1]

AddrError(c) ==
  /\ Receives(c, "addr", "ADDR_ERROR") /\ Pop(c)
  /\ CountError(c)
  /\ Goto(c, "resolve")
  /\ UNCHANGED <<mpc, alive, cur, unacked, link, connVars>>

(***************************************************************************)
(* on_addr_resolved ignores what build_connection returned, and calls      *)
(* rdma_resolve_route, which may fail.                                     *)
(***************************************************************************)
OnAddrResolved(c) ==
  /\ Receives(c, "addr", "ADDR_RESOLVED")
  /\ \/ Build(c)
     \/ "fail" \in BuildFaults /\ UNCHANGED <<qp, recvs, connected>>
  /\ \/ Goto(c, "done") /\ Pop(c)
     \/ /\ Goto(c, "route")
        /\ \E t \in {"ROUTE_RESOLVED", "ROUTE_ERROR", "OTHER"} :
             events' = [events EXCEPT ![c] = Append(Tail(@), Ev(t, c))]
  /\ UNCHANGED <<threadVars, cur, unacked, link, cm_id, wire>>

(* num_of_retry--, and back to waiting: the route is not asked for again. *)
RouteError(c) ==
  /\ Receives(c, "route", "ROUTE_ERROR") /\ Pop(c)
  /\ CountError(c)
  /\ Goto(c, IF retry[c] - 1 <= 0 THEN "done" ELSE "route")
  /\ UNCHANGED <<mpc, alive, cur, unacked, link, connVars>>

(* on_route_resolved: rdma_connect fails, is refused or lost, or reaches   *)
(* the server's channel if its backlog allows.                             *)
OnRouteResolved(c) ==
  /\ Receives(c, "route", "ROUTE_RESOLVED")
  /\ \/ Goto(c, "done") /\ Pop(c) /\ UNCHANGED link
     \/ /\ Goto(c, "serve")
        /\ events' = [events EXCEPT ![c] = Append(Tail(@), Ev("OTHER", c))]
        /\ link' = [link EXCEPT ![c] = "lost"]
     \/ /\ Goto(c, "serve")
        /\ Listening /\ Cardinality(Requests) < NumQps
        /\ events' = [events EXCEPT ![c] = Tail(@),
                                    ![Server] = Append(@, Ev("CONNECT_REQUEST", c))]
        /\ link' = [link EXCEPT ![c] = "req"]
  /\ UNCHANGED <<threadVars, cur, unacked, connVars>>

(* Any other event ends run(). *)
Unexpected(c) ==
  /\ \E where \in {"addr", "route"} : Receives(c, where, "OTHER")
  /\ Pop(c)
  /\ Goto(c, "done")
  /\ UNCHANGED <<threadVars, cur, unacked, link, connVars>>

(* A verbs call of build_connection returned NULL, which it dereferences. *)
BuildCrash(p) ==
  /\ "null" \in BuildFaults
  /\ IF p = Server
     THEN pc[p] \in {"first", "handle"} /\ cur[p].type = "CONNECT_REQUEST"
     ELSE Receives(p, "addr", "ADDR_RESOLVED")
  /\ Die(p, "crashed")
-----------------------------------------------------------------------------
MainStep(p) == MainWake(p) \/ MainExit(p)

ServerStep ==
  ServerSetup \/ RetrieveFirst \/ ServerFirst \/ LaterRequest

ClientStep(c) ==
  \/ ClientSetup(c) \/ Resolve(c) \/ AddrError(c) \/ OnAddrResolved(c)
  \/ RouteError(c) \/ OnRouteResolved(c) \/ Unexpected(c)

ThreadStep(p) ==
  \/ Start(p) \/ Finish(p) \/ Retrieve(p) \/ OnEvent(p) \/ Close(p)
  \/ p = Server /\ ServerStep
  \/ p \in Clients /\ ClientStep(p)

Environment(p) ==
  Kill(p) \/ Stop(p) \/ DeviceRemoval(p) \/ Deliver(p) \/ BuildCrash(p)

Next ==
  \/ \E p \in Procs : MainStep(p) \/ ThreadStep(p) \/ Environment(p)
  \/ \E c \in Clients : Timeout(c)

Spec == Init /\ [][Next]_vars

(* Both threads of a live process are scheduled; nothing is owed by users. *)
Fairness == \A p \in Procs : WF_vars(MainStep(p)) /\ WF_vars(ThreadStep(p))

FairSpec == Spec /\ Fairness
-----------------------------------------------------------------------------
Threads == {"new", "setup", "listen", "first", "resolve", "addr", "route",
            "serve", "handle", "blocked", "close", "done", "ended"}

TypeOK ==
  /\ mpc \in [Procs -> {"sleep", "spin", "dead"}]
  /\ pc \in [Procs -> Threads \cup Crashes]
  /\ alive \in [Procs -> BOOLEAN]
  /\ retry \in [Clients -> 0 .. NumRetries]
  /\ events \in [Procs -> Seq(Event)]
  /\ cur \in [Procs -> Event \cup {None}]
  /\ unacked \in [Procs -> BOOLEAN]
  /\ link \in [Clients -> {"idle", "req", "lost", "rep", "up", "down"}]
  /\ cm_id \in Clients \cup {None}
  /\ qp \in [Procs -> {"none", "live", "gone"}]
  /\ recvs \in [Procs -> 0 .. WrNumber]
  /\ connected \in [Procs -> BOOLEAN]
  /\ wire \subseteq Procs

(***************************************************************************)
(* Once the detached thread has begun, main does not leave its spin loop,  *)
(* and so does not end the process, before run() has returned, whatever    *)
(* run() meets: thread_alive is set by the thread and cleared only then.   *)
(* Before the thread has begun, thread_alive is not initialised, sleep(1)  *)
(* is all that keeps main, and main may leave (tc_pro.cc:38-40).           *)
(***************************************************************************)
MainOutlivesRun ==
  \A p \in Procs : mpc[p] = "spin" /\ ~alive[p] => pc[p] \in {"new", "ended"}

(***************************************************************************)
(* post_meta_send_wr is reached only with a live queue pair and registered *)
(* memory, those of the connection the event is about, even though the     *)
(* client never looks at what build_connection returned.                   *)
(***************************************************************************)
SendOnLiveQp ==
  \A p \in Procs : (pc[p] = "handle" /\ cur[p].type = "ESTABLISHED") =>
    /\ qp[p] = "live"
    /\ p = Server => cur[p].id = cm_id

(***************************************************************************)
(* destroy_connection runs only for the connection conn_ctx holds and only *)
(* while its queue pair and memory exist: assert(id->context == this) of   *)
(* on_disconnect never fails and nothing is freed twice.                   *)
(***************************************************************************)
DestroyOnlyBuilt ==
  \A p \in Procs : (pc[p] = "handle" /\ cur[p].type = "DISCONNECTED") =>
    /\ qp[p] = "live"
    /\ cur[p].id = IF p = Server THEN cm_id ELSE p

(***************************************************************************)
(* A meta message never meets a live queue pair without a posted receive:  *)
(* each side fills its receive queue before the other can learn of it.     *)
(***************************************************************************)
MetaFindsRecv == \A p \in wire : qp[p] = "live" => recvs[p] > 0

(***************************************************************************)
(* Server and client agree on who is connected: a connected client is the  *)
(* one conn_ctx.cm_id of the server names, and a connected server's peer   *)
(* has completed the handshake.                                            *)
(***************************************************************************)
SidesAgree ==
  /\ \A c \in Clients : connected[c] => cm_id = c
  /\ connected[Server] => cm_id # None /\ link[cm_id] \in {"up", "down"}

(***************************************************************************)
(* What a server owes its clients over its life, as Session states it.     *)
(***************************************************************************)
Opened == {c \in Clients : link[c] \in {"up", "down"}}

Served == INSTANCE Session WITH
            owner <- cm_id, opened <- Opened, serving <- connected[Server]

ImplementsSession == Served!Spec

(***************************************************************************)
(* When the client a server has accepted dies, at whatever point of the    *)
(* handshake or after it, the server process ends as well.                 *)
(***************************************************************************)
ServerEnds ==
  \A c \in Clients : (cm_id = c /\ Dead(c)) ~> Dead(Server)

(* When the server dies, every client that had dialled it ends as well.    *)
ClientEnds ==
  \A c \in Clients : (link[c] # "idle" /\ Dead(Server)) ~> Dead(c)

(***************************************************************************)
(* A client that has started ends up connected or gone, unless a route     *)
(* error left it waiting: RouteErrorAborts.                                *)
(***************************************************************************)
RouteErrored(c) == pc[c] = "route" /\ retry[c] < NumRetries /\ events[c] = <<>>

ClientSettles ==
  \A c \in Clients :
    (pc[c] = "setup") ~> (connected[c] \/ Dead(c) \/ RouteErrored(c))
-----------------------------------------------------------------------------
(***************************************************************************)
(* What the repository says and the code does not do.                      *)
(***************************************************************************)

(***************************************************************************)
(* assert(conn_ctx.cm_id == id) (env_basic.cc:270) holds whenever          *)
(* build_connection runs.  Violated by a second client's request.          *)
(***************************************************************************)
CmIdAssertHolds == pc[Server] # "aborted"

(***************************************************************************)
(* "Received %d times ADDR_ERROR - aborting" (rdma_com.cc:327): route      *)
(* errors are retried a bounded number of times and then run() returns.    *)
(* Violated: the route is never resolved again, the client waits for ever. *)
(***************************************************************************)
RouteErrorAborts == \A c \in Clients : (pc[c] = "route") ~> (pc[c] # "route")
-----------------------------------------------------------------------------
(***************************************************************************)
(* The inductive strengthening the theorems of ConnectionProofs rest on.   *)
(***************************************************************************)
Running == Threads \ {"new", "ended"}
Dialing == {"new", "setup", "resolve", "addr", "route"}

DriverInv ==
  \A p \in Procs :
    /\ Dead(p) <=> pc[p] \in Crashes
    /\ pc[p] \in Running => alive[p]

RetryInv == \A c \in Clients : pc[c] \in {"addr", "route"} => retry[c] >= 1

(* A handler has an event in hand; a client's ESTABLISHED implies its pair. *)
HandlerInv ==
  \A p \in Procs :
    /\ pc[p] \in {"first", "handle"} => cur[p] \in Event
    /\ pc[p] = "handle" /\ cur[p].type = "ESTABLISHED" => qp[p] = "live"

(* The server takes its one client when it handles its first event. *)
ServerInv ==
  /\ pc[Server] \in {"new", "setup", "listen", "first"} =>
       cm_id = None /\ ~connected[Server]
  /\ pc[Server] \in {"serve", "handle"} => cm_id \in Clients /\ qp[Server] = "live"
  /\ connected[Server] => cm_id \in Clients /\ link[cm_id] \in {"up", "down"}

(* Only the client the server has taken gets further than its request. *)
LinkInv ==
  \A c \in Clients :
    /\ pc[c] \in Dialing => link[c] = "idle"
    /\ link[c] \in {"rep", "up", "down"} => cm_id = c
    /\ link[c] \in {"up", "down"} /\ pc[c] \in {"serve", "handle"} => qp[c] = "live"
    /\ connected[c] => cm_id = c

(* What an event on its way to p, or in p's hand, says of its connection. *)
Sound(p, e) ==
  /\ p # Server => e.id = p
  /\ p # Server /\ e.type \in {"CONNECT_RESPONSE", "ESTABLISHED"} => cm_id = p
  /\ p = Server /\ e.type = "ESTABLISHED" => link[e.id] \in {"up", "down"}
  /\ e.type = "DISCONNECTED" => link[e.id] = "down"

(* Only a client's rdma_get_cm_event itself makes its ESTABLISHED. *)
Queued(p, e) == Sound(p, e) /\ (p # Server => e.type # "ESTABLISHED")

Elems(s) == {s[i] : i \in DOMAIN s}

EventInv ==
  \A p \in Procs :
    /\ \A e \in Elems(events[p]) : Queued(p, e)
    /\ cur[p] # None => Sound(p, cur[p])

(* What makes p send its message: an event in its queue, or in its hand.   *)
Opener(p) == IF p = Server THEN "ESTABLISHED" ELSE "CONNECT_RESPONSE"
AtMostOnce(s, t) == \A i, j \in DOMAIN s : s[i].type = t /\ s[j].type = t => i = j
Waits(p) == \E e \in Elems(events[p]) : e.type = Opener(p)
Opens(p) == pc[p] = "handle" /\ cur[p].type = "ESTABLISHED"

(* A message to p is on its way, or has come.                              *)
Written(p) == p \in wire \/ (qp[p] = "live" /\ recvs[p] # WrNumber)

(* Each side sends once in its life: the event that makes it send comes    *)
(* once, and before it is connected.  So one receive is all it takes.      *)
MetaInv ==
  \A p \in Procs :
    /\ AtMostOnce(events[p], Opener(p))
    /\ Waits(p) => ~Opens(p) /\ ~connected[p]
    /\ Opens(p) \/ pc[p] \in Dialing => ~connected[p]
    /\ Written(p) => IF p = Server THEN \E c \in Clients : connected[c]
                     ELSE cm_id = p /\ connected[Server]
    /\ p \in wire /\ qp[p] = "live" => recvs[p] = WrNumber

IInv ==
  TypeOK /\ DriverInv /\ RetryInv /\ HandlerInv /\ ServerInv /\ LinkInv /\ EventInv
=============================================================================
