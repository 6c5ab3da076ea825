------------------------------ MODULE PerfComm ------------------------------
(***************************************************************************)
(* The exchange channel of two peers of the benchmark library (struct      *)
(* perftest_comm): a TCP connection, or a queue pair of its own when the   *)
(* connection manager is used.  Over it the peers go through one script of *)
(* exchanges (versions, sizes, keys, barriers, reports), the client        *)
(* writing first and the server reading first each time.                   *)
(*                                                                         *)
(* Nothing in a message says which exchange it belongs to: each side takes *)
(* the next message for the answer to the exchange it is at.               *)
(***************************************************************************)
EXTENDS PerfOptions, Sequences

CONSTANT MaxTries   \* NUM_OF_RETRIES of address and route resolutions

VARIABLES
  left,     \* what is left of each side's script
  todo,     \* what it still has to do for the exchange it is at
  comm,     \* its end of the channel
  tries,    \* resolutions the client may still repeat
  tcp,      \* TCP: whether the other end is open, has closed, has reset
  stream,   \* TCP: what waits to be read
  buf,      \* RDMA: ctx->buf[0], which sends and receives share
  recvs,    \* RDMA: receives posted
  arrived,  \* RDMA: receive completions not yet polled
  sent,     \* RDMA: the send of this side
  own,      \* cycle_buffer, cache_line_size and curr_mtu of each side
  rem,      \* rem_dest: the queue pair numbers a side has been told
  got       \* the last message read, and the exchange it was read for

commVars == <<left, todo, comm, tries, tcp, stream, buf, recvs, arrived, sent, own, rem, got>>

-----------------------------------------------------------------------------
(* The script, which the program runs on both sides.                       *)

Item(kind) == <<kind, 0>>
Items(kind, n) == [i \in 1..n |-> <<kind, i>>]

\* xchg_bw_reports: size, iterations, peak, average and rate, one exchange each.
Reports == Items("report", IF opt.tst = "BW" /\ opt.test_method # "RUN_INFINITELY" THEN 5 ELSE 0)

Script ==
  <<Item("connect"), Item("version"), Item("cycle_buffer"), Item("cache_line_size"), Item("mtu")>>
  \o (IF opt.work_rdma_cm
      THEN <<Item("allocate"), Item("before_cm"), Item("cm"), Item("after_cm")>>
      ELSE <<Item("init")>>)
  \o (IF opt.send_rcredit THEN <<Item("credit")>> ELSE <<>>)
  \o Items("keys", opt.num_of_qps)
  \o <<Item("pair"), Item("prepare"), Item("ready"), Item("traffic")>>
  \o Reports
  \o <<Item("close"), Item("destroy")>>

HandShakes == {"before_cm", "after_cm", "keys", "ready", "close"}
Exchanges == HandShakes \cup {"version", "cycle_buffer", "cache_line_size", "mtu", "report"}

AtEnd(s) == left[s] = <<>>
Here(s) == IF AtEnd(s) THEN Item("end") ELSE Head(left[s])
IsAt(s, kind) == Here(s)[1] = kind
Past(s, kind) == \A p \in DOMAIN left[s] : left[s][p][1] # kind

\* ctx_close_connection says goodbye on a TCP connection.
Goodbye(kind) == IF kind = "close" /\ ~opt.use_rdma_cm THEN <<"done">> ELSE <<>>

\* Faulty exchanges: a server that gives its report and takes none, and a client
\* that closes before it has heard the server.
PartsOneSided(s, kind) ==
  IF kind \notin Exchanges THEN <<>>
  ELSE (CASE s = "client" -> <<"write", "read">>
          [] s = "server" /\ kind = "report" -> <<"write">>
          [] OTHER -> <<"read", "write">>) \o Goodbye(kind)
PartsImpatient(s, kind) ==
  IF kind \notin Exchanges THEN <<>>
  ELSE (CASE s = "server" -> <<"read", "write">>
          [] s = "client" /\ kind = "close" -> <<"write">>
          [] OTHER -> <<"write", "read">>) \o Goodbye(kind)

\* ctx_hand_shake and ctx_xchg_data: the client writes and then reads, the
\* server the other way round.
Parts(s, kind) ==
  IF kind \notin Exchanges THEN <<>>
  ELSE (IF s = "client" THEN <<"write", "read">> ELSE <<"read", "write">>) \o Goodbye(kind)

Advance(s) ==
  /\ left' = [left EXCEPT ![s] = Tail(@)]
  /\ todo' = [todo EXCEPT ![s] = IF Len(left[s]) = 1 THEN <<>> ELSE Parts(s, left[s][2][1])]

CommInit ==
  /\ left = [s \in Sides |-> Script]
  /\ todo = [s \in Sides |-> <<>>]
  /\ comm = [s \in Sides |-> IF opt.refused THEN "failed" ELSE "off"]
  /\ tries = MaxTries
  /\ tcp = [s \in Sides |-> "open"]
  /\ stream = [s \in Sides |-> <<>>]
  /\ buf = [s \in Sides |-> None]
  /\ recvs = [s \in Sides |-> 0]
  /\ arrived = [s \in Sides |-> 0]
  /\ sent = [s \in Sides |-> "none"]
  /\ own = [s \in Sides |-> opt.host[s]]
  /\ rem = [s \in Sides |-> [q \in Ids |-> None]]
  /\ got = [s \in Sides |-> None]

\* A side closes its end, or its program ends and the kernel closes it: what
\* the peer wrote and nobody read turns the closing into a reset.
Close(s, state) ==
  /\ comm' = [comm EXCEPT ![s] = state]
  /\ tcp' = IF comm[s] \in {"backlog", "open"} /\ ~opt.use_rdma_cm
            THEN [tcp EXCEPT ![Peer(s)] =
                    CASE stream[s] # <<>> \/ comm[s] = "backlog" -> "reset"
                      [] stream[s] = <<>> /\ @ = "open" -> "closed"
                      [] OTHER -> @]
            ELSE tcp
Exit(s) ==
  /\ Close(s, "failed")
  /\ UNCHANGED <<left, todo, tries, stream, buf, recvs, arrived, sent, own, rem, got>>

-----------------------------------------------------------------------------
(* establish_connection                                                    *)

quiet == <<tries, tcp, stream, buf, recvs, arrived, sent, own, rem, got>>

\* ethernet_server_connect or rdma_server_connect up to listen.
Listen ==
  /\ IsAt("server", "connect") /\ comm["server"] = "off"
  /\ comm' = [comm EXCEPT !["server"] = "listening"]
  /\ UNCHANGED <<left, todo, quiet>>

\* ethernet_client_connect: the kernel of a listening server completes the
\* connection, any other refuses it, and the client gives up.
TcpConnect ==
  /\ ~opt.use_rdma_cm
  /\ IsAt("client", "connect") /\ comm["client"] = "off"
  /\ IF comm["server"] = "listening"
     THEN /\ comm' = [client |-> "open", server |-> "backlog"]
          /\ Advance("client")
          /\ UNCHANGED quiet
     ELSE Exit("client")

\* accept
TcpAccept ==
  /\ comm["server"] = "backlog"
  /\ comm' = [comm EXCEPT !["server"] = "open"]
  /\ Advance("server")
  /\ UNCHANGED quiet

\* rdma_client_connect: resolve address and route, each failure costing one of
\* the tries they share; then ctx_init, one receive, and rdma_connect.
RdmaResolve ==
  /\ opt.use_rdma_cm
  /\ IsAt("client", "connect") /\ comm["client"] \in {"off", "resolved"}
  /\ \/ /\ comm["client"] = "off"
        /\ comm' = [comm EXCEPT !["client"] = "resolved"]
        /\ UNCHANGED <<tries, recvs>>
     \/ /\ comm["client"] = "resolved"
        /\ comm' = [comm EXCEPT !["client"] = "requesting"]
        /\ recvs' = [recvs EXCEPT !["client"] = 1]
        /\ UNCHANGED tries
     \/ /\ opt.faults
        /\ tries' = tries - 1
        /\ comm' = [comm EXCEPT !["client"] = IF tries = 1 THEN "failed" ELSE @]
        /\ UNCHANGED recvs
  /\ UNCHANGED <<left, todo, tcp, stream, buf, arrived, sent, own, rem, got>>

\* The request finds no listener: an event other than ESTABLISHED.
RdmaRefused ==
  /\ comm["client"] = "requesting" /\ comm["server"] # "listening"
  /\ Exit("client")

\* rdma_server_connect: the request is there; ctx_init, one receive, accept.
RdmaAccept ==
  /\ comm["client"] = "requesting" /\ comm["server"] = "listening"
  /\ comm' = [client |-> "accepted", server |-> "open"]
  /\ recvs' = [recvs EXCEPT !["server"] = 1]
  /\ Advance("server")
  /\ UNCHANGED <<tries, tcp, stream, buf, arrived, sent, own, rem, got>>

RdmaEstablished ==
  /\ comm["client"] = "accepted"
  /\ comm' = [comm EXCEPT !["client"] = "open"]
  /\ Advance("client")
  /\ UNCHANGED quiet

Establish ==
  Listen \/ TcpConnect \/ TcpAccept \/ RdmaResolve \/ RdmaRefused \/ RdmaAccept \/ RdmaEstablished

-----------------------------------------------------------------------------
(* One exchange.                                                           *)

\* Faulty keys: those of the next queue pair, and of the first each time.
ValueOfNext(s) ==
  LET kind == Here(s)[1] IN
  CASE kind \in DOMAIN own[s] -> own[s][kind]
    [] kind = "keys" -> Here(s)[2]
    [] OTHER -> 0
ValueOfFirst(s) == IF Here(s)[1] \in DOMAIN own[s] THEN own[s][Here(s)[1]] ELSE 0

\* What a side sends: its own value, which in a hand-shake for queue pair i is
\* that queue pair's number.
Value(s) ==
  LET kind == Here(s)[1] IN
  CASE kind \in DOMAIN own[s] -> own[s][kind]
    [] kind = "keys" -> Here(s)[2] - 1
    [] OTHER -> 0

\* A faulty settlement, that takes the peer's value for its own.
SettledTaken(s, v) ==
  LET kind == Here(s)[1] IN
  /\ own' = IF kind \in {"cycle_buffer", "cache_line_size", "mtu"}
            THEN [own EXCEPT ![s][kind] = v] ELSE own
  /\ rem' = IF kind = "keys" /\ KeysReach THEN [rem EXCEPT ![s][Here(s)[2] - 1] = v] ELSE rem

\* What check_sys_data and check_mtu make of both values once the exchange is
\* over, and what a hand-shake for a queue pair leaves in rem_dest: without
\* HAVE_ENDIAN rdma_read_keys copies over its own pointer, and nothing.
Settled(s, v) ==
  LET kind == Here(s)[1]
      mine == own[s][kind]
      larger == IF v > mine THEN v ELSE mine
      valid == v \in 1..5 IN
  /\ own' = CASE kind \in {"cycle_buffer", "cache_line_size"} -> [own EXCEPT ![s][kind] = larger]
              [] kind = "mtu" -> [own EXCEPT ![s].mtu = IF valid /\ mine > v THEN v ELSE mine]
              [] OTHER -> own
  /\ rem' = IF kind = "keys" /\ KeysReach THEN [rem EXCEPT ![s][Here(s)[2] - 1] = v] ELSE rem

\* One part of the exchange is over: read leaves msg in the caller's memory.
PartOver(s, msg) ==
  /\ got' = [got EXCEPT ![s] = msg]
  /\ IF Len(todo[s]) = 1
     THEN Advance(s) /\ Settled(s, msg.value)
     ELSE todo' = [todo EXCEPT ![s] = Tail(@)] /\ UNCHANGED <<left, own, rem>>

Doing(s, part) == comm[s] = "open" /\ todo[s] # <<>> /\ Head(todo[s]) = part

-----------------------------------------------------------------------------
(* TCP                                                                     *)

\* A hand-shake's text has one length with a gid and another without, and a
\* side reads the length its own gid calls for; the first piece is what both
\* texts begin with.
Pieces(s) == IF Here(s)[1] \in HandShakes /\ opt.host[s].gid THEN 2 ELSE 1
Text(s) == [k \in 1..Pieces(s) |-> [item |-> Here(s), value |-> Value(s), piece |-> k]]

\* ethernet_write_keys, ethernet_write_data.  A write after the peer has
\* closed succeeds and is answered with a reset.
TcpWrite(s) ==
  /\ ~opt.use_rdma_cm /\ Doing(s, "write")
  /\ IF tcp[s] = "reset" THEN Exit(s)
     ELSE /\ PartOver(s, got[s])
          /\ stream' = IF tcp[s] = "open" THEN [stream EXCEPT ![Peer(s)] = @ \o Text(s)] ELSE stream
          /\ tcp' = IF tcp[s] = "closed" THEN [tcp EXCEPT ![s] = "reset"] ELSE tcp
          /\ UNCHANGED <<comm, tries, buf, recvs, arrived, sent>>

\* ethernet_read_keys, ethernet_read_data: one call of read, which waits for
\* something to be there; fewer bytes than asked for, or a text that does not
\* parse, is a failure.
TcpRead(s) ==
  LET n == Pieces(s)
      first == Head(stream[s]) IN
  /\ ~opt.use_rdma_cm /\ Doing(s, "read")
  /\ stream[s] # <<>> \/ tcp[s] # "open"
  /\ IF Len(stream[s]) < n \/ first.piece # 1 THEN Exit(s)
     ELSE /\ PartOver(s, [item |-> first.item, for |-> Here(s), value |-> first.value])
          /\ stream' = [stream EXCEPT ![s] = SubSeq(@, n + 1, Len(@))]
          /\ UNCHANGED <<comm, tries, tcp, buf, recvs, arrived, sent>>

\* The end of ctx_close_connection: one more write, and close.
TcpDone(s) ==
  /\ Doing(s, "done")
  /\ IF tcp[s] = "reset" THEN Exit(s)
     ELSE /\ stream' = IF tcp[s] = "open"
                       THEN [stream EXCEPT ![Peer(s)] = Append(@, [item |-> Item("done"), value |-> 0, piece |-> 1])]
                       ELSE stream
          /\ Close(s, "closed")
          /\ Advance(s)
          /\ UNCHANGED <<tries, buf, recvs, arrived, sent, own, rem, got>>

-----------------------------------------------------------------------------
(* RDMA                                                                    *)

\* rdma_write_keys, rdma_write_data: copy into the buffer and post; then poll
\* for the completion.  Without HAVE_ENDIAN the keys are the bytes of a pointer.
Copied(s) == IF IsAt(s, "keys") /\ ~KeysReach THEN None ELSE Value(s)
RdmaPost(s) ==
  /\ opt.use_rdma_cm /\ Doing(s, "write") /\ sent[s] = "none"
  /\ buf' = [buf EXCEPT ![s] = [item |-> Here(s), value |-> Copied(s)]]
  /\ sent' = [sent EXCEPT ![s] = "posted"]
  /\ UNCHANGED <<left, todo, comm, tries, tcp, stream, recvs, arrived, own, rem, got>>

\* The device sends what the buffer holds into the peer's buffer, once a
\* receive is posted there; a peer that is gone makes the send fail.
RdmaDeliver(s) ==
  LET t == Peer(s) IN
  /\ sent[s] = "posted"
  /\ IF comm[t] = "failed"
     THEN /\ sent' = [sent EXCEPT ![s] = "error"]
          /\ UNCHANGED <<buf, recvs, arrived>>
     ELSE /\ recvs[t] > 0
          /\ sent' = [sent EXCEPT ![s] = "complete"]
          /\ buf' = [buf EXCEPT ![t] = buf[s]]
          /\ recvs' = [recvs EXCEPT ![t] = @ - 1]
          /\ arrived' = [arrived EXCEPT ![t] = @ + 1]
  /\ UNCHANGED <<left, todo, comm, tries, tcp, stream, own, rem, got>>

RdmaWritten(s) ==
  /\ Doing(s, "write")
  /\ \/ sent[s] = "error" /\ Exit(s)
     \/ /\ sent[s] = "complete"
        /\ sent' = [sent EXCEPT ![s] = "none"]
        /\ PartOver(s, got[s])
        /\ UNCHANGED <<comm, tries, tcp, stream, buf, recvs, arrived>>

\* rdma_read_keys, rdma_read_data: spin for a receive completion, copy, and
\* post the receive again.
RdmaRead(s) ==
  /\ opt.use_rdma_cm /\ Doing(s, "read")
  /\ arrived[s] > 0
  /\ arrived' = [arrived EXCEPT ![s] = @ - 1]
  /\ recvs' = [recvs EXCEPT ![s] = @ + 1]
  /\ PartOver(s, [item |-> buf[s].item, for |-> Here(s), value |-> buf[s].value])
  /\ UNCHANGED <<comm, tries, tcp, stream, buf, sent>>

Exchange(s) ==
  \/ TcpWrite(s) \/ TcpRead(s) \/ TcpDone(s)
  \/ RdmaPost(s) \/ RdmaWritten(s) \/ RdmaRead(s)
=============================================================================
