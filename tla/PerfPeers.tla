----------------------------- MODULE PerfPeers -----------------------------
(***************************************************************************)
(* Two peers of the benchmark library, from establish_connection to        *)
(* destroy_ctx: the exchange channel takes them through the script, the    *)
(* connection manager or the exchanged keys pair their queue pairs, the    *)
(* loops run on the queues, and everything is given back.                  *)
(***************************************************************************)
EXTENDS PerfComm, PerfCm, PerfBandwidth, PerfLatency, PerfSetup, PerfParams

CONSTANT Tests   \* the tests that are looked at

\* Every test is one of the three services and of the tests that are modelled;
\* what parser lets through has one queue pair but for bandwidth, and no bursts
\* through the connection manager.
ASSUME TestsAssumption ==
  \A test \in Tests : \A o \in Options(test) :
    /\ o \in Parameters
    /\ ~o.refused /\ o.tst # "BW" => o.num_of_qps = 1
    /\ ~o.refused /\ o.tst = "LAT_BY_BW" => ~o.work_rdma_cm

vars == <<opt, commVars, cmVars, queueVars, mate, setupVars>>

Init ==
  /\ \E test \in Tests : opt \in Options(test)
  /\ CommInit /\ CmInit /\ QueuesInit /\ SetupInit

Alive(s) == comm[s] # "failed"
Now(s, kind) == Alive(s) /\ IsAt(s, kind)

exchanging == <<comm, tries, tcp, stream, buf, recvs, arrived, sent, own, rem, got>>

-----------------------------------------------------------------------------
(* The exchange channel.                                                   *)

Talk(s) == Alive(s) /\ Exchange(s) /\ UNCHANGED <<opt, cmVars, queueVars, mate, setupVars>>
Wire ==
  /\ \E s \in Sides : Alive(s) /\ RdmaDeliver(s)
  /\ UNCHANGED <<opt, cmVars, queueVars, mate, setupVars>>
Meet == Establish /\ UNCHANGED <<opt, cmVars, queueVars, mate, setupVars>>

\* A side ends in error because a part of it failed, as ctx_connect may to a
\* destination of which it knows nothing; with faults, any call may.
Ends(s) ==
  /\ Alive(s)
  /\ \/ cmPc[s] \in {"failed", "undefined"} \/ at[s] = "failed"
     \/ IsAt(s, "pair") /\ ~opt.work_rdma_cm /\ ~KeysReach
  /\ Exit(s)
  /\ UNCHANGED <<opt, cmVars, queueVars, mate, setupVars>>
Crash(s) ==
  /\ opt.faults /\ Alive(s) /\ Alive(Peer(s)) /\ ~AtEnd(s)
  /\ Exit(s)
  /\ UNCHANGED <<opt, cmVars, queueVars, mate, setupVars>>

-----------------------------------------------------------------------------
(* The queue pairs.                                                        *)

\* What the connection handlers acquire as they go: the base with the first
\* queue pair, a queue pair for a connection, an address handle for a datagram
\* destination that became known.
CmResources ==
  held' = [s \in Sides |->
    held[s]
    \cup UNION {CmAcquires(s, k) : k \in {i \in Ids : qp'[s][i] # qp[s][i]}}
    \cup {<<"ah", i>> : i \in {j \in Ids : /\ node'[s][j].remote_qpn # node[s][j].remote_qpn
                                           /\ node'[s][j].remote_qpn # None}}]

CmHandler(s) ==
  /\ Now(s, "cm")
  /\ \/ s = "client" /\ ClientStep
     \/ s = "server" /\ ServerStep
     \/ DisconnectHandler(s) \/ EventsEnd(s)
  /\ CmResources
  /\ UNCHANGED <<opt, commVars, queueVars, mate, qpState, result>>

CmKernel ==
  /\ Kernel \/ DatagramLost
  /\ UNCHANGED <<opt, commVars, queueVars, mate, setupVars>>

CmAllocate(s) ==
  /\ Now(s, "allocate") /\ Allocate(s)
  /\ IF cmPc'[s] = "failed" THEN UNCHANGED <<left, todo>> ELSE Advance(s)
  /\ UNCHANGED <<opt, exchanging, queueVars, mate, setupVars>>

\* Into the connection after the first barrier, and out of it, with queue pairs
\* that the manager has made ready.
CmEnter(s) ==
  /\ Now(s, "cm") /\ cmPc[s] = "allocated"
  /\ Leave(s, "synced")
  /\ UNCHANGED <<opt, commVars, connectsLeft, disconnectsLeft, connIndex, node, qpOfId, qp,
                 link, events, datagrams, queueVars, mate, setupVars>>

CmLeave(s) ==
  /\ Now(s, "cm") /\ cmPc[s] = "connected"
  /\ Leave(s, "used")
  /\ Advance(s)
  /\ qpState' = [qpState EXCEPT ![s] = [q \in Ids |-> IF q \in Qps THEN "RTS" ELSE @[q]]]
  /\ UNCHANGED <<opt, exchanging, connectsLeft, disconnectsLeft, connIndex, node, qpOfId, qp,
                 link, events, datagrams, queueVars, mate, held, result>>

CmGone(s) ==
  /\ ~Alive(s) /\ opt.work_rdma_cm /\ Vanish(s)
  /\ UNCHANGED <<opt, commVars, queueVars, mate, setupVars>>

Initialize(s) ==
  /\ Now(s, "init") /\ CtxInit(s) /\ Advance(s)
  /\ UNCHANGED <<opt, exchanging, cmVars, queueVars, mate>>

\* Whom each queue pair sends to: the number its hand-shake brought, the other
\* end of its connection, or the datagram destination of its node.
IndexOf(s, id) == IF \E j \in Ids : qp[s][j] = id THEN CHOOSE j \in Ids : qp[s][j] = id ELSE None
Partner(s, q) ==
  CASE ~opt.work_rdma_cm -> rem[s][q]
    [] opt.work_rdma_cm /\ IsUd -> IndexOf(Peer(s), node[s][q].remote_qpn)
    [] OTHER -> IndexOf(Peer(s), qp[s][q])

\* The key of the credits goes with those of the queue pairs.
Credit(s) ==
  /\ Now(s, "credit") /\ AllocCredit(s) /\ Advance(s)
  /\ UNCHANGED <<opt, exchanging, cmVars, queueVars, mate>>

Pair(s) ==
  /\ Now(s, "pair")
  /\ mate' = [mate EXCEPT ![s] = [q \in Ids |-> IF q \in Qps THEN Partner(s, q) ELSE None]]
  /\ IF opt.work_rdma_cm THEN UNCHANGED setupVars ELSE CtxConnect(s)
  /\ Advance(s)
  /\ UNCHANGED <<opt, exchanging, cmVars, queueVars>>

-----------------------------------------------------------------------------
(* The test.                                                               *)

Ready(s) ==
  /\ Now(s, "prepare") /\ Prepare(s) /\ Advance(s)
  /\ UNCHANGED <<opt, exchanging, cmVars, mate, setupVars>>

\* Where the loop of each side begins; a server of which nothing is asked has
\* none.
Start(s) ==
  IF s = "client"
  THEN CASE Loop = "bw" -> "bw_post" [] Loop = "bi" -> "bi_post"
         [] Loop = "infinite" -> "inf_post" [] OTHER -> Loop
  ELSE CASE Loop = "burst" -> "burst_serve"
         [] Loop \in {"lat_write", "lat_send"} -> Loop
         [] Loop = "bi" -> "bi_post"
         [] Loop = "infinite" /\ opt.verb = "SEND" -> "infs"
         [] Loop = "bw" /\ opt.verb = "SEND" -> "bws"
         [] Loop = "bw" /\ opt.duplex -> "bw_post"
         [] OTHER -> "done"

\* The loops arm the timer where they start, those that receive first with the
\* first message.
Begin(s) ==
  /\ Now(s, "traffic") /\ at[s] = "ready"
  /\ GoTo(s, Start(s))
  /\ run' = [run EXCEPT ![s].started = (s = "client")]
  /\ timer' = IF /\ InDuration
                 /\ \/ Start(s) \in {"bw_post", "lat_write", "lat"}
                    \/ Start(s) = "bi_post" /\ s = "client"
              THEN [timer EXCEPT ![s] = "START"] ELSE timer
  /\ UNCHANGED <<opt, commVars, cmVars, sq, rq, rcq, scq, mine, word, mate, setupVars>>

Work(s) ==
  /\ Now(s, "traffic")
  /\ BwStep(s) \/ LatStep(s)
  /\ UNCHANGED <<opt, commVars, cmVars, mate, setupVars>>

Interrupt(s) ==
  /\ Now(s, "traffic")
  /\ \/ Alarm(s) \/ CheckAlive(s)
     \/ (~Alive(Peer(s)) \/ \E q \in Ids : Astray(s, q)) /\ SendError(s)
  /\ UNCHANGED <<opt, commVars, cmVars, mate, setupVars>>

Device(s, q) ==
  /\ Alive(s) /\ Alive(Peer(s)) /\ Serve(s, q)
  /\ UNCHANGED <<opt, commVars, cmVars, mate, setupVars>>

Over(s) ==
  /\ Now(s, "traffic") /\ at[s] = "done" /\ Advance(s)
  /\ UNCHANGED <<opt, exchanging, cmVars, queueVars, mate, setupVars>>

-----------------------------------------------------------------------------
(* The end.                                                                *)

Disconnects(s) ==
  /\ Now(s, "destroy") /\ opt.work_rdma_cm
  /\ Disconnect(s) \/ DisconnectHandler(s) \/ DisconnectsEnd(s)
  /\ UNCHANGED <<opt, commVars, queueVars, mate, setupVars>>

Destroys(s) ==
  /\ Now(s, "destroy")
  /\ IF opt.work_rdma_cm THEN Destroy(s) ELSE UNCHANGED cmVars
  /\ DestroyCtx(s)
  /\ Advance(s)
  /\ UNCHANGED <<opt, exchanging, queueVars, mate>>

Program(s) ==
  \/ Talk(s) \/ CmAllocate(s) \/ CmEnter(s) \/ CmHandler(s) \/ CmLeave(s)
  \/ Initialize(s) \/ Credit(s) \/ Pair(s) \/ Ready(s) \/ Begin(s) \/ Work(s) \/ Over(s)
  \/ Disconnects(s) \/ Destroys(s) \/ Ends(s)

\* Kernels and devices.
Network == Meet \/ CmKernel \/ Wire \/ (\E s \in Sides, q \in Ids : Device(s, q))

Next ==
  \/ Network
  \/ \E s \in Sides : Program(s) \/ Crash(s) \/ CmGone(s) \/ Interrupt(s)

\* Each program runs on, timers go off, and kernels and devices do not stop
\* while something is left for them to do.
Spec ==
  /\ Init /\ [][Next]_vars
  /\ WF_vars(Network) /\ WF_vars(\E s \in Sides : Interrupt(s))
  /\ \A s \in Sides : WF_vars(Program(s))

-----------------------------------------------------------------------------
(* Properties.                                                             *)

\* Types.
TypeOK ==
  /\ \A s \in Sides : IsSuffix(left[s], Script)
  /\ comm \in [Sides -> {"off", "listening", "backlog", "resolved", "requesting", "accepted",
                        "open", "closed", "failed"}]
  /\ qp \in [Sides -> [Ids -> Ids \cup {None}]]
  /\ mate \in [Sides -> [Ids -> Ids \cup {None}]]
  /\ rq \in [Sides -> [Ids -> Nat]] /\ rcq \in [Sides -> [Ids -> Nat]]
  /\ word \in [Sides -> [Ids -> Nat]]
  /\ result \in [Sides -> {"none", "clean", "failed", "undefined"}]

\* The sides come to the same parameters although each reads its own command
\* line, with the options in any order, and on its own machine; and each has a
\* shared receive queue just when it will receive (parser, force_dependecies).
Alike ==
  /\ opt.unlike = {}
  /\ \A s \in Sides : opt.host[s].srq_exists = (opt.use_srq /\ Receives(s))

\* Nothing in a message says what it is for, yet what a side reads was written
\* for the very exchange it reads it in, also between hosts whose texts differ
\* in length and when the other side fails (ctx_hand_shake, ctx_xchg_data).
InStep == \A s \in Sides : got[s] # None => got[s].item = got[s].for

\* Once both are past the exchange of the mtu they run with the same cycle
\* buffer, cache line and mtu (check_sys_data, check_mtu).
Agreement ==
  (\A s \in Sides : Past(s, "mtu")) =>
    \A field \in {"cycle_buffer", "cache_line_size", "mtu"} : own["client"][field] = own["server"][field]

\* The queue pairs of the two sides are paired one to one, whatever the order
\* in which the manager's events came; on connected queue pairs each side has
\* the other's partner (rdma_cm_route_handler, rdma_cm_connection_request_handler).
\* Only numbers that go over the exchange's own queue pair never arrive, unless
\* the library is built with HAVE_ENDIAN.
OneToOne ==
  opt.work_rdma_cm \/ KeysReach => \A s \in Sides : Past(s, "pair") =>
    /\ Sends(s) \/ ~IsUd => {mate[s][q] : q \in Qps} = Qps
    /\ ~IsUd /\ Past(Peer(s), "pair") => \A q \in Qps : mate[Peer(s)][mate[s][q]] = q

\* A request is only ever posted on a queue pair that is ready to send, to a
\* peer that has prepared its queues (ctx_connect, and the last hand-shake).
ReadyBeforeTraffic ==
  \A s \in Sides, q \in Ids : sq[s][q] # <<>> =>
    /\ qpState[s][q] = "RTS" \/ Loop = "burst"
    /\ opt.work_rdma_cm \/ KeysReach => mate[s][q] # None
    /\ at[Peer(s)] # "idle"

\* With credits, a message always finds a receive (run_iter_bw,
\* run_iter_bw_server, run_iter_bi): as long as receives are put back one by
\* one and there is one queue pair.
NoReceiveMissing ==
  opt.send_rcredit =>
    \A s \in Sides, q \in Ids :
      sq[s][q] # <<>> /\ Head(sq[s][q]).kind = "send" => rq[Peer(s)][mate[s][q]] > 0

\* The two ends of a ping-pong never are more than one message apart, and none
\* has heard what was not said: of messages the client sends the first
\* (run_iter_lat_send), of written bytes the server (run_iter_lat_write).
PingPong ==
  LET first == IF Loop = "lat_send" THEN "client" ELSE "server" IN
  Loop \in {"lat_write", "lat_send"} /\ ~InDuration =>
    /\ Turn(first) - Turn(Peer(first)) \in {0, 1}
    /\ \A s \in Sides : Heard(s) <= Turn(Peer(s))

\* Without faults, once both hold an open channel no side ends in error, but
\* where keys are needed that do not come, but
\* where only one has a gid, whose texts the other does not expect, and but
\* for a refused connection request (rdma_listen comes after the hand-shake).
SameGids == opt.host["client"].gid = opt.host["server"].gid
Joined(s) == Past(s, "connect")
OrderlyEnd ==
  ~opt.faults /\ ~KeysMissed /\ SameGids /\ Joined("client") /\ ~(\E i \in Ids : link[i] = "refused") =>
    \A s \in Sides : comm[s] # "failed"

\* Past the hand-shakes of the queue pairs each side has the numbers of its peer,
\* which "the method fills in" (perftest_communication.h:212, ctx_hand_shake).
HandShakeFills == \A s \in Sides : Past(s, "keys") => \A q \in Qps : rem[s][q] = q

\* What destroy_ctx releases was acquired, was in use by nothing, and leaves
\* nothing behind, but for the receive queue of a sender without events.
CleanTeardown ==
  \A s \in Sides : result[s] # "none" =>
    /\ result[s] = "clean"
    /\ held[s] \subseteq {Res("recv_cq")}
    /\ Answers(s) => held[s] = {}

\* Without faults, and with the keys it takes, both sides get through.
Stops == Loop # "infinite"
PeersFinish ==
  ~opt.faults /\ ~KeysMissed /\ SameGids /\ Stops =>
    <>((\A s \in Sides : AtEnd(s)) \/ comm["client"] = "failed")
=============================================================================
