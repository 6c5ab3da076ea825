---------------------------- MODULE PerfOptions ----------------------------
(***************************************************************************)
(* What two peers of the benchmark library run with: the fields of struct  *)
(* perftest_parameters that the connection, the exchange channel and the   *)
(* test loops branch on, after parser and check_link.  Both sides are      *)
(* started with the same command line; what they find on their own host    *)
(* may differ.                                                             *)
(***************************************************************************)
EXTENDS Integers

CONSTANTS MaxQps,   \* the largest number of queue pairs
          None      \* no identifier, no queue pair

VARIABLE opt        \* the parameters of this run

Sides == {"client", "server"}
Peer(s) == IF s = "client" THEN "server" ELSE "client"
Ids == 0..(MaxQps - 1)

\* What each host brings: a gid goes with its address, the cycle buffer, the
\* cache line and the mtu it starts from; and whether its side makes a shared
\* receive queue.
Hosts == [gid : BOOLEAN, cycle_buffer : Nat, cache_line_size : Nat, mtu : 1..5, srq_exists : BOOLEAN]

\* struct perftest_parameters, with the enumerations its fields come from.
Parameters ==
  [connection_type : {"RC", "UC", "UD"},
   verb : {"SEND", "WRITE", "READ"},
   tst : {"LAT", "BW", "LAT_BY_BW"},
   test_type : {"ITERATIONS", "DURATION"},
   test_method : {"RUN_REGULAR", "RUN_ALL", "RUN_INFINITELY"},
   duplex : BOOLEAN,
   num_of_qps : 1..MaxQps,
   use_rdma_cm : BOOLEAN,     \* the exchange channel is a queue pair
   work_rdma_cm : BOOLEAN,    \* the queue pairs connect through the manager
   use_srq : BOOLEAN, use_event : BOOLEAN,
   iters : Nat, tx_depth : Nat, rx_depth : Nat, cq_mod : Nat,
   post_list : Nat, tos : Int,
   recv_post_list : Nat \ {0},   \* the program divides by it
   burst_size : Nat, reply_every : Nat,
   unlike : SUBSET STRING,    \* what the two sides have not alike
   refused : BOOLEAN,         \* parser or check_link stopped the program
   send_rcredit : BOOLEAN,    \* ctx->send_rcredit, which the program sets
   have_endian : BOOLEAN,     \* the library is built with HAVE_ENDIAN
   faults : BOOLEAN,          \* whether calls may fail and sides may die
   host : [Sides -> Hosts]]

ASSUME OptionsAssumption == MaxQps \in Nat \ {0} /\ None \notin Nat

\* The queue pairs in use.
Qps == 0..(opt.num_of_qps - 1)
IsUd == opt.connection_type = "UD"
\* The server answers too, or sends of its own accord.
BothWays == opt.tst = "LAT" \/ opt.duplex

\* The hand-shakes bring the peer's numbers and keys: over TCP, and over a queue
\* pair only in a build with HAVE_ENDIAN.
KeysReach == ~opt.use_rdma_cm \/ opt.have_endian
\* A test that needs more than messages on connections of the manager, and gets
\* no keys.
KeysMissed == ~KeysReach /\ (~opt.work_rdma_cm \/ opt.verb # "SEND" \/ opt.send_rcredit)

\* The loop a test is run with, chosen by the program from its options.
Loop ==
  CASE opt.test_method = "RUN_INFINITELY" -> "infinite"
    [] opt.tst = "LAT_BY_BW" -> "burst"
    [] opt.tst = "LAT" /\ opt.verb = "WRITE" -> "lat_write"
    [] opt.tst = "LAT" /\ opt.verb = "READ" -> "lat"
    [] opt.tst = "LAT" /\ opt.verb = "SEND" -> "lat_send"
    [] opt.tst = "BW" /\ opt.verb = "SEND" /\ opt.duplex -> "bi"
    [] OTHER -> "bw"
=============================================================================
