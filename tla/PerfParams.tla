----------------------------- MODULE PerfParams -----------------------------
(***************************************************************************)
(* From a command line to the parameters of a test: init_perftest_params,  *)
(* parser with force_dependecies, and check_link with set_mtu on the host. *)
(* A command line is a sequence of options <<name, value>>; the test (tst, *)
(* verb) is the program's own, and whether the line names a server makes   *)
(* the side.  The program's return 1 and exit(1) set refused.              *)
(***************************************************************************)
EXTENDS PerfOptions, SequencesExt, TLC

AnyInt == 1000000000

\* init_perftest_params: the default of every parameter a decision is taken on.
Defaults(tst, verb) ==
  [tst |-> tst, verb |-> verb, machine |-> None, refused |-> FALSE,
   connection_type |-> "RC", test_type |-> "ITERATIONS", test_method |-> "RUN_REGULAR",
   ib_port |-> 1, ib_port2 |-> 2, mtu |-> 0,
   size |-> CASE verb = "ATOMIC" -> 8 [] tst = "BW" -> 65536 [] OTHER -> 2,
   tx_depth |-> IF tst \in {"BW", "LAT_BY_BW"} THEN 128 ELSE 1,
   rx_depth |-> IF verb = "SEND" THEN 512 ELSE 1,
   iters |-> IF tst = "BW" /\ verb = "WRITE" THEN 5000 ELSE 1000,
   cq_mod |-> 100, req_cq_mod |-> FALSE, num_of_qps |-> 1, post_list |-> 1, recv_post_list |-> 1,
   inline_size |-> -1, out_reads |-> 0, gid_index |-> -1, gid_index2 |-> -1, tos |-> -1, hop_limit |-> 64,
   use_event |-> FALSE, use_eq_num |-> FALSE, use_mcg |-> FALSE, use_odp |-> FALSE, use_rss |-> FALSE,
   use_rdma_cm |-> FALSE, work_rdma_cm |-> FALSE, use_srq |-> FALSE, srq_exists |-> FALSE,
   duplex |-> FALSE, dualport |-> FALSE, noPeak |-> FALSE, report_per_port |-> FALSE,
   duration |-> 5, margin |-> -1, latency_gap |-> 0, output |-> "full",
   burst_size |-> 0, reply_every |-> 1, typical_pkt_size |-> 0,
   rate_limit |-> 0, rate_limit_type |-> "DISABLE", rate_units |-> "g",
   is_source_mac |-> FALSE, is_dest_mac |-> FALSE, is_server_port |-> FALSE, is_client_port |-> FALSE,
   mac_fwd |-> FALSE, raw_mcast |-> FALSE, flows |-> 1, flows_burst |-> 1]

Refuse(p, condition) == [p EXCEPT !.refused = @ \/ condition]

-----------------------------------------------------------------------------
(* The options.                                                            *)

Number(field, low, high) == [field |-> field, low |-> low, high |-> high]

\* The macros CHECK_VALUE...: where the number of an option goes, and its range.
Numbers ==
  [i |-> Number("ib_port", 1, 255), m |-> Number("mtu", -AnyInt, AnyInt),
   n |-> Number("iters", 5, 100000000), t |-> Number("tx_depth", 1, 15000),
   T |-> Number("tos", 0, 255), L |-> Number("hop_limit", 0, 255),
   x |-> Number("gid_index", 0, 64), q |-> Number("num_of_qps", 1, 16384),
   I |-> Number("inline_size", 0, 912), o |-> Number("out_reads", -AnyInt, AnyInt),
   r |-> Number("rx_depth", 1, 16384), Q |-> Number("cq_mod", 1, 1024),
   l |-> Number("post_list", -AnyInt, AnyInt), D |-> Number("duration", 1, AnyInt),
   f |-> Number("margin", 0, AnyInt), s |-> Number("size", 1, AnyInt)]

LongNumbers ==
  [burst_size |-> Number("burst_size", 0, AnyInt), reply_every |-> Number("reply_every", 0, AnyInt),
   typical_pkt_size |-> Number("typical_pkt_size", 0, 65535),
   latency_gap |-> Number("latency_gap", 0, AnyInt), rate_limit |-> Number("rate_limit", 1, AnyInt),
   recv_post_list |-> Number("recv_post_list", -AnyInt, AnyInt),
   flows |-> Number("flows", 1, 65535), flows_burst |-> Number("flows_burst", 1, 65535)]

\* The number is converted to the type of the macro before it is looked at.
Bits == [ib_port |-> 8, gid_index |-> 8, flows |-> 16, flows_burst |-> 16]
Converted(field, v) == IF field \in DOMAIN Bits THEN v % (2 ^ Bits[field]) ELSE v

SetNumber(p, number, v) ==
  LET n == Converted(number.field, v) IN
  [p EXCEPT ![number.field] = n, !.refused = @ \/ n < number.low \/ n > number.high]

\* What an option that takes a number does besides, and the tests that do not
\* have it.
NumberOption(p, name, v) ==
  LET set == SetNumber(p, Numbers[name], v) IN
  CASE name = "q" -> Refuse(set, p.tst # "BW")
    [] name = "I" -> Refuse(set, p.verb \in {"READ", "ATOMIC"})
    [] name = "o" -> Refuse(set, p.verb \notin {"READ", "ATOMIC"})
    [] name = "r" -> Refuse(set, p.verb # "SEND" /\ v > 1)
    [] name = "Q" -> [set EXCEPT !.req_cq_mod = TRUE]
    [] name = "D" -> [set EXCEPT !.test_type = "DURATION"]
    [] OTHER -> set

LongNumberOption(p, name, v) ==
  LET set == SetNumber(p, LongNumbers[name], v) IN
  IF name = "rate_limit" /\ p.rate_limit_type = "DISABLE"
  THEN [set EXCEPT !.rate_limit_type = "HW"] ELSE set

\* change_conn_type, in a build without XRC, DC and SRD.
ChangeConnType(p, type) ==
  IF p.connection_type = "RawEth" THEN p
  ELSE [p EXCEPT !.connection_type = type,
                 !.refused = \/ @
                             \/ type \notin {"RC", "UC", "UD", "RawEth"}
                             \/ type = "UC" /\ p.verb \in {"READ", "ATOMIC"}
                             \/ type = "UD" /\ p.verb # "SEND"]

\* The options without a number.
SwitchOption(p, name, v) ==
  CASE name = "c" -> ChangeConnType(p, v)
    [] name = "O" -> [p EXCEPT !.dualport = TRUE, !.ib_port = 1, !.ib_port2 = 2]
    [] name = "a" -> [p EXCEPT !.test_method = "RUN_ALL"]
    [] name = "z" -> [p EXCEPT !.use_rdma_cm = TRUE]
    [] name = "R" -> [p EXCEPT !.work_rdma_cm = TRUE]
    [] name = "e" -> Refuse([p EXCEPT !.use_event = TRUE], p.verb = "WRITE")
    [] name = "X" -> Refuse([p EXCEPT !.use_eq_num = TRUE], p.verb = "WRITE")
    [] name = "b" -> Refuse([p EXCEPT !.duplex = TRUE], p.tst = "LAT")
    [] name = "N" -> Refuse([p EXCEPT !.noPeak = TRUE], p.tst = "LAT")
    [] name = "C" -> Refuse(p, p.tst # "LAT")
    [] name \in {"H", "U"} -> Refuse(p, p.tst = "BW")
    [] name = "g" -> Refuse([p EXCEPT !.use_mcg = TRUE], p.verb # "SEND")
    [] name = "A" -> Refuse(p, p.verb # "ATOMIC")
    [] name = "B" -> [p EXCEPT !.is_source_mac = TRUE]
    [] name = "E" -> [p EXCEPT !.is_dest_mac = TRUE]
    [] name = "K" -> [p EXCEPT !.is_server_port = TRUE]
    [] name = "k" -> [p EXCEPT !.is_client_port = TRUE]
    [] name = "P" -> [p EXCEPT !.machine = "client"]
    [] name = "Z" -> [p EXCEPT !.machine = "server"]
    [] name = "v" -> [p EXCEPT !.mac_fwd = TRUE]
    [] name = "G" -> [p EXCEPT !.use_rss = TRUE]
    [] name = "rate_limit_type" -> Refuse([p EXCEPT !.rate_limit_type = v], v \notin {"SW", "HW", "PP"})
    [] name = "rate_units" -> Refuse([p EXCEPT !.rate_units = v], v \notin {"M", "g", "p"})
    [] name = "output" -> Refuse([p EXCEPT !.output = v], v \notin {"bandwidth", "message_rate", "latency"})

\* The flags, which are looked at once all options have been read.
Flags == {"run_infinitely", "use-srq", "odp", "report-per-port", "raw_mcast", "reversed"}
SetFlags(p, flags) ==
  [p EXCEPT !.test_method = IF "run_infinitely" \in flags THEN "RUN_INFINITELY" ELSE @,
            !.use_srq = "use-srq" \in flags,
            !.use_odp = "odp" \in flags,
            !.report_per_port = "report-per-port" \in flags,
            !.raw_mcast = "raw_mcast" \in flags]

\* A line that names a server makes a client, but for raw Ethernet, which is
\* told; reversed, the other way round.
SetMachine(p, side, flags) ==
  LET m == IF p.connection_type = "RawEth" THEN p.machine ELSE side IN
  [p EXCEPT !.machine = IF "reversed" \notin flags THEN m
                        ELSE IF m = "server" THEN "client" ELSE "server"]

Option(p, o) ==
  CASE o[1] \in DOMAIN Numbers -> NumberOption(p, o[1], o[2])
    [] o[1] \in DOMAIN LongNumbers -> LongNumberOption(p, o[1], o[2])
    [] o[1] \in Flags -> p
    [] OTHER -> SwitchOption(p, o[1], o[2])

-----------------------------------------------------------------------------
(* force_dependecies, in its order.                                        *)

Iterated(p) == p.test_type = "ITERATIONS"

Depths(p) ==
  LET clamp(d) == IF Iterated(p) /\ d > p.iters THEN p.iters ELSE d
      tx == clamp(p.tx_depth)
      rx == IF p.verb = "SEND" THEN clamp(p.rx_depth) ELSE p.rx_depth
      moderated == \/ p.size <= 8192 \/ p.connection_type = "UD" \/ p.test_method = "RUN_ALL"
                   \/ p.use_event \/ p.req_cq_mod
      mod == IF moderated THEN p.cq_mod ELSE 1 IN
  [p EXCEPT !.tx_depth = tx,
            !.rx_depth = IF Iterated(p) /\ p.connection_type \in {"UD", "UC"} /\ rx = 512
                         THEN clamp(16000) ELSE rx,
            !.cq_mod = IF mod > tx THEN tx ELSE mod,
            !.rate_limit_type = IF p.tst = "LAT_BY_BW" /\ @ = "DISABLE" THEN "SW" ELSE @,
            !.inline_size = IF p.verb \in {"READ", "ATOMIC"} THEN 0 ELSE @,
            !.size = IF p.test_method = "RUN_ALL" THEN 8388608 ELSE @]

SharedQueue(p) ==
  Refuse(p, \/ p.verb = "ATOMIC" /\ p.size # 8
            \/ p.use_srq /\ (p.verb # "SEND" \/ p.num_of_qps > p.rx_depth))

DualPort(p) ==
  IF p.dualport
  THEN Refuse([p EXCEPT !.num_of_qps = 2 * @], p.tst # "BW" \/ p.use_mcg)
  ELSE p

\* Lists go with bandwidth only, and evenly into iterations and moderation.
Lists(p) ==
  LET Bad(n) == n > 1 /\ (p.tst = "LAT" \/ (Iterated(p) /\ p.iters % n # 0)) IN
  [p EXCEPT !.cq_mod = IF p.post_list > 1 /\ ~p.req_cq_mod THEN p.post_list ELSE @,
            !.refused = \/ @ \/ Bad(p.post_list) \/ Bad(p.recv_post_list)
                        \/ p.post_list > 1 /\ p.req_cq_mod /\ p.post_list % p.cq_mod # 0]

Duration(p) ==
  IF Iterated(p) THEN p
  ELSE Refuse([p EXCEPT !.iters = 0, !.noPeak = TRUE], p.use_event \/ p.test_method = "RUN_ALL")

\* flow_rules_force_dependecies
FlowsRefused(p) ==
  IF p.flows = 1 THEN p.flows_burst > 1
  ELSE ~p.is_server_port \/ p.duplex \/ (Iterated(p) /\ p.iters < p.flows * p.flows_burst)

RawEth(p) ==
  LET duplex == p.duplex \/ p.mac_fwd
      bad == \/ p.test_method = "RUN_ALL" \/ p.use_rdma_cm \/ p.work_rdma_cm
             \/ p.gid_index # -1 \/ p.machine = None \/ ~p.is_source_mac
             \/ ~p.is_dest_mac /\ (p.tst = "LAT" \/ (p.machine = "client" /\ ~p.raw_mcast))
             \/ p.is_server_port # p.is_client_port
             \/ p.raw_mcast /\ duplex IN
  IF p.connection_type # "RawEth" THEN p
  ELSE [p EXCEPT !.duplex = duplex,
                 !.cq_mod = IF p.mac_fwd /\ @ >= p.rx_depth
                            THEN IF p.rx_depth < p.tx_depth THEN p.rx_depth ELSE p.tx_depth ELSE @,
                 !.refused = @ \/ bad \/ FlowsRefused([p EXCEPT !.duplex = duplex])]

\* The connection manager and multicast.
Manager(p) ==
  [p EXCEPT !.gid_index = IF p.use_mcg /\ @ = -1 THEN 0 ELSE @,
            !.use_rdma_cm = @ \/ p.work_rdma_cm,
            !.connection_type = IF p.use_mcg THEN "UD" ELSE @,
            !.refused = \/ @
                        \/ p.work_rdma_cm /\ (p.connection_type = "UC" \/ p.use_mcg \/ p.dualport)
                        \/ ~p.work_rdma_cm /\ p.tos # -1 /\ p.connection_type # "RawEth"
                        \/ p.hop_limit # 64 /\ p.connection_type # "RawEth"
                        \/ p.use_mcg /\ (p.duplex \/ p.num_of_qps > 1)]

Infinite(p) ==
  LET q == Refuse(p, p.use_odp /\ (p.verb = "ATOMIC" \/ p.connection_type = "UC"))
      quiet == q.verb = "SEND" /\ q.tst = "BW" /\ q.machine = "server" /\ ~q.duplex IN
  IF p.test_method = "RUN_INFINITELY"
  THEN [q EXCEPT !.noPeak = TRUE, !.test_type = "DURATION",
                 !.refused = \/ @ \/ q.use_event \/ q.tst = "LAT"
                             \/ q.rate_limit_type # "DISABLE"
                             \/ (q.duplex /\ q.verb = "SEND")]
  ELSE [q EXCEPT !.noPeak = @ \/ quiet]

\* Who makes a shared receive queue; the faulty one forgets the server.
SrqExistsOnSender(p) ==
  Refuse([p EXCEPT !.srq_exists = p.use_srq /\ (p.tst = "LAT" \/ p.duplex)], p.use_rss)
SrqExists(p) ==
  Refuse([p EXCEPT !.srq_exists = p.use_srq /\ (p.tst = "LAT" \/ p.machine = "server" \/ p.duplex)],
         p.use_rss)

\* The rates a device can be held to, in Gb/s.
IbvRates == {5, 10, 14, 20, 25, 30, 40, 56, 60, 80, 100, 112, 120, 168, 200, 300}

\* Bursts and the three rate limiters.
Limits(p) ==
  LET type == p.rate_limit_type
      bad == \/ p.burst_size > 0 /\ type = "DISABLE" /\ p.tst # "LAT_BY_BW"
             \/ p.typical_pkt_size # 0 /\ type # "PP"
             \/ type = "SW" /\ (p.tst # "BW" \/ p.verb = "ATOMIC" \/ (p.verb = "SEND" /\ p.duplex))
             \/ type = "HW" /\ (p.use_rdma_cm \/ p.work_rdma_cm \/ p.rate_units = "p"
                               \/ p.rate_limit \notin {0} \cup IbvRates)
             \/ type = "PP" /\ (p.connection_type # "RawEth" \/ p.rate_units # "M") IN
  Refuse([p EXCEPT !.burst_size = IF @ = 0 /\ type # "PP" THEN p.tx_depth ELSE @], bad)

Outputs(p) ==
  LET only == [BW |-> {"bandwidth", "message_rate"}, LAT |-> {"latency"}, LAT_BY_BW |-> {"latency"}] IN
  Refuse(p, \/ p.tst = "LAT_BY_BW" /\ (~Iterated(p) \/ p.num_of_qps > 1 \/ p.duplex)
            \/ p.output # "full" /\ p.output \notin only[p.tst]
            \/ p.latency_gap > 0 /\ p.tst # "LAT")

\* The margin of a duration, and an odd receive depth made even.
Margins(p) ==
  LET margin == IF ~Iterated(p) /\ p.margin = -1 THEN p.duration \div 4 ELSE p.margin IN
  [p EXCEPT !.margin = margin,
            !.inline_size = IF p.connection_type = "UD" /\ @ > 884 THEN 884 ELSE @,
            !.rx_depth = IF p.verb = "SEND" /\ p.test_method = "RUN_REGULAR" THEN @ + (@ % 2) ELSE @,
            !.noPeak = @ \/ (Iterated(p) /\ p.iters > 20000 /\ p.tst = "BW"),
            !.refused = \/ @ \/ p.duration <= 2 * margin
                        \/ p.report_per_port /\ (Iterated(p) \/ ~p.dualport)
                        \/ ~p.use_event /\ p.use_eq_num]

ForceDependecies(p) ==
  Margins(Outputs(Limits(SrqExists(Infinite(Manager(RawEth(Duration(Lists(DualPort(SharedQueue(Depths(p))))))))))))

\* parser
Parser(tst, verb, line, side) ==
  LET read == FoldLeft(Option, Defaults(tst, verb), line)
      flags == {o[1] : o \in ToSet(line)} \cap Flags IN
  ForceDependecies(SetMachine(SetFlags(read, flags), side, flags))

-----------------------------------------------------------------------------
(* The host: a device with a port.                                         *)

\* ib_dev_name: the kinds of device, told by vendor and part number.
PartIds ==
  [CONNECTX3 |-> {4099, 4100}, CONNECTX3_PRO |-> {4103, 4104}, CONNECTIB |-> {4113},
   CONNECTX4 |-> {4115, 4116}, CONNECTX4LX |-> {4117, 4118}, CONNECTX5 |-> {4119, 4120},
   CONNECTX5EX |-> {4121, 4122}, CONNECTX6 |-> {4123, 4124}, CONNECTX6DX |-> {4125},
   MLX5GENVF |-> {4126}, CONNECTX6LX |-> {4127}, CONNECTX7 |-> {4129},
   BLUEFIELD |-> {41682, 41683}, BLUEFIELD2 |-> {41686}, BLUEFIELD3 |-> {41692},
   CONNECTX2 |-> {26418, 26428, 26438, 26448, 26458, 26468, 26478},
   CONNECTX |-> {25408, 25418, 25428, 25448, 25458}, SKYHAWK |-> {1824},
   QLOGIC_E4 |-> {5684, 5700, 5716, 5718, 5734}, QLOGIC_AH |-> (32880..32883) \cup {32912},
   QLOGIC_AHP |-> {33136, 33168}, EFA |-> {61344, 61345},
   NETXTREME |-> {5638, 5652, 5824, 5825, 5827, 5839, 5846, 5847, 5848, 5849, 5855, 5858, 5859,
                  5861, 5867, 5869, 5871, 5872, 5873, 5968, 55296, 55298, 55300}]

IbDevName(device) ==
  LET part == device.vendor_part_id
      generation == part \div 4096
      names == {n \in DOMAIN PartIds : part \in PartIds[n]} IN
  CASE device.vendor_id = 32902 -> "INTEL_ALL"
    [] device.vendor_id = 5157 -> (CASE generation \in {4, 10} -> "CHELSIO_T4"
                                     [] generation \in {5, 11} -> "CHELSIO_T5"
                                     [] generation = 6 -> "CHELSIO_T6" [] OTHER -> "UNKNOWN")
    [] OTHER -> IF names = {} THEN "UNKNOWN" ELSE CHOOSE n \in names : TRUE

\* set_mtu: what was asked for, but never more than the port has; unasked, two
\* kinds of device leave out the largest.
SetMtu(device, user_mtu) ==
  LET active == device.active_mtu
      sizes == <<256, 512, 1024, 2048, 4096>>
      asked == IF \E k \in 1..5 : sizes[k] = user_mtu
               THEN CHOOSE k \in 1..5 : sizes[k] = user_mtu ELSE active
      broken == active = 5 /\ IbDevName(device) \in {"CONNECTX3", "CONNECTX3_PRO"} IN
  CASE user_mtu = 0 -> IF broken THEN 4 ELSE active
    [] user_mtu # 0 -> IF asked > active THEN active ELSE asked

\* ctx_set_out_reads
OutReads(device, n) ==
  IF n > device.max_reads \/ n <= 0 THEN device.max_reads ELSE n

\* ctx_set_max_inline: nothing on a device that is not known.
MaxInline(device, p) ==
  LET name == IbDevName(device)
      usual == CASE p.verb = "WRITE" -> 220 [] p.verb = "SEND" -> IF p.connection_type = "UD" THEN 188 ELSE 236
                 [] OTHER -> 0
      own == [NETXTREME |-> 96, EFA |-> 32, QLOGIC_E4 |-> 128] IN
  CASE name = "UNKNOWN" -> 0
    [] name # "UNKNOWN" /\ p.inline_size # -1 -> p.inline_size
    [] name # "UNKNOWN" /\ p.inline_size = -1 /\ p.tst # "LAT" -> 0
    [] OTHER -> IF name \in DOMAIN own THEN own[name] ELSE usual

\* set_link_layer with check_link_and_mtu: a port that is down or of an unknown
\* layer stops the program; an Ethernet port has a gid; a datagram fits the mtu.
CheckLink(p, device) ==
  LET raw == p.connection_type = "RawEth"
      mtu == SetMtu(device, p.mtu)
      bytes == 2 ^ (7 + mtu) IN
  [p EXCEPT !.gid_index = IF device.link_layer = "Ethernet" /\ @ = -1 THEN 0 ELSE @,
            !.gid_index2 = IF p.dualport /\ device.link_layer = "Ethernet" /\ @ = -1 THEN 1 ELSE @,
            !.mtu = IF raw THEN IF @ = 0 THEN 1518 ELSE @ ELSE mtu,
            !.inline_size = MaxInline(device, p),
            !.out_reads = IF p.verb \in {"READ", "ATOMIC"} THEN OutReads(device, @) ELSE 1,
            !.size = IF p.connection_type = "UD" /\ @ > bytes THEN bytes ELSE @,
            !.refused = \/ @ \/ ~device.active \/ device.link_layer \notin {"IB", "Ethernet"}
                        \/ raw /\ (device.link_layer # "Ethernet" \/ p.mtu \notin {0} \cup 64..9600)]

-----------------------------------------------------------------------------
(* A test: the program, the line both sides are started with, and the      *)
(* machines they are started on.                                           *)

SideParameters(test, s) ==
  CheckLink(Parser(test.tst, test.verb, test.line, s), test.machine[s].device)

\* The same options, in some other order.
Orders(line) ==
  {line} \cup {[line EXCEPT ![i] = line[j], ![j] = line[i]] : i, j \in DOMAIN line}

\* What both sides must have alike, and what each has of its own.
Common == {"connection_type", "verb", "tst", "test_type", "test_method", "duplex", "num_of_qps",
           "use_rdma_cm", "work_rdma_cm", "use_srq", "use_event", "iters", "tx_depth", "rx_depth",
           "cq_mod", "post_list", "recv_post_list", "burst_size", "reply_every", "tos"}
Own(p, host) ==
  [srq_exists |-> p.srq_exists, gid |-> p.gid_index >= 0, mtu |-> p.mtu,
   cycle_buffer |-> host.cycle_buffer, cache_line_size |-> host.cache_line_size]

\* The parameters of a test (struct perftest_parameters), those of the client
\* for both sides.  The program returns credits on an iWARP device, where the
\* connection manager makes the queue pairs.
Together(test, c, v) ==
  LET apart ==
        [unlike |-> {f \in Common : c[f] # v[f]},
         refused |-> c.refused \/ v.refused,
         send_rcredit |-> test.machine["client"].device.iwarp /\ c.work_rdma_cm
                          /\ c.verb = "SEND" /\ c.connection_type = "RC",
         have_endian |-> test.have_endian,
         faults |-> test.faults,
         host |-> [s \in Sides |-> Own(IF s = "client" THEN c ELSE v, test.machine[s])]] IN
  [f \in Common \cup DOMAIN apart |-> IF f \in Common THEN c[f] ELSE apart[f]]

\* Each side is started with its own line.
Options(test) ==
  LET started(s) == {SideParameters([test EXCEPT !.line = line], s) : line \in Orders(test.line)} IN
  {Together(test, c, v) : c \in started("client"), v \in started("server")}
=============================================================================
