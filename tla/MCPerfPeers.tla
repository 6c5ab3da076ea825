---------------------------- MODULE MCPerfPeers ----------------------------
(***************************************************************************)
(* The tests that TLC runs two peers through: command lines of the library *)
(* with small numbers, each on machines of its own.                        *)
(***************************************************************************)
EXTENDS PerfPeers

Ib == [vendor_id |-> 713, vendor_part_id |-> 4115, active |-> TRUE, link_layer |-> "IB",
       active_mtu |-> 5, max_reads |-> 16, iwarp |-> FALSE]
Old == [Ib EXCEPT !.vendor_part_id = 4103]
Ethernet == [Ib EXCEPT !.link_layer = "Ethernet", !.active_mtu = 3]
Iwarp == [Ethernet EXCEPT !.iwarp = TRUE]

Host(device, cycle, line) == [device |-> device, cycle_buffer |-> cycle, cache_line_size |-> line]
On(d, e) == [client |-> Host(d, 1, 1), server |-> Host(e, 2, 1)]

Test(tst, verb, line) ==
  [tst |-> tst, verb |-> verb, line |-> line, machine |-> On(Ib, Old), have_endian |-> FALSE, faults |-> FALSE]
Between(test, d, e) == [test EXCEPT !.machine = On(d, e)]
\* In a build with HAVE_ENDIAN, which nothing in the repository defines.
Portable(test) == [test EXCEPT !.have_endian = TRUE]
Faulty(test) == [test EXCEPT !.faults = TRUE]

N(n) == <<"n", n>>
T(n) == <<"t", n>>
Rx(n) == <<"r", n>>
Q(n) == <<"q", n>>
C(type) == <<"c", type>>
Is(name) == <<name, 0>>

T1 == Test("BW", "SEND", <<Q(2), N(5), <<"Q", 2>>, T(2), Rx(2)>>)
T2 == Test("BW", "SEND", <<Is("b"), N(5), T(1), Rx(2)>>)
T3 == Test("LAT", "SEND", <<N(5)>>)
T4 == Between(Test("LAT", "WRITE", <<N(5)>>), Ethernet, Ethernet)
T5 == Portable(Test("LAT", "READ", <<Is("z"), N(5)>>))
T6 == Test("BW", "SEND", <<Is("R"), Q(2), N(5), T(1), Rx(2)>>)
T7 == Portable(Between(Test("BW", "SEND", <<Is("R"), N(5), T(2), Rx(4)>>), Iwarp, Iwarp))
T8 == Portable(Between(Test("BW", "SEND", <<Is("R"), Is("b"), N(5), T(1), Rx(4)>>), Iwarp, Iwarp))
T9 == Test("BW", "SEND", <<Is("R"), C("UD"), Is("b"), N(5), T(1)>>)
T10 == Test("BW", "SEND", <<C("UD"), Is("R"), Q(2), T(1), Is("run_infinitely")>>)
T11 == Test("LAT_BY_BW", "SEND", <<N(5), T(4), Rx(4), <<"Q", 1>>, <<"burst_size", 2>>,
                                   <<"reply_every", 2>>, <<"rate_limit", 10>>>>)
T12 == Test("BW", "SEND", <<<<"D", 1>>, T(2), Rx(2)>>)
T13 == Test("LAT", "SEND", <<<<"D", 1>>, Rx(4)>>)
T14 == Test("BW", "SEND", <<Is("run_infinitely"), T(2), Rx(2)>>)
T15 == Test("BW", "SEND", <<Is("use-srq"), Is("e"), Q(2), N(5), T(1), Rx(4)>>)
T16 == Faulty(Test("BW", "SEND", <<N(5), T(1), Rx(2)>>))
T17 == Faulty(Test("BW", "SEND", <<Is("R"), N(5), T(1), Rx(2)>>))
T18 == Between(Test("BW", "SEND", <<N(5)>>), Ethernet, Ib)
T19 == Faulty(Test("LAT", "SEND", <<Is("R"), C("UD"), N(5), <<"T", 8>>>>))
T20 == Test("LAT", "WRITE", <<<<"D", 1>>>>)
T21 == Portable(Between(Test("BW", "SEND", <<Is("run_infinitely"), Is("R"), T(2), Rx(3)>>), Iwarp, Iwarp))
T22 == Portable(Test("LAT", "READ", <<<<"D", 1>>, Is("R")>>))
T23 == Test("BW", "WRITE", <<<<"l", 2>>, <<"Q", 2>>, Is("b"), N(6), T(4)>>)
T24 == Test("BW", "SEND", <<Is("R"), C("UC")>>)
T25 == Test("LAT_BY_BW", "SEND", <<N(5)>>)
T26 == Test("BW", "WRITE", <<<<"rate_limit", 10>>, <<"rate_limit_type", "SW">>, N(5), T(2), <<"m", 1024>>>>)
T27 == Test("LAT", "SEND", <<Is("use-srq"), Is("e"), N(5), Rx(4)>>)
T28 == Test("BW", "SEND", <<C("UC"), Q(2), N(5), T(2), Rx(5), <<"Q", 2>>>>)
T29 == Test("LAT", "READ", <<Is("z"), N(5)>>)
T30 == Test("BW", "WRITE", <<Is("z"), C("UC"), N(5), T(2)>>)
T31 == Between(Test("BW", "SEND", <<Is("R"), N(5), T(2), Rx(4)>>), Iwarp, Iwarp)
T32 == Test("LAT", "WRITE", <<Is("R"), N(5)>>)

MCTests ==
  {T1, T2, T3, T4, T5, T6, T7, T8, T9, T10,
   T11, T12, T13, T14, T15, T16, T17, T18, T19, T20,
   T21, T22, T23, T24, T25, T26, T27, T28, T29, T30,
   T31, T32}

\* As the repository builds it, with the keys over a queue pair.
BuiltTests == {T29}

\* Credits, with the receives posted in lists of three, and with two queue
\* pairs, whose connections need not be numbered alike.
ListTests ==
  {Portable(Between(Test("BW", "SEND", <<Is("R"), N(12), T(12), Rx(6), <<"recv_post_list", 3>>>>), Iwarp, Iwarp))}
CrossedTests ==
  {Portable(Between(Test("BW", "SEND", <<Is("R"), Q(2), N(5), T(1), Rx(3)>>), Iwarp, Iwarp))}
=============================================================================
