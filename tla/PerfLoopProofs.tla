--------------------------- MODULE PerfLoopProofs ---------------------------
(***************************************************************************)
(* Proofs about the test loops of two peers (PerfBandwidth, PerfLatency),  *)
(* as steps of the whole program.  LoopInv says what every queue, counter  *)
(* and box holds and that each side is in the loop its options ask for,    *)
(* at a place that its side of the loop has; it is inductive by itself.    *)
(* PongInv, inductive beside it, counts what is on its way in a ping pong: *)
(* who has spoken and heard how often at each place of the two loops, and  *)
(* for written bytes which value the peer's memory holds.  Both ends being *)
(* at most one message apart follows.  FlowInv counts what is on its way   *)
(* in a bandwidth test with credits: that a message always finds a receive *)
(* follows from it once the queue pairs are paired (PerfPairProofs).       *)
(***************************************************************************)
EXTENDS PerfPeers, SequenceTheorems, FiniteSetTheorems, TLAPS

(***************************************************************************)
(* What a side's queues and counters are, and where in which loop it is.   *)
(***************************************************************************)
OptOK ==
  /\ opt \in Parameters
  /\ opt.send_rcredit => opt.work_rdma_cm /\ opt.verb = "SEND" /\ opt.connection_type = "RC"
  /\ ~opt.refused /\ opt.tst # "BW" => opt.num_of_qps = 1
  /\ ~opt.refused /\ opt.tst = "LAT_BY_BW" => ~opt.work_rdma_cm

Requests == [kind : {"send", "word", "rdma"}, sig : BOOLEAN]
Boxes == [data : Nat, word : Nat]

PlacesOf ==
  [bw |-> {"bw_post", "bw_poll", "bws", "bws_credit", "clean"},
   bi |-> {"bi_post", "bi_recv", "bi_batch", "bi_credit", "clean"},
   infinite |-> {"inf_post", "inf_poll", "infs", "infs_credit"},
   burst |-> {"burst", "burst_poll", "burst_serve", "burst_serve_poll"},
   lat_write |-> {"lat_write", "lat_write_poll"},
   lat_send |-> {"lat_send", "lat_send_post", "lat_send_poll"},
   lat |-> {"lat", "lat_poll"}]
Elsewhere == {"idle", "ready", "done", "failed"}

\* The places from which a count is sent.
Crediting == {"bws_credit", "infs_credit", "bi_credit"}
PlaceOK(s) ==
  /\ at[s] \in Elsewhere \cup PlacesOf[Loop]
  /\ at[s] \in Crediting => opt.send_rcredit
  /\ s = "server" =>
       /\ at[s] \in {"bw_post", "bw_poll"} => opt.duplex
       /\ at[s] \notin {"inf_post", "inf_poll", "lat", "lat_poll", "burst", "burst_poll"}

RunOK(r) ==
  /\ DOMAIN r = DOMAIN Counters
  /\ r.scnt \in [Ids -> Nat] /\ r.rcnt \in [Ids -> Nat]
  /\ r.ccnt \in [Ids -> Int] /\ r.scredit \in [Ids -> Int]
  /\ r.unused \in [Ids -> Int] /\ r.posted \in [Ids -> Int]
  /\ r.flag \in [Ids -> BOOLEAN]
  /\ Loop # "burst" => r.index \in Qps

\* Only queue pairs in use send, and none before its loop.
SendsOK(s) ==
  /\ sq[s] \in [Ids -> Seq(Requests)]
  /\ \A q \in Ids : sq[s][q] # <<>> => q \in Qps /\ at[s] \notin {"idle", "ready"}

SideOK(s) ==
  /\ SendsOK(s) /\ RunOK(run[s]) /\ PlaceOK(s)
  /\ rq[s] \in [Ids -> Nat] /\ rcq[s] \in [Ids -> Nat] /\ scq[s] \in [Ids -> Boxes]
  /\ mine[s] \in [Ids -> Nat] /\ word[s] \in [Ids -> Nat]

Domains ==
  /\ DOMAIN sq = Sides /\ DOMAIN rq = Sides /\ DOMAIN rcq = Sides /\ DOMAIN scq = Sides
  /\ DOMAIN mine = Sides /\ DOMAIN word = Sides /\ DOMAIN run = Sides /\ DOMAIN at = Sides

LoopInv ==
  /\ OptOK /\ Domains
  /\ \A s \in Sides : SideOK(s)

LEMMA LoopIs == Loop \in DOMAIN PlacesOf
  BY DEF Loop, PlacesOf

LEMMA LoopStays == ASSUME opt' = opt PROVE Loop' = Loop /\ Qps' = Qps /\ (OptOK => OptOK')
  <1>1. Loop' = Loop BY Zenon DEF Loop
  <1> QED BY <1>1 DEF Qps, OptOK

LEMMA IdsAre == ASSUME OptOK PROVE Qps \subseteq Ids /\ 0 \in Qps /\ 0 \in Ids /\ opt.num_of_qps \in 1..MaxQps
  BY OptionsAssumption DEF OptOK, Parameters, Qps, Ids

LEMMA CountersAre ==
  DOMAIN Counters = {"scnt", "ccnt", "totccnt", "rcnt", "unused", "posted", "scredit", "started",
                     "flag", "index"}
  BY DEF Counters

\* The place tells the loop.
LEMMA PlaceTells ==
  ASSUME NEW s \in Sides, PlaceOK(s)
  PROVE  /\ at[s] \in {"bw_post", "bw_poll", "bws", "bws_credit"} => Loop = "bw"
         /\ at[s] \in {"bi_post", "bi_recv", "bi_batch", "bi_credit"} => Loop = "bi"
         /\ at[s] = "clean" => Loop \in {"bw", "bi"}
         /\ at[s] \in PlacesOf["infinite"] => Loop = "infinite"
         /\ at[s] \in PlacesOf["burst"] => Loop = "burst"
         /\ at[s] \in PlacesOf["lat_write"] => Loop = "lat_write"
         /\ at[s] \in PlacesOf["lat_send"] => Loop = "lat_send"
         /\ at[s] \in PlacesOf["lat"] => Loop = "lat"
  BY LoopIs DEF PlaceOK, PlacesOf, Elsewhere

\* A step of one side changes nothing of the other.
Alone(s) ==
  /\ Domains'
  /\ \A t \in Sides \ {s} :
       /\ sq'[t] = sq[t] /\ rq'[t] = rq[t] /\ rcq'[t] = rcq[t] /\ scq'[t] = scq[t]
       /\ mine'[t] = mine[t] /\ word'[t] = word[t] /\ run'[t] = run[t] /\ at'[t] = at[t]

LEMMA AloneKept ==
  ASSUME LoopInv, NEW s \in Sides, opt' = opt, Alone(s), SideOK(s)' PROVE LoopInv'
<1>1. ASSUME NEW t \in Sides \ {s} PROVE SideOK(t)'
  <2>1. SideOK(t) BY DEF LoopInv
  <2> QED BY <2>1, LoopStays, ZenonT(40) DEF Alone, SideOK, SendsOK, RunOK, PlaceOK
<1> QED BY <1>1, LoopStays DEF LoopInv, Alone

(***************************************************************************)
(* Posting.                                                                *)
(***************************************************************************)

\* Requests go behind those that are there.
LEMMA Behind ==
  ASSUME LoopInv, NEW s \in Sides, NEW q \in Qps, NEW k \in Nat, NEW w \in [1..k -> Requests],
         sq' = [sq EXCEPT ![s][q] = @ \o w], opt' = opt, at'[s] \notin {"idle", "ready"}
  PROVE  /\ DOMAIN sq' = Sides /\ \A t \in Sides \ {s} : sq'[t] = sq[t]
         /\ SendsOK(s)'
<1>1. w \in Seq(Requests) BY SeqDef
<1>2. q \in Ids /\ sq[s] \in [Ids -> Seq(Requests)] /\ DOMAIN sq = Sides
  BY IdsAre DEF LoopInv, SideOK, SendsOK, Domains
<1>3. sq[s][q] \o w \in Seq(Requests) BY <1>1, <1>2, ConcatProperties
<1>4. sq'[s] \in [Ids -> Seq(Requests)] /\ \A p \in Ids \ {q} : sq'[s][p] = sq[s][p] BY <1>2, <1>3
<1>5. Qps' = Qps BY LoopStays
<1> QED BY <1>2, <1>4, <1>5 DEF LoopInv, SideOK, SendsOK

LEMMA AppendIs == ASSUME NEW S, NEW q \in Seq(S), NEW x \in S PROVE Append(q, x) = q \o [j \in 1..1 |-> x]
  OBVIOUS

\* The counters of a side move.
LEMMA RunMoves ==
  ASSUME LoopInv, NEW s \in Sides, NEW r, run' = [run EXCEPT ![s] = r]
  PROVE  DOMAIN run' = Sides /\ run'[s] = r /\ \A t \in Sides \ {s} : run'[t] = run[t]
  BY DEF LoopInv, Domains

\* post_send_method.
LEMMA PostNextIs ==
  ASSUME LoopInv, NEW s \in Sides, NEW q \in Qps, opt' = opt, PostNext(s, q),
         at'[s] \notin {"idle", "ready"}
  PROVE  /\ DOMAIN sq' = Sides /\ \A t \in Sides \ {s} : sq'[t] = sq[t]
         /\ DOMAIN run' = Sides /\ \A t \in Sides \ {s} : run'[t] = run[t]
         /\ SendsOK(s)' /\ RunOK(run[s])'
         /\ run'[s].index = run[s].index
<1> DEFINE r == run[s]
           n == r.scnt[q]
           single == opt.post_list = 1
           last == ~InDuration /\ n = Iters - 1
           sig == r.flag[q] /\ ~(single /\ n % opt.cq_mod = 0 /\ opt.cq_mod > 1 /\ ~last)
           after == n + opt.post_list
           next == single /\ (after % opt.cq_mod = opt.cq_mod - 1
                              \/ (~InDuration /\ after = Iters - 1))
           kind == IF opt.verb = "SEND" THEN "send" ELSE "rdma"
           w == [j \in 1..opt.post_list |-> [kind |-> kind, sig |-> IF single THEN sig ELSE ListFlag(j)]]
           flag == sig \/ next
           new == [r EXCEPT !.scnt[q] = after, !.flag[q] = flag]
<1>1. sq' = [sq EXCEPT ![s][q] = @ \o w] BY DEF PostNext
<1>2. run' = [run EXCEPT ![s].scnt[q] = after, ![s].flag[q] = flag] BY Zenon DEF PostNext
<1>3. q \in Ids /\ DOMAIN run = Sides /\ RunOK(r) /\ opt.post_list \in Nat
  BY IdsAre DEF LoopInv, SideOK, Domains, OptOK, Parameters
<1>4. kind \in {"send", "word", "rdma"} OBVIOUS
<1>5. sig \in BOOLEAN /\ flag \in BOOLEAN OBVIOUS
<1>6. \A j \in Nat : ListFlag(j) \in BOOLEAN BY DEF ListFlag
<1>7. w \in [1..opt.post_list -> Requests]
  <2> HIDE DEF kind, sig, single
  <2> QED BY <1>3, <1>4, <1>5, <1>6 DEF Requests
<1>8. after \in Nat BY <1>3 DEF RunOK
<1> HIDE DEF w, sig, kind, flag, after
<1>9. run' = [run EXCEPT ![s] = new] BY <1>2, <1>3
<1>10. RunOK(new) /\ new.index = r.index BY <1>3, <1>5, <1>8, CountersAre DEF RunOK
<1> HIDE DEF new
<1>11. DOMAIN run' = Sides /\ run'[s] = new /\ \A t \in Sides \ {s} : run'[t] = run[t]
  BY <1>9, RunMoves
<1>12. RunOK(run[s])' BY <1>10, <1>11, LoopStays DEF RunOK
<1> QED BY <1>1, <1>3, <1>7, <1>10, <1>11, <1>12, Behind

\* To the next queue pair, or on.
LEMMA NextQpIs ==
  ASSUME LoopInv, NEW s \in Sides, NEW place, opt' = opt, NextQp(s, place), run[s].index \in Qps
  PROVE  /\ DOMAIN run' = Sides /\ \A t \in Sides \ {s} : run'[t] = run[t]
         /\ RunOK(run[s])'
         /\ DOMAIN at' = Sides /\ (\A t \in Sides \ {s} : at'[t] = at[t]) /\ at'[s] \in {at[s], place}
<1> DEFINE k == IF run[s].index + 1 < opt.num_of_qps THEN run[s].index + 1 ELSE 0
           new == [run[s] EXCEPT !.index = k]
<1>1. run' = [run EXCEPT ![s].index = k] BY DEF NextQp
<1>2. DOMAIN run = Sides /\ DOMAIN at = Sides /\ RunOK(run[s]) /\ opt.num_of_qps \in Nat /\ 0 \in Qps
  BY IdsAre DEF LoopInv, SideOK, Domains
<1>3. k \in Qps /\ k \in Int BY <1>2 DEF Qps, RunOK
<1> HIDE DEF k
<1>4. run' = [run EXCEPT ![s] = new] BY <1>1, <1>2
<1>5. RunOK(new) BY <1>2, <1>3, CountersAre DEF RunOK
<1> HIDE DEF new
<1>6. DOMAIN run' = Sides /\ run'[s] = new /\ \A t \in Sides \ {s} : run'[t] = run[t]
  BY <1>4, RunMoves
<1>7. RunOK(run[s])' BY <1>5, <1>6, LoopStays DEF RunOK
<1>8. DOMAIN at' = Sides /\ (\A t \in Sides \ {s} : at'[t] = at[t]) /\ at'[s] \in {at[s], place}
  BY <1>2 DEF NextQp, GoTo
<1> QED BY <1>6, <1>7, <1>8

\* What is known of a side at work.
LEMMA SideIs ==
  ASSUME LoopInv, NEW s \in Sides
  PROVE  /\ SideOK(s) /\ SendsOK(s) /\ RunOK(run[s]) /\ PlaceOK(s) /\ Domains /\ OptOK
         /\ Loop # "burst" => run[s].index \in Qps
  BY DEF LoopInv, SideOK, RunOK

\* Nothing is posted, and the side is at work.
LEMMA SendsStay ==
  ASSUME LoopInv, NEW s \in Sides, opt' = opt, sq'[s] = sq[s], at'[s] \notin {"idle", "ready"}
  PROVE  SendsOK(s)'
<1>1. SendsOK(s) BY SideIs
<1> QED BY <1>1, LoopStays DEF SendsOK

\* A visit to a queue pair: post, or go on.
LEMMA VisitKept ==
  ASSUME LoopInv, NEW s \in Sides, NEW place, opt' = opt,
         \/ at[s] = "bw_post" /\ place = "bw_poll"
         \/ at[s] = "inf_post" /\ place = "inf_poll"
         \/ at[s] = "bi_post" /\ place = "bi_recv",
         \/ PostNext(s, run[s].index) /\ UNCHANGED at
         \/ NextQp(s, place) /\ UNCHANGED sq,
         UNCHANGED <<rq, rcq, scq, mine, word>>
  PROVE  LoopInv'
<1>1. SideOK(s) /\ Domains /\ PlaceOK(s) BY SideIs
<1>2. Loop \in {"bw", "infinite", "bi"} BY <1>1, PlaceTells DEF PlacesOf
<1>3. run[s].index \in Qps BY <1>2, SideIs
<1>4. place \notin Elsewhere /\ place \in PlacesOf[Loop] /\ at[s] \notin Elsewhere
  BY <1>1, PlaceTells DEF PlacesOf, Elsewhere
<1>5. /\ DOMAIN sq' = Sides /\ \A t \in Sides \ {s} : sq'[t] = sq[t]
      /\ DOMAIN run' = Sides /\ \A t \in Sides \ {s} : run'[t] = run[t]
      /\ DOMAIN at' = Sides /\ \A t \in Sides \ {s} : at'[t] = at[t]
      /\ SendsOK(s)' /\ RunOK(run[s])' /\ at'[s] \in {at[s], place}
  <2>1. CASE PostNext(s, run[s].index) /\ UNCHANGED at
    BY <1>1, <1>3, <1>4, <2>1, PostNextIs DEF Elsewhere, Domains
  <2>2. CASE NextQp(s, place) /\ UNCHANGED sq
    BY <1>1, <1>3, <1>4, <2>2, NextQpIs, SendsStay DEF Elsewhere, Domains
  <2> QED BY <2>1, <2>2
<1>6. PlaceOK(s)'
  <2>1. Loop' = Loop BY LoopStays
  <2> QED BY <1>1, <1>4, <1>5, <2>1 DEF PlaceOK, Elsewhere, Crediting
<1>7. Alone(s) BY <1>1, <1>5 DEF Alone, Domains
<1>8. SideOK(s)' BY <1>1, <1>5, <1>6 DEF SideOK
<1> QED BY <1>7, <1>8, AloneKept

LEMMA BwPostKept == ASSUME LoopInv, NEW s \in Sides, opt' = opt, BwPost(s) PROVE LoopInv'
  BY VisitKept DEF BwPost
LEMMA InfinitePostKept == ASSUME LoopInv, NEW s \in Sides, opt' = opt, InfinitePost(s) PROVE LoopInv'
  BY VisitKept DEF InfinitePost
LEMMA BiPostKept == ASSUME LoopInv, NEW s \in Sides, opt' = opt, BiPost(s) PROVE LoopInv'
  BY VisitKept DEF BiPost

(***************************************************************************)
(* Polling and receiving.                                                  *)
(***************************************************************************)
LEMMA PlusIs ==
  ASSUME NEW f \in [Ids -> Int], NEW g \in [Ids -> Nat], NEW k \in Int PROVE Plus(f, g, k) \in [Ids -> Int]
<1>1. \A q \in Ids : f[q] + k * g[q] \in Int OBVIOUS
<1> QED BY <1>1 DEF Plus

LEMMA PolledAre ==
  ASSUME LoopInv, NEW s \in Sides
  PROVE  /\ DataPolled(s) \in [Ids -> Nat] /\ WordsPolled(s) \in [Ids -> Nat] /\ Zero \in [Ids -> Nat]
         /\ NoCompletions \in [Ids -> Boxes]
<1>1. scq[s] \in [Ids -> Boxes] BY DEF LoopInv, SideOK
<1>2. \A q \in Ids : scq[s][q].data \in Nat /\ scq[s][q].word \in Nat BY <1>1 DEF Boxes
<1> QED BY <1>2 DEF DataPolled, WordsPolled, Zero, NoCompletions, Boxes

\* The send completions of a side are polled, and its counters follow.
LEMMA PollKept ==
  ASSUME LoopInv, NEW s \in Sides, opt' = opt, NEW r, RunOK(r), run' = [run EXCEPT ![s] = r],
         scq' \in {scq, [scq EXCEPT ![s] = NoCompletions]},
         DOMAIN at' = Sides, \A t \in Sides \ {s} : at'[t] = at[t], PlaceOK(s)', at'[s] \notin {"idle", "ready"},
         UNCHANGED <<sq, rq, rcq, mine, word>>
  PROVE  LoopInv'
<1>1. SideOK(s) /\ Domains BY SideIs
<1>2. DOMAIN run' = Sides /\ run'[s] = r /\ \A t \in Sides \ {s} : run'[t] = run[t] BY RunMoves
<1>3. RunOK(run[s])' BY <1>2, LoopStays DEF RunOK
<1>4. SendsOK(s)' BY SendsStay
<1>5. scq'[s] \in [Ids -> Boxes] /\ DOMAIN scq' = Sides /\ \A t \in Sides \ {s} : scq'[t] = scq[t]
  BY <1>1, PolledAre DEF SideOK, Domains
<1>6. Alone(s) BY <1>1, <1>2, <1>5 DEF Alone, Domains
<1>7. SideOK(s)' BY <1>1, <1>3, <1>4, <1>5 DEF SideOK
<1> QED BY <1>6, <1>7, AloneKept

LEMMA BwPollKept == ASSUME LoopInv, NEW s \in Sides, opt' = opt, BwPoll(s) PROVE LoopInv'
<1> DEFINE r == run[s]
           looks == r.totccnt < MaxIter \/ (InDuration /\ r.totccnt < Total(r.scnt))
           n == IF looks THEN DataPolled(s) ELSE Zero
           ccnt == Plus(r.ccnt, n, opt.cq_mod)
           tot == r.totccnt + opt.cq_mod * Total(n)
           new == [r EXCEPT !.ccnt = ccnt, !.totccnt = tot]
           place == IF BwMore(s, new) THEN "bw_post" ELSE "done"
<1>1. RunOK(r) /\ PlaceOK(s) /\ Domains /\ opt.cq_mod \in Nat BY SideIs DEF OptOK, Parameters
<1>2. n \in [Ids -> Nat] BY PolledAre
<1>3. run' = [run EXCEPT ![s] = new] BY DEF BwPoll
<1>4. at[s] = "bw_poll" /\ at' = [at EXCEPT ![s] = place] BY DEF BwPoll, GoTo
<1>5. UNCHANGED <<sq, rq, rcq, mine, word>> BY DEF BwPoll
<1>6. scq' \in {scq, [scq EXCEPT ![s] = NoCompletions]} BY DEF BwPoll
<1>7. place \in {"bw_post", "done"} OBVIOUS
<1> HIDE DEF place, n
<1>8. ccnt \in [Ids -> Int]
  <2>1. r.ccnt \in [Ids -> Int] /\ opt.cq_mod \in Int BY <1>1 DEF RunOK
  <2> QED BY <1>2, <2>1, PlusIs
<1> HIDE DEF ccnt, tot
<1>9. RunOK(new) BY <1>1, <1>8, CountersAre DEF RunOK
<1> HIDE DEF new
<1>10. at'[s] = place /\ DOMAIN at' = Sides /\ \A t \in Sides \ {s} : at'[t] = at[t] BY <1>1, <1>4 DEF Domains
<1>11. PlaceOK(s)' BY <1>1, <1>4, <1>7, <1>10, PlaceTells, LoopStays DEF PlaceOK, PlacesOf, Elsewhere, Crediting
<1> QED BY <1>3, <1>5, <1>6, <1>7, <1>9, <1>10, <1>11, PollKept

LEMMA InfinitePollKept == ASSUME LoopInv, NEW s \in Sides, opt' = opt, InfinitePoll(s) PROVE LoopInv'
<1> DEFINE r == run[s]
           n == IF r.totccnt < Total(r.scnt) THEN DataPolled(s) ELSE Zero
           ccnt == Plus(r.ccnt, n, opt.cq_mod)
           tot == r.totccnt + opt.cq_mod * Total(n)
           new == [r EXCEPT !.ccnt = ccnt, !.totccnt = tot]
<1>1. RunOK(r) /\ PlaceOK(s) /\ Domains /\ opt.cq_mod \in Nat BY SideIs DEF OptOK, Parameters
<1>2. n \in [Ids -> Nat] BY PolledAre
<1>3. run' = [run EXCEPT ![s] = new] BY <1>1 DEF InfinitePoll, Domains
<1>4. at[s] = "inf_poll" /\ at' = [at EXCEPT ![s] = "inf_post"] BY DEF InfinitePoll, GoTo
<1>5. UNCHANGED <<sq, rq, rcq, mine, word>> BY DEF InfinitePoll
<1>6. scq' \in {scq, [scq EXCEPT ![s] = NoCompletions]} BY DEF InfinitePoll
<1> HIDE DEF n
<1>8. ccnt \in [Ids -> Int]
  <2>1. r.ccnt \in [Ids -> Int] /\ opt.cq_mod \in Int BY <1>1 DEF RunOK
  <2> QED BY <1>2, <2>1, PlusIs
<1> HIDE DEF ccnt, tot
<1>9. RunOK(new) BY <1>1, <1>8, CountersAre DEF RunOK
<1> HIDE DEF new
<1>10. at'[s] = "inf_post" /\ DOMAIN at' = Sides /\ \A t \in Sides \ {s} : at'[t] = at[t] BY <1>1, <1>4 DEF Domains
<1>11. PlaceOK(s)' BY <1>1, <1>4, <1>10, PlaceTells, LoopStays DEF PlaceOK, PlacesOf, Elsewhere, Crediting
<1> QED BY <1>3, <1>5, <1>6, <1>9, <1>10, <1>11, PollKept

LEMMA BiPollKept == ASSUME LoopInv, NEW s \in Sides, opt' = opt, BiPoll(s) PROVE LoopInv'
<1> DEFINE r == run[s]
           ccnt == Plus(r.ccnt, DataPolled(s), opt.cq_mod)
           tot == r.totccnt + opt.cq_mod * Total(DataPolled(s))
           credit == Plus(r.scredit, WordsPolled(s), -1)
           new == [r EXCEPT !.ccnt = ccnt, !.totccnt = tot, !.scredit = credit, !.index = 0]
           place == IF BiMore(s, new) THEN "bi_post" ELSE "clean"
<1>1. RunOK(r) /\ PlaceOK(s) /\ Domains /\ opt.cq_mod \in Nat /\ 0 \in Qps
  BY SideIs, IdsAre DEF OptOK, Parameters
<1>2. DataPolled(s) \in [Ids -> Nat] /\ WordsPolled(s) \in [Ids -> Nat] BY PolledAre
<1>3. run' = [run EXCEPT ![s] = new] BY DEF BiPoll
<1>4. at[s] \in {"bi_batch", "bi_recv"} /\ at' = [at EXCEPT ![s] = place] BY DEF BiPoll, GoTo
<1>5. UNCHANGED <<sq, rq, rcq, mine, word>> BY DEF BiPoll
<1>6. scq' \in {scq, [scq EXCEPT ![s] = NoCompletions]} BY DEF BiPoll
<1>7. place \in {"bi_post", "clean"} OBVIOUS
<1> HIDE DEF place
<1>8. ccnt \in [Ids -> Int] /\ credit \in [Ids -> Int]
  <2>1. r.ccnt \in [Ids -> Int] /\ r.scredit \in [Ids -> Int] /\ opt.cq_mod \in Int /\ -1 \in Int
    BY <1>1 DEF RunOK
  <2> QED BY <1>2, <2>1, PlusIs
<1> HIDE DEF ccnt, tot, credit
<1>9. RunOK(new) BY <1>1, <1>8, CountersAre DEF RunOK
<1> HIDE DEF new
<1>10. at'[s] = place /\ DOMAIN at' = Sides /\ \A t \in Sides \ {s} : at'[t] = at[t] BY <1>1, <1>4 DEF Domains
<1>11. PlaceOK(s)' BY <1>1, <1>4, <1>7, <1>10, PlaceTells, LoopStays DEF PlaceOK, PlacesOf, Elsewhere, Crediting
<1> QED BY <1>3, <1>5, <1>6, <1>7, <1>9, <1>10, <1>11, PollKept

LEMMA CleanCreditKept == ASSUME LoopInv, NEW s \in Sides, opt' = opt, CleanCredit(s) PROVE LoopInv'
<1> DEFINE r == run[s]
           credit == Plus(r.scredit, WordsPolled(s), -1)
           new == [r EXCEPT !.scredit = credit]
<1>1. RunOK(r) /\ PlaceOK(s) /\ Domains BY SideIs
<1>2. WordsPolled(s) \in [Ids -> Nat] BY PolledAre
<1>3. run' = [run EXCEPT ![s] = new] BY <1>1 DEF CleanCredit, Domains
<1>4. at[s] = "clean" /\ at' \in {at, [at EXCEPT ![s] = "done"]} BY DEF CleanCredit, GoTo
<1>5. UNCHANGED <<sq, rq, rcq, mine, word>> /\ scq' = [scq EXCEPT ![s] = NoCompletions] BY DEF CleanCredit
<1>8. credit \in [Ids -> Int]
  <2>1. r.scredit \in [Ids -> Int] /\ -1 \in Int BY <1>1 DEF RunOK
  <2> QED BY <1>2, <2>1, PlusIs
<1> HIDE DEF credit
<1>9. RunOK(new) BY <1>1, <1>8, CountersAre DEF RunOK
<1> HIDE DEF new
<1>10. at'[s] \in {"clean", "done"} /\ DOMAIN at' = Sides /\ \A t \in Sides \ {s} : at'[t] = at[t] BY <1>1, <1>4 DEF Domains
<1>11. PlaceOK(s)' BY <1>1, <1>4, <1>10, PlaceTells, LoopStays DEF PlaceOK, PlacesOf, Elsewhere, Crediting
<1> QED BY <1>3, <1>5, <1>9, <1>10, <1>11, PollKept

\* A receive completion is counted, and receives are posted again.
LEMMA ReceivedIs ==
  ASSUME LoopInv, NEW s \in Sides, NEW q \in Qps, opt' = opt, Received(s, q)
  PROVE  /\ DOMAIN rcq' = Sides /\ (\A t \in Sides \ {s} : rcq'[t] = rcq[t]) /\ rcq'[s] \in [Ids -> Nat]
         /\ DOMAIN rq' = Sides /\ (\A t \in Sides \ {s} : rq'[t] = rq[t]) /\ rq'[s] \in [Ids -> Nat]
         /\ DOMAIN run' = Sides /\ (\A t \in Sides \ {s} : run'[t] = run[t]) /\ RunOK(run[s])'
<1> DEFINE r == IF Reposts(s, q) THEN opt.recv_post_list ELSE 0
           new == [run[s] EXCEPT !.rcnt[q] = @ + 1, !.unused[q] = @ + 1 - r, !.posted[q] = @ + r,
                                 !.started = TRUE, !.index = q]
<1>1. /\ SideOK(s) /\ RunOK(run[s]) /\ Domains /\ opt.recv_post_list \in Nat /\ q \in Ids /\ q \in Int
  BY SideIs, IdsAre DEF OptOK, Parameters, Qps
<1>2. /\ rcq[s][q] > 0 /\ rcq' = [rcq EXCEPT ![s][q] = @ - 1]
      /\ rq' = [rq EXCEPT ![s][Pool(q)] = @ + r]
      /\ run' = [run EXCEPT ![s].rcnt[q] = @ + 1, ![s].unused[q] = @ + 1 - r, ![s].posted[q] = @ + r,
                            ![s].started = TRUE, ![s].index = q]
  BY DEF Received
<1>3. r \in Nat BY <1>1
<1> HIDE DEF r
<1>4. Pool(q) \in Ids BY <1>1, IdsAre, SideIs DEF Pool
<1>5. run' = [run EXCEPT ![s] = new] BY <1>1, <1>2, ZenonT(40) DEF Domains
<1>6. RunOK(new) BY <1>1, <1>3, CountersAre DEF RunOK
<1> HIDE DEF new
<1>7. DOMAIN run' = Sides /\ run'[s] = new /\ \A t \in Sides \ {s} : run'[t] = run[t] BY <1>5, RunMoves
<1>8. RunOK(run[s])' BY <1>6, <1>7, LoopStays DEF RunOK
<1>9. DOMAIN rcq' = Sides /\ (\A t \in Sides \ {s} : rcq'[t] = rcq[t]) /\ rcq'[s] \in [Ids -> Nat]
  BY <1>1, <1>2 DEF SideOK, Domains
<1>10. DOMAIN rq' = Sides /\ (\A t \in Sides \ {s} : rq'[t] = rq[t]) /\ rq'[s] \in [Ids -> Nat]
  BY <1>1, <1>2, <1>3, <1>4 DEF SideOK, Domains
<1> QED BY <1>7, <1>8, <1>9, <1>10

\* The count of received messages, written where the peer will find it.
LEMMA CountWritten ==
  ASSUME LoopInv, NEW s \in Sides, NEW q \in Qps,
         mine' \in {mine, [mine EXCEPT ![s][q] = run[s].rcnt[q] + 1]}
  PROVE  DOMAIN mine' = Sides /\ (\A t \in Sides \ {s} : mine'[t] = mine[t]) /\ mine'[s] \in [Ids -> Nat]
<1>1. SideOK(s) /\ RunOK(run[s]) /\ Domains /\ q \in Ids BY SideIs, IdsAre
<1>2. run[s].rcnt[q] + 1 \in Nat BY <1>1 DEF RunOK
<1> QED BY <1>1, <1>2 DEF SideOK, Domains

LEMMA BwServerReceiveKept ==
  ASSUME LoopInv, NEW s \in Sides, opt' = opt, BwServerReceive(s) PROVE LoopInv'
<1>1. PICK q \in Qps :
        /\ Received(s, q)
        /\ IF CreditDue(s, q)
           THEN mine' = [mine EXCEPT ![s][q] = run[s].rcnt[q] + 1] /\ GoTo(s, "bws_credit")
           ELSE UNCHANGED <<mine, at>>
  BY DEF BwServerReceive
<1>2. at[s] = "bws" /\ UNCHANGED <<sq, scq, word>> BY DEF BwServerReceive
<1>3. SideOK(s) /\ PlaceOK(s) /\ Domains BY SideIs
<1>4. mine' \in {mine, [mine EXCEPT ![s][q] = run[s].rcnt[q] + 1]} BY <1>1
<1>5. /\ DOMAIN at' = Sides /\ \A t \in Sides \ {s} : at'[t] = at[t]
      /\ at'[s] = "bws" \/ (at'[s] = "bws_credit" /\ opt.send_rcredit)
  BY <1>1, <1>2, <1>3 DEF GoTo, Domains, CreditDue
<1>6. PlaceOK(s)' BY <1>2, <1>3, <1>5, PlaceTells, LoopStays DEF PlaceOK, PlacesOf, Elsewhere, Crediting
<1>7. SendsOK(s)' BY <1>2, <1>5, SendsStay
<1>8. Alone(s) /\ SideOK(s)'
  BY <1>1, <1>2, <1>3, <1>4, <1>5, <1>6, <1>7, ReceivedIs, CountWritten DEF Alone, SideOK, Domains
<1> QED BY <1>8, AloneKept

LEMMA BiReceiveKept ==
  ASSUME LoopInv, NEW s \in Sides, opt' = opt, BiReceive(s) PROVE LoopInv'
<1>1. PICK q \in Qps :
        /\ Received(s, q)
        /\ IF CreditDue(s, q)
           THEN mine' = [mine EXCEPT ![s][q] = run[s].rcnt[q] + 1] /\ GoTo(s, "bi_credit")
           ELSE GoTo(s, "bi_batch") /\ UNCHANGED mine
  BY DEF BiReceive
<1>2. at[s] \in {"bi_recv", "bi_batch"} /\ UNCHANGED <<sq, scq, word>> BY DEF BiReceive
<1>3. SideOK(s) /\ PlaceOK(s) /\ Domains BY SideIs
<1>4. mine' \in {mine, [mine EXCEPT ![s][q] = run[s].rcnt[q] + 1]} BY <1>1
<1>5. /\ DOMAIN at' = Sides /\ \A t \in Sides \ {s} : at'[t] = at[t]
      /\ at'[s] = "bi_batch" \/ (at'[s] = "bi_credit" /\ opt.send_rcredit)
  BY <1>1, <1>2, <1>3 DEF GoTo, Domains, CreditDue
<1>6. PlaceOK(s)' BY <1>2, <1>3, <1>5, PlaceTells, LoopStays DEF PlaceOK, PlacesOf, Elsewhere, Crediting
<1>7. SendsOK(s)' BY <1>2, <1>5, SendsStay
<1>8. Alone(s) /\ SideOK(s)'
  BY <1>1, <1>2, <1>3, <1>4, <1>5, <1>6, <1>7, ReceivedIs, CountWritten DEF Alone, SideOK, Domains
<1> QED BY <1>8, AloneKept

LEMMA InfiniteReceiveKept ==
  ASSUME LoopInv, NEW s \in Sides, opt' = opt, InfiniteReceive(s) PROVE LoopInv'
<1> DEFINE n == IF opt.send_rcredit /\ ~opt.use_srq THEN 1 ELSE 0
           due(q) == n = 1 /\ run[s].scredit[q] + 1 = CreditCnt
           list(q) == IF run[s].unused[q] + 1 >= opt.recv_post_list THEN opt.recv_post_list ELSE 0
<1>1. PICK q \in Qps :
       /\ rcq[s][q] > 0
       /\ rcq' = [rcq EXCEPT ![s][q] = @ - 1]
       /\ rq' = [rq EXCEPT ![s][Pool(q)] = @ + list(q)]
       /\ run' = [run EXCEPT ![s].rcnt[q] = @ + n, ![s].unused[q] = @ + 1 - list(q),
                             ![s].scredit[q] = @ + n, ![s].index = q]
       /\ IF due(q)
          THEN mine' = [mine EXCEPT ![s][q] = run[s].rcnt[q] + 1] /\ GoTo(s, "infs_credit")
          ELSE UNCHANGED <<mine, at>>
  BY DEF InfiniteReceive
<1> DEFINE l == list(q)
           new == [run[s] EXCEPT !.rcnt[q] = @ + n, !.unused[q] = @ + 1 - l, !.scredit[q] = @ + n,
                                 !.index = q]
<1>2. at[s] = "infs" /\ UNCHANGED <<sq, scq, word>> BY DEF InfiniteReceive
<1>3. /\ SideOK(s) /\ PlaceOK(s) /\ Domains /\ RunOK(run[s]) /\ opt.recv_post_list \in Nat
      /\ q \in Ids /\ q \in Int /\ 0 \in Ids
  BY SideIs, IdsAre DEF OptOK, Parameters, Qps
<1>4. mine' \in {mine, [mine EXCEPT ![s][q] = run[s].rcnt[q] + 1]} BY <1>1
<1>5. /\ DOMAIN at' = Sides /\ \A t \in Sides \ {s} : at'[t] = at[t]
      /\ at'[s] = "infs" \/ (at'[s] = "infs_credit" /\ opt.send_rcredit)
  BY <1>1, <1>2, <1>3 DEF GoTo, Domains
<1>6. PlaceOK(s)' BY <1>2, <1>3, <1>5, PlaceTells, LoopStays DEF PlaceOK, PlacesOf, Elsewhere, Crediting
<1>7. SendsOK(s)' BY <1>2, <1>5, SendsStay
<1>8. l \in Nat /\ n \in Nat /\ Pool(q) \in Ids BY <1>3 DEF Pool
<1>9. /\ rcq[s][q] > 0 /\ rcq' = [rcq EXCEPT ![s][q] = @ - 1]
      /\ rq' = [rq EXCEPT ![s][Pool(q)] = @ + l]
      /\ run' = [run EXCEPT ![s].rcnt[q] = @ + n, ![s].unused[q] = @ + 1 - l, ![s].scredit[q] = @ + n,
                            ![s].index = q]
  BY <1>1
<1> HIDE DEF n, l, list, due
<1>10. /\ DOMAIN rcq' = Sides /\ (\A t \in Sides \ {s} : rcq'[t] = rcq[t]) /\ rcq'[s] \in [Ids -> Nat]
       /\ DOMAIN rq' = Sides /\ (\A t \in Sides \ {s} : rq'[t] = rq[t]) /\ rq'[s] \in [Ids -> Nat]
  BY <1>3, <1>8, <1>9 DEF SideOK, Domains
<1>11. run' = [run EXCEPT ![s] = new] BY <1>3, <1>9, ZenonT(40) DEF Domains
<1>12. RunOK(new) BY <1>3, <1>8, CountersAre DEF RunOK
<1> HIDE DEF new
<1>13. DOMAIN run' = Sides /\ run'[s] = new /\ \A t \in Sides \ {s} : run'[t] = run[t] BY <1>11, RunMoves
<1>14. RunOK(run[s])' BY <1>12, <1>13, LoopStays DEF RunOK
<1>15. Alone(s) /\ SideOK(s)'
  BY <1>2, <1>3, <1>4, <1>5, <1>6, <1>7, <1>10, <1>13, <1>14, CountWritten DEF Alone, SideOK, Domains
<1> QED BY <1>15, AloneKept

(***************************************************************************)
(* Sending the counts.                                                     *)
(***************************************************************************)
LEMMA CreditBehind ==
  ASSUME LoopInv, NEW s \in Sides, NEW q \in Qps,
         sq' = [sq EXCEPT ![s][q] = Append(@, CreditWr)], opt' = opt, at'[s] \notin {"idle", "ready"}
  PROVE  /\ DOMAIN sq' = Sides /\ \A t \in Sides \ {s} : sq'[t] = sq[t]
         /\ SendsOK(s)'
<1> DEFINE w == [j \in 1..1 |-> CreditWr]
<1>1. CreditWr \in Requests BY DEF CreditWr, Requests
<1>2. w \in [1..1 -> Requests] /\ 1 \in Nat BY <1>1
<1>3. sq[s][q] \in Seq(Requests) BY IdsAre DEF LoopInv, SideOK, SendsOK
<1>4. Append(sq[s][q], CreditWr) = sq[s][q] \o w BY <1>1, <1>3, AppendIs
<1> HIDE DEF w
<1>5. sq' = [sq EXCEPT ![s][q] = @ \o w] BY <1>4
<1> QED BY <1>2, <1>5, Behind

\* Either completions are polled first, or the count goes.
LEMMA CreditKept ==
  ASSUME LoopInv, NEW s \in Sides, opt' = opt, Loop # "burst",
         NEW r, RunOK(r), run' = [run EXCEPT ![s] = r],
         \/ sq' = sq
         \/ sq' = [sq EXCEPT ![s][run[s].index] = Append(@, CreditWr)],
         DOMAIN scq' = Sides, \A t \in Sides \ {s} : scq'[t] = scq[t], scq'[s] \in [Ids -> Boxes],
         DOMAIN at' = Sides, \A t \in Sides \ {s} : at'[t] = at[t], PlaceOK(s)', at'[s] \notin {"idle", "ready"},
         UNCHANGED <<rq, rcq, mine, word>>
  PROVE  LoopInv'
<1>1. SideOK(s) /\ Domains BY SideIs
<1>2. DOMAIN run' = Sides /\ run'[s] = r /\ \A t \in Sides \ {s} : run'[t] = run[t] BY RunMoves
<1>3. RunOK(run[s])' BY <1>2, LoopStays DEF RunOK
<1>4. run[s].index \in Qps BY SideIs
<1>5. SendsOK(s)' /\ DOMAIN sq' = Sides /\ \A t \in Sides \ {s} : sq'[t] = sq[t]
  <2>1. CASE sq' = sq BY <1>1, <2>1, SendsStay DEF Domains
  <2>2. CASE sq' = [sq EXCEPT ![s][run[s].index] = Append(@, CreditWr)] BY <1>4, <2>2, CreditBehind
  <2> QED BY <2>1, <2>2
<1>6. Alone(s) BY <1>1, <1>2, <1>5 DEF Alone, Domains
<1>7. SideOK(s)' BY <1>1, <1>3, <1>5 DEF SideOK
<1> QED BY <1>6, <1>7, AloneKept

LEMMA BwServerCreditKept ==
  ASSUME LoopInv, NEW s \in Sides, opt' = opt, BwServerCredit(s) PROVE LoopInv'
<1> DEFINE q == run[s].index
           full == run[s].scredit[q] = opt.tx_depth
           after == IF full THEN Plus(run[s].scredit, WordsPolled(s), -1)
                    ELSE [run[s].scredit EXCEPT ![q] = @ + 1]
           new == [run[s] EXCEPT !.scredit = after]
<1>1. SideOK(s) /\ PlaceOK(s) /\ Domains /\ RunOK(run[s]) /\ at[s] = "bws_credit" BY SideIs DEF BwServerCredit
<1>2. Loop = "bw" BY <1>1, PlaceTells
<1>3. q \in Qps /\ q \in Ids BY <1>2, SideIs, IdsAre
<1>4. run' = [run EXCEPT ![s] = new] BY <1>1 DEF BwServerCredit, Domains
<1>5. \/ sq' = sq /\ scq' = [scq EXCEPT ![s] = NoCompletions] /\ at' = at
      \/ sq' = [sq EXCEPT ![s][q] = Append(@, CreditWr)] /\ scq' = scq /\ at' = [at EXCEPT ![s] = "bws"]
  BY DEF BwServerCredit, GoTo
<1>6. after \in [Ids -> Int]
  <2>1. run[s].scredit \in [Ids -> Int] /\ -1 \in Int BY <1>1 DEF RunOK
  <2>2. Plus(run[s].scredit, WordsPolled(s), -1) \in [Ids -> Int] BY <2>1, PolledAre, PlusIs
  <2> QED BY <1>3, <2>1, <2>2
<1> HIDE DEF after
<1>7. RunOK(new) BY <1>1, <1>6, CountersAre DEF RunOK
<1> HIDE DEF new
<1>8. DOMAIN scq' = Sides /\ (\A t \in Sides \ {s} : scq'[t] = scq[t]) /\ scq'[s] \in [Ids -> Boxes]
  BY <1>1, <1>5, PolledAre DEF SideOK, Domains
<1>9. DOMAIN at' = Sides /\ (\A t \in Sides \ {s} : at'[t] = at[t]) /\ at'[s] \in {"bws", "bws_credit"}
  BY <1>1, <1>5 DEF Domains
<1>10. PlaceOK(s)' BY <1>1, <1>9, PlaceTells, LoopStays DEF PlaceOK, PlacesOf, Elsewhere, Crediting
<1>11. UNCHANGED <<rq, rcq, mine, word>> BY DEF BwServerCredit
<1> HIDE DEF q
<1> QED BY <1>2, <1>4, <1>5, <1>7, <1>8, <1>9, <1>10, <1>11, CreditKept DEF q

LEMMA InfiniteCreditKept ==
  ASSUME LoopInv, NEW s \in Sides, opt' = opt, InfiniteCredit(s) PROVE LoopInv'
<1> DEFINE q == run[s].index
           full == run[s].ccnt[q] = opt.tx_depth
           after == IF full THEN Plus(run[s].ccnt, WordsPolled(s), -1)
                    ELSE [run[s].ccnt EXCEPT ![q] = @ + 1]
           credit == IF full THEN run[s].scredit ELSE [run[s].scredit EXCEPT ![q] = 0]
           new == [run[s] EXCEPT !.ccnt = after, !.scredit = credit]
<1>1. SideOK(s) /\ PlaceOK(s) /\ Domains /\ RunOK(run[s]) /\ at[s] = "infs_credit" BY SideIs DEF InfiniteCredit
<1>2. Loop = "infinite" BY <1>1, PlaceTells DEF PlacesOf
<1>3. q \in Qps /\ q \in Ids BY <1>2, SideIs, IdsAre
<1>4. run' = [run EXCEPT ![s] = new]
  <2>1. CASE full
    <3>1. run' = [run EXCEPT ![s].ccnt = after] BY <2>1 DEF InfiniteCredit
    <3>2. credit = run[s].scredit BY <2>1
    <3> HIDE DEF after, credit
    <3>3. new = [run[s] EXCEPT !.ccnt = after] BY <1>1, <3>2, CountersAre DEF RunOK
    <3> QED BY <1>1, <3>1, <3>3 DEF Domains
  <2>2. CASE ~full
    <3>1. run' = [run EXCEPT ![s].ccnt[q] = @ + 1, ![s].scredit[q] = 0] BY <2>2 DEF InfiniteCredit
    <3>2. after = [run[s].ccnt EXCEPT ![q] = @ + 1] /\ credit = [run[s].scredit EXCEPT ![q] = 0]
      BY <2>2
    <3> HIDE DEF after, credit
    <3>3. new = [run[s] EXCEPT !.ccnt[q] = @ + 1, !.scredit[q] = 0] BY <1>1, <3>2, CountersAre DEF RunOK
    <3> QED BY <1>1, <3>1, <3>3 DEF Domains
  <2> QED BY <2>1, <2>2
<1>5. \/ sq' = sq /\ scq' = [scq EXCEPT ![s] = NoCompletions] /\ at' = at
      \/ sq' = [sq EXCEPT ![s][q] = Append(@, CreditWr)] /\ scq' = scq /\ at' = [at EXCEPT ![s] = "infs"]
  BY DEF InfiniteCredit, GoTo
<1>6. after \in [Ids -> Int] /\ credit \in [Ids -> Int]
  <2>1. run[s].ccnt \in [Ids -> Int] /\ run[s].scredit \in [Ids -> Int] /\ -1 \in Int BY <1>1 DEF RunOK
  <2>2. Plus(run[s].ccnt, WordsPolled(s), -1) \in [Ids -> Int] BY <2>1, PolledAre, PlusIs
  <2> QED BY <1>3, <2>1, <2>2
<1> HIDE DEF after, credit
<1>7. RunOK(new) BY <1>1, <1>6, CountersAre DEF RunOK
<1> HIDE DEF new
<1>8. DOMAIN scq' = Sides /\ (\A t \in Sides \ {s} : scq'[t] = scq[t]) /\ scq'[s] \in [Ids -> Boxes]
  BY <1>1, <1>5, PolledAre DEF SideOK, Domains
<1>9. DOMAIN at' = Sides /\ (\A t \in Sides \ {s} : at'[t] = at[t]) /\ at'[s] \in {"infs", "infs_credit"}
  BY <1>1, <1>5 DEF Domains
<1>10. PlaceOK(s)' BY <1>1, <1>9, PlaceTells, LoopStays DEF PlaceOK, PlacesOf, Elsewhere, Crediting
<1>11. UNCHANGED <<rq, rcq, mine, word>> BY DEF InfiniteCredit
<1> HIDE DEF q
<1> QED BY <1>2, <1>4, <1>5, <1>7, <1>8, <1>9, <1>10, <1>11, CreditKept DEF q

LEMMA BiCreditKept ==
  ASSUME LoopInv, NEW s \in Sides, opt' = opt, BiCredit(s) PROVE LoopInv'
<1> DEFINE q == run[s].index
<1>1. SideOK(s) /\ PlaceOK(s) /\ Domains /\ RunOK(run[s]) /\ at[s] = "bi_credit" /\ opt.cq_mod \in Nat
  BY SideIs DEF BiCredit, OptOK, Parameters
<1>2. Loop = "bi" BY <1>1, PlaceTells
<1>3. q \in Qps /\ q \in Ids /\ 0 \in Qps BY <1>2, SideIs, IdsAre
<1>4. UNCHANGED <<rq, rcq, mine, word>> BY DEF BiCredit
<1>5. CASE BiInFlight(s, q) >= opt.tx_depth
  <2>1. sq' = sq /\ at' = at BY <1>5 DEF BiCredit
  <2>2. PlaceOK(s)' /\ at'[s] \notin {"idle", "ready"} BY <1>1, <2>1, LoopStays DEF PlaceOK
  <2>3. PICK p \in Qps :
          \/ /\ scq[s][p].word > 0
             /\ scq' = [scq EXCEPT ![s][p].word = @ - 1]
             /\ run' = [run EXCEPT ![s].scredit[p] = @ - 1]
          \/ /\ scq[s][p].data > 0
             /\ scq' = [scq EXCEPT ![s][p].data = @ - 1]
             /\ run' = [run EXCEPT ![s].ccnt[p] = @ + opt.cq_mod, ![s].totccnt = @ + opt.cq_mod]
    BY <1>5 DEF BiCredit
  <2>4. p \in Ids /\ scq[s] \in [Ids -> Boxes] /\ DOMAIN scq = Sides
    BY <1>1, SideIs, IdsAre DEF SideOK, Domains
  <2>5. scq[s][p] \in Boxes BY <2>4
  <2>6. DOMAIN scq' = Sides /\ (\A t \in Sides \ {s} : scq'[t] = scq[t]) /\ scq'[s] \in [Ids -> Boxes]
    <3> DEFINE b == IF scq[s][p].word > 0 /\ scq' = [scq EXCEPT ![s][p].word = @ - 1]
                    THEN [scq[s][p] EXCEPT !.word = @ - 1] ELSE [scq[s][p] EXCEPT !.data = @ - 1]
    <3>1. b \in Boxes BY <2>3, <2>5 DEF Boxes
    <3>2. scq' = [scq EXCEPT ![s][p] = b]
      <4>1. CASE scq[s][p].word > 0 /\ scq' = [scq EXCEPT ![s][p].word = @ - 1] BY <2>4, <4>1
      <4>2. CASE ~(scq[s][p].word > 0 /\ scq' = [scq EXCEPT ![s][p].word = @ - 1])
        <5>1. scq' = [scq EXCEPT ![s][p].data = @ - 1] BY <2>3, <4>2
        <5>2. b = [scq[s][p] EXCEPT !.data = @ - 1] BY <4>2
        <5> QED BY <2>4, <5>1, <5>2
      <4> QED BY <4>1, <4>2
    <3> HIDE DEF b
    <3> QED BY <2>4, <3>1, <3>2
  <2>7. PICK r : RunOK(r) /\ run' = [run EXCEPT ![s] = r]
    <3>1. CASE run' = [run EXCEPT ![s].scredit[p] = @ - 1]
      <4> DEFINE r == [run[s] EXCEPT !.scredit[p] = @ - 1]
      <4>1. RunOK(r) BY <1>1, <2>4, CountersAre DEF RunOK
      <4>2. run' = [run EXCEPT ![s] = r] BY <1>1, <3>1 DEF Domains
      <4> QED BY <4>1, <4>2
    <3>2. CASE run' = [run EXCEPT ![s].ccnt[p] = @ + opt.cq_mod, ![s].totccnt = @ + opt.cq_mod]
      <4> DEFINE r == [run[s] EXCEPT !.ccnt[p] = @ + opt.cq_mod, !.totccnt = @ + opt.cq_mod]
      <4>1. RunOK(r) BY <1>1, <2>4, CountersAre DEF RunOK
      <4>2. run' = [run EXCEPT ![s] = r] BY <1>1, <3>2 DEF Domains
      <4> QED BY <4>1, <4>2
    <3> QED BY <2>3, <3>1, <3>2
  <2> QED BY <1>1, <1>2, <1>4, <2>1, <2>2, <2>6, <2>7, CreditKept DEF Domains
<1>6. CASE ~(BiInFlight(s, q) >= opt.tx_depth)
  <2> DEFINE r == [run[s] EXCEPT !.scredit[q] = @ + 1, !.index = 0]
  <2>1. /\ sq' = [sq EXCEPT ![s][q] = Append(@, CreditWr)] /\ scq' = scq
        /\ at' = [at EXCEPT ![s] = "bi_batch"]
        /\ run' = [run EXCEPT ![s].scredit[q] = @ + 1, ![s].index = 0]
    BY <1>6 DEF BiCredit, GoTo
  <2>2. RunOK(r) BY <1>1, <1>3, CountersAre DEF RunOK
  <2>3. run' = [run EXCEPT ![s] = r] BY <1>1, <2>1 DEF Domains
  <2> HIDE DEF r
  <2>4. DOMAIN at' = Sides /\ (\A t \in Sides \ {s} : at'[t] = at[t]) /\ at'[s] = "bi_batch"
    BY <1>1, <2>1 DEF Domains
  <2>5. PlaceOK(s)' BY <1>2, <2>4, LoopStays DEF PlaceOK, PlacesOf, Elsewhere, Crediting
  <2>6. DOMAIN scq' = Sides /\ (\A t \in Sides \ {s} : scq'[t] = scq[t]) /\ scq'[s] \in [Ids -> Boxes]
    BY <1>1, <2>1 DEF SideOK, Domains
  <2> QED BY <1>2, <1>4, <2>1, <2>2, <2>3, <2>4, <2>5, <2>6, CreditKept
<1> QED BY <1>5, <1>6

(***************************************************************************)
(* Steps that move a side and nothing else.                                *)
(***************************************************************************)
LEMMA MovesKept ==
  ASSUME LoopInv, NEW s \in Sides, opt' = opt, NEW p,
         at' = [at EXCEPT ![s] = p], p \notin {"idle", "ready"}, p \notin Crediting,
         p \in Elsewhere \cup PlacesOf[Loop],
         s = "server" => /\ p \in {"bw_post", "bw_poll"} => opt.duplex
                         /\ p \notin {"inf_post", "inf_poll", "lat", "lat_poll", "burst", "burst_poll"},
         UNCHANGED <<sq, rq, rcq, scq, mine, word, run>>
  PROVE  LoopInv'
<1>1. SideOK(s) /\ Domains BY SideIs
<1>2. DOMAIN at' = Sides /\ (\A t \in Sides \ {s} : at'[t] = at[t]) /\ at'[s] = p BY <1>1 DEF Domains
<1>3. SendsOK(s)' BY <1>2, SendsStay
<1>4. PlaceOK(s)' BY <1>2, LoopStays DEF PlaceOK
<1>5. Alone(s) BY <1>1, <1>2 DEF Alone, Domains
<1>6. SideOK(s)' BY <1>1, <1>3, <1>4, LoopStays DEF SideOK, RunOK
<1> QED BY <1>5, <1>6, AloneKept

LEMMA BwServerEndKept == ASSUME LoopInv, NEW s \in Sides, opt' = opt, BwServerEnd(s) PROVE LoopInv'
<1>1. PlaceOK(s) BY SideIs
<1>2. Loop = "bw" BY <1>1, PlaceTells DEF BwServerEnd
<1> QED BY <1>2, MovesKept DEF BwServerEnd, GoTo, PlacesOf, Crediting

LEMMA CheckAliveKept == ASSUME LoopInv, NEW s \in Sides, opt' = opt, CheckAlive(s) PROVE LoopInv'
  BY MovesKept DEF CheckAlive, GoTo, Elsewhere, Crediting

LEMMA SendErrorKept == ASSUME LoopInv, NEW s \in Sides, opt' = opt, SendError(s) PROVE LoopInv'
  BY MovesKept DEF SendError, Elsewhere, Crediting

\* Nothing but timers and mates moves.
LEMMA LoopStill ==
  ASSUME LoopInv, opt' = opt, UNCHANGED <<sq, rq, rcq, scq, mine, word, run, at>> PROVE LoopInv'
<1> PICK s \in Sides : TRUE BY DEF Sides
<1>1. SideOK(s) BY SideIs
<1>2. SideOK(s)' BY <1>1, LoopStays DEF SideOK, SendsOK, RunOK, PlaceOK
<1>3. Alone(s) BY SideIs DEF Alone, Domains
<1> QED BY <1>2, <1>3, AloneKept

LEMMA AlarmKept == ASSUME LoopInv, NEW s \in Sides, opt' = opt, Alarm(s) PROVE LoopInv'
  BY LoopStill DEF Alarm

\* The bandwidth loops.
LEMMA BwStepKept == ASSUME LoopInv, NEW s \in Sides, opt' = opt, BwStep(s) PROVE LoopInv'
  BY BwPostKept, BwPollKept, BwServerReceiveKept, BwServerCreditKept, BwServerEndKept, CleanCreditKept,
     InfinitePostKept, InfinitePollKept, InfiniteReceiveKept, InfiniteCreditKept, BiPostKept,
     BiReceiveKept, BiCreditKept, BiPollKept DEF BwStep

(***************************************************************************)
(* The latency loops.                                                      *)
(***************************************************************************)
\* A step of a latency loop: what it posts, takes and counts, and where it goes.
LEMMA LatKept ==
  ASSUME LoopInv, NEW s \in Sides, opt' = opt, word' = word,
         NEW k \in Nat, NEW w \in [1..k -> Requests], sq' \in {sq, [sq EXCEPT ![s][0] = @ \o w]},
         NEW r, RunOK(r), run' \in {run, [run EXCEPT ![s] = r]},
         NEW f \in [Ids -> Nat], rq' \in {rq, [rq EXCEPT ![s] = f]},
         NEW g \in [Ids -> Nat], rcq' \in {rcq, [rcq EXCEPT ![s] = g]},
         NEW b \in [Ids -> Boxes], scq' \in {scq, [scq EXCEPT ![s] = b]},
         NEW m \in [Ids -> Nat], mine' \in {mine, [mine EXCEPT ![s] = m]},
         NEW p \in PlacesOf[Loop] \cup {"done"}, (at[s] = p /\ at' = at) \/ at' = [at EXCEPT ![s] = p],
         p \notin {"idle", "ready"} \cup Crediting,
         s = "server" => p \notin {"bw_post", "bw_poll", "inf_post", "inf_poll", "lat", "lat_poll",
                                   "burst", "burst_poll"}
  PROVE  LoopInv'
<1>1. SideOK(s) /\ Domains /\ 0 \in Qps BY SideIs, IdsAre
<1>2. DOMAIN run' = Sides /\ RunOK(run'[s]) /\ \A t \in Sides \ {s} : run'[t] = run[t]
  <2>1. RunOK(run[s]) BY SideIs
  <2> QED BY <1>1, <2>1 DEF Domains
<1>3. RunOK(run[s])' BY <1>2, LoopStays DEF RunOK
<1>4. DOMAIN at' = Sides /\ at'[s] = p /\ \A t \in Sides \ {s} : at'[t] = at[t] BY <1>1 DEF Domains
<1>5. p \notin {"idle", "ready"} OBVIOUS
<1>6. PlaceOK(s)' BY <1>4, LoopStays DEF PlaceOK, Elsewhere
<1>7. SendsOK(s)' /\ DOMAIN sq' = Sides /\ \A t \in Sides \ {s} : sq'[t] = sq[t]
  <2>1. CASE sq' = sq BY <1>1, <1>4, <1>5, <2>1, SendsStay DEF Domains
  <2>2. CASE sq' = [sq EXCEPT ![s][0] = @ \o w] BY <1>1, <1>4, <1>5, <2>2, Behind
  <2> QED BY <2>1, <2>2
<1>8. /\ DOMAIN rq' = Sides /\ rq'[s] \in [Ids -> Nat] /\ \A t \in Sides \ {s} : rq'[t] = rq[t]
      /\ DOMAIN rcq' = Sides /\ rcq'[s] \in [Ids -> Nat] /\ \A t \in Sides \ {s} : rcq'[t] = rcq[t]
      /\ DOMAIN scq' = Sides /\ scq'[s] \in [Ids -> Boxes] /\ \A t \in Sides \ {s} : scq'[t] = scq[t]
      /\ DOMAIN mine' = Sides /\ mine'[s] \in [Ids -> Nat] /\ \A t \in Sides \ {s} : mine'[t] = mine[t]
  BY <1>1 DEF Domains, SideOK
<1>9. Alone(s) BY <1>1, <1>2, <1>4, <1>7, <1>8 DEF Alone, Domains
<1>10. SideOK(s)' BY <1>1, <1>3, <1>6, <1>7, <1>8 DEF SideOK
<1> QED BY <1>9, <1>10, AloneKept

\* The parts that a step leaves alone, as LatKept asks for them.
LEMMA Same ==
  ASSUME LoopInv, NEW s \in Sides
  PROVE  /\ rq[s] \in [Ids -> Nat]
         /\ rcq[s] \in [Ids -> Nat]
         /\ scq[s] \in [Ids -> Boxes]
         /\ mine[s] \in [Ids -> Nat]
         /\ RunOK(run[s])
         /\ DOMAIN rq = Sides /\ DOMAIN rcq = Sides /\ DOMAIN scq = Sides /\ DOMAIN mine = Sides
         /\ DOMAIN run = Sides /\ DOMAIN sq = Sides /\ 0 \in Ids /\ Iters \in Int
         /\ [j \in 1..0 |-> CreditWr] \in [1..0 -> Requests]
<1>1. SideOK(s) /\ Domains /\ OptOK BY SideIs
<1>2. Iters \in Int BY <1>1 DEF OptOK, Parameters, Iters
<1>3. [j \in 1..0 |-> CreditWr] \in [1..0 -> Requests] BY DEF CreditWr, Requests
<1> QED BY <1>1, <1>2, <1>3, IdsAre DEF SideOK, Domains

\* One request posted.
LEMMA OneRequest ==
  ASSUME NEW s \in Sides, NEW wr \in Requests, LoopInv
  PROVE  [j \in 1..1 |-> wr] \in [1..1 -> Requests] /\ 1 \in Nat
         /\ Append0(s, 1, wr) = [sq EXCEPT ![s][0] = @ \o [j \in 1..1 |-> wr]]
  BY DEF Append0

LEMMA TakeDataIs ==
  ASSUME LoopInv, NEW s \in Sides, NEW k \in Nat, k <= scq[s][0].data
  PROVE  \E b \in [Ids -> Boxes] : TakeData(s, k) = [scq EXCEPT ![s] = b]
<1> DEFINE b == [scq[s] EXCEPT ![0].data = @ - k]
<1>1. scq[s] \in [Ids -> Boxes] /\ DOMAIN scq = Sides /\ 0 \in Ids BY Same
<1>2. b \in [Ids -> Boxes] BY <1>1 DEF Boxes
<1>3. TakeData(s, k) = [scq EXCEPT ![s] = b] BY <1>1 DEF TakeData
<1> QED BY <1>2, <1>3

LEMMA LatWriteRoundKept == ASSUME LoopInv, NEW s \in Sides, opt' = opt, LatWriteRound(s) PROVE LoopInv'
<1> DEFINE waits == Waits(s, "server")
           sends == Turn(s) < Iters \/ InDuration
           byte == (Turn(s) + 1) % CharRange
           a == IF waits THEN 1 ELSE 0
           c == IF sends THEN 1 ELSE 0
           new == [run[s] EXCEPT !.rcnt[0] = @ + a, !.scnt[0] = @ + c]
           m == [mine[s] EXCEPT ![0] = byte]
           wr == [kind |-> "word", sig |-> TRUE]
           w == [j \in 1..1 |-> wr]
           p == IF Ended(s) THEN "done" ELSE "lat_write_poll"
<1>1. SideOK(s) /\ PlaceOK(s) /\ at[s] = "lat_write" BY SideIs DEF LatWriteRound
<1>2. Loop = "lat_write" BY <1>1, PlaceTells DEF PlacesOf
<1>3. run' = [run EXCEPT ![s].rcnt[0] = @ + a, ![s].scnt[0] = @ + c] BY DEF LatWriteRound
<1>4. a \in Nat /\ c \in Nat OBVIOUS
<1>5. w \in [1..1 -> Requests] /\ 1 \in Nat /\ Append0(s, 1, wr) = [sq EXCEPT ![s][0] = @ \o w]
  <2>1. wr \in Requests BY DEF Requests
  <2> QED BY <2>1, OneRequest
<1>6. sq' \in {sq, [sq EXCEPT ![s][0] = @ \o w]} BY <1>5 DEF LatWriteRound
<1>7. byte \in Nat
  <2>1. Turn(s) \in Nat BY Same DEF Turn, RunOK
  <2> QED BY <2>1, CharAssumption
<1>8. mine' \in {mine, [mine EXCEPT ![s] = m]} /\ m \in [Ids -> Nat] BY <1>7, Same DEF LatWriteRound
<1>9. at' = [at EXCEPT ![s] = p] BY DEF LatWriteRound, GoTo
<1>10. p \in PlacesOf[Loop] \cup {"done"} /\ p \notin {"idle", "ready"} \cup Crediting /\ p \in {"lat_write_poll", "done"}
  BY <1>2 DEF PlacesOf, Crediting
<1>11. UNCHANGED <<rq, rcq, scq, word>> BY DEF LatWriteRound
<1> HIDE DEF a, c, m, p, w
<1>12. run' = [run EXCEPT ![s] = new]
  <2>1. DOMAIN run = Sides BY Same
  <2> QED BY <1>3, <2>1
<1>13. RunOK(new) BY <1>4, Same, CountersAre DEF RunOK
<1> HIDE DEF new
<1> QED BY <1>5, <1>6, <1>8, <1>9, <1>10, <1>11, <1>12, <1>13, Same, LatKept

LEMMA LatWritePollKept == ASSUME LoopInv, NEW s \in Sides, opt' = opt, LatWritePoll(s) PROVE LoopInv'
<1> DEFINE polls == run[s].ccnt[0] < Iters \/ InDuration
           c == run[s].ccnt[0] + (IF polls THEN 1 ELSE 0)
           more == Turn(s) < Iters \/ c < Iters \/ Heard(s) < Iters
                   \/ (InDuration /\ ~Ended(s))
           new == [run[s] EXCEPT !.ccnt[0] = c]
           b == IF polls THEN [scq[s] EXCEPT ![0].word = @ - 1] ELSE scq[s]
           p == IF more THEN "lat_write" ELSE "done"
           w == [j \in 1..0 |-> CreditWr]
<1>1. SideOK(s) /\ PlaceOK(s) /\ at[s] = "lat_write_poll" BY SideIs DEF LatWritePoll
<1>2. Loop = "lat_write" BY <1>1, PlaceTells DEF PlacesOf
<1>3. run' = [run EXCEPT ![s].ccnt[0] = c] BY Zenon DEF LatWritePoll
<1>4. c \in Int BY Same DEF RunOK
<1>5. polls => scq[s][0].word > 0 BY DEF LatWritePoll
<1>6. scq' = IF polls THEN [scq EXCEPT ![s][0].word = @ - 1] ELSE scq BY DEF LatWritePoll
<1>7. at' = [at EXCEPT ![s] = p] BY Zenon DEF LatWritePoll, GoTo
<1>8. p \in PlacesOf[Loop] \cup {"done"} /\ p \notin {"idle", "ready"} \cup Crediting /\ p \in {"lat_write", "done"}
  BY <1>2 DEF PlacesOf, Crediting
<1>9. UNCHANGED <<sq, rq, rcq, mine, word>> BY DEF LatWritePoll
<1> HIDE DEF polls, c, more, p
<1>10. b \in [Ids -> Boxes]
  <2>1. scq[s] \in [Ids -> Boxes] /\ 0 \in Ids BY Same
  <2>2. scq[s][0] \in Boxes BY <2>1
  <2>3. polls => [scq[s][0] EXCEPT !.word = @ - 1] \in Boxes BY <1>5, <2>2 DEF Boxes
  <2> QED BY <2>1, <2>3
<1>11. scq' \in {scq, [scq EXCEPT ![s] = b]} BY <1>6, Same
<1>12. run' = [run EXCEPT ![s] = new]
  <2>1. DOMAIN run = Sides BY Same
  <2> QED BY <1>3, <2>1
<1>13. RunOK(new) BY <1>4, Same, CountersAre DEF RunOK
<1>14. w \in [1..0 -> Requests] /\ 0 \in Nat BY Same
<1> HIDE DEF new, b, w
<1> QED BY <1>7, <1>8, <1>9, <1>10, <1>11, <1>12, <1>13, <1>14, Same, LatKept

LEMMA LatPostKept == ASSUME LoopInv, NEW s \in Sides, opt' = opt, LatPost(s), s = "client" PROVE LoopInv'
<1> DEFINE n == IF InDuration THEN run[s].scnt[0] ELSE run[s].scnt[0] + 1
           new == [run[s] EXCEPT !.scnt[0] = n]
           wr == [kind |-> "rdma", sig |-> TRUE]
           w == [j \in 1..1 |-> wr]
           p == IF Ended(s) THEN "done" ELSE "lat_poll"
<1>1. SideOK(s) /\ PlaceOK(s) /\ at[s] = "lat" BY SideIs DEF LatPost
<1>2. Loop = "lat" BY <1>1, PlaceTells DEF PlacesOf
<1>3. run' = [run EXCEPT ![s].scnt[0] = n] BY DEF LatPost
<1>4. n \in Nat BY Same DEF RunOK
<1>5. w \in [1..1 -> Requests] /\ 1 \in Nat /\ Append0(s, 1, wr) = [sq EXCEPT ![s][0] = @ \o w]
  <2>1. wr \in Requests BY DEF Requests
  <2> QED BY <2>1, OneRequest
<1>6. sq' \in {sq, [sq EXCEPT ![s][0] = @ \o w]} BY <1>5 DEF LatPost
<1>7. at' = [at EXCEPT ![s] = p] BY DEF LatPost, GoTo
<1>8. p \in PlacesOf[Loop] \cup {"done"} /\ p \notin {"idle", "ready"} \cup Crediting
  BY <1>2 DEF PlacesOf, Crediting
<1>9. UNCHANGED <<rq, rcq, scq, mine, word>> BY DEF LatPost
<1> HIDE DEF n, p, w
<1>10. run' = [run EXCEPT ![s] = new]
  <2>1. DOMAIN run = Sides BY Same
  <2> QED BY <1>3, <2>1
<1>11. RunOK(new) BY <1>4, Same, CountersAre DEF RunOK
<1> HIDE DEF new
<1> QED BY <1>5, <1>6, <1>7, <1>8, <1>9, <1>10, <1>11, Same, LatKept

\* A completed message is taken, and the side goes on.
LEMMA TakenKept ==
  ASSUME LoopInv, NEW s \in Sides, opt' = opt, scq[s][0].data > 0, scq' = TakeData(s, 1),
         NEW p \in PlacesOf[Loop] \cup {"done"}, at' = [at EXCEPT ![s] = p],
         p \notin {"idle", "ready"} \cup Crediting,
         s = "server" => p \notin {"bw_post", "bw_poll", "inf_post", "inf_poll", "lat", "lat_poll",
                                   "burst", "burst_poll"},
         UNCHANGED <<sq, rq, rcq, mine, word, run>>
  PROVE  LoopInv'
<1>1. scq[s][0].data \in Nat BY Same DEF Boxes
<1>2. PICK b \in [Ids -> Boxes] : scq' = [scq EXCEPT ![s] = b] BY <1>1, TakeDataIs
<1> DEFINE w == [j \in 1..0 |-> CreditWr]
<1>3. w \in [1..0 -> Requests] /\ 0 \in Nat BY Same
<1> HIDE DEF w
<1> QED BY <1>2, <1>3, Same, LatKept

LEMMA LatPollKept == ASSUME LoopInv, NEW s \in Sides, opt' = opt, LatPoll(s), s = "client" PROVE LoopInv'
<1>1. PlaceOK(s) /\ at[s] = "lat_poll" BY SideIs DEF LatPoll
<1>2. Loop = "lat" BY <1>1, PlaceTells DEF PlacesOf
<1> DEFINE p == IF Turn(s) < Iters \/ InDuration THEN "lat" ELSE "done"
<1>3. at' = [at EXCEPT ![s] = p] BY DEF LatPoll, GoTo
<1>4. p \in PlacesOf[Loop] \cup {"done"} /\ p \notin {"idle", "ready"} \cup Crediting
  BY <1>2 DEF PlacesOf, Crediting
<1> HIDE DEF p
<1> QED BY <1>3, <1>4, TakenKept DEF LatPoll

LEMMA LatSendPollKept == ASSUME LoopInv, NEW s \in Sides, opt' = opt, LatSendPoll(s) PROVE LoopInv'
<1>1. PlaceOK(s) /\ at[s] = "lat_send_poll" BY SideIs DEF LatSendPoll
<1>2. Loop = "lat_send" BY <1>1, PlaceTells DEF PlacesOf
<1> DEFINE p == IF LatSendMore(s) THEN "lat_send" ELSE "done"
<1>3. at' = [at EXCEPT ![s] = p] BY DEF LatSendPoll, GoTo
<1>4. p \in PlacesOf[Loop] \cup {"done"} /\ p \notin {"idle", "ready"} \cup Crediting /\ p \in {"lat_send", "done"}
  BY <1>2 DEF PlacesOf, Crediting
<1> HIDE DEF p
<1> QED BY <1>3, <1>4, TakenKept DEF LatSendPoll

LEMMA LatSendReceiveKept ==
  ASSUME LoopInv, NEW s \in Sides, opt' = opt, LatSendReceive(s) PROVE LoopInv'
<1> DEFINE waits == Waits(s, "client")
           over == waits /\ Ended(s)
           polled == rcq[s][0] > 0
           counts == waits /\ ~over
           again == counts /\ (InDuration \/ Heard(s) + 1 + opt.rx_depth <= Iters)
           a == IF waits /\ polled THEN 1 ELSE 0
           c == IF again THEN 1 ELSE 0
           d == IF counts THEN 1 ELSE 0
           f == [rq[s] EXCEPT ![0] = @ + c]
           g == [rcq[s] EXCEPT ![0] = @ - a]
           new == [run[s] EXCEPT !.rcnt[0] = @ + d]
           w == [j \in 1..0 |-> CreditWr]
<1>1. SideOK(s) /\ PlaceOK(s) /\ at[s] = "lat_send" BY SideIs DEF LatSendReceive
<1>2. Loop = "lat_send" BY <1>1, PlaceTells DEF PlacesOf
<1>3. /\ rcq' = [rcq EXCEPT ![s][0] = @ - a]
      /\ rq' = [rq EXCEPT ![s][0] = @ + c]
      /\ run' = [run EXCEPT ![s].rcnt[0] = @ + d]
  BY DEF LatSendReceive
<1>4. a \in {0, 1} /\ (a = 1 => rcq[s][0] > 0) /\ c \in Nat /\ d \in Nat OBVIOUS
<1>5. at' = [at EXCEPT ![s] = "lat_send_post"] /\ UNCHANGED <<sq, scq, mine, word>>
  BY DEF LatSendReceive, GoTo
<1>6. w \in [1..0 -> Requests] /\ 0 \in Nat BY Same
<1>7. /\ rq[s] \in [Ids -> Nat] /\ rcq[s] \in [Ids -> Nat] /\ 0 \in Ids
      /\ DOMAIN rq = Sides /\ DOMAIN rcq = Sides /\ DOMAIN run = Sides
  BY Same
<1> HIDE DEF a, c, d, w
<1>8. f \in [Ids -> Nat] /\ rq' = [rq EXCEPT ![s] = f] BY <1>3, <1>4, <1>7
<1>9. g \in [Ids -> Nat] /\ rcq' = [rcq EXCEPT ![s] = g] BY <1>3, <1>4, <1>7
<1>10. run' = [run EXCEPT ![s] = new] BY <1>3, <1>7
<1>11. RunOK(new) BY <1>4, Same, CountersAre DEF RunOK
<1>12. "lat_send_post" \in PlacesOf[Loop] /\ "lat_send_post" \notin {"idle", "ready"} \cup Crediting
  BY <1>2 DEF PlacesOf, Crediting
<1> HIDE DEF f, g, new
<1> QED BY <1>5, <1>6, <1>8, <1>9, <1>10, <1>11, <1>12, Same, LatKept

LEMMA LatSendPostKept == ASSUME LoopInv, NEW s \in Sides, opt' = opt, LatSendPost(s) PROVE LoopInv'
<1> DEFINE sends == Turn(s) < Iters \/ (InDuration /\ ~Ended(s))
           n == Turn(s) + 1
           poll == n % opt.cq_mod = 0 \/ (~InDuration /\ n = Iters)
           wr == [kind |-> "send", sig |-> poll]
           w == [j \in 1..1 |-> wr]
           new == [run[s] EXCEPT !.scnt[0] = n]
           p == IF sends THEN IF poll THEN "lat_send_poll" ELSE "lat_send"
                ELSE IF LatSendMore(s) THEN "lat_send" ELSE "done"
<1>1. SideOK(s) /\ PlaceOK(s) /\ at[s] = "lat_send_post" BY SideIs DEF LatSendPost
<1>2. Loop = "lat_send" BY <1>1, PlaceTells DEF PlacesOf
<1>3. n \in Nat BY Same DEF RunOK, Turn
<1>4. w \in [1..1 -> Requests] /\ 1 \in Nat /\ Append0(s, 1, wr) = [sq EXCEPT ![s][0] = @ \o w]
  <2>1. wr \in Requests BY DEF Requests
  <2> QED BY <2>1, OneRequest
<1>5. run' \in {run, [run EXCEPT ![s].scnt[0] = n]} BY DEF LatSendPost
<1>6. sq' \in {sq, [sq EXCEPT ![s][0] = @ \o w]} BY <1>4 DEF LatSendPost
<1>7. at' = [at EXCEPT ![s] = p] BY Zenon DEF LatSendPost, GoTo
<1>8. p \in PlacesOf[Loop] \cup {"done"} /\ p \notin {"idle", "ready"} \cup Crediting
      /\ p \in {"lat_send_poll", "lat_send", "done"}
  BY <1>2 DEF PlacesOf, Crediting
<1>9. UNCHANGED <<rq, rcq, scq, mine, word>> BY DEF LatSendPost
<1> HIDE DEF n, p, w
<1>10. run' \in {run, [run EXCEPT ![s] = new]}
  <2>1. DOMAIN run = Sides BY Same
  <2> QED BY <1>5, <2>1
<1>11. RunOK(new) BY <1>3, Same, CountersAre DEF RunOK
<1> HIDE DEF new
<1> QED BY <1>4, <1>6, <1>7, <1>8, <1>9, <1>10, <1>11, Same, LatKept

(***************************************************************************)
(* The bursts.                                                             *)
(***************************************************************************)
LEMMA MinIs ==
  ASSUME NEW a \in Int, NEW b \in Int PROVE Min({a, b}) \in {a, b} /\ Min({a, b}) <= a /\ Min({a, b}) <= b
<1> DEFINE S == {a, b}
           P(x) == x \in S /\ \A y \in S : x <= y
<1>1. \E x : P(x)
  <2>1. CASE a <= b BY <2>1
  <2>2. CASE ~(a <= b) BY <2>2
  <2> QED BY <2>1, <2>2
<1>2. P(CHOOSE x : P(x)) BY <1>1, Zenon
<1>3. Min(S) = CHOOSE x : P(x)
  <2>1. Min(S) = CHOOSE x \in S : \A y \in S : x <= y BY DEF Min
  <2> QED BY <2>1, Zenon
<1> QED BY <1>2, <1>3

\* Subtraction of counters.
LEMMA MinusIs == ASSUME NEW a \in Int, NEW b \in Int PROVE Minus(a, b) \in Nat /\ Minus(a, b) < Wrap
  BY WrapAssumption DEF Minus

LEMMA SomeOf ==
  ASSUME NEW n \in Nat, NEW S \in SUBSET (1..n) PROVE Cardinality(S) \in Nat
<1>1. IsFiniteSet(1..n) BY FS_Interval
<1>2. IsFiniteSet(S) BY <1>1, FS_Subset
<1> QED BY <1>2, FS_CardinalityType

LEMMA ListsAre ==
  ASSUME LoopInv, NEW s \in Sides, NEW k \in Nat
  PROVE  \E n \in Nat : \E w \in [1..n -> Requests] : PostLists(s, k) = [sq EXCEPT ![s][0] = @ \o w]
<1> DEFINE n == k * opt.post_list
           w == [j \in 1..n |-> [kind |-> "send", sig |-> ListFlag(1 + ((j - 1) % opt.post_list))]]
<1>1. opt.post_list \in Nat BY SideIs DEF OptOK, Parameters, Sides
<1>2. n \in Nat BY <1>1
<1>3. \A x : ListFlag(x) \in BOOLEAN BY DEF ListFlag
<1>4. w \in [1..n -> Requests] BY <1>3 DEF Requests
<1>5. PostLists(s, k) = [sq EXCEPT ![s][0] = @ \o w] BY DEF PostLists
<1> QED BY <1>2, <1>4, <1>5

LEMMA BurstServeKept == ASSUME LoopInv, NEW s \in Sides, opt' = opt, BurstServe(s) PROVE LoopInv'
<1> DEFINE n == Min({opt.burst_size, rcq[s][0]})
           answered == {k \in 1..n : (Heard(s) + k) % opt.reply_every = 0}
           due == Cardinality(answered)
           minus == Minus(opt.tx_depth + run[s].ccnt[0], Turn(s))
           replies == Min({due, minus})
           f == [rq[s] EXCEPT ![0] = @ + n]
           g == [rcq[s] EXCEPT ![0] = @ - n]
           new == [run[s] EXCEPT !.rcnt[0] = @ + n, !.scnt[0] = @ + replies]
<1>1. SideOK(s) /\ PlaceOK(s) /\ at[s] = "burst_serve" BY SideIs DEF BurstServe
<1>2. Loop = "burst" BY <1>1, PlaceTells DEF PlacesOf
<1>3. /\ rq[s] \in [Ids -> Nat] /\ rcq[s] \in [Ids -> Nat] /\ 0 \in Ids
      /\ DOMAIN rq = Sides /\ DOMAIN rcq = Sides /\ DOMAIN run = Sides
      /\ opt.burst_size \in Nat /\ opt.tx_depth \in Nat
      /\ Turn(s) \in Nat /\ run[s].ccnt[0] \in Int
  BY Same, SideIs DEF OptOK, Parameters, Turn, RunOK
<1>4. n \in Nat /\ n <= rcq[s][0]
  <2>1. opt.burst_size \in Int /\ rcq[s][0] \in Int /\ rcq[s][0] \in Nat BY <1>3
  <2>2. n \in {opt.burst_size, rcq[s][0]} /\ n <= rcq[s][0] BY <2>1, MinIs
  <2> QED BY <1>3, <2>1, <2>2
<1>5. /\ rcq' = [rcq EXCEPT ![s][0] = @ - n]
      /\ rq' = [rq EXCEPT ![s][0] = @ + n]
      /\ run' = [run EXCEPT ![s].rcnt[0] = @ + n, ![s].scnt[0] = @ + replies]
      /\ sq' = PostLists(s, replies)
  BY DEF BurstServe
<1>6. at' = [at EXCEPT ![s] = "burst_serve_poll"] /\ UNCHANGED <<scq, mine, word>>
  BY DEF BurstServe, GoTo
<1> HIDE DEF n
<1>7. due \in Nat
  <2>1. answered \in SUBSET (1..n) OBVIOUS
  <2> HIDE DEF answered
  <2> QED BY <1>4, <2>1, SomeOf
<1>8. minus \in Nat
  <2>1. opt.tx_depth + run[s].ccnt[0] \in Int /\ Turn(s) \in Int BY <1>3
  <2> QED BY <2>1, MinusIs
<1> HIDE DEF due, minus
<1>9. replies \in Nat
  <2>1. due \in Int /\ minus \in Int BY <1>7, <1>8
  <2>2. replies \in {due, minus} BY <2>1, MinIs
  <2> QED BY <1>7, <1>8, <2>2
<1> HIDE DEF replies
<1>10. PICK k \in Nat : \E w \in [1..k -> Requests] : sq' = [sq EXCEPT ![s][0] = @ \o w]
  BY <1>5, <1>9, ListsAre
<1>11. PICK w \in [1..k -> Requests] : sq' = [sq EXCEPT ![s][0] = @ \o w] BY <1>10
<1>12. f \in [Ids -> Nat] /\ rq' = [rq EXCEPT ![s] = f] BY <1>3, <1>4, <1>5
<1>13. g \in [Ids -> Nat] /\ rcq' = [rcq EXCEPT ![s] = g] BY <1>3, <1>4, <1>5
<1>14. run' = [run EXCEPT ![s] = new] BY <1>3, <1>5
<1>15. RunOK(new)
  <2> DEFINE heard == [run[s].rcnt EXCEPT ![0] = @ + n]
             turn == [run[s].scnt EXCEPT ![0] = @ + replies]
  <2>1. RunOK(run[s]) /\ run[s].rcnt \in [Ids -> Nat] /\ run[s].scnt \in [Ids -> Nat] BY Same DEF RunOK
  <2>2. n \in Nat /\ 0 \in Ids BY <1>3, <1>4
  <2>3. heard \in [Ids -> Nat] BY <2>1, <2>2
  <2>4. turn \in [Ids -> Nat] BY <1>9, <2>1, <2>2
  <2>5. new = [run[s] EXCEPT !.rcnt = heard, !.scnt = turn] OBVIOUS
  <2> HIDE DEF heard, turn, new
  <2> QED BY <2>1, <2>3, <2>4, <2>5, CountersAre DEF RunOK
<1>16. "burst_serve_poll" \in PlacesOf[Loop] /\ "burst_serve_poll" \notin {"idle", "ready"} \cup Crediting
  BY <1>2 DEF PlacesOf, Crediting
<1> HIDE DEF f, g, new
<1> QED BY <1>6, <1>11, <1>12, <1>13, <1>14, <1>15, <1>16, Same, LatKept

LEMMA BurstServePollKept ==
  ASSUME LoopInv, NEW s \in Sides, opt' = opt, BurstServePoll(s) PROVE LoopInv'
<1> DEFINE d == scq[s][0].data
           new == [run[s] EXCEPT !.ccnt[0] = @ + d]
           p == IF Heard(s) < Iters THEN "burst_serve" ELSE "done"
           w == [j \in 1..0 |-> CreditWr]
<1>1. SideOK(s) /\ PlaceOK(s) /\ at[s] = "burst_serve_poll" BY SideIs DEF BurstServePoll
<1>2. Loop = "burst" BY <1>1, PlaceTells DEF PlacesOf
<1>3. scq[s] \in [Ids -> Boxes] /\ 0 \in Ids /\ DOMAIN run = Sides BY Same
<1>4. d \in Nat BY <1>3 DEF Boxes
<1>5. run' = [run EXCEPT ![s].ccnt[0] = @ + d] /\ scq' = TakeData(s, d) BY DEF BurstServePoll
<1>6. at' = [at EXCEPT ![s] = p] /\ UNCHANGED <<sq, rq, rcq, mine, word>> BY DEF BurstServePoll, GoTo
<1>7. p \in PlacesOf[Loop] \cup {"done"} /\ p \notin {"idle", "ready"} \cup Crediting
      /\ p \in {"burst_serve", "done"}
  BY <1>2 DEF PlacesOf, Crediting
<1>8. PICK b \in [Ids -> Boxes] : scq' = [scq EXCEPT ![s] = b]
  <2>1. d <= scq[s][0].data BY <1>4
  <2> QED BY <1>4, <1>5, <2>1, TakeDataIs
<1> HIDE DEF d, p
<1>9. run' = [run EXCEPT ![s] = new] BY <1>3, <1>5
<1>10. RunOK(new) BY <1>4, Same, CountersAre DEF RunOK
<1>11. w \in [1..0 -> Requests] /\ 0 \in Nat BY Same
<1> HIDE DEF new, w
<1> QED BY <1>6, <1>7, <1>8, <1>9, <1>10, <1>11, Same, LatKept

LEMMA BurstPostKept == ASSUME LoopInv, NEW s \in Sides, opt' = opt, BurstPost(s), s = "client" PROVE LoopInv'
<1> DEFINE k == (run[s].index + 1) % opt.burst_size
           new == [run[s] EXCEPT !.scnt[0] = @ + opt.post_list, !.index = k]
<1>1. SideOK(s) /\ PlaceOK(s) /\ at[s] = "burst" BY SideIs DEF BurstPost
<1>2. Loop = "burst" BY <1>1, PlaceTells DEF PlacesOf
<1>3. opt.post_list \in Nat /\ DOMAIN run = Sides BY Same, SideIs DEF OptOK, Parameters
<1>4. \/ sq' = PostLists(s, 1) /\ run' = [run EXCEPT ![s].scnt[0] = @ + opt.post_list, ![s].index = k]
      \/ sq' = sq /\ run' = run
  BY DEF BurstPost
<1>5. at' = [at EXCEPT ![s] = "burst_poll"] \/ at' = at BY DEF BurstPost, GoTo
<1>6. UNCHANGED <<rq, rcq, scq, mine, word>> BY DEF BurstPost
<1>7. PICK n \in Nat : \E w \in [1..n -> Requests] : sq' \in {sq, [sq EXCEPT ![s][0] = @ \o w]}
  <2>1. PICK n \in Nat : \E w \in [1..n -> Requests] : PostLists(s, 1) = [sq EXCEPT ![s][0] = @ \o w]
    BY ListsAre
  <2> QED BY <1>4, <2>1
<1>8. PICK w \in [1..n -> Requests] : sq' \in {sq, [sq EXCEPT ![s][0] = @ \o w]} BY <1>7
<1> HIDE DEF k
<1>9. run' \in {run, [run EXCEPT ![s] = new]} BY <1>3, <1>4
<1>10. RunOK(new)
  <2>1. RunOK(run[s]) /\ 0 \in Ids BY Same
  <2> QED BY <1>2, <1>3, <2>1, CountersAre, SMTT(30) DEF RunOK
<1> HIDE DEF new
<1>11. PICK p \in {"burst", "burst_poll"} : (at[s] = p /\ at' = at) \/ at' = [at EXCEPT ![s] = p]
  BY <1>1, <1>5
<1>12. p \in PlacesOf[Loop] \cup {"done"} /\ p \notin {"idle", "ready"} \cup Crediting
  BY <1>2 DEF PlacesOf, Crediting
<1> QED BY <1>1, <1>6, <1>8, <1>9, <1>10, <1>11, <1>12, Same, LatKept

LEMMA BurstPollKept == ASSUME LoopInv, NEW s \in Sides, opt' = opt, BurstPoll(s), s = "client" PROVE LoopInv'
<1> DEFINE n == rcq[s][0]
           k == Min({opt.burst_size, scq[s][0].data})
           c == run[s].totccnt + opt.cq_mod * k
           more == Heard(s) + n < Turn(s) \div opt.reply_every \/ c < Iters
           new == [run[s] EXCEPT !.rcnt[0] = @ + n, !.totccnt = c]
           f == [rq[s] EXCEPT ![0] = @ + n]
           g == [rcq[s] EXCEPT ![0] = 0]
           p == CASE n > 0 -> "burst_poll" [] n = 0 /\ more -> "burst" [] OTHER -> "done"
           w == [j \in 1..0 |-> CreditWr]
<1>1. SideOK(s) /\ PlaceOK(s) /\ at[s] = "burst_poll" BY SideIs DEF BurstPoll
<1>2. Loop = "burst" BY <1>1, PlaceTells DEF PlacesOf
<1>3. /\ rq[s] \in [Ids -> Nat] /\ rcq[s] \in [Ids -> Nat] /\ 0 \in Ids /\ scq[s] \in [Ids -> Boxes]
      /\ DOMAIN rq = Sides /\ DOMAIN rcq = Sides /\ DOMAIN run = Sides
      /\ opt.burst_size \in Nat
  BY Same, SideIs DEF OptOK, Parameters
<1>4. n \in Nat /\ scq[s][0].data \in Nat BY <1>3 DEF Boxes
<1>5. k \in Nat /\ k <= scq[s][0].data
  <2>1. opt.burst_size \in Int /\ scq[s][0].data \in Int BY <1>3, <1>4
  <2>2. k \in {opt.burst_size, scq[s][0].data} /\ k <= scq[s][0].data BY <2>1, MinIs
  <2> QED BY <1>3, <1>4, <2>2
<1>6. /\ rcq' = [rcq EXCEPT ![s][0] = 0] /\ rq' = [rq EXCEPT ![s][0] = @ + n]
      /\ scq' = TakeData(s, k)
      /\ run' = [run EXCEPT ![s].rcnt[0] = @ + n, ![s].totccnt = c]
  BY DEF BurstPoll
<1>7. at' = [at EXCEPT ![s] = p] /\ UNCHANGED <<sq, mine, word>> BY Zenon DEF BurstPoll, GoTo
<1>8. p \in {"burst_poll", "burst", "done"} OBVIOUS
<1> HIDE DEF n, k, c, p
<1>9. p \in PlacesOf[Loop] \cup {"done"} /\ p \notin {"idle", "ready"} \cup Crediting
  BY <1>2, <1>8 DEF PlacesOf, Crediting
<1>10. PICK b \in [Ids -> Boxes] : scq' = [scq EXCEPT ![s] = b] BY <1>5, <1>6, TakeDataIs
<1>11. f \in [Ids -> Nat] /\ rq' = [rq EXCEPT ![s] = f] BY <1>3, <1>4, <1>6
<1>12. g \in [Ids -> Nat] /\ rcq' = [rcq EXCEPT ![s] = g] BY <1>3, <1>6
<1>13. run' = [run EXCEPT ![s] = new] BY <1>3, <1>6
<1>14. RunOK(new) BY <1>4, Same, CountersAre DEF RunOK
<1>15. w \in [1..0 -> Requests] /\ 0 \in Nat BY Same
<1> HIDE DEF new, w, f, g
<1> QED BY <1>7, <1>9, <1>10, <1>11, <1>12, <1>13, <1>14, <1>15, Same, LatKept

\* The latency loops.
LEMMA LatStepKept == ASSUME LoopInv, NEW s \in Sides, opt' = opt, LatStep(s) PROVE LoopInv'
<1>1. at[s] \in {"lat", "lat_poll", "burst", "burst_poll"} => s = "client"
  BY SideIs DEF PlaceOK, Sides
<1> QED BY <1>1, LatWriteRoundKept, LatWritePollKept, LatPostKept, LatPollKept, LatSendReceiveKept,
     LatSendPostKept, LatSendPollKept, BurstServeKept, BurstServePollKept, BurstPostKept, BurstPollKept
  DEF LatStep, LatPost, LatPoll, BurstPost, BurstPoll

(***************************************************************************)
(* The device, the preparation and the start of a side.                    *)
(***************************************************************************)
LEMMA Two == \A s \in Sides : Peer(s) \in Sides /\ Peer(s) # s /\ Peer(Peer(s)) = s /\ Sides = {s, Peer(s)}
  BY DEF Sides, Peer

\* A request is served: the peer's receives and its word may change too.
LEMMA ServeKept == ASSUME LoopInv, NEW s \in Sides, NEW q \in Ids, opt' = opt, Serve(s, q) PROVE LoopInv'
<1> DEFINE t == Peer(s)
           m == mate[s][q]
           head == Head(sq[s][q])
<1>1. /\ SideOK(s) /\ SideOK(t) /\ Domains /\ t \in Sides /\ t # s /\ Sides = {s, t}
  BY SideIs, Two
<1>2. /\ sq[s][q] # <<>> /\ sq' = [sq EXCEPT ![s][q] = Tail(@)] /\ UNCHANGED <<mine, run, at>>
      /\ \/ rq[t][Pool(m)] > 0 /\ rq' = [rq EXCEPT ![t][Pool(m)] = @ - 1] /\ rcq' = [rcq EXCEPT ![t][m] = @ + 1]
         \/ rq' = rq /\ rcq' = rcq
      /\ word' \in {word, [word EXCEPT ![t][q] = mine[s][q]]}
      /\ scq' \in {scq, [scq EXCEPT ![s][q].word = @ + 1], [scq EXCEPT ![s][q].data = @ + 1]}
  BY DEF Serve
<1> HIDE DEF t, m, head
<1>3. /\ DOMAIN sq' = Sides /\ sq'[t] = sq[t] /\ SendsOK(s)'
  <2>1. sq[s] \in [Ids -> Seq(Requests)] /\ DOMAIN sq = Sides BY <1>1 DEF SideOK, SendsOK, Domains
  <2>2. Tail(sq[s][q]) \in Seq(Requests) BY <1>2, <2>1, HeadTailProperties
  <2>3. sq'[s] = [sq[s] EXCEPT ![q] = Tail(@)] BY <1>2, <2>1
  <2>4. sq'[s] \in [Ids -> Seq(Requests)] BY <2>1, <2>2, <2>3
  <2>5. \A p \in Ids : sq'[s][p] # <<>> => sq[s][p] # <<>> BY <1>2, <2>1, <2>3
  <2> QED BY <1>1, <1>2, <2>1, <2>4, <2>5, LoopStays DEF SideOK, SendsOK
<1>4. /\ DOMAIN rq' = Sides /\ rq'[s] = rq[s] /\ rq'[t] \in [Ids -> Nat]
      /\ DOMAIN rcq' = Sides /\ rcq'[s] = rcq[s] /\ rcq'[t] \in [Ids -> Nat]
  <2>1. rq[t] \in [Ids -> Nat] /\ rcq[t] \in [Ids -> Nat] /\ DOMAIN rq = Sides /\ DOMAIN rcq = Sides
    BY <1>1 DEF SideOK, Domains
  <2>2. CASE rq' = rq /\ rcq' = rcq BY <2>1, <2>2
  <2>3. CASE /\ rq[t][Pool(m)] > 0 /\ rq' = [rq EXCEPT ![t][Pool(m)] = @ - 1]
             /\ rcq' = [rcq EXCEPT ![t][m] = @ + 1]
    <3>1. rq'[t] = [rq[t] EXCEPT ![Pool(m)] = @ - 1] /\ rcq'[t] = [rcq[t] EXCEPT ![m] = @ + 1] BY <1>1, <2>1, <2>3
    <3>2. rq'[t] \in [Ids -> Nat]
      <4>1. CASE Pool(m) \in Ids
        <5>1. rq[t][Pool(m)] \in Nat BY <2>1, <4>1
        <5>2. rq[t][Pool(m)] - 1 \in Nat BY <2>3, <5>1
        <5> QED BY <2>1, <3>1, <5>2
      <4>2. CASE Pool(m) \notin Ids BY <2>1, <3>1, <4>2
      <4> QED BY <4>1, <4>2
    <3>3. rcq'[t] \in [Ids -> Nat]
      <4>1. CASE m \in Ids
        <5>1. rcq[t][m] \in Nat BY <2>1, <4>1
        <5>2. rcq[t][m] + 1 \in Nat BY <5>1
        <5> QED BY <2>1, <3>1, <5>2
      <4>2. CASE m \notin Ids BY <2>1, <3>1, <4>2
      <4> QED BY <4>1, <4>2
    <3> QED BY <1>1, <2>1, <2>3, <3>2, <3>3
  <2> QED BY <1>2, <2>2, <2>3
<1>5. /\ DOMAIN word' = Sides /\ word'[s] = word[s] /\ word'[t] \in [Ids -> Nat]
  <2>1. word[t] \in [Ids -> Nat] /\ mine[s] \in [Ids -> Nat] /\ DOMAIN word = Sides
    BY <1>1 DEF SideOK, Domains
  <2>2. mine[s][q] \in Nat BY <2>1
  <2> QED BY <1>1, <1>2, <2>1, <2>2
<1>6. /\ DOMAIN scq' = Sides /\ scq'[t] = scq[t] /\ scq'[s] \in [Ids -> Boxes]
  <2>1. scq[s] \in [Ids -> Boxes] /\ DOMAIN scq = Sides BY <1>1 DEF SideOK, Domains
  <2>2. scq[s][q] \in Boxes BY <2>1
  <2>3. [scq[s][q] EXCEPT !.word = @ + 1] \in Boxes /\ [scq[s][q] EXCEPT !.data = @ + 1] \in Boxes
    BY <2>2 DEF Boxes
  <2> QED BY <1>1, <1>2, <2>1, <2>3
<1>7. SideOK(s)' BY <1>1, <1>2, <1>3, <1>4, <1>5, <1>6, LoopStays DEF SideOK, RunOK, PlaceOK
<1>8. SideOK(t)' BY <1>1, <1>2, <1>3, <1>4, <1>5, <1>6, LoopStays DEF SideOK, SendsOK, RunOK, PlaceOK
<1>9. Domains' /\ OptOK' BY <1>1, <1>2, <1>3, <1>4, <1>5, <1>6, LoopStays DEF Domains, LoopInv
<1> QED BY <1>1, <1>7, <1>8, <1>9 DEF LoopInv

LEMMA RpostedIs == ASSUME OptOK PROVE Rposted \in Nat
<1>1. /\ opt.rx_depth \in Nat /\ opt.recv_post_list \in Nat /\ opt.recv_post_list > 0
      /\ opt.num_of_qps \in Nat /\ opt.num_of_qps > 0
  BY IdsAre DEF OptOK, Parameters
<1> DEFINE lists == opt.rx_depth \div opt.recv_post_list
           share == IF opt.use_srq THEN lists \div opt.num_of_qps ELSE lists
<1>2. lists \in Nat BY <1>1
<1> HIDE DEF lists
<1>3. share \in Nat BY <1>1, <1>2
<1>4. Rposted = share * opt.recv_post_list BY DEF Rposted, lists
<1> HIDE DEF share
<1> QED BY <1>1, <1>3, <1>4

LEMMA PrepareKept == ASSUME LoopInv, NEW s \in Sides, opt' = opt, Prepare(s) PROVE LoopInv'
<1> DEFINE n == [q \in Ids |-> Cardinality({p \in Qps : Pool(p) = q}) * Rposted]
           flag == [q \in Ids |-> ListFlag(1)]
           posted == [q \in Ids |-> Rposted]
           new == [run[s] EXCEPT !.flag = flag, !.posted = posted]
<1>1. SideOK(s) /\ Domains /\ OptOK /\ RunOK(run[s]) BY SideIs
<1>2. /\ at[s] = "idle" /\ at' = [at EXCEPT ![s] = "ready"] /\ rq' \in {rq, [rq EXCEPT ![s] = n]}
      /\ run' = [run EXCEPT ![s].flag = flag, ![s].posted = posted]
      /\ UNCHANGED <<sq, rcq, scq, mine, word>>
  BY DEF Prepare
<1>3. n \in [Ids -> Nat]
  <2>1. \A q : Cardinality({p \in Qps : Pool(p) = q}) \in Nat
    <3> TAKE q
    <3>1. IsFiniteSet(Qps) BY <1>1, IdsAre, FS_Interval DEF Qps
    <3>2. {p \in Qps : Pool(p) = q} \subseteq Qps OBVIOUS
    <3>3. IsFiniteSet({p \in Qps : Pool(p) = q}) BY <3>1, <3>2, FS_Subset
    <3> QED BY <3>3, FS_CardinalityType
  <2>2. Rposted \in Nat BY <1>1, RpostedIs
  <2> DEFINE c(q) == Cardinality({p \in Qps : Pool(p) = q})
  <2>3. \A q : c(q) \in Nat BY <2>1
  <2> HIDE DEF c
  <2>4. \A q : c(q) * Rposted \in Nat BY <2>2, <2>3
  <2>5. n = [q \in Ids |-> c(q) * Rposted] BY DEF c
  <2> QED BY <2>4, <2>5
<1>4. flag \in [Ids -> BOOLEAN] /\ posted \in [Ids -> Int] BY <1>1, RpostedIs DEF ListFlag
<1> HIDE DEF n, flag, posted
<1>5. run' = [run EXCEPT ![s] = new] BY <1>1, <1>2, ZenonT(40) DEF Domains
<1>6. RunOK(new) BY <1>1, <1>4, CountersAre DEF RunOK
<1> HIDE DEF new
<1>7. DOMAIN run' = Sides /\ run'[s] = new /\ \A t \in Sides \ {s} : run'[t] = run[t] BY <1>5, RunMoves
<1>8. RunOK(run[s])' BY <1>6, <1>7, LoopStays DEF RunOK
<1>9. DOMAIN at' = Sides /\ at'[s] = "ready" /\ \A t \in Sides \ {s} : at'[t] = at[t] BY <1>1, <1>2 DEF Domains
<1>10. PlaceOK(s)' BY <1>9, LoopStays DEF PlaceOK, Elsewhere, Crediting
<1>11. DOMAIN rq' = Sides /\ rq'[s] \in [Ids -> Nat] /\ \A t \in Sides \ {s} : rq'[t] = rq[t]
  BY <1>1, <1>2, <1>3 DEF Domains, SideOK
<1>12. SendsOK(s)' BY <1>1, <1>2, LoopStays DEF SideOK, SendsOK
<1>13. Alone(s) /\ SideOK(s)'
  BY <1>1, <1>2, <1>7, <1>8, <1>9, <1>10, <1>11, <1>12 DEF Alone, SideOK, Domains
<1> QED BY <1>13, AloneKept

\* Where a loop begins.
LEMMA StartIs ==
  ASSUME NEW s \in Sides
  PROVE  /\ Start(s) \in PlacesOf[Loop] \cup {"done"} /\ Start(s) \notin {"idle", "ready"} \cup Crediting
         /\ s = "server" => /\ Start(s) \in {"bw_post", "bw_poll"} => opt.duplex
                            /\ Start(s) \notin {"inf_post", "inf_poll", "lat", "lat_poll", "burst", "burst_poll"}
<1>1. CASE s = "client" BY <1>1, LoopIs DEF Start, PlacesOf, Crediting
<1>2. CASE s = "server" BY <1>2, LoopIs DEF Start, PlacesOf, Crediting
<1> QED BY <1>1, <1>2 DEF Sides

LEMMA BeginKept == ASSUME LoopInv, NEW s \in Sides, Begin(s) PROVE LoopInv'
<1> DEFINE started == s = "client"
           new == [run[s] EXCEPT !.started = started]
<1>1. SideOK(s) /\ Domains /\ RunOK(run[s]) BY SideIs
<1>2. /\ at[s] = "ready" /\ at' = [at EXCEPT ![s] = Start(s)] /\ opt' = opt
      /\ run' = [run EXCEPT ![s].started = started]
      /\ UNCHANGED <<sq, rq, rcq, scq, mine, word>>
  BY DEF Begin, GoTo
<1> HIDE DEF started
<1>3. run' = [run EXCEPT ![s] = new] BY <1>1, <1>2 DEF Domains
<1>4. RunOK(new) BY <1>1, CountersAre DEF RunOK
<1> HIDE DEF new
<1>5. DOMAIN run' = Sides /\ run'[s] = new /\ \A t \in Sides \ {s} : run'[t] = run[t] BY <1>3, RunMoves
<1>6. RunOK(run[s])' BY <1>2, <1>4, <1>5, LoopStays DEF RunOK
<1>7. DOMAIN at' = Sides /\ at'[s] = Start(s) /\ \A t \in Sides \ {s} : at'[t] = at[t] BY <1>1, <1>2 DEF Domains
<1>8. PlaceOK(s)' BY <1>2, <1>7, StartIs, LoopStays DEF PlaceOK, Elsewhere
<1>9. SendsOK(s)' BY <1>1, <1>2, <1>7, StartIs, LoopStays DEF SideOK, SendsOK
<1>10. Alone(s) /\ SideOK(s)' BY <1>1, <1>2, <1>5, <1>6, <1>7, <1>8, <1>9 DEF Alone, SideOK, Domains
<1> QED BY <1>2, <1>10, AloneKept

\* Every other action leaves the loops alone.
LEMMA LoopNextKept == ASSUME LoopInv, Next PROVE LoopInv'
<1>1. ASSUME UNCHANGED <<opt, queueVars>> PROVE LoopInv' BY <1>1, LoopStill DEF queueVars
<1>2. ASSUME NEW s \in Sides, Work(s) PROVE LoopInv' BY <1>2, BwStepKept, LatStepKept DEF Work
<1>3. ASSUME NEW s \in Sides, Interrupt(s) PROVE LoopInv'
  BY <1>3, AlarmKept, CheckAliveKept, SendErrorKept DEF Interrupt
<1>4. ASSUME NEW s \in Sides, NEW q \in Ids, Device(s, q) PROVE LoopInv' BY <1>4, ServeKept DEF Device
<1>5. ASSUME NEW s \in Sides, Ready(s) PROVE LoopInv' BY <1>5, PrepareKept DEF Ready
<1>6. ASSUME NEW s \in Sides, Begin(s) PROVE LoopInv' BY <1>6, BeginKept
<1>7. ASSUME NEW s \in Sides,
             Talk(s) \/ CmAllocate(s) \/ CmEnter(s) \/ CmHandler(s) \/ CmLeave(s) \/ Initialize(s)
             \/ Credit(s) \/ Pair(s) \/ Over(s) \/ Disconnects(s) \/ Destroys(s) \/ Ends(s)
             \/ Crash(s) \/ CmGone(s)
      PROVE LoopInv'
  BY <1>1, <1>7 DEF Talk, CmAllocate, CmEnter, CmHandler, CmLeave, Initialize, Credit, Pair, Over,
     Disconnects, Destroys, Ends, Crash, CmGone
<1>8. ASSUME Meet \/ CmKernel \/ Wire PROVE LoopInv' BY <1>1, <1>8 DEF Meet, CmKernel, Wire
<1> QED BY <1>2, <1>3, <1>4, <1>5, <1>6, <1>7, <1>8 DEF Next, Network, Program

LEMMA OptOKAtStart == Init => OptOK
<1> SUFFICES ASSUME Init PROVE OptOK OBVIOUS
<1>1. PICK test \in Tests : opt \in Options(test) BY DEF Init
<1>2. /\ opt \in Parameters
      /\ ~opt.refused /\ opt.tst # "BW" => opt.num_of_qps = 1
      /\ ~opt.refused /\ opt.tst = "LAT_BY_BW" => ~opt.work_rdma_cm
  BY <1>1, TestsAssumption
<1>3. opt.send_rcredit => opt.work_rdma_cm /\ opt.verb = "SEND" /\ opt.connection_type = "RC"
  <2>1. PICK c, v : opt = Together(test, c, v) BY <1>1 DEF Options
  <2>2. /\ opt.send_rcredit = (test.machine["client"].device.iwarp /\ c.work_rdma_cm
                               /\ c.verb = "SEND" /\ c.connection_type = "RC")
        /\ opt.work_rdma_cm = c.work_rdma_cm /\ opt.verb = c.verb
        /\ opt.connection_type = c.connection_type
    BY <2>1 DEF Together, Common
  <2> QED BY <2>2
<1> QED BY <1>2, <1>3 DEF OptOK

LEMMA LoopAtStart == Init => LoopInv
<1> SUFFICES ASSUME Init PROVE LoopInv OBVIOUS
<1>1. OptOK BY OptOKAtStart
<1>2. /\ sq = [s \in Sides |-> [q \in Ids |-> <<>>]]
      /\ rq = [s \in Sides |-> Zero] /\ rcq = [s \in Sides |-> Zero]
      /\ scq = [s \in Sides |-> [q \in Ids |-> [data |-> 0, word |-> 0]]]
      /\ mine = [s \in Sides |-> Zero] /\ word = [s \in Sides |-> Zero]
      /\ run = [s \in Sides |-> Counters] /\ at = [s \in Sides |-> "idle"]
  BY DEF Init, QueuesInit
<1>3. Domains BY <1>2 DEF Domains
<1>4. Zero \in [Ids -> Nat] /\ 0 \in Qps BY <1>1, IdsAre DEF Zero
<1>5. RunOK(Counters) BY <1>4 DEF RunOK, Counters
<1>6. ASSUME NEW s \in Sides PROVE SideOK(s)
  <2>1. SendsOK(s) BY <1>2 DEF SendsOK
  <2>2. PlaceOK(s) BY <1>2 DEF PlaceOK, Elsewhere, Crediting
  <2> QED BY <1>2, <1>4, <1>5, <2>1, <2>2 DEF SideOK, Boxes
<1> QED BY <1>1, <1>3, <1>6 DEF LoopInv

\* A side is only ever at a place of the loop that was asked for, and there of its
\* own part of it; its queues and counters have their types.
THEOREM LoopsKeepTheirPlaces == Spec => []LoopInv
<1>1. LoopInv /\ [Next]_vars => LoopInv'
  <2> SUFFICES ASSUME LoopInv, [Next]_vars PROVE LoopInv' OBVIOUS
  <2>1. CASE Next BY <2>1, LoopNextKept
  <2>2. CASE UNCHANGED vars BY <2>2, LoopStill DEF vars, queueVars
  <2> QED BY <2>1, <2>2
<1> QED BY <1>1, LoopAtStart, PTL DEF Spec

(***************************************************************************)
(* A test that was refused does not begin.                                 *)
(***************************************************************************)
RefusedInv == opt.refused => \A s \in Sides : comm[s] = "failed" /\ at[s] = "idle"

LEMMA RefusedKept == ASSUME RefusedInv, [Next]_vars PROVE RefusedInv'
<1>1. CASE ~opt.refused
  <2>1. opt' = opt
    BY DEF vars, Next, Network, Program, Talk, CmAllocate, CmEnter, CmHandler, CmLeave, Initialize, Credit, Pair,
       Ready, Begin, Work, Over, Disconnects, Destroys, Ends, Crash, CmGone, Meet, CmKernel, Wire, Device, Interrupt
  <2> QED BY <1>1, <2>1 DEF RefusedInv
<1>2. CASE opt.refused
  <2>1. \A s \in Sides : ~Alive(s) BY <1>2 DEF RefusedInv, Alive
  <2>2. "client" \in Sides /\ "server" \in Sides BY DEF Sides
  <2>3. ~Establish
    BY <1>2, <2>2 DEF RefusedInv, Establish, Listen, TcpConnect, TcpAccept, RdmaResolve, RdmaRefused, RdmaAccept, RdmaEstablished
  <2>4. UNCHANGED <<opt, comm, at>>
    <3>1. CASE UNCHANGED vars BY <3>1 DEF vars, commVars, queueVars
    <3>2. CASE Network
      BY <2>1, <2>3, <3>2, Two DEF Network, Meet, CmKernel, Wire, Device, commVars, queueVars
    <3>3. ASSUME NEW s \in Sides, Program(s) \/ Crash(s) \/ Interrupt(s) PROVE FALSE
      BY <2>1, <3>3 DEF Program, Talk, Now, CmAllocate, CmEnter, CmHandler, CmLeave, Initialize, Credit, Pair,
         Ready, Begin, Work, Over, Disconnects, Destroys, Ends, Crash, Interrupt
    <3>4. ASSUME NEW s \in Sides, CmGone(s) PROVE UNCHANGED <<opt, comm, at>>
      BY <3>4 DEF CmGone, commVars, queueVars
    <3> QED BY <3>1, <3>2, <3>3, <3>4 DEF Next
  <2> QED BY <1>2, <2>4 DEF RefusedInv
<1> QED BY <1>1, <1>2

LEMMA RefusedAtStart == Init => RefusedInv
  BY DEF Init, CommInit, QueuesInit, RefusedInv

(***************************************************************************)
(* Ping pong.                                                              *)
(***************************************************************************)
Latency == Loop \in {"lat_write", "lat_send"} /\ ~InDuration

\* Who has begun, and where: the client of messages, the server of words, is the
\* one that is ahead.
Ahead(s, wait, go, done) ==
  /\ Turn(s) \in {Heard(s), Heard(s) + 1}
  /\ at[s] = wait => Turn(s) = Heard(s) + 1 \/ (Turn(s) = 0 /\ Heard(s) = 0)
  /\ at[s] = go => Turn(s) = Heard(s)
  /\ at[s] = done => Turn(s) = Heard(s) + 1
Echoing(s, wait, go, done) ==
  /\ Heard(s) \in {Turn(s), Turn(s) + 1}
  /\ at[s] \in {wait, done} => Heard(s) = Turn(s)
  /\ at[s] = go => Heard(s) = Turn(s) + 1 \/ Turn(s) >= Iters

\* The requests that are not served yet.
Queued(s) == Len(sq[s][0])

SendPong(s) ==
  /\ s = "client" => Ahead(s, "lat_send", "lat_send_post", "lat_send_poll")
  /\ s = "server" => Echoing(s, "lat_send", "lat_send_post", "lat_send_poll")
  /\ Heard(Peer(s)) + rcq[Peer(s)][0] + Queued(s) <= Turn(s)

\* The word that is under way, if any, is the last: the peer has all but it; and
\* none where the key it takes did not come.
Byte == [kind |-> "word", sig |-> TRUE]
Written(s) == IF KeysMissed THEN 0 ELSE Turn(s) - Queued(s)
WritePong(s) ==
  /\ s = "server" =>
       /\ Turn(s) \in {Heard(s), Heard(s) + 1}
       /\ at[s] = "lat_write" => Turn(s) = Heard(s) + 1 \/ (Turn(s) = 0 /\ Heard(s) = 0)
       /\ at[s] = "lat_write_poll" => Turn(s) = Heard(s) + 1 \/ Turn(s) >= Iters
  /\ s = "client" => Turn(s) = Heard(s)
  /\ sq[s][0] \in {<<>>, <<Byte>>}
  /\ scq[s][0].word + Queued(s) = Turn(s) - run[s].ccnt[0]
  /\ at[s] = "lat_write" => Turn(s) = run[s].ccnt[0]
  /\ at[s] = "lat_write_poll" => Turn(s) = run[s].ccnt[0] + 1 \/ (Turn(s) = run[s].ccnt[0] /\ Turn(s) >= Iters)
  /\ Heard(Peer(s)) <= Written(s)
  /\ mine[s][0] = Turn(s) % CharRange
  /\ word[Peer(s)][0] = Written(s) % CharRange

PongInv ==
  Latency => \A s \in Sides :
    /\ at[s] \in {"idle", "ready"} => Turn(s) = 0 /\ Heard(s) = 0 /\ run[s].ccnt[0] = 0
    /\ Turn(s) <= Iters
    /\ Loop = "lat_send" => SendPong(s)
    /\ Loop = "lat_write" => WritePong(s)

LEMMA NumbersAre ==
  ASSUME LoopInv, NEW s \in Sides
  PROVE  /\ Turn(s) \in Nat /\ Heard(s) \in Nat /\ rcq[s][0] \in Nat /\ run[s].ccnt[0] \in Int
         /\ sq[s][0] \in Seq(Requests) /\ Queued(s) \in Nat
         /\ scq[s][0] \in Boxes /\ scq[s][0].word \in Nat /\ Iters \in Nat /\ 0 \in Ids
<1>1. SideOK(s) /\ OptOK /\ RunOK(run[s]) /\ SendsOK(s) /\ 0 \in Ids BY SideIs, Same
<1>2. Turn(s) \in Nat /\ Heard(s) \in Nat /\ run[s].ccnt[0] \in Int BY <1>1 DEF RunOK, Turn, Heard
<1>3. rcq[s][0] \in Nat /\ scq[s][0] \in Boxes BY <1>1 DEF SideOK
<1>4. sq[s][0] \in Seq(Requests) BY <1>1 DEF SendsOK
<1>5. Iters \in Nat BY <1>1 DEF Iters, OptOK, Parameters
<1>6. Queued(s) \in Nat BY <1>4, LenProperties DEF Queued
<1>7. scq[s][0].word \in Nat BY <1>3 DEF Boxes
<1> QED BY <1>1, <1>2, <1>3, <1>4, <1>5, <1>6, <1>7

LEMMA LatencyIs ==
  ASSUME Latency PROVE opt.tst = "LAT" /\ ~InDuration /\ \A s : ~Ended(s)
<1>1. opt.tst = "LAT" BY DEF Latency, Loop
<1> QED BY <1>1 DEF Latency, Ended

\* Only queue pair 0 sends.
LEMMA OnlyFirst ==
  ASSUME LoopInv, RefusedInv, Latency, NEW s \in Sides, NEW q \in Ids, sq[s][q] # <<>> PROVE q = 0
<1>1. q \in Qps /\ at[s] # "idle" BY SideIs DEF SendsOK
<1>2. ~opt.refused BY <1>1 DEF RefusedInv
<1>3. opt.num_of_qps = 1 BY <1>2, LatencyIs, SideIs DEF OptOK
<1> QED BY <1>1, <1>3 DEF Qps

LEMMA LatencyStays == ASSUME opt' = opt PROVE Latency' = Latency /\ Iters' = Iters
<1>1. Loop' = Loop BY LoopStays
<1> QED BY <1>1 DEF Latency, InDuration, Iters

LEMMA KeysStay == ASSUME opt' = opt PROVE KeysReach' = KeysReach /\ KeysMissed' = KeysMissed
  BY DEF KeysReach, KeysMissed

\* Nobody's turn changes: a side begins, or ends, or something else moves.
LEMMA PongStill ==
  ASSUME LoopInv, PongInv, opt' = opt,
         \A s \in Sides :
           /\ Turn(s)' = Turn(s) /\ Heard(s)' = Heard(s) /\ run'[s].ccnt[0] = run[s].ccnt[0]
           /\ rcq'[s][0] = rcq[s][0] /\ sq'[s][0] = sq[s][0] /\ scq'[s][0] = scq[s][0]
           /\ mine'[s][0] = mine[s][0] /\ word'[s][0] = word[s][0]
           /\ \/ at'[s] = at[s]
              \/ at'[s] \in {"done", "failed"}
              \/ at[s] = "idle" /\ at'[s] = "ready"
              \/ at[s] = "ready" /\ at'[s] \in {"lat_send", "lat_write"}
  PROVE  PongInv'
<1> SUFFICES ASSUME Latency', NEW s \in Sides
             PROVE  /\ at[s]' \in {"idle", "ready"} => Turn(s)' = 0 /\ Heard(s)' = 0 /\ run[s].ccnt[0]' = 0
                    /\ Turn(s)' <= Iters'
                    /\ Loop' = "lat_send" => SendPong(s)'
                    /\ Loop' = "lat_write" => WritePong(s)'
  BY DEF PongInv
<1>1. Latency /\ Iters' = Iters /\ Loop' = Loop BY LatencyStays, LoopStays
<1>2. Peer(s) \in Sides BY Two
<1>3. /\ at[s] \in {"idle", "ready"} => Turn(s) = 0 /\ Heard(s) = 0 /\ run[s].ccnt[0] = 0
      /\ Turn(s) <= Iters
      /\ Loop = "lat_send" => SendPong(s)
      /\ Loop = "lat_write" => WritePong(s)
  BY <1>1 DEF PongInv
<1>4. Loop = "lat_send" => SendPong(s)' BY <1>1, <1>2, <1>3 DEF SendPong, Ahead, Echoing, Queued
<1>5. Loop = "lat_write" => WritePong(s)'
  <2>1. Written(s)' = Written(s) BY KeysStay DEF Written, Queued
  <2> QED BY <1>1, <1>2, <1>3, <2>1 DEF WritePong, Queued
<1> QED BY <1>1, <1>3, <1>4, <1>5

(***************************************************************************)
(* Ping pong of messages.                                                  *)
(***************************************************************************)
LEMMA SendReceivePong ==
  ASSUME LoopInv, PongInv, Latency, NEW s \in Sides, opt' = opt, LatSendReceive(s) PROVE PongInv'
<1> DEFINE t == Peer(s)
           waits == Waits(s, "client")
           d == IF waits THEN 1 ELSE 0
<1>1. /\ SideOK(s) /\ PlaceOK(s) /\ at[s] = "lat_send" /\ Domains /\ RunOK(run[s])
      /\ rcq[s] \in [Ids -> Nat] /\ 0 \in Ids
  BY SideIs, Same DEF LatSendReceive
<1>2. Loop = "lat_send" /\ Loop' = "lat_send" BY <1>1, PlaceTells, LoopStays DEF PlacesOf
<1>3. t \in Sides /\ t # s /\ Peer(t) = s /\ Sides = {s, t} BY Two
<1>4. /\ waits => rcq[s][0] > 0
      /\ rcq' = [rcq EXCEPT ![s][0] = @ - d] /\ run' = [run EXCEPT ![s].rcnt[0] = @ + d]
      /\ at' = [at EXCEPT ![s] = "lat_send_post"] /\ sq' = sq
  BY LatencyIs DEF LatSendReceive, GoTo
<1>5. waits <=> (Heard(s) < Iters /\ ~(Turn(s) < 1 /\ s = "client")) BY LatencyIs DEF Waits
<1>6. d \in {0, 1} /\ (waits => d = 1) /\ (~waits => d = 0) OBVIOUS
<1> HIDE DEF d, waits
<1>7. /\ Turn(s)' = Turn(s) /\ Heard(s)' = Heard(s) + d /\ rcq'[s][0] = rcq[s][0] - d
      /\ Turn(t)' = Turn(t) /\ Heard(t)' = Heard(t) /\ rcq'[t][0] = rcq[t][0]
      /\ at'[s] = "lat_send_post" /\ at'[t] = at[t]
      /\ run'[t].ccnt[0] = run[t].ccnt[0]
  BY <1>1, <1>3, <1>4 DEF Turn, Heard, Domains, RunOK, Counters
<1>8. /\ Turn(s) <= Iters /\ SendPong(s)
      /\ Turn(t) <= Iters /\ SendPong(t)
      /\ at[t] \in {"idle", "ready"} => Turn(t) = 0 /\ Heard(t) = 0 /\ run[t].ccnt[0] = 0
  BY <1>2, <1>3 DEF PongInv
<1>9. /\ Turn(s) \in Nat /\ Heard(s) \in Nat /\ rcq[s][0] \in Nat /\ Queued(s) \in Nat /\ Iters \in Nat
      /\ Turn(t) \in Nat /\ Heard(t) \in Nat /\ rcq[t][0] \in Nat /\ Queued(t) \in Nat
  BY <1>3, NumbersAre
<1>10. Iters' = Iters /\ Queued(s)' = Queued(s) /\ Queued(t)' = Queued(t) BY <1>4, LatencyStays DEF Queued
<1>11. SendPong(s)'
  BY <1>1, <1>3, <1>4, <1>5, <1>6, <1>7, <1>8, <1>9, <1>10 DEF SendPong, Ahead, Echoing, Sides
<1>12. SendPong(t)'
  BY <1>1, <1>3, <1>4, <1>6, <1>7, <1>8, <1>9, <1>10 DEF SendPong, Ahead, Echoing, Sides
<1> QED BY <1>2, <1>3, <1>7, <1>8, <1>10, <1>11, <1>12 DEF PongInv

LEMMA SendPostPong ==
  ASSUME LoopInv, PongInv, Latency, NEW s \in Sides, opt' = opt, LatSendPost(s) PROVE PongInv'
<1> DEFINE t == Peer(s)
           n == Turn(s) + 1
           poll == n % opt.cq_mod = 0 \/ n = Iters
           wr == [kind |-> "send", sig |-> poll]
<1>1. /\ SideOK(s) /\ PlaceOK(s) /\ at[s] = "lat_send_post" /\ Domains /\ RunOK(run[s])
      /\ 0 \in Ids /\ SendsOK(s)
  BY SideIs, Same DEF LatSendPost
<1>2. Loop = "lat_send" /\ Loop' = "lat_send" BY <1>1, PlaceTells, LoopStays DEF PlacesOf
<1>3. t \in Sides /\ t # s /\ Peer(t) = s /\ Sides = {s, t} BY Two
<1>4. /\ Turn(s) <= Iters /\ SendPong(s)
      /\ Turn(t) <= Iters /\ SendPong(t)
      /\ at[t] \in {"idle", "ready"} => Turn(t) = 0 /\ Heard(t) = 0 /\ run[t].ccnt[0] = 0
  BY <1>2, <1>3 DEF PongInv
<1>5. /\ Turn(s) \in Nat /\ Heard(s) \in Nat /\ rcq[s][0] \in Nat /\ Queued(s) \in Nat /\ Iters \in Nat
      /\ Turn(t) \in Nat /\ Heard(t) \in Nat /\ rcq[t][0] \in Nat /\ Queued(t) \in Nat
      /\ sq[s][0] \in Seq(Requests)
  BY <1>3, NumbersAre
<1>6. Iters' = Iters /\ rcq' = rcq /\ scq' = scq BY LatencyStays DEF LatSendPost
<1>7. CASE Turn(s) < Iters
  <2>1. /\ sq' = Append0(s, 1, wr) /\ run' = [run EXCEPT ![s].scnt[0] = n]
        /\ at' = [at EXCEPT ![s] = IF poll THEN "lat_send_poll" ELSE "lat_send"]
    BY <1>7, LatencyIs, Zenon DEF LatSendPost, GoTo
  <2>2. wr \in Requests BY DEF Requests
  <2> HIDE DEF wr
  <2>3. sq'[s][0] = sq[s][0] \o [j \in 1..1 |-> wr] /\ sq'[t] = sq[t] /\ Queued(t)' = Queued(t)
    BY <1>1, <1>3, <2>1 DEF Append0, Domains, SendsOK, Queued
  <2>4. Queued(s)' = Queued(s) + 1
    <3>1. [j \in 1..1 |-> wr] \in Seq(Requests) /\ Len([j \in 1..1 |-> wr]) = 1 BY <2>2
    <3> QED BY <1>5, <2>3, <3>1, ConcatProperties DEF Queued
  <2>5. /\ Turn(s)' = n /\ Heard(s)' = Heard(s)
        /\ Turn(t)' = Turn(t) /\ Heard(t)' = Heard(t)
        /\ run'[t].ccnt[0] = run[t].ccnt[0]
    BY <1>1, <1>3, <2>1 DEF Turn, Heard, Domains, RunOK, Counters
  <2>6. at'[s] \in {"lat_send_poll", "lat_send"} /\ at'[t] = at[t] BY <1>1, <1>3, <2>1 DEF Domains
  <2>7. SendPong(s)'
    <3>3. Heard(t)' + rcq'[t][0] + Queued(s)' <= Turn(s)'
      <4>1. Heard(t) + rcq[t][0] + Queued(s) <= Turn(s) BY <1>4 DEF SendPong
      <4>2. rcq'[t][0] = rcq[t][0] /\ Heard(t)' = Heard(t) /\ Turn(s)' = Turn(s) + 1 BY <1>6, <2>5
      <4>3. Heard(t) \in Nat /\ rcq[t][0] \in Nat /\ Queued(s) \in Nat /\ Turn(s) \in Nat BY <1>5
      <4> HIDE DEF t
      <4> QED BY <2>4, <4>1, <4>2, <4>3
    <3>1. CASE s = "client"
      <4>1. Turn(s) = Heard(s) BY <1>1, <1>4, <3>1 DEF SendPong, Ahead
      <4>2. Ahead(s, "lat_send", "lat_send_post", "lat_send_poll")' BY <1>5, <2>5, <2>6, <4>1 DEF Ahead
      <4> QED BY <3>1, <3>3, <4>2 DEF SendPong
    <3>2. CASE s = "server"
      <4>1. Heard(s) = Turn(s) + 1 BY <1>1, <1>4, <1>5, <1>7, <3>2 DEF SendPong, Echoing
      <4>2. Echoing(s, "lat_send", "lat_send_post", "lat_send_poll")' BY <1>5, <2>5, <2>6, <4>1 DEF Echoing
      <4> QED BY <3>2, <3>3, <4>2 DEF SendPong
    <3> QED BY <3>1, <3>2 DEF Sides
  <2>8. SendPong(t)'
    BY <1>1, <1>3, <1>4, <1>5, <1>6, <2>3, <2>5, <2>6 DEF SendPong, Ahead, Echoing, Sides
  <2> QED BY <1>2, <1>3, <1>4, <1>5, <1>6, <1>7, <2>5, <2>6, <2>7, <2>8 DEF PongInv
<1>8. CASE ~(Turn(s) < Iters)
  <2>1. /\ sq' = sq /\ run' = run
        /\ at' = [at EXCEPT ![s] = IF LatSendMore(s) THEN "lat_send" ELSE "done"]
    BY <1>8, LatencyIs, Zenon DEF LatSendPost, GoTo
  <2>2. LatSendMore(s) <=> Heard(s) < Iters BY <1>8, LatencyIs DEF LatSendMore
  <2>3. Heard(s) >= Turn(s) \/ s = "client" BY <1>4, <1>5 DEF SendPong, Echoing, Sides
  <2>4. Heard(s) = Turn(s) \/ s # "client" BY <1>1, <1>4 DEF SendPong, Ahead
  <2>5. at'[s] = "done" /\ at'[t] = at[t]
    <3>1. ~LatSendMore(s) BY <1>4, <1>5, <1>8, <2>2, <2>3, <2>4
    <3> QED BY <1>1, <1>3, <2>1, <3>1 DEF Domains
  <2>6. UNCHANGED <<mine, word>> BY DEF LatSendPost
  <2> QED BY <1>3, <1>6, <2>1, <2>5, <2>6, PongStill DEF Turn, Heard
<1> QED BY <1>7, <1>8

LEMMA SendPollPong ==
  ASSUME LoopInv, PongInv, Latency, NEW s \in Sides, opt' = opt, LatSendPoll(s) PROVE PongInv'
<1> DEFINE t == Peer(s)
<1>1. PlaceOK(s) /\ at[s] = "lat_send_poll" /\ Domains BY SideIs DEF LatSendPoll
<1>2. Loop = "lat_send" /\ Loop' = "lat_send" BY <1>1, PlaceTells, LoopStays DEF PlacesOf
<1>3. t \in Sides /\ t # s /\ Peer(t) = s /\ Sides = {s, t} BY Two
<1>4. /\ Turn(s) <= Iters /\ SendPong(s)
      /\ Turn(t) <= Iters /\ SendPong(t)
      /\ at[t] \in {"idle", "ready"} => Turn(t) = 0 /\ Heard(t) = 0 /\ run[t].ccnt[0] = 0
  BY <1>2, <1>3 DEF PongInv
<1>5. Iters' = Iters /\ UNCHANGED <<sq, rcq, run>> BY LatencyStays DEF LatSendPoll
<1>6. at'[s] \in {"lat_send", "done"} /\ at'[t] = at[t] BY <1>1, <1>3 DEF LatSendPoll, GoTo, Domains
<1>7. /\ Turn(s)' = Turn(s) /\ Heard(s)' = Heard(s) /\ Turn(t)' = Turn(t) /\ Heard(t)' = Heard(t)
      /\ Queued(s)' = Queued(s) /\ Queued(t)' = Queued(t)
  BY <1>5 DEF Turn, Heard, Queued
<1>8. SendPong(s)'
  BY <1>1, <1>3, <1>4, <1>5, <1>6, <1>7 DEF SendPong, Ahead, Echoing, Sides
<1>9. SendPong(t)'
  BY <1>1, <1>3, <1>4, <1>5, <1>6, <1>7 DEF SendPong, Ahead, Echoing, Sides
<1> QED BY <1>2, <1>3, <1>4, <1>5, <1>6, <1>7, <1>8, <1>9 DEF PongInv

(***************************************************************************)
(* A request of the ping pong is served.                                   *)
(***************************************************************************)
LEMMA ServePong ==
  ASSUME LoopInv, RefusedInv, PongInv, Latency, NEW s \in Sides, NEW q \in Ids, opt' = opt, Serve(s, q)
  PROVE  PongInv'
<1> DEFINE t == Peer(s)
           m == mate[s][q]
           head == Head(sq[s][q])
<1>1. q = 0 /\ sq[s][0] # <<>> BY OnlyFirst DEF Serve
<1>2. /\ Domains /\ t \in Sides /\ t # s /\ Peer(t) = s /\ Sides = {s, t} /\ 0 \in Ids
      /\ SendsOK(s) /\ rcq[t] \in [Ids -> Nat] /\ word[t] \in [Ids -> Nat] /\ scq[s] \in [Ids -> Boxes]
  BY SideIs, Two, Same DEF SideOK
<1>3. /\ sq' = [sq EXCEPT ![s][0] = Tail(@)]
      /\ rcq' = rcq \/ rcq' = [rcq EXCEPT ![t][m] = @ + 1]
      /\ word' = IF head.kind = "word" /\ ~KeysMissed THEN [word EXCEPT ![t][0] = mine[s][0]] ELSE word
      /\ scq' = CASE ~head.sig -> scq
                  [] head.kind = "word" -> [scq EXCEPT ![s][0].word = @ + 1]
                  [] OTHER -> [scq EXCEPT ![s][0].data = @ + 1]
      /\ UNCHANGED <<mine, run, at>>
  BY <1>1 DEF Serve, Astray
<1> HIDE DEF t, m, head
<1>4. /\ sq'[s][0] = Tail(sq[s][0]) /\ sq'[t] = sq[t] /\ Queued(t)' = Queued(t)
  BY <1>2, <1>3 DEF Domains, SendsOK, Queued
<1>5. /\ Turn(s) \in Nat /\ Heard(s) \in Nat /\ rcq[s][0] \in Nat /\ Queued(s) \in Nat
      /\ Turn(t) \in Nat /\ Heard(t) \in Nat /\ rcq[t][0] \in Nat /\ Queued(t) \in Nat
      /\ sq[s][0] \in Seq(Requests) /\ scq[s][0].word \in Nat /\ run[s].ccnt[0] \in Int
  BY <1>2, NumbersAre
<1>6. Queued(s)' = Queued(s) - 1
  <2>1. Len(Tail(sq[s][0])) = Len(sq[s][0]) - 1 BY <1>1, <1>5, HeadTailProperties
  <2> QED BY <1>4, <2>1 DEF Queued
<1>7. rcq'[t][0] \in {rcq[t][0], rcq[t][0] + 1} /\ rcq'[s] = rcq[s]
  <2>1. CASE rcq' = rcq BY <2>1
  <2>2. CASE rcq' = [rcq EXCEPT ![t][m] = @ + 1]
    <3>1. rcq'[t] = [rcq[t] EXCEPT ![m] = rcq[t][m] + 1] /\ rcq'[s] = rcq[s]
      <4>1. rcq' = [rcq EXCEPT ![t] = [rcq[t] EXCEPT ![m] = rcq[t][m] + 1]] BY <2>2
      <4> QED BY <1>2, <4>1 DEF Domains
    <3>2. CASE m = 0
      <4>1. rcq'[t][0] = rcq[t][0] + 1 BY <1>2, <3>1, <3>2
      <4> QED BY <3>1, <4>1
    <3>3. CASE m # 0
      <4>1. rcq'[t][0] = rcq[t][0] BY <1>2, <3>1, <3>3
      <4> QED BY <3>1, <4>1
    <3> QED BY <3>2, <3>3
  <2> QED BY <1>3, <2>1, <2>2
<1>8. UNCHANGED <<Turn(s), Heard(s), Turn(t), Heard(t)>> BY <1>3 DEF Turn, Heard
<1>9. Loop' = Loop /\ Iters' = Iters BY LoopStays, LatencyStays
<1>10. /\ at[s] \in {"idle", "ready"} => Turn(s) = 0 /\ Heard(s) = 0 /\ run[s].ccnt[0] = 0
       /\ at[t] \in {"idle", "ready"} => Turn(t) = 0 /\ Heard(t) = 0 /\ run[t].ccnt[0] = 0
       /\ Turn(s) <= Iters /\ Turn(t) <= Iters
       /\ Loop = "lat_send" => SendPong(s) /\ SendPong(t)
       /\ Loop = "lat_write" => WritePong(s) /\ WritePong(t)
  BY <1>2 DEF PongInv
<1>11. ASSUME Loop = "lat_send" PROVE SendPong(s)' /\ SendPong(t)'
  <2>1. SendPong(s) /\ SendPong(t) BY <1>10, <1>11
  <2>2. Peer(s) = t BY DEF t
  <2>3. Heard(t) + rcq[t][0] + Queued(s) <= Turn(s) BY <2>1, <2>2 DEF SendPong
  <2>4. Heard(t)' + rcq'[t][0] + Queued(s)' <= Turn(s)'
    <3>1. rcq'[t][0] = rcq[t][0] \/ rcq'[t][0] = rcq[t][0] + 1 BY <1>7
    <3>2. Heard(t)' = Heard(t) /\ Turn(s)' = Turn(s) BY <1>8
    <3>3. CASE rcq'[t][0] = rcq[t][0] BY <1>5, <1>6, <2>3, <3>2, <3>3, SMTT(30)
    <3>4. CASE rcq'[t][0] = rcq[t][0] + 1 BY <1>5, <1>6, <2>3, <3>2, <3>4, SMTT(30)
    <3> QED BY <3>1, <3>3, <3>4
  <2>5. SendPong(s)' BY <1>3, <1>8, <1>9, <2>1, <2>2, <2>4 DEF SendPong, Ahead, Echoing
  <2>6. SendPong(t)'
    <3>1. Heard(s) + rcq[s][0] + Queued(t) <= Turn(t) BY <1>2, <2>1 DEF SendPong
    <3>2. Heard(s)' + rcq'[s][0] + Queued(t)' <= Turn(t)' BY <1>4, <1>7, <1>8, <3>1
    <3> QED BY <1>2, <1>3, <1>8, <1>9, <2>1, <3>2 DEF SendPong, Ahead, Echoing
  <2> QED BY <2>5, <2>6
<1>12. ASSUME Loop = "lat_write" PROVE WritePong(s)' /\ WritePong(t)'
  <2>1. WritePong(s) /\ WritePong(t) /\ Peer(s) = t BY <1>10, <1>12 DEF t
  <2>2. sq[s][0] = <<Byte>> BY <1>1, <2>1 DEF WritePong
  <2>3. head = Byte /\ sq'[s][0] = <<>> /\ Queued(s) = 1 /\ Queued(s)' = 0
    BY <1>1, <1>4, <2>2 DEF head, Queued
  <2>4. word'[t][0] = (IF KeysMissed THEN word[t][0] ELSE mine[s][0]) /\ word'[s] = word[s]
    BY <1>2, <1>3, <2>3 DEF Byte, Domains
  <2>5. scq'[s][0].word = scq[s][0].word + 1 /\ scq'[t] = scq[t]
    <3>1. scq' = [scq EXCEPT ![s][0].word = @ + 1] BY <1>3, <2>3 DEF Byte
    <3>2. scq[s][0] \in Boxes BY <1>2
    <3> QED BY <1>2, <3>1, <3>2 DEF Domains, Boxes
  <2>6. IF KeysMissed THEN Written(s) = 0 /\ Written(s)' = 0
        ELSE Written(s) = Turn(s) - 1 /\ Written(s)' = Turn(s)
    BY <1>5, <1>8, <2>3, KeysStay DEF Written
  <2>7. WritePong(s)'
    <3>1. Heard(t) <= Written(s) /\ Written(s)' \in {Written(s), Written(s) + 1} /\ Written(s) \in Int
      BY <1>5, <2>1, <2>6 DEF WritePong
    <3>2. Heard(t)' <= Written(s)' BY <1>5, <1>8, <3>1
    <3>3. mine[s][0] = Turn(s) % CharRange /\ word[t][0] = Written(s) % CharRange BY <2>1 DEF WritePong
    <3>4. word'[t][0] = Written(s)' % CharRange
      <4>1. CASE KeysMissed BY <2>4, <2>6, <3>3, <4>1
      <4>2. CASE ~KeysMissed BY <2>4, <2>6, <3>3, <4>2
      <4> QED BY <4>1, <4>2
    <3>5. scq'[s][0].word + Queued(s)' = Turn(s) - run[s].ccnt[0]
      <4>1. scq[s][0].word + Queued(s) = Turn(s) - run[s].ccnt[0] BY <2>1 DEF WritePong
      <4> QED BY <1>5, <2>3, <2>5, <4>1
    <3>6. sq'[s][0] \in {<<>>, <<Byte>>} BY <2>3
    <3>7. mine'[s][0] = Turn(s)' % CharRange BY <1>3, <1>8, <2>1 DEF WritePong
    <3> QED BY <1>3, <1>8, <1>9, <2>1, <3>2, <3>4, <3>5, <3>6, <3>7 DEF WritePong
  <2>8. WritePong(t)'
    <3>1. Written(t)' = Written(t) BY <1>4, <1>8, KeysStay DEF Written
    <3> QED BY <1>2, <1>3, <1>4, <1>8, <1>9, <2>1, <2>4, <2>5, <3>1 DEF WritePong
  <2> QED BY <2>7, <2>8
<1> QED BY <1>2, <1>3, <1>8, <1>9, <1>10, <1>11, <1>12 DEF PongInv

(***************************************************************************)
(* Ping pong of words.                                                     *)
(***************************************************************************)
\* A word differs from the one after it.
LEMMA NextDiffers ==
  ASSUME NEW a \in Nat PROVE a % CharRange # (a + 1) % CharRange
<1> DEFINE r == a % CharRange
           k == a \div CharRange
           r1 == (a + 1) % CharRange
           k1 == (a + 1) \div CharRange
<1>1. CharRange \in Nat /\ CharRange >= 2 BY CharAssumption
<1> DEFINE c == CharRange
<1>2. a = c * k + r /\ a + 1 = c * k1 + r1 /\ k \in Int /\ k1 \in Int /\ r \in Int /\ r1 \in Int
  BY <1>1
<1>4. c \in Nat /\ c >= 2 BY <1>1
<1> HIDE DEF r, k, r1, k1, c
<1>3. ASSUME r = r1 PROVE FALSE
  <2>1. c * (k1 - k) = 1
    <3>1. c * k1 - c * k = 1 /\ c * k \in Int /\ c * k1 \in Int BY <1>2, <1>3, <1>4
    <3> QED BY <1>2, <1>4, <3>1
  <2> DEFINE d == k1 - k
  <2>4. d \in Int /\ c * d = 1 BY <1>2, <2>1
  <2> HIDE DEF d
  <2>2. CASE d <= 0 BY <1>4, <2>2, <2>4
  <2>3. CASE d >= 1 BY <1>4, <2>3, <2>4
  <2> QED BY <2>2, <2>3, <2>4
<1> QED BY <1>3 DEF r, r1

\* Neither has written further than the other may have read.
LEMMA NotFarAhead ==
  ASSUME LoopInv, PongInv, Latency, Loop = "lat_write", NEW s \in Sides
  PROVE  Turn(Peer(s)) <= Heard(s) + 1 /\ Heard(s) <= Written(Peer(s)) /\ Written(Peer(s)) <= Turn(Peer(s))
         /\ Written(Peer(s)) \in Int /\ Written(s) \in Int
<1> DEFINE t == Peer(s)
<1>1. t \in Sides /\ t # s /\ Peer(t) = s /\ Sides = {s, t} BY Two
<1>2. WritePong(s) /\ WritePong(t) BY <1>1 DEF PongInv
<1>3. /\ Turn(s) \in Nat /\ Heard(s) \in Nat /\ Queued(s) \in Nat
      /\ Turn(t) \in Nat /\ Heard(t) \in Nat /\ Queued(t) \in Nat
  BY <1>1, NumbersAre
<1>4. Heard(s) <= Written(t) /\ Heard(t) <= Written(s)
  <2>1. Heard(t) <= Written(s) BY <1>2 DEF WritePong
  <2>2. Heard(Peer(t)) <= Written(t) BY <1>2 DEF WritePong
  <2> QED BY <1>1, <2>1, <2>2
<1>5. Written(s) <= Turn(s) /\ Written(t) <= Turn(t) /\ Written(s) \in Int /\ Written(t) \in Int
  BY <1>3 DEF Written
<1>6. (s = "client" /\ t = "server") \/ (s = "server" /\ t = "client") BY <1>1 DEF Sides
<1>7. CASE s = "client" /\ t = "server"
  <2>1. Turn(s) = Heard(s) /\ Turn(t) \in {Heard(t), Heard(t) + 1} BY <1>2, <1>7 DEF WritePong
  <2> QED BY <1>3, <1>4, <1>5, <2>1
<1>8. CASE s = "server" /\ t = "client"
  <2>1. Turn(t) = Heard(t) /\ Turn(s) \in {Heard(s), Heard(s) + 1} BY <1>2, <1>8 DEF WritePong
  <2> QED BY <1>3, <1>4, <1>5, <2>1
<1> QED BY <1>6, <1>7, <1>8

LEMMA WriteRoundPong ==
  ASSUME LoopInv, PongInv, Latency, NEW s \in Sides, opt' = opt, LatWriteRound(s) PROVE PongInv'
<1> DEFINE t == Peer(s)
           waits == Waits(s, "server")
           sends == Turn(s) < Iters
           d == IF waits THEN 1 ELSE 0
           e == IF sends THEN 1 ELSE 0
           new == [run[s] EXCEPT !.rcnt[0] = @ + d, !.scnt[0] = @ + e]
<1>1. /\ SideOK(s) /\ PlaceOK(s) /\ at[s] = "lat_write" /\ Domains /\ RunOK(run[s])
      /\ 0 \in Ids /\ SendsOK(s) /\ mine[s] \in [Ids -> Nat]
  BY SideIs, Same DEF LatWriteRound, SideOK
<1>2. Loop = "lat_write" /\ Loop' = "lat_write" BY <1>1, PlaceTells, LoopStays DEF PlacesOf
<1>3. t \in Sides /\ t # s /\ Peer(t) = s /\ Sides = {s, t} BY Two
<1>4. /\ Turn(s) <= Iters /\ WritePong(s)
      /\ Turn(t) <= Iters /\ WritePong(t)
      /\ at[t] \in {"idle", "ready"} => Turn(t) = 0 /\ Heard(t) = 0 /\ run[t].ccnt[0] = 0
  BY <1>2, <1>3 DEF PongInv
<1>5. /\ Turn(s) \in Nat /\ Heard(s) \in Nat /\ Queued(s) \in Nat /\ Iters \in Nat
      /\ Turn(t) \in Nat /\ Heard(t) \in Nat /\ Queued(t) \in Nat
      /\ sq[s][0] \in Seq(Requests) /\ scq[s][0].word \in Nat /\ run[s].ccnt[0] \in Int
  BY <1>3, NumbersAre
<1>6. /\ Iters' = Iters /\ UNCHANGED <<rcq, scq, word>> BY LatencyStays DEF LatWriteRound
<1>7. /\ waits => word[s][0] = (Heard(s) + 1) % CharRange
      /\ run' = [run EXCEPT ![s].rcnt[0] = @ + d, ![s].scnt[0] = @ + e]
      /\ sends => /\ mine' = [mine EXCEPT ![s][0] = (Turn(s) + 1) % CharRange]
                  /\ sq' = Append0(s, 1, Byte)
      /\ ~sends => UNCHANGED <<mine, sq>>
      /\ at' = [at EXCEPT ![s] = "lat_write_poll"]
  BY LatencyIs DEF LatWriteRound, GoTo, Byte
<1>8. /\ waits <=> (Heard(s) < Iters /\ ~(Turn(s) < 1 /\ s = "server"))
      /\ sends <=> Turn(s) < Iters
      /\ (waits => d = 1) /\ (~waits => d = 0) /\ (sends => e = 1) /\ (~sends => e = 0)
      /\ d \in {0, 1} /\ e \in {0, 1}
  BY LatencyIs DEF Waits
<1> HIDE DEF d, e, waits, sends
<1>9. run' = [run EXCEPT ![s] = new]
  <2>1. DOMAIN run = Sides BY <1>1 DEF Domains
  <2>2. run' = [run EXCEPT ![s].rcnt[0] = @ + d, ![s].scnt[0] = @ + e] BY <1>7
  <2> QED BY <2>1, <2>2
<1>10. new.rcnt[0] = Heard(s) + d /\ new.scnt[0] = Turn(s) + e /\ new.ccnt = run[s].ccnt
  <2>1. /\ run[s].rcnt \in [Ids -> Nat] /\ run[s].scnt \in [Ids -> Nat]
        /\ DOMAIN run[s] = {"scnt", "ccnt", "totccnt", "rcnt", "unused", "posted", "scredit", "started",
                            "flag", "index"}
    BY <1>1, CountersAre DEF RunOK
  <2> QED BY <1>1, <2>1 DEF Turn, Heard
<1> HIDE DEF new
<1>11. /\ Turn(s)' = Turn(s) + e /\ Heard(s)' = Heard(s) + d /\ run'[s].ccnt[0] = run[s].ccnt[0]
       /\ Turn(t)' = Turn(t) /\ Heard(t)' = Heard(t) /\ run'[t].ccnt[0] = run[t].ccnt[0]
       /\ at'[s] = "lat_write_poll" /\ at'[t] = at[t]
  BY <1>1, <1>3, <1>7, <1>9, <1>10 DEF Turn, Heard, Domains
<1>12. Turn(s) = run[s].ccnt[0] /\ sq[s][0] = <<>> /\ scq[s][0].word = 0 /\ Queued(s) = 0
  <2>1. Turn(s) = run[s].ccnt[0] /\ sq[s][0] \in {<<>>, <<Byte>>}
        /\ scq[s][0].word + Queued(s) = Turn(s) - run[s].ccnt[0]
    BY <1>1, <1>4 DEF WritePong
  <2>2. Queued(s) = 0 /\ scq[s][0].word = 0
    <3>1. scq[s][0].word + Queued(s) = Turn(s) - Turn(s) BY <2>1
    <3> QED BY <1>5, <3>1
  <2>3. sq[s][0] = <<>> BY <2>1, <2>2 DEF Queued
  <2> QED BY <2>1, <2>2, <2>3
<1>13. sq'[t] = sq[t] /\ mine'[t] = mine[t] /\ Queued(t)' = Queued(t)
  BY <1>1, <1>3, <1>7 DEF Append0, Domains, Queued
<1>14. /\ sends => sq'[s][0] = <<Byte>> /\ Queued(s)' = 1
       /\ ~sends => sq'[s][0] = <<>> /\ Queued(s)' = 0
  <2>1. <<>> \o [j \in 1..1 |-> Byte] = <<Byte>> OBVIOUS
  <2>2. CASE sends
    <3>1. sq'[s][0] = sq[s][0] \o [j \in 1..1 |-> Byte]
      BY <1>1, <1>7, <2>2 DEF Append0, Domains, SendsOK
    <3> QED BY <1>12, <2>1, <2>2, <3>1 DEF Queued
  <2>3. CASE ~sends BY <1>7, <1>12, <2>3 DEF Queued
  <2> QED BY <2>2, <2>3
<1>15. mine'[s][0] = (Turn(s) + e) % CharRange
  <2>1. CASE sends BY <1>1, <1>7, <1>8, <2>1 DEF Domains
  <2>2. CASE ~sends
    <3>1. mine[s][0] = Turn(s) % CharRange BY <1>4 DEF WritePong
    <3>2. Turn(s) + e = Turn(s) BY <1>5, <1>8, <2>2
    <3> QED BY <1>7, <2>2, <3>1, <3>2
  <2> QED BY <2>1, <2>2
<1>16. Written(s)' = Written(s) /\ Written(t)' = Written(t)
  <2>1. Written(t)' = Written(t) BY <1>11, <1>13, KeysStay DEF Written
  <2>2. CASE KeysMissed BY <2>1, <2>2, KeysStay DEF Written
  <2>3. CASE ~KeysMissed
    <3>1. Written(s)' = Turn(s)' - Queued(s)' BY <2>3, KeysStay DEF Written
    <3>2. Written(s) = Turn(s) BY <1>5, <1>12, <2>3 DEF Written
    <3>3. CASE sends
      <4>1. Queued(s)' = 1 /\ Turn(s)' = Turn(s) + 1 BY <1>8, <1>11, <1>14, <3>3
      <4>2. Written(s)' = Turn(s) BY <1>5, <3>1, <4>1
      <4> QED BY <2>1, <3>2, <4>2
    <3>4. CASE ~sends
      <4>1. Queued(s)' = 0 /\ Turn(s)' = Turn(s) + 0 BY <1>8, <1>11, <1>14, <3>4
      <4>2. Written(s)' = Turn(s) BY <1>5, <3>1, <4>1
      <4> QED BY <2>1, <3>2, <4>2
    <3> QED BY <3>3, <3>4
  <2> QED BY <2>2, <2>3
<1>17. Heard(s) + d <= Written(t)
  <2>1. /\ Turn(t) <= Heard(s) + 1 /\ Heard(s) <= Written(t) /\ Written(t) <= Turn(t)
        /\ Written(t) \in Int
    BY <1>2, NotFarAhead
  <2>2. CASE waits
    <3>1. Written(t) % CharRange = (Heard(s) + 1) % CharRange BY <1>3, <1>4, <1>7, <2>2 DEF WritePong
    <3>2. Written(t) # Heard(s) BY <1>5, <3>1, NextDiffers
    <3> QED BY <1>5, <1>8, <2>1, <2>2, <3>2
  <2>3. CASE ~waits BY <1>5, <1>8, <2>1, <2>3
  <2> QED BY <2>2, <2>3
<1>18. Turn(s) + e <= Iters BY <1>4, <1>5, <1>8
<1>19. /\ s = "server" => /\ Turn(s) + e \in {Heard(s) + d, Heard(s) + d + 1}
                          /\ Turn(s) + e = Heard(s) + d + 1 \/ Turn(s) + e >= Iters
       /\ s = "client" => Turn(s) + e = Heard(s) + d
  <2>1. CASE s = "server"
    <3>1. Turn(s) = Heard(s) + 1 \/ (Turn(s) = 0 /\ Heard(s) = 0) BY <1>1, <1>4, <2>1 DEF WritePong
    <3> QED BY <1>4, <1>5, <1>8, <2>1, <3>1, SMTT(30)
  <2>2. CASE s = "client"
    <3>1. Turn(s) = Heard(s) BY <1>4, <2>2 DEF WritePong
    <3> QED BY <1>5, <1>8, <2>2, <3>1
  <2> QED BY <2>1, <2>2 DEF Sides
<1>20. WritePong(s)'
  <2>1. Heard(t)' <= Written(s)'
    <3>1. Heard(t) <= Written(s) BY <1>4 DEF WritePong
    <3> QED BY <1>11, <1>16, <3>1
  <2>2. word'[t][0] = Written(s)' % CharRange BY <1>4, <1>6, <1>16 DEF WritePong
  <2>3. scq'[s][0].word + Queued(s)' = Turn(s)' - run'[s].ccnt[0]
    BY <1>5, <1>6, <1>8, <1>11, <1>12, <1>14
  <2>4. Turn(s)' = run'[s].ccnt[0] + 1 \/ (Turn(s)' = run'[s].ccnt[0] /\ Turn(s)' >= Iters)
    BY <1>5, <1>8, <1>11, <1>12
  <2>5. mine'[s][0] = Turn(s)' % CharRange BY <1>11, <1>15
  <2>6. sq'[s][0] \in {<<>>, <<Byte>>} BY <1>14
  <2> QED BY <1>6, <1>11, <1>19, <2>1, <2>2, <2>3, <2>4, <2>5, <2>6 DEF WritePong
<1>21. WritePong(t)'
  <2>1. Heard(s)' <= Written(t)' BY <1>11, <1>16, <1>17
  <2>2. word'[s][0] = Written(t)' % CharRange BY <1>3, <1>4, <1>6, <1>16 DEF WritePong
  <2> QED BY <1>3, <1>4, <1>6, <1>11, <1>13, <2>1, <2>2 DEF WritePong
<1> QED BY <1>2, <1>3, <1>4, <1>6, <1>11, <1>18, <1>20, <1>21 DEF PongInv

LEMMA WritePollPong ==
  ASSUME LoopInv, PongInv, Latency, NEW s \in Sides, opt' = opt, LatWritePoll(s) PROVE PongInv'
<1> DEFINE t == Peer(s)
           polls == run[s].ccnt[0] < Iters
           d == IF polls THEN 1 ELSE 0
           c == run[s].ccnt[0] + d
           old == run[s]
           new == [old EXCEPT !.ccnt[0] = c]
           more == Turn(s) < Iters \/ c < Iters \/ Heard(s) < Iters
<1>1. /\ SideOK(s) /\ PlaceOK(s) /\ at[s] = "lat_write_poll" /\ Domains /\ RunOK(run[s])
      /\ 0 \in Ids /\ scq[s] \in [Ids -> Boxes]
  BY SideIs, Same DEF LatWritePoll, SideOK
<1>2. Loop = "lat_write" /\ Loop' = "lat_write" BY <1>1, PlaceTells, LoopStays DEF PlacesOf
<1>3. t \in Sides /\ t # s /\ Peer(t) = s /\ Sides = {s, t} BY Two
<1>4. /\ Turn(s) <= Iters /\ WritePong(s)
      /\ Turn(t) <= Iters /\ WritePong(t)
      /\ at[t] \in {"idle", "ready"} => Turn(t) = 0 /\ Heard(t) = 0 /\ run[t].ccnt[0] = 0
  BY <1>2, <1>3 DEF PongInv
<1>5. /\ Turn(s) \in Nat /\ Heard(s) \in Nat /\ Queued(s) \in Nat /\ Iters \in Nat
      /\ scq[s][0].word \in Nat /\ run[s].ccnt[0] \in Int
  BY <1>3, NumbersAre
<1>6. /\ Iters' = Iters /\ UNCHANGED <<sq, rcq, word, mine>> BY LatencyStays DEF LatWritePoll
<1>7. /\ run' = [run EXCEPT ![s].ccnt[0] = c]
      /\ scq' = IF polls THEN [scq EXCEPT ![s][0].word = @ - 1] ELSE scq
      /\ at' = [at EXCEPT ![s] = IF more THEN "lat_write" ELSE "done"]
  BY LatencyIs DEF LatWritePoll, GoTo
<1>8. (polls <=> run[s].ccnt[0] < Iters) /\ (polls => d = 1) /\ (~polls => d = 0) OBVIOUS
<1>9. run' = [run EXCEPT ![s] = new] BY <1>7
<1>10. new.rcnt = run[s].rcnt /\ new.scnt = run[s].scnt /\ new.ccnt[0] = c
  BY <1>1 DEF RunOK, Counters
<1>11. more <=> Turn(s) < Iters \/ c < Iters \/ Heard(s) < Iters OBVIOUS
<1>12. c = run[s].ccnt[0] + d OBVIOUS
<1>13. /\ polls => scq'[s][0].word = scq[s][0].word - 1
       /\ ~polls => scq'[s][0].word = scq[s][0].word
       /\ scq'[t] = scq[t]
  BY <1>1, <1>3, <1>7 DEF Domains, Boxes
<1> HIDE DEF new, d, polls, more, c
<1>14. /\ Turn(s)' = Turn(s) /\ Heard(s)' = Heard(s) /\ run'[s].ccnt[0] = c
       /\ Turn(t)' = Turn(t) /\ Heard(t)' = Heard(t) /\ run'[t].ccnt[0] = run[t].ccnt[0]
       /\ at'[s] = (IF more THEN "lat_write" ELSE "done") /\ at'[t] = at[t]
  BY <1>1, <1>3, <1>7, <1>9, <1>10 DEF Turn, Heard, Domains
<1>15. /\ Queued(s)' = Queued(s) /\ Queued(t)' = Queued(t)
       /\ Written(s)' = Written(s) /\ Written(t)' = Written(t)
  BY <1>6, <1>14, KeysStay DEF Written, Queued
<1>16. c = Turn(s)
  <2>1. Turn(s) = run[s].ccnt[0] + 1 \/ (Turn(s) = run[s].ccnt[0] /\ Turn(s) >= Iters)
    BY <1>1, <1>4 DEF WritePong
  <2> QED BY <1>4, <1>5, <1>8, <1>12, <2>1
<1>17. scq'[s][0].word + Queued(s) = Turn(s) - c
  <2>1. scq[s][0].word + Queued(s) = Turn(s) - run[s].ccnt[0] BY <1>4 DEF WritePong
  <2> QED BY <1>5, <1>8, <1>12, <1>13, <2>1
<1>18. s = "server" /\ more => Turn(s) = Heard(s) + 1 \/ (Turn(s) = 0 /\ Heard(s) = 0)
  <2>1. CASE s = "server"
    <3>1. Turn(s) \in {Heard(s), Heard(s) + 1} /\ (Turn(s) = Heard(s) + 1 \/ Turn(s) >= Iters)
      BY <1>1, <1>4, <2>1 DEF WritePong
    <3> QED BY <1>5, <1>11, <1>16, <3>1
  <2> QED BY <2>1
<1>19. WritePong(s)'
  BY <1>4, <1>6, <1>14, <1>15, <1>16, <1>17, <1>18 DEF WritePong
<1>20. WritePong(t)'
  BY <1>3, <1>4, <1>6, <1>13, <1>14, <1>15 DEF WritePong
<1> QED BY <1>2, <1>3, <1>4, <1>6, <1>14, <1>19, <1>20 DEF PongInv

(***************************************************************************)
(* The other steps of a ping pong.                                         *)
(***************************************************************************)
LEMMA PreparePong ==
  ASSUME LoopInv, PongInv, Latency, NEW s \in Sides, opt' = opt, Prepare(s) PROVE PongInv'
<1> DEFINE flag == [q \in Ids |-> ListFlag(1)]
           posted == [q \in Ids |-> Rposted]
           new == [run[s] EXCEPT !.flag = flag, !.posted = posted]
<1>1. Domains /\ RunOK(run[s]) BY SideIs, Same
<1>2. /\ at[s] = "idle" /\ at' = [at EXCEPT ![s] = "ready"]
      /\ run' = [run EXCEPT ![s].flag = flag, ![s].posted = posted]
      /\ UNCHANGED <<sq, rcq, scq, mine, word>>
  BY DEF Prepare
<1> HIDE DEF flag, posted
<1>3. run' = [run EXCEPT ![s] = new]
  <2>1. DOMAIN run = Sides BY <1>1 DEF Domains
  <2> QED BY <1>2, <2>1
<1>4. new.scnt = run[s].scnt /\ new.rcnt = run[s].rcnt /\ new.ccnt = run[s].ccnt
  BY <1>1, CountersAre DEF RunOK
<1> HIDE DEF new
<1>5. ASSUME NEW x \in Sides
      PROVE  Turn(x)' = Turn(x) /\ Heard(x)' = Heard(x) /\ run'[x].ccnt[0] = run[x].ccnt[0]
             /\ (at'[x] = at[x] \/ (at[x] = "idle" /\ at'[x] = "ready"))
  <2>1. run'[x].scnt = run[x].scnt /\ run'[x].rcnt = run[x].rcnt /\ run'[x].ccnt = run[x].ccnt
    BY <1>1, <1>3, <1>4 DEF Domains
  <2>2. at'[x] = at[x] \/ (at[x] = "idle" /\ at'[x] = "ready") BY <1>1, <1>2 DEF Domains
  <2> QED BY <2>1, <2>2 DEF Turn, Heard
<1> QED BY <1>2, <1>5, PongStill

LEMMA BeginPong == ASSUME LoopInv, PongInv, Latency, NEW s \in Sides, Begin(s) PROVE PongInv'
<1> DEFINE started == s = "client"
           new == [run[s] EXCEPT !.started = started]
<1>1. Domains /\ RunOK(run[s]) BY SideIs, Same
<1>2. /\ at[s] = "ready" /\ at' = [at EXCEPT ![s] = Start(s)] /\ opt' = opt
      /\ run' = [run EXCEPT ![s].started = started]
      /\ UNCHANGED <<sq, rcq, scq, mine, word>>
  BY DEF Begin, GoTo
<1>3. Start(s) \in {"lat_send", "lat_write"} BY DEF Start, Latency
<1> HIDE DEF started
<1>4. run' = [run EXCEPT ![s] = new] BY <1>1, <1>2 DEF Domains
<1>5. new.scnt = run[s].scnt /\ new.rcnt = run[s].rcnt /\ new.ccnt = run[s].ccnt
  BY <1>1, CountersAre DEF RunOK
<1> HIDE DEF new
<1>6. ASSUME NEW x \in Sides
      PROVE  Turn(x)' = Turn(x) /\ Heard(x)' = Heard(x) /\ run'[x].ccnt[0] = run[x].ccnt[0]
             /\ (at'[x] = at[x] \/ (at[x] = "ready" /\ at'[x] \in {"lat_send", "lat_write"}))
  <2>1. run'[x].scnt = run[x].scnt /\ run'[x].rcnt = run[x].rcnt /\ run'[x].ccnt = run[x].ccnt
    BY <1>1, <1>4, <1>5 DEF Domains
  <2>2. at'[x] = at[x] \/ (at[x] = "ready" /\ at'[x] \in {"lat_send", "lat_write"})
    BY <1>1, <1>2, <1>3 DEF Domains
  <2> QED BY <2>1, <2>2 DEF Turn, Heard
<1> QED BY <1>2, <1>6, PongStill

\* The loop of a ping pong is one of two.
LEMMA WorkPong == ASSUME LoopInv, PongInv, Latency, NEW s \in Sides, Work(s) PROVE PongInv'
<1>1. PlaceOK(s) /\ opt' = opt BY SideIs DEF Work
<1>2. at[s] \in Elsewhere \cup PlacesOf["lat_write"] \cup PlacesOf["lat_send"]
  BY <1>1 DEF PlaceOK, Latency
<1>3. LatWriteRound(s) \/ LatWritePoll(s) \/ LatSendReceive(s) \/ LatSendPost(s) \/ LatSendPoll(s)
  <2>1. BwStep(s) \/ LatStep(s) BY DEF Work
  <2>2. ~BwStep(s)
    BY <1>2 DEF Elsewhere, PlacesOf, BwStep, BwPost, BwPoll, BwServerReceive, BwServerCredit, BwServerEnd,
       CleanCredit, InfinitePost, InfinitePoll, InfiniteReceive, InfiniteCredit, BiPost, BiReceive, BiCredit,
       BiPoll
  <2>3. ~LatPost(s) /\ ~LatPoll(s) /\ ~BurstServe(s) /\ ~BurstServePoll(s) /\ ~BurstPost(s) /\ ~BurstPoll(s)
    BY <1>2 DEF Elsewhere, PlacesOf, LatPost, LatPoll, BurstServe, BurstServePoll, BurstPost, BurstPoll
  <2> QED BY <2>1, <2>2, <2>3 DEF LatStep
<1> QED BY <1>1, <1>3, WriteRoundPong, WritePollPong, SendReceivePong, SendPostPong, SendPollPong

LEMMA PongNextKept == ASSUME LoopInv, RefusedInv, PongInv, [Next]_vars PROVE PongInv'
<1>1. opt' = opt
  BY DEF vars, Next, Network, Program, Talk, CmAllocate, CmEnter, CmHandler, CmLeave, Initialize, Credit, Pair,
     Ready, Begin, Work, Over, Disconnects, Destroys, Ends, Crash, CmGone, Meet, CmKernel, Wire, Device, Interrupt
<1>2. CASE ~Latency
  <2>1. ~Latency' BY <1>1, <1>2, LatencyStays
  <2> QED BY <2>1 DEF PongInv
<1>3. CASE Latency
  <2>1. ASSUME UNCHANGED <<sq, rcq, scq, mine, word, run, at>> PROVE PongInv'
    BY <1>1, <2>1, PongStill DEF Turn, Heard
  <2>2. ASSUME NEW s \in Sides, Interrupt(s) PROVE PongInv'
    <3>1. Alarm(s) \/ CheckAlive(s) \/ SendError(s) BY <2>2 DEF Interrupt
    <3>2. CASE Alarm(s) BY <2>1, <3>2 DEF Alarm
    <3>3. CASE CheckAlive(s) \/ SendError(s)
      <4>1. /\ at' = [at EXCEPT ![s] = "failed"] /\ UNCHANGED <<sq, rcq, scq, mine, word, run>>
        BY <3>3 DEF CheckAlive, SendError, GoTo
      <4>2. \A x \in Sides : at'[x] = at[x] \/ at'[x] = "failed" BY <4>1, Same DEF Domains
      <4> QED BY <1>1, <4>1, <4>2, PongStill DEF Turn, Heard
    <3> QED BY <3>1, <3>2, <3>3
  <2>3. ASSUME NEW s \in Sides, NEW q \in Ids, Device(s, q) PROVE PongInv'
    BY <1>1, <1>3, <2>3, ServePong DEF Device
  <2>4. ASSUME NEW s \in Sides, Ready(s) PROVE PongInv' BY <1>1, <1>3, <2>4, PreparePong DEF Ready
  <2>5. ASSUME NEW s \in Sides, Begin(s) PROVE PongInv' BY <1>3, <2>5, BeginPong
  <2>6. ASSUME NEW s \in Sides, Work(s) PROVE PongInv' BY <1>3, <2>6, WorkPong
  <2>7. ASSUME NEW s \in Sides,
               Talk(s) \/ CmAllocate(s) \/ CmEnter(s) \/ CmHandler(s) \/ CmLeave(s) \/ Initialize(s)
               \/ Credit(s) \/ Pair(s) \/ Over(s) \/ Disconnects(s) \/ Destroys(s) \/ Ends(s)
               \/ Crash(s) \/ CmGone(s)
        PROVE PongInv'
    BY <2>1, <2>7 DEF Talk, CmAllocate, CmEnter, CmHandler, CmLeave, Initialize, Credit, Pair, Over,
       Disconnects, Destroys, Ends, Crash, CmGone, queueVars
  <2>8. ASSUME Meet \/ CmKernel \/ Wire PROVE PongInv' BY <2>1, <2>8 DEF Meet, CmKernel, Wire, queueVars
  <2>9. CASE UNCHANGED vars BY <2>1, <2>9 DEF vars, queueVars
  <2> QED BY <2>2, <2>3, <2>4, <2>5, <2>6, <2>7, <2>8, <2>9 DEF Next, Network, Program
<1> QED BY <1>2, <1>3

LEMMA PongAtStart == Init => PongInv
<1> SUFFICES ASSUME Init PROVE PongInv OBVIOUS
<1>1. OptOK /\ 0 \in Ids BY OptOKAtStart, IdsAre
<1>2. Iters \in Nat BY <1>1 DEF Iters, OptOK, Parameters
<1>3. ASSUME NEW s \in Sides
      PROVE  /\ Turn(s) = 0 /\ Heard(s) = 0 /\ run[s].ccnt[0] = 0 /\ rcq[s][0] = 0 /\ sq[s][0] = <<>>
             /\ scq[s][0].word = 0 /\ mine[s][0] = 0 /\ word[s][0] = 0 /\ at[s] = "idle"
  BY <1>1, <1>3 DEF Init, QueuesInit, Counters, Zero, Turn, Heard
<1>4. 0 % CharRange = 0 BY CharAssumption
<1>5. ASSUME NEW s \in Sides PROVE SendPong(s)
  <2>1. Peer(s) \in Sides BY Two
  <2>2. Queued(s) = 0 BY <1>3 DEF Queued
  <2> QED BY <1>3, <2>1, <2>2 DEF SendPong, Ahead, Echoing
<1>6. ASSUME NEW s \in Sides PROVE WritePong(s)
  <2>1. Peer(s) \in Sides BY Two
  <2>2. Queued(s) = 0 BY <1>3 DEF Queued
  <2>3. Written(s) = 0 BY <1>3, <2>2 DEF Written
  <2> QED BY <1>3, <1>4, <2>1, <2>2, <2>3 DEF WritePong
<1> QED BY <1>2, <1>3, <1>5, <1>6 DEF PongInv

LEMMA PongMeans == LoopInv /\ PongInv => PingPong
<1> DEFINE first == IF Loop = "lat_send" THEN "client" ELSE "server"
<1> SUFFICES ASSUME LoopInv, PongInv, Loop \in {"lat_write", "lat_send"}, ~InDuration
             PROVE  /\ Turn(first) - Turn(Peer(first)) \in {0, 1}
                    /\ \A s \in Sides : Heard(s) <= Turn(Peer(s))
  BY Zenon DEF PingPong
<1>1. Latency BY DEF Latency
<1>2. "client" \in Sides /\ "server" \in Sides /\ Peer("client") = "server" /\ Peer("server") = "client"
  BY DEF Sides, Peer
<1>3. /\ Turn("client") \in Nat /\ Turn("server") \in Nat /\ Heard("client") \in Nat /\ Heard("server") \in Nat
      /\ Queued("client") \in Nat /\ Queued("server") \in Nat
      /\ rcq["client"][0] \in Nat /\ rcq["server"][0] \in Nat
  BY <1>2, NumbersAre
<1>4. CASE Loop = "lat_send"
  <2>1. SendPong("client") /\ SendPong("server") BY <1>1, <1>2, <1>4 DEF PongInv
  <2>2. Turn("client") \in {Heard("client"), Heard("client") + 1} BY <2>1 DEF SendPong, Ahead
  <2>3. Heard("server") \in {Turn("server"), Turn("server") + 1} BY <2>1 DEF SendPong, Echoing
  <2>4. Heard("server") + rcq["server"][0] + Queued("client") <= Turn("client") BY <1>2, <2>1 DEF SendPong
  <2>5. Heard("client") + rcq["client"][0] + Queued("server") <= Turn("server") BY <1>2, <2>1 DEF SendPong
  <2>6. Heard("server") <= Turn("client") /\ Heard("client") <= Turn("server") BY <1>3, <2>4, <2>5
  <2>7. Turn("client") - Turn("server") \in {0, 1} BY <1>3, <2>2, <2>3, <2>6
  <2> QED BY <1>2, <1>4, <2>6, <2>7 DEF Sides
<1>5. CASE Loop = "lat_write"
  <2>1. WritePong("client") /\ WritePong("server") BY <1>1, <1>2, <1>5 DEF PongInv
  <2>2. Turn("server") \in {Heard("server"), Heard("server") + 1} /\ Turn("client") = Heard("client")
    BY <2>1 DEF WritePong
  <2>3. ASSUME NEW s \in Sides PROVE Heard(s) <= Turn(Peer(s))
    <3>1. Peer(s) \in Sides /\ Heard(s) \in Nat /\ Turn(Peer(s)) \in Nat BY Two, NumbersAre
    <3>2. /\ Heard(s) <= Written(Peer(s)) /\ Written(Peer(s)) <= Turn(Peer(s)) /\ Written(Peer(s)) \in Int
      BY <1>1, <1>5, NotFarAhead
    <3> QED BY <3>1, <3>2
  <2>4. Heard("server") <= Turn("client") /\ Heard("client") <= Turn("server") BY <1>2, <2>3
  <2>5. Turn("server") - Turn("client") \in {0, 1} BY <1>3, <2>2, <2>4
  <2> QED BY <1>2, <1>5, <2>3, <2>5
<1> QED BY <1>4, <1>5

\* In a ping pong without a time limit the messages of a side that wait in its own
\* queue, wait at the peer and were heard there are together no more than it has
\* sent, and where each side stands in its round says by how many its turns and
\* its hearing differ; every byte written waits to be served, or its completion
\* waits, or was counted; and the byte in the peer's memory is the last that was
\* written there, whichever it wrapped to (run_iter_lat_send, run_iter_lat_write).
THEOREM PongAccounts == Spec => []PongInv
<1>1. Spec => []RefusedInv
  <2>1. RefusedInv /\ [Next]_vars => RefusedInv' BY RefusedKept
  <2> QED BY <2>1, RefusedAtStart, PTL DEF Spec
<1>2. LoopInv /\ RefusedInv /\ PongInv /\ [Next]_vars => PongInv' BY PongNextKept
<1> QED BY <1>1, <1>2, LoopsKeepTheirPlaces, PongAtStart, PTL DEF Spec

\* However the sides and the device interleave, the two ends of a ping pong are
\* never more than one message apart, and neither has heard what the other did
\* not say: neither with messages nor with a byte that wraps.
THEOREM PingPongHolds == Spec => []PingPong
  BY LoopsKeepTheirPlaces, PongAccounts, PongMeans, PTL

(***************************************************************************)
(* Credits.  A message is queued, or has arrived and is not yet counted,   *)
(* or is counted; the count a sender has been told is one the receiver     *)
(* once had; and the sender is less than rx_depth ahead of it.  A receiver *)
(* puts each receive back as it counts, so that those posted and those     *)
(* used and not yet counted are rx_depth, until the test asks for no more. *)
(***************************************************************************)

\* A bandwidth test with credits, one queue pair and single receives: one queue
\* pair and recv_post_list 1 are the defaults.  Its iterations are whole lists of
\* requests, which the parser sees to (perftest_parameters.c:1124), and its
\* window does not wrap: the counters of the code have 64 bits.
Credited ==
  /\ opt.send_rcredit /\ opt.tst = "BW" /\ opt.num_of_qps = 1 /\ opt.recv_post_list = 1
  /\ opt.rx_depth + opt.post_list <= Wrap
  /\ InDuration \/ \E k \in Nat : opt.iters = k * opt.post_list
\* The test has an end that is counted.
Bounded == ~InDuration /\ Loop # "infinite"

\* The messages among the requests of a queue.
Unserved(w) == Cardinality({k \in DOMAIN w : w[k].kind = "send"})
Sent(s) == run[s].scnt[0]
Counted(s) == run[s].rcnt[0]

\* What s has sent waits in its queue or at the peer, or has been counted there;
\* what it is told was counted; it is less than rx_depth ahead of what it is told.
Window(s) ==
  LET t == Peer(s) IN
  /\ Unserved(sq[s][0]) + rcq[t][0] + Counted(t) <= Sent(s)
  /\ word[s][0] <= mine[t][0] /\ mine[t][0] <= Counted(t)
  /\ Sent(s) = 0 \/ (Receives(t) /\ Sent(s) < word[s][0] + opt.rx_depth)
  /\ Bounded => Sent(s) <= Iters /\ \E j \in Nat : Sent(s) = j * opt.post_list

\* A receiver has rx_depth receives, posted or used and not polled, or as many as
\* the test still asks for.
Stock(s) ==
  /\ run[s].unused[0] >= 0
  /\ at[s] = "idle" => rq[s][0] = 0 /\ rcq[s][0] = 0 /\ Counted(s) = 0
  /\ at[s] # "idle" /\ Receives(s) =>
       /\ Loop # "infinite" => run[s].posted[0] = rq[s][0] + rcq[s][0] + Counted(s)
       /\ rq[s][0] + rcq[s][0] = opt.rx_depth \/ (Bounded /\ Iters <= rq[s][0] + rcq[s][0] + Counted(s))

FlowInv == Credited => \A s \in Sides : Window(s) /\ Stock(s)

Sendings(w) == {k \in DOMAIN w : w[k].kind = "send"}

LEMMA MessagesAre ==
  ASSUME NEW w \in Seq(Requests)
  PROVE  /\ Unserved(w) \in Nat /\ Unserved(w) = Cardinality(Sendings(w))
         /\ IsFiniteSet(Sendings(w)) /\ Sendings(w) \subseteq 1..Len(w) /\ Len(w) \in Nat
<1>1. DOMAIN w = 1..Len(w) /\ Len(w) \in Nat BY LenProperties
<1>2. IsFiniteSet(1..Len(w)) BY <1>1, FS_Interval
<1>3. Sendings(w) \subseteq 1..Len(w) BY <1>1 DEF Sendings
<1>4. IsFiniteSet(Sendings(w)) BY <1>2, <1>3, FS_Subset
<1>5. Unserved(w) = Cardinality(Sendings(w)) BY DEF Unserved, Sendings
<1> QED BY <1>1, <1>3, <1>4, <1>5, FS_CardinalityType

\* Unserved go behind the others.
LEMMA MessagesMore ==
  ASSUME NEW w \in Seq(Requests), NEW n \in Nat, NEW m \in [1..n -> Requests],
         \A k \in 1..n : m[k].kind = "send"
  PROVE  Unserved(w \o m) = Unserved(w) + n
<1>1. m \in Seq(Requests) /\ Len(m) = n BY SeqDef, LenProperties
<1>2. PICK l \in Nat : l = Len(w) BY LenProperties
<1>3. /\ w \o m \in Seq(Requests) /\ Len(w \o m) = l + n
      /\ \A i \in 1..(l + n) : (w \o m)[i] = IF i <= l THEN w[i] ELSE m[i - l]
  BY <1>1, <1>2, ConcatProperties
<1>4. Sendings(w \o m) = Sendings(w) \cup (l + 1)..(l + n)
  <2>1. DOMAIN (w \o m) = 1..(l + n) /\ DOMAIN w = 1..l BY <1>2, <1>3, LenProperties
  <2>2. \A i \in 1..l : (w \o m)[i] = w[i] BY <1>3
  <2>3. \A i \in (l + 1)..(l + n) : (w \o m)[i].kind = "send"
    <3>1. \A i \in (l + 1)..(l + n) : i - l \in 1..n /\ (w \o m)[i] = m[i - l] BY <1>3
    <3> QED BY <3>1
  <2>4. 1..(l + n) = 1..l \cup (l + 1)..(l + n) OBVIOUS
  <2> QED BY <2>1, <2>2, <2>3, <2>4 DEF Sendings
<1>5. Sendings(w) \cap (l + 1)..(l + n) = {} BY <1>2, MessagesAre
<1>6. /\ IsFiniteSet((l + 1)..(l + n)) /\ Cardinality((l + 1)..(l + n)) = n
      /\ IsFiniteSet({}) /\ Cardinality({}) = 0
  <2> DEFINE a == l + 1
             b == l + n
  <2>1. a \in Int /\ b \in Int /\ (a > b => n = 0) /\ b - a + 1 = n BY <1>2
  <2> HIDE DEF a, b
  <2>2. IsFiniteSet(a..b) /\ Cardinality(a..b) = IF a > b THEN 0 ELSE b - a + 1 BY <2>1, FS_Interval
  <2>3. IsFiniteSet(a..b) /\ Cardinality(a..b) = n BY <2>1, <2>2
  <2> QED BY <2>3, FS_EmptySet DEF a, b
<1>7. Cardinality(Sendings(w \o m)) = Cardinality(Sendings(w)) + n - 0
  <2>1. IsFiniteSet(Sendings(w)) BY MessagesAre
  <2>2. Cardinality(Sendings(w) \cup (l + 1)..(l + n))
          = Cardinality(Sendings(w)) + Cardinality((l + 1)..(l + n)) - Cardinality(Sendings(w) \cap (l + 1)..(l + n))
    BY <1>6, <2>1, FS_Union
  <2> QED BY <1>4, <1>5, <1>6, <2>2
<1>8. Unserved(w \o m) = Cardinality(Sendings(w \o m)) /\ Unserved(w) = Cardinality(Sendings(w)) /\ Unserved(w) \in Nat
  BY <1>3, MessagesAre
<1> QED BY <1>7, <1>8

\* A count among them is none.
LEMMA MessagesWord ==
  ASSUME NEW w \in Seq(Requests), NEW x \in Requests, x.kind # "send"
  PROVE  Unserved(Append(w, x)) = Unserved(w)
<1>1. PICK l \in Nat : l = Len(w) BY LenProperties
<1>2. /\ Append(w, x) \in Seq(Requests) /\ Len(Append(w, x)) = l + 1
      /\ \A i \in 1..l : Append(w, x)[i] = w[i]
      /\ Append(w, x)[l + 1] = x
  BY <1>1, AppendProperties
<1>3. DOMAIN Append(w, x) = 1..(l + 1) /\ DOMAIN w = 1..l BY <1>1, <1>2, LenProperties
<1>4. 1..(l + 1) = 1..l \cup {l + 1} OBVIOUS
<1>5. Sendings(Append(w, x)) = Sendings(w) BY <1>2, <1>3, <1>4 DEF Sendings
<1> QED BY <1>2, <1>5, MessagesAre

\* The oldest request goes.
LEMMA MessagesTail ==
  ASSUME NEW w \in Seq(Requests), w # <<>>
  PROVE  /\ Head(w).kind = "send" => Unserved(w) >= 1 /\ Unserved(Tail(w)) = Unserved(w) - 1
         /\ Head(w).kind # "send" => Unserved(Tail(w)) = Unserved(w)
<1> DEFINE S == Sendings(w) \ {1}
           T == Sendings(Tail(w))
           f == [k \in S |-> k - 1]
<1>1. PICK l \in Nat : l = Len(w) BY LenProperties
<1>2. /\ Tail(w) \in Seq(Requests) /\ Len(Tail(w)) = l - 1 /\ l > 0
      /\ \A i \in 1..(l - 1) : Tail(w)[i] = w[i + 1]
  <2>1. l # 0 BY <1>1, EmptySeq
  <2>2. /\ Tail(w) \in Seq(Requests) /\ Len(Tail(w)) = Len(w) - 1
        /\ \A i \in 1..Len(Tail(w)) : Tail(w)[i] = w[i + 1]
    BY HeadTailProperties
  <2> QED BY <1>1, <2>1, <2>2
<1>3. DOMAIN Tail(w) = 1..(l - 1) /\ DOMAIN w = 1..l BY <1>1, <1>2, LenProperties
<1>4. S \subseteq 2..l /\ T \subseteq 1..(l - 1) BY <1>2, <1>3 DEF Sendings
<1>5. \A k \in S : k - 1 \in T
  <2> SUFFICES ASSUME NEW k \in S PROVE k - 1 \in T OBVIOUS
  <2>1. k \in 2..l /\ w[k].kind = "send" BY <1>4 DEF Sendings
  <2>2. k - 1 \in 1..(l - 1) /\ (k - 1) + 1 = k BY <1>2, <2>1
  <2>3. Tail(w)[k - 1] = w[k] BY <1>2, <2>2
  <2> QED BY <1>3, <2>1, <2>2, <2>3 DEF Sendings
<1>6. \A j \in T : j + 1 \in S
  <2> SUFFICES ASSUME NEW j \in T PROVE j + 1 \in S OBVIOUS
  <2>1. j \in 1..(l - 1) /\ Tail(w)[j].kind = "send" BY <1>4 DEF Sendings
  <2>2. w[j + 1].kind = "send" /\ j + 1 \in 1..l /\ j + 1 # 1 BY <1>2, <2>1
  <2> QED BY <1>3, <2>2 DEF Sendings
<1> HIDE DEF S, T
<1>7. ExistsBijection(S, T)
  <2>1. f \in [S -> T] BY <1>5
  <2>2. \A a, b \in S : f[a] = f[b] => a = b BY <1>4
  <2>3. \A j \in T : \E k \in S : f[k] = j
    <3> SUFFICES ASSUME NEW j \in T PROVE \E k \in S : f[k] = j OBVIOUS
    <3>1. j \in Int BY <1>4
    <3>2. j + 1 \in S /\ f[j + 1] = j BY <1>6, <3>1
    <3> QED BY <3>2
  <2> QED BY <2>1, <2>2, <2>3 DEF ExistsBijection, Bijection, Injection, Surjection, IsInjective
<1>8. /\ IsFiniteSet(Sendings(w)) /\ Unserved(w) = Cardinality(Sendings(w)) /\ Unserved(w) \in Nat
      /\ Unserved(Tail(w)) = Cardinality(T)
  BY <1>2, MessagesAre DEF T
<1>9. /\ IsFiniteSet(S)
      /\ Cardinality(S) = IF 1 \in Sendings(w) THEN Cardinality(Sendings(w)) - 1 ELSE Cardinality(Sendings(w))
  BY <1>8, FS_RemoveElement DEF S
<1>10. Cardinality(T) = Cardinality(S) BY <1>7, <1>9, FS_Bijection
<1>11. Head(w) = w[1] /\ (1 \in Sendings(w) <=> Head(w).kind = "send")
  <2>1. 1 \in 1..l BY <1>2
  <2> QED BY <1>3, <2>1 DEF Sendings
<1>12. Cardinality(S) \in Nat BY <1>9, FS_CardinalityType
<1> QED BY <1>8, <1>9, <1>10, <1>11, <1>12

(***************************************************************************)
(* The bookkeeping of credits.                                             *)
(***************************************************************************)
LEMMA CreditedIs ==
  ASSUME LoopInv, Credited
  PROVE  /\ Loop \in {"bw", "bi", "infinite"} /\ opt.verb = "SEND" /\ opt.connection_type = "RC"
         /\ Qps = {0} /\ 0 \in Ids /\ Pool(0) = 0 /\ Rposted = opt.rx_depth
         /\ Loop = "bi" => opt.duplex
         /\ Receives("server") /\ (opt.duplex => Receives("client"))
         /\ opt.rx_depth \in Nat /\ opt.post_list \in Nat /\ Iters \in Nat /\ Wrap \in Nat \ {0}
<1>1. OptOK /\ opt.verb = "SEND" /\ opt.connection_type = "RC" /\ opt.tst = "BW" BY SideIs DEF LoopInv, OptOK, Credited
<1>2. /\ opt.rx_depth \in Nat /\ opt.post_list \in Nat /\ opt.iters \in Nat
      /\ opt.num_of_qps = 1 /\ opt.recv_post_list = 1
  BY <1>1 DEF OptOK, Parameters, Credited
<1>3. Loop \in {"bw", "bi", "infinite"} /\ (Loop = "bi" => opt.duplex) BY <1>1 DEF Loop
<1>4. Qps = {0} /\ 0 \in Ids BY <1>1, <1>2, IdsAre DEF Qps
<1>5. Pool(0) = 0 BY DEF Pool
<1>6. Rposted = opt.rx_depth
  <2>1. opt.rx_depth \div 1 = opt.rx_depth /\ opt.rx_depth * 1 = opt.rx_depth BY <1>2
  <2> QED BY <1>2, <2>1 DEF Rposted
<1>7. Receives("server") /\ (opt.duplex => Receives("client")) BY <1>1 DEF Receives, BothWays
<1>8. Iters \in Nat BY <1>2 DEF Iters
<1> QED BY <1>1, <1>2, <1>3, <1>4, <1>5, <1>6, <1>7, <1>8, WrapAssumption

LEMMA FlowNumbers ==
  ASSUME LoopInv, Credited, NEW s \in Sides
  PROVE  /\ Sent(s) \in Nat /\ Counted(s) \in Nat /\ run[s].unused[0] \in Int /\ run[s].posted[0] \in Int
         /\ rq[s][0] \in Nat /\ rcq[s][0] \in Nat /\ mine[s][0] \in Nat /\ word[s][0] \in Nat
         /\ sq[s][0] \in Seq(Requests) /\ Unserved(sq[s][0]) \in Nat
<1>1. SideOK(s) /\ RunOK(run[s]) /\ SendsOK(s) /\ 0 \in Ids BY SideIs, CreditedIs
<1>2. sq[s][0] \in Seq(Requests) BY <1>1 DEF SendsOK
<1>3. /\ Sent(s) \in Nat /\ Counted(s) \in Nat /\ run[s].unused[0] \in Int /\ run[s].posted[0] \in Int
  BY <1>1 DEF RunOK, Sent, Counted
<1>4. rq[s][0] \in Nat /\ rcq[s][0] \in Nat /\ mine[s][0] \in Nat /\ word[s][0] \in Nat
  BY <1>1 DEF SideOK
<1> QED BY <1>2, <1>3, <1>4, MessagesAre

LEMMA FlowStays ==
  ASSUME opt' = opt
  PROVE  /\ Credited' = Credited /\ Bounded' = Bounded /\ Iters' = Iters /\ Loop' = Loop
         /\ InDuration' = InDuration /\ \A s : Receives(s)' = Receives(s)
<1>1. Loop' = Loop BY LoopStays
<1>2. InDuration' = InDuration BY DEF InDuration
<1> QED BY <1>1, <1>2 DEF Credited, Bounded, Iters, Receives, BothWays

\* What the window and the stock are made of stays at this side.
Keeps(s) ==
  /\ Sent(s)' = Sent(s) /\ Counted(s)' = Counted(s)
  /\ run'[s].unused[0] = run[s].unused[0] /\ run'[s].posted[0] = run[s].posted[0]
Still(s) ==
  /\ Keeps(s)
  /\ Unserved(sq[s][0])' = Unserved(sq[s][0])
  /\ rq'[s][0] = rq[s][0] /\ rcq'[s][0] = rcq[s][0]
  /\ mine'[s][0] = mine[s][0] /\ word'[s][0] = word[s][0]
  /\ at'[s] = "idle" <=> at[s] = "idle"

LEMMA StockStill ==
  ASSUME opt' = opt, NEW s \in Sides, Stock(s), Still(s) PROVE Stock(s)'
  BY FlowStays DEF Stock, Still, Keeps

LEMMA FlowStill ==
  ASSUME FlowInv, opt' = opt, \A s \in Sides : Still(s) PROVE FlowInv'
<1> SUFFICES ASSUME Credited', NEW s \in Sides PROVE Window(s)' /\ Stock(s)' BY DEF FlowInv
<1>1. Credited /\ Peer(s) \in Sides BY FlowStays, Two
<1>2. Window(s) /\ Stock(s) BY <1>1 DEF FlowInv
<1>3. Stock(s)' BY <1>2, StockStill
<1>4. Window(s)' BY <1>1, <1>2, FlowStays DEF Window, Still, Keeps
<1> QED BY <1>3, <1>4

\* A receive completion is counted, and a receive may be put back.
LEMMA FlowTaken ==
  ASSUME LoopInv, FlowInv, Credited, NEW s \in Sides, opt' = opt, NEW r \in {0, 1}, NEW n \in {0, 1},
         at[s] # "idle", at'[s] # "idle", rcq[s][0] > 0,
         rcq'[s][0] = rcq[s][0] - 1, rq'[s][0] = rq[s][0] + r,
         Sent(s)' = Sent(s), Counted(s)' = Counted(s) + n,
         run'[s].unused[0] = run[s].unused[0] + 1 - r,
         Loop # "infinite" => run'[s].posted[0] = run[s].posted[0] + r,
         Unserved(sq[s][0])' = Unserved(sq[s][0]), word'[s][0] = word[s][0],
         mine'[s][0] = mine[s][0] \/ mine'[s][0] = Counted(s) + n,
         Still(Peer(s)),
         Loop = "infinite" => r = 1,
         Loop # "infinite" => n = 1 /\ (r = 1 <=> InDuration \/ run[s].posted[0] + 1 <= Iters)
  PROVE  FlowInv'
<1> DEFINE t == Peer(s)
<1>1. t \in Sides /\ t # s /\ Peer(t) = s /\ Sides = {s, t} BY Two
<1>2. Window(s) /\ Stock(s) /\ Window(t) /\ Stock(t) BY <1>1 DEF FlowInv
<1>3. /\ Sent(s) \in Nat /\ Counted(s) \in Nat /\ run[s].unused[0] \in Int /\ run[s].posted[0] \in Int
      /\ rq[s][0] \in Nat /\ rcq[s][0] \in Nat /\ mine[s][0] \in Nat /\ word[s][0] \in Nat
      /\ Unserved(sq[s][0]) \in Nat
      /\ Sent(t) \in Nat /\ rq[t][0] \in Nat /\ rcq[t][0] \in Nat /\ Unserved(sq[t][0]) \in Nat
      /\ word[t][0] \in Nat /\ Iters \in Nat
  BY <1>1, FlowNumbers, CreditedIs
<1>4. Stock(t)' BY <1>1, <1>2, StockStill
<1>5. Window(s)' BY <1>1, <1>2, FlowStays DEF Window, Still, Keeps
<1>6. Window(t)'
  <2>1. /\ Unserved(sq[t][0]) + rcq[s][0] + Counted(s) <= Sent(t)
        /\ word[t][0] <= mine[s][0] /\ mine[s][0] <= Counted(s)
        /\ Sent(t) = 0 \/ (Receives(s) /\ Sent(t) < word[t][0] + opt.rx_depth)
        /\ Bounded => Sent(t) <= Iters /\ \E j \in Nat : Sent(t) = j * opt.post_list
    BY <1>1, <1>2 DEF Window
  <2>2. Unserved(sq[t][0])' + rcq'[s][0] + Counted(s)' <= Sent(t)' BY <1>3, <2>1 DEF Still, Keeps
  <2>3. word'[t][0] <= mine'[s][0] /\ mine'[s][0] <= Counted(s)' BY <1>3, <2>1 DEF Still
  <2>4. Sent(t)' = Sent(t) /\ word'[t][0] = word[t][0] BY DEF Still, Keeps
  <2> QED BY <1>1, <2>1, <2>2, <2>3, <2>4, FlowStays DEF Window
<1>7. Stock(s)'
  <2>1. Receives(s)
    <3>1. Unserved(sq[t][0]) + rcq[s][0] + Counted(s) <= Sent(t) BY <1>1, <1>2 DEF Window
    <3>2. Sent(t) # 0 BY <1>3, <3>1
    <3> QED BY <1>1, <1>2, <3>2 DEF Window
  <2>2. /\ run[s].unused[0] >= 0
        /\ Loop # "infinite" => run[s].posted[0] = rq[s][0] + rcq[s][0] + Counted(s)
        /\ rq[s][0] + rcq[s][0] = opt.rx_depth \/ (Bounded /\ Iters <= rq[s][0] + rcq[s][0] + Counted(s))
    BY <1>2, <2>1 DEF Stock
  <2>3. run'[s].unused[0] >= 0 BY <1>3, <2>2
  <2>4. Loop # "infinite" => run'[s].posted[0] = rq'[s][0] + rcq'[s][0] + Counted(s)' BY <1>3, <2>2
  <2>5. rq'[s][0] + rcq'[s][0] = opt.rx_depth \/ (Bounded /\ Iters <= rq'[s][0] + rcq'[s][0] + Counted(s)')
    <3>1. CASE Loop = "infinite" BY <1>3, <2>2, <3>1 DEF Bounded
    <3>2. CASE Loop # "infinite" /\ r = 1 BY <1>3, <2>2, <3>2
    <3>3. CASE Loop # "infinite" /\ r = 0
      <4>1. Bounded /\ run[s].posted[0] + 1 > Iters BY <1>3, <3>3 DEF Bounded
      <4>2. rq'[s][0] + rcq'[s][0] + Counted(s)' = run[s].posted[0] BY <1>3, <2>2, <3>3
      <4> QED BY <1>3, <4>1, <4>2
    <3> QED BY <3>1, <3>2, <3>3
  <2> QED BY <2>3, <2>4, <2>5, FlowStays DEF Stock
<1> QED BY <1>1, <1>4, <1>5, <1>6, <1>7 DEF FlowInv

LEMMA NextList ==
  ASSUME NEW j \in Nat, NEW k \in Nat, NEW p \in Nat, j * p < k * p
  PROVE  j * p + p = (j + 1) * p /\ j * p + p <= k * p
<1>1. j * p + p = (j + 1) * p OBVIOUS
<1>2. j + 1 <= k
  <2>1. ~(k <= j)
    <3> SUFFICES ASSUME k <= j PROVE FALSE OBVIOUS
    <3>1. PICK d \in Nat : j = k + d
      <4>1. j - k \in Nat /\ j = k + (j - k) OBVIOUS
      <4> QED BY <4>1
    <3>2. j * p = k * p + d * p /\ d * p >= 0 /\ k * p \in Nat /\ d * p \in Nat BY <3>1
    <3> QED BY <3>2
  <2> QED BY <2>1
<1>3. PICK e \in Nat : k = (j + 1) + e
  <2>1. k - (j + 1) \in Nat /\ k = (j + 1) + (k - (j + 1)) BY <1>2
  <2> QED BY <2>1
<1>4. k * p = (j + 1) * p + e * p /\ e * p \in Nat /\ (j + 1) * p \in Nat BY <1>3
<1> QED BY <1>1, <1>4

LEMMA SmallRest == ASSUME NEW a \in Nat, NEW b \in Nat, a < b PROVE a % b = a
  OBVIOUS

\* The window that a sender sees, before it wraps.
LEMMA WindowSeen ==
  ASSUME LoopInv, FlowInv, Credited, NEW s \in Sides, HasCredit(s, 0)
  PROVE  Sent(s) + opt.post_list < word[s][0] + opt.rx_depth
<1> DEFINE t == Peer(s)
           d == (Sent(s) + opt.post_list) - word[s][0]
<1>1. t \in Sides /\ Window(s) BY Two DEF FlowInv
<1>2. /\ Sent(s) \in Nat /\ word[s][0] \in Nat /\ mine[t][0] \in Nat /\ Counted(t) \in Nat /\ rcq[t][0] \in Nat
      /\ Unserved(sq[s][0]) \in Nat /\ opt.rx_depth \in Nat /\ opt.post_list \in Nat /\ Wrap \in Nat \ {0}
      /\ opt.rx_depth + opt.post_list <= Wrap
  BY <1>1, FlowNumbers, CreditedIs DEF Credited
<1>3. word[s][0] <= Sent(s) /\ (Sent(s) = 0 \/ Sent(s) < word[s][0] + opt.rx_depth) BY <1>1, <1>2 DEF Window
<1>4. d % Wrap < opt.rx_depth
  <2>1. opt.send_rcredit BY DEF Credited
  <2>2. Minus(run[s].scnt[0] + opt.post_list, word[s][0]) < opt.rx_depth BY <2>1 DEF HasCredit
  <2>3. Minus(run[s].scnt[0] + opt.post_list, word[s][0]) = ((run[s].scnt[0] + opt.post_list) - word[s][0]) % Wrap
    BY Zenon DEF Minus
  <2>4. run[s].scnt[0] = Sent(s) BY DEF Sent
  <2>5. d % Wrap = Minus(run[s].scnt[0] + opt.post_list, word[s][0]) BY Zenon, <2>3, <2>4
  <2> HIDE DEF d
  <2> QED BY <2>2, <2>5
<1>5. d \in Nat /\ d <= Wrap /\ (d = Wrap => opt.rx_depth = 0) BY <1>2, <1>3
<1>6. d # Wrap
  <2> SUFFICES ASSUME d = Wrap PROVE FALSE OBVIOUS
  <2>1. d % Wrap \in Nat /\ opt.rx_depth = 0 BY <1>2, <1>5
  <2> QED BY <1>4, <2>1
<1> HIDE DEF d
<1>7. d % Wrap = d
  <2>1. d < Wrap BY <1>2, <1>5, <1>6
  <2> QED BY <1>2, <1>5, <2>1, SmallRest
<1>8. d < opt.rx_depth BY <1>4, <1>7
<1> QED BY <1>2, <1>8 DEF d

\* What a sender posts.
LEMMA PostIs ==
  ASSUME LoopInv, Credited, NEW s \in Sides, opt' = opt, PostNext(s, 0)
  PROVE  /\ Sent(s)' = Sent(s) + opt.post_list /\ Counted(s)' = Counted(s)
         /\ run'[s].unused[0] = run[s].unused[0] /\ run'[s].posted[0] = run[s].posted[0]
         /\ Unserved(sq[s][0])' = Unserved(sq[s][0]) + opt.post_list
         /\ \A t \in Sides \ {s} : run'[t] = run[t] /\ sq'[t] = sq[t]
<1> DEFINE r == run[s]
           n == r.scnt[0]
           single == opt.post_list = 1
           last == ~InDuration /\ n = Iters - 1
           sig == r.flag[0] /\ ~(single /\ n % opt.cq_mod = 0 /\ opt.cq_mod > 1 /\ ~last)
           after == n + opt.post_list
           next == single /\ (after % opt.cq_mod = opt.cq_mod - 1
                              \/ (~InDuration /\ after = Iters - 1))
           w == [j \in 1..opt.post_list |-> [kind |-> "send", sig |-> IF single THEN sig ELSE ListFlag(j)]]
           flag == sig \/ next
           new == [r EXCEPT !.scnt[0] = after, !.flag[0] = flag]
<1>1. opt.verb = "SEND" /\ 0 \in Ids /\ opt.post_list \in Nat BY CreditedIs
<1>2. sq' = [sq EXCEPT ![s][0] = @ \o w] BY <1>1 DEF PostNext
<1>3. run' = [run EXCEPT ![s].scnt[0] = after, ![s].flag[0] = flag] BY Zenon DEF PostNext
<1>4. Domains /\ RunOK(r) /\ SendsOK(s) BY SideIs
<1>5. sig \in BOOLEAN /\ \A j \in Nat : ListFlag(j) \in BOOLEAN BY DEF ListFlag
<1>6. w \in [1..opt.post_list -> Requests] /\ \A k \in 1..opt.post_list : w[k].kind = "send"
  <2> HIDE DEF sig, single
  <2> QED BY <1>1, <1>5 DEF Requests
<1> HIDE DEF w, sig, flag
<1>7. run' = [run EXCEPT ![s] = new] BY <1>3, <1>4 DEF Domains
<1>8. new.scnt[0] = after /\ new.rcnt = r.rcnt /\ new.unused = r.unused /\ new.posted = r.posted
  BY <1>1, <1>4, CountersAre DEF RunOK
<1> HIDE DEF new
<1>9. run'[s] = new /\ \A t \in Sides \ {s} : run'[t] = run[t] BY <1>7, RunMoves
<1>10. sq[s] \in [Ids -> Seq(Requests)] /\ DOMAIN sq = Sides BY <1>4 DEF SendsOK, Domains
<1>11. sq'[s][0] = sq[s][0] \o w /\ \A t \in Sides \ {s} : sq'[t] = sq[t] BY <1>1, <1>2, <1>10
<1>12. sq[s][0] \in Seq(Requests) BY <1>1, <1>10
<1>13. Unserved(sq[s][0] \o w) = Unserved(sq[s][0]) + opt.post_list BY <1>1, <1>6, <1>12, MessagesMore
<1>14. Unserved(sq[s][0])' = Unserved(sq'[s][0]) BY DEF Unserved
<1> QED BY <1>8, <1>9, <1>11, <1>13, <1>14 DEF Sent, Counted

LEMMA FlowPosted ==
  ASSUME LoopInv, FlowInv, Credited, NEW s \in Sides, opt' = opt, PostNext(s, 0), HasCredit(s, 0),
         Bounded => Sent(s) < Iters, Receives(Peer(s)), UNCHANGED <<rq, rcq, mine, word, at>>
  PROVE  FlowInv'
<1> DEFINE t == Peer(s)
<1>1. t \in Sides /\ t # s /\ Peer(t) = s /\ Sides = {s, t} BY Two
<1>2. Window(s) /\ Stock(s) /\ Window(t) /\ Stock(t) BY <1>1 DEF FlowInv
<1>3. /\ Sent(s) \in Nat /\ Counted(t) \in Nat /\ rcq[t][0] \in Nat /\ Unserved(sq[s][0]) \in Nat
      /\ opt.post_list \in Nat /\ Iters \in Nat
  BY <1>1, FlowNumbers, CreditedIs
<1>4. /\ Sent(s)' = Sent(s) + opt.post_list /\ Counted(s)' = Counted(s)
      /\ run'[s].unused[0] = run[s].unused[0] /\ run'[s].posted[0] = run[s].posted[0]
      /\ Unserved(sq[s][0])' = Unserved(sq[s][0]) + opt.post_list
      /\ run'[t] = run[t] /\ sq'[t] = sq[t]
  BY <1>1, PostIs
<1>5. Still(t)
  <2>1. Unserved(sq[t][0])' = Unserved(sq[t][0]) BY <1>4 DEF Unserved
  <2> QED BY <1>4, <2>1 DEF Still, Keeps, Sent, Counted
<1>6. Stock(t)' BY <1>1, <1>2, <1>5, StockStill
<1>7. Window(t)' BY <1>1, <1>2, <1>4, <1>5, FlowStays DEF Window, Still, Keeps
<1>8. Stock(s)' BY <1>2, <1>4, FlowStays DEF Stock
<1>9. Window(s)'
  <2>1. /\ Unserved(sq[s][0]) + rcq[t][0] + Counted(t) <= Sent(s)
        /\ word[s][0] <= mine[t][0] /\ mine[t][0] <= Counted(t)
        /\ Bounded => Sent(s) <= Iters /\ \E j \in Nat : Sent(s) = j * opt.post_list
    BY <1>2 DEF Window
  <2>2. Unserved(sq[s][0])' + rcq'[t][0] + Counted(t)' <= Sent(s)' BY <1>3, <1>4, <2>1 DEF Counted
  <2>3. Sent(s)' < word'[s][0] + opt.rx_depth BY <1>4, WindowSeen
  <2>4. Bounded => Sent(s)' <= Iters /\ \E j \in Nat : Sent(s)' = j * opt.post_list
    <3> SUFFICES ASSUME Bounded PROVE Sent(s)' <= Iters /\ \E j \in Nat : Sent(s)' = j * opt.post_list
      OBVIOUS
    <3>1. PICK j \in Nat : Sent(s) = j * opt.post_list BY <2>1
    <3>2. Iters = opt.iters /\ ~InDuration BY DEF Bounded, Iters
    <3>3. PICK k \in Nat : Iters = k * opt.post_list BY <3>2 DEF Credited
    <3>4. j * opt.post_list < k * opt.post_list BY <3>1, <3>3
    <3>5. j * opt.post_list + opt.post_list = (j + 1) * opt.post_list /\ j * opt.post_list + opt.post_list <= k * opt.post_list
      BY <1>3, <3>4, NextList
    <3>6. Sent(s)' = (j + 1) * opt.post_list BY <1>4, <3>1, <3>5
    <3>7. Sent(s)' <= Iters BY <1>4, <3>1, <3>3, <3>5
    <3>8. j + 1 \in Nat OBVIOUS
    <3> QED BY <3>6, <3>7, <3>8
  <2> QED BY <2>1, <2>2, <2>3, <2>4, <1>4, FlowStays DEF Window, Counted
<1> QED BY <1>1, <1>6, <1>7, <1>8, <1>9 DEF FlowInv

\* The device serves a request: a message takes a receive, a count is written
\* where the peer looks for it.
LEMMA FlowServed ==
  ASSUME LoopInv, FlowInv, Credited, NEW s \in Sides, NEW q \in Ids, opt' = opt, Serve(s, q),
         sq[s][0] # <<>> => mate[s][0] = 0
  PROVE  FlowInv'
<1> DEFINE t == Peer(s)
           head == Head(sq[s][0])
<1>1. t \in Sides /\ t # s /\ Peer(t) = s /\ Sides = {s, t} BY Two
<1>2. SideOK(s) /\ SideOK(t) /\ SendsOK(s) /\ Domains BY <1>1, SideIs
<1>3. /\ Qps = {0} /\ 0 \in Ids /\ Pool(0) = 0 /\ opt.connection_type = "RC" BY CreditedIs
<1>4. q = 0 /\ sq[s][0] # <<>>
  <2>1. sq[s][q] # <<>> BY DEF Serve
  <2>2. q \in Qps BY <1>2, <2>1 DEF SendsOK
  <2> QED BY <1>3, <2>1, <2>2
<1>5. mate[s][0] = 0 BY <1>4
<1>6. /\ sq' = [sq EXCEPT ![s][0] = Tail(@)] /\ UNCHANGED <<mine, run, at>>
      /\ \/ /\ head.kind = "send" /\ rq[t][0] > 0 /\ word' = word
            /\ rq' = [rq EXCEPT ![t][0] = @ - 1] /\ rcq' = [rcq EXCEPT ![t][0] = @ + 1]
         \/ /\ head.kind # "send" /\ rq' = rq /\ rcq' = rcq
            /\ word' \in {word, [word EXCEPT ![t][0] = mine[s][0]]}
  BY <1>3, <1>4, <1>5 DEF Serve
<1> HIDE DEF head
<1>7. /\ Window(s) /\ Stock(s) /\ Window(t) /\ Stock(t) BY <1>1 DEF FlowInv
<1>8. /\ Sent(s) \in Nat /\ Counted(s) \in Nat /\ rq[s][0] \in Nat /\ rcq[s][0] \in Nat
      /\ mine[s][0] \in Nat /\ word[s][0] \in Nat /\ sq[s][0] \in Seq(Requests) /\ Unserved(sq[s][0]) \in Nat
      /\ Sent(t) \in Nat /\ Counted(t) \in Nat /\ rq[t][0] \in Nat /\ rcq[t][0] \in Nat
      /\ mine[t][0] \in Nat /\ word[t][0] \in Nat /\ opt.rx_depth \in Nat
  BY <1>1, FlowNumbers, CreditedIs
<1>9. sq'[s][0] = Tail(sq[s][0]) /\ sq'[t] = sq[t]
  <2>1. sq[s] \in [Ids -> Seq(Requests)] /\ DOMAIN sq = Sides BY <1>2 DEF SendsOK, Domains
  <2> QED BY <1>1, <1>3, <1>6, <2>1
<1>10. \A x \in Sides : Keeps(x) /\ mine'[x][0] = mine[x][0] /\ at'[x] = at[x]
  BY <1>6 DEF Keeps, Sent, Counted
<1>11. Unserved(sq[t][0])' = Unserved(sq[t][0]) /\ Unserved(sq[s][0])' = Unserved(Tail(sq[s][0]))
  BY <1>9 DEF Unserved
<1>12. ASSUME /\ head.kind = "send" /\ rq[t][0] > 0 /\ word' = word
              /\ rq' = [rq EXCEPT ![t][0] = @ - 1] /\ rcq' = [rcq EXCEPT ![t][0] = @ + 1]
       PROVE  FlowInv'
  <2>1. Unserved(sq[s][0])' = Unserved(sq[s][0]) - 1 BY <1>4, <1>8, <1>11, <1>12, MessagesTail DEF head
  <2>2. /\ rq'[t][0] = rq[t][0] - 1 /\ rcq'[t][0] = rcq[t][0] + 1 /\ rq'[s] = rq[s] /\ rcq'[s] = rcq[s]
    <3>1. /\ rq[t] \in [Ids -> Nat] /\ rcq[t] \in [Ids -> Nat] /\ DOMAIN rq = Sides /\ DOMAIN rcq = Sides
      BY <1>2 DEF SideOK, Domains
    <3> QED BY <1>1, <1>3, <1>12, <3>1
  <2>3. Window(s)'
    <3>1. Unserved(sq[s][0])' + rcq'[t][0] + Counted(t)' <= Sent(s)'
      <4>1. Unserved(sq[s][0]) + rcq[t][0] + Counted(t) <= Sent(s) BY <1>7 DEF Window
      <4>2. Counted(t)' = Counted(t) /\ Sent(s)' = Sent(s) BY <1>1, <1>10 DEF Keeps
      <4> QED BY <1>8, <2>1, <2>2, <4>1, <4>2
    <3> QED BY <1>1, <1>7, <1>10, <1>12, <3>1, FlowStays DEF Window, Keeps
  <2>4. Window(t)' BY <1>1, <1>7, <1>10, <1>11, <1>12, <2>2, FlowStays DEF Window, Keeps
  <2>5. Stock(s)' BY <1>1, <1>7, <1>10, <2>2, FlowStays DEF Stock, Keeps
  <2>6. Stock(t)'
    <3>1. at[t] # "idle" BY <1>7, <1>12 DEF Stock
    <3>2. rq'[t][0] + rcq'[t][0] = rq[t][0] + rcq[t][0]
      <4>1. PICK a \in Nat, b \in Nat : a = rq[t][0] /\ b = rcq[t][0] BY <1>8
      <4>2. rq'[t][0] = a - 1 /\ rcq'[t][0] = b + 1 BY <2>2, <4>1
      <4>3. (a - 1) + (b + 1) = a + b OBVIOUS
      <4> QED BY <4>1, <4>2, <4>3
    <3>3. Receives(t) =>
            /\ Loop # "infinite" => run[t].posted[0] = (rq[t][0] + rcq[t][0]) + Counted(t)
            /\ rq[t][0] + rcq[t][0] = opt.rx_depth \/ (Bounded /\ Iters <= (rq[t][0] + rcq[t][0]) + Counted(t))
      BY <1>7, <3>1 DEF Stock
    <3>4. /\ at'[t] = at[t] /\ run[t].unused[0] >= 0 /\ run'[t].unused[0] = run[t].unused[0]
          /\ run'[t].posted[0] = run[t].posted[0] /\ Counted(t)' = Counted(t)
      BY <1>1, <1>7, <1>10 DEF Keeps, Stock
    <3> QED BY <3>1, <3>2, <3>3, <3>4, FlowStays DEF Stock
  <2> QED BY <1>1, <2>3, <2>4, <2>5, <2>6 DEF FlowInv
<1>13. ASSUME /\ head.kind # "send" /\ rq' = rq /\ rcq' = rcq
              /\ word' \in {word, [word EXCEPT ![t][0] = mine[s][0]]}
       PROVE  FlowInv'
  <2>1. Unserved(sq[s][0])' = Unserved(sq[s][0]) BY <1>4, <1>8, <1>11, <1>13, MessagesTail DEF head
  <2>2. word'[s] = word[s] /\ word'[t][0] \in {word[t][0], mine[s][0]}
    <3>1. word[t] \in [Ids -> Nat] /\ DOMAIN word = Sides BY <1>2 DEF SideOK, Domains
    <3> QED BY <1>1, <1>3, <1>13, <3>1
  <2>3. Still(s) BY <1>1, <1>10, <1>13, <2>1, <2>2 DEF Still
  <2>4. Stock(s)' BY <1>7, <2>3, StockStill
  <2>5. Window(s)' BY <1>1, <1>7, <1>10, <1>13, <2>1, <2>2, FlowStays DEF Window, Keeps
  <2>6. Stock(t)' BY <1>1, <1>7, <1>10, <1>13, FlowStays DEF Stock, Keeps
  <2>7. Window(t)'
    <3>1. /\ Unserved(sq[t][0]) + rcq[s][0] + Counted(s) <= Sent(t)
          /\ word[t][0] <= mine[s][0] /\ mine[s][0] <= Counted(s)
          /\ Sent(t) = 0 \/ (Receives(s) /\ Sent(t) < word[t][0] + opt.rx_depth)
          /\ Bounded => Sent(t) <= Iters /\ \E j \in Nat : Sent(t) = j * opt.post_list
      BY <1>1, <1>7 DEF Window
    <3>2. word'[t][0] <= mine[s][0] /\ word[t][0] <= word'[t][0] /\ word'[t][0] \in Nat
      BY <1>8, <2>2, <3>1, SMTT(30)
    <3>3. Sent(t) = 0 \/ (Receives(s) /\ Sent(t) < word'[t][0] + opt.rx_depth)
      BY <1>8, <3>1, <3>2, SMTT(30)
    <3>4. /\ Sent(t)' = Sent(t) /\ Counted(s)' = Counted(s) /\ mine'[s][0] = mine[s][0] /\ rcq' = rcq
      BY <1>1, <1>10, <1>13 DEF Keeps
    <3> QED BY <1>1, <1>11, <3>1, <3>2, <3>3, <3>4, FlowStays DEF Window
  <2> QED BY <1>1, <2>4, <2>5, <2>6, <2>7 DEF FlowInv
<1> QED BY <1>6, <1>12, <1>13

\* The receives of a receiver are posted before its loop.
LEMMA FlowPrepared ==
  ASSUME LoopInv, FlowInv, Credited, NEW s \in Sides, opt' = opt, Prepare(s) PROVE FlowInv'
<1> DEFINE t == Peer(s)
           flag == [q \in Ids |-> ListFlag(1)]
           posted == [q \in Ids |-> Rposted]
           n == [q \in Ids |-> Cardinality({p \in Qps : Pool(p) = q}) * Rposted]
           new == [run[s] EXCEPT !.flag = flag, !.posted = posted]
<1>1. t \in Sides /\ t # s /\ Peer(t) = s /\ Sides = {s, t} BY Two
<1>2. Domains /\ RunOK(run[s]) /\ SideOK(s) BY SideIs
<1>3. /\ Qps = {0} /\ 0 \in Ids /\ Pool(0) = 0 /\ Rposted = opt.rx_depth /\ opt.rx_depth \in Nat BY CreditedIs
<1>4. /\ at[s] = "idle" /\ at' = [at EXCEPT ![s] = "ready"]
      /\ rq' = IF Receives(s) THEN [rq EXCEPT ![s] = n] ELSE rq
      /\ run' = [run EXCEPT ![s].flag = flag, ![s].posted = posted]
      /\ UNCHANGED <<sq, rcq, scq, mine, word>>
  BY Zenon DEF Prepare
<1>5. n[0] = opt.rx_depth
  <2>1. {p \in Qps : Pool(p) = 0} = {0} BY <1>3
  <2>2. Cardinality({0}) = 1 BY FS_Singleton
  <2>3. n[0] = 1 * Rposted BY <1>3, <2>1, <2>2
  <2> HIDE DEF n
  <2> QED BY <1>3, <2>3
<1>6. posted[0] = opt.rx_depth BY <1>3
<1> HIDE DEF flag, posted, n
<1>7. run' = [run EXCEPT ![s] = new]
  <2>1. DOMAIN run = Sides BY <1>2 DEF Domains
  <2> QED BY <1>4, <2>1
<1>8. new.scnt = run[s].scnt /\ new.rcnt = run[s].rcnt /\ new.unused = run[s].unused /\ new.posted = posted
  BY <1>2, CountersAre DEF RunOK
<1> HIDE DEF new
<1>9. run'[s] = new /\ run'[t] = run[t] BY <1>1, <1>7, RunMoves
<1>10. Window(s) /\ Stock(s) /\ Window(t) /\ Stock(t) BY <1>1 DEF FlowInv
<1>11. at'[s] = "ready" /\ at'[t] = at[t] BY <1>1, <1>2, <1>4 DEF Domains
<1>12. rq'[t] = rq[t] /\ (Receives(s) => rq'[s][0] = opt.rx_depth) BY <1>1, <1>2, <1>4, <1>5 DEF Domains
<1>13. Sent(s)' = Sent(s) /\ Counted(s)' = Counted(s) /\ Sent(t)' = Sent(t) /\ Counted(t)' = Counted(t)
  BY <1>8, <1>9 DEF Sent, Counted
<1>14. Unserved(sq[s][0])' = Unserved(sq[s][0]) /\ Unserved(sq[t][0])' = Unserved(sq[t][0]) BY <1>4 DEF Unserved
<1>15. Still(t) BY <1>4, <1>9, <1>11, <1>12, <1>13, <1>14 DEF Still, Keeps
<1>16. Stock(t)' BY <1>1, <1>10, <1>15, StockStill
<1>17. Window(s)' /\ Window(t)' BY <1>1, <1>4, <1>10, <1>13, <1>14, FlowStays DEF Window
<1>18. Stock(s)'
  <2>1. rcq[s][0] = 0 /\ Counted(s) = 0 /\ run[s].unused[0] >= 0 BY <1>4, <1>10 DEF Stock
  <2>2. rcq'[s][0] = 0 /\ Counted(s)' = 0 /\ run'[s].unused[0] >= 0 BY <1>4, <1>8, <1>9, <1>13, <2>1
  <2>3. run'[s].posted[0] = opt.rx_depth BY <1>6, <1>8, <1>9
  <2>4. opt.rx_depth = opt.rx_depth + 0 + 0 /\ opt.rx_depth + 0 = opt.rx_depth BY <1>3
  <2>5. at'[s] # "idle" BY <1>11
  <2> QED BY <1>12, <2>2, <2>3, <2>4, <2>5, FlowStays DEF Stock
<1> QED BY <1>1, <1>16, <1>17, <1>18 DEF FlowInv

\* A step that counts nothing and receives nothing; a count may go.
Kept ==
  \A x \in Sides : /\ run'[x].scnt = run[x].scnt /\ run'[x].rcnt = run[x].rcnt
                   /\ run'[x].unused = run[x].unused /\ run'[x].posted = run[x].posted

LEMMA RunKept ==
  ASSUME LoopInv, NEW s \in Sides, NEW r, run' = [run EXCEPT ![s] = r],
         r.scnt = run[s].scnt, r.rcnt = run[s].rcnt, r.unused = run[s].unused, r.posted = run[s].posted
  PROVE  Kept
  BY RunMoves DEF Kept

LEMMA FlowQuiet ==
  ASSUME LoopInv, FlowInv, Credited, NEW s \in Sides, opt' = opt, Kept,
         sq' = sq \/ sq' = [sq EXCEPT ![s][0] = Append(@, CreditWr)],
         at' = at \/ \E place : place # "idle" /\ at[s] # "idle" /\ at' = [at EXCEPT ![s] = place],
         UNCHANGED <<rq, rcq, mine, word>>
  PROVE  FlowInv'
<1> SUFFICES ASSUME NEW x \in Sides PROVE Still(x) BY FlowStill
<1>1. SideOK(x) /\ SendsOK(x) /\ Domains /\ 0 \in Ids BY SideIs, CreditedIs
<1>2. Keeps(x) BY DEF Kept, Keeps, Sent, Counted
<1>3. at'[x] = "idle" <=> at[x] = "idle" BY <1>1 DEF Domains
<1>4. Unserved(sq[x][0])' = Unserved(sq[x][0])
  <2>1. Unserved(sq[x][0])' = Unserved(sq'[x][0]) BY DEF Unserved
  <2>2. CASE sq'[x][0] = sq[x][0] BY <2>1, <2>2
  <2>3. CASE sq'[x][0] = Append(sq[x][0], CreditWr)
    <3>1. sq[x][0] \in Seq(Requests) BY <1>1 DEF SendsOK
    <3>2. CreditWr \in Requests /\ CreditWr.kind # "send" BY DEF CreditWr, Requests
    <3> QED BY <2>1, <2>3, <3>1, <3>2, MessagesWord
  <2>4. sq'[x][0] = sq[x][0] \/ sq'[x][0] = Append(sq[x][0], CreditWr)
    <3>1. DOMAIN sq = Sides /\ sq[x] \in [Ids -> Seq(Requests)] BY <1>1 DEF SendsOK, Domains
    <3> QED BY <1>1, <3>1
  <2> QED BY <2>2, <2>3, <2>4
<1> QED BY <1>2, <1>3, <1>4 DEF Still

\* What a receive completion of a counted test does.
LEMMA ReceivedCounts ==
  ASSUME LoopInv, Credited, NEW s \in Sides, NEW q \in Qps, Received(s, q), run[s].unused[0] >= 0
  PROVE  /\ q = 0 /\ rcq[s][0] > 0
         /\ Sent(s)' = Sent(s) /\ Counted(s)' = Counted(s) + 1 /\ rcq'[s][0] = rcq[s][0] - 1
         /\ \A t \in Sides \ {s} : run'[t] = run[t] /\ rq'[t] = rq[t] /\ rcq'[t] = rcq[t]
         /\ \E r \in {0, 1} :
              /\ rq'[s][0] = rq[s][0] + r /\ run'[s].unused[0] = run[s].unused[0] + 1 - r
              /\ run'[s].posted[0] = run[s].posted[0] + r
              /\ r = 1 <=> InDuration \/ run[s].posted[0] + 1 <= Iters
<1> DEFINE r == IF Reposts(s, q) THEN opt.recv_post_list ELSE 0
           new == [run[s] EXCEPT !.rcnt[q] = @ + 1, !.unused[q] = @ + 1 - r, !.posted[q] = @ + r,
                                 !.started = TRUE, !.index = q]
<1>1. SideOK(s) /\ RunOK(run[s]) /\ Domains /\ q \in Ids /\ q \in Int BY SideIs, IdsAre DEF Qps
<1>2. /\ rcq[s][q] > 0 /\ rcq' = [rcq EXCEPT ![s][q] = @ - 1]
      /\ rq' = [rq EXCEPT ![s][Pool(q)] = @ + r]
      /\ run' = [run EXCEPT ![s].rcnt[q] = @ + 1, ![s].unused[q] = @ + 1 - r, ![s].posted[q] = @ + r,
                            ![s].started = TRUE, ![s].index = q]
  BY DEF Received
<1>3. q = 0 /\ 0 \in Ids /\ Pool(0) = 0 /\ opt.recv_post_list = 1 /\ Iters \in Nat BY CreditedIs DEF Credited
<1>4. r \in {0, 1} /\ (r = 1 <=> InDuration \/ run[s].posted[0] + 1 <= Iters)
  <2>1. run[s].unused[0] \in Int BY FlowNumbers
  <2>2. run[s].unused[0] + 1 >= 1 BY <2>1
  <2> QED BY <1>3, <2>2 DEF Reposts
<1> HIDE DEF r
<1>5. run' = [run EXCEPT ![s] = new] BY <1>1, <1>2, ZenonT(40) DEF Domains
<1>6. /\ new.scnt = run[s].scnt /\ new.rcnt[q] = run[s].rcnt[q] + 1
      /\ new.unused[q] = run[s].unused[q] + 1 - r /\ new.posted[q] = run[s].posted[q] + r
  BY <1>1, CountersAre DEF RunOK
<1> HIDE DEF new
<1>7. run'[s] = new /\ \A t \in Sides \ {s} : run'[t] = run[t] BY <1>5, RunMoves
<1>8. /\ rcq'[s][0] = rcq[s][0] - 1 /\ rq'[s][0] = rq[s][0] + r
      /\ \A t \in Sides \ {s} : rq'[t] = rq[t] /\ rcq'[t] = rcq[t]
  <2>1. rq[s] \in [Ids -> Nat] /\ rcq[s] \in [Ids -> Nat] /\ DOMAIN rq = Sides /\ DOMAIN rcq = Sides
    BY <1>1 DEF SideOK, Domains
  <2> QED BY <1>2, <1>3, <2>1
<1>9. Sent(s)' = Sent(s) /\ Counted(s)' = Counted(s) + 1 BY <1>3, <1>6, <1>7 DEF Sent, Counted
<1>10. run'[s].unused[0] = run[s].unused[0] + 1 - r /\ run'[s].posted[0] = run[s].posted[0] + r
  BY <1>3, <1>6, <1>7
<1> QED BY <1>2, <1>3, <1>4, <1>7, <1>8, <1>9, <1>10

LEMMA FlowReceived ==
  ASSUME LoopInv, FlowInv, Credited, NEW s \in Sides, NEW q \in Qps, opt' = opt, Received(s, q),
         Loop # "infinite", at[s] # "idle", NEW place, place # "idle",
         at' = at \/ at' = [at EXCEPT ![s] = place],
         mine' = mine \/ mine' = [mine EXCEPT ![s][q] = run[s].rcnt[q] + 1],
         UNCHANGED <<sq, word>>
  PROVE  FlowInv'
<1> DEFINE t == Peer(s)
<1>1. t \in Sides /\ t # s /\ Peer(t) = s /\ Sides = {s, t} BY Two
<1>2. SideOK(s) /\ Domains /\ 0 \in Ids BY SideIs, CreditedIs
<1>3. run[s].unused[0] >= 0 BY DEF FlowInv, Stock
<1>4. /\ q = 0 /\ rcq[s][0] > 0
      /\ Sent(s)' = Sent(s) /\ Counted(s)' = Counted(s) + 1 /\ rcq'[s][0] = rcq[s][0] - 1
      /\ run'[t] = run[t] /\ rq'[t] = rq[t] /\ rcq'[t] = rcq[t]
  BY <1>1, <1>3, ReceivedCounts
<1>5. PICK r \in {0, 1} :
        /\ rq'[s][0] = rq[s][0] + r /\ run'[s].unused[0] = run[s].unused[0] + 1 - r
        /\ run'[s].posted[0] = run[s].posted[0] + r
        /\ r = 1 <=> InDuration \/ run[s].posted[0] + 1 <= Iters
  BY <1>3, ReceivedCounts
<1>6. mine'[t] = mine[t] /\ (mine'[s][0] = mine[s][0] \/ mine'[s][0] = Counted(s) + 1)
  <2>1. mine[s] \in [Ids -> Nat] /\ DOMAIN mine = Sides BY <1>2 DEF SideOK, Domains
  <2> QED BY <1>1, <1>2, <1>4, <2>1 DEF Counted
<1>7. at'[s] # "idle" /\ at'[t] = at[t] BY <1>1, <1>2 DEF Domains
<1>8. \A x \in Sides : Unserved(sq[x][0])' = Unserved(sq[x][0]) BY DEF Unserved
<1>9. Still(t) BY <1>1, <1>4, <1>6, <1>7, <1>8 DEF Still, Keeps, Sent, Counted
<1> QED BY <1>4, <1>5, <1>6, <1>7, <1>8, <1>9, FlowTaken

\* A receive completion of a test without an end.
LEMMA FlowEndless ==
  ASSUME LoopInv, FlowInv, Credited, NEW s \in Sides, opt' = opt, InfiniteReceive(s)
  PROVE  FlowInv'
<1> DEFINE t == Peer(s)
           n == IF opt.send_rcredit /\ ~opt.use_srq THEN 1 ELSE 0
           due(q) == n = 1 /\ run[s].scredit[q] + 1 = CreditCnt
           list(q) == IF run[s].unused[q] + 1 >= opt.recv_post_list THEN opt.recv_post_list ELSE 0
           new == [run[s] EXCEPT !.rcnt[0] = @ + n, !.unused[0] = @ + 1 - 1, !.scredit[0] = @ + n,
                                 !.index = 0]
<1>1. t \in Sides /\ t # s /\ Peer(t) = s /\ Sides = {s, t} BY Two
<1>2. SideOK(s) /\ PlaceOK(s) /\ RunOK(run[s]) /\ Domains BY SideIs
<1>3. Qps = {0} /\ 0 \in Ids /\ Pool(0) = 0 /\ opt.recv_post_list = 1 BY CreditedIs DEF Credited
<1>4. run[s].unused[0] \in Int /\ run[s].unused[0] >= 0 BY FlowNumbers DEF FlowInv, Stock
<1>5. list(0) = 1
  <2>1. run[s].unused[0] + 1 >= 1 BY <1>4
  <2> QED BY <1>3, <2>1
<1>6. PICK q \in Qps :
       /\ rcq[s][q] > 0
       /\ rcq' = [rcq EXCEPT ![s][q] = @ - 1]
       /\ rq' = [rq EXCEPT ![s][Pool(q)] = @ + list(q)]
       /\ run' = [run EXCEPT ![s].rcnt[q] = @ + n, ![s].unused[q] = @ + 1 - list(q),
                             ![s].scredit[q] = @ + n, ![s].index = q]
       /\ IF due(q)
          THEN mine' = [mine EXCEPT ![s][q] = run[s].rcnt[q] + 1] /\ GoTo(s, "infs_credit")
          ELSE UNCHANGED <<mine, at>>
  BY DEF InfiniteReceive
<1>7. /\ rcq[s][0] > 0
      /\ rcq' = [rcq EXCEPT ![s][0] = @ - 1]
      /\ rq' = [rq EXCEPT ![s][0] = @ + 1]
      /\ run' = [run EXCEPT ![s].rcnt[0] = @ + n, ![s].unused[0] = @ + 1 - 1,
                            ![s].scredit[0] = @ + n, ![s].index = 0]
      /\ \/ mine' = mine /\ at' = at
         \/ n = 1 /\ mine' = [mine EXCEPT ![s][0] = run[s].rcnt[0] + 1] /\ at' = [at EXCEPT ![s] = "infs_credit"]
  BY <1>3, <1>5, <1>6 DEF GoTo
<1>8. n \in {0, 1} OBVIOUS
<1> HIDE DEF n, list, due
<1>9. run' = [run EXCEPT ![s] = new]
  <2>1. DOMAIN run = Sides BY <1>2 DEF Domains
  <2>2. run' = [run EXCEPT ![s].rcnt[0] = @ + n, ![s].unused[0] = @ + 1 - 1, ![s].scredit[0] = @ + n,
                           ![s].index = 0]
    BY <1>7
  <2> QED BY <2>1, <2>2, ZenonT(40)
<1>10. /\ new.scnt = run[s].scnt /\ new.rcnt[0] = run[s].rcnt[0] + n
       /\ new.unused[0] = run[s].unused[0] + 1 - 1
  BY <1>2, <1>3, CountersAre DEF RunOK
<1> HIDE DEF new
<1>11. run'[s] = new /\ run'[t] = run[t] BY <1>1, <1>9, RunMoves
<1>12. /\ rcq'[s][0] = rcq[s][0] - 1 /\ rcq'[t] = rcq[t] /\ rq'[s][0] = rq[s][0] + 1 /\ rq'[t] = rq[t]
  <2>1. rq[s] \in [Ids -> Nat] /\ rcq[s] \in [Ids -> Nat] /\ DOMAIN rq = Sides /\ DOMAIN rcq = Sides
    BY <1>2 DEF SideOK, Domains
  <2> QED BY <1>1, <1>3, <1>7, <2>1
<1>13. mine'[t] = mine[t] /\ (mine'[s][0] = mine[s][0] \/ mine'[s][0] = Counted(s) + n)
  <2>1. mine[s] \in [Ids -> Nat] /\ DOMAIN mine = Sides BY <1>2 DEF SideOK, Domains
  <2> QED BY <1>1, <1>3, <1>7, <2>1 DEF Counted
<1>14. at[s] = "infs" /\ UNCHANGED <<sq, word>> BY DEF InfiniteReceive
<1>15. Loop = "infinite" BY <1>2, <1>14, PlaceTells DEF PlacesOf
<1>16. at'[s] # "idle" /\ at'[t] = at[t] BY <1>1, <1>2, <1>7, <1>14 DEF Domains
<1>17. Sent(s)' = Sent(s) /\ Counted(s)' = Counted(s) + n BY <1>10, <1>11 DEF Sent, Counted
<1>18. \A x \in Sides : Unserved(sq[x][0])' = Unserved(sq[x][0]) BY <1>14 DEF Unserved
<1>19. Still(t) BY <1>1, <1>11, <1>12, <1>13, <1>14, <1>16, <1>18 DEF Still, Keeps, Sent, Counted
<1>20. run'[s].unused[0] = run[s].unused[0] + 1 - 1 /\ 1 \in {0, 1} BY <1>10, <1>11
<1> QED BY <1>7, <1>8, <1>12, <1>13, <1>14, <1>15, <1>16, <1>17, <1>18, <1>19, <1>20, FlowTaken

\* A visit to the queue pair: post, or go on.
LEMMA FlowVisit ==
  ASSUME LoopInv, FlowInv, Credited, NEW s \in Sides, opt' = opt, at[s] # "idle",
         NEW place, place # "idle", Receives(Peer(s)),
         \/ /\ PostNext(s, run[s].index) /\ UNCHANGED at /\ HasCredit(s, run[s].index)
            /\ Bounded => run[s].scnt[run[s].index] < Iters
         \/ NextQp(s, place) /\ UNCHANGED sq,
         UNCHANGED <<rq, rcq, scq, mine, word>>
  PROVE  FlowInv'
<1>1. run[s].index = 0 /\ RunOK(run[s]) /\ Domains BY SideIs, CreditedIs
<1>2. CASE /\ PostNext(s, run[s].index) /\ UNCHANGED at /\ HasCredit(s, run[s].index)
           /\ Bounded => run[s].scnt[run[s].index] < Iters
  <2>1. PostNext(s, 0) /\ HasCredit(s, 0) /\ (Bounded => Sent(s) < Iters) BY <1>1, <1>2 DEF Sent
  <2> QED BY <1>2, <2>1, FlowPosted
<1>3. CASE NextQp(s, place) /\ UNCHANGED sq
  <2> DEFINE k == IF run[s].index + 1 < opt.num_of_qps THEN run[s].index + 1 ELSE 0
             new == [run[s] EXCEPT !.index = k]
  <2>1. run' = [run EXCEPT ![s].index = k] BY <1>3 DEF NextQp
  <2>2. at' = at \/ at' = [at EXCEPT ![s] = place] BY <1>3 DEF NextQp, GoTo
  <2> HIDE DEF k
  <2>3. run' = [run EXCEPT ![s] = new]
    <3>1. DOMAIN run = Sides BY <1>1 DEF Domains
    <3> QED BY <2>1, <3>1
  <2>4. /\ new.scnt = run[s].scnt /\ new.rcnt = run[s].rcnt /\ new.unused = run[s].unused
        /\ new.posted = run[s].posted
    BY <1>1, CountersAre DEF RunOK
  <2> HIDE DEF new
  <2>5. Kept BY <2>3, <2>4, RunKept
  <2> QED BY <1>3, <2>2, <2>5, FlowQuiet
<1> QED BY <1>2, <1>3

\* Who sends has a peer that receives.
LEMMA FlowPosts ==
  ASSUME LoopInv, FlowInv, Credited, NEW s \in Sides, opt' = opt, BwPost(s) \/ InfinitePost(s) \/ BiPost(s)
  PROVE  FlowInv'
<1>1. at[s] \in {"bw_post", "inf_post", "bi_post"} BY DEF BwPost, InfinitePost, BiPost
<1>2. PlaceOK(s) BY SideIs
<1>3. Receives(Peer(s))
  <2>1. Receives("server") /\ (opt.duplex => Receives("client")) BY CreditedIs
  <2>2. (s = "client" /\ Peer(s) = "server") \/ (s = "server" /\ Peer(s) = "client") BY DEF Sides, Peer
  <2>3. CASE s = "client" /\ Peer(s) = "server" BY <2>1, <2>3
  <2>4. CASE s = "server" /\ Peer(s) = "client"
    <3>1. opt.duplex
      <4>1. CASE at[s] = "bi_post" BY <1>2, <4>1, PlaceTells, CreditedIs
      <4>2. CASE at[s] # "bi_post" BY <1>1, <1>2, <2>4, <4>2 DEF PlaceOK
      <4> QED BY <4>1, <4>2
    <3> QED BY <2>1, <2>4, <3>1
  <2> QED BY <2>2, <2>3, <2>4
<1>4. CASE BwPost(s)
  <2>1. UNCHANGED <<rq, rcq, scq, mine, word>> BY <1>4 DEF BwPost
  <2>2. \/ /\ PostNext(s, run[s].index) /\ UNCHANGED at /\ HasCredit(s, run[s].index)
           /\ Bounded => run[s].scnt[run[s].index] < Iters
        \/ NextQp(s, "bw_poll") /\ UNCHANGED sq
    BY <1>4 DEF BwPost, BwOpen, Bounded
  <2> QED BY <1>1, <1>3, <2>1, <2>2, FlowVisit
<1>5. CASE InfinitePost(s)
  <2>1. UNCHANGED <<rq, rcq, scq, mine, word>> BY <1>5 DEF InfinitePost
  <2>2. ~Bounded
    <3>1. at[s] \in PlacesOf["infinite"] BY <1>5 DEF InfinitePost, PlacesOf
    <3> QED BY <1>2, <3>1, PlaceTells DEF Bounded
  <2>3. \/ PostNext(s, run[s].index) /\ UNCHANGED at /\ HasCredit(s, run[s].index)
        \/ NextQp(s, "inf_poll") /\ UNCHANGED sq
    BY <1>5 DEF InfinitePost
  <2> QED BY <1>1, <1>3, <2>1, <2>2, <2>3, FlowVisit
<1>6. CASE BiPost(s)
  <2>1. UNCHANGED <<rq, rcq, scq, mine, word>> BY <1>6 DEF BiPost
  <2>2. \/ /\ PostNext(s, run[s].index) /\ UNCHANGED at /\ HasCredit(s, run[s].index)
           /\ Bounded => run[s].scnt[run[s].index] < Iters
        \/ NextQp(s, "bi_recv") /\ UNCHANGED sq
    BY <1>6 DEF BiPost, Bounded
  <2> QED BY <1>1, <1>3, <2>1, <2>2, FlowVisit
<1> QED BY <1>4, <1>5, <1>6

\* Send completions are polled.
LEMMA FlowPolls ==
  ASSUME LoopInv, FlowInv, Credited, NEW s \in Sides, opt' = opt,
         BwPoll(s) \/ InfinitePoll(s) \/ BiPoll(s) \/ CleanCredit(s)
  PROVE  FlowInv'
<1>1. RunOK(run[s]) /\ Domains BY SideIs
<1>2. DOMAIN run = Sides BY <1>1 DEF Domains
<1>3. at[s] # "idle" /\ UNCHANGED <<sq, rq, rcq, mine, word>>
  BY DEF BwPoll, InfinitePoll, BiPoll, CleanCredit
<1>4. at' = at \/ \E place : place # "idle" /\ at' = [at EXCEPT ![s] = place]
  <2>1. CASE BwPoll(s)
    <3>1. \E c \in BOOLEAN : at' = [at EXCEPT ![s] = IF c THEN "bw_post" ELSE "done"]
      BY <2>1 DEF BwPoll, GoTo
    <3> QED BY <3>1
  <2>2. CASE BiPoll(s)
    <3>1. \E c \in BOOLEAN : at' = [at EXCEPT ![s] = IF c THEN "bi_post" ELSE "clean"]
      BY <2>2 DEF BiPoll, GoTo
    <3> QED BY <3>1
  <2>3. CASE InfinitePoll(s) \/ CleanCredit(s) BY <2>3 DEF InfinitePoll, CleanCredit, GoTo
  <2> QED BY <2>1, <2>2, <2>3
<1>5. Kept
  <2>1. ASSUME NEW a, NEW b,
               run' = [run EXCEPT ![s] = [run[s] EXCEPT !.ccnt = a, !.totccnt = b]]
        PROVE  Kept
    <3> DEFINE new == [run[s] EXCEPT !.ccnt = a, !.totccnt = b]
    <3>1. /\ new.scnt = run[s].scnt /\ new.rcnt = run[s].rcnt /\ new.unused = run[s].unused
          /\ new.posted = run[s].posted
      BY <1>1, CountersAre DEF RunOK
    <3>2. run' = [run EXCEPT ![s] = new] BY <2>1
    <3> HIDE DEF new
    <3> QED BY <3>1, <3>2, RunKept
  <2>2. CASE BwPoll(s)
    <3>1. \E a, b : run' = [run EXCEPT ![s] = [run[s] EXCEPT !.ccnt = a, !.totccnt = b]]
      BY <2>2 DEF BwPoll
    <3> QED BY <2>1, <3>1
  <2>3. CASE InfinitePoll(s)
    <3>1. PICK a, b : run' = [run EXCEPT ![s].ccnt = a, ![s].totccnt = b] BY <2>3 DEF InfinitePoll
    <3>2. run' = [run EXCEPT ![s] = [run[s] EXCEPT !.ccnt = a, !.totccnt = b]] BY <1>2, <3>1
    <3> QED BY <2>1, <3>2
  <2>4. CASE BiPoll(s)
    <3>1. PICK a, b, c : run' = [run EXCEPT ![s] = [run[s] EXCEPT !.ccnt = a, !.totccnt = b, !.scredit = c, !.index = 0]]
      BY <2>4 DEF BiPoll
    <3> DEFINE new == [run[s] EXCEPT !.ccnt = a, !.totccnt = b, !.scredit = c, !.index = 0]
    <3>2. /\ new.scnt = run[s].scnt /\ new.rcnt = run[s].rcnt /\ new.unused = run[s].unused
          /\ new.posted = run[s].posted
      BY <1>1, CountersAre DEF RunOK
    <3>3. run' = [run EXCEPT ![s] = new] BY <3>1
    <3> HIDE DEF new
    <3> QED BY <3>2, <3>3, RunKept
  <2>5. CASE CleanCredit(s)
    <3>1. PICK c : run' = [run EXCEPT ![s].scredit = c] BY <2>5 DEF CleanCredit
    <3> DEFINE new == [run[s] EXCEPT !.scredit = c]
    <3>2. /\ new.scnt = run[s].scnt /\ new.rcnt = run[s].rcnt /\ new.unused = run[s].unused
          /\ new.posted = run[s].posted
      BY <1>1, CountersAre DEF RunOK
    <3>3. run' = [run EXCEPT ![s] = new] BY <1>2, <3>1
    <3> HIDE DEF new
    <3> QED BY <3>2, <3>3, RunKept
  <2> QED BY <2>2, <2>3, <2>4, <2>5
<1> QED BY <1>3, <1>4, <1>5, FlowQuiet

\* A count is sent, or waits for the send queue.
LEMMA FlowCredits ==
  ASSUME LoopInv, FlowInv, Credited, NEW s \in Sides, opt' = opt,
         BwServerCredit(s) \/ InfiniteCredit(s) \/ BiCredit(s)
  PROVE  FlowInv'
<1>1. RunOK(run[s]) /\ run[s].index = 0 /\ 0 \in Ids BY SideIs, CreditedIs
<1>2. DOMAIN run = Sides BY SideIs DEF Domains
<1>3. at[s] # "idle" /\ UNCHANGED <<rq, rcq, mine, word>>
  BY DEF BwServerCredit, InfiniteCredit, BiCredit
<1>4. at' = at \/ \E place : place # "idle" /\ at' = [at EXCEPT ![s] = place]
  BY DEF BwServerCredit, InfiniteCredit, BiCredit, GoTo
<1>5. sq' = sq \/ sq' = [sq EXCEPT ![s][0] = Append(@, CreditWr)]
  BY <1>1 DEF BwServerCredit, InfiniteCredit, BiCredit
<1>6. Kept
  <2>1. \/ \E c : run' = [run EXCEPT ![s].scredit = c]
        \/ \E q : run' = [run EXCEPT ![s].scredit[q] = @ + 1]
        \/ \E c : run' = [run EXCEPT ![s].ccnt = c]
        \/ run' = [run EXCEPT ![s].ccnt[0] = @ + 1, ![s].scredit[0] = 0]
        \/ \E q \in Qps : run' = [run EXCEPT ![s].scredit[q] = @ - 1]
        \/ \E q \in Qps : run' = [run EXCEPT ![s].ccnt[q] = @ + opt.cq_mod, ![s].totccnt = @ + opt.cq_mod]
        \/ run' = [run EXCEPT ![s].scredit[0] = @ + 1, ![s].index = 0]
    <3>1. CASE BwServerCredit(s) BY <1>1, <3>1 DEF BwServerCredit
    <3>2. CASE InfiniteCredit(s) BY <1>1, <3>2 DEF InfiniteCredit
    <3>3. CASE BiCredit(s) BY <1>1, <3>3 DEF BiCredit
    <3> QED BY <3>1, <3>2, <3>3
  <2> DEFINE Fixed(n) == n.scnt = run[s].scnt /\ n.rcnt = run[s].rcnt /\ n.unused = run[s].unused
                         /\ n.posted = run[s].posted
  <2>2. ASSUME NEW c, run' = [run EXCEPT ![s].scredit = c] PROVE Kept
    <3> DEFINE new == [run[s] EXCEPT !.scredit = c]
    <3>1. Fixed(new) BY <1>1, CountersAre DEF RunOK
    <3>2. run' = [run EXCEPT ![s] = new] BY <1>2, <2>2
    <3> HIDE DEF new
    <3> QED BY <3>1, <3>2, RunKept
  <2>3. ASSUME NEW c, run' = [run EXCEPT ![s].ccnt = c] PROVE Kept
    <3> DEFINE new == [run[s] EXCEPT !.ccnt = c]
    <3>1. Fixed(new) BY <1>1, CountersAre DEF RunOK
    <3>2. run' = [run EXCEPT ![s] = new] BY <1>2, <2>3
    <3> HIDE DEF new
    <3> QED BY <3>1, <3>2, RunKept
  <2>4. ASSUME NEW q, run' = [run EXCEPT ![s].scredit[q] = @ + 1] PROVE Kept
    <3> DEFINE new == [run[s] EXCEPT !.scredit[q] = @ + 1]
    <3>1. Fixed(new) BY <1>1, CountersAre DEF RunOK
    <3>2. run' = [run EXCEPT ![s] = new] BY <1>2, <2>4
    <3> HIDE DEF new
    <3> QED BY <3>1, <3>2, RunKept
  <2>5. ASSUME NEW q, run' = [run EXCEPT ![s].scredit[q] = @ - 1] PROVE Kept
    <3> DEFINE new == [run[s] EXCEPT !.scredit[q] = @ - 1]
    <3>1. Fixed(new) BY <1>1, CountersAre DEF RunOK
    <3>2. run' = [run EXCEPT ![s] = new] BY <1>2, <2>5
    <3> HIDE DEF new
    <3> QED BY <3>1, <3>2, RunKept
  <2>6. ASSUME run' = [run EXCEPT ![s].ccnt[0] = @ + 1, ![s].scredit[0] = 0] PROVE Kept
    <3> DEFINE new == [run[s] EXCEPT !.ccnt[0] = @ + 1, !.scredit[0] = 0]
    <3>1. Fixed(new) BY <1>1, CountersAre DEF RunOK
    <3>2. run' = [run EXCEPT ![s] = new] BY <1>2, <2>6
    <3> HIDE DEF new
    <3> QED BY <3>1, <3>2, RunKept
  <2>7. ASSUME NEW q, run' = [run EXCEPT ![s].ccnt[q] = @ + opt.cq_mod, ![s].totccnt = @ + opt.cq_mod] PROVE Kept
    <3> DEFINE new == [run[s] EXCEPT !.ccnt[q] = @ + opt.cq_mod, !.totccnt = @ + opt.cq_mod]
    <3>1. Fixed(new) BY <1>1, CountersAre DEF RunOK
    <3>2. run' = [run EXCEPT ![s] = new] BY <1>2, <2>7
    <3> HIDE DEF new
    <3> QED BY <3>1, <3>2, RunKept
  <2>8. ASSUME run' = [run EXCEPT ![s].scredit[0] = @ + 1, ![s].index = 0] PROVE Kept
    <3> DEFINE new == [run[s] EXCEPT !.scredit[0] = @ + 1, !.index = 0]
    <3>1. Fixed(new) BY <1>1, CountersAre DEF RunOK
    <3>2. run' = [run EXCEPT ![s] = new] BY <1>2, <2>8
    <3> HIDE DEF new
    <3> QED BY <3>1, <3>2, RunKept
  <2> HIDE DEF Fixed
  <2> QED BY <2>1, <2>2, <2>3, <2>4, <2>5, <2>6, <2>7, <2>8
<1> QED BY <1>3, <1>4, <1>5, <1>6, FlowQuiet

\* Nothing is counted before the loop begins, nor when a side leaves it.
LEMMA FlowMoves ==
  ASSUME LoopInv, FlowInv, Credited, NEW s \in Sides, opt' = opt, at[s] # "idle", NEW place, place # "idle",
         at' = [at EXCEPT ![s] = place], UNCHANGED <<sq, rq, rcq, mine, word, run>>
  PROVE  FlowInv'
<1>1. Kept BY DEF Kept
<1> QED BY <1>1, FlowQuiet

LEMMA FlowBegins == ASSUME LoopInv, FlowInv, Credited, NEW s \in Sides, Begin(s) PROVE FlowInv'
<1> DEFINE started == s = "client"
           new == [run[s] EXCEPT !.started = started]
<1>1. Domains /\ RunOK(run[s]) BY SideIs
<1>2. /\ at[s] = "ready" /\ at' = [at EXCEPT ![s] = Start(s)] /\ opt' = opt
      /\ run' = [run EXCEPT ![s].started = started]
      /\ UNCHANGED <<sq, rq, rcq, scq, mine, word>>
  BY DEF Begin, GoTo
<1> HIDE DEF started
<1>3. run' = [run EXCEPT ![s] = new] BY <1>1, <1>2 DEF Domains
<1>4. new.scnt = run[s].scnt /\ new.rcnt = run[s].rcnt /\ new.unused = run[s].unused /\ new.posted = run[s].posted
  BY <1>1, CountersAre DEF RunOK
<1> HIDE DEF new
<1>5. Kept BY <1>3, <1>4, RunKept
<1>6. Start(s) # "idle" BY StartIs
<1> QED BY <1>2, <1>5, <1>6, FlowQuiet

\* The loops of a test with credits are those of bandwidth.
LEMMA FlowWorks == ASSUME LoopInv, FlowInv, Credited, NEW s \in Sides, Work(s) PROVE FlowInv'
<1>1. PlaceOK(s) /\ opt' = opt /\ Loop \in {"bw", "bi", "infinite"} BY SideIs, CreditedIs DEF Work
<1>2. BwStep(s)
  <2>1. at[s] \in Elsewhere \cup PlacesOf["bw"] \cup PlacesOf["bi"] \cup PlacesOf["infinite"]
    BY <1>1 DEF PlaceOK
  <2>2. ~LatStep(s)
    BY <2>1 DEF Elsewhere, PlacesOf, LatStep, LatWriteRound, LatWritePoll, LatPost, LatPoll, LatSendReceive,
       LatSendPost, LatSendPoll, BurstServe, BurstServePoll, BurstPost, BurstPoll
  <2> QED BY <2>2 DEF Work
<1>3. ASSUME BwServerReceive(s) PROVE FlowInv'
  <2>1. at[s] = "bws" BY <1>3 DEF BwServerReceive
  <2>2. Loop # "infinite" BY <1>1, <2>1, PlaceTells
  <2>3. PICK q \in Qps : Received(s, q) /\ (mine' = mine \/ mine' = [mine EXCEPT ![s][q] = run[s].rcnt[q] + 1])
                         /\ (at' = at \/ at' = [at EXCEPT ![s] = "bws_credit"])
    BY <1>3 DEF BwServerReceive, GoTo
  <2>4. UNCHANGED <<sq, word>> BY <1>3 DEF BwServerReceive
  <2> QED BY <1>1, <2>1, <2>2, <2>3, <2>4, FlowReceived
<1>4. ASSUME BiReceive(s) PROVE FlowInv'
  <2>1. at[s] \in {"bi_recv", "bi_batch"} BY <1>4 DEF BiReceive
  <2>2. Loop # "infinite" BY <1>1, <2>1, PlaceTells
  <2>3. PICK q \in Qps : Received(s, q) /\ (mine' = mine \/ mine' = [mine EXCEPT ![s][q] = run[s].rcnt[q] + 1])
                         /\ (at' = [at EXCEPT ![s] = "bi_batch"] \/ at' = [at EXCEPT ![s] = "bi_credit"])
    BY <1>4 DEF BiReceive, GoTo
  <2>4. UNCHANGED <<sq, word>> BY <1>4 DEF BiReceive
  <2>5. CASE at' = [at EXCEPT ![s] = "bi_batch"] BY <1>1, <2>1, <2>2, <2>3, <2>4, <2>5, FlowReceived
  <2>6. CASE at' = [at EXCEPT ![s] = "bi_credit"] BY <1>1, <2>1, <2>2, <2>3, <2>4, <2>6, FlowReceived
  <2> QED BY <2>3, <2>5, <2>6
<1>5. ASSUME BwServerEnd(s) PROVE FlowInv'
  <2>1. /\ at[s] = "bws" /\ at' = [at EXCEPT ![s] = "clean"] /\ UNCHANGED <<sq, rq, rcq, mine, word, run>>
    BY <1>5 DEF BwServerEnd, GoTo
  <2> QED BY <1>1, <2>1, FlowMoves
<1> QED BY <1>1, <1>2, <1>3, <1>4, <1>5, FlowPosts, FlowPolls, FlowCredits, FlowEndless DEF BwStep

\* Who sends is connected to the peer's only queue pair.
Mated == Credited => \A s \in Sides : sq[s][0] # <<>> => mate[s][0] = 0

LEMMA FlowNextKept == ASSUME LoopInv, FlowInv, Mated, [Next]_vars PROVE FlowInv'
<1>1. opt' = opt
  BY DEF vars, Next, Network, Program, Talk, CmAllocate, CmEnter, CmHandler, CmLeave, Initialize, Credit, Pair,
     Ready, Begin, Work, Over, Disconnects, Destroys, Ends, Crash, CmGone, Meet, CmKernel, Wire, Device, Interrupt
<1>2. CASE ~Credited
  <2>1. ~Credited' BY <1>1, <1>2, FlowStays
  <2> QED BY <2>1 DEF FlowInv
<1>3. CASE Credited
  <2>1. ASSUME UNCHANGED <<sq, rq, rcq, mine, word, run, at>> PROVE FlowInv'
    <3>1. Kept BY <2>1 DEF Kept
    <3>2. "client" \in Sides BY DEF Sides
    <3> QED BY <1>1, <1>3, <2>1, <3>1, <3>2, FlowQuiet
  <2>2. ASSUME NEW s \in Sides, Interrupt(s) PROVE FlowInv'
    <3>1. Alarm(s) \/ CheckAlive(s) \/ SendError(s) BY <2>2 DEF Interrupt
    <3>2. CASE Alarm(s) BY <2>1, <3>2 DEF Alarm
    <3>3. CASE CheckAlive(s) \/ SendError(s)
      <4>1. /\ at[s] # "idle" /\ at' = [at EXCEPT ![s] = "failed"] /\ UNCHANGED <<sq, rq, rcq, mine, word, run>>
        BY <3>3 DEF CheckAlive, SendError, GoTo
      <4> QED BY <1>1, <1>3, <4>1, FlowMoves
    <3> QED BY <3>1, <3>2, <3>3
  <2>3. ASSUME NEW s \in Sides, NEW q \in Ids, Device(s, q) PROVE FlowInv'
    <3>1. Serve(s, q) BY <2>3 DEF Device
    <3>2. sq[s][0] # <<>> => mate[s][0] = 0 BY <1>3 DEF Mated
    <3> QED BY <1>1, <1>3, <3>1, <3>2, FlowServed
  <2>4. ASSUME NEW s \in Sides, Ready(s) PROVE FlowInv' BY <1>1, <1>3, <2>4, FlowPrepared DEF Ready
  <2>5. ASSUME NEW s \in Sides, Begin(s) PROVE FlowInv' BY <1>3, <2>5, FlowBegins
  <2>6. ASSUME NEW s \in Sides, Work(s) PROVE FlowInv' BY <1>3, <2>6, FlowWorks
  <2>7. ASSUME NEW s \in Sides,
               Talk(s) \/ CmAllocate(s) \/ CmEnter(s) \/ CmHandler(s) \/ CmLeave(s) \/ Initialize(s)
               \/ Credit(s) \/ Pair(s) \/ Over(s) \/ Disconnects(s) \/ Destroys(s) \/ Ends(s)
               \/ Crash(s) \/ CmGone(s)
        PROVE FlowInv'
    BY <2>1, <2>7 DEF Talk, CmAllocate, CmEnter, CmHandler, CmLeave, Initialize, Credit, Pair, Over,
       Disconnects, Destroys, Ends, Crash, CmGone, queueVars
  <2>8. ASSUME Meet \/ CmKernel \/ Wire PROVE FlowInv' BY <2>1, <2>8 DEF Meet, CmKernel, Wire, queueVars
  <2>9. CASE UNCHANGED vars BY <2>1, <2>9 DEF vars, queueVars
  <2> QED BY <2>2, <2>3, <2>4, <2>5, <2>6, <2>7, <2>8, <2>9 DEF Next, Network, Program
<1> QED BY <1>2, <1>3

LEMMA FlowAtStart == Init => FlowInv
<1> SUFFICES ASSUME Init, Credited, NEW s \in Sides PROVE Window(s) /\ Stock(s) BY DEF FlowInv
<1>1. LoopInv /\ 0 \in Ids /\ Iters \in Nat BY LoopAtStart, CreditedIs
<1>2. ASSUME NEW x \in Sides
      PROVE  /\ sq[x][0] = <<>> /\ rq[x][0] = 0 /\ rcq[x][0] = 0 /\ Sent(x) = 0 /\ Counted(x) = 0
             /\ run[x].unused[0] = 0 /\ mine[x][0] = 0 /\ word[x][0] = 0 /\ at[x] = "idle"
  BY <1>1, <1>2 DEF Init, QueuesInit, Counters, Zero, Sent, Counted
<1>3. Unserved(sq[s][0]) = 0
  <2>1. \A w : w = <<>> => {k \in DOMAIN w : w[k].kind = "send"} = {} OBVIOUS
  <2> QED BY <1>2, <2>1, FS_EmptySet DEF Unserved
<1>4. Peer(s) \in Sides BY Two
<1>5. opt.post_list \in Nat BY <1>1, CreditedIs
<1>6. 0 = 0 * opt.post_list /\ 0 \in Nat BY <1>5
<1>7. Window(s) BY <1>1, <1>2, <1>3, <1>4, <1>6 DEF Window
<1>8. Stock(s) BY <1>2 DEF Stock
<1> QED BY <1>7, <1>8

\* The sum behind it: of n sent u wait at the sender, c at the receiver, k are
\* counted, and n is below what the receiver's r + c receives and its count allow.
LEMMA ReceiveLeft ==
  ASSUME NEW u \in Nat, NEW r \in Nat, NEW c \in Nat, NEW k \in Nat, NEW n \in Nat, NEW w \in Nat,
         NEW x \in Nat, NEW m \in Nat, NEW B \in BOOLEAN,
         u >= 1, u + c + k <= n, w <= k, n < w + x, B => n <= m,
         r + c = x \/ (B /\ m <= r + c + k)
  PROVE  r > 0
<1>1. CASE r + c = x BY <1>1
<1>2. CASE B /\ m <= r + c + k BY <1>2
<1> QED BY <1>1, <1>2

\* A message that is sent always finds a receive.
LEMMA FlowMeans ==
  ASSUME LoopInv, FlowInv, Mated, Credited,
         \A s \in Sides : sq[s][0] # <<>> => at[Peer(s)] # "idle"
  PROVE  NoReceiveMissing
<1> SUFFICES ASSUME NEW s \in Sides, NEW q \in Ids, sq[s][q] # <<>>, Head(sq[s][q]).kind = "send"
             PROVE  rq[Peer(s)][mate[s][q]] > 0
  BY DEF NoReceiveMissing
<1> DEFINE t == Peer(s)
<1>1. t \in Sides BY Two
<1>2. q = 0
  <2>1. q \in Qps BY SideIs DEF SendsOK
  <2> QED BY <2>1, CreditedIs
<1>3. mate[s][0] = 0 /\ at[t] # "idle" BY <1>2 DEF Mated
<1>4. Window(s) /\ Stock(t) BY <1>1 DEF FlowInv
<1>5. /\ Sent(s) \in Nat /\ word[s][0] \in Nat /\ sq[s][0] \in Seq(Requests) /\ Unserved(sq[s][0]) \in Nat
      /\ Counted(t) \in Nat /\ rq[t][0] \in Nat /\ rcq[t][0] \in Nat /\ mine[t][0] \in Nat
      /\ opt.rx_depth \in Nat /\ Iters \in Nat
  BY <1>1, FlowNumbers, CreditedIs
<1>6. Unserved(sq[s][0]) >= 1 BY <1>2, <1>5, MessagesTail
<1>7. /\ Unserved(sq[s][0]) + rcq[t][0] + Counted(t) <= Sent(s) /\ word[s][0] <= Counted(t)
  BY <1>4, <1>5 DEF Window
<1>8. Sent(s) # 0 BY <1>5, <1>6, <1>7
<1>9. Receives(t) /\ Sent(s) < word[s][0] + opt.rx_depth /\ (Bounded => Sent(s) <= Iters)
  BY <1>4, <1>8 DEF Window
<1>10. rq[t][0] + rcq[t][0] = opt.rx_depth \/ (Bounded /\ Iters <= rq[t][0] + rcq[t][0] + Counted(t))
  BY <1>3, <1>4, <1>9 DEF Stock
<1>11. rq[t][0] > 0 BY <1>5, <1>6, <1>7, <1>9, <1>10, ReceiveLeft
<1> QED BY <1>2, <1>3, <1>11
=============================================================================
