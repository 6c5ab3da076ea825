----------------------------- MODULE PerfQueues -----------------------------
(***************************************************************************)
(* The queue pairs of a test and the counters of its loops.                *)
(*                                                                         *)
(* A queue pair serves its work requests in order.  A "send" takes one of  *)
(* the receives posted on the peer's queue pair; a "word" writes one word  *)
(* of the sender's memory, as it is when the request is served, into the   *)
(* peer's memory; an "rdma" changes nothing the loops look at.  A request  *)
(* that was signalled leaves a completion behind.                          *)
(*                                                                         *)
(* What queue pair q sends arrives at mate[s][q] of the peer, which the    *)
(* connection manager may have numbered otherwise.  A word goes where the  *)
(* peer's key said, and the keys go by index: into word[q].                *)
(***************************************************************************)
EXTENDS PerfOptions, Sequences, FiniteSetsExt

CONSTANTS MaxSends,  \* bound on what a test without an end sends
          Wrap       \* the counters are unsigned and wrap here

ASSUME WrapAssumption == Wrap \in Nat \ {0}

VARIABLES
  sq,     \* send queues, oldest request first
  rq,     \* receives posted and not yet taken
  rcq,    \* receive completions not yet polled
  scq,    \* send completions not yet polled: of messages, of words
  mate,   \* the peer's queue pair that each queue pair sends to
  mine,   \* the word each side sends from: ctrl_buf[q], or post_buf
  word,   \* the word the peer writes to: credit_buf[q], or poll_buf
  run,    \* the counters of the loop each side is in
  at,     \* where in its loop each side is
  timer   \* DURATION: duration_param->state of each side

queueVars == <<sq, rq, rcq, scq, mine, word, run, at, timer>>

InDuration == opt.test_type = "DURATION"
\* user_param->iters, which a test of a duration sets to 0 where it starts.
Iters == IF InDuration THEN 0 ELSE opt.iters

Zero == [q \in Ids |-> 0]
Total(f) ==
  LET upTo[n \in 0..MaxQps] == IF n = 0 THEN 0 ELSE upTo[n - 1] + f[n - 1] IN upTo[MaxQps]
\* uint64_t subtraction.
Minus(a, b) == (a - b) % Wrap

\* The counters, with the names they have in the loops.  flag is
\* IBV_SEND_SIGNALED of the request a queue pair posts again and again.
Counters ==
  [scnt |-> Zero, ccnt |-> Zero, totccnt |-> 0, rcnt |-> Zero, unused |-> Zero,
   posted |-> Zero, scredit |-> Zero, started |-> FALSE,
   flag |-> [q \in Ids |-> FALSE], index |-> 0]

QueuesInit ==
  /\ sq = [s \in Sides |-> [q \in Ids |-> <<>>]]
  /\ rq = [s \in Sides |-> Zero]
  /\ rcq = [s \in Sides |-> Zero]
  /\ scq = [s \in Sides |-> [q \in Ids |-> [data |-> 0, word |-> 0]]]
  /\ mate = [s \in Sides |-> [q \in Ids |-> None]]
  /\ mine = [s \in Sides |-> Zero]
  /\ word = [s \in Sides |-> Zero]
  /\ run = [s \in Sides |-> Counters]
  /\ at = [s \in Sides |-> "idle"]
  /\ timer = [s \in Sides |-> "off"]

\* The receives of a queue pair, or the ones all of them share.
Pool(q) == IF opt.use_srq THEN 0 ELSE q

\* The oldest request of a queue pair needs a number or a key that did not come.
Astray(s, q) ==
  /\ KeysMissed /\ sq[s][q] # <<>>
  /\ Head(sq[s][q]).kind = "send" => ~opt.work_rdma_cm

\* The device serves the oldest request of a queue pair.  A message that finds
\* no receive is tried again on a reliable connection and gone on the others,
\* as is a request that goes astray.
Serve(s, q) ==
  LET t == Peer(s)
      m == mate[s][q]
      head == Head(sq[s][q])
      takes == head.kind = "send" /\ ~Astray(s, q) /\ rq[t][Pool(m)] > 0 IN
  /\ sq[s][q] # <<>>
  /\ opt.connection_type = "RC" => ~Astray(s, q) /\ (head.kind = "send" => takes)
  /\ sq' = [sq EXCEPT ![s][q] = Tail(@)]
  /\ IF takes
     THEN /\ rq' = [rq EXCEPT ![t][Pool(m)] = @ - 1]
          /\ rcq' = [rcq EXCEPT ![t][m] = @ + 1]
     ELSE UNCHANGED <<rq, rcq>>
  /\ word' = IF head.kind = "word" /\ ~Astray(s, q) THEN [word EXCEPT ![t][q] = mine[s][q]] ELSE word
  /\ scq' = CASE ~head.sig -> scq
              [] head.kind = "word" -> [scq EXCEPT ![s][q].word = @ + 1]
              [] OTHER -> [scq EXCEPT ![s][q].data = @ + 1]
  /\ UNCHANGED <<mine, run, at, timer>>

\* A reliable request to a peer that is gone, or that goes astray, completes in
\* error, and the loop that polls it is left.
SendError(s) ==
  /\ opt.connection_type = "RC"
  /\ \E q \in Ids : sq[s][q] # <<>>
  /\ at[s] \notin {"idle", "ready", "done", "failed"}
  /\ at' = [at EXCEPT ![s] = "failed"]
  /\ UNCHANGED <<sq, rq, rcq, scq, mine, word, run, timer>>

-----------------------------------------------------------------------------
(* Preparing the queues.                                                   *)

\* ctx_set_send_reg_wqes: the request at place j of a list is signalled when j
\* completes a group of cq_mod; a list of one starts with its first request.
ListFlag(j) == j % opt.cq_mod = 0

\* ctx_set_recv_wqes: as many whole lists as fit the depth, or a queue pair's
\* share of it, for the sides that receive messages.
Rposted ==
  LET lists == opt.rx_depth \div opt.recv_post_list IN
  (IF opt.use_srq THEN lists \div opt.num_of_qps ELSE lists) * opt.recv_post_list
Receives(s) == opt.verb = "SEND" /\ (s = "server" \/ BothWays \/ Loop = "burst")

Prepare(s) ==
  LET n == [q \in Ids |-> Cardinality({p \in Qps : Pool(p) = q}) * Rposted] IN
  /\ at[s] = "idle"
  /\ at' = [at EXCEPT ![s] = "ready"]
  /\ rq' = IF Receives(s) THEN [rq EXCEPT ![s] = n] ELSE rq
  /\ run' = [run EXCEPT ![s].flag = [q \in Ids |-> ListFlag(1)],
                        ![s].posted = [q \in Ids |-> Rposted]]
  /\ UNCHANGED <<sq, rcq, scq, mine, word, timer>>

\* ctx_alloc_credit: a credit is returned three times in each round of rx_depth.
CreditCnt == opt.rx_depth \div 3

\* ctx_set_credit_wqes: the request that carries the count, always signalled.
CreditWr == [kind |-> "word", sig |-> TRUE]

\* catch_alarm: margin, sample, margin.  They last seconds: none is over before
\* the other side's has begun too, if its loop has one.
Alarm(s) ==
  LET next == [START |-> "SAMPLE", SAMPLE |-> "STOP_SAMPLE", STOP_SAMPLE |-> "END"] IN
  /\ timer[s] \in DOMAIN next
  /\ \A t \in Sides : timer[t] = "off" => at[t] = "done"
  /\ timer' = [timer EXCEPT ![s] = next[@]]
  /\ UNCHANGED <<sq, rq, rcq, scq, mine, word, run, at>>

Ended(s) == InDuration /\ timer[s] = "END"
\* Where a loop arms its timer.
Started(s) == IF InDuration /\ timer[s] = "off" THEN [timer EXCEPT ![s] = "START"] ELSE timer

\* A side's loop goes on at another place.
GoTo(s, place) == at' = [at EXCEPT ![s] = place]

\* Every completion there is, polled at once.
DataPolled(s) == [q \in Ids |-> scq[s][q].data]
WordsPolled(s) == [q \in Ids |-> scq[s][q].word]
NoCompletions == [q \in Ids |-> [data |-> 0, word |-> 0]]
Plus(f, g, k) == [q \in Ids |-> f[q] + k * g[q]]

\* A faulty test for posting receives again, off by one.
RepostsStrict(s, q) ==
  /\ InDuration \/ run[s].posted[q] + opt.recv_post_list < Iters
  /\ run[s].unused[q] + 1 >= opt.recv_post_list

\* A polled receive completion puts a list of receives back once it has one to
\* put, and while the test has iterations left for it.
Reposts(s, q) ==
  /\ InDuration \/ run[s].posted[q] + opt.recv_post_list <= Iters
  /\ run[s].unused[q] + 1 >= opt.recv_post_list

\* What one receive completion does to the counters of run_iter_bw_server and
\* run_iter_bi, and to the receives.
Received(s, q) ==
  LET r == IF Reposts(s, q) THEN opt.recv_post_list ELSE 0 IN
  /\ rcq[s][q] > 0
  /\ rcq' = [rcq EXCEPT ![s][q] = @ - 1]
  /\ rq' = [rq EXCEPT ![s][Pool(q)] = @ + r]
  /\ run' = [run EXCEPT ![s].rcnt[q] = @ + 1,
                        ![s].unused[q] = @ + 1 - r,
                        ![s].posted[q] = @ + r,
                        ![s].started = TRUE,
                        ![s].index = q]
\* The count of received messages is due to the sender.
CreditDue(s, q) ==
  opt.send_rcredit /\ ((run[s].rcnt[q] + 1) % opt.rx_depth) % CreditCnt = 0

\* post_send_method with the loops' choice of which requests ask for a
\* completion: with single requests the last of every cq_mod, and the last of
\* the test.
PostNext(s, q) ==
  LET r == run[s]
      n == r.scnt[q]
      single == opt.post_list = 1
      last == ~InDuration /\ n = Iters - 1
      sig == r.flag[q] /\ ~(single /\ n % opt.cq_mod = 0 /\ opt.cq_mod > 1 /\ ~last)
      after == n + opt.post_list
      next == single /\ (after % opt.cq_mod = opt.cq_mod - 1
                         \/ (~InDuration /\ after = Iters - 1))
      kind == IF opt.verb = "SEND" THEN "send" ELSE "rdma" IN
  /\ sq' = [sq EXCEPT ![s][q] = @ \o [j \in 1..opt.post_list |->
              [kind |-> kind, sig |-> IF single THEN sig ELSE ListFlag(j)]]]
  /\ run' = [run EXCEPT ![s].scnt[q] = after, ![s].flag[q] = sig \/ next]

\* The receiver has room for another list (swindow); the faulty test takes a
\* completed send for a credit.
HasCreditSent(s, q) ==
  opt.send_rcredit => Minus(run[s].scnt[q] + opt.post_list, run[s].ccnt[q]) < opt.rx_depth
HasCredit(s, q) ==
  opt.send_rcredit => Minus(run[s].scnt[q] + opt.post_list, word[s][q]) < opt.rx_depth
=============================================================================
