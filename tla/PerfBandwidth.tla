--------------------------- MODULE PerfBandwidth ---------------------------
(***************************************************************************)
(* The bandwidth loops: run_iter_bw with run_iter_bw_server, their endless *)
(* variants, and run_iter_bi in which both sides send.  A sender visits    *)
(* its queue pairs in turn, posts while its window is open, then polls; a  *)
(* receiver counts, posts receives again and tells the sender how many it  *)
(* has counted.                                                            *)
(***************************************************************************)
EXTENDS PerfQueues

MaxIter == Iters * opt.num_of_qps

\* To the next queue pair, or on to polling.
NextQp(s, place) ==
  LET k == run[s].index + 1 IN
  IF k < opt.num_of_qps
  THEN run' = [run EXCEPT ![s].index = k] /\ UNCHANGED at
  ELSE run' = [run EXCEPT ![s].index = 0] /\ GoTo(s, place)

-----------------------------------------------------------------------------
(* run_iter_bw                                                             *)

BwMore(s, r) ==
  \/ Total(r.scnt) < MaxIter \/ r.totccnt < MaxIter
  \/ InDuration /\ timer[s] # "END"

BwOpen(s, q) ==
  /\ run[s].scnt[q] < Iters \/ InDuration
  /\ Minus(run[s].scnt[q], run[s].ccnt[q]) + opt.post_list <= opt.tx_depth
  /\ HasCredit(s, q)
  /\ ~Ended(s)
  /\ InDuration => run[s].scnt[q] < MaxSends

BwPost(s) ==
  /\ at[s] = "bw_post"
  /\ IF BwOpen(s, run[s].index)
     THEN PostNext(s, run[s].index) /\ UNCHANGED at
     ELSE NextQp(s, "bw_poll") /\ UNCHANGED sq
  /\ UNCHANGED <<rq, rcq, scq, mine, word, timer>>

\* Each completion stands for cq_mod messages.
BwPoll(s) ==
  LET r == run[s]
      looks == r.totccnt < MaxIter \/ (InDuration /\ r.totccnt < Total(r.scnt))
      n == IF looks THEN DataPolled(s) ELSE Zero
      new == [r EXCEPT !.ccnt = Plus(@, n, opt.cq_mod), !.totccnt = @ + opt.cq_mod * Total(n)] IN
  /\ at[s] = "bw_poll"
  /\ scq' = IF looks THEN [scq EXCEPT ![s] = NoCompletions] ELSE scq
  /\ run' = [run EXCEPT ![s] = new]
  /\ GoTo(s, IF BwMore(s, new) THEN "bw_post" ELSE "done")
  /\ UNCHANGED <<sq, rq, rcq, mine, word, timer>>

-----------------------------------------------------------------------------
(* run_iter_bw_server                                                      *)

BwServerMore(s) == Total(run[s].rcnt) < MaxIter \/ (InDuration /\ timer[s] # "END")

\* One completion of the batch: count, post receives again, and the count goes
\* into ctrl_buf when it is due (set_on_first_rx_packet arms the timer).
BwServerReceive(s) ==
  /\ at[s] = "bws" /\ ~Ended(s)
  /\ \E q \in Qps :
       /\ Received(s, q)
       /\ IF CreditDue(s, q)
          THEN mine' = [mine EXCEPT ![s][q] = run[s].rcnt[q] + 1] /\ GoTo(s, "bws_credit")
          ELSE UNCHANGED <<mine, at>>
  /\ timer' = Started(s)
  /\ UNCHANGED <<sq, scq, word>>

\* While tx_depth counts are out, wait for completions; then send this one.
BwServerCredit(s) ==
  LET q == run[s].index
      full == run[s].scredit[q] = opt.tx_depth IN
  /\ at[s] = "bws_credit"
  /\ IF full
     THEN /\ Total(WordsPolled(s)) > 0
          /\ run' = [run EXCEPT ![s].scredit = Plus(@, WordsPolled(s), -1)]
          /\ scq' = [scq EXCEPT ![s] = NoCompletions]
          /\ UNCHANGED <<sq, at>>
     ELSE /\ sq' = [sq EXCEPT ![s][q] = Append(@, CreditWr)]
          /\ run' = [run EXCEPT ![s].scredit[q] = @ + 1]
          /\ GoTo(s, "bws")
          /\ UNCHANGED scq
  /\ UNCHANGED <<rq, rcq, mine, word, timer>>

\* The poll came back empty, or the time is over.
BwServerEnd(s) ==
  /\ at[s] = "bws"
  /\ Ended(s) \/ Total(rcq[s]) = 0
  /\ ~BwServerMore(s)
  /\ GoTo(s, "clean")
  /\ UNCHANGED <<sq, rq, rcq, scq, mine, word, run, timer>>

\* clean_scq_credit: wait for as many completions as counts are still out.
CleanCredit(s) ==
  LET n == WordsPolled(s)
      left == Total(run[s].scredit) - Total(n) IN
  /\ at[s] = "clean"
  /\ left > 0 => Total(n) > 0
  /\ run' = [run EXCEPT ![s].scredit = Plus(@, n, -1)]
  /\ scq' = [scq EXCEPT ![s] = NoCompletions]
  /\ IF left > 0 THEN UNCHANGED at ELSE GoTo(s, "done")
  /\ UNCHANGED <<sq, rq, rcq, mine, word, timer>>

\* check_alive found no progress since its last look: the loop is left.
CheckAlive(s) ==
  /\ opt.faults /\ ~InDuration
  /\ at[s] \in {"bws", "bi_recv"}
  /\ Total(rcq[s]) = 0 /\ Total(run[s].rcnt) < MaxIter
  /\ GoTo(s, "failed")
  /\ UNCHANGED <<sq, rq, rcq, scq, mine, word, run, timer>>

-----------------------------------------------------------------------------
(* run_iter_bw_infinitely and run_iter_bw_infinitely_server                *)

InfinitePost(s) ==
  LET q == run[s].index
      open == /\ Minus(run[s].scnt[q], run[s].ccnt[q]) + opt.post_list <= opt.tx_depth
              /\ HasCredit(s, q)
              /\ run[s].scnt[q] < MaxSends IN
  /\ at[s] = "inf_post"
  /\ IF open THEN PostNext(s, q) /\ UNCHANGED at
             ELSE NextQp(s, "inf_poll") /\ UNCHANGED sq
  /\ UNCHANGED <<rq, rcq, scq, mine, word, timer>>

InfinitePoll(s) ==
  LET looks == run[s].totccnt < Total(run[s].scnt)
      n == IF looks THEN DataPolled(s) ELSE Zero IN
  /\ at[s] = "inf_poll"
  /\ run' = [run EXCEPT ![s].ccnt = Plus(@, n, opt.cq_mod),
                        ![s].totccnt = @ + opt.cq_mod * Total(n)]
  /\ scq' = IF looks THEN [scq EXCEPT ![s] = NoCompletions] ELSE scq
  /\ GoTo(s, "inf_post")
  /\ UNCHANGED <<sq, rq, rcq, mine, word, timer>>

\* Here scredit counts messages since the last count was sent, and ccnt the
\* counts that are out; without credits, and with a shared receive queue,
\* nothing is counted.
InfiniteReceive(s) ==
  LET n == IF opt.send_rcredit /\ ~opt.use_srq THEN 1 ELSE 0
      due(q) == n = 1 /\ run[s].scredit[q] + 1 = CreditCnt
      list(q) == IF run[s].unused[q] + 1 >= opt.recv_post_list THEN opt.recv_post_list ELSE 0 IN
  /\ at[s] = "infs"
  /\ \E q \in Qps :
       /\ rcq[s][q] > 0
       /\ rcq' = [rcq EXCEPT ![s][q] = @ - 1]
       /\ rq' = [rq EXCEPT ![s][Pool(q)] = @ + list(q)]
       /\ run' = [run EXCEPT ![s].rcnt[q] = @ + n, ![s].unused[q] = @ + 1 - list(q),
                             ![s].scredit[q] = @ + n, ![s].index = q]
       /\ IF due(q)
          THEN mine' = [mine EXCEPT ![s][q] = run[s].rcnt[q] + 1] /\ GoTo(s, "infs_credit")
          ELSE UNCHANGED <<mine, at>>
  /\ UNCHANGED <<sq, scq, word, timer>>

InfiniteCredit(s) ==
  LET q == run[s].index
      full == run[s].ccnt[q] = opt.tx_depth IN
  /\ at[s] = "infs_credit"
  /\ IF full
     THEN /\ Total(WordsPolled(s)) > 0
          /\ run' = [run EXCEPT ![s].ccnt = Plus(@, WordsPolled(s), -1)]
          /\ scq' = [scq EXCEPT ![s] = NoCompletions]
          /\ UNCHANGED <<sq, at>>
     ELSE /\ sq' = [sq EXCEPT ![s][q] = Append(@, CreditWr)]
          /\ run' = [run EXCEPT ![s].ccnt[q] = @ + 1, ![s].scredit[q] = 0]
          /\ GoTo(s, "infs")
          /\ UNCHANGED scq
  /\ UNCHANGED <<rq, rcq, mine, word, timer>>

-----------------------------------------------------------------------------
(* run_iter_bi                                                             *)

BiMore(s, r) ==
  \/ InDuration /\ timer[s] # "END"
  \/ r.totccnt < MaxIter \/ Total(r.rcnt) < MaxIter

\* The send queue holds messages and counts; the server waits for its first
\* message before it sends (before_first_rx).
BiInFlight(s, q) == Minus(run[s].scnt[q] + run[s].scredit[q], run[s].ccnt[q])

BiPost(s) ==
  LET q == run[s].index
      open == /\ run[s].started
              /\ run[s].scnt[q] < Iters \/ InDuration
              /\ BiInFlight(s, q) + opt.post_list <= opt.tx_depth
              /\ HasCredit(s, q)
              /\ ~Ended(s)
              /\ InDuration => run[s].scnt[q] < MaxSends IN
  /\ at[s] = "bi_post"
  /\ IF open THEN PostNext(s, q) /\ UNCHANGED at
             ELSE NextQp(s, "bi_recv") /\ UNCHANGED sq
  /\ UNCHANGED <<rq, rcq, scq, mine, word, timer>>

\* One completion of the batch that was polled.
BiReceive(s) ==
  /\ at[s] \in {"bi_recv", "bi_batch"}
  /\ \E q \in Qps :
       /\ Received(s, q)
       /\ IF CreditDue(s, q)
          THEN mine' = [mine EXCEPT ![s][q] = run[s].rcnt[q] + 1] /\ GoTo(s, "bi_credit")
          ELSE GoTo(s, "bi_batch") /\ UNCHANGED mine
  /\ timer' = Started(s)
  /\ UNCHANGED <<sq, scq, word>>

\* While the queue is full, poll one completion, a count's or a message's; then
\* send the count.
BiCredit(s) ==
  LET q == run[s].index IN
  /\ at[s] = "bi_credit"
  /\ IF BiInFlight(s, q) >= opt.tx_depth
     THEN /\ \E p \in Qps :
               \/ /\ scq[s][p].word > 0
                  /\ scq' = [scq EXCEPT ![s][p].word = @ - 1]
                  /\ run' = [run EXCEPT ![s].scredit[p] = @ - 1]
               \/ /\ scq[s][p].data > 0
                  /\ scq' = [scq EXCEPT ![s][p].data = @ - 1]
                  /\ run' = [run EXCEPT ![s].ccnt[p] = @ + opt.cq_mod,
                                        ![s].totccnt = @ + opt.cq_mod]
          /\ UNCHANGED <<sq, at>>
     ELSE /\ sq' = [sq EXCEPT ![s][q] = Append(@, CreditWr)]
          /\ run' = [run EXCEPT ![s].scredit[q] = @ + 1, ![s].index = 0]
          /\ GoTo(s, "bi_batch")
          /\ UNCHANGED scq
  /\ UNCHANGED <<rq, rcq, mine, word, timer>>

\* The batch is over, or there was none; what has arrived since waits for the
\* next.  Poll the send completions and go round.
BiPoll(s) ==
  LET new == [run[s] EXCEPT !.ccnt = Plus(@, DataPolled(s), opt.cq_mod),
                            !.totccnt = @ + opt.cq_mod * Total(DataPolled(s)),
                            !.scredit = Plus(@, WordsPolled(s), -1),
                            !.index = 0] IN
  /\ at[s] = "bi_batch" \/ (at[s] = "bi_recv" /\ Total(rcq[s]) = 0)
  /\ run' = [run EXCEPT ![s] = new]
  /\ scq' = [scq EXCEPT ![s] = NoCompletions]
  /\ GoTo(s, IF BiMore(s, new) THEN "bi_post" ELSE "clean")
  /\ UNCHANGED <<sq, rq, rcq, mine, word, timer>>

BwStep(s) ==
  \/ BwPost(s) \/ BwPoll(s)
  \/ BwServerReceive(s) \/ BwServerCredit(s) \/ BwServerEnd(s) \/ CleanCredit(s)
  \/ InfinitePost(s) \/ InfinitePoll(s) \/ InfiniteReceive(s) \/ InfiniteCredit(s)
  \/ BiPost(s) \/ BiReceive(s) \/ BiCredit(s) \/ BiPoll(s)
=============================================================================
