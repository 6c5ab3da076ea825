---------------------------- MODULE PerfLatency ----------------------------
(***************************************************************************)
(* The latency loops, on queue pair 0: run_iter_lat_write (each side       *)
(* watches a byte of its memory), run_iter_lat (only the client works),    *)
(* run_iter_lat_send (ping pong of messages) and run_iter_lat_burst with   *)
(* its server, which answers every reply_every-th message.                 *)
(***************************************************************************)
EXTENDS PerfQueues

CONSTANT CharRange  \* the watched byte wraps here

ASSUME CharAssumption == CharRange \in Nat \ {0, 1}

Turn(s) == run[s].scnt[0]
Heard(s) == run[s].rcnt[0]

\* A side waits for the other's message while it has not heard them all, but the
\* one that starts does not the first time; the faulty test lets both start.
WaitsBoth(s, starter) == (Heard(s) < Iters \/ InDuration) /\ Turn(s) >= 1
Waits(s, starter) == (Heard(s) < Iters \/ InDuration) /\ ~(Turn(s) < 1 /\ s = starter)

Append0(s, k, wr) == [sq EXCEPT ![s][0] = @ \o [j \in 1..k |-> wr]]
TakeData(s, k) == [scq EXCEPT ![s][0].data = @ - k]

-----------------------------------------------------------------------------
(* run_iter_lat_write                                                      *)

\* One round: wait for the peer's byte, which the server does not do the first
\* time, and write the own one.
LatWriteRound(s) ==
  LET waits == Waits(s, "server")
      sends == Turn(s) < Iters \/ InDuration
      byte == (Turn(s) + 1) % CharRange IN
  /\ at[s] = "lat_write"
  /\ waits => word[s][0] = (Heard(s) + 1) % CharRange \/ Ended(s)
  /\ InDuration /\ ~Ended(s) => Turn(s) < MaxSends
  /\ run' = [run EXCEPT ![s].rcnt[0] = @ + (IF waits THEN 1 ELSE 0),
                        ![s].scnt[0] = @ + (IF sends THEN 1 ELSE 0)]
  /\ IF sends
     THEN /\ mine' = [mine EXCEPT ![s][0] = byte]
          /\ sq' = Append0(s, 1, [kind |-> "word", sig |-> TRUE])
     ELSE UNCHANGED <<mine, sq>>
  /\ GoTo(s, IF Ended(s) THEN "done" ELSE "lat_write_poll")
  /\ UNCHANGED <<rq, rcq, scq, word, timer>>

LatWritePoll(s) ==
  LET polls == run[s].ccnt[0] < Iters \/ InDuration
      c == run[s].ccnt[0] + (IF polls THEN 1 ELSE 0)
      more == Turn(s) < Iters \/ c < Iters \/ Heard(s) < Iters
              \/ (InDuration /\ ~Ended(s)) IN
  /\ at[s] = "lat_write_poll"
  /\ polls => scq[s][0].word > 0
  /\ scq' = IF polls THEN [scq EXCEPT ![s][0].word = @ - 1] ELSE scq
  /\ run' = [run EXCEPT ![s].ccnt[0] = c]
  /\ GoTo(s, IF more THEN "lat_write" ELSE "done")
  /\ UNCHANGED <<sq, rq, rcq, mine, word, timer>>

-----------------------------------------------------------------------------
(* run_iter_lat: post one, wait for it.  A test of a duration does not     *)
(* count what it posts, always has less of it than it has sampled, and     *)
(* leaves only behind one more request.                                    *)

LatPost(s) ==
  /\ at[s] = "lat"
  /\ sq' = Append0(s, 1, [kind |-> "rdma", sig |-> TRUE])
  /\ run' = [run EXCEPT ![s].scnt[0] = IF InDuration THEN @ ELSE @ + 1]
  /\ GoTo(s, IF Ended(s) THEN "done" ELSE "lat_poll")
  /\ UNCHANGED <<rq, rcq, scq, mine, word, timer>>

LatPoll(s) ==
  /\ at[s] = "lat_poll"
  /\ scq[s][0].data > 0
  /\ scq' = TakeData(s, 1)
  /\ GoTo(s, IF Turn(s) < Iters \/ InDuration THEN "lat" ELSE "done")
  /\ UNCHANGED <<sq, rq, rcq, mine, word, run, timer>>

-----------------------------------------------------------------------------
(* run_iter_lat_send                                                       *)

LatSendMore(s) == Turn(s) < Iters \/ Heard(s) < Iters \/ (InDuration /\ ~Ended(s))

\* The message of this round, which the client does not wait for the first
\* time; a receive is posted again while the test needs it.
LatSendReceive(s) ==
  LET waits == Waits(s, "client")
      over == waits /\ Ended(s)
      polled == rcq[s][0] > 0
      counts == waits /\ ~over
      again == counts /\ (InDuration \/ Heard(s) + 1 + opt.rx_depth <= Iters) IN
  /\ at[s] = "lat_send"
  /\ counts => polled
  /\ rcq' = [rcq EXCEPT ![s][0] = @ - (IF waits /\ polled THEN 1 ELSE 0)]
  /\ rq' = [rq EXCEPT ![s][0] = @ + (IF again THEN 1 ELSE 0)]
  /\ run' = [run EXCEPT ![s].rcnt[0] = @ + (IF counts THEN 1 ELSE 0)]
  /\ timer' = IF counts THEN Started(s) ELSE timer
  /\ GoTo(s, "lat_send_post")
  /\ UNCHANGED <<sq, scq, mine, word>>

\* The answer, or the first message: each cq_mod-th and the last is waited for.
LatSendPost(s) ==
  LET sends == Turn(s) < Iters \/ (InDuration /\ ~Ended(s))
      n == Turn(s) + 1
      poll == n % opt.cq_mod = 0 \/ (~InDuration /\ n = Iters) IN
  /\ at[s] = "lat_send_post"
  /\ InDuration /\ ~Ended(s) => Turn(s) < MaxSends
  /\ IF sends
     THEN /\ sq' = Append0(s, 1, [kind |-> "send", sig |-> poll])
          /\ run' = [run EXCEPT ![s].scnt[0] = n]
          /\ GoTo(s, IF poll THEN "lat_send_poll" ELSE "lat_send")
     ELSE /\ GoTo(s, IF LatSendMore(s) THEN "lat_send" ELSE "done")
          /\ UNCHANGED <<sq, run>>
  /\ UNCHANGED <<rq, rcq, scq, mine, word, timer>>

LatSendPoll(s) ==
  /\ at[s] = "lat_send_poll"
  /\ scq[s][0].data > 0
  /\ scq' = TakeData(s, 1)
  /\ GoTo(s, IF LatSendMore(s) THEN "lat_send" ELSE "done")
  /\ UNCHANGED <<sq, rq, rcq, mine, word, run, timer>>

-----------------------------------------------------------------------------
(* run_iter_lat_burst and run_iter_lat_burst_server                        *)

\* What posting wr[0] posts, k times: the whole list, for an answer too.
PostLists(s, k) ==
  [sq EXCEPT ![s][0] = @ \o [j \in 1..(k * opt.post_list) |->
     [kind |-> "send", sig |-> ListFlag(1 + ((j - 1) % opt.post_list))]]]

\* A batch of messages: every reply_every-th is answered, unless tx_depth
\* answers are out, and every receive is posted again.
BurstServe(s) ==
  LET n == Min({opt.burst_size, rcq[s][0]})
      due == Cardinality({k \in 1..n : (Heard(s) + k) % opt.reply_every = 0})
      replies == Min({due, Minus(opt.tx_depth + run[s].ccnt[0], Turn(s))}) IN
  /\ at[s] = "burst_serve"
  /\ rcq' = [rcq EXCEPT ![s][0] = @ - n]
  /\ rq' = [rq EXCEPT ![s][0] = @ + n]
  /\ sq' = PostLists(s, replies)
  /\ run' = [run EXCEPT ![s].rcnt[0] = @ + n, ![s].scnt[0] = @ + replies]
  /\ GoTo(s, "burst_serve_poll")
  /\ UNCHANGED <<scq, mine, word, timer>>

BurstServePoll(s) ==
  /\ at[s] = "burst_serve_poll"
  /\ run' = [run EXCEPT ![s].ccnt[0] = @ + scq[s][0].data]
  /\ scq' = TakeData(s, scq[s][0].data)
  /\ GoTo(s, IF Heard(s) < Iters THEN "burst_serve" ELSE "done")
  /\ UNCHANGED <<sq, rq, rcq, mine, word, timer>>

\* A burst is posted while the queue has room; a burst cut short goes on after
\* the polling.
BurstPost(s) ==
  LET open == Turn(s) < Iters /\ Minus(Turn(s), run[s].totccnt) < opt.tx_depth
      k == (run[s].index + 1) % opt.burst_size IN
  /\ at[s] = "burst"
  /\ IF open
     THEN /\ sq' = PostLists(s, 1)
          /\ run' = [run EXCEPT ![s].scnt[0] = @ + opt.post_list, ![s].index = k]
          /\ IF k = 0 THEN GoTo(s, "burst_poll") ELSE UNCHANGED at
     ELSE GoTo(s, "burst_poll") /\ UNCHANGED <<sq, run>>
  /\ UNCHANGED <<rq, rcq, scq, mine, word, timer>>

\* Answers and completions, until no answer is waiting.
BurstPoll(s) ==
  LET n == rcq[s][0]
      k == Min({opt.burst_size, scq[s][0].data})
      c == run[s].totccnt + opt.cq_mod * k
      more == Heard(s) + n < Turn(s) \div opt.reply_every \/ c < Iters IN
  /\ at[s] = "burst_poll"
  /\ rcq' = [rcq EXCEPT ![s][0] = 0]
  /\ rq' = [rq EXCEPT ![s][0] = @ + n]
  /\ scq' = TakeData(s, k)
  /\ run' = [run EXCEPT ![s].rcnt[0] = @ + n, ![s].totccnt = c]
  /\ GoTo(s, CASE n > 0 -> "burst_poll" [] n = 0 /\ more -> "burst" [] OTHER -> "done")
  /\ UNCHANGED <<sq, mine, word, timer>>

LatStep(s) ==
  \/ LatWriteRound(s) \/ LatWritePoll(s)
  \/ LatPost(s) \/ LatPoll(s)
  \/ LatSendReceive(s) \/ LatSendPost(s) \/ LatSendPoll(s)
  \/ BurstServe(s) \/ BurstServePoll(s) \/ BurstPost(s) \/ BurstPoll(s)
=============================================================================
