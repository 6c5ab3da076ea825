------------------------------ MODULE CqPoller ------------------------------
(***************************************************************************)
(* The completion path of one connection (src/env_basic.cc): threads post  *)
(* signaled sends on the queue pair, the adapter executes them and takes   *)
(* the peer's messages, both leave entries in one completion queue, and    *)
(* the poll_cq thread sleeps on the completion channel, re-arms the queue  *)
(* and drains it.  A send keeps its slot of the send queue until its entry *)
(* has been polled.                                                        *)
(*                                                                         *)
(* External: the adapter and the verbs library.  Arming is one-shot: the   *)
(* first entry that arrives while the queue is armed puts one event on the *)
(* channel and disarms it; an entry that arrives unarmed makes no event.   *)
(* An entry that finds the queue full overruns it and breaks the queue     *)
(* pair; nothing enters an overrun queue any more, and the verbs on it may *)
(* fail.  A queue pair in error, after a disconnect or a failed request,   *)
(* completes everything still posted on it, sends and receives alike, into *)
(* the same queue.  Only the kind of an entry is kept: on_completion logs  *)
(* an entry in error and one in success, and does nothing else.            *)
(***************************************************************************)
EXTENDS Integers

CONSTANTS
  WrNumber,   \* conn_params.wr_cq_number: depth of SQ, RQ and CQ alike
  MaxSends,   \* sends the application posts over the connection's life
  MaxMsgs     \* messages the peer sends over the connection's life

ASSUME DepthAssumption == WrNumber \in Nat \ {0}
ASSUME BudgetAssumption == MaxSends \in Nat /\ MaxMsgs \in Nat

VARIABLES
  pc,       \* poll_cq: about to "wait", "notify" or "poll", or "aborted"
  armed,    \* the queue will make an event of its next entry
  events,   \* events on comp_channel not retrieved yet
  cq,       \* entries of each kind not polled yet
  overrun,  \* the queue has been overrun
  inflight, \* sends the adapter has not completed yet
  held,     \* slots of the send queue in use
  rq,       \* receive work requests left
  qp,       \* "live", "error", or "gone" once destroyed
  sends,    \* sends posted so far
  msgs      \* messages taken so far

vars == <<pc, armed, events, cq, overrun, inflight, held, rq, qp, sends, msgs>>

Kinds == {"send", "recv"}
Entries == cq["send"] + cq["recv"]
Empty == [kind \in Kinds |-> 0]

(* A faulty queue, one entry short. *)
CqDepthShort == WrNumber - 1

(* ibv_create_cq(context, wr_cq_number, ...) *)
CqDepth == WrNumber

(* A faulty build_connection that never arms the queue. *)
NeverArmed == FALSE

(* ibv_req_notify_cq in build_connection, before the thread is created. *)
ArmedAtBuild == TRUE

(* A faulty send without a completion. *)
Unsignaled == FALSE

(* send_flags = IBV_SEND_SIGNALED in post_meta_send_wr and rdma_op. *)
Signaled == TRUE

(* A faulty poll_cq that drains the queue before it re-arms it. *)
AfterPollFirst(label) ==
  CASE label = "wait"   -> "poll"
    [] label = "poll"   -> "notify"
    [] label = "notify" -> "wait"

(* A faulty poll_cq whose loop leaves the wait out. *)
AfterNoWait(label) ==
  CASE label = "wait"   -> "notify"
    [] label = "notify" -> "poll"
    [] label = "poll"   -> "notify"

(* The order of poll_cq's loop: get and ack an event, re-arm, drain. *)
After(label) ==
  CASE label = "wait"   -> "notify"
    [] label = "notify" -> "poll"
    [] label = "poll"   -> "wait"

(* build_connection has returned. *)
Init ==
  /\ pc = "wait"
  /\ armed = ArmedAtBuild
  /\ events = 0
  /\ cq = Empty
  /\ overrun = FALSE
  /\ inflight = 0
  /\ held = 0
  /\ rq = WrNumber
  /\ qp = "live"
  /\ sends = 0
  /\ msgs = 0
-----------------------------------------------------------------------------
(* post_meta_send_wr and rdma_op; with no slot left they return an error   *)
(* and change nothing.  A pair in error still takes the request.           *)
PostSend ==
  /\ qp # "gone"
  /\ sends < MaxSends
  /\ held < WrNumber
  /\ sends' = sends + 1
  /\ held' = held + 1
  /\ inflight' = inflight + 1
  /\ UNCHANGED <<pc, armed, events, cq, overrun, rq, qp, msgs>>

(* External: the adapter adds an entry to the completion queue. *)
Enqueue(kind) ==
  IF overrun \/ Entries >= CqDepth
  THEN /\ overrun' = TRUE
       /\ qp' = "error"
       /\ UNCHANGED <<cq, armed, events>>
  ELSE /\ cq' = [cq EXCEPT ![kind] = @ + 1]
       /\ armed' = FALSE
       /\ events' = IF armed THEN events + 1 ELSE events
       /\ UNCHANGED <<overrun, qp>>

(* External: the adapter completes a send: it has executed it on a live    *)
(* pair, or flushes it from one in error, which it does unsignaled too.    *)
Execute ==
  /\ qp # "gone"
  /\ inflight > 0
  /\ inflight' = inflight - 1
  /\ IF Signaled \/ qp = "error"
     THEN Enqueue("send")
     ELSE UNCHANGED <<cq, overrun, armed, events, qp>>
  /\ UNCHANGED <<pc, held, rq, sends, msgs>>

(* External: a message of the peer takes a receive work request; without   *)
(* one the adapter makes the peer retry.                                   *)
Arrive ==
  /\ qp = "live"
  /\ msgs < MaxMsgs
  /\ rq > 0
  /\ rq' = rq - 1
  /\ msgs' = msgs + 1
  /\ Enqueue("recv")
  /\ UNCHANGED <<pc, inflight, held, sends>>

(* External: the connection is disconnected, or a request fails.           *)
Fail ==
  /\ qp = "live"
  /\ qp' = "error"
  /\ UNCHANGED <<pc, armed, events, cq, overrun, inflight, held, rq, sends, msgs>>

(* External: a pair in error completes the receives posted on it.          *)
FlushRecv ==
  /\ qp = "error"
  /\ rq > 0
  /\ rq' = rq - 1
  /\ Enqueue("recv")
  /\ UNCHANGED <<pc, inflight, held, sends, msgs>>
-----------------------------------------------------------------------------
(***************************************************************************)
(* poll_cq.                                                                *)
(***************************************************************************)

(* ibv_get_cq_event blocks for an event; ibv_ack_cq_events. *)
GetEvent ==
  /\ pc = "wait"
  /\ events > 0
  /\ events' = events - 1
  /\ pc' = After(pc)
  /\ UNCHANGED <<armed, cq, overrun, inflight, held, rq, qp, sends, msgs>>

ReqNotify ==
  /\ pc = "notify"
  /\ armed' = TRUE
  /\ pc' = After(pc)
  /\ UNCHANGED <<events, cq, overrun, inflight, held, rq, qp, sends, msgs>>

(* A faulty reading of which entries free a slot of the send queue. *)
FreesAlways(kind) == TRUE
Frees(kind) == kind = "send"

(* ibv_poll_cq takes one entry (in any order here) and on_completion   *)
(* logs it; a send's slot is free again.  Receives are not posted anew.    *)
PollOne ==
  /\ pc = "poll"
  /\ \E kind \in Kinds :
       /\ cq[kind] > 0
       /\ cq' = [cq EXCEPT ![kind] = @ - 1]
       /\ held' = IF Frees(kind) THEN held - 1 ELSE held
  /\ UNCHANGED <<pc, armed, events, overrun, inflight, rq, qp, sends, msgs>>

PollNone ==
  /\ pc = "poll"
  /\ Entries = 0
  /\ pc' = After(pc)
  /\ UNCHANGED <<armed, events, cq, overrun, inflight, held, rq, qp, sends, msgs>>

(* The queue pair goes, and the entries it left in the queue with it.      *)
Released ==
  /\ qp # "gone"
  /\ qp' = "gone"
  /\ cq' = Empty
  /\ inflight' = 0
  /\ held' = 0
  /\ rq' = 0

(* ibv_req_notify_cq or ibv_poll_cq fails, as they may on an overrun       *)
(* queue: assert(false) ends the process.                                  *)
Abort ==
  /\ overrun
  /\ pc \in {"notify", "poll"}
  /\ pc' = "aborted"
  /\ Released
  /\ UNCHANGED <<armed, events, overrun, sends, msgs>>

(* destroy_connection, called by the connection thread while poll_cq is    *)
(* wherever it is: rdma_destroy_qp takes the entries of the pair with it.  *)
DestroyQp ==
  /\ Released
  /\ UNCHANGED <<pc, armed, events, overrun, sends, msgs>>

Poller == GetEvent \/ ReqNotify \/ PollOne \/ PollNone \/ Abort

Adapter == Execute \/ Arrive \/ Fail \/ FlushRecv

Next == PostSend \/ Adapter \/ Poller \/ DestroyQp

Spec == Init /\ [][Next]_vars

(* poll_cq is scheduled, and the adapter completes what was posted. *)
Fairness == WF_vars(Poller) /\ WF_vars(Execute)

FairSpec == Spec /\ Fairness
-----------------------------------------------------------------------------
TypeOK ==
  /\ pc \in {"wait", "notify", "poll", "aborted"}
  /\ armed \in BOOLEAN
  /\ events \in Nat
  /\ cq \in [Kinds -> Nat]
  /\ overrun \in BOOLEAN
  /\ inflight \in Nat
  /\ held \in 0 .. WrNumber
  /\ rq \in 0 .. WrNumber
  /\ qp \in {"live", "error", "gone"}
  /\ sends \in 0 .. MaxSends
  /\ msgs \in 0 .. MaxMsgs

(***************************************************************************)
(* poll_cq never blocks in ibv_get_cq_event while completions sit in the   *)
(* queue unannounced, whatever arrives between its last ibv_poll_cq, its   *)
(* return to the wait and the next ibv_req_notify_cq.                      *)
(***************************************************************************)
NoLostWakeup == (pc = "wait" /\ Entries > 0) => events > 0

(***************************************************************************)
(* The channel never holds more than one event: completions that arrive    *)
(* while poll_cq is busy do not pile up wake-ups.                          *)
(***************************************************************************)
OneWakeup == events <= 1 /\ (armed => events = 0)

(***************************************************************************)
(* The one completion queue serves a send and a receive queue as deep as   *)
(* itself (env_basic.cc:241, 259), and the receives are never posted anew: *)
(* it is overrun, by messages, sends or the flush of either, only when     *)
(* more sends hold their slots than receives are left.                     *)
(***************************************************************************)
OverrunNeedsSends == [][~overrun /\ overrun' => held > rq']_vars

(***************************************************************************)
(* A full send queue drains: every send is signaled, so its slot comes     *)
(* back (env_basic.cc:206), unless the queue was overrun.                  *)
(***************************************************************************)
SendQueueDrains == (held = WrNumber) ~> (held < WrNumber \/ overrun)

(***************************************************************************)
(* Every completion reaches on_completion, or goes with its queue pair: a  *)
(* non-empty queue is emptied.                                             *)
(***************************************************************************)
CompletionsHandled == (Entries > 0) ~> (Entries = 0)
-----------------------------------------------------------------------------
(***************************************************************************)
(* The inductive strengthening the theorems of CqPollerProofs rest on.     *)
(***************************************************************************)

(* Between an event and the next re-arming there is neither arm nor event; *)
(* otherwise there is exactly one of them, as long as the process runs.    *)
SignalInv ==
  /\ OneWakeup
  /\ pc = "notify" => ~armed /\ events = 0
  /\ pc \in {"wait", "poll"} /\ ~armed => events = 1

(* Armed while waiting means that nothing has arrived since the drain. *)
WaitInv == (pc = "wait" /\ armed) => Entries = 0

(* Entries and requests not completed yet are covered by the slots in use  *)
(* and by the receives taken.                                              *)
SlotInv ==
  /\ inflight + cq["send"] <= held
  /\ cq["recv"] + rq <= WrNumber

IInv == TypeOK /\ SignalInv /\ WaitInv /\ SlotInv
=============================================================================
