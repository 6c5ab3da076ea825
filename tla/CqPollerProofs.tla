--------------------------- MODULE CqPollerProofs ---------------------------
(* Theorems about CqPoller, for every queue depth and every budget.        *)
EXTENDS CqPoller, TLAPS

USE DepthAssumption, BudgetAssumption

LEMMA InitInv == Init => IInv
<1> SUFFICES ASSUME Init PROVE IInv
  OBVIOUS
<1>1. armed = TRUE /\ pc = "wait" /\ events = 0 /\ overrun = FALSE
  BY DEF Init, ArmedAtBuild
<1>2. TypeOK /\ SlotInv /\ Entries = 0
  <2>1. /\ cq = [kind \in Kinds |-> 0] /\ inflight = 0 /\ held = 0
        /\ rq = WrNumber /\ qp = "live" /\ sends = 0 /\ msgs = 0
    BY DEF Init, Empty
  <2>2. armed \in BOOLEAN /\ overrun \in BOOLEAN
    BY <1>1
  <2>3. cq \in [Kinds -> Nat] /\ cq["send"] = 0 /\ cq["recv"] = 0
    BY <2>1 DEF Kinds
  <2> QED BY <1>1, <2>1, <2>2, <2>3 DEF TypeOK, SlotInv, Entries
<1>3. SignalInv /\ WaitInv
  BY <1>1, <1>2 DEF SignalInv, OneWakeup, WaitInv
<1> QED BY <1>2, <1>3 DEF IInv

LEMMA PostSendInv == IInv /\ PostSend => IInv'
BY DEF PostSend, IInv, TypeOK, SignalInv, OneWakeup, WaitInv, SlotInv,
       Entries, Kinds

(* An entry that arrives takes the armed signal with it, or finds the      *)
(* queue overrun and changes nothing a poller looks at.                    *)
LEMMA EnqueueSignal ==
  ASSUME IInv, NEW kind \in Kinds, Enqueue(kind), pc' = pc
  PROVE  SignalInv' /\ WaitInv'
<1>1. CASE UNCHANGED <<cq, armed, events>>
  BY <1>1 DEF IInv, SignalInv, OneWakeup, WaitInv, Entries
<1>2. CASE /\ armed' = FALSE
           /\ events' = IF armed THEN events + 1 ELSE events
  <2>1. CASE armed
    <3>1. events = 0 /\ pc # "notify"
      BY <2>1 DEF IInv, SignalInv, OneWakeup
    <3>2. events' = 1
      BY <1>2, <2>1, <3>1
    <3> QED BY <1>2, <3>1, <3>2 DEF SignalInv, OneWakeup, WaitInv
  <2>2. CASE ~armed
    <3>1. events' = events
      BY <1>2, <2>2
    <3> QED BY <1>2, <2>2, <3>1 DEF IInv, SignalInv, OneWakeup, WaitInv
  <2> QED BY <2>1, <2>2
<1> QED BY <1>1, <1>2 DEF Enqueue

(* It adds one to its own kind, or to none; the rest of the state stays    *)
(* within its types.                                                       *)
LEMMA EnqueueTypes ==
  ASSUME IInv, NEW kind \in Kinds, Enqueue(kind)
  PROVE  /\ armed' \in BOOLEAN /\ events' \in Nat /\ overrun' \in BOOLEAN
         /\ qp' \in {"live", "error", "gone"}
         /\ cq' \in [Kinds -> Nat]
         /\ cq'[kind] <= cq[kind] + 1
         /\ \A other \in Kinds \ {kind} : cq'[other] = cq[other]
<1>1. CASE overrun \/ Entries >= CqDepth
  <2>1. overrun' = TRUE /\ qp' = "error" /\ UNCHANGED <<cq, armed, events>>
    BY <1>1 DEF Enqueue
  <2> QED BY <2>1 DEF IInv, TypeOK
<1>2. CASE ~(overrun \/ Entries >= CqDepth)
  <2>1. /\ cq' = [cq EXCEPT ![kind] = @ + 1]
        /\ armed' = FALSE
        /\ events' = IF armed THEN events + 1 ELSE events
        /\ UNCHANGED <<overrun, qp>>
    BY <1>2 DEF Enqueue
  <2>2. events' = events \/ events' = events + 1
    BY <2>1, Zenon
  <2>3. events' \in Nat
    BY <2>2 DEF IInv, TypeOK
  <2>4. armed' \in BOOLEAN /\ overrun' = overrun /\ qp' = qp
    BY <2>1, Zenon
  <2>5. /\ cq' \in [Kinds -> Nat] /\ cq'[kind] <= cq[kind] + 1
        /\ \A other \in Kinds \ {kind} : cq'[other] = cq[other]
    BY <2>1 DEF IInv, TypeOK
  <2> QED BY <2>3, <2>4, <2>5 DEF IInv, TypeOK
<1> QED BY <1>1, <1>2

LEMMA ExecuteInv == IInv /\ Execute => IInv'
<1> SUFFICES ASSUME IInv, Execute PROVE IInv'
  OBVIOUS
<1>1. Enqueue("send")
  BY DEF Execute, Signaled
<1>2. /\ inflight' = inflight - 1 /\ inflight > 0
      /\ UNCHANGED <<pc, held, rq, sends, msgs>>
  BY DEF Execute
<1>3. "send" \in Kinds /\ "recv" \in Kinds \ {"send"}
  BY DEF Kinds
<1>4. SignalInv' /\ WaitInv'
  BY <1>1, <1>2, <1>3, EnqueueSignal
<1>5. /\ armed' \in BOOLEAN /\ events' \in Nat /\ overrun' \in BOOLEAN
      /\ qp' \in {"live", "error", "gone"} /\ cq' \in [Kinds -> Nat]
      /\ cq'["send"] <= cq["send"] + 1 /\ cq'["recv"] = cq["recv"]
  BY <1>1, <1>3, EnqueueTypes
<1>6. TypeOK' /\ SlotInv'
  BY <1>2, <1>5 DEF IInv, TypeOK, SlotInv, Kinds
<1> QED BY <1>4, <1>6 DEF IInv

(* A receive taken by a message, or flushed, is one fewer posted.          *)
LEMMA TakeRecvInv ==
  ASSUME IInv, Enqueue("recv"), rq > 0, rq' = rq - 1,
         msgs' \in 0 .. MaxMsgs, UNCHANGED <<pc, inflight, held, sends>>
  PROVE  IInv'
<1>1. "recv" \in Kinds /\ "send" \in Kinds \ {"recv"}
  BY DEF Kinds
<1>2. SignalInv' /\ WaitInv'
  BY <1>1, EnqueueSignal
<1>3. /\ armed' \in BOOLEAN /\ events' \in Nat /\ overrun' \in BOOLEAN
      /\ qp' \in {"live", "error", "gone"} /\ cq' \in [Kinds -> Nat]
      /\ cq'["recv"] <= cq["recv"] + 1 /\ cq'["send"] = cq["send"]
  BY <1>1, EnqueueTypes
<1>4. TypeOK' /\ SlotInv'
  BY <1>3 DEF IInv, TypeOK, SlotInv, Kinds
<1> QED BY <1>2, <1>4 DEF IInv

LEMMA ArriveInv == IInv /\ Arrive => IInv'
<1> SUFFICES ASSUME IInv, Arrive PROVE IInv'
  OBVIOUS
<1>1. msgs' \in 0 .. MaxMsgs
  BY DEF Arrive, IInv, TypeOK
<1> QED BY <1>1, TakeRecvInv DEF Arrive

LEMMA FailInv == IInv /\ Fail => IInv'
BY DEF Fail, IInv, TypeOK, SignalInv, OneWakeup, WaitInv, SlotInv,
       Entries, Kinds

LEMMA FlushRecvInv == IInv /\ FlushRecv => IInv'
<1> SUFFICES ASSUME IInv, FlushRecv PROVE IInv'
  OBVIOUS
<1>1. msgs' \in 0 .. MaxMsgs
  BY DEF FlushRecv, IInv, TypeOK
<1> QED BY <1>1, TakeRecvInv DEF FlushRecv

LEMMA GetEventInv == IInv /\ GetEvent => IInv'
BY DEF GetEvent, After, IInv, TypeOK, SignalInv, OneWakeup, WaitInv,
       SlotInv, Entries, Kinds

LEMMA ReqNotifyInv == IInv /\ ReqNotify => IInv'
BY DEF ReqNotify, After, IInv, TypeOK, SignalInv, OneWakeup, WaitInv,
       SlotInv, Entries, Kinds

(* Polling a send's entry frees a slot that SlotInv shows to be held.      *)
LEMMA PollOneInv == IInv /\ PollOne => IInv'
<1> SUFFICES ASSUME IInv, PollOne PROVE IInv'
  OBVIOUS
<1>1. PICK kind \in Kinds :
        /\ cq[kind] > 0
        /\ cq' = [cq EXCEPT ![kind] = @ - 1]
        /\ held' = IF Frees(kind) THEN held - 1 ELSE held
  BY DEF PollOne
<1>2. CASE kind = "send"
  BY <1>1, <1>2 DEF PollOne, Frees, IInv, TypeOK, SignalInv, OneWakeup,
         WaitInv, SlotInv, Entries, Kinds
<1>3. CASE kind = "recv"
  BY <1>1, <1>3 DEF PollOne, Frees, IInv, TypeOK, SignalInv, OneWakeup,
         WaitInv, SlotInv, Entries, Kinds
<1> QED BY <1>2, <1>3 DEF Kinds

LEMMA PollNoneInv == IInv /\ PollNone => IInv'
BY DEF PollNone, After, IInv, TypeOK, SignalInv, OneWakeup, WaitInv,
       SlotInv, Entries, Kinds

LEMMA AbortInv == IInv /\ Abort => IInv'
BY DEF Abort, Released, Empty, IInv, TypeOK, SignalInv, OneWakeup, WaitInv,
       SlotInv, Entries, Kinds

LEMMA DestroyQpInv == IInv /\ DestroyQp => IInv'
BY DEF DestroyQp, Released, Empty, IInv, TypeOK, SignalInv, OneWakeup,
       WaitInv, SlotInv, Entries, Kinds

(***************************************************************************)
(* The conjunction of CqPoller's invariants is inductive.                  *)
(***************************************************************************)
THEOREM Invariance == Spec => []IInv
<1>1. ASSUME IInv, [Next]_vars PROVE IInv'
  <2>1. CASE Next
    BY <1>1, <2>1, PostSendInv, ExecuteInv, ArriveInv, FailInv, FlushRecvInv,
       GetEventInv, ReqNotifyInv, PollOneInv, PollNoneInv, AbortInv, DestroyQpInv
       DEF Next, Adapter, Poller
  <2>2. CASE UNCHANGED vars
    BY <1>1, <2>2 DEF vars, IInv, TypeOK, SignalInv, OneWakeup, WaitInv,
           SlotInv, Entries
  <2> QED BY <1>1, <2>1, <2>2
<1> QED BY <1>1, InitInv, PTL DEF Spec

(***************************************************************************)
(* The queue, the signal and the counters stay within their types.         *)
(***************************************************************************)
THEOREM TypeCorrect == Spec => []TypeOK
<1>1. IInv => TypeOK BY DEF IInv
<1> QED BY <1>1, Invariance, PTL

(***************************************************************************)
(* poll_cq never sleeps on completions nobody will announce.               *)
(***************************************************************************)
THEOREM WakeupKept == Spec => []NoLostWakeup
<1>1. IInv => NoLostWakeup
  BY DEF IInv, TypeOK, SignalInv, WaitInv, NoLostWakeup, Entries, Kinds
<1> QED BY <1>1, Invariance, PTL

(***************************************************************************)
(* The completion channel holds at most one event.                         *)
(***************************************************************************)
THEOREM WakeupSingle == Spec => []OneWakeup
<1>1. IInv => OneWakeup
  BY DEF IInv, SignalInv
<1> QED BY <1>1, Invariance, PTL

(***************************************************************************)
(* The queue is overrun, by sends, messages or the flush of a pair in      *)
(* error, only when more sends hold their slots than receives are left: a  *)
(* user that keeps to the receives left never overruns it.                 *)
(***************************************************************************)
THEOREM OverrunTakesSends == Spec => OverrunNeedsSends
<1>1. ASSUME IInv, [Next]_vars, ~overrun, overrun' PROVE held > rq'
  <2>1. PICK kind \in Kinds : Enqueue(kind) /\ Entries >= WrNumber
    BY <1>1 DEF Next, Adapter, Poller, PostSend, Execute, Signaled, Arrive,
           Fail, FlushRecv, GetEvent, ReqNotify, PollOne, PollNone, Abort,
           DestroyQp, Enqueue, CqDepth, Kinds, vars
  <2>2. /\ inflight \in Nat /\ held \in Nat /\ rq \in Nat
        /\ cq["send"] \in Nat /\ cq["recv"] \in Nat
        /\ inflight + cq["send"] <= held /\ cq["recv"] + rq <= WrNumber
        /\ cq["send"] + cq["recv"] >= WrNumber
    BY <1>1, <2>1 DEF IInv, TypeOK, SlotInv, Kinds, Entries
  <2>3. \/ inflight > 0 /\ rq' = rq
        \/ rq > 0 /\ rq' = rq - 1
    BY <1>1 DEF Next, Adapter, Poller, PostSend, Execute, Signaled, Arrive,
           Fail, FlushRecv, GetEvent, ReqNotify, PollOne, PollNone, Abort,
           DestroyQp, vars
  <2> QED BY <2>2, <2>3
<1>2. IInv /\ [Next]_vars => [~overrun /\ overrun' => held > rq']_vars
  BY <1>1
<1> QED BY <1>2, Invariance, PTL DEF Spec, OverrunNeedsSends
=============================================================================
