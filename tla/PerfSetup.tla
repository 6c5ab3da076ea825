----------------------------- MODULE PerfSetup -----------------------------
(***************************************************************************)
(* The verbs resources of each side: what ctx_init acquires and in which   *)
(* order, how ctx_connect makes the queue pairs ready, and what            *)
(* destroy_ctx gives back.  The conditions of the acquisitions and of the  *)
(* releases are written separately in the code, over the same options.     *)
(***************************************************************************)
EXTENDS PerfOptions, SequencesExt

VARIABLES
  held,     \* the resources each side holds
  qpState,  \* the state of each queue pair
  result    \* what destroy_ctx made of its releases

setupVars == <<held, qpState, result>>

SetupInit ==
  /\ held = [s \in Sides |-> {}]
  /\ qpState = [s \in Sides |-> [q \in Ids |-> "RESET"]]
  /\ result = [s \in Sides |-> "none"]

Res(name) == <<name, 0>>
PerQp(name) == [q \in 1..opt.num_of_qps |-> <<name, q - 1>>]
If(condition, resources) == IF condition THEN resources ELSE <<>>

\* The side that answers, or sends on its own, needs what a sender needs; the
\* faulty test forgets that.
Answers(s) == s = "server" \/ BothWays
SendsFirst(s) == s = "client"
Sends(s) == s = "client" \/ BothWays

-----------------------------------------------------------------------------
(* ctx_init                                                                *)

\* create_cqs and create_reg_cqs; the faulty one always makes both.
CqsBoth(s) == <<Res("send_cq"), Res("recv_cq")>>
Cqs(s) == <<Res("send_cq")>> \o If(opt.verb = "SEND", <<Res("recv_cq")>>)

\* create_mr: one region that all queue pairs share.
Mrs(s) == <<Res("mr")>>

\* Who makes a shared receive queue (ctx_init), and whose queue pairs take from
\* it (ctx_qp_create); destroy_ctx goes by srq_exists, which the parser has set.
MakesSrq(s) == opt.use_srq /\ (opt.tst = "LAT" \/ s = "server" \/ opt.duplex)
AttachesSrq(s) == opt.use_srq /\ (opt.tst = "LAT" \/ s = "server" \/ opt.duplex)

\* What ctx_init acquires before the queue pairs, in its order.
Base(s) ==
  If(opt.use_event, <<Res("channel")>>) \o <<Res("pd")>> \o Mrs(s) \o Cqs(s)
  \o If(MakesSrq(s), <<Res("srq")>>)

\* What a resource was created with, and has to outlive it.  A queue pair of
\* ctx_qp_create completes its receives on the send queue unless it receives
\* messages, and takes them from the shared queue on the side that has one.
Uses(s, r) ==
  CASE r[1] \in {"mr", "srq", "ah", "credit_mr"} -> {Res("pd")}
    [] r[1] \in {"send_cq", "recv_cq"} -> (IF opt.use_event THEN {Res("channel")} ELSE {})
    [] r[1] = "qp" -> {Res("pd")} \cup ToSet(Cqs(s))
                      \cup (IF AttachesSrq(s) THEN {Res("srq")} ELSE {})
    [] OTHER -> {}

\* ctx_init without the connection manager: everything, and the queue pairs to
\* INIT.
CtxInit(s) ==
  /\ held' = [held EXCEPT ![s] = @ \cup ToSet(Base(s) \o PerQp("qp"))]
  /\ qpState' = [qpState EXCEPT ![s] = [q \in Ids |-> IF q \in Qps THEN "INIT" ELSE @[q]]]
  /\ UNCHANGED result

\* With the connection manager ctx_init runs for the first connection and makes
\* no queue pair; ctx_qp_create makes the k-th when its connection comes, and
\* the manager makes it ready.
CmAcquires(s, k) ==
  ToSet(Base(s)) \cup {<<"qp", k>>}

\* ctx_modify_qp_to_rtr, and on a side that sends ctx_modify_qp_to_rts.
ReadyState(s) == IF Sends(s) THEN "RTS" ELSE "RTR"

\* ctx_connect: every queue pair as far as its side needs it, and for datagrams
\* an address handle.
CtxConnect(s) ==
  /\ qpState' = [qpState EXCEPT ![s] = [q \in Ids |->
       IF q \in Qps THEN ReadyState(s) ELSE @[q]]]
  /\ held' = [held EXCEPT ![s] = @ \cup ToSet(If(IsUd /\ Sends(s), PerQp("ah")))]
  /\ UNCHANGED result

\* ctx_alloc_credit
AllocCredit(s) ==
  /\ held' = [held EXCEPT ![s] = @ \cup {Res("credit_mr")}]
  /\ UNCHANGED <<qpState, result>>

-----------------------------------------------------------------------------
(* destroy_ctx                                                             *)

\* What it releases, in its order.
Releases(s) ==
  If(opt.work_rdma_cm, PerQp("qp"))
  \o FlattenSeq([q \in 1..opt.num_of_qps |->
       If(IsUd /\ Sends(s), <<<<"ah", q - 1>>>>)
       \o If(~opt.work_rdma_cm, <<<<"qp", q - 1>>>>)])
  \o If(opt.host[s].srq_exists, <<Res("srq")>>)
  \o <<Res("send_cq")>>
  \o If(opt.verb = "SEND" /\ (Answers(s) \/ opt.use_event), <<Res("recv_cq")>>)
  \o <<Res("mr")>>
  \o If(opt.verb = "SEND" /\ opt.work_rdma_cm /\ opt.send_rcredit, <<Res("credit_mr")>>)
  \o <<Res("pd")>>
  \o If(opt.use_event, <<Res("channel")>>)

\* A release of something that was never made, or was released before, is
\* undefined; of something that is still in use it fails, and destroy_ctx goes on.
Released(s, n) == {Releases(s)[k] : k \in 1..n}
Undefined(s, n) == Releases(s)[n] \notin held[s] \ Released(s, n - 1)
InUse(s, n) == \E u \in held[s] \ Released(s, n) : Releases(s)[n] \in Uses(s, u)

DestroyCtx(s) ==
  LET steps == DOMAIN Releases(s) IN
  /\ held' = [held EXCEPT ![s] = @ \ {Releases(s)[n] : n \in {k \in steps : ~InUse(s, k)}}]
  /\ result' = [result EXCEPT ![s] =
       CASE \E n \in steps : Undefined(s, n) -> "undefined"
         [] \E n \in steps : InUse(s, n) -> "failed"
         [] OTHER -> "clean"]
  /\ UNCHANGED qpState
=============================================================================
