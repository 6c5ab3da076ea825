---------------------------- MODULE PerfCmProofs ----------------------------
(***************************************************************************)
(* How the connections of the manager (PerfCm) stand at both ends, in      *)
(* every behaviour of PerfPeers: what the event channels tell, whose queue *)
(* pairs the tables of the two sides hold, and whom the datagrams reach.   *)
(***************************************************************************)
EXTENDS PerfCommProofs, FiniteSetTheorems

(***************************************************************************)
(* Event channels.                                                         *)
(***************************************************************************)
Single == {"addr_resolved", "route_resolved", "connect_request", "established"}
EventKinds == Single \cup {"addr_error", "route_error", "rejected", "disconnected"}
EventSet == [kind : EventKinds, id : Ids]

\* The event waits in the channel.
Has(q, e) == \E k \in 1..Len(q) : q[k] = e
\* Nothing that happens once to an identifier is told twice.
Unique(q) == \A k, l \in 1..Len(q) : k # l /\ q[k].kind \in Single => q[k] # q[l]
\* Nothing is established after a connection that is down.
Ordered(q) == \A k, l \in 1..Len(q) : k < l /\ q[k].kind = "disconnected" => q[l].kind # "established"

(***************************************************************************)
(* The connections.                                                        *)
(***************************************************************************)
LinkStates == {"new", "addr", "addr_resolved", "route", "route_resolved", "error",
               "request", "offered", "refused", "up", "down"}
Requested == {"request", "offered", "refused", "up", "down"}
Met == {"up", "down"}
Before == {"idle", "allocated", "synced"}
Accepting == {"events", "ud_wait"}
CmPlaces == Before \cup Accepting \cup
  {"connected", "used", "disconnecting", "disconnected", "destroyed", "retry", "failed", "undefined", "gone"}

Nodes == [cma_id : Ids \cup {None}, remote_qpn : Ids \cup {None}, connected : BOOLEAN]

Letters == [to : Ids, imm : Ids]

CmTypes ==
  /\ opt.num_of_qps \in 1..MaxQps
  /\ cmPc \in [Sides -> CmPlaces]
  /\ connIndex \in [Sides -> Nat]
  /\ connectsLeft \in [Sides -> Int] /\ disconnectsLeft \in [Sides -> Int]
  /\ link \in [Ids -> LinkStates]
  /\ qp \in [Sides -> [Ids -> Ids \cup {None}]] /\ qpOfId \in [Sides -> SUBSET Ids]
  /\ node \in [Sides -> [Ids -> Nodes]]
  /\ events \in [Sides -> Seq(EventSet)]
  /\ datagrams \in Seq(Letters)

\* What is told of an identifier is what it went through last.
LinkInv(i) ==
  /\ link[i] # "new" => i \in Qps
  /\ Has(events["client"], Event("addr_resolved", i)) => link[i] = "addr_resolved"
  /\ Has(events["client"], Event("route_resolved", i)) => link[i] = "route_resolved"
  /\ Has(events["client"], Event("established", i)) => link[i] \in Met
  /\ Has(events["server"], Event("connect_request", i)) => link[i] \in {"offered", "refused"}

\* The queue pairs of the client are those of the identifiers that have gone on
\* to a request, in a row; those of the server of the identifiers it has met.
ClientTable ==
  /\ \A j \in Ids : IF j < connIndex["client"]
                    THEN qp["client"][j] \in Qps /\ link[qp["client"][j]] \in Requested
                    ELSE qp["client"][j] = None
  /\ \A j, k \in Ids : j # k /\ qp["client"][j] # None => qp["client"][j] # qp["client"][k]
  /\ \A i \in Ids : link[i] \in Requested => \E j \in Ids : qp["client"][j] = i
ServerTable ==
  /\ \A j \in Ids : j < connIndex["server"] => qp["server"][j] # None
  /\ \A j \in Ids : qp["server"][j] # None => qp["server"][j] \in Qps /\ link[qp["server"][j]] \in Met
  /\ \A j, k \in Ids : j # k /\ qp["server"][j] # None => qp["server"][j] # qp["server"][k]
  /\ connIndex["server"] <= Num
  /\ cmPc["server"] = "ud_wait" => connIndex["server"] < Num /\ qp["server"][connIndex["server"]] # None

\* The server counts what it has yet to connect.
ServerCount ==
  /\ cmPc["server"] = "idle" => connIndex["server"] = 0
  /\ cmPc["server"] \in {"allocated", "synced", "events", "ud_wait"} =>
       connectsLeft["server"] + connIndex["server"] = Num
  /\ cmPc["server"] = "connected" => connIndex["server"] = Num

CmInv ==
  /\ CmTypes
  /\ Unique(events["client"]) /\ Unique(events["server"])
  /\ cmPc["client"] \in Before => events["client"] = <<>> /\ \A i \in Ids : link[i] = "new"
  /\ \A i \in Ids : LinkInv(i)
  /\ ClientTable /\ ServerTable /\ ServerCount

(***************************************************************************)
(* Datagrams.  The client counts the connections that were established as  *)
(* long as none of them is gone; and once one is, no other comes.          *)
(***************************************************************************)
Made == Num - connectsLeft["client"]
Counting == {"allocated", "synced", "events"}
Answering == Counting \cup {"ud_wait", "connected"}

ClientCount ==
  /\ cmPc["client"] = "idle" => disconnectsLeft["client"] = 0
  /\ cmPc["client"] \in Counting =>
       /\ connectsLeft["client"] \in 0..Num
       /\ \A i \in Qps : node["client"][i].cma_id = i
       /\ \/ disconnectsLeft["client"] = Made
          \/ /\ connectsLeft["client"] > 0
             /\ cmPc["server"] \notin Before \cup Accepting
             /\ \A i \in Ids : ~Has(events["client"], Event("established", i))
       /\ Ordered(events["client"])
       /\ \A i \in Ids : Has(events["client"], Event("disconnected", i)) =>
            cmPc["server"] \notin Before \cup Accepting
  /\ cmPc["client"] = "connected" => connectsLeft["client"] = 0

\* Whom the nodes of the client reached.
ClientReach ==
  IsUd /\ cmPc["client"] \in Counting \cup {"connected"} =>
    /\ \A e \in Ids : e < Made =>
         /\ node["client"][e].remote_qpn \in Qps
         /\ link[node["client"][e].remote_qpn] \in Met
         /\ ~Has(events["client"], Event("established", node["client"][e].remote_qpn))
    /\ \A e, f \in Ids : e # f /\ e < Made /\ f < Made =>
         node["client"][e].remote_qpn # node["client"][f].remote_qpn

\* Whom the nodes of the server were told to answer, and who is on the way.
ServerReach ==
  NeedsReply /\ cmPc["server"] \in Answering =>
    /\ \A k \in Ids : k < connIndex["server"] =>
         node["server"][k].remote_qpn \in Qps /\ node["server"][k].remote_qpn < Made
    /\ \A j, k \in Ids : j # k /\ j < connIndex["server"] /\ k < connIndex["server"] =>
         node["server"][j].remote_qpn # node["server"][k].remote_qpn
    /\ \A n \in 1..Len(datagrams) : \A k \in Ids : k < connIndex["server"] =>
         datagrams[n].imm # node["server"][k].remote_qpn
Datagrams ==
  /\ \A n \in 1..Len(datagrams) : datagrams[n].imm \in Qps /\ datagrams[n].imm < Made
  /\ \A m, n \in 1..Len(datagrams) : m # n => datagrams[m].imm # datagrams[n].imm
  /\ cmPc["client"] \in Before => datagrams = <<>>

UdInv == ClientCount /\ ClientReach /\ ServerReach /\ Datagrams

(***************************************************************************)
(* What happens to a channel: its head is taken, something that is told    *)
(* once is appended, or the farewells of a side that goes.                 *)
(***************************************************************************)
LEMMA HeadIs ==
  ASSUME NEW q \in Seq(EventSet), q # <<>>
  PROVE  Has(q, Head(q)) /\ Head(q) \in EventSet /\ Head(q) = Event(Head(q).kind, Head(q).id)
<1>1. Len(q) \in Nat /\ Len(q) > 0 /\ Head(q) = q[1] /\ 1 \in 1..Len(q) OBVIOUS
<1>2. Head(q) \in EventSet BY <1>1, ElementOfSeq
<1> QED BY <1>1, <1>2 DEF Has, Event, EventSet

LEMMA TailIs ==
  ASSUME NEW q \in Seq(EventSet), q # <<>>
  PROVE  /\ Tail(q) \in Seq(EventSet) /\ Len(Tail(q)) \in Nat
         /\ \A k \in 1..Len(Tail(q)) : k \in Nat /\ k + 1 \in 1..Len(q) /\ Tail(q)[k] = q[k + 1]
<1>1. Tail(q) \in Seq(EventSet) /\ Len(Tail(q)) = Len(q) - 1 /\ Len(q) \in Nat OBVIOUS
<1>2. \A k \in 1..Len(Tail(q)) : Tail(q)[k] = q[k + 1] OBVIOUS
<1>3. \A k \in 1..Len(Tail(q)) : k \in Nat /\ k + 1 \in 1..Len(q) BY <1>1
<1> QED BY <1>1, <1>2, <1>3

LEMMA TailTells ==
  ASSUME NEW q \in Seq(EventSet), q # <<>>
  PROVE  /\ \A e : Has(Tail(q), e) => Has(q, e)
         /\ Unique(q) => Unique(Tail(q))
         /\ Unique(q) /\ Head(q).kind \in Single => ~Has(Tail(q), Head(q))
         /\ Ordered(q) => Ordered(Tail(q))
         /\ Ordered(q) /\ Head(q).kind = "disconnected" => \A i : ~Has(Tail(q), Event("established", i))
<1> DEFINE r == Tail(q)
<1>0. Len(r) \in Nat /\ Len(q) \in Nat BY TailIs
<1>1. \A k \in 1..Len(r) : k \in Nat /\ k + 1 \in 1..Len(q) /\ r[k] = q[k + 1] BY TailIs
<1>2. Head(q) = q[1] /\ 1 \in 1..Len(q) OBVIOUS
<1> HIDE DEF r
<1>3. \A e : Has(r, e) => Has(q, e) BY <1>1 DEF Has
<1>4. ASSUME Unique(q) PROVE Unique(r)
  <2> SUFFICES ASSUME NEW k \in 1..Len(r), NEW l \in 1..Len(r), k # l, r[k].kind \in Single PROVE r[k] # r[l]
    BY DEF Unique
  <2>1. k + 1 # l + 1 BY <1>0
  <2>2. k + 1 \in 1..Len(q) /\ l + 1 \in 1..Len(q) /\ r[k] = q[k + 1] /\ r[l] = q[l + 1] BY <1>1
  <2> QED BY <1>4, <2>1, <2>2 DEF Unique
<1>5. ASSUME Unique(q), Head(q).kind \in Single, Has(r, Head(q)) PROVE FALSE
  <2>1. PICK k \in 1..Len(r) : r[k] = Head(q) BY <1>5 DEF Has
  <2>2. k + 1 \in 1..Len(q) /\ r[k] = q[k + 1] BY <1>1
  <2>3. 1 # k + 1 BY <1>1
  <2> QED BY <1>2, <1>5, <2>1, <2>2, <2>3 DEF Unique
<1>6. ASSUME Ordered(q) PROVE Ordered(r)
  <2> SUFFICES ASSUME NEW k \in 1..Len(r), NEW l \in 1..Len(r), k < l, r[k].kind = "disconnected"
               PROVE  r[l].kind # "established"
    BY DEF Ordered
  <2>1. k + 1 < l + 1 BY <1>0
  <2>2. k + 1 \in 1..Len(q) /\ l + 1 \in 1..Len(q) /\ r[k] = q[k + 1] /\ r[l] = q[l + 1] BY <1>1
  <2> QED BY <1>6, <2>1, <2>2 DEF Ordered
<1>7. ASSUME Ordered(q), Head(q).kind = "disconnected", NEW i, Has(r, Event("established", i)) PROVE FALSE
  <2>1. PICK k \in 1..Len(r) : r[k] = Event("established", i) BY <1>7 DEF Has
  <2>2. k + 1 \in 1..Len(q) /\ r[k] = q[k + 1] BY <1>1
  <2>3. 1 < k + 1 BY <1>1
  <2>4. q[k + 1].kind = "established" BY <2>1, <2>2 DEF Event
  <2> QED BY <1>2, <1>7, <2>2, <2>3, <2>4 DEF Ordered
<1> QED BY <1>3, <1>4, <1>5, <1>6, <1>7 DEF r

LEMMA AppendedIs ==
  ASSUME NEW q \in Seq(EventSet), NEW e \in EventSet
  PROVE  /\ Append(q, e) \in Seq(EventSet) /\ Len(Append(q, e)) = Len(q) + 1 /\ Len(q) \in Nat
         /\ \A k \in 1..(Len(q) + 1) : Append(q, e)[k] = IF k <= Len(q) THEN q[k] ELSE e
<1>1. Append(q, e) \in Seq(EventSet) /\ Len(Append(q, e)) = Len(q) + 1 /\ Len(q) \in Nat OBVIOUS
<1>2. \A k \in 1..Len(q) : Append(q, e)[k] = q[k] OBVIOUS
<1>3. Append(q, e)[Len(q) + 1] = e OBVIOUS
<1> QED BY <1>1, <1>2, <1>3

LEMMA AppendTells ==
  ASSUME NEW q \in Seq(EventSet), NEW e \in EventSet
  PROVE  /\ \A f : Has(Append(q, e), f) => Has(q, f) \/ f = e
         /\ Unique(q) /\ ~Has(q, e) => Unique(Append(q, e))
         /\ e.kind \notin Single /\ Unique(q) => Unique(Append(q, e))
         /\ Ordered(q) /\ (e.kind = "established" => \A i \in Ids : ~Has(q, Event("disconnected", i))) =>
              Ordered(Append(q, e))
<1> DEFINE r == Append(q, e)
<1>1. /\ Len(r) = Len(q) + 1 /\ Len(q) \in Nat
      /\ \A k \in 1..Len(r) : r[k] = IF k <= Len(q) THEN q[k] ELSE e
  BY AppendedIs
<1>2. \A k \in 1..Len(q) : q[k] \in EventSet BY ElementOfSeq
<1> HIDE DEF r
<1>3. ASSUME NEW k \in 1..Len(r) PROVE (k \in 1..Len(q) /\ r[k] = q[k]) \/ (k = Len(q) + 1 /\ r[k] = e)
  BY <1>1
<1>4. ASSUME NEW f, Has(r, f) PROVE Has(q, f) \/ f = e
  BY <1>3, <1>4 DEF Has
<1>5. ASSUME Unique(q), ~Has(q, e) \/ e.kind \notin Single PROVE Unique(r)
  <2> SUFFICES ASSUME NEW k \in 1..Len(r), NEW l \in 1..Len(r), k # l, r[k].kind \in Single PROVE r[k] # r[l]
    BY DEF Unique
  <2>1. CASE k \in 1..Len(q) /\ l \in 1..Len(q)
    <3>1. r[k] = q[k] /\ r[l] = q[l] BY <2>1, <1>1
    <3> QED BY <2>1, <3>1, <1>5 DEF Unique
  <2>2. CASE k \in 1..Len(q) /\ l = Len(q) + 1
    <3>1. r[k] = q[k] /\ r[l] = e BY <2>2, <1>1
    <3> QED BY <2>2, <3>1, <1>5 DEF Has
  <2>3. CASE k = Len(q) + 1 /\ l \in 1..Len(q)
    <3>1. r[k] = e /\ r[l] = q[l] BY <2>3, <1>1
    <3> QED BY <2>3, <3>1, <1>5 DEF Has
  <2> QED BY <2>1, <2>2, <2>3, <1>3
<1>6. ASSUME Ordered(q), e.kind = "established" => \A i \in Ids : ~Has(q, Event("disconnected", i)) PROVE Ordered(r)
  <2> SUFFICES ASSUME NEW k \in 1..Len(r), NEW l \in 1..Len(r), k < l, r[k].kind = "disconnected",
                      r[l].kind = "established"
               PROVE  FALSE
    BY DEF Ordered
  <2>1. k \in 1..Len(q) /\ r[k] = q[k] BY <1>1
  <2>2. CASE l \in 1..Len(q) /\ r[l] = q[l] BY <2>1, <2>2, <1>6 DEF Ordered
  <2>3. CASE l = Len(q) + 1 /\ r[l] = e
    <3>1. q[k] \in EventSet BY <2>1, <1>2
    <3>2. q[k] = Event("disconnected", q[k].id) /\ q[k].id \in Ids BY <2>1, <3>1 DEF EventSet, Event
    <3>3. Has(q, Event("disconnected", q[k].id)) BY <2>1, <3>2 DEF Has
    <3> QED BY <3>2, <3>3, <2>3, <1>6
  <2> QED BY <2>2, <2>3, <1>3
<1> QED BY <1>4, <1>5, <1>6 DEF r

\* Farewells: events that are told as often as need be.
Farewells(r) == r \in Seq(EventSet) /\ \A k \in 1..Len(r) : r[k].kind \in {"disconnected", "rejected"}

LEMMA FarewellsTell ==
  ASSUME NEW q \in Seq(EventSet), NEW r, Farewells(r)
  PROVE  /\ q \o r \in Seq(EventSet)
         /\ \A e : e.kind \in Single /\ Has(q \o r, e) => Has(q, e)
         /\ Unique(q) => Unique(q \o r)
         /\ Ordered(q) => Ordered(q \o r)
<1> DEFINE w == q \o r
<1>1. /\ w \in Seq(EventSet) /\ Len(w) = Len(q) + Len(r) /\ Len(q) \in Nat /\ Len(r) \in Nat
      /\ \A k \in 1..Len(w) : w[k] = IF k <= Len(q) THEN q[k] ELSE r[k - Len(q)]
  <2>1. r \in Seq(EventSet) BY DEF Farewells
  <2>2. Len(q) \in Nat /\ Len(r) \in Nat BY <2>1
  <2>3. /\ w \in Seq(EventSet) /\ Len(w) = Len(q) + Len(r)
        /\ \A i \in 1..(Len(q) + Len(r)) : w[i] = IF i <= Len(q) THEN q[i] ELSE r[i - Len(q)]
    BY <2>1, ConcatProperties
  <2> QED BY <2>2, <2>3
<1> HIDE DEF w
<1>2. ASSUME NEW k \in 1..Len(w) PROVE (k \in 1..Len(q) /\ w[k] = q[k]) \/ w[k].kind \in {"disconnected", "rejected"}
  <2>1. CASE k <= Len(q) BY <2>1, <1>1
  <2>2. CASE k > Len(q)
    <3>1. k - Len(q) \in 1..Len(r) /\ w[k] = r[k - Len(q)] BY <2>2, <1>1
    <3> QED BY <3>1 DEF Farewells
  <2> QED BY <2>1, <2>2, <1>1
<1>3. \A e : e.kind \in Single /\ Has(w, e) => Has(q, e)
  BY <1>2 DEF Has, Single
<1>4. ASSUME Unique(q) PROVE Unique(w)
  <2> SUFFICES ASSUME NEW k \in 1..Len(w), NEW l \in 1..Len(w), k # l, w[k].kind \in Single, w[k] = w[l] PROVE FALSE
    BY DEF Unique
  <2>1. k \in 1..Len(q) /\ w[k] = q[k] /\ l \in 1..Len(q) /\ w[l] = q[l] BY <1>2 DEF Single
  <2> QED BY <2>1, <1>4 DEF Unique
<1>5. ASSUME Ordered(q) PROVE Ordered(w)
  <2> SUFFICES ASSUME NEW k \in 1..Len(w), NEW l \in 1..Len(w), k < l, w[k].kind = "disconnected",
                      w[l].kind = "established"
               PROVE  FALSE
    BY DEF Ordered
  <2>1. l \in 1..Len(q) /\ w[l] = q[l] BY <1>2
  <2>2. k \in 1..Len(q) /\ w[k] = q[k] BY <2>1, <1>1
  <2> QED BY <2>1, <2>2, <1>5 DEF Ordered
<1> QED BY <1>1, <1>3, <1>4, <1>5 DEF w

(***************************************************************************)
(* Sets of identifiers.                                                    *)
(***************************************************************************)
LEMMA IdsFinite ==
  ASSUME NEW S \in SUBSET Ids
  PROVE  IsFiniteSet(S) /\ Cardinality(S) \in Nat /\ \A T \in SUBSET S : IsFiniteSet(T) /\ Cardinality(T) \in Nat
<1>1. IsFiniteSet(Ids)
  <2>1. 0 \in Int /\ MaxQps - 1 \in Int BY OptionsAssumption
  <2> QED BY <2>1, FS_Interval DEF Ids
<1>2. \A T \in SUBSET Ids : IsFiniteSet(T) BY <1>1, FS_Subset
<1>3. \A T \in SUBSET Ids : Cardinality(T) \in Nat BY <1>2, FS_CardinalityType
<1>4. \A T \in SUBSET S : T \in SUBSET Ids OBVIOUS
<1> QED BY <1>2, <1>3, <1>4

\* Every number below the size of a set counts the smaller ones of some member.
LEMMA RankReached ==
  ASSUME NEW S \in SUBSET Ids, NEW k \in 1..Cardinality(S)
  PROVE  \E n \in S : Cardinality({m \in S : m < n}) = k - 1
<1> DEFINE Below(n) == {m \in S : m < n}
           c == Cardinality(S)
           rank == [n \in S |-> Cardinality(Below(n))]
<1>0. IsFiniteSet(S) /\ c \in Nat BY IdsFinite
<1>1. \A n \in S : n \in Int BY OptionsAssumption DEF Ids
<1>2. ASSUME NEW n \in S PROVE Below(n) \in SUBSET S /\ IsFiniteSet(Below(n)) /\ Cardinality(Below(n)) \in 0..(c - 1)
  <2>1. Below(n) \in SUBSET S OBVIOUS
  <2>2. n \notin Below(n) BY <1>1
  <2>3. Below(n) # S BY <2>2
  <2>4. IsFiniteSet(Below(n)) /\ Cardinality(Below(n)) \in Nat BY <2>1, IdsFinite
  <2>5. Cardinality(Below(n)) <= Cardinality(S) /\ (Cardinality(S) = Cardinality(Below(n)) => S = Below(n))
    BY <2>1, <1>0, FS_Subset
  <2> QED BY <2>1, <2>3, <2>4, <2>5, <1>0
<1>3. ASSUME NEW n \in S, NEW l \in S, n < l PROVE Cardinality(Below(n)) # Cardinality(Below(l))
  <2>1. Below(n) \in SUBSET Below(l)
    <3> SUFFICES ASSUME NEW m \in S, m < n PROVE m < l OBVIOUS
    <3> QED BY <1>1, <1>3
  <2>2. n \in Below(l) /\ n \notin Below(n) BY <1>1, <1>3
  <2>3. Below(n) # Below(l) BY <2>2
  <2>4. Cardinality(Below(l)) = Cardinality(Below(n)) => Below(l) = Below(n)
    BY <2>1, <1>2, FS_Subset
  <2> QED BY <2>3, <2>4
<1>4. ASSUME NEW n \in S, NEW l \in S, n # l PROVE Cardinality(Below(n)) # Cardinality(Below(l))
  <2>1. n < l \/ l < n BY <1>1, <1>4
  <2> QED BY <2>1, <1>3
<1> HIDE DEF Below
<1>5. rank \in Injection(S, 0..(c - 1))
  <2>1. rank \in [S -> 0..(c - 1)] BY <1>2
  <2>2. IsInjective(rank) BY <1>4 DEF IsInjective
  <2> QED BY <2>1, <2>2 DEF Injection
<1>6. IsFiniteSet(0..(c - 1)) /\ Cardinality(0..(c - 1)) = c
  <2>1. 0 \in Int /\ c - 1 \in Int BY <1>0
  <2>2. /\ IsFiniteSet(0..(c - 1))
        /\ Cardinality(0..(c - 1)) = IF 0 > c - 1 THEN 0 ELSE c - 1 - 0 + 1
    BY <2>1, FS_Interval
  <2> QED BY <2>2, <1>0
<1>7. rank \in Surjection(S, 0..(c - 1)) BY <1>5, <1>6, FS_Injection
<1>8. k - 1 \in 0..(c - 1) BY <1>0
<1>9. PICK n \in S : rank[n] = k - 1 BY <1>7, <1>8 DEF Surjection
<1> QED BY <1>9 DEF Below

\* A member that maps to each other one at most once, of a set as large, is met.
LEMMA Onto ==
  ASSUME NEW n \in Nat, n <= MaxQps, NEW f, \A k \in 0..(n - 1) : f[k] \in 0..(n - 1),
         \A j, k \in 0..(n - 1) : j # k => f[j] # f[k]
  PROVE  \A i \in 0..(n - 1) : \E k \in 0..(n - 1) : f[k] = i
<1> DEFINE D == 0..(n - 1)
           g == [k \in D |-> f[k]]
<1>1. IsFiniteSet(D)
  <2>1. 0 \in Int /\ n - 1 \in Int OBVIOUS
  <2> QED BY <2>1, FS_Interval
<1> HIDE DEF D
<1>2. g \in Injection(D, D)
  <2>1. g \in [D -> D] BY DEF D
  <2>2. IsInjective(g) BY DEF IsInjective, D
  <2> QED BY <2>1, <2>2 DEF Injection
<1>3. g \in Surjection(D, D) BY <1>1, <1>2, FS_Injection
<1> QED BY <1>3 DEF Surjection, D

\* So many different values have no room in a smaller set.
LEMMA NoRoom ==
  ASSUME NEW n \in Nat, NEW f, NEW x \in 0..(n - 1), \A k \in 0..(n - 1) : f[k] \in 0..(n - 1) /\ f[k] # x
  PROVE  \E j, k \in 0..(n - 1) : j # k /\ f[j] = f[k]
<1> DEFINE D == 0..(n - 1)
           g == [k \in D |-> f[k]]
<1>1. IsFiniteSet(D)
  <2>1. 0 \in Int /\ n - 1 \in Int OBVIOUS
  <2> QED BY <2>1, FS_Interval
<1> HIDE DEF D
<1>2. SUFFICES ASSUME \A j, k \in D : j # k => f[j] # f[k] PROVE FALSE BY DEF D
<1>3. g \in Injection(D, D)
  <2>1. g \in [D -> D] BY DEF D
  <2>2. IsInjective(g) BY <1>2 DEF IsInjective
  <2> QED BY <2>1, <2>2 DEF Injection
<1>4. g \in Surjection(D, D) BY <1>1, <1>3, FS_Injection
<1>5. x \in D BY DEF D
<1>6. PICK k \in D : g[k] = x BY <1>4, <1>5 DEF Surjection
<1> QED BY <1>6 DEF D

LEMMA GoodbyesAre ==
  ASSUME NEW S \in SUBSET Ids
  PROVE  Farewells(Goodbyes(S)) /\ (S = {} => Goodbyes(S) = <<>>)
<1> DEFINE c == Cardinality(S)
           who(k) == CHOOSE n \in S : Cardinality({m \in S : m < n}) = k - 1
           bye(k) == Event(IF link[who(k)] = "up" THEN "disconnected" ELSE "rejected", who(k))
<1>1. c \in Nat BY IdsFinite
<1>2. ASSUME NEW k \in 1..c PROVE who(k) \in Ids
  <2>1. \E n \in S : Cardinality({m \in S : m < n}) = k - 1 BY <1>2, RankReached
  <2> QED BY <2>1
<1>3. Goodbyes(S) = [k \in 1..c |-> bye(k)] BY DEF Goodbyes
<1> HIDE DEF c, who
<1>4. ASSUME NEW k \in 1..c PROVE bye(k) \in EventSet /\ bye(k).kind \in {"disconnected", "rejected"}
  <2>1. {"disconnected", "rejected"} \subseteq EventKinds BY DEF EventKinds
  <2>2. ASSUME NEW e \in {"disconnected", "rejected"}
        PROVE  Event(e, who(k)) \in EventSet /\ Event(e, who(k)).kind = e
    BY <1>2, <2>1 DEF Event, EventSet
  <2> QED BY <2>2
<1> HIDE DEF bye
<1>5. Goodbyes(S) \in [1..c -> EventSet] BY <1>3, <1>4
<1>6. Goodbyes(S) \in Seq(EventSet) /\ Len(Goodbyes(S)) = c
  <2>1. Goodbyes(S) \in Seq(EventSet) BY <1>1, <1>5, SeqDef
  <2> QED BY <2>1, <1>1, <1>5, LenProperties
<1>7. Farewells(Goodbyes(S)) BY <1>3, <1>4, <1>6 DEF Farewells
<1>8. ASSUME S = {} PROVE Goodbyes(S) = <<>>
  <2>1. c = 0 BY <1>8, FS_EmptySet DEF c
  <2> QED BY <2>1, <1>6, EmptySeq
<1> QED BY <1>7, <1>8

(***************************************************************************)
(* The steps that concern connections, as PerfPeers takes them.            *)
(***************************************************************************)
Enters(s) ==
  /\ cmPc[s] = "allocated" /\ Leave(s, "synced")
  /\ UNCHANGED <<connectsLeft, disconnectsLeft, connIndex, node, qpOfId, qp, link, events, datagrams>>
Leaves(s) ==
  /\ cmPc[s] = "connected" /\ Leave(s, "used")
  /\ UNCHANGED <<connectsLeft, disconnectsLeft, connIndex, node, qpOfId, qp, link, events, datagrams>>
CmMove ==
  \/ Kernel \/ DatagramLost \/ ClientStep \/ ServerStep
  \/ \E s \in Sides : \/ Allocate(s) \/ Enters(s) \/ DisconnectHandler(s) \/ EventsEnd(s) \/ Leaves(s)
                      \/ Disconnect(s) \/ DisconnectsEnd(s) \/ Destroy(s) \/ Vanish(s)

LEMMA LeaveTypes ==
  ASSUME CmTypes, NEW s \in Sides, NEW p \in CmPlaces, Leave(s, p)
  PROVE  /\ cmPc' \in [Sides -> CmPlaces] /\ cmPc'[s] = p
         /\ \A t \in Sides : t # s => cmPc'[t] = cmPc[t]
  BY DEF CmTypes, Leave

\* One node of a side is written.
LEMMA NodeSet ==
  ASSUME NEW F \in [Sides -> [Ids -> Nodes]], NEW s \in Sides, NEW k, NEW n \in Nodes
  PROVE  LET G == [F EXCEPT ![s][k] = n] IN
         /\ G \in [Sides -> [Ids -> Nodes]]
         /\ \A t \in Sides, j \in Ids : G[t][j] = IF t = s /\ j = k THEN n ELSE F[t][j]
<1> DEFINE H == [F[s] EXCEPT ![k] = n]
<1>1. H \in [Ids -> Nodes] OBVIOUS
<1>2. \A j \in Ids : H[j] = IF j = k THEN n ELSE F[s][j] OBVIOUS
<1>3. [F EXCEPT ![s][k] = n] = [F EXCEPT ![s] = H] OBVIOUS
<1> HIDE DEF H
<1> QED BY <1>1, <1>2, <1>3

LEMMA NodeConnected ==
  ASSUME NEW F \in [Sides -> [Ids -> Nodes]], NEW s \in Sides, NEW k
  PROVE  LET G == [F EXCEPT ![s][k].connected = TRUE] IN
         /\ G \in [Sides -> [Ids -> Nodes]]
         /\ \A t \in Sides, j \in Ids : G[t][j].cma_id = F[t][j].cma_id /\ G[t][j].remote_qpn = F[t][j].remote_qpn
<1> DEFINE H == [F[s] EXCEPT ![k].connected = TRUE]
<1>1. ASSUME NEW n \in Nodes
      PROVE  LET m == [n EXCEPT !.connected = TRUE] IN
             m \in Nodes /\ m.cma_id = n.cma_id /\ m.remote_qpn = n.remote_qpn
  BY DEF Nodes
<1>2. H \in [Ids -> Nodes] /\ \A j \in Ids : H[j].cma_id = F[s][j].cma_id /\ H[j].remote_qpn = F[s][j].remote_qpn
  <2>1. CASE k \in Ids
    <3> DEFINE m == [F[s][k] EXCEPT !.connected = TRUE]
    <3>1. H = [F[s] EXCEPT ![k] = m] BY <2>1
    <3>2. m \in Nodes /\ m.cma_id = F[s][k].cma_id /\ m.remote_qpn = F[s][k].remote_qpn BY <1>1, <2>1
    <3> HIDE DEF m, H
    <3> QED BY <2>1, <3>1, <3>2
  <2>2. CASE k \notin Ids
    <3>1. H = F[s] BY <2>2
    <3> QED BY <3>1
  <2> QED BY <2>1, <2>2
<1>3. [F EXCEPT ![s][k].connected = TRUE] = [F EXCEPT ![s] = H] OBVIOUS
<1> HIDE DEF H
<1> QED BY <1>2, <1>3

LEMMA NodeReached ==
  ASSUME NEW F \in [Sides -> [Ids -> Nodes]], NEW s \in Sides, NEW k, NEW i \in Ids \cup {None}
  PROVE  LET G == [F EXCEPT ![s][k].remote_qpn = i] IN
         /\ G \in [Sides -> [Ids -> Nodes]]
         /\ \A t \in Sides, j \in Ids :
              /\ G[t][j].cma_id = F[t][j].cma_id
              /\ G[t][j].remote_qpn = IF t = s /\ j = k THEN i ELSE F[t][j].remote_qpn
<1> DEFINE H == [F[s] EXCEPT ![k].remote_qpn = i]
<1>1. ASSUME NEW n \in Nodes
      PROVE  LET m == [n EXCEPT !.remote_qpn = i] IN
             m \in Nodes /\ m.cma_id = n.cma_id /\ m.remote_qpn = i
  BY DEF Nodes
<1>2. /\ H \in [Ids -> Nodes]
      /\ \A j \in Ids : /\ H[j].cma_id = F[s][j].cma_id
                        /\ H[j].remote_qpn = IF j = k THEN i ELSE F[s][j].remote_qpn
  <2>1. CASE k \in Ids
    <3> DEFINE m == [F[s][k] EXCEPT !.remote_qpn = i]
    <3>1. H = [F[s] EXCEPT ![k] = m] BY <2>1
    <3>2. m \in Nodes /\ m.cma_id = F[s][k].cma_id /\ m.remote_qpn = i BY <1>1, <2>1
    <3> HIDE DEF m, H
    <3> QED BY <2>1, <3>1, <3>2
  <2>2. CASE k \notin Ids
    <3>1. H = F[s] BY <2>2
    <3> QED BY <2>2, <3>1
  <2> QED BY <2>1, <2>2
<1>3. [F EXCEPT ![s][k].remote_qpn = i] = [F EXCEPT ![s] = H] OBVIOUS
<1> HIDE DEF H
<1>4. \A t \in Sides : [F EXCEPT ![s] = H][t] = IF t = s THEN H ELSE F[t] OBVIOUS
<1>5. [F EXCEPT ![s] = H] \in [Sides -> [Ids -> Nodes]] BY <1>2
<1> DEFINE G == [F EXCEPT ![s] = H]
<1> HIDE DEF G
<1>6. ASSUME NEW t \in Sides, NEW j \in Ids
      PROVE  /\ G[t][j].cma_id = F[t][j].cma_id
             /\ G[t][j].remote_qpn = IF t = s /\ j = k THEN i ELSE F[t][j].remote_qpn
  <2>1. CASE t = s BY <2>1, <1>2, <1>4 DEF G
  <2>2. CASE t # s BY <2>2, <1>4 DEF G
  <2> QED BY <2>1, <2>2
<1> QED BY ZenonT(40), <1>3, <1>5, <1>6 DEF G

LEMMA NodeNamed ==
  ASSUME NEW F \in [Sides -> [Ids -> Nodes]], NEW s \in Sides, NEW k, NEW i \in Ids \cup {None}
  PROVE  LET G == [F EXCEPT ![s][k].cma_id = i] IN
         /\ G \in [Sides -> [Ids -> Nodes]]
         /\ \A t \in Sides, j \in Ids :
              /\ t # s => G[t][j] = F[t][j]
              /\ G[t][j].remote_qpn = F[t][j].remote_qpn
<1> DEFINE H == [F[s] EXCEPT ![k].cma_id = i]
<1>1. ASSUME NEW n \in Nodes
      PROVE  LET m == [n EXCEPT !.cma_id = i] IN m \in Nodes /\ m.remote_qpn = n.remote_qpn
  BY DEF Nodes
<1>2. H \in [Ids -> Nodes] /\ \A j \in Ids : H[j].remote_qpn = F[s][j].remote_qpn
  <2>1. CASE k \in Ids
    <3> DEFINE m == [F[s][k] EXCEPT !.cma_id = i]
    <3>1. H = [F[s] EXCEPT ![k] = m] BY <2>1
    <3>2. m \in Nodes /\ m.remote_qpn = F[s][k].remote_qpn BY <1>1, <2>1
    <3> HIDE DEF m, H
    <3> QED BY <2>1, <3>1, <3>2
  <2>2. CASE k \notin Ids
    <3>1. H = F[s] BY <2>2
    <3> QED BY ZenonT(40), <3>1
  <2> QED BY <2>1, <2>2
<1>3. [F EXCEPT ![s][k].cma_id = i] = [F EXCEPT ![s] = H] OBVIOUS
<1> HIDE DEF H
<1>4. \A t \in Sides : [F EXCEPT ![s] = H][t] = IF t = s THEN H ELSE F[t] OBVIOUS
<1>5. [F EXCEPT ![s] = H] \in [Sides -> [Ids -> Nodes]] BY <1>2
<1> DEFINE G == [F EXCEPT ![s] = H]
<1> HIDE DEF G
<1>6. ASSUME NEW t \in Sides, NEW j \in Ids
      PROVE  (t # s => G[t][j] = F[t][j]) /\ G[t][j].remote_qpn = F[t][j].remote_qpn
  <2>1. CASE t = s BY <2>1, <1>2, <1>4 DEF G
  <2>2. CASE t # s BY <2>2, <1>4 DEF G
  <2> QED BY <2>1, <2>2
<1> QED BY ZenonT(40), <1>3, <1>5, <1>6 DEF G

LEMMA ClosedTypes ==
  ASSUME CmTypes
  PROVE  [i \in Ids |-> Closed(i)] \in [Ids -> LinkStates]
<1>1. \A i \in Ids : link[i] \in LinkStates BY DEF CmTypes
<1>2. \A i \in Ids : Closed(i) \in LinkStates BY <1>1 DEF Closed, LinkStates
<1> QED BY <1>2

LEMMA PartTypes ==
  ASSUME CmTypes, NEW s \in Sides
  PROVE  /\ events[s] \in Seq(EventSet) /\ Farewells(PartAll) /\ Farewells(PartOpen)
         /\ events[s] \o PartAll \in Seq(EventSet) /\ events[s] \o PartOpen \in Seq(EventSet)
<1>1. events[s] \in Seq(EventSet) BY DEF CmTypes
<1>2. Farewells(PartAll)
  <2>1. {i \in Ids : link[i] \in {"request", "offered", "up"}} \in SUBSET Ids OBVIOUS
  <2> QED BY <2>1, GoodbyesAre DEF PartAll
<1>3. Farewells(PartOpen)
  <2>1. {i \in Ids : link[i] = "up"} \in SUBSET Ids OBVIOUS
  <2> QED BY <2>1, GoodbyesAre DEF PartOpen
<1> QED BY <1>1, <1>2, <1>3, FarewellsTell

\* The head of a channel names an identifier.
LEMMA TookTypes ==
  ASSUME CmTypes, NEW s \in Sides, events[s] # <<>>
  PROVE  /\ Took(s) \in Seq(EventSet) /\ EventId(s) \in Ids
         /\ [events EXCEPT ![s] = Took(s)] \in [Sides -> Seq(EventSet)]
<1>1. events[s] \in Seq(EventSet) BY DEF CmTypes
<1>2. Tail(events[s]) \in Seq(EventSet) /\ Head(events[s]) \in EventSet BY <1>1, TailIs, HeadIs
<1>3. EventId(s) \in Ids BY <1>2 DEF EventId, EventSet
<1> QED BY <1>2, <1>3 DEF CmTypes, Took

LEMMA EventTypes ==
  ASSUME CmTypes, NEW s \in Sides, NEW i \in Ids, NEW k \in EventKinds
  PROVE  /\ Event(k, i) \in EventSet /\ Append(events[s], Event(k, i)) \in Seq(EventSet)
         /\ [events EXCEPT ![s] = Append(events[s], Event(k, i))] \in [Sides -> Seq(EventSet)]
<1>1. Event(k, i) \in EventSet BY DEF Event, EventSet
<1>2. Append(events[s], Event(k, i)) \in Seq(EventSet) BY <1>1, AppendedIs DEF CmTypes
<1> QED BY <1>1, <1>2 DEF CmTypes

LEMMA QpsAre == ASSUME CmTypes PROVE Num \in Nat /\ Num >= 1 /\ Num <= MaxQps /\ Qps = 0..(Num - 1) /\ Qps \subseteq Ids
  BY OptionsAssumption DEF CmTypes, Num, Qps, Ids

LEMMA TwoSides ==
  ASSUME NEW S, NEW a \in S, NEW b \in S
  PROVE  /\ [client |-> a, server |-> b] \in [Sides -> S]
         /\ [client |-> a, server |-> b]["client"] = a /\ [client |-> a, server |-> b]["server"] = b
         /\ [server |-> b, client |-> a] = [client |-> a, server |-> b]
  BY DEF Sides

\* Types are kept: the kernel's steps and the client's.
LEMMA ClientTypes ==
  ASSUME CmTypes, opt' = opt, Kernel \/ DatagramLost \/ ClientStep
  PROVE  CmTypes'
<1> USE BothSides
<1>0. Num' = Num BY DEF Num
<1>1. ASSUME NEW i \in Ids, ResolutionEnds(i) PROVE CmTypes'
  <2>1. link[i] \in {"addr", "route"} BY <1>1 DEF ResolutionEnds, Resolved
  <2>2. Resolved[link[i]] \in LinkStates \cap EventKinds /\ Unresolved[link[i]] \in EventKinds /\ "error" \in LinkStates
    BY <2>1 DEF Resolved, Unresolved, LinkStates, EventKinds, Single
  <2>3. events' \in [Sides -> Seq(EventSet)]
    <3>1. PICK k \in EventKinds : events' = [events EXCEPT !["client"] = Append(events["client"], Event(k, i))]
      BY <1>1, <2>2 DEF ResolutionEnds
    <3> QED BY <3>1, EventTypes
  <2>4. link' \in [Ids -> LinkStates] BY <1>1, <2>2 DEF ResolutionEnds, CmTypes
  <2> QED BY <1>1, <2>3, <2>4, <1>0 DEF ResolutionEnds, CmTypes
<1>2. ASSUME NEW i \in Ids, RequestArrives(i) PROVE CmTypes'
  <2>1. "connect_request" \in EventKinds /\ "rejected" \in EventKinds /\ "offered" \in LinkStates /\ "refused" \in LinkStates
    BY DEF LinkStates, EventKinds, Single
  <2>2. events' \in [Sides -> Seq(EventSet)]
    <3>1. PICK s \in Sides, k \in EventKinds : events' = [events EXCEPT ![s] = Append(events[s], Event(k, i))]
      BY <1>2, <2>1 DEF RequestArrives
    <3> QED BY <3>1, EventTypes
  <2>3. link' \in [Ids -> LinkStates] BY <1>2, <2>1 DEF RequestArrives, CmTypes
  <2> QED BY <1>2, <2>2, <2>3, <1>0 DEF RequestArrives, CmTypes
<1>3. CASE DatagramLost
  <2>1. datagrams' \in Seq(Letters) BY <1>3 DEF DatagramLost, CmTypes
  <2> QED BY <1>3, <2>1, <1>0 DEF DatagramLost, CmTypes
<1>4. CASE ClientResolve
  <2>1. cmPc' \in [Sides -> CmPlaces] BY <1>4, LeaveTypes DEF ClientResolve, CmPlaces, Accepting
  <2>2. link' \in [Ids -> LinkStates]
    <3>1. "addr" \in LinkStates /\ "new" \in LinkStates BY DEF LinkStates
    <3> QED BY <3>1, <1>4 DEF ClientResolve
  <2>3. connectsLeft' \in [Sides -> Int] BY <1>4 DEF ClientResolve, ConnectError, CmTypes
  <2> QED BY <1>4, <2>1, <2>2, <2>3, <1>0 DEF ClientResolve, CmTypes
<1>5. CASE AddressHandler
  <2>1. events["client"] # <<>> BY <1>5 DEF AddressHandler, Takes
  <2>2. events' \in [Sides -> Seq(EventSet)] BY <1>5, <2>1, TookTypes DEF AddressHandler
  <2>3. cmPc' \in [Sides -> CmPlaces] BY <1>5, LeaveTypes DEF AddressHandler, CmPlaces, CmTypes
  <2>4. link' \in [Ids -> LinkStates]
    <3>1. "route" \in LinkStates BY DEF LinkStates
    <3> QED BY <3>1, <1>5 DEF AddressHandler, CmTypes
  <2>5. connectsLeft' \in [Sides -> Int] BY <1>5 DEF AddressHandler, ConnectError, CmTypes
  <2> QED BY <1>5, <2>2, <2>3, <2>4, <2>5, <1>0 DEF AddressHandler, CmTypes
<1>6. CASE RouteHandler
  <2> DEFINE i == EventId("client")
             k == connIndex["client"]
  <2>1. events["client"] # <<>> BY <1>6 DEF RouteHandler, Takes
  <2>2. events' \in [Sides -> Seq(EventSet)] /\ i \in Ids BY <1>6, <2>1, TookTypes DEF RouteHandler
  <2> HIDE DEF i
  <2>3. cmPc' \in [Sides -> CmPlaces] BY <1>6, LeaveTypes DEF RouteHandler, CmPlaces, CmTypes
  <2>4. CASE /\ qp' = [qp EXCEPT !["client"][k] = i]
             /\ link' = [link EXCEPT ![i] = "request"]
             /\ node' = [node EXCEPT !["client"][k].connected = TRUE]
             /\ connIndex' = [connIndex EXCEPT !["client"] = k + 1]
             /\ qpOfId' = [qpOfId EXCEPT !["client"] = @ \cup {i}]
             /\ UNCHANGED connectsLeft
    <3>1. link' \in [Ids -> LinkStates]
      <4>1. "request" \in LinkStates BY DEF LinkStates
      <4> QED BY <4>1, <2>4 DEF CmTypes
    <3>2. qp' \in [Sides -> [Ids -> Ids \cup {None}]] BY <2>2, <2>4 DEF CmTypes
    <3>3. connIndex' \in [Sides -> Nat] BY <2>4 DEF CmTypes
    <3>4. node' \in [Sides -> [Ids -> Nodes]]
      <4>1. node \in [Sides -> [Ids -> Nodes]] BY DEF CmTypes
      <4> QED BY <4>1, <2>4, NodeConnected
    <3>5. qpOfId' \in [Sides -> SUBSET Ids] BY <2>2, <2>4 DEF CmTypes
    <3> QED BY <1>6, <2>2, <2>3, <2>4, <3>1, <3>2, <3>3, <3>4, <3>5, <1>0 DEF RouteHandler, CmTypes
  <2>5. CASE ConnectError("client") /\ UNCHANGED <<qpOfId, qp, link, node, connIndex>>
    <3>1. connectsLeft' \in [Sides -> Int] BY <2>5 DEF ConnectError, CmTypes
    <3> QED BY <1>6, <2>2, <2>3, <2>5, <3>1, <1>0 DEF RouteHandler, CmTypes
  <2> QED BY <1>6, <2>4, <2>5 DEF RouteHandler, i
<1>7. CASE EstablishedHandler
  <2> DEFINE i == EventId("client")
             e == disconnectsLeft["client"]
             sender == node["client"][e].cma_id
  <2>1. events["client"] # <<>> BY <1>7 DEF EstablishedHandler, Takes
  <2>2. events' \in [Sides -> Seq(EventSet)] /\ i \in Ids BY <1>7, <2>1, TookTypes DEF EstablishedHandler
  <2> HIDE DEF i
  <2>3. cmPc' \in [Sides -> CmPlaces] BY <1>7, LeaveTypes DEF EstablishedHandler, CmPlaces, CmTypes
  <2>4. connectsLeft' \in [Sides -> Int] /\ disconnectsLeft' \in [Sides -> Int]
    <3>1. connectsLeft' = connectsLeft \/ connectsLeft' = [connectsLeft EXCEPT !["client"] = @ - 1]
      BY <1>7 DEF EstablishedHandler, ConnectError
    <3>2. disconnectsLeft' = disconnectsLeft \/ disconnectsLeft' = [disconnectsLeft EXCEPT !["client"] = @ + 1]
      BY <1>7 DEF EstablishedHandler
    <3> QED BY SMTT(30), <3>1, <3>2 DEF CmTypes
  <2>5. node' \in [Sides -> [Ids -> Nodes]]
    <3>1. node \in [Sides -> [Ids -> Nodes]] BY DEF CmTypes
    <3>2. CASE node' = node BY <3>1, <3>2
    <3>3. CASE node' = [node EXCEPT !["client"][e].remote_qpn = i] BY <3>1, <3>3, <2>2, NodeReached
    <3> QED BY <1>7, <3>2, <3>3 DEF EstablishedHandler, EstablishUd, i
  <2>6. datagrams' \in Seq(Letters)
    <3>1. CASE datagrams' = datagrams BY <3>1 DEF CmTypes
    <3>2. CASE NeedsReply /\ sender \in qpOfId["client"] /\ datagrams' = Append(datagrams, [to |-> i, imm |-> sender])
      <4>1. sender \in Ids BY <3>2 DEF CmTypes
      <4> HIDE DEF sender
      <4>2. [to |-> i, imm |-> sender] \in Letters BY <2>2, <4>1 DEF Letters
      <4> QED BY <3>2, <4>2 DEF CmTypes
    <3> QED BY <1>7, <3>1, <3>2 DEF EstablishedHandler, SendUd, i
  <2> QED BY <1>7, <2>2, <2>3, <2>4, <2>5, <2>6, <1>0 DEF EstablishedHandler, CmTypes
<1>8. CASE EventErrorHandler
  <2>1. events["client"] # <<>> BY <1>8 DEF EventErrorHandler, Takes
  <2>2. events' \in [Sides -> Seq(EventSet)] BY <1>8, <2>1, TookTypes DEF EventErrorHandler
  <2>3. cmPc' \in [Sides -> CmPlaces] BY <1>8, LeaveTypes DEF EventErrorHandler, CmPlaces
  <2>4. connectsLeft' \in [Sides -> Int] BY <1>8 DEF EventErrorHandler, ConnectError, CmTypes
  <2> QED BY <1>8, <2>2, <2>3, <2>4, <1>0 DEF EventErrorHandler, CmTypes
<1>9. CASE ClientRetries
  <2>1. <<>> \in Seq(EventSet) OBVIOUS
  <2>2. events' \in [Sides -> Seq(EventSet)] BY <1>9, <2>1, PartTypes, TwoSides DEF ClientRetries
  <2>3. cmPc' \in [Sides -> CmPlaces] BY <1>9, LeaveTypes DEF ClientRetries, CmPlaces
  <2> QED BY <1>9, <2>2, <2>3, <1>0, ClosedTypes DEF ClientRetries, CmTypes
<1> QED BY <1>1, <1>2, <1>3, <1>4, <1>5, <1>6, <1>7, <1>8, <1>9 DEF Kernel, ClientStep

\* The server ends in error: its own part of the types.
LEMMA FailsTypes ==
  ASSUME CmTypes, ServerFails
  PROVE  /\ cmPc' \in [Sides -> CmPlaces] /\ cmPc'["server"] \in {"failed", "undefined"}
         /\ cmPc'["client"] = cmPc["client"]
         /\ connectsLeft' \in [Sides -> Int] /\ connectsLeft'["client"] = connectsLeft["client"]
         /\ disconnectsLeft' = disconnectsLeft
         /\ link' = [i \in Ids |-> Closed(i)] /\ link' \in [Ids -> LinkStates]
         /\ events' \in [Sides -> Seq(EventSet)]
         /\ events'["server"] = <<>> /\ events'["client"] = events["client"] \o PartAll
<1> USE BothSides
<1>1. "client" # "server" OBVIOUS
<1>2. PICK p \in {"failed", "undefined"} : Leave("server", p) BY DEF ServerFails
<1>3. p \in CmPlaces BY <1>2 DEF CmPlaces
<1>4. cmPc' \in [Sides -> CmPlaces] /\ cmPc'["server"] = p /\ cmPc'["client"] = cmPc["client"]
  BY <1>1, <1>2, <1>3, LeaveTypes
<1>5. connectsLeft' \in [Sides -> Int] /\ connectsLeft'["client"] = connectsLeft["client"]
  BY DEF ServerFails, ConnectError, CmTypes
<1>6. link' = [i \in Ids |-> Closed(i)] /\ link' \in [Ids -> LinkStates] BY ClosedTypes DEF ServerFails
<1>7. events["client"] \o PartAll \in Seq(EventSet) BY PartTypes
<1>8. <<>> \in Seq(EventSet) OBVIOUS
<1>9. events' = [server |-> <<>>, client |-> events["client"] \o PartAll] BY DEF ServerFails
<1>10. /\ events' \in [Sides -> Seq(EventSet)]
       /\ events'["server"] = <<>> /\ events'["client"] = events["client"] \o PartAll
  BY <1>7, <1>8, <1>9, TwoSides
<1> QED BY <1>2, <1>4, <1>5, <1>6, <1>10 DEF ServerFails

\* The server counts a connection.
LEMMA ConnectedTypes ==
  ASSUME CmTypes, NEW i \in Ids \cup {None}, NEW n \in Ids \cup {None}, Connected(connIndex["server"], i, n)
  PROVE  /\ node' \in [Sides -> [Ids -> Nodes]]
         /\ \A j \in Ids : node'["client"][j] = node["client"][j]
         /\ \A j \in Ids : node'["server"][j].remote_qpn =
              IF j = connIndex["server"] THEN n ELSE node["server"][j].remote_qpn
         /\ connIndex' \in [Sides -> Nat] /\ connIndex'["client"] = connIndex["client"]
         /\ connIndex'["server"] = connIndex["server"] + 1
         /\ connectsLeft' \in [Sides -> Int] /\ connectsLeft'["client"] = connectsLeft["client"]
         /\ connectsLeft'["server"] = connectsLeft["server"] - 1
<1> USE BothSides
<1> DEFINE k == connIndex["server"]
           m == [cma_id |-> i, remote_qpn |-> n, connected |-> TRUE]
<1>1. m \in Nodes /\ m.remote_qpn = n BY DEF Nodes
<1>2. node \in [Sides -> [Ids -> Nodes]] BY DEF CmTypes
<1>3. node' = [node EXCEPT !["server"][k] = m] BY DEF Connected
<1> HIDE DEF m
<1>4. /\ node' \in [Sides -> [Ids -> Nodes]]
      /\ \A t \in Sides, j \in Ids : node'[t][j] = IF t = "server" /\ j = k THEN m ELSE node[t][j]
  BY <1>1, <1>2, <1>3, NodeSet
<1>5. "client" # "server" OBVIOUS
<1>6. /\ connIndex' \in [Sides -> Nat] /\ connIndex'["client"] = connIndex["client"]
      /\ connIndex'["server"] = connIndex["server"] + 1
  BY DEF Connected, CmTypes
<1>7. /\ connectsLeft' \in [Sides -> Int] /\ connectsLeft'["client"] = connectsLeft["client"]
      /\ connectsLeft'["server"] = connectsLeft["server"] - 1
  BY DEF Connected, CmTypes
<1> QED BY <1>1, <1>4, <1>5, <1>6, <1>7

LEMMA ServerTypes ==
  ASSUME CmTypes, opt' = opt, ServerStep
  PROVE  CmTypes'
<1> USE BothSides
<1>0. Num' = Num BY DEF Num
<1>1. CASE ServerListen
  <2>1. cmPc' \in [Sides -> CmPlaces] BY <1>1, LeaveTypes DEF ServerListen, CmPlaces, Accepting
  <2> QED BY <1>1, <2>1, <1>0 DEF ServerListen, CmTypes
<1>2. CASE RequestHandler
  <2> DEFINE i == EventId("server")
             k == connIndex["server"]
  <2>1. events["server"] # <<>> BY <1>2 DEF RequestHandler, Takes
  <2>2. Took("server") \in Seq(EventSet) /\ i \in Ids BY <2>1, TookTypes
  <2>3. ASSUME /\ qpOfId' = [qpOfId EXCEPT !["server"] = @ \cup {i}]
               /\ qp' = [qp EXCEPT !["server"][k] = i]
               /\ link' = [link EXCEPT ![i] = "up"]
               /\ events' = [client |-> Append(events["client"], Event("established", i)),
                             server |-> Took("server")]
               /\ IF NeedsReply
                  THEN /\ Leave("server", "ud_wait")
                       /\ node' = [node EXCEPT !["server"][k].cma_id = i]
                       /\ UNCHANGED <<connIndex, connectsLeft>>
                  ELSE Connected(k, i, None) /\ UNCHANGED cmPc
               /\ UNCHANGED <<disconnectsLeft, datagrams>>
        PROVE  CmTypes'
    <3> HIDE DEF i
    <3>1. events' \in [Sides -> Seq(EventSet)]
      <4>1. "established" \in EventKinds BY DEF EventKinds, Single
      <4>2. Append(events["client"], Event("established", i)) \in Seq(EventSet) BY <4>1, <2>2, EventTypes
      <4> QED BY <4>2, <2>2, <2>3, TwoSides
    <3>2. link' \in [Ids -> LinkStates]
      <4>1. "up" \in LinkStates BY DEF LinkStates
      <4> QED BY <4>1, <2>3 DEF CmTypes
    <3>3. qp' \in [Sides -> [Ids -> Ids \cup {None}]] BY <2>2, <2>3 DEF CmTypes
    <3>4. qpOfId' \in [Sides -> SUBSET Ids] BY <2>2, <2>3 DEF CmTypes
    <3>5. CASE NeedsReply
      <4>1. cmPc' \in [Sides -> CmPlaces] BY <2>3, <3>5, LeaveTypes DEF CmPlaces, Accepting
      <4>2. node \in [Sides -> [Ids -> Nodes]] BY DEF CmTypes
      <4>3. node' \in [Sides -> [Ids -> Nodes]] 
        <5>1. node' = [node EXCEPT !["server"][k].cma_id = i] /\ i \in Ids \cup {None} BY <2>2, <2>3, <3>5
        <5> QED BY <4>2, <5>1, NodeNamed
      <4> QED BY <2>3, <3>1, <3>2, <3>3, <3>4, <3>5, <4>1, <4>3, <1>0 DEF CmTypes
    <3>6. CASE ~NeedsReply
      <4>1. Connected(connIndex["server"], i, None) /\ UNCHANGED cmPc BY <2>3, <3>6
      <4>2. /\ node' \in [Sides -> [Ids -> Nodes]] /\ connIndex' \in [Sides -> Nat]
            /\ connectsLeft' \in [Sides -> Int]
        BY <2>2, <4>1, ConnectedTypes
      <4> QED BY <2>3, <3>1, <3>2, <3>3, <3>4, <4>1, <4>2, <1>0 DEF CmTypes
    <3> QED BY <3>5, <3>6
  <2>4. CASE ServerFails /\ UNCHANGED <<node, qpOfId, qp, connIndex, datagrams>>
    BY <2>4, <1>0, FailsTypes DEF CmTypes
  <2> QED BY <1>2, <2>3, <2>4 DEF RequestHandler
<1>3. CASE UdReply
  <2> DEFINE k == connIndex["server"]
             a == node["server"][k].cma_id
             b == Head(datagrams).imm
  <2>1. datagrams # <<>> /\ datagrams' = Tail(datagrams) BY <1>3 DEF UdReply
  <2>2. datagrams' \in Seq(Letters) /\ b \in Ids
    <3>0. datagrams \in Seq(Letters) BY DEF CmTypes
    <3>1. Head(datagrams) \in Letters BY <2>1, <3>0
    <3>2. Tail(datagrams) \in Seq(Letters) BY <2>1, <3>0
    <3> QED BY <2>1, <3>1, <3>2 DEF Letters
  <2>3. CASE /\ Connected(k, a, b) /\ Leave("server", "events")
             /\ UNCHANGED <<disconnectsLeft, link, events, qpOfId, qp>>
    <3>1. cmPc' \in [Sides -> CmPlaces] BY <2>3, LeaveTypes DEF CmPlaces, Accepting
    <3>2. connIndex' \in [Sides -> Nat] /\ connectsLeft' \in [Sides -> Int] BY SMTT(30), <2>3 DEF Connected, CmTypes
    <3>3. node' \in [Sides -> [Ids -> Nodes]]
      <4>1. node \in [Sides -> [Ids -> Nodes]] BY DEF CmTypes
      <4>2. node' = [node EXCEPT !["server"][k] = [cma_id |-> a, remote_qpn |-> b, connected |-> TRUE]]
        BY <2>3 DEF Connected
      <4>3. CASE k \in Ids
        <5>1. a \in Ids \cup {None} BY <4>1, <4>3 DEF Nodes
        <5> HIDE DEF a, b
        <5>2. [cma_id |-> a, remote_qpn |-> b, connected |-> TRUE] \in Nodes BY <2>2, <5>1 DEF Nodes
        <5> QED BY <4>1, <4>2, <5>2, NodeSet
      <4>4. CASE k \notin Ids
        <5>1. node["server"] \in [Ids -> Nodes] BY <4>1
        <5> HIDE DEF a, b, k
        <5> DEFINE H == [node["server"] EXCEPT ![k] = [cma_id |-> a, remote_qpn |-> b, connected |-> TRUE]]
        <5>2. node' = [node EXCEPT !["server"] = H] BY <4>2
        <5>3. H = node["server"] BY <4>4, <5>1
        <5> QED BY <4>1, <5>2, <5>3
      <4> QED BY <4>3, <4>4
    <3> QED BY <2>2, <2>3, <3>1, <3>2, <3>3, <1>0 DEF CmTypes
  <2>4. CASE ServerFails /\ UNCHANGED <<node, connIndex, qpOfId, qp>>
    BY <2>2, <2>4, <1>0, FailsTypes DEF CmTypes
  <2> QED BY <1>3, <2>3, <2>4 DEF UdReply
<1> QED BY <1>1, <1>2, <1>3 DEF ServerStep

LEMMA OwnTypes ==
  ASSUME CmTypes, opt' = opt, NEW s \in Sides,
         \/ Allocate(s) \/ Enters(s) \/ DisconnectHandler(s) \/ EventsEnd(s) \/ Leaves(s)
         \/ Disconnect(s) \/ DisconnectsEnd(s) \/ Destroy(s) \/ Vanish(s)
  PROVE  CmTypes'
<1>0. Num' = Num BY DEF Num
<1>1. ASSUME NEW p \in CmPlaces, Leave(s, p) PROVE cmPc' \in [Sides -> CmPlaces] BY <1>1, LeaveTypes
<1>2. {"allocated", "synced", "connected", "used", "disconnecting", "disconnected", "destroyed", "gone", "failed"}
        \subseteq CmPlaces
  BY DEF CmPlaces, Before
<1>3. \A t \in Sides : events[t] \in Seq(EventSet) /\ events[t] \o PartAll \in Seq(EventSet) BY PartTypes
<1>4. <<>> \in Seq(EventSet) OBVIOUS
<1>5. CASE Allocate(s)
  <2>1. cmPc' \in [Sides -> CmPlaces] BY <1>1, <1>2, <1>5 DEF Allocate
  <2>2. connectsLeft' \in [Sides -> Int] BY <1>0, <1>5 DEF Allocate, CmTypes
  <2>3. node' \in [Sides -> [Ids -> Nodes]]
    <3>1. node \in [Sides -> [Ids -> Nodes]] BY DEF CmTypes
    <3> DEFINE new == [i \in Ids |-> [NoNode EXCEPT !.cma_id = IF s = "client" /\ i \in Qps THEN i ELSE None]]
    <3>2. CASE node' = [node EXCEPT ![s] = new]
      <4>1. ASSUME NEW a \in Ids \cup {None} PROVE [NoNode EXCEPT !.cma_id = a] \in Nodes BY DEF NoNode, Nodes
      <4>2. new \in [Ids -> Nodes] BY <4>1
      <4> HIDE DEF new
      <4> QED BY <3>1, <3>2, <4>2
    <3> QED BY <1>5, <3>1, <3>2 DEF Allocate
  <2> QED BY <1>0, <1>5, <2>1, <2>2, <2>3 DEF Allocate, CmTypes
<1>6. CASE Enters(s)
  <2>1. cmPc' \in [Sides -> CmPlaces] BY <1>1, <1>2, <1>6 DEF Enters
  <2> QED BY <1>0, <1>6, <2>1 DEF Enters, CmTypes
<1>7. CASE DisconnectHandler(s)
  <2>1. events[s] # <<>> BY <1>7 DEF DisconnectHandler, Takes
  <2>2. events' \in [Sides -> Seq(EventSet)] BY <1>7, <2>1, TookTypes DEF DisconnectHandler
  <2>3. disconnectsLeft' \in [Sides -> Int] BY <1>7 DEF DisconnectHandler, CmTypes
  <2> QED BY <1>0, <1>7, <2>2, <2>3 DEF DisconnectHandler, CmTypes
<1>8. CASE EventsEnd(s)
  <2>1. cmPc' \in [Sides -> CmPlaces] BY <1>1, <1>2, <1>8 DEF EventsEnd
  <2> QED BY <1>0, <1>8, <2>1 DEF EventsEnd, CmTypes
<1>9. CASE Leaves(s)
  <2>1. cmPc' \in [Sides -> CmPlaces] BY <1>1, <1>2, <1>9 DEF Leaves
  <2> QED BY <1>0, <1>9, <2>1 DEF Leaves, CmTypes
<1>10. CASE Disconnect(s)
  <2>1. cmPc' \in [Sides -> CmPlaces] BY <1>1, <1>2, <1>10 DEF Disconnect
  <2>2. CASE UNCHANGED <<node, link, events>> BY <1>0, <1>10, <2>1, <2>2 DEF Disconnect, CmTypes
  <2>3. CASE /\ node' = [node EXCEPT ![s] = [i \in Ids |-> [@[i] EXCEPT !.connected = FALSE]]]
             /\ link' = [i \in Ids |-> Closed(i)]
             /\ events' = [t \in Sides |-> IF cmPc[t] = "destroyed" THEN events[t] ELSE events[t] \o PartAll]
    <3>1. node \in [Sides -> [Ids -> Nodes]] BY DEF CmTypes
    <3> DEFINE new == [i \in Ids |-> [node[s][i] EXCEPT !.connected = FALSE]]
    <3>2. ASSUME NEW n \in Nodes PROVE [n EXCEPT !.connected = FALSE] \in Nodes BY DEF Nodes
    <3>3. new \in [Ids -> Nodes] BY <3>1, <3>2
    <3>4. node' = [node EXCEPT ![s] = new] BY <2>3
    <3> HIDE DEF new
    <3>5. node' \in [Sides -> [Ids -> Nodes]] BY <3>1, <3>3, <3>4
    <3>6. events' \in [Sides -> Seq(EventSet)] BY <1>3, <2>3
    <3> QED BY <1>0, <1>10, <2>1, <2>3, <3>5, <3>6, ClosedTypes DEF Disconnect, CmTypes
  <2> QED BY <1>10, <2>2, <2>3 DEF Disconnect
<1>11. CASE DisconnectsEnd(s)
  <2>1. cmPc' \in [Sides -> CmPlaces] BY <1>1, <1>2, <1>11 DEF DisconnectsEnd
  <2> QED BY <1>0, <1>11, <2>1 DEF DisconnectsEnd, CmTypes
<1>12. CASE Destroy(s)
  <2>1. cmPc' \in [Sides -> CmPlaces] BY <1>1, <1>2, <1>12 DEF Destroy
  <2>2. events' \in [Sides -> Seq(EventSet)] BY <1>3, <1>4, <1>12 DEF Destroy
  <2>3. link' \in [Ids -> LinkStates] BY <1>12, ClosedTypes DEF Destroy
  <2>4. node' \in [Sides -> [Ids -> Nodes]]
    <3>1. [i \in Ids |-> NoNode] \in [Ids -> Nodes] BY DEF NoNode, Nodes
    <3> QED BY <1>12, <3>1 DEF Destroy, CmTypes
  <2>5. qpOfId' \in [Sides -> SUBSET Ids] BY <1>12 DEF Destroy, CmTypes
  <2> QED BY <1>0, <1>12, <2>1, <2>2, <2>3, <2>4, <2>5 DEF Destroy, CmTypes
<1>13. CASE Vanish(s)
  <2>1. cmPc' \in [Sides -> CmPlaces] BY <1>1, <1>2, <1>13 DEF Vanish
  <2>2. events' \in [Sides -> Seq(EventSet)] BY <1>3, <1>4, <1>13 DEF Vanish
  <2>3. link' \in [Ids -> LinkStates] BY <1>13, ClosedTypes DEF Vanish
  <2> QED BY <1>0, <1>13, <2>1, <2>2, <2>3 DEF Vanish, CmTypes
<1> QED BY <1>5, <1>6, <1>7, <1>8, <1>9, <1>10, <1>11, <1>12, <1>13

LEMMA TypesKept == ASSUME CmTypes, opt' = opt, CmMove PROVE CmTypes'
<1>1. CASE Kernel \/ DatagramLost \/ ClientStep BY <1>1, ClientTypes
<1>2. CASE ServerStep BY <1>2, ServerTypes
<1>3. ASSUME NEW s \in Sides,
             \/ Allocate(s) \/ Enters(s) \/ DisconnectHandler(s) \/ EventsEnd(s) \/ Leaves(s)
             \/ Disconnect(s) \/ DisconnectsEnd(s) \/ Destroy(s) \/ Vanish(s)
      PROVE  CmTypes'
  BY <1>3, OwnTypes
<1> QED BY <1>1, <1>2, <1>3 DEF CmMove

(***************************************************************************)
(* The connections.                                                        *)
(***************************************************************************)
LEMMA ClosedIs ==
  ASSUME CmTypes, NEW i \in Ids, NEW l \in {link[i], Closed(i)}
  PROVE  /\ link[i] = "new" <=> l = "new"
         /\ link[i] = "addr_resolved" <=> l = "addr_resolved"
         /\ link[i] = "route_resolved" <=> l = "route_resolved"
         /\ link[i] \in Met => l \in Met
         /\ link[i] \in {"offered", "refused"} => l \in {"offered", "refused"}
         /\ link[i] \in Requested <=> l \in Requested
  BY DEF CmTypes, LinkStates, Closed, Met, Requested

\* Nothing is told or resolved or requested: identifiers close at most.
LEMMA Fading ==
  ASSUME CmInv, opt' = opt, CmTypes', connIndex' = connIndex, qp' = qp,
         \A i \in Ids : link'[i] \in {link[i], Closed(i)},
         \A s \in Sides : Unique(events'[s]) /\ \A e : e.kind \in Single /\ Has(events'[s], e) => Has(events[s], e),
         cmPc'["client"] \in Before => cmPc["client"] \in Before /\ events'["client"] = <<>>,
         \/ cmPc'["server"] = cmPc["server"] /\ connectsLeft'["server"] = connectsLeft["server"]
         \/ cmPc'["server"] \notin Before \cup Accepting \cup {"connected"}
         \/ cmPc'["server"] # "ud_wait" /\ ServerCount'
  PROVE  CmInv'
<1> USE BothSides
<1>0. Num' = Num /\ Qps' = Qps BY DEF Num, Qps
<1>1. ASSUME NEW i \in Ids
      PROVE  /\ link[i] = "new" <=> link'[i] = "new"
             /\ link[i] = "addr_resolved" <=> link'[i] = "addr_resolved"
             /\ link[i] = "route_resolved" <=> link'[i] = "route_resolved"
             /\ link[i] \in Met => link'[i] \in Met
             /\ link[i] \in {"offered", "refused"} => link'[i] \in {"offered", "refused"}
             /\ link[i] \in Requested <=> link'[i] \in Requested
  BY ClosedIs DEF CmInv
<1>2. ASSUME NEW i \in Ids PROVE LinkInv(i)'
  <2>1. LinkInv(i) BY DEF CmInv
  <2>2. ASSUME NEW s \in Sides, NEW k \in Single, Has(events'[s], Event(k, i)) PROVE Has(events[s], Event(k, i))
    <3>1. Event(k, i).kind = k BY DEF Event
    <3> QED BY <2>2, <3>1
  <2>3. {"addr_resolved", "route_resolved", "established", "connect_request"} \subseteq Single BY DEF Single
  <2>4. \A k : Event(k, i)' = Event(k, i) BY DEF Event
  <2>5. /\ Has(events'["client"], Event("addr_resolved", i)) => link'[i] = "addr_resolved"
        /\ Has(events'["client"], Event("route_resolved", i)) => link'[i] = "route_resolved"
    BY <2>1, <2>2, <2>3, <1>1 DEF LinkInv
  <2>6. Has(events'["client"], Event("established", i)) => link'[i] \in Met
    BY <2>1, <2>2, <2>3, <1>1 DEF LinkInv
  <2>7. Has(events'["server"], Event("connect_request", i)) => link'[i] \in {"offered", "refused"}
    BY <2>1, <2>2, <2>3, <1>1 DEF LinkInv
  <2>8. link'[i] # "new" => i \in Qps BY <2>1, <1>1 DEF LinkInv
  <2> QED BY <2>5, <2>6, <2>7, <2>8, <1>0 DEF LinkInv, Has, Event, Met
<1>3. ClientTable'
  <2>1. ClientTable BY DEF CmInv
  <2>2. Qps \subseteq Ids BY QpsAre DEF CmInv
  <2>3. ASSUME NEW j \in Ids
        PROVE  IF j < connIndex["client"]
               THEN qp["client"][j] \in Qps /\ link'[qp["client"][j]] \in Requested
               ELSE qp["client"][j] = None
    BY <2>1, <2>2, <1>1 DEF ClientTable
  <2>4. \A i \in Ids : link'[i] \in Requested => \E j \in Ids : qp["client"][j] = i
    BY <2>1, <1>1 DEF ClientTable
  <2> QED BY <2>1, <2>3, <2>4, <1>0 DEF ClientTable, Requested
<1>4. ServerTable'
  <2>1. ServerTable BY DEF CmInv
  <2>2. Qps \subseteq Ids BY QpsAre DEF CmInv
  <2>3. \A j \in Ids : qp["server"][j] # None => qp["server"][j] \in Qps /\ link'[qp["server"][j]] \in Met
    BY <2>1, <2>2, <1>1 DEF ServerTable
  <2>4. cmPc'["server"] = "ud_wait" => cmPc["server"] = "ud_wait" BY DEF Accepting
  <2> QED BY <2>1, <2>3, <2>4, <1>0 DEF ServerTable, Met
<1>5. ServerCount'
  <2>1. CASE cmPc'["server"] = cmPc["server"] /\ connectsLeft'["server"] = connectsLeft["server"]
    BY <2>1, <1>0 DEF ServerCount, CmInv
  <2>2. CASE cmPc'["server"] \notin Before \cup Accepting \cup {"connected"}
    BY <2>2 DEF ServerCount, Before, Accepting
  <2> QED BY <2>1, <2>2
<1>6. cmPc'["client"] \in Before => events'["client"] = <<>> /\ \A i \in Ids : link'[i] = "new"
  BY <1>1 DEF CmInv
<1> QED BY <1>2, <1>3, <1>4, <1>5, <1>6 DEF CmInv, Before, Unique, Single

\* A side takes an event and nothing else becomes of the identifiers.
LEMMA TookKept ==
  ASSUME CmInv, NEW s \in Sides, events[s] # <<>>, events' = [events EXCEPT ![s] = Took(s)]
  PROVE  /\ \A t \in Sides : Unique(events'[t]) /\ \A e : Has(events'[t], e) => Has(events[t], e)
         /\ Head(events[s]) = Event(Head(events[s]).kind, EventId(s)) /\ EventId(s) \in Ids
         /\ Has(events[s], Event(Head(events[s]).kind, EventId(s)))
         /\ Head(events[s]).kind \in Single => ~Has(events'[s], Event(Head(events[s]).kind, EventId(s)))
         /\ events'[s] = Tail(events[s]) /\ \A t \in Sides : t # s => events'[t] = events[t]
<1>1. events \in [Sides -> Seq(EventSet)] BY DEF CmInv, CmTypes
<1>2. events[s] \in Seq(EventSet) BY <1>1
<1>3. events'[s] = Tail(events[s]) /\ \A t \in Sides : t # s => events'[t] = events[t] BY <1>1 DEF Took
<1>4. \A t \in Sides : Unique(events[t]) BY DEF CmInv, Sides
<1>5. /\ Unique(Tail(events[s])) /\ \A e : Has(Tail(events[s]), e) => Has(events[s], e)
      /\ Head(events[s]).kind \in Single => ~Has(Tail(events[s]), Head(events[s]))
  BY <1>2, <1>4, TailTells
<1>6. \A t \in Sides : Unique(events'[t]) /\ \A e : Has(events'[t], e) => Has(events[t], e)
  BY <1>3, <1>4, <1>5
<1>7. Has(events[s], Head(events[s])) /\ Head(events[s]) = Event(Head(events[s]).kind, EventId(s)) /\ EventId(s) \in Ids
  BY <1>2, HeadIs, TookTypes DEF EventId, CmInv
<1> QED BY <1>3, <1>5, <1>6, <1>7

\* A side goes, or its connections close.
LEMMA PartsTell ==
  ASSUME CmInv, NEW t \in Sides,
         events'[t] \in {<<>>, events[t], events[t] \o PartAll, events[t] \o PartOpen}
  PROVE  Unique(events'[t]) /\ \A e : e.kind \in Single /\ Has(events'[t], e) => Has(events[t], e)
<1>1. Unique(events[t]) /\ events[t] \in Seq(EventSet) BY DEF CmInv, CmTypes, Sides
<1>2. Unique(<<>>) /\ \A e : ~Has(<<>>, e) BY DEF Unique, Has
<1>3. Farewells(PartAll) /\ Farewells(PartOpen) BY PartTypes DEF CmInv
<1>4. /\ Unique(events[t] \o PartAll) /\ \A e : e.kind \in Single /\ Has(events[t] \o PartAll, e) => Has(events[t], e)
      /\ Unique(events[t] \o PartOpen) /\ \A e : e.kind \in Single /\ Has(events[t] \o PartOpen, e) => Has(events[t], e)
  BY <1>1, <1>3, FarewellsTell
<1> QED BY <1>1, <1>2, <1>4

\* While the client resolves nothing there is nobody to say farewell to.
LEMMA NoParts ==
  ASSUME CmInv, cmPc["client"] \in Before
  PROVE  PartAll = <<>> /\ PartOpen = <<>> /\ events["client"] \o PartAll = <<>> /\ events["client"] \o PartOpen = <<>>
<1>1. \A i \in Ids : link[i] = "new" BY DEF CmInv
<1>2. {i \in Ids : link[i] \in {"request", "offered", "up"}} = {} /\ {i \in Ids : link[i] = "up"} = {} BY <1>1
<1>3. PartAll = <<>> /\ PartOpen = <<>>
  <2>1. {} \in SUBSET Ids OBVIOUS
  <2>2. Goodbyes({}) = <<>> BY <2>1, GoodbyesAre
  <2> QED BY <1>2, <2>2 DEF PartAll, PartOpen
<1>4. events["client"] = <<>> BY DEF CmInv
<1> QED BY <1>3, <1>4

LEMMA FailsKept ==
  ASSUME CmInv, opt' = opt, CmTypes', ServerFails, connIndex' = connIndex, qp' = qp
  PROVE  CmInv'
<1> USE BothSides
<1>0. "client" # "server" OBVIOUS
<1>1. /\ cmPc'["server"] \in {"failed", "undefined"} /\ cmPc'["client"] = cmPc["client"]
      /\ link' = [i \in Ids |-> Closed(i)]
      /\ events'["server"] = <<>> /\ events'["client"] = events["client"] \o PartAll
  BY FailsTypes DEF CmInv
<1>2. \A s \in Sides : Unique(events'[s]) /\ \A e : e.kind \in Single /\ Has(events'[s], e) => Has(events[s], e)
  BY <1>1, PartsTell DEF Sides
<1>3. cmPc'["client"] \in Before => cmPc["client"] \in Before /\ events'["client"] = <<>> BY <1>1, NoParts
<1>4. cmPc'["server"] \notin Before \cup Accepting \cup {"connected"} BY <1>1 DEF Before, Accepting
<1>5. \A i \in Ids : link'[i] \in {link[i], Closed(i)} BY <1>1
<1> QED BY <1>2, <1>3, <1>4, <1>5, Fading

LEMMA OwnKept ==
  ASSUME CmInv, opt' = opt, CmTypes', NEW s \in Sides,
         \/ Allocate(s) \/ Enters(s) \/ DisconnectHandler(s) \/ EventsEnd(s) \/ Leaves(s)
         \/ Disconnect(s) \/ DisconnectsEnd(s) \/ Destroy(s) \/ Vanish(s)
  PROVE  CmInv'
<1> USE BothSides
<1>1. connIndex' = connIndex /\ qp' = qp
  BY DEF Allocate, Enters, DisconnectHandler, EventsEnd, Leaves, Disconnect, DisconnectsEnd, Destroy, Vanish
<1>2. \A i \in Ids : link'[i] \in {link[i], Closed(i)}
  BY DEF Allocate, Enters, DisconnectHandler, EventsEnd, Leaves, Disconnect, DisconnectsEnd, Destroy, Vanish
<1>3. \A t \in Sides : Unique(events'[t]) /\ \A e : e.kind \in Single /\ Has(events'[t], e) => Has(events[t], e)
  <2>1. CASE DisconnectHandler(s) BY <2>1, TookKept DEF DisconnectHandler, Takes
  <2>2. CASE ~DisconnectHandler(s)
    <3>1. \A t \in Sides : events'[t] \in {<<>>, events[t], events[t] \o PartAll, events[t] \o PartOpen}
      BY <2>2 DEF Allocate, Enters, EventsEnd, Leaves, Disconnect, DisconnectsEnd, Destroy, Vanish
    <3> QED BY <3>1, PartsTell
  <2> QED BY <2>1, <2>2
<1>4. \A t \in Sides : t # s => cmPc'[t] = cmPc[t]
  BY DEF CmInv, CmTypes, Leave, Allocate, Enters, DisconnectHandler, EventsEnd, Leaves, Disconnect, DisconnectsEnd,
         Destroy, Vanish
<1>5. /\ Allocate(s) => cmPc[s] = "idle" /\ cmPc'[s] \in {"allocated", "failed"}
      /\ Enters(s) => cmPc[s] = "allocated" /\ cmPc'[s] = "synced"
      /\ DisconnectHandler(s) => cmPc'[s] = cmPc[s] /\ cmPc[s] \in {"events", "disconnecting"}
      /\ EventsEnd(s) => cmPc[s] = "events" /\ cmPc'[s] = "connected" /\ connectsLeft[s] = 0
      /\ Leaves(s) => cmPc[s] = "connected" /\ cmPc'[s] = "used"
      /\ Disconnect(s) => cmPc[s] = "used" /\ cmPc'[s] \in {"disconnected", "disconnecting"}
      /\ DisconnectsEnd(s) => cmPc'[s] = "disconnected"
      /\ Destroy(s) => cmPc'[s] = "destroyed"
      /\ Vanish(s) => cmPc'[s] = "gone"
  BY ZenonT(40) DEF CmInv, CmTypes, Leave, Allocate, Enters, DisconnectHandler, Takes, EventsEnd, Leaves, Disconnect, DisconnectsEnd,
         Destroy, Vanish
<1>6. cmPc'["client"] \in Before => cmPc["client"] \in Before /\ events'["client"] = <<>>
  <2> SUFFICES ASSUME cmPc'["client"] \in Before PROVE cmPc["client"] \in Before /\ events'["client"] = <<>> OBVIOUS
  <2>1. CASE s = "client"
    <3>1. Allocate(s) \/ Enters(s) BY <2>1, <1>5 DEF Before
    <3>2. cmPc["client"] \in Before /\ events' = events BY <2>1, <3>1 DEF Before, Allocate, Enters
    <3> QED BY <3>2 DEF CmInv
  <2>2. CASE s # "client"
    <3>1. cmPc["client"] \in Before BY <2>2, <1>4
    <3>2. events["client"] = <<>> /\ events["client"] \o PartAll = <<>> BY <3>1, NoParts DEF CmInv
    <3>3. CASE DisconnectHandler(s)
      <4>1. events["server"] # <<>> /\ events' = [events EXCEPT !["server"] = Took("server")]
        BY <2>2, <3>3 DEF DisconnectHandler, Takes, Sides
      <4>2. events'["client"] = events["client"] BY <4>1, TookKept
      <4> QED BY <3>1, <3>2, <4>2
    <3>4. CASE ~DisconnectHandler(s)
      <4>1. events'["client"] \in {<<>>, events["client"], events["client"] \o PartAll}
        BY <3>4 DEF Allocate, Enters, EventsEnd, Leaves, Disconnect, DisconnectsEnd, Destroy, Vanish
      <4> QED BY <3>1, <3>2, <4>1
    <3> QED BY <3>3, <3>4
  <2> QED BY <2>1, <2>2
<1>7. \/ cmPc'["server"] = cmPc["server"] /\ connectsLeft'["server"] = connectsLeft["server"]
      \/ cmPc'["server"] \notin Before \cup Accepting \cup {"connected"}
      \/ cmPc'["server"] # "ud_wait" /\ ServerCount'
  <2>0. ServerCount BY DEF CmInv
  <2>1. CASE s # "server"
    <3>1. connectsLeft'["server"] = connectsLeft["server"]
      BY <2>1 DEF CmInv, CmTypes, Allocate, Enters, DisconnectHandler, EventsEnd, Leaves, Disconnect, DisconnectsEnd,
                  Destroy, Vanish
    <3> QED BY <2>1, <3>1, <1>4
  <2>2. CASE s = "server"
    <3>0. Num' = Num BY DEF Num
    <3>1. CASE Allocate(s)
      <4>1. CASE cmPc'["server"] = "failed" BY <4>1 DEF Before, Accepting
      <4>2. CASE cmPc'["server"] = "allocated"
        <5>1. connectsLeft'["server"] = Num BY <3>1, <2>2 DEF Allocate, CmInv, CmTypes, Num
        <5>2. connIndex["server"] = 0 BY <2>0, <2>2, <3>1, <1>5 DEF ServerCount
        <5>3. Num \in Int BY QpsAre DEF CmInv
        <5>4. connectsLeft'["server"] + connIndex'["server"] = Num' BY <5>1, <5>2, <5>3, <1>1, <3>0
        <5> QED BY <4>2, <5>4 DEF ServerCount
      <4> QED BY <2>2, <3>1, <4>1, <4>2, <1>5
    <3>2. CASE Enters(s)
      <4>1. connectsLeft'["server"] = connectsLeft["server"] BY <3>2 DEF Enters
      <4>2. connectsLeft["server"] + connIndex["server"] = Num BY <2>0, <2>2, <3>2 DEF ServerCount, Enters
      <4>3. cmPc'["server"] = "synced" BY <2>2, <3>2, <1>5
      <4> QED BY <4>1, <4>2, <4>3, <1>1, <3>0 DEF ServerCount
    <3>3. CASE DisconnectHandler(s) BY <2>2, <3>3, <1>5 DEF DisconnectHandler
    <3>4. CASE EventsEnd(s)
      <4>1. connectsLeft["server"] = 0 /\ cmPc["server"] = "events" /\ cmPc'["server"] = "connected" BY <2>2, <3>4, <1>5
      <4>2. connectsLeft["server"] + connIndex["server"] = Num BY <2>0, <4>1 DEF ServerCount
      <4>3. connIndex["server"] \in Nat BY DEF CmInv, CmTypes
      <4>4. connIndex'["server"] = Num' BY <4>1, <4>2, <4>3, <1>1, <3>0
      <4> QED BY <4>1, <4>4 DEF ServerCount
    <3>5. CASE Leaves(s) \/ Disconnect(s) \/ DisconnectsEnd(s) \/ Destroy(s) \/ Vanish(s)
      BY <2>2, <3>5, <1>5 DEF Before, Accepting
    <3> QED BY <3>1, <3>2, <3>3, <3>4, <3>5
  <2> QED BY <2>1, <2>2
<1> QED BY <1>1, <1>2, <1>3, <1>6, <1>7, Fading

\* What a new event tells, and what was told before it.
LEMMA Telling ==
  ASSUME CmInv, NEW t \in Sides, NEW e \in EventSet, e.kind \in Single => ~Has(events[t], e),
         events' = [events EXCEPT ![t] = Append(events[t], e)]
  PROVE  /\ \A s \in Sides : Unique(events'[s])
         /\ \A f : Has(events'[t], f) => Has(events[t], f) \/ f = e
         /\ \A s \in Sides : s # t => events'[s] = events[s]
<1>1. events \in [Sides -> Seq(EventSet)] BY DEF CmInv, CmTypes
<1>2. events'[t] = Append(events[t], e) /\ \A s \in Sides : s # t => events'[s] = events[s] BY <1>1
<1>3. \A s \in Sides : Unique(events[s]) BY DEF CmInv, Sides
<1>4. events[t] \in Seq(EventSet) BY <1>1
<1>5. Unique(Append(events[t], e)) /\ \A f : Has(Append(events[t], e), f) => Has(events[t], f) \/ f = e
  BY <1>3, <1>4, AppendTells
<1> QED BY <1>2, <1>3, <1>5

LEMMA EventsDiffer ==
  ASSUME NEW k, NEW l, NEW i, NEW j, Event(k, i) = Event(l, j)
  PROVE  k = l /\ i = j
<1>1. Event(k, i).kind = Event(l, j).kind /\ Event(k, i).id = Event(l, j).id OBVIOUS
<1> QED BY <1>1 DEF Event

LEMMA KernelKept ==
  ASSUME CmInv, opt' = opt, CmTypes', NEW i \in Ids, ResolutionEnds(i) \/ RequestArrives(i)
  PROVE  CmInv'
<1> USE BothSides
<1>0. Num' = Num /\ Qps' = Qps /\ "client" # "server" BY DEF Num, Qps
<1>1. UNCHANGED <<cmPc, connectsLeft, connIndex, qp>> BY DEF ResolutionEnds, RequestArrives
<1>2. PICK t \in Sides, k \in EventKinds, l \in LinkStates :
         /\ link' = [link EXCEPT ![i] = l]
         /\ events' = [events EXCEPT ![t] = Append(events[t], Event(k, i))]
         /\ \/ link[i] = "addr" /\ l = "addr_resolved" /\ k = "addr_resolved" /\ t = "client"
            \/ link[i] = "route" /\ l = "route_resolved" /\ k = "route_resolved" /\ t = "client"
            \/ link[i] \in {"addr", "route"} /\ l = "error" /\ k \notin Single /\ t = "client"
            \/ link[i] = "request" /\ l = "offered" /\ k = "connect_request" /\ t = "server"
            \/ link[i] = "request" /\ l = "refused" /\ k \notin Single /\ t = "client"
  <2>1. CASE ResolutionEnds(i)
    <3>1. link[i] \in {"addr", "route"} BY <2>1 DEF ResolutionEnds, Resolved
    <3>2. /\ Resolved["addr"] = "addr_resolved" /\ Resolved["route"] = "route_resolved"
          /\ Unresolved["addr"] = "addr_error" /\ Unresolved["route"] = "route_error"
      BY DEF Resolved, Unresolved
    <3>3. {"addr_resolved", "route_resolved", "addr_error", "route_error"} \subseteq EventKinds
      BY DEF EventKinds, Single
    <3>4. {"addr_resolved", "route_resolved", "error"} \subseteq LinkStates BY DEF LinkStates
    <3>5. "addr_error" \notin Single /\ "route_error" \notin Single BY DEF Single
    <3>6. CASE link[i] = "addr" BY <2>1, <3>6, <3>2, <3>3, <3>4, <3>5 DEF ResolutionEnds
    <3>7. CASE link[i] = "route" BY <2>1, <3>7, <3>2, <3>3, <3>4, <3>5 DEF ResolutionEnds
    <3> QED BY <3>1, <3>6, <3>7
  <2>2. CASE RequestArrives(i)
    <3>1. "connect_request" \in EventKinds /\ "rejected" \in EventKinds \ Single BY DEF EventKinds, Single
    <3>2. "offered" \in LinkStates /\ "refused" \in LinkStates BY DEF LinkStates
    <3> QED BY <2>2, <3>1, <3>2 DEF RequestArrives
  <2> QED BY <2>1, <2>2
<1>3. \A j \in Ids : link'[j] = IF j = i THEN l ELSE link[j] BY <1>2 DEF CmInv, CmTypes
<1>4. LinkInv(i) /\ Event(k, i) \in EventSet /\ Event(k, i).kind = k BY EventTypes DEF CmInv, Event
<1>5. k \in Single => ~Has(events[t], Event(k, i)) BY <1>2, <1>4 DEF LinkInv, Single
<1>6. /\ \A s \in Sides : Unique(events'[s])
      /\ \A f : Has(events'[t], f) => Has(events[t], f) \/ f = Event(k, i)
      /\ \A s \in Sides : s # t => events'[s] = events[s]
  BY <1>2, <1>4, <1>5, Telling
<1>7. ASSUME NEW s \in Sides, NEW m, NEW j, Has(events'[s], Event(m, j))
      PROVE  Has(events[s], Event(m, j)) \/ (s = t /\ m = k /\ j = i)
  <2>1. CASE s = t
    <3>1. Has(events[t], Event(m, j)) \/ Event(m, j) = Event(k, i) BY <1>6, <1>7, <2>1
    <3> QED BY <2>1, <3>1, EventsDiffer
  <2>2. CASE s # t BY <2>2, <1>6, <1>7
  <2> QED BY <2>1, <2>2
<1>8. ASSUME NEW j \in Ids PROVE LinkInv(j)'
  <2>1. LinkInv(j) BY DEF CmInv
  <2>2. link'[j] # "new" => j \in Qps
    <3>1. CASE j = i BY <3>1, <1>2, <2>1 DEF LinkInv
    <3>2. CASE j # i BY <3>2, <1>3, <2>1 DEF LinkInv
    <3> QED BY <3>1, <3>2
  <2>3. CASE j # i
    <3>1. link'[j] = link[j] BY <2>3, <1>3
    <3>2. \A s \in Sides : \A m : Has(events'[s], Event(m, j)) => Has(events[s], Event(m, j)) BY <2>3, <1>7
    <3>3. /\ Has(events'["client"], Event("addr_resolved", j)) => link'[j] = "addr_resolved"
          /\ Has(events'["client"], Event("route_resolved", j)) => link'[j] = "route_resolved"
          /\ Has(events'["client"], Event("established", j)) => link'[j] \in Met
          /\ Has(events'["server"], Event("connect_request", j)) => link'[j] \in {"offered", "refused"}
      BY <2>1, <3>1, <3>2 DEF LinkInv
    <3> QED BY <2>2, <3>3, <1>0 DEF LinkInv, Has, Event, Met
  <2>4. CASE j = i
    <3>1. link'[i] = l BY <1>3
    <3>2. /\ Has(events'["client"], Event("addr_resolved", i)) => link'[i] = "addr_resolved"
          /\ Has(events'["client"], Event("route_resolved", i)) => link'[i] = "route_resolved"
          /\ Has(events'["client"], Event("established", i)) => link'[i] \in Met
          /\ Has(events'["server"], Event("connect_request", i)) => link'[i] \in {"offered", "refused"}
      BY <1>2, <1>4, <1>7, <3>1 DEF LinkInv, Met, Single
    <3> QED BY <2>2, <2>4, <3>2, <1>0 DEF LinkInv, Has, Event, Met
  <2> QED BY <2>3, <2>4
<1>9. \A j \in Ids : (link[j] \in Requested <=> link'[j] \in Requested) /\ (link[j] \in Met => link'[j] \in Met)
  BY <1>2, <1>3 DEF Requested, Met
<1>10. Qps \subseteq Ids BY QpsAre DEF CmInv
<1>11. ClientTable'
  <2>1. ClientTable BY DEF CmInv
  <2>2. \A j \in Ids : IF j < connIndex["client"]
                       THEN qp["client"][j] \in Qps /\ link'[qp["client"][j]] \in Requested
                       ELSE qp["client"][j] = None
    BY <2>1, <1>9, <1>10 DEF ClientTable
  <2>3. \A j \in Ids : link'[j] \in Requested => \E n \in Ids : qp["client"][n] = j
    BY <2>1, <1>9 DEF ClientTable
  <2> QED BY <2>1, <2>2, <2>3, <1>0, <1>1 DEF ClientTable, Requested
<1>12. ServerTable'
  <2>1. ServerTable BY DEF CmInv
  <2>2. \A j \in Ids : qp["server"][j] # None => qp["server"][j] \in Qps /\ link'[qp["server"][j]] \in Met
    BY <2>1, <1>9, <1>10 DEF ServerTable
  <2> QED BY <2>1, <2>2, <1>0, <1>1 DEF ServerTable, Met
<1>13. ServerCount' BY <1>0, <1>1 DEF CmInv, ServerCount
<1>14. cmPc["client"] \notin Before BY <1>2 DEF CmInv
<1> QED BY <1>1, <1>6, <1>8, <1>11, <1>12, <1>13, <1>14 DEF CmInv, Unique, Single, Before

LEMMA ResolveKept ==
  ASSUME CmInv, opt' = opt, CmTypes', ClientResolve
  PROVE  CmInv'
<1> USE BothSides
<1>0. Num' = Num /\ Qps' = Qps BY DEF Num, Qps
<1>1. UNCHANGED <<connIndex, events, qp>> /\ cmPc["client"] = "synced" BY DEF ClientResolve
<1>2. cmPc'["server"] = cmPc["server"] /\ cmPc'["client"] \notin Before
  BY DEF ClientResolve, Leave, CmInv, CmTypes, Before
<1>3. connectsLeft'["server"] = connectsLeft["server"] BY DEF ClientResolve, ConnectError, CmInv, CmTypes
<1>4. \A i \in Ids : link[i] = "new" BY <1>1 DEF CmInv, Before
<1>5. \A i \in Ids : link'[i] \in {"new", "addr"} /\ (link'[i] = "addr" => i \in Qps)
  <2>1. CASE link' = [i \in Ids |-> IF i \in Qps THEN "addr" ELSE "new"] BY <2>1
  <2>2. ASSUME NEW n \in Qps, link' = [i \in Ids |-> IF i < n THEN "addr" ELSE "new"]
        PROVE  \A i \in Ids : link'[i] \in {"new", "addr"} /\ (link'[i] = "addr" => i \in Qps)
    <3>1. \A i \in Ids : i < n => i \in Qps
      <4>1. Qps = 0..(Num - 1) /\ Num \in Nat BY QpsAre DEF CmInv
      <4>2. Ids \subseteq Nat BY OptionsAssumption DEF Ids
      <4> QED BY <4>1, <4>2
    <3> QED BY <2>2, <3>1
  <2> QED BY <2>1, <2>2 DEF ClientResolve
<1>6. ASSUME NEW i \in Ids PROVE LinkInv(i)'
  <2>1. LinkInv(i) BY DEF CmInv
  <2>2. /\ ~Has(events["client"], Event("addr_resolved", i)) /\ ~Has(events["client"], Event("route_resolved", i))
        /\ ~Has(events["client"], Event("established", i)) /\ ~Has(events["server"], Event("connect_request", i))
    BY <2>1, <1>4 DEF LinkInv, Met
  <2>3. link'[i] # "new" => i \in Qps BY <1>5
  <2> QED BY <2>2, <2>3, <1>0, <1>1 DEF LinkInv, Has, Event
<1>7. ClientTable'
  <2>1. ClientTable /\ Qps \subseteq Ids BY QpsAre DEF CmInv
  <2>2. \A i \in Ids : link[i] \notin Requested /\ link'[i] \notin Requested BY <1>4, <1>5 DEF Requested
  <2>3. \A j \in Ids : IF j < connIndex["client"]
                       THEN qp["client"][j] \in Qps /\ link'[qp["client"][j]] \in Requested
                       ELSE qp["client"][j] = None
    BY <2>1, <2>2 DEF ClientTable
  <2> QED BY <2>1, <2>2, <2>3, <1>0, <1>1 DEF ClientTable, Requested
<1>8. ServerTable'
  <2>1. ServerTable /\ Qps \subseteq Ids BY QpsAre DEF CmInv
  <2>2. \A i \in Ids : link[i] \notin Met BY <1>4 DEF Met
  <2>3. \A j \in Ids : qp["server"][j] # None => qp["server"][j] \in Qps /\ link'[qp["server"][j]] \in Met
    BY <2>1, <2>2 DEF ServerTable
  <2> QED BY <2>1, <2>3, <1>0, <1>1, <1>2 DEF ServerTable, Met
<1>9. ServerCount' BY <1>0, <1>1, <1>2, <1>3 DEF CmInv, ServerCount
<1> QED BY <1>1, <1>2, <1>6, <1>7, <1>8, <1>9 DEF CmInv, Unique, Single, Before

LEMMA AddressKept ==
  ASSUME CmInv, opt' = opt, CmTypes', AddressHandler
  PROVE  CmInv'
<1> USE BothSides
<1>0. Num' = Num /\ Qps' = Qps BY DEF Num, Qps
<1> DEFINE i == EventId("client")
<1>1. /\ events["client"] # <<>> /\ events' = [events EXCEPT !["client"] = Took("client")]
      /\ Head(events["client"]).kind = "addr_resolved" /\ cmPc["client"] = "events"
  BY DEF AddressHandler, Takes
<1>2. UNCHANGED <<connIndex, qp>> BY DEF AddressHandler
<1>3. cmPc'["server"] = cmPc["server"] /\ cmPc'["client"] \notin Before
  BY <1>1 DEF AddressHandler, Leave, CmInv, CmTypes, Before
<1>4. connectsLeft'["server"] = connectsLeft["server"] BY DEF AddressHandler, ConnectError, CmInv, CmTypes
<1>5. /\ \A t \in Sides : Unique(events'[t]) /\ \A e : Has(events'[t], e) => Has(events[t], e)
      /\ i \in Ids /\ Has(events["client"], Event("addr_resolved", i))
      /\ ~Has(events'["client"], Event("addr_resolved", i))
  BY <1>1, TookKept DEF Single
<1>6. CASE link' = link
  <2>1. \A k \in Ids : link'[k] \in {link[k], Closed(k)} BY <1>6
  <2> QED BY <2>1, <1>2, <1>3, <1>4, <1>5, Fading
<1>7. CASE link' = [link EXCEPT ![i] = "route"]
  <2>1. link[i] = "addr_resolved" /\ i \in Qps BY <1>5 DEF CmInv, LinkInv
  <2> HIDE DEF i
  <2>2. \A j \in Ids : link'[j] = IF j = i THEN "route" ELSE link[j] BY <1>7 DEF CmInv, CmTypes
  <2>3. ASSUME NEW j \in Ids PROVE LinkInv(j)'
    <3>1. LinkInv(j) BY DEF CmInv
    <3>2. CASE j = i
      <4>1. LinkInv(i) BY <3>1, <3>2
      <4>2. /\ ~Has(events'["client"], Event("addr_resolved", i)) /\ ~Has(events'["client"], Event("route_resolved", i))
            /\ ~Has(events'["client"], Event("established", i)) /\ ~Has(events'["server"], Event("connect_request", i))
        BY <4>1, <2>1, <1>5 DEF LinkInv, Met
      <4> QED BY <4>2, <3>2, <2>1, <2>2, <1>0 DEF LinkInv, Has, Event
    <3>3. CASE j # i
      <4>1. link'[j] = link[j] BY <3>3, <2>2
      <4>2. /\ Has(events'["client"], Event("addr_resolved", j)) => link'[j] = "addr_resolved"
            /\ Has(events'["client"], Event("route_resolved", j)) => link'[j] = "route_resolved"
            /\ Has(events'["client"], Event("established", j)) => link'[j] \in Met
            /\ Has(events'["server"], Event("connect_request", j)) => link'[j] \in {"offered", "refused"}
        BY <3>1, <4>1, <1>5 DEF LinkInv
      <4>3. link'[j] # "new" => j \in Qps BY <3>1, <4>1 DEF LinkInv
      <4> QED BY <4>2, <4>3, <1>0 DEF LinkInv, Has, Event, Met
    <3> QED BY <3>2, <3>3
  <2>4. \A j \in Ids : (link[j] \in Requested <=> link'[j] \in Requested) /\ (link[j] \in Met => link'[j] \in Met)
    BY <2>1, <2>2 DEF Requested, Met
  <2>5. Qps \subseteq Ids BY QpsAre DEF CmInv
  <2>6. ClientTable'
    <3>1. ClientTable BY DEF CmInv
    <3>2. \A j \in Ids : IF j < connIndex["client"]
                         THEN qp["client"][j] \in Qps /\ link'[qp["client"][j]] \in Requested
                         ELSE qp["client"][j] = None
      BY <3>1, <2>4, <2>5 DEF ClientTable
    <3>3. \A j \in Ids : link'[j] \in Requested => \E n \in Ids : qp["client"][n] = j
      BY <3>1, <2>4 DEF ClientTable
    <3> QED BY <3>1, <3>2, <3>3, <1>0, <1>2 DEF ClientTable, Requested
  <2>7. ServerTable'
    <3>1. ServerTable BY DEF CmInv
    <3>2. \A j \in Ids : qp["server"][j] # None => qp["server"][j] \in Qps /\ link'[qp["server"][j]] \in Met
      BY <3>1, <2>4, <2>5 DEF ServerTable
    <3> QED BY <3>1, <3>2, <1>0, <1>2, <1>3 DEF ServerTable, Met
  <2>8. ServerCount' BY <1>0, <1>2, <1>3, <1>4 DEF CmInv, ServerCount
  <2> QED BY <1>3, <1>5, <2>3, <2>6, <2>7, <2>8 DEF CmInv, Unique, Single, Before
<1> QED BY <1>6, <1>7 DEF AddressHandler

\* The client has a free index for an identifier that is still to request.
LEMMA FreeIndex ==
  ASSUME CmInv, NEW i \in Qps, link[i] \notin Requested
  PROVE  connIndex["client"] < Num /\ connIndex["client"] \in Ids
<1> DEFINE k == connIndex["client"]
           f == qp["client"]
<1>1. k \in Nat BY DEF CmInv, CmTypes, Sides
<1>2. Num \in Nat /\ Qps = 0..(Num - 1) /\ Qps \subseteq Ids BY QpsAre DEF CmInv
<1>3. ClientTable BY DEF CmInv
<1>4. ASSUME k >= Num PROVE FALSE
  <2>1. \A j \in 0..(Num - 1) : j \in Ids /\ j < k BY <1>1, <1>2, <1>4
  <2>2. \A j \in 0..(Num - 1) : f[j] \in 0..(Num - 1) /\ link[f[j]] \in Requested
    BY <2>1, <1>2, <1>3 DEF ClientTable
  <2>3. \A j \in 0..(Num - 1) : f[j] \in 0..(Num - 1) /\ f[j] # i BY <2>2
  <2>4. i \in 0..(Num - 1) BY <1>2
  <2>5. \E j, l \in 0..(Num - 1) : j # l /\ f[j] = f[l] BY <1>2, <2>3, <2>4, NoRoom
  <2>6. \A j \in 0..(Num - 1) : f[j] # None BY <2>2, OptionsAssumption
  <2> QED BY <2>1, <2>5, <2>6, <1>3 DEF ClientTable
<1>5. k < Num BY <1>1, <1>2, <1>4
<1>6. k \in Qps BY <1>1, <1>2, <1>5
<1> QED BY <1>2, <1>5, <1>6

LEMMA RouteKept ==
  ASSUME CmInv, opt' = opt, CmTypes', RouteHandler
  PROVE  CmInv'
<1> USE BothSides
<1>0. Num' = Num /\ Qps' = Qps /\ "client" # "server" BY DEF Num, Qps
<1> DEFINE i == EventId("client")
           k == connIndex["client"]
<1>1. /\ events["client"] # <<>> /\ events' = [events EXCEPT !["client"] = Took("client")]
      /\ Head(events["client"]).kind = "route_resolved" /\ cmPc["client"] = "events"
  BY DEF RouteHandler, Takes
<1>3. cmPc'["server"] = cmPc["server"] /\ cmPc'["client"] \notin Before
  BY <1>1 DEF RouteHandler, Leave, CmInv, CmTypes, Before
<1>4. connectsLeft'["server"] = connectsLeft["server"] BY DEF RouteHandler, ConnectError, CmInv, CmTypes
<1>5. /\ \A t \in Sides : Unique(events'[t]) /\ \A e : Has(events'[t], e) => Has(events[t], e)
      /\ i \in Ids /\ Has(events["client"], Event("route_resolved", i))
      /\ ~Has(events'["client"], Event("route_resolved", i))
  BY <1>1, TookKept DEF Single
<1>6. CASE UNCHANGED <<qp, link, connIndex>>
  <2>1. \A n \in Ids : link'[n] \in {link[n], Closed(n)} BY <1>6
  <2> QED BY <2>1, <1>6, <1>3, <1>4, <1>5, Fading
<1>7. CASE /\ qp' = [qp EXCEPT !["client"][k] = i]
           /\ link' = [link EXCEPT ![i] = "request"]
           /\ connIndex' = [connIndex EXCEPT !["client"] = k + 1]
  <2>1. link[i] = "route_resolved" /\ i \in Qps BY <1>5 DEF CmInv, LinkInv
  <2>2. k < Num /\ k \in Ids BY <2>1, FreeIndex DEF Requested
  <2> HIDE DEF i
  <2>3. \A j \in Ids : link'[j] = IF j = i THEN "request" ELSE link[j] BY <1>7 DEF CmInv, CmTypes
  <2>4. connIndex'["client"] = k + 1 /\ connIndex'["server"] = connIndex["server"] /\ k \in Nat
    BY <1>7 DEF CmInv, CmTypes
  <2>5. /\ \A j \in Ids : qp'["client"][j] = IF j = k THEN i ELSE qp["client"][j]
        /\ qp'["server"] = qp["server"]
    <3>1. qp \in [Sides -> [Ids -> Ids \cup {None}]] BY DEF CmInv, CmTypes
    <3>2. qp' = [qp EXCEPT !["client"] = [qp["client"] EXCEPT ![k] = i]] BY <1>7
    <3>3. qp'["client"] = [qp["client"] EXCEPT ![k] = i] /\ qp'["server"] = qp["server"] BY <3>1, <3>2, <1>0
    <3> QED BY <3>1, <3>3
  <2>6. ASSUME NEW j \in Ids PROVE LinkInv(j)'
    <3>1. LinkInv(j) BY DEF CmInv
    <3>2. CASE j = i
      <4>1. LinkInv(i) BY <3>1, <3>2
      <4>2. /\ ~Has(events'["client"], Event("addr_resolved", i)) /\ ~Has(events'["client"], Event("route_resolved", i))
            /\ ~Has(events'["client"], Event("established", i)) /\ ~Has(events'["server"], Event("connect_request", i))
        BY <4>1, <2>1, <1>5 DEF LinkInv, Met
      <4> QED BY <4>2, <3>2, <2>1, <2>3, <1>0 DEF LinkInv, Has, Event
    <3>3. CASE j # i
      <4>1. link'[j] = link[j] BY <3>3, <2>3
      <4>2. /\ Has(events'["client"], Event("addr_resolved", j)) => link'[j] = "addr_resolved"
            /\ Has(events'["client"], Event("route_resolved", j)) => link'[j] = "route_resolved"
            /\ Has(events'["client"], Event("established", j)) => link'[j] \in Met
            /\ Has(events'["server"], Event("connect_request", j)) => link'[j] \in {"offered", "refused"}
        BY <3>1, <4>1, <1>5 DEF LinkInv
      <4>3. link'[j] # "new" => j \in Qps BY <3>1, <4>1 DEF LinkInv
      <4> QED BY <4>2, <4>3, <1>0 DEF LinkInv, Has, Event, Met
    <3> QED BY <3>2, <3>3
  <2>7. Qps \subseteq Ids /\ Ids \subseteq Nat BY QpsAre, OptionsAssumption DEF CmInv, Ids
  <2>8. /\ \A j \in Ids : link[j] \in Requested => link'[j] \in Requested
        /\ \A j \in Ids : link[j] \in Met => link'[j] \in Met
        /\ \A j \in Ids : link'[j] \in Requested => link[j] \in Requested \/ j = i
        /\ link[i] \notin Requested /\ link'[i] \in Requested
    BY <1>5, <2>1, <2>3 DEF Requested, Met
  <2>9. ClientTable'
    <3>1. ClientTable BY DEF CmInv
    <3>2. ASSUME NEW j \in Ids
          PROVE  IF j < k + 1 THEN qp'["client"][j] \in Qps /\ link'[qp'["client"][j]] \in Requested
                 ELSE qp'["client"][j] = None
      <4>1. CASE j = k
        <5>1. k < k + 1 /\ qp'["client"][j] = i BY <4>1, <2>4, <2>5
        <5> QED BY <4>1, <5>1, <2>1, <2>8
      <4>2. CASE j < k
        <5>1. j < k + 1 /\ qp'["client"][j] = qp["client"][j] BY <4>2, <2>4, <2>5, <2>7
        <5>2. qp["client"][j] \in Qps /\ link[qp["client"][j]] \in Requested BY <4>2, <3>1 DEF ClientTable
        <5> QED BY <5>1, <5>2, <2>7, <2>8
      <4>3. CASE j > k
        <5>1. ~(j < k + 1) /\ ~(j < k) /\ qp'["client"][j] = qp["client"][j] BY <4>3, <2>4, <2>5, <2>7
        <5> QED BY <5>1, <3>1 DEF ClientTable
      <4> QED BY <4>1, <4>2, <4>3, <2>4, <2>7
    <3>3. \A j \in Ids : qp["client"][j] # i
      <4> SUFFICES ASSUME NEW j \in Ids, qp["client"][j] = i PROVE FALSE OBVIOUS
      <4>1. i # None BY <2>1, <2>7, OptionsAssumption
      <4> QED BY <4>1, <3>1, <2>8 DEF ClientTable
    <3>4. \A j, l \in Ids : j # l /\ qp'["client"][j] # None => qp'["client"][j] # qp'["client"][l]
      BY <3>1, <3>3, <2>5 DEF ClientTable
    <3>5. \A j \in Ids : link'[j] \in Requested => \E n \in Ids : qp'["client"][n] = j
      <4> SUFFICES ASSUME NEW j \in Ids, link'[j] \in Requested PROVE \E n \in Ids : qp'["client"][n] = j OBVIOUS
      <4>1. CASE j = i BY <4>1, <2>2, <2>5
      <4>2. CASE link[j] \in Requested /\ j # i
        <5>1. PICK n \in Ids : qp["client"][n] = j BY <4>2, <3>1 DEF ClientTable
        <5>2. n # k
          <6>1. qp["client"][k] = None
            <7>1. ~(k < k) BY <2>4
            <7> QED BY <7>1, <2>2, <3>1 DEF ClientTable
          <6> QED BY <5>1, <6>1, <2>7, OptionsAssumption
        <5> QED BY <5>1, <5>2, <2>5
      <4> QED BY <4>1, <4>2, <2>8
    <3> QED BY <3>2, <3>4, <3>5, <2>4, <1>0 DEF ClientTable, Requested
  <2>10. ServerTable'
    <3>1. ServerTable BY DEF CmInv
    <3>2. \A j \in Ids : qp["server"][j] # None => qp["server"][j] \in Qps /\ link'[qp["server"][j]] \in Met
      BY <3>1, <2>7, <2>8 DEF ServerTable
    <3> QED BY <3>1, <3>2, <1>0, <2>4, <2>5, <1>3 DEF ServerTable, Met
  <2>11. ServerCount' BY <1>0, <2>4, <1>3, <1>4 DEF CmInv, ServerCount
  <2> QED BY <1>3, <1>5, <2>6, <2>9, <2>10, <2>11 DEF CmInv, Unique, Single, Before
<1> QED BY <1>6, <1>7 DEF RouteHandler

LEMMA ClientKept ==
  ASSUME CmInv, opt' = opt, CmTypes', ClientStep
  PROVE  CmInv'
<1> USE BothSides
<1>0. "client" # "server" OBVIOUS
<1>1. CASE EstablishedHandler \/ EventErrorHandler
  <2>1. /\ events["client"] # <<>> /\ events' = [events EXCEPT !["client"] = Took("client")]
        /\ cmPc["client"] = "events" /\ UNCHANGED <<connIndex, qp, link>>
    BY <1>1 DEF EstablishedHandler, EventErrorHandler, Takes
  <2>2. cmPc'["server"] = cmPc["server"] /\ cmPc'["client"] \notin Before
    BY <1>1, <2>1 DEF EstablishedHandler, EventErrorHandler, Leave, CmInv, CmTypes, Before
  <2>3. connectsLeft'["server"] = connectsLeft["server"]
    <3>1. connectsLeft' = connectsLeft \/ connectsLeft' = [connectsLeft EXCEPT !["client"] = @ - 1]
      BY <1>1 DEF EstablishedHandler, EventErrorHandler, ConnectError
    <3> QED BY <3>1 DEF CmInv, CmTypes
  <2>4. \A t \in Sides : Unique(events'[t]) /\ \A e : Has(events'[t], e) => Has(events[t], e) BY <2>1, TookKept
  <2>5. \A n \in Ids : link'[n] \in {link[n], Closed(n)} BY <2>1
  <2> QED BY <2>1, <2>2, <2>3, <2>4, <2>5, Fading
<1>2. CASE ClientRetries
  <2>1. /\ link' = [i \in Ids |-> Closed(i)] /\ UNCHANGED <<connIndex, qp, connectsLeft>>
        /\ events' = [client |-> <<>>, server |-> events["server"] \o PartOpen]
    BY <1>2 DEF ClientRetries
  <2>2. events'["client"] = <<>> /\ events'["server"] = events["server"] \o PartOpen BY <2>1
  <2>3. \A t \in Sides : Unique(events'[t]) /\ \A e : e.kind \in Single /\ Has(events'[t], e) => Has(events[t], e)
    BY <2>2, PartsTell DEF Sides
  <2>4. cmPc'["server"] = cmPc["server"] /\ cmPc'["client"] \notin Before
    BY <1>2 DEF ClientRetries, Leave, CmInv, CmTypes, Before
  <2>5. \A n \in Ids : link'[n] \in {link[n], Closed(n)} BY <2>1
  <2> QED BY <2>1, <2>3, <2>4, <2>5, Fading
<1> QED BY <1>1, <1>2, ResolveKept, AddressKept, RouteKept DEF ClientStep

LEMMA AcceptKept ==
  ASSUME CmInv, opt' = opt, CmTypes', RequestHandler
  PROVE  CmInv'
<1> USE BothSides
<1>0. Num' = Num /\ Qps' = Qps /\ "client" # "server" BY DEF Num, Qps
<1> DEFINE i == EventId("server")
           k == connIndex["server"]
<1>1. /\ events["server"] # <<>> /\ Head(events["server"]).kind = "connect_request"
      /\ cmPc["server"] = "events" /\ connectsLeft["server"] # 0
  BY DEF RequestHandler, Takes
<1>2. CASE ServerFails /\ UNCHANGED <<node, qpOfId, qp, connIndex, datagrams>> BY <1>2, FailsKept
<1>3. ASSUME /\ qp' = [qp EXCEPT !["server"][k] = i]
             /\ link' = [link EXCEPT ![i] = "up"]
             /\ events' = [client |-> Append(events["client"], Event("established", i)),
                           server |-> Took("server")]
             /\ IF NeedsReply
                THEN /\ Leave("server", "ud_wait")
                     /\ node' = [node EXCEPT !["server"][k].cma_id = i]
                     /\ UNCHANGED <<connIndex, connectsLeft>>
                ELSE Connected(k, i, None) /\ UNCHANGED cmPc
      PROVE  CmInv'
  <2>1. /\ i \in Ids /\ Has(events["server"], Event("connect_request", i))
        /\ Unique(Tail(events["server"])) /\ \A e : Has(Tail(events["server"]), e) => Has(events["server"], e)
        /\ ~Has(Tail(events["server"]), Event("connect_request", i))
    <3>1. events["server"] \in Seq(EventSet) /\ Unique(events["server"]) BY DEF CmInv, CmTypes
    <3>2. Head(events["server"]) = Event("connect_request", i) /\ Has(events["server"], Head(events["server"]))
      BY <1>1, <3>1, HeadIs DEF EventId
    <3>3. "connect_request" \in Single BY DEF Single
    <3>4. i \in Ids BY <1>1, TookTypes DEF CmInv
    <3> HIDE DEF i
    <3> QED BY <1>1, <3>1, <3>2, <3>3, <3>4, TailTells
  <2>2. link[i] \in {"offered", "refused"} /\ i \in Qps /\ LinkInv(i) BY <2>1 DEF CmInv, LinkInv
  <2> HIDE DEF i
  <2>3. k < Num /\ k \in Ids /\ k \in Nat /\ connectsLeft["server"] + k = Num
    <3>1. k \in Nat /\ connectsLeft["server"] \in Int BY DEF CmInv, CmTypes
    <3>2. connectsLeft["server"] + k = Num BY <1>1 DEF CmInv, ServerCount
    <3>3. k <= Num BY DEF CmInv, ServerTable
    <3>4. Num \in Nat /\ Qps = 0..(Num - 1) /\ Qps \subseteq Ids BY QpsAre DEF CmInv
    <3>5. k < Num BY <3>1, <3>2, <3>3, <3>4, <1>1
    <3>6. k \in Qps BY <3>1, <3>4, <3>5
    <3> QED BY <3>1, <3>2, <3>4, <3>5, <3>6
  <2>4. \A j \in Ids : link'[j] = IF j = i THEN "up" ELSE link[j] BY <1>3 DEF CmInv, CmTypes
  <2>5. /\ \A j \in Ids : qp'["server"][j] = IF j = k THEN i ELSE qp["server"][j]
        /\ qp'["client"] = qp["client"]
    <3>1. qp \in [Sides -> [Ids -> Ids \cup {None}]] BY DEF CmInv, CmTypes
    <3>2. qp' = [qp EXCEPT !["server"] = [qp["server"] EXCEPT ![k] = i]] BY <1>3
    <3>3. qp'["server"] = [qp["server"] EXCEPT ![k] = i] /\ qp'["client"] = qp["client"] BY <3>1, <3>2, <1>0
    <3> QED BY <3>1, <3>3
  <2>6. /\ connIndex'["client"] = connIndex["client"]
        /\ cmPc'["client"] = cmPc["client"]
        /\ \/ /\ cmPc'["server"] = "ud_wait" /\ connIndex'["server"] = k
              /\ connectsLeft'["server"] = connectsLeft["server"]
           \/ /\ cmPc'["server"] = "events" /\ connIndex'["server"] = k + 1
              /\ connectsLeft'["server"] = connectsLeft["server"] - 1
    <3>1. CASE NeedsReply
      <4>1. "ud_wait" \in CmPlaces BY DEF CmPlaces, Accepting
      <4> QED BY <1>3, <3>1, <4>1, <1>0, LeaveTypes DEF CmInv
    <3>2. CASE ~NeedsReply
      <4>1. Connected(connIndex["server"], i, None) /\ cmPc' = cmPc BY <1>3, <3>2
      <4> QED BY <1>1, <2>1, <4>1, ConnectedTypes DEF CmInv
    <3> QED BY <3>1, <3>2
  <2>7. /\ events'["client"] = Append(events["client"], Event("established", i))
        /\ events'["server"] = Tail(events["server"])
    BY <1>3 DEF Took
  <2>8. /\ Unique(events'["client"]) /\ Unique(events'["server"])
        /\ \A e : Has(events'["client"], e) => Has(events["client"], e) \/ e = Event("established", i)
    <3>1. events["client"] \in Seq(EventSet) /\ Unique(events["client"]) BY DEF CmInv, CmTypes
    <3>2. "established" \in EventKinds BY DEF EventKinds, Single
    <3>3. Event("established", i) \in EventSet BY <2>1, <3>2, EventTypes DEF CmInv
    <3>4. ~Has(events["client"], Event("established", i)) BY <2>2 DEF LinkInv, Met
    <3> QED BY <2>1, <2>7, <3>1, <3>3, <3>4, AppendTells
  <2>9. ASSUME NEW j \in Ids PROVE LinkInv(j)'
    <3>1. LinkInv(j) BY DEF CmInv
    <3>2. link'[j] # "new" => j \in Qps
      <4>1. CASE j = i BY <4>1, <2>2
      <4>2. CASE j # i BY <4>2, <2>4, <3>1 DEF LinkInv
      <4> QED BY <4>1, <4>2
    <3>3. ASSUME NEW m, Has(events'["client"], Event(m, j))
          PROVE  Has(events["client"], Event(m, j)) \/ (m = "established" /\ j = i)
      <4>1. Has(events["client"], Event(m, j)) \/ Event(m, j) = Event("established", i) BY <2>8, <3>3
      <4> QED BY <4>1, EventsDiffer
    <3>4. /\ Has(events'["client"], Event("addr_resolved", j)) => link'[j] = "addr_resolved"
          /\ Has(events'["client"], Event("route_resolved", j)) => link'[j] = "route_resolved"
          /\ Has(events'["client"], Event("established", j)) => link'[j] \in Met
      BY <2>2, <2>4, <3>1, <3>3 DEF LinkInv, Met
    <3>5. Has(events'["server"], Event("connect_request", j)) => link'[j] \in {"offered", "refused"}
      BY <2>1, <2>4, <2>7, <3>1 DEF LinkInv
    <3> QED BY <3>2, <3>4, <3>5, <1>0 DEF LinkInv, Has, Event, Met
  <2>10. Qps \subseteq Ids /\ Ids \subseteq Nat BY QpsAre, OptionsAssumption DEF CmInv, Ids
  <2>11. /\ \A j \in Ids : link[j] \in Requested <=> link'[j] \in Requested
         /\ \A j \in Ids : link[j] \in Met => link'[j] \in Met
         /\ link[i] \notin Met /\ link'[i] \in Met
    BY <2>1, <2>2, <2>4 DEF Requested, Met
  <2>12. ClientTable'
    <3>1. ClientTable BY DEF CmInv
    <3>2. \A j \in Ids : IF j < connIndex["client"]
                         THEN qp["client"][j] \in Qps /\ link'[qp["client"][j]] \in Requested
                         ELSE qp["client"][j] = None
      BY <3>1, <2>10, <2>11 DEF ClientTable
    <3>3. \A j \in Ids : link'[j] \in Requested => \E n \in Ids : qp["client"][n] = j
      BY <3>1, <2>11 DEF ClientTable
    <3> QED BY <3>1, <3>2, <3>3, <2>5, <2>6, <1>0 DEF ClientTable, Requested
  <2>13. ServerTable'
    <3>1. ServerTable BY DEF CmInv
    <3>2. i # None BY <2>1, <2>10, OptionsAssumption
    <3>3. \A j \in Ids : qp'["server"][j] # None => qp'["server"][j] \in Qps /\ link'[qp'["server"][j]] \in Met
      BY <3>1, <2>2, <2>5, <2>10, <2>11 DEF ServerTable
    <3>4. \A j \in Ids : qp["server"][j] # i BY <3>1, <3>2, <2>11 DEF ServerTable
    <3>5. \A j, l \in Ids : j # l /\ qp'["server"][j] # None => qp'["server"][j] # qp'["server"][l]
      BY <3>1, <3>4, <2>5 DEF ServerTable
    <3>6. \A j \in Ids : j < k => qp'["server"][j] # None BY <3>1, <3>2, <2>5 DEF ServerTable
    <3>7. qp'["server"][k] # None BY <3>2, <2>3, <2>5
    <3>8. \A j \in Ids : j < connIndex'["server"] => qp'["server"][j] # None
      <4>1. \A j \in Ids : j < k + 1 => j < k \/ j = k BY <2>3, <2>10
      <4> QED BY <4>1, <3>6, <3>7, <2>6
    <3>9. connIndex'["server"] <= Num BY <2>3, <2>6, QpsAre DEF CmInv
    <3>10. cmPc'["server"] = "ud_wait" =>
             connIndex'["server"] < Num /\ qp'["server"][connIndex'["server"]] # None
      BY <3>7, <2>3, <2>6
    <3> QED BY <3>3, <3>5, <3>8, <3>9, <3>10, <1>0 DEF ServerTable, Met
  <2>14. ServerCount'
    <3>1. connectsLeft["server"] \in Int /\ Num \in Int
      <4>1. connectsLeft["server"] \in Int BY DEF CmInv, CmTypes
      <4> QED BY <4>1, QpsAre DEF CmInv
    <3>2. connectsLeft'["server"] + connIndex'["server"] = Num BY <2>3, <2>6, <3>1
    <3> QED BY <3>2, <2>6, <1>0 DEF ServerCount
  <2>15. cmPc["client"] \notin Before BY <2>1, <2>2 DEF CmInv
  <2> QED BY <2>6, <2>8, <2>9, <2>12, <2>13, <2>14, <2>15 DEF CmInv, Unique, Single, Before
<1> QED BY <1>2, <1>3 DEF RequestHandler

LEMMA ServerKept ==
  ASSUME CmInv, opt' = opt, CmTypes', ServerStep
  PROVE  CmInv'
<1> USE BothSides
<1>0. Num' = Num /\ Qps' = Qps /\ "client" # "server" BY DEF Num, Qps
<1>1. CASE ServerListen
  <2>1. UNCHANGED <<connectsLeft, connIndex, qp, link, events>> BY <1>1 DEF ServerListen
  <2>2. /\ cmPc["server"] = "synced" /\ cmPc'["client"] = cmPc["client"] /\ cmPc'["server"] \in {"events", "failed"}
    BY <1>1 DEF ServerListen, Leave, CmInv, CmTypes
  <2>3. cmPc'["server"] # "ud_wait" /\ ServerCount' BY <2>1, <2>2, <1>0 DEF CmInv, ServerCount
  <2>4. cmPc'["client"] \in Before => cmPc["client"] \in Before /\ events'["client"] = <<>>
    BY <2>1, <2>2 DEF CmInv
  <2>5. \A i \in Ids : link'[i] \in {link[i], Closed(i)} BY <2>1
  <2>6. \A t \in Sides : Unique(events'[t]) /\ \A e : Has(events'[t], e) => Has(events[t], e)
    BY <2>1 DEF CmInv, Sides
  <2> QED BY <2>1, <2>3, <2>4, <2>5, <2>6, Fading
<1>2. CASE UdReply
  <2> DEFINE k == connIndex["server"]
  <2>1. cmPc["server"] = "ud_wait" BY <1>2 DEF UdReply
  <2>2. CASE ServerFails /\ UNCHANGED <<node, connIndex, qpOfId, qp>> BY <2>2, FailsKept
  <2>3. ASSUME Connected(k, node["server"][k].cma_id, Head(datagrams).imm), Leave("server", "events"),
               UNCHANGED <<disconnectsLeft, link, events, qpOfId, qp>>
        PROVE  CmInv'
    <3>1. /\ connIndex'["client"] = connIndex["client"] /\ connIndex'["server"] = k + 1
          /\ connectsLeft'["server"] = connectsLeft["server"] - 1
      BY <2>3 DEF Connected, CmInv, CmTypes
    <3>2. cmPc'["server"] = "events" /\ cmPc'["client"] = cmPc["client"] BY <2>3 DEF Leave, CmInv, CmTypes
    <3>3. k \in Nat /\ Num \in Int /\ connectsLeft["server"] \in Int /\ Ids \subseteq Nat
      <4>1. k \in Nat /\ connectsLeft["server"] \in Int BY DEF CmInv, CmTypes
      <4>2. Num \in Int BY QpsAre DEF CmInv
      <4>3. Ids \subseteq Nat BY OptionsAssumption DEF Ids
      <4> QED BY <4>1, <4>2, <4>3
    <3>4. connectsLeft["server"] + k = Num BY <2>1 DEF CmInv, ServerCount
    <3>5. ServerCount' BY <3>1, <3>2, <3>3, <3>4, <1>0 DEF ServerCount
    <3>6. ServerTable'
      <4>1. ServerTable BY DEF CmInv
      <4>2. k < Num /\ qp["server"][k] # None BY <2>1, <4>1 DEF ServerTable
      <4>3. k + 1 <= Num BY <3>3, <4>2
      <4>4. \A j \in Ids : j < k + 1 => j < k \/ j = k BY <3>3
      <4>5. \A j \in Ids : j < k + 1 => qp["server"][j] # None BY <4>1, <4>2, <4>4 DEF ServerTable
      <4> QED BY <4>1, <4>3, <4>5, <3>1, <3>2, <2>3, <1>0 DEF ServerTable, Met
    <3>7. ClientTable' BY <2>3, <3>1, <1>0 DEF CmInv, ClientTable, Requested
    <3>8. \A i \in Ids : LinkInv(i)' BY <2>3, <1>0 DEF CmInv, LinkInv, Has, Event, Met
    <3> QED BY <2>3, <3>2, <3>5, <3>6, <3>7, <3>8 DEF CmInv, Unique, Single, Before
  <2> QED BY <1>2, <2>2, <2>3 DEF UdReply
<1> QED BY <1>1, <1>2, AcceptKept DEF ServerStep

\* The connections stand as they are told, whatever either side does.
LEMMA CmKept == ASSUME CmInv, opt' = opt, CmMove PROVE CmInv'
<1>0. CmTypes' BY TypesKept DEF CmInv
<1>1. CASE Kernel BY <1>0, <1>1, KernelKept DEF Kernel
<1>2. CASE DatagramLost
  <2>1. UNCHANGED <<cmPc, connectsLeft, connIndex, qp, link, events>> BY <1>2 DEF DatagramLost
  <2>2. \A i \in Ids : link'[i] \in {link[i], Closed(i)} BY <2>1
  <2>3. \A t \in Sides : Unique(events'[t]) /\ \A e : Has(events'[t], e) => Has(events[t], e)
    BY <2>1 DEF CmInv, Sides
  <2>4. cmPc'["client"] \in Before => cmPc["client"] \in Before /\ events'["client"] = <<>> BY <2>1 DEF CmInv
  <2> QED BY <1>0, <2>1, <2>2, <2>3, <2>4, Fading
<1>3. CASE ClientStep BY <1>0, <1>3, ClientKept
<1>4. CASE ServerStep BY <1>0, <1>4, ServerKept
<1>5. ASSUME NEW s \in Sides,
             \/ Allocate(s) \/ Enters(s) \/ DisconnectHandler(s) \/ EventsEnd(s) \/ Leaves(s)
             \/ Disconnect(s) \/ DisconnectsEnd(s) \/ Destroy(s) \/ Vanish(s)
      PROVE  CmInv'
  BY <1>0, <1>5, OwnKept
<1> QED BY <1>1, <1>2, <1>3, <1>4, <1>5 DEF CmMove

LEMMA CmStill == ASSUME CmInv, opt' = opt, UNCHANGED cmVars PROVE CmInv'
<1>0. Num' = Num /\ Qps' = Qps BY DEF Num, Qps
<1>1. UNCHANGED <<cmPc, connectsLeft, disconnectsLeft, connIndex, node, qpOfId, qp, link, events, datagrams>> BY DEF cmVars
<1>2. CmTypes' BY <1>0, <1>1 DEF CmInv, CmTypes
<1>3. \A i \in Ids : link'[i] \in {link[i], Closed(i)} BY <1>1
<1>4. \A t \in Sides : Unique(events'[t]) /\ \A e : Has(events'[t], e) => Has(events[t], e)
  BY <1>1 DEF CmInv, Sides
<1>5. cmPc'["client"] \in Before => cmPc["client"] \in Before /\ events'["client"] = <<>> BY <1>1 DEF CmInv
<1> QED BY <1>1, <1>2, <1>3, <1>4, <1>5, Fading

\* Before anything happens.
LEMMA CmStarts == ASSUME Init PROVE CmInv
<1> USE BothSides
<1>1. CmInit /\ opt \in Parameters
  <2>1. PICK test \in Tests : opt \in Options(test) BY DEF Init
  <2> QED BY <2>1, TestsAssumption DEF Init
<1>2. opt.num_of_qps \in 1..MaxQps /\ Num = opt.num_of_qps BY <1>1 DEF Parameters, Num
<1>3. /\ connIndex["client"] = 0 /\ connIndex["server"] = 0 /\ \A s \in Sides : events[s] = <<>> /\ cmPc[s] = "idle"
      /\ \A s \in Sides, i \in Ids : qp[s][i] = None
      /\ \A i \in Ids : link[i] = "new"
      /\ datagrams = <<>>
  BY <1>1 DEF CmInit
<1>4. Ids \subseteq Nat /\ None \notin Ids BY OptionsAssumption DEF Ids
<1>5. CmTypes
  <2>1. cmPc \in [Sides -> CmPlaces] BY <1>1 DEF CmInit, CmPlaces, Before
  <2>2. link \in [Ids -> LinkStates] BY <1>1 DEF CmInit, LinkStates
  <2>3. node \in [Sides -> [Ids -> Nodes]] BY <1>1 DEF CmInit, NoNode, Nodes
  <2>4. <<>> \in Seq(EventSet) /\ <<>> \in Seq(Letters) OBVIOUS
  <2>5. connIndex \in [Sides -> Nat] /\ connectsLeft \in [Sides -> Int] /\ disconnectsLeft \in [Sides -> Int]
    BY <1>1 DEF CmInit
  <2>6. qp \in [Sides -> [Ids -> Ids \cup {None}]] /\ qpOfId \in [Sides -> SUBSET Ids] BY <1>1 DEF CmInit
  <2>7. events \in [Sides -> Seq(EventSet)] /\ datagrams \in Seq(Letters) BY <1>1, <2>4 DEF CmInit
  <2> QED BY <1>2, <2>1, <2>2, <2>3, <2>5, <2>6, <2>7 DEF CmTypes
<1>6. Unique(<<>>) /\ \A e : ~Has(<<>>, e) BY DEF Unique, Has
<1>7. \A i \in Ids : LinkInv(i) BY <1>3, <1>6 DEF LinkInv
<1>8. ClientTable
  <2>1. \A j \in Ids : ~(j < 0) BY <1>4
  <2> QED BY <2>1, <1>3 DEF ClientTable, Requested
<1>9. ServerTable
  <2>1. \A j \in Ids : ~(j < 0) BY <1>4
  <2>2. 0 <= Num BY <1>2
  <2> QED BY <2>1, <2>2, <1>3 DEF ServerTable
<1>10. ServerCount BY <1>3 DEF ServerCount
<1> QED BY <1>3, <1>5, <1>6, <1>7, <1>8, <1>9, <1>10 DEF CmInv

\* Every step of the peers is one of those, or leaves the connections alone.
LEMMA CmSteps ==
  ASSUME [Next]_vars
  PROVE  opt' = opt /\ (CmMove \/ UNCHANGED cmVars)
<1> USE DEF cmVars
<1>1. CASE UNCHANGED vars BY <1>1 DEF vars
<1>2. CASE Network
  <2>1. CASE Meet BY <2>1 DEF Meet
  <2>2. CASE CmKernel BY <2>2 DEF CmKernel, CmMove
  <2>3. CASE Wire BY <2>3 DEF Wire
  <2>4. CASE \E s \in Sides, q \in Ids : Device(s, q) BY <2>4 DEF Device
  <2> QED BY <1>2, <2>1, <2>2, <2>3, <2>4 DEF Network
<1>3. ASSUME NEW s \in Sides, Program(s) PROVE opt' = opt /\ (CmMove \/ UNCHANGED cmVars)
  <2>1. CASE Talk(s) BY <2>1 DEF Talk
  <2>2. CASE CmAllocate(s) BY <2>2 DEF CmAllocate, CmMove
  <2>3. CASE CmEnter(s)
    <3>1. Enters(s) BY <2>3 DEF CmEnter, Enters
    <3> QED BY <2>3, <3>1 DEF CmEnter, CmMove
  <2>4. CASE CmHandler(s) BY <2>4 DEF CmHandler, CmMove
  <2>5. CASE CmLeave(s)
    <3>1. Leaves(s) BY <2>5 DEF CmLeave, Leaves
    <3> QED BY <2>5, <3>1 DEF CmLeave, CmMove
  <2>6. CASE Initialize(s) BY <2>6 DEF Initialize
  <2>7. CASE Credit(s) BY <2>7 DEF Credit
  <2>8. CASE Pair(s) BY <2>8 DEF Pair
  <2>9. CASE Ready(s) BY <2>9 DEF Ready
  <2>10. CASE Begin(s) BY <2>10 DEF Begin
  <2>11. CASE Work(s) BY <2>11 DEF Work
  <2>12. CASE Over(s) BY <2>12 DEF Over
  <2>13. CASE Disconnects(s) BY <2>13 DEF Disconnects, CmMove
  <2>14. CASE Destroys(s) BY <2>14 DEF Destroys, CmMove
  <2>15. CASE Ends(s) BY <2>15 DEF Ends
  <2> QED BY <1>3, <2>1, <2>2, <2>3, <2>4, <2>5, <2>6, <2>7, <2>8, <2>9, <2>10, <2>11, <2>12, <2>13, <2>14, <2>15
      DEF Program
<1>4. ASSUME NEW s \in Sides, Crash(s) \/ Interrupt(s) PROVE opt' = opt /\ UNCHANGED cmVars
  BY <1>4 DEF Crash, Interrupt
<1>5. ASSUME NEW s \in Sides, CmGone(s) PROVE opt' = opt /\ CmMove
  BY <1>5 DEF CmGone, CmMove
<1> QED BY <1>1, <1>2, <1>3, <1>4, <1>5 DEF Next

\* In every behaviour, what the channels tell is true of the identifiers, and
\* the tables of the two sides hold what has gone on to a connection.
THEOREM ConnectionsStand == Spec => []CmInv
<1>1. Init => CmInv BY CmStarts
<1>2. CmInv /\ [Next]_vars => CmInv' BY CmSteps, CmKept, CmStill
<1> QED BY <1>1, <1>2, PTL DEF Spec

(***************************************************************************)
(* Whom the datagrams reach.                                               *)
(***************************************************************************)
LEMMA LettersTail ==
  ASSUME NEW q \in Seq(Letters), q # <<>>
  PROVE  /\ Head(q) = q[1] /\ 1 \in 1..Len(q) /\ Tail(q) \in Seq(Letters)
         /\ \A n \in 1..Len(Tail(q)) : n + 1 \in 1..Len(q) /\ Tail(q)[n] = q[n + 1] /\ n + 1 # 1
         /\ \A m, n \in 1..Len(Tail(q)) : m # n => m + 1 # n + 1
<1>1. Tail(q) \in Seq(Letters) /\ Len(Tail(q)) = Len(q) - 1 /\ Len(q) \in Nat /\ Len(q) > 0 OBVIOUS
<1>2. \A n \in 1..Len(Tail(q)) : Tail(q)[n] = q[n + 1] OBVIOUS
<1>3. \A n \in 1..Len(Tail(q)) : n + 1 \in 1..Len(q) /\ n + 1 # 1 BY <1>1
<1>4. \A m, n \in 1..Len(Tail(q)) : m # n => m + 1 # n + 1 BY <1>1
<1>5. Head(q) = q[1] /\ 1 \in 1..Len(q) BY <1>1
<1> QED BY <1>1, <1>2, <1>3, <1>4, <1>5

LEMMA LettersAppend ==
  ASSUME NEW q \in Seq(Letters), NEW x \in Letters
  PROVE  \A n \in 1..Len(Append(q, x)) :
           (n \in 1..Len(q) /\ Append(q, x)[n] = q[n]) \/ (n = Len(q) + 1 /\ Append(q, x)[n] = x)
<1>1. Len(Append(q, x)) = Len(q) + 1 /\ Len(q) \in Nat OBVIOUS
<1>2. \A n \in 1..Len(q) : Append(q, x)[n] = q[n] OBVIOUS
<1>3. Append(q, x)[Len(q) + 1] = x OBVIOUS
<1>4. \A n \in 1..(Len(q) + 1) : n \in 1..Len(q) \/ n = Len(q) + 1 BY <1>1
<1> QED BY <1>1, <1>2, <1>3, <1>4

\* The client counts no more than it did, and nothing is newly established.
ClientStill ==
  /\ connectsLeft'["client"] = connectsLeft["client"] /\ disconnectsLeft'["client"] = disconnectsLeft["client"]
  /\ \A j \in Ids : /\ node'["client"][j].cma_id = node["client"][j].cma_id
                    /\ node'["client"][j].remote_qpn = node["client"][j].remote_qpn
  /\ cmPc["client"] \in Counting \/ cmPc'["client"] = cmPc["client"]
  /\ cmPc'["client"] = "connected" => connectsLeft["client"] = 0 \/ cmPc["client"] = "connected"
  /\ Ordered(events["client"]) => Ordered(events'["client"])
  /\ \A i \in Ids : Has(events'["client"], Event("established", i)) => Has(events["client"], Event("established", i))
  /\ \A i \in Ids : Has(events'["client"], Event("disconnected", i)) =>
       Has(events["client"], Event("disconnected", i)) \/ cmPc'["server"] \notin Before \cup Accepting
  /\ \A i \in Ids : link[i] \in Met => link'[i] \in Met

LEMMA ClientUdStill ==
  ASSUME CmInv, UdInv, opt' = opt,
         cmPc'["client"] = "idle" => cmPc["client"] = "idle" /\ disconnectsLeft'["client"] = disconnectsLeft["client"],
         cmPc["server"] \notin Before \cup Accepting => cmPc'["server"] \notin Before \cup Accepting,
         cmPc'["client"] \in Counting \cup {"connected"} => ClientStill
  PROVE  ClientCount' /\ ClientReach'
<1>0. Num' = Num /\ Qps' = Qps /\ IsUd' = IsUd BY DEF Num, Qps, IsUd
<1>1. Qps \subseteq Ids BY QpsAre DEF CmInv
<1>2. CASE cmPc'["client"] \notin Counting \cup {"connected"}
  <2>1. cmPc'["client"] = "idle" => disconnectsLeft'["client"] = 0 BY DEF UdInv, ClientCount
  <2> QED BY <1>2, <2>1 DEF ClientCount, ClientReach
<1>3. CASE cmPc'["client"] \in Counting \cup {"connected"}
  <2>1. ClientStill BY <1>3
  <2>2. Made' = Made BY <2>1, <1>0 DEF Made, ClientStill
  <2>3. ClientCount'
    <3>1. cmPc'["client"] # "idle" BY <1>3 DEF Counting
    <3>2. cmPc'["client"] = "connected" => connectsLeft'["client"] = 0
      BY <2>1 DEF UdInv, ClientCount, ClientStill
    <3>3. ASSUME cmPc'["client"] \in Counting
          PROVE  /\ connectsLeft'["client"] \in 0..Num'
                 /\ \A i \in Qps : node'["client"][i].cma_id = i
                 /\ \/ disconnectsLeft'["client"] = Made'
                    \/ /\ connectsLeft'["client"] > 0
                       /\ cmPc'["server"] \notin Before \cup Accepting
                       /\ \A i \in Ids : ~Has(events'["client"], Event("established", i))
                 /\ Ordered(events'["client"])
                 /\ \A i \in Ids : Has(events'["client"], Event("disconnected", i)) =>
                      cmPc'["server"] \notin Before \cup Accepting
      <4>1. cmPc["client"] \in Counting BY <2>1, <3>3 DEF ClientStill
      <4>2. ClientCount BY DEF UdInv
      <4>3. /\ connectsLeft["client"] \in 0..Num /\ Ordered(events["client"])
            /\ \A i \in Qps : node["client"][i].cma_id = i
            /\ \/ disconnectsLeft["client"] = Made
               \/ /\ connectsLeft["client"] > 0
                  /\ cmPc["server"] \notin Before \cup Accepting
                  /\ \A i \in Ids : ~Has(events["client"], Event("established", i))
            /\ \A i \in Ids : Has(events["client"], Event("disconnected", i)) =>
                 cmPc["server"] \notin Before \cup Accepting
        BY <4>1, <4>2 DEF ClientCount
      <4> QED BY <2>1, <2>2, <4>3, <1>0, <1>1 DEF ClientStill
    <3> QED BY <3>1, <3>2, <3>3, <1>0 DEF ClientCount, Has, Event, Before, Accepting, Ordered, Counting
  <2>4. ClientReach'
    <3>1. ASSUME IsUd
          PROVE  /\ \A e \in Ids : e < Made =>
                      /\ node["client"][e].remote_qpn \in Qps
                      /\ link'[node["client"][e].remote_qpn] \in Met
                      /\ ~Has(events'["client"], Event("established", node["client"][e].remote_qpn))
                 /\ \A e, f \in Ids : e # f /\ e < Made /\ f < Made =>
                      node["client"][e].remote_qpn # node["client"][f].remote_qpn
      <4>1. ClientReach BY DEF UdInv
      <4>2. cmPc["client"] \in Counting \cup {"connected"} BY <1>3, <2>1 DEF ClientStill
      <4> QED BY <2>1, <3>1, <4>1, <4>2, <1>1 DEF ClientReach, ClientStill
    <3> QED BY <2>1, <2>2, <3>1, <1>0 DEF ClientReach, ClientStill, Has, Event, Met
  <2> QED BY <2>3, <2>4
<1> QED BY <1>2, <1>3

\* The server answers nobody else, and nothing new is on the way to it.
LEMMA ServerUdStill ==
  ASSUME CmInv, UdInv, CmTypes', opt' = opt,
         Made <= Made',
         cmPc'["server"] \in Answering =>
           /\ cmPc["server"] \in Answering /\ connIndex'["server"] = connIndex["server"]
           /\ \A j \in Ids : node'["server"][j].remote_qpn = node["server"][j].remote_qpn,
         datagrams' = datagrams \/ (datagrams # <<>> /\ datagrams' = Tail(datagrams)),
         cmPc'["client"] \in Before => cmPc["client"] \in Before
  PROVE  ServerReach' /\ Datagrams'
<1>0. Num' = Num /\ Qps' = Qps /\ NeedsReply' = NeedsReply BY DEF Num, Qps, IsUd, NeedsReply, BothWays
<1>1. Qps \subseteq Ids /\ Qps \subseteq Int /\ Made \in Int /\ Made' \in Int
  <2>1. Qps \subseteq Ids /\ Num \in Int BY QpsAre DEF CmInv
  <2>2. connectsLeft["client"] \in Int /\ connectsLeft'["client"] \in Int BY BothSides DEF CmInv, CmTypes
  <2>3. Qps \subseteq Int BY DEF Qps
  <2> QED BY <2>1, <2>2, <2>3, <1>0 DEF Made
<1>2. datagrams \in Seq(Letters) BY DEF CmInv, CmTypes
<1>3. /\ \A n \in 1..Len(datagrams') : \E m \in 1..Len(datagrams) : datagrams'[n] = datagrams[m]
      /\ \A m, n \in 1..Len(datagrams') : m # n => datagrams'[m].imm # datagrams'[n].imm
  <2>1. \A m, n \in 1..Len(datagrams) : m # n => datagrams[m].imm # datagrams[n].imm BY DEF UdInv, Datagrams
  <2>2. CASE datagrams' = datagrams BY <2>1, <2>2
  <2>3. CASE datagrams # <<>> /\ datagrams' = Tail(datagrams)
    <3>1. /\ \A n \in 1..Len(datagrams') : n + 1 \in 1..Len(datagrams) /\ datagrams'[n] = datagrams[n + 1]
          /\ \A m, n \in 1..Len(datagrams') : m # n => m + 1 # n + 1
      BY <2>3, <1>2, LettersTail
    <3>2. \A n \in 1..Len(datagrams') : \E m \in 1..Len(datagrams) : datagrams'[n] = datagrams[m] BY <3>1
    <3>3. ASSUME NEW m \in 1..Len(datagrams'), NEW n \in 1..Len(datagrams'), m # n
          PROVE  datagrams'[m].imm # datagrams'[n].imm
      <4>1. m + 1 \in 1..Len(datagrams) /\ n + 1 \in 1..Len(datagrams) /\ m + 1 # n + 1 BY <3>1, <3>3
      <4>2. datagrams[m + 1].imm # datagrams[n + 1].imm BY <2>1, <4>1
      <4> QED BY <3>1, <4>2
    <3> QED BY <3>2, <3>3
  <2> QED BY <2>2, <2>3
<1>4. Datagrams'
  <2>1. \A n \in 1..Len(datagrams') : datagrams'[n].imm \in Qps /\ datagrams'[n].imm < Made'
    <3>1. \A n \in 1..Len(datagrams) : datagrams[n].imm \in Qps /\ datagrams[n].imm < Made BY DEF UdInv, Datagrams
    <3>2. \A x \in Qps : x < Made => x < Made' BY <1>1
    <3> QED BY <3>1, <3>2, <1>3
  <2>2. cmPc'["client"] \in Before => datagrams' = <<>> BY DEF UdInv, Datagrams
  <2> QED BY <2>1, <2>2, <1>3, <1>0 DEF Datagrams, Before
<1>5. ServerReach'
  <2>1. ASSUME NeedsReply, cmPc'["server"] \in Answering
        PROVE  /\ \A k \in Ids : k < connIndex["server"] =>
                    node["server"][k].remote_qpn \in Qps /\ node["server"][k].remote_qpn < Made'
               /\ \A j, k \in Ids : j # k /\ j < connIndex["server"] /\ k < connIndex["server"] =>
                    node["server"][j].remote_qpn # node["server"][k].remote_qpn
               /\ \A n \in 1..Len(datagrams') : \A k \in Ids : k < connIndex["server"] =>
                    datagrams'[n].imm # node["server"][k].remote_qpn
    <3>1. ServerReach /\ cmPc["server"] \in Answering BY <2>1 DEF UdInv
    <3>2. \A k \in Ids : k < connIndex["server"] =>
            node["server"][k].remote_qpn \in Qps /\ node["server"][k].remote_qpn < Made
      BY <2>1, <3>1 DEF ServerReach
    <3>3. \A k \in Ids : k < connIndex["server"] =>
            node["server"][k].remote_qpn \in Qps /\ node["server"][k].remote_qpn < Made'
      BY <3>2, <1>1
    <3> QED BY <2>1, <3>1, <3>3, <1>3 DEF ServerReach
  <2> QED BY <2>1, <1>0 DEF ServerReach, Answering, Counting
<1> QED BY <1>4, <1>5

\* What the channel of the client may have become.
LEMMA ChannelTells ==
  ASSUME CmInv,
         \/ events'["client"] \in {<<>>, events["client"]}
         \/ events["client"] # <<>> /\ events'["client"] = Tail(events["client"])
         \/ /\ events'["client"] \in {events["client"] \o PartAll, events["client"] \o PartOpen}
            /\ cmPc'["server"] \notin Before \cup Accepting
  PROVE  /\ Ordered(events["client"]) => Ordered(events'["client"])
         /\ \A i \in Ids : Has(events'["client"], Event("established", i)) => Has(events["client"], Event("established", i))
         /\ \A i \in Ids : Has(events'["client"], Event("disconnected", i)) =>
              Has(events["client"], Event("disconnected", i)) \/ cmPc'["server"] \notin Before \cup Accepting
<1> DEFINE q == events["client"]
<1>1. q \in Seq(EventSet) BY BothSides DEF CmInv, CmTypes
<1>2. Farewells(PartAll) /\ Farewells(PartOpen) BY PartTypes, BothSides DEF CmInv
<1> HIDE DEF q
<1>3. Ordered(<<>>) /\ \A e : ~Has(<<>>, e) BY DEF Ordered, Has
<1>4. q # <<>> => (Ordered(q) => Ordered(Tail(q))) /\ \A e : Has(Tail(q), e) => Has(q, e) BY <1>1, TailTells
<1>5. \A i : Event("established", i).kind \in Single BY DEF Event, Single
<1>6. \A r \in {PartAll, PartOpen} :
        (Ordered(q) => Ordered(q \o r)) /\ \A e : e.kind \in Single /\ Has(q \o r, e) => Has(q, e)
  BY <1>1, <1>2, FarewellsTell
<1>7. CASE events'["client"] \in {<<>>, q} BY <1>7, <1>3 DEF q
<1>8. CASE q # <<>> /\ events'["client"] = Tail(q) BY <1>8, <1>4 DEF q
<1>9. CASE events'["client"] \in {q \o PartAll, q \o PartOpen} /\ cmPc'["server"] \notin Before \cup Accepting
  BY <1>9, <1>5, <1>6 DEF q
<1> QED BY <1>7, <1>8, <1>9 DEF q

LEMMA MetStays ==
  ASSUME CmInv, NEW i \in Ids, link'[i] \in {link[i], Closed(i)}, link[i] \in Met
  PROVE  link'[i] \in Met
  BY ClosedIs DEF CmInv

\* A side starts from nothing.
LEMMA AllocateUd ==
  ASSUME CmInv, UdInv, CmTypes', opt' = opt, NEW s \in Sides, Allocate(s)
  PROVE  UdInv'
<1> USE BothSides
<1>0. Num' = Num /\ Qps' = Qps /\ NeedsReply' = NeedsReply /\ IsUd' = IsUd /\ "client" # "server"
  BY DEF Num, Qps, IsUd, NeedsReply, BothWays
<1>1. UNCHANGED <<disconnectsLeft, connIndex, link, events, datagrams>> BY DEF Allocate
<1>2. /\ cmPc[s] = "idle" /\ cmPc'[s] \in {"allocated", "failed"}
      /\ \A t \in Sides : t # s => cmPc'[t] = cmPc[t] /\ connectsLeft'[t] = connectsLeft[t]
      /\ connectsLeft'[s] = Num
  BY DEF Allocate, Leave, CmInv, CmTypes, Num
<1>3. \A t \in Sides : t # s => node'[t] = node[t]
  BY DEF Allocate, CmInv, CmTypes
<1>4. Num \in Int /\ Num >= 1 /\ Qps \subseteq Ids BY QpsAre DEF CmInv
<1>5. \A i \in Ids : link[i] \in Met => link'[i] \in Met BY <1>1
<1>6. ASSUME s = "server" PROVE UdInv'
  <2>1. cmPc'["client"] = cmPc["client"] /\ node'["client"] = node["client"] BY <1>0, <1>2, <1>3, <1>6
  <2>2. ClientStill BY <2>1, <1>0, <1>1, <1>2, <1>5, <1>6 DEF ClientStill
  <2>3. cmPc["server"] \in Before BY <1>2, <1>6 DEF Before
  <2>4. ClientCount' /\ ClientReach' BY <2>1, <2>2, <2>3, <1>1, ClientUdStill
  <2>5. Made' = Made BY <2>2, <1>0 DEF Made, ClientStill
  <2>6. connIndex'["server"] = 0 BY <1>1, <1>2, <1>6 DEF CmInv, ServerCount
  <2>7. \A k \in Ids : ~(k < connIndex'["server"]) BY <2>6, OptionsAssumption DEF Ids
  <2>8. ServerReach' BY <2>7 DEF ServerReach
  <2>9. Datagrams' BY <2>1, <2>5, <1>0, <1>1 DEF UdInv, Datagrams, Before
  <2> QED BY <2>4, <2>8, <2>9 DEF UdInv
<1>7. ASSUME s = "client" PROVE UdInv'
  <2>1. Made' = 0 BY <1>0, <1>2, <1>4, <1>7 DEF Made
  <2>2. cmPc["client"] \in Before BY <1>2, <1>7 DEF Before
  <2>3. events["client"] = <<>> /\ (\A i \in Ids : link[i] = "new") /\ datagrams = <<>>
    BY <2>2 DEF CmInv, UdInv, Datagrams
  <2>4. ClientCount'
    <3>1. disconnectsLeft["client"] = 0 BY <1>2, <1>7 DEF UdInv, ClientCount
    <3>2. Ordered(<<>>) /\ \A e : ~Has(<<>>, e) BY DEF Ordered, Has
    <3>3. cmPc'["client"] = "allocated" => \A i \in Qps : node'["client"][i].cma_id = i
      <4> SUFFICES ASSUME cmPc'["client"] = "allocated", NEW i \in Qps PROVE node'["client"][i].cma_id = i OBVIOUS
      <4>1. "allocated" # "failed" OBVIOUS
      <4>2. node' = [node EXCEPT !["client"] = [j \in Ids |->
                      [NoNode EXCEPT !.cma_id = IF j \in Qps THEN j ELSE None]]]
        BY <1>7, <4>1 DEF Allocate, Leave, CmInv, CmTypes
      <4>3. node'["client"][i] = [NoNode EXCEPT !.cma_id = i] BY <4>2, <1>4 DEF CmInv, CmTypes
      <4> QED BY <4>3 DEF NoNode
    <3>4. connectsLeft'["client"] \in 0..Num' BY <1>0, <1>2, <1>4, <1>7
    <3>5. disconnectsLeft'["client"] = Made' BY <2>1, <3>1, <1>1
    <3>6. events'["client"] = <<>> BY <2>3, <1>1
    <3>7. cmPc'["client"] \in Counting => cmPc'["client"] = "allocated" BY <1>2, <1>7 DEF Counting
    <3>8. cmPc'["client"] \notin {"idle", "connected"} BY <1>2, <1>7
    <3> QED BY <1>0, <3>2, <3>3, <3>4, <3>5, <3>6, <3>7, <3>8 DEF ClientCount, Ordered, Has, Event, Counting
  <2>5. \A e \in Ids : ~(e < Made') BY <2>1, OptionsAssumption DEF Ids
  <2>6. ClientReach' BY <2>5 DEF ClientReach
  <2>7. Len(<<>>) = 0 /\ 1..0 = {} OBVIOUS
  <2>8. Datagrams' BY <2>3, <2>7, <1>1 DEF Datagrams
  <2>9. \A k \in Ids : ~(k < connIndex'["server"])
    <3>1. ServerTable BY DEF CmInv
    <3>2. \A k \in Ids : qp["server"][k] = None BY <2>3, <3>1, <1>4 DEF ServerTable, Met
    <3> QED BY <3>1, <3>2, <1>1 DEF ServerTable
  <2>10. ServerReach' BY <2>9 DEF ServerReach
  <2> QED BY <2>4, <2>6, <2>8, <2>10 DEF UdInv
<1> QED BY <1>6, <1>7 DEF Sides

\* What a side of its own, or the kernel, does to whom the datagrams reach.
LEMMA OwnUd ==
  ASSUME CmInv, UdInv, CmTypes', opt' = opt, NEW s \in Sides,
         \/ Enters(s) \/ EventsEnd(s) \/ Leaves(s) \/ Disconnect(s) \/ DisconnectsEnd(s) \/ Destroy(s) \/ Vanish(s)
         \/ s = "server" /\ DisconnectHandler(s)
  PROVE  UdInv'
<1> USE BothSides
<1>0. Num' = Num /\ "client" # "server" /\ Sides = {"client", "server"} BY DEF Num, Sides
<1>1. /\ connectsLeft' = connectsLeft /\ connIndex' = connIndex /\ datagrams' = datagrams
      /\ disconnectsLeft'["client"] = disconnectsLeft["client"]
      /\ \A i \in Ids : link'[i] \in {link[i], Closed(i)}
  <2>1. CASE s = "server" /\ DisconnectHandler(s) BY <2>1, <1>0 DEF DisconnectHandler, CmInv, CmTypes
  <2> QED BY <2>1 DEF Enters, EventsEnd, Leaves, Disconnect, DisconnectsEnd, Destroy, Vanish
<1>2. \A t \in Sides : t # s => cmPc'[t] = cmPc[t] /\ node'[t] = node[t]
  BY ZenonT(40) DEF CmInv, CmTypes, Leave, Enters, DisconnectHandler, EventsEnd, Leaves, Disconnect, DisconnectsEnd, Destroy, Vanish
<1>3. /\ Enters(s) => cmPc[s] = "allocated" /\ cmPc'[s] = "synced" /\ node' = node /\ events' = events
      /\ DisconnectHandler(s) => cmPc'[s] = cmPc[s] /\ cmPc[s] \in {"events", "disconnecting"} /\ node' = node
      /\ EventsEnd(s) => /\ cmPc[s] = "events" /\ cmPc'[s] = "connected" /\ connectsLeft[s] = 0
                         /\ node' = node /\ events' = events
      /\ Leaves(s) => cmPc[s] = "connected" /\ cmPc'[s] = "used" /\ events' = events
      /\ Disconnect(s) => cmPc[s] = "used" /\ cmPc'[s] \in {"disconnected", "disconnecting"}
      /\ DisconnectsEnd(s) => cmPc'[s] = "disconnected" /\ events' = events
      /\ Destroy(s) => cmPc'[s] = "destroyed"
      /\ Vanish(s) => cmPc'[s] = "gone"
  BY ZenonT(40) DEF CmInv, CmTypes, Leave, Enters, DisconnectHandler, Takes, EventsEnd, Leaves, Disconnect, DisconnectsEnd,
         Destroy, Vanish
<1>4. \A t \in Sides : events'[t] \in {<<>>, events[t], events[t] \o PartAll} \/ DisconnectHandler(s)
  BY DEF Enters, EventsEnd, Leaves, Disconnect, DisconnectsEnd, Destroy, Vanish
<1>5. DisconnectHandler(s) /\ s = "server" => events'["client"] = events["client"]
  BY <1>0 DEF DisconnectHandler, CmInv, CmTypes
<1>6. Made' = Made BY <1>0, <1>1 DEF Made
<1>7. cmPc["server"] \notin Before \cup Accepting => cmPc'["server"] \notin Before \cup Accepting
  BY <1>0, <1>2, <1>3 DEF Before, Accepting
<1>8. cmPc'["client"] \in Before => cmPc["client"] \in Before
  BY <1>0, <1>2, <1>3 DEF Before
<1>9. ASSUME cmPc'["client"] \in Counting \cup {"connected"} PROVE ClientStill
  <2>1. node'["client"] = node["client"]
    BY <1>0, <1>2, <1>3, <1>9 DEF Counting
  <2>2. \/ events'["client"] \in {<<>>, events["client"]}
        \/ events'["client"] \in {events["client"] \o PartAll} /\ cmPc'["server"] \notin Before \cup Accepting
    <3>1. CASE s = "client" BY <3>1, <1>3, <1>9 DEF Counting
    <3>2. CASE s = "server"
      <4>1. CASE Enters(s) \/ EventsEnd(s) \/ Leaves(s) \/ DisconnectsEnd(s) \/ DisconnectHandler(s)
        BY <3>2, <4>1, <1>3, <1>5
      <4>2. CASE Disconnect(s) \/ Destroy(s) \/ Vanish(s)
        <5>1. cmPc'["server"] \in {"disconnected", "disconnecting", "destroyed", "gone"} BY <3>2, <4>2, <1>3
        <5>2. ~DisconnectHandler(s) \/ events'["client"] = events["client"] BY <3>2, <1>5
        <5> QED BY <5>1, <5>2, <1>4 DEF Before, Accepting
      <4> QED BY <4>1, <4>2
    <3> QED BY <3>1, <3>2, <1>0
  <2>3. /\ Ordered(events["client"]) => Ordered(events'["client"])
        /\ \A i \in Ids : Has(events'["client"], Event("established", i)) => Has(events["client"], Event("established", i))
        /\ \A i \in Ids : Has(events'["client"], Event("disconnected", i)) =>
             Has(events["client"], Event("disconnected", i)) \/ cmPc'["server"] \notin Before \cup Accepting
    BY <2>2, ChannelTells
  <2>4. /\ cmPc["client"] \in Counting \/ cmPc'["client"] = cmPc["client"]
        /\ cmPc'["client"] = "connected" => connectsLeft["client"] = 0 \/ cmPc["client"] = "connected"
    BY <1>0, <1>2, <1>3, <1>9 DEF Counting
  <2> QED BY <2>1, <2>3, <2>4, <1>1, MetStays DEF ClientStill
<1>10. cmPc'["client"] = "idle" => cmPc["client"] = "idle" /\ disconnectsLeft'["client"] = disconnectsLeft["client"]
  BY <1>0, <1>1, <1>2, <1>3
<1>11. ClientCount' /\ ClientReach' BY <1>7, <1>9, <1>10, ClientUdStill
<1>12. ASSUME cmPc'["server"] \in Answering
       PROVE  /\ cmPc["server"] \in Answering /\ connIndex'["server"] = connIndex["server"]
              /\ \A j \in Ids : node'["server"][j].remote_qpn = node["server"][j].remote_qpn
  <2>1. cmPc["server"] \in Answering /\ node'["server"] = node["server"]
    BY <1>0, <1>2, <1>3, <1>12 DEF Answering, Counting
  <2> QED BY <2>1, <1>1
<1>13. Made <= Made'
  <2>1. Made \in Int
    <3>1. Num \in Int BY QpsAre DEF CmInv
    <3>2. connectsLeft["client"] \in Int BY DEF CmInv, CmTypes
    <3> QED BY <3>1, <3>2 DEF Made
  <2> QED BY <2>1, <1>6
<1>14. ServerReach' /\ Datagrams' BY <1>1, <1>8, <1>12, <1>13, ServerUdStill
<1> QED BY <1>11, <1>14 DEF UdInv

\* The client hears of a connection that is down: by then the server takes no
\* request any more, and nothing established is on the way.
LEMMA DownUd ==
  ASSUME CmInv, UdInv, CmTypes', opt' = opt, DisconnectHandler("client")
  PROVE  UdInv'
<1> USE BothSides
<1>0. Num' = Num /\ Qps' = Qps /\ "client" # "server" BY DEF Num, Qps
<1>1. /\ UNCHANGED <<cmPc, connectsLeft, connIndex, node, link, datagrams>>
      /\ events["client"] # <<>> /\ Head(events["client"]).kind = "disconnected"
      /\ events' = [events EXCEPT !["client"] = Took("client")]
      /\ cmPc["client"] = "disconnecting" \/ (cmPc["client"] = "events" /\ connectsLeft["client"] # 0)
  BY DEF DisconnectHandler, Takes
<1>2. Made' = Made BY <1>0, <1>1 DEF Made
<1>3. Made <= Made'
  <2>1. Made \in Int
    <3>1. Num \in Int BY QpsAre DEF CmInv
    <3>2. connectsLeft["client"] \in Int BY DEF CmInv, CmTypes
    <3> QED BY <3>1, <3>2 DEF Made
  <2> QED BY <2>1, <1>2
<1>4. ServerReach' /\ Datagrams' BY <1>1, <1>3, ServerUdStill
<1>5. CASE cmPc["client"] = "disconnecting"
  <2>1. ClientCount' /\ ClientReach' BY <1>1, <1>5 DEF ClientCount, ClientReach, Counting
  <2> QED BY <2>1, <1>4 DEF UdInv
<1>6. CASE cmPc["client"] = "events" /\ connectsLeft["client"] # 0
  <2>0. cmPc["client"] \in Counting BY <1>6 DEF Counting
  <2>1. /\ connectsLeft["client"] \in 0..Num /\ Ordered(events["client"])
        /\ \A i \in Qps : node["client"][i].cma_id = i
        /\ \A i \in Ids : Has(events["client"], Event("disconnected", i)) => cmPc["server"] \notin Before \cup Accepting
    BY <2>0 DEF UdInv, ClientCount
  <2>2. /\ events'["client"] = Tail(events["client"])
        /\ Has(events["client"], Event("disconnected", EventId("client"))) /\ EventId("client") \in Ids
    BY <1>1, TookKept
  <2>3. cmPc["server"] \notin Before \cup Accepting BY <2>1, <2>2
  <2>4. events["client"] \in Seq(EventSet) BY DEF CmInv, CmTypes
  <2>5. Ordered(Tail(events["client"])) /\ \A i : ~Has(Tail(events["client"]), Event("established", i))
    BY <1>1, <2>1, <2>4, TailTells
  <2>6. connectsLeft["client"] > 0
    <3>1. Num \in Int BY QpsAre DEF CmInv
    <3> QED BY <3>1, <2>1, <1>6
  <2>7. ClientCount'
    <3>1. connectsLeft'["client"] \in 0..Num' /\ \A i \in Qps' : node'["client"][i].cma_id = i BY <1>0, <1>1, <2>1
    <3>2. connectsLeft'["client"] > 0 /\ cmPc'["server"] \notin Before \cup Accepting BY <1>1, <2>3, <2>6
    <3>3. /\ Ordered(events'["client"])
          /\ \A i \in Ids : ~Has(events'["client"], Event("established", i))
      BY <2>2, <2>5
    <3>4. cmPc'["client"] = "events" BY <1>1, <1>6
    <3> QED BY <3>1, <3>2, <3>3, <3>4 DEF ClientCount, Ordered, Has, Event, Before, Accepting, Counting
  <2>8. ClientReach'
    <3>1. ClientReach BY DEF UdInv
    <3>2. IsUd' = IsUd BY DEF IsUd
    <3>3. \A i : ~Has(events'["client"], Event("established", i)) BY <2>2, <2>5
    <3>4. cmPc["client"] \in Counting \cup {"connected"} BY <2>0
    <3> QED BY <1>0, <1>1, <1>2, <3>1, <3>2, <3>3, <3>4 DEF ClientReach, Has, Event, Met
  <2> QED BY <1>4, <2>7, <2>8 DEF UdInv
<1> QED BY <1>1, <1>5, <1>6

\* The client gives up, or goes on with nothing new established.
LEMMA GivesUpUd ==
  ASSUME CmInv, UdInv, CmTypes', opt' = opt,
         cmPc'["client"] \in {"retry", "undefined"}, cmPc'["server"] = cmPc["server"],
         connectsLeft' = connectsLeft \/ ConnectError("client"),
         connIndex'["server"] = connIndex["server"], node'["server"] = node["server"], datagrams' = datagrams
  PROVE  UdInv'
<1> USE BothSides
<1>0. Num' = Num BY DEF Num
<1>1. cmPc'["client"] \notin Counting \cup {"connected", "idle"} /\ cmPc'["client"] \notin Before
  BY DEF Counting, Before
<1>2. ClientCount' /\ ClientReach' BY <1>1, ClientUdStill
<1>3. Made <= Made'
  <2>1. Num \in Int BY QpsAre DEF CmInv
  <2>2. connectsLeft["client"] \in Int BY DEF CmInv, CmTypes
  <2>3. connectsLeft'["client"] = connectsLeft["client"] \/ connectsLeft'["client"] = connectsLeft["client"] - 1
    BY DEF ConnectError, CmInv, CmTypes
  <2> QED BY <2>1, <2>2, <2>3, <1>0 DEF Made
<1>4. ServerReach' /\ Datagrams' BY <1>1, <1>3, ServerUdStill
<1> QED BY <1>2, <1>4 DEF UdInv

LEMMA GoesOnUd ==
  ASSUME CmInv, UdInv, CmTypes', opt' = opt,
         cmPc["client"] \in {"synced", "events"}, cmPc'["client"] = "events", cmPc'["server"] = cmPc["server"],
         connectsLeft' = connectsLeft, disconnectsLeft' = disconnectsLeft,
         connIndex'["server"] = connIndex["server"], node'["server"] = node["server"], datagrams' = datagrams,
         \A j \in Ids : /\ node'["client"][j].cma_id = node["client"][j].cma_id
                        /\ node'["client"][j].remote_qpn = node["client"][j].remote_qpn,
         \/ events'["client"] = events["client"]
         \/ events["client"] # <<>> /\ events'["client"] = Tail(events["client"]),
         \A i \in Ids : link[i] \in Met => link'[i] \in Met
  PROVE  UdInv'
<1> USE BothSides
<1>1. /\ Ordered(events["client"]) => Ordered(events'["client"])
      /\ \A i \in Ids : Has(events'["client"], Event("established", i)) => Has(events["client"], Event("established", i))
      /\ \A i \in Ids : Has(events'["client"], Event("disconnected", i)) =>
           Has(events["client"], Event("disconnected", i)) \/ cmPc'["server"] \notin Before \cup Accepting
  BY ChannelTells
<1>2. cmPc["client"] \in Counting BY DEF Counting
<1>3. ClientStill BY <1>1, <1>2 DEF ClientStill
<1>4. ClientCount' /\ ClientReach' BY <1>3, ClientUdStill
<1>5. Made <= Made'
  <2>1. Num \in Int BY QpsAre DEF CmInv
  <2>2. connectsLeft["client"] \in Int BY DEF CmInv, CmTypes
  <2>3. Num' = Num BY DEF Num
  <2> QED BY <2>1, <2>2, <2>3 DEF Made
<1>6. cmPc'["client"] \notin Before BY DEF Before
<1>7. ServerReach' /\ Datagrams' BY <1>5, <1>6, ServerUdStill
<1> QED BY <1>4, <1>7 DEF UdInv

\* The client learns that a connection stands: the next node is told whom it
\* reached, and the server, if it must answer, who reached it.
LEMMA EstablishedUd ==
  ASSUME CmInv, UdInv, CmTypes', opt' = opt, EstablishedHandler, cmPc'["client"] = cmPc["client"]
  PROVE  UdInv'
<1> USE BothSides
<1> DEFINE i == EventId("client")
           e == disconnectsLeft["client"]
           sender == node["client"][e].cma_id
<1>0. Num' = Num /\ Qps' = Qps /\ NeedsReply' = NeedsReply /\ IsUd' = IsUd /\ "client" # "server"
  BY DEF Num, Qps, IsUd, NeedsReply, BothWays
<1>1. /\ cmPc["client"] = "events" /\ connectsLeft["client"] # 0
      /\ events["client"] # <<>> /\ Head(events["client"]).kind = "established"
      /\ events' = [events EXCEPT !["client"] = Took("client")]
      /\ UNCHANGED <<connIndex, link>>
  BY DEF EstablishedHandler, Takes
<1>2. cmPc["client"] \in Counting BY <1>1 DEF Counting
<1>3. /\ EstablishUd(e, i) /\ SendUd(i, sender) /\ cmPc' = cmPc
      /\ connectsLeft' = [connectsLeft EXCEPT !["client"] = @ - 1]
      /\ disconnectsLeft' = [disconnectsLeft EXCEPT !["client"] = @ + 1]
  <2>1. "events" \notin {"undefined", "retry"} OBVIOUS
  <2>2. cmPc'["client"] = "events" BY <1>1
  <2> QED BY <2>1, <2>2 DEF EstablishedHandler, Leave, CmInv, CmTypes
<1>4. i \in Ids /\ Has(events["client"], Event("established", i)) /\ ~Has(events'["client"], Event("established", i))
      /\ (\A f : Has(events'["client"], f) => Has(events["client"], f))
      /\ events'["client"] = Tail(events["client"])
  BY <1>1, TookKept DEF Single
<1>5. /\ connectsLeft["client"] \in 0..Num /\ Ordered(events["client"])
      /\ \A j \in Qps : node["client"][j].cma_id = j
      /\ disconnectsLeft["client"] = Made
      /\ \A j \in Ids : Has(events["client"], Event("disconnected", j)) => cmPc["server"] \notin Before \cup Accepting
  BY <1>2, <1>4 DEF UdInv, ClientCount
<1>6. Num \in Nat /\ Qps = 0..(Num - 1) /\ Qps \subseteq Ids /\ Qps \subseteq Int BY QpsAre DEF CmInv
<1>7. /\ e = Made /\ e \in Qps /\ Made \in 0..(Num - 1) /\ Made' = Made + 1
      /\ connectsLeft'["client"] = connectsLeft["client"] - 1 /\ connectsLeft'["client"] \in 0..Num'
      /\ disconnectsLeft'["client"] = e + 1
  <2>1. connectsLeft["client"] \in 1..Num BY <1>1, <1>5, <1>6
  <2>2. connectsLeft'["client"] = connectsLeft["client"] - 1 /\ disconnectsLeft'["client"] = e + 1
    BY <1>3 DEF CmInv, CmTypes
  <2> QED BY <2>1, <2>2, <1>0, <1>5, <1>6 DEF Made
<1>8. sender = e BY <1>5, <1>7
<1>9. link[i] \in Met /\ i \in Qps
  <2>1. LinkInv(i) BY <1>4 DEF CmInv
  <2> QED BY <2>1, <1>4 DEF LinkInv, Met
<1>10. /\ \A j \in Ids : node'["client"][j].cma_id = node["client"][j].cma_id
       /\ IsUd => \A j \in Ids : node'["client"][j].remote_qpn = IF j = e THEN i ELSE node["client"][j].remote_qpn
       /\ \A j \in Ids : node'["server"][j].remote_qpn = node["server"][j].remote_qpn
  <2>1. node \in [Sides -> [Ids -> Nodes]] BY DEF CmInv, CmTypes
  <2>2. CASE IsUd
    <3>1. node' = [node EXCEPT !["client"][e].remote_qpn = i] BY <2>2, <1>3 DEF EstablishUd
    <3> HIDE DEF i, e
    <3> QED BY <2>1, <3>1, <1>0, <1>4, NodeReached
  <2>3. CASE ~IsUd BY <2>3, <1>3 DEF EstablishUd
  <2> QED BY <2>2, <2>3
<1>11. /\ NeedsReply => datagrams' = Append(datagrams, [to |-> i, imm |-> e])
       /\ ~NeedsReply => datagrams' = datagrams
  BY <1>3, <1>8 DEF SendUd
<1> HIDE DEF i, e, sender
<1>12. ClientCount'
  <2>1. cmPc'["client"] = "events" BY <1>1, <1>3
  <2>2. \A j \in Qps' : node'["client"][j].cma_id = j BY <1>0, <1>5, <1>6, <1>10
  <2>3. disconnectsLeft'["client"] = Made' BY <1>7
  <2>4. Ordered(events'["client"])
    <3>1. events["client"] \in Seq(EventSet) BY DEF CmInv, CmTypes
    <3> QED BY <3>1, <1>1, <1>4, <1>5, TailTells
  <2>5. \A j \in Ids : Has(events'["client"], Event("disconnected", j)) => cmPc'["server"] \notin Before \cup Accepting
    BY <1>3, <1>4, <1>5
  <2> QED BY <2>1, <2>2, <2>3, <2>4, <2>5, <1>7 DEF ClientCount, Ordered, Has, Event, Before, Accepting, Counting
<1>13. \A x \in Int : x < Made' => x < Made \/ x = e BY <1>7
<1>14. ClientReach'
  <2>1. ASSUME IsUd
        PROVE  /\ \A f \in Ids : f < Made' =>
                    /\ node'["client"][f].remote_qpn \in Qps
                    /\ link[node'["client"][f].remote_qpn] \in Met
                    /\ ~Has(events'["client"], Event("established", node'["client"][f].remote_qpn))
               /\ \A f, g \in Ids : f # g /\ f < Made' /\ g < Made' =>
                    node'["client"][f].remote_qpn # node'["client"][g].remote_qpn
    <3>1. ClientReach BY DEF UdInv
    <3>2. /\ \A f \in Ids : f < Made =>
                 /\ node["client"][f].remote_qpn \in Qps
                 /\ link[node["client"][f].remote_qpn] \in Met
                 /\ ~Has(events["client"], Event("established", node["client"][f].remote_qpn))
          /\ \A f, g \in Ids : f # g /\ f < Made /\ g < Made =>
                 node["client"][f].remote_qpn # node["client"][g].remote_qpn
      BY <2>1, <3>1, <1>2 DEF ClientReach
    <3>3. \A f \in Ids : f < Made' => f < Made \/ f = e BY <1>13, OptionsAssumption DEF Ids
    <3>4. \A f \in Ids : f < Made => node["client"][f].remote_qpn # i BY <3>2, <1>4
    <3>5. \A f \in Ids : f < Made => f # e
      <4>1. \A f \in Ids : f \in Int BY OptionsAssumption DEF Ids
      <4> QED BY <4>1, <1>7
    <3>6. \A f \in Ids : node'["client"][f].remote_qpn = IF f = e THEN i ELSE node["client"][f].remote_qpn
      BY <2>1, <1>10
    <3> QED BY <3>2, <3>3, <3>4, <3>5, <3>6, <1>4, <1>9
  <2> QED BY <2>1, <1>0, <1>1 DEF ClientReach, Has, Event, Met
<1>15. datagrams \in Seq(Letters) BY DEF CmInv, CmTypes
<1>16. ASSUME NeedsReply, NEW n \in 1..Len(datagrams')
       PROVE  (n \in 1..Len(datagrams) /\ datagrams'[n] = datagrams[n]) \/
              (n = Len(datagrams) + 1 /\ datagrams'[n].imm = e)
  <2>1. [to |-> i, imm |-> e] \in Letters BY <1>4, <1>6, <1>7 DEF Letters
  <2>2. [to |-> i, imm |-> e].imm = e OBVIOUS
  <2> QED BY <2>1, <2>2, <1>11, <1>15, <1>16, LettersAppend
<1>17. \A x \in Qps : x < Made => x < Made' /\ x # e
  <2>1. \A x \in Qps : x \in Int BY <1>6
  <2> QED BY <2>1, <1>7
<1>18. \A n \in 1..Len(datagrams) : datagrams[n].imm \in Qps /\ datagrams[n].imm < Made' /\ datagrams[n].imm # e
  BY <1>17 DEF UdInv, Datagrams
<1>19. Datagrams'
  <2>1. cmPc'["client"] \notin Before BY <1>1, <1>3 DEF Before
  <2>2. \A m, n \in 1..Len(datagrams) : m # n => datagrams[m].imm # datagrams[n].imm BY DEF UdInv, Datagrams
  <2>3. e < Made' BY <1>7
  <2>4. CASE NeedsReply
    <3>1. \A n \in 1..Len(datagrams') : datagrams'[n].imm \in Qps /\ datagrams'[n].imm < Made'
      BY <2>3, <2>4, <1>7, <1>16, <1>18
    <3>2. \A m, n \in 1..Len(datagrams') : m # n => datagrams'[m].imm # datagrams'[n].imm
      BY <2>2, <2>4, <1>16, <1>18
    <3> QED BY <2>1, <3>1, <3>2, <1>0 DEF Datagrams, Before
  <2>5. CASE ~NeedsReply
    <3>1. datagrams' = datagrams BY <2>5, <1>11
    <3> QED BY <2>1, <2>2, <3>1, <1>0, <1>18 DEF Datagrams, Before
  <2> QED BY <2>4, <2>5
<1>20. ServerReach'
  <2>1. ASSUME NeedsReply, cmPc["server"] \in Answering
        PROVE  /\ \A k \in Ids : k < connIndex["server"] =>
                    node["server"][k].remote_qpn \in Qps /\ node["server"][k].remote_qpn < Made'
               /\ \A j, k \in Ids : j # k /\ j < connIndex["server"] /\ k < connIndex["server"] =>
                    node["server"][j].remote_qpn # node["server"][k].remote_qpn
               /\ \A n \in 1..Len(datagrams') : \A k \in Ids : k < connIndex["server"] =>
                    datagrams'[n].imm # node["server"][k].remote_qpn
    <3>1. ServerReach BY DEF UdInv
    <3>2. \A k \in Ids : k < connIndex["server"] =>
            node["server"][k].remote_qpn \in Qps /\ node["server"][k].remote_qpn < Made
      BY <2>1, <3>1 DEF ServerReach
    <3>3. \A k \in Ids : k < connIndex["server"] =>
            node["server"][k].remote_qpn \in Qps /\ node["server"][k].remote_qpn < Made'
            /\ node["server"][k].remote_qpn # e
      BY <3>2, <1>17
    <3> QED BY <2>1, <3>1, <3>3, <1>16 DEF ServerReach
  <2>2. cmPc' = cmPc /\ connIndex' = connIndex BY <1>1, <1>3
  <2> QED BY <2>1, <2>2, <1>0, <1>10 DEF ServerReach, Answering, Counting
<1> QED BY <1>12, <1>14, <1>19, <1>20 DEF UdInv

LEMMA ClientUd == ASSUME CmInv, UdInv, CmTypes', opt' = opt, ClientStep PROVE UdInv'
<1> USE BothSides
<1>0. "client" # "server" OBVIOUS
<1>1. ASSUME NEW p \in {"events", "retry", "undefined"}, Leave("client", p)
      PROVE  cmPc'["client"] = p /\ cmPc'["server"] = cmPc["server"]
  BY <1>0, <1>1 DEF Leave, CmInv, CmTypes
<1>2. CASE ClientResolve
  <2>1. CASE Leave("client", "retry") /\ ConnectError("client")
    BY <2>1, <1>1, <1>2, GivesUpUd DEF ClientResolve
  <2>2. CASE Leave("client", "events") /\ UNCHANGED connectsLeft
    <3>1. cmPc["client"] = "synced" BY <1>2 DEF ClientResolve
    <3>2. \A i \in Ids : link[i] \in Met => link'[i] \in Met BY <3>1 DEF CmInv, Before, Met
    <3> QED BY <2>2, <3>1, <3>2, <1>1, <1>2, GoesOnUd DEF ClientResolve
  <2> QED BY <1>2, <2>1, <2>2 DEF ClientResolve
<1>3. CASE AddressHandler
  <2>1. events["client"] # <<>> /\ Head(events["client"]).kind = "addr_resolved" /\ cmPc["client"] = "events"
    BY <1>3 DEF AddressHandler, Takes
  <2>2. CASE Leave("client", "retry") /\ (ConnectError("client") \/ UNCHANGED connectsLeft)
    BY <2>2, <1>1, <1>3, GivesUpUd DEF AddressHandler
  <2>3. CASE link' = [link EXCEPT ![EventId("client")] = "route"] /\ UNCHANGED <<cmPc, connectsLeft>>
    <3>1. events'["client"] = Tail(events["client"]) BY <2>1, <1>3, TookKept DEF AddressHandler
    <3>2. link[EventId("client")] = "addr_resolved" BY <2>1, <1>3, TookKept DEF AddressHandler, CmInv, LinkInv
    <3>3. \A i \in Ids : link[i] \in Met => link'[i] \in Met BY <2>3, <3>2 DEF Met, CmInv, CmTypes
    <3> QED BY <2>1, <2>3, <3>1, <3>3, <1>3, GoesOnUd DEF AddressHandler
  <2> QED BY <1>3, <2>2, <2>3 DEF AddressHandler
<1>4. CASE RouteHandler
  <2> DEFINE k == connIndex["client"]
  <2>1. events["client"] # <<>> /\ Head(events["client"]).kind = "route_resolved" /\ cmPc["client"] = "events"
    BY <1>4 DEF RouteHandler, Takes
  <2>2. CASE /\ Leave("client", "retry") /\ ConnectError("client")
             /\ UNCHANGED <<qpOfId, qp, link, node, connIndex>>
    BY <2>2, <1>1, <1>4, GivesUpUd DEF RouteHandler
  <2>3. CASE /\ link' = [link EXCEPT ![EventId("client")] = "request"] /\ UNCHANGED <<cmPc, connectsLeft>>
             /\ node' = [node EXCEPT !["client"][k].connected = TRUE]
             /\ connIndex' = [connIndex EXCEPT !["client"] = k + 1]
    <3>1. events'["client"] = Tail(events["client"]) BY <2>1, <1>4, TookKept DEF RouteHandler
    <3>2. link[EventId("client")] = "route_resolved" BY <2>1, <1>4, TookKept DEF RouteHandler, CmInv, LinkInv
    <3>3. \A i \in Ids : link[i] \in Met => link'[i] \in Met BY <2>3, <3>2 DEF Met, CmInv, CmTypes
    <3>4. \A j \in Ids : /\ node'["client"][j].cma_id = node["client"][j].cma_id
                         /\ node'["client"][j].remote_qpn = node["client"][j].remote_qpn
      <4>1. node \in [Sides -> [Ids -> Nodes]] BY DEF CmInv, CmTypes
      <4> QED BY <4>1, <2>3, NodeConnected
    <3>5. node'["server"] = node["server"] /\ connIndex'["server"] = connIndex["server"]
      BY <2>3, <1>0 DEF CmInv, CmTypes
    <3>6. disconnectsLeft' = disconnectsLeft /\ datagrams' = datagrams BY <1>4 DEF RouteHandler
    <3>7. cmPc' = cmPc /\ connectsLeft' = connectsLeft BY <2>3
    <3> QED BY <2>1, <3>1, <3>3, <3>4, <3>5, <3>6, <3>7, GoesOnUd
  <2> QED BY <1>4, <2>2, <2>3 DEF RouteHandler
<1>5. CASE EstablishedHandler
  <2>1. cmPc["client"] = "events" BY <1>5 DEF EstablishedHandler, Takes
  <2>2. CASE cmPc' = cmPc BY <2>2, <1>5, EstablishedUd
  <2>3. CASE \E p \in {"retry", "undefined"} : Leave("client", p)
    <3>1. cmPc'["client"] \in {"retry", "undefined"} /\ cmPc'["server"] = cmPc["server"] BY <2>3, <1>1
    <3>2. cmPc' # cmPc BY <2>1, <3>1
    <3>3. UNCHANGED <<node, datagrams, connIndex>> /\ (connectsLeft' = connectsLeft \/ ConnectError("client"))
      BY <3>2, <1>5 DEF EstablishedHandler
    <3> QED BY <3>1, <3>3, GivesUpUd
  <2> QED BY <1>5, <2>2, <2>3 DEF EstablishedHandler
<1>6. CASE EventErrorHandler BY <1>1, <1>6, GivesUpUd DEF EventErrorHandler
<1>7. CASE ClientRetries BY <1>1, <1>7, GivesUpUd DEF ClientRetries
<1> QED BY <1>2, <1>3, <1>4, <1>5, <1>6, <1>7 DEF ClientStep

\* The kernel tells of no connection that is up or down.
LEMMA KernelUd ==
  ASSUME CmInv, UdInv, CmTypes', opt' = opt, Kernel \/ DatagramLost
  PROVE  UdInv'
<1> USE BothSides
<1>0. Num' = Num /\ "client" # "server" BY DEF Num
<1>1. /\ UNCHANGED <<cmPc, connectsLeft, disconnectsLeft, connIndex, node>>
      /\ datagrams' = datagrams \/ (datagrams # <<>> /\ datagrams' = Tail(datagrams))
  BY DEF Kernel, ResolutionEnds, RequestArrives, DatagramLost
<1>2. \A i \in Ids : link[i] \in Met => link'[i] \in Met
  <2>1. CASE DatagramLost BY <2>1 DEF DatagramLost
  <2>2. ASSUME NEW n \in Ids, ResolutionEnds(n) PROVE \A i \in Ids : link[i] \in Met => link'[i] \in Met
    <3>1. link[n] \in {"addr", "route"} BY <2>2 DEF ResolutionEnds, Resolved
    <3>2. \A i \in Ids : i # n => link'[i] = link[i] BY <2>2 DEF ResolutionEnds, CmInv, CmTypes
    <3> QED BY <3>1, <3>2 DEF Met
  <2>3. ASSUME NEW n \in Ids, RequestArrives(n) PROVE \A i \in Ids : link[i] \in Met => link'[i] \in Met
    <3>1. link[n] = "request" BY <2>3 DEF RequestArrives
    <3>2. \A i \in Ids : i # n => link'[i] = link[i] BY <2>3 DEF RequestArrives, CmInv, CmTypes
    <3> QED BY <3>1, <3>2 DEF Met
  <2> QED BY <2>1, <2>2, <2>3 DEF Kernel
<1>3. /\ Ordered(events["client"]) => Ordered(events'["client"])
      /\ \A i \in Ids : Has(events'["client"], Event("established", i)) => Has(events["client"], Event("established", i))
      /\ \A i \in Ids : Has(events'["client"], Event("disconnected", i)) => Has(events["client"], Event("disconnected", i))
  <2>1. events'["client"] = events["client"] \/
        \E n \in Ids, k \in EventKinds : /\ k \notin {"established", "disconnected"}
                                         /\ events'["client"] = Append(events["client"], Event(k, n))
    <3>1. CASE DatagramLost BY <3>1 DEF DatagramLost
    <3>2. ASSUME NEW n \in Ids, ResolutionEnds(n)
          PROVE  \E k \in EventKinds : /\ k \notin {"established", "disconnected"}
                                       /\ events'["client"] = Append(events["client"], Event(k, n))
      <4>1. link[n] = "addr" \/ link[n] = "route" BY <3>2 DEF ResolutionEnds, Resolved
      <4>2. /\ Resolved["addr"] = "addr_resolved" /\ Resolved["route"] = "route_resolved"
            /\ Unresolved["addr"] = "addr_error" /\ Unresolved["route"] = "route_error"
        BY DEF Resolved, Unresolved
      <4>3. {"addr_resolved", "route_resolved", "addr_error", "route_error"} \subseteq EventKinds
        BY DEF EventKinds, Single
      <4>4. \/ events'["client"] = Append(events["client"], Event(Resolved[link[n]], n))
            \/ events'["client"] = Append(events["client"], Event(Unresolved[link[n]], n))
        BY <3>2 DEF ResolutionEnds, CmInv, CmTypes
      <4> QED BY <4>1, <4>2, <4>3, <4>4
    <3>3. ASSUME NEW n \in Ids, RequestArrives(n)
          PROVE  events'["client"] = events["client"] \/
                 \E k \in EventKinds : /\ k \notin {"established", "disconnected"}
                                       /\ events'["client"] = Append(events["client"], Event(k, n))
      <4>1. \/ events' = [events EXCEPT !["server"] = Append(events["server"], Event("connect_request", n))]
            \/ events' = [events EXCEPT !["client"] = Append(events["client"], Event("rejected", n))]
        BY <3>3 DEF RequestArrives
      <4>2. events'["client"] = events["client"] \/ events'["client"] = Append(events["client"], Event("rejected", n))
        BY <4>1, <1>0 DEF CmInv, CmTypes
      <4>3. "rejected" \in EventKinds BY DEF EventKinds
      <4> QED BY <4>2, <4>3
    <3> QED BY <3>1, <3>2, <3>3 DEF Kernel
  <2>2. CASE events'["client"] = events["client"] BY <2>2
  <2>3. ASSUME NEW n \in Ids, NEW k \in EventKinds, k \notin {"established", "disconnected"},
               events'["client"] = Append(events["client"], Event(k, n))
        PROVE  /\ Ordered(events["client"]) => Ordered(events'["client"])
               /\ \A i \in Ids, l \in {"established", "disconnected"} :
                    Has(events'["client"], Event(l, i)) => Has(events["client"], Event(l, i))
    <3>1. events["client"] \in Seq(EventSet) BY DEF CmInv, CmTypes
    <3>2. Event(k, n) \in EventSet /\ Event(k, n).kind = k BY DEF Event, EventSet
    <3>3. /\ \A f : Has(events'["client"], f) => Has(events["client"], f) \/ f = Event(k, n)
          /\ Ordered(events["client"]) => Ordered(events'["client"])
      BY <2>3, <3>1, <3>2, AppendTells
    <3>4. \A i, l : l \in {"established", "disconnected"} => Event(l, i) # Event(k, n) BY <2>3, EventsDiffer
    <3> QED BY <3>3, <3>4
  <2> QED BY <2>1, <2>2, <2>3
<1>4. ASSUME cmPc'["client"] \in Counting \cup {"connected"} PROVE ClientStill
  BY <1>1, <1>2, <1>3 DEF ClientStill
<1>5. ClientCount' /\ ClientReach' BY <1>1, <1>4, ClientUdStill
<1>6. Made <= Made'
  <2>1. Num \in Int BY QpsAre DEF CmInv
  <2>2. connectsLeft["client"] \in Int BY DEF CmInv, CmTypes
  <2> QED BY <2>1, <2>2, <1>0, <1>1 DEF Made
<1>7. ServerReach' /\ Datagrams' BY <1>1, <1>6, ServerUdStill
<1> QED BY <1>5, <1>7 DEF UdInv

\* The server ends in error.
LEMMA FailsUd ==
  ASSUME CmInv, UdInv, CmTypes', opt' = opt, ServerFails, node' = node, connIndex' = connIndex,
         datagrams' = datagrams \/ (datagrams # <<>> /\ datagrams' = Tail(datagrams))
  PROVE  UdInv'
<1> USE BothSides
<1>0. Num' = Num BY DEF Num
<1>1. /\ cmPc'["server"] \in {"failed", "undefined"} /\ cmPc'["client"] = cmPc["client"]
      /\ connectsLeft'["client"] = connectsLeft["client"] /\ disconnectsLeft' = disconnectsLeft
      /\ link' = [i \in Ids |-> Closed(i)]
      /\ events'["client"] = events["client"] \o PartAll
  BY FailsTypes DEF CmInv
<1>2. cmPc'["server"] \notin Before \cup Accepting /\ cmPc'["server"] \notin Answering
  BY <1>1 DEF Before, Accepting, Answering, Counting
<1>3. ClientStill
  <2>1. \A i \in Ids : link[i] \in Met => link'[i] \in Met BY <1>1, MetStays
  <2> QED BY <1>1, <1>2, <2>1, ChannelTells DEF ClientStill
<1>4. ClientCount' /\ ClientReach' BY <1>1, <1>2, <1>3, ClientUdStill
<1>5. Made <= Made'
  <2>1. Num \in Int BY QpsAre DEF CmInv
  <2>2. connectsLeft["client"] \in Int BY DEF CmInv, CmTypes
  <2> QED BY <2>1, <2>2, <1>0, <1>1 DEF Made
<1>6. ServerReach' /\ Datagrams' BY <1>1, <1>2, <1>5, ServerUdStill
<1> QED BY <1>4, <1>6 DEF UdInv

\* The server accepts: what the client will hear of was not up before.
LEMMA AcceptUd ==
  ASSUME CmInv, UdInv, CmTypes', opt' = opt, RequestHandler, ~ServerFails
  PROVE  UdInv'
<1> USE BothSides
<1> DEFINE i == EventId("server")
           k == connIndex["server"]
<1>0. Num' = Num /\ Qps' = Qps /\ NeedsReply' = NeedsReply /\ IsUd' = IsUd /\ "client" # "server"
  BY DEF Num, Qps, IsUd, NeedsReply, BothWays
<1>1. /\ cmPc["server"] = "events" /\ events["server"] # <<>> /\ Head(events["server"]).kind = "connect_request"
      /\ link' = [link EXCEPT ![i] = "up"]
      /\ events' = [client |-> Append(events["client"], Event("established", i)), server |-> Took("server")]
      /\ UNCHANGED <<disconnectsLeft, datagrams>>
      /\ IF NeedsReply
         THEN /\ Leave("server", "ud_wait") /\ node' = [node EXCEPT !["server"][k].cma_id = i]
              /\ UNCHANGED <<connIndex, connectsLeft>>
         ELSE Connected(k, i, None) /\ UNCHANGED cmPc
  BY DEF RequestHandler, Takes
<1>2. events["server"] \in Seq(EventSet) /\ events["client"] \in Seq(EventSet) BY DEF CmInv, CmTypes
<1>3. i \in Ids /\ Has(events["server"], Event("connect_request", i))
  BY <1>1, <1>2, HeadIs, TookTypes DEF EventId, CmInv
<1>4. link[i] \in {"offered", "refused"} BY <1>3 DEF CmInv, LinkInv
<1>5. \A n \in Ids : n # i => link'[n] = link[n] BY <1>1 DEF CmInv, CmTypes
<1>6. \A n \in Ids : link[n] \in Met => link'[n] \in Met /\ n # i BY <1>4, <1>5 DEF Met
<1>7. /\ \A f : Has(events'["client"], f) => Has(events["client"], f) \/ f = Event("established", i)
      /\ Ordered(events["client"]) /\ (\A n \in Ids : ~Has(events["client"], Event("disconnected", n))) =>
           Ordered(events'["client"])
  <2>1. Event("established", i) \in EventSet /\ Event("established", i).kind = "established"
    BY <1>3 DEF Event, EventSet, EventKinds, Single
  <2>2. events'["client"] = Append(events["client"], Event("established", i)) BY <1>1
  <2> QED BY <1>2, <2>1, <2>2, AppendTells
<1>8. /\ connectsLeft'["client"] = connectsLeft["client"] /\ cmPc'["client"] = cmPc["client"]
      /\ cmPc'["server"] \in Accepting
      /\ \A j \in Ids : /\ node'["client"][j] = node["client"][j]
                        /\ NeedsReply => node'["server"][j].remote_qpn = node["server"][j].remote_qpn
  <2>1. node \in [Sides -> [Ids -> Nodes]] BY DEF CmInv, CmTypes
  <2>2. CASE NeedsReply
    <3>1. node' = [node EXCEPT !["server"][k].cma_id = i] BY <2>2, <1>1
    <3>2. connectsLeft' = connectsLeft BY <2>2, <1>1
    <3>3. cmPc'["client"] = cmPc["client"] /\ cmPc'["server"] = "ud_wait"
      BY <2>2, <1>0, <1>1 DEF Leave, CmInv, CmTypes
    <3> HIDE DEF i, k
    <3>4. \A j \in Ids : node'["client"][j] = node["client"][j]
                         /\ node'["server"][j].remote_qpn = node["server"][j].remote_qpn
      BY <2>1, <3>1, <1>0, <1>3, NodeNamed
    <3> QED BY <3>2, <3>3, <3>4 DEF Accepting
  <2>3. CASE ~NeedsReply
    <3>1. Connected(k, i, None) /\ cmPc' = cmPc BY <2>3, <1>1
    <3> HIDE DEF i
    <3> QED BY <2>3, <3>1, <1>1, <1>3, ConnectedTypes DEF CmInv, Accepting
  <2> QED BY <2>2, <2>3
<1> HIDE DEF i, k
<1>9. cmPc["server"] \in Accepting BY <1>1 DEF Accepting
<1>10. Made' = Made BY <1>0, <1>8 DEF Made
<1>11. ClientCount'
  <2>1. ASSUME cmPc["client"] \in Counting
        PROVE  /\ connectsLeft'["client"] \in 0..Num'
               /\ \A j \in Qps' : node'["client"][j].cma_id = j
               /\ disconnectsLeft'["client"] = Made'
               /\ Ordered(events'["client"])
               /\ \A j \in Ids : ~Has(events'["client"], Event("disconnected", j))
    <3>1. /\ connectsLeft["client"] \in 0..Num /\ Ordered(events["client"])
          /\ \A j \in Qps : node["client"][j].cma_id = j
          /\ disconnectsLeft["client"] = Made
          /\ \A j \in Ids : ~Has(events["client"], Event("disconnected", j))
      BY <2>1, <1>9 DEF UdInv, ClientCount
    <3>2. Qps \subseteq Ids BY QpsAre DEF CmInv
    <3>3. \A j : Event("disconnected", j) # Event("established", i) BY EventsDiffer
    <3> QED BY <3>1, <3>2, <3>3, <1>0, <1>1, <1>7, <1>8, <1>10
  <2>2. cmPc["client"] = "idle" => disconnectsLeft'["client"] = 0 BY <1>1 DEF UdInv, ClientCount
  <2>3. cmPc["client"] = "connected" => connectsLeft'["client"] = 0 BY <1>8 DEF UdInv, ClientCount
  <2> QED BY <2>1, <2>2, <2>3, <1>8 DEF ClientCount, Ordered, Has, Event, Counting
<1>12. ClientReach'
  <2>1. ASSUME IsUd, cmPc["client"] \in Counting \cup {"connected"}
        PROVE  /\ \A e \in Ids : e < Made =>
                    /\ node["client"][e].remote_qpn \in Qps
                    /\ link'[node["client"][e].remote_qpn] \in Met
                    /\ ~Has(events'["client"], Event("established", node["client"][e].remote_qpn))
               /\ \A e, f \in Ids : e # f /\ e < Made /\ f < Made =>
                    node["client"][e].remote_qpn # node["client"][f].remote_qpn
    <3>1. Qps \subseteq Ids BY QpsAre DEF CmInv
    <3>2. \A n : n # i => Event("established", n) # Event("established", i) BY EventsDiffer
    <3>3. ClientReach BY DEF UdInv
    <3> QED BY <2>1, <3>1, <3>2, <3>3, <1>6, <1>7 DEF ClientReach
  <2> QED BY <2>1, <1>0, <1>8, <1>10 DEF ClientReach, Has, Event, Met, Counting
<1>13. Datagrams' BY <1>0, <1>1, <1>8, <1>10 DEF UdInv, Datagrams, Before
<1>14. ServerReach'
  <2>1. CASE NeedsReply
    <3>1. cmPc["server"] \in Answering BY <1>1 DEF Answering, Counting
    <3>2. connIndex' = connIndex /\ \A j \in Ids : node'["server"][j].remote_qpn = node["server"][j].remote_qpn
      BY <2>1, <1>1, <1>8
    <3>3. ServerReach BY DEF UdInv
    <3> QED BY <2>1, <3>1, <3>2, <3>3, <1>0, <1>1, <1>10 DEF ServerReach, Answering, Counting
  <2>2. CASE ~NeedsReply BY <2>2, <1>0 DEF ServerReach
  <2> QED BY <2>1, <2>2
<1> QED BY <1>11, <1>12, <1>13, <1>14 DEF UdInv

\* The server takes the next datagram for this connection's.
LEMMA ReplyUd ==
  ASSUME CmInv, UdInv, CmTypes', opt' = opt, UdReply, ~ServerFails
  PROVE  UdInv'
<1> USE BothSides
<1> DEFINE k == connIndex["server"]
           x == Head(datagrams).imm
<1>0. Num' = Num /\ Qps' = Qps /\ NeedsReply' = NeedsReply /\ IsUd' = IsUd /\ "client" # "server"
  BY DEF Num, Qps, IsUd, NeedsReply, BothWays
<1>1. /\ cmPc["server"] = "ud_wait" /\ datagrams # <<>> /\ datagrams' = Tail(datagrams)
      /\ Connected(k, node["server"][k].cma_id, x) /\ Leave("server", "events")
      /\ UNCHANGED <<disconnectsLeft, link, events>>
  BY DEF UdReply
<1>2. cmPc'["server"] = "events" /\ cmPc'["client"] = cmPc["client"] BY <1>0, <1>1 DEF Leave, CmInv, CmTypes
<1>3. datagrams \in Seq(Letters) BY DEF CmInv, CmTypes
<1>4. /\ x = datagrams[1].imm /\ 1 \in 1..Len(datagrams)
      /\ \A n \in 1..Len(datagrams') : n + 1 \in 1..Len(datagrams) /\ datagrams'[n] = datagrams[n + 1] /\ n + 1 # 1
  BY <1>1, <1>3, LettersTail
<1>5. x \in Qps /\ x < Made /\ \A n \in 1..Len(datagrams') : datagrams'[n].imm # x
  <2>1. x \in Qps /\ x < Made BY <1>4 DEF UdInv, Datagrams
  <2>2. ASSUME NEW n \in 1..Len(datagrams') PROVE datagrams'[n].imm # x
    <3>1. n + 1 \in 1..Len(datagrams) /\ n + 1 # 1 /\ datagrams'[n] = datagrams[n + 1] BY <1>4
    <3>2. \A m, l \in 1..Len(datagrams) : m # l => datagrams[m].imm # datagrams[l].imm BY DEF UdInv, Datagrams
    <3> QED BY <3>1, <3>2, <1>4
  <2> QED BY <2>1, <2>2
<1>6. Qps \subseteq Ids /\ Num \in Nat BY QpsAre DEF CmInv
<1>7. /\ \A j \in Ids : node'["client"][j] = node["client"][j]
      /\ \A j \in Ids : node'["server"][j].remote_qpn = IF j = k THEN x ELSE node["server"][j].remote_qpn
      /\ connIndex'["server"] = k + 1 /\ connectsLeft'["client"] = connectsLeft["client"]
  <2>1. k < Num /\ k \in Nat BY <1>1 DEF CmInv, ServerTable, CmTypes
  <2>2. k \in Qps BY <2>1, <1>6 DEF Qps, Num
  <2>3. k \in Ids BY <2>2, <1>6
  <2>4. node["server"][k] \in Nodes BY <2>3 DEF CmInv, CmTypes
  <2>5. node["server"][k].cma_id \in Ids \cup {None} BY <2>4 DEF Nodes
  <2>6. x \in Ids \cup {None} BY <1>5, <1>6
  <2> HIDE DEF x
  <2> QED BY <2>5, <2>6, <1>1, ConnectedTypes DEF CmInv
<1> HIDE DEF x
<1>8. Made' = Made BY <1>0, <1>7 DEF Made
<1>9. ClientCount' /\ ClientReach'
  <2>1. \A i \in Ids : link[i] \in Met => link'[i] \in Met BY <1>1
  <2>2. ClientStill BY <2>1, <1>1, <1>2, <1>7 DEF ClientStill
  <2>3. cmPc["server"] \in Accepting BY <1>1 DEF Accepting
  <2> QED BY <2>2, <2>3, <1>1, <1>2, ClientUdStill
<1>10. Datagrams'
  <2>1. \A n \in 1..Len(datagrams') : datagrams'[n].imm \in Qps /\ datagrams'[n].imm < Made
    BY <1>4 DEF UdInv, Datagrams
  <2>2. ASSUME NEW m \in 1..Len(datagrams'), NEW n \in 1..Len(datagrams'), m # n
        PROVE  datagrams'[m].imm # datagrams'[n].imm
    <3>1. m + 1 # n + 1 BY <2>2, <1>1, <1>3, LettersTail
    <3>2. \A j, l \in 1..Len(datagrams) : j # l => datagrams[j].imm # datagrams[l].imm BY DEF UdInv, Datagrams
    <3>3. /\ m + 1 \in 1..Len(datagrams) /\ datagrams'[m] = datagrams[m + 1]
          /\ n + 1 \in 1..Len(datagrams) /\ datagrams'[n] = datagrams[n + 1]
      BY <1>4
    <3>4. datagrams[m + 1].imm # datagrams[n + 1].imm BY <3>1, <3>2, <3>3
    <3> QED BY <3>3, <3>4
  <2>3. cmPc'["client"] \notin Before BY <1>1, <1>2 DEF UdInv, Datagrams
  <2> QED BY <2>1, <2>2, <2>3, <1>0, <1>8 DEF Datagrams, Before
<1>11. ServerReach'
  <2>1. ASSUME NeedsReply
        PROVE  /\ \A j \in Ids : j < k + 1 =>
                    node'["server"][j].remote_qpn \in Qps /\ node'["server"][j].remote_qpn < Made
               /\ \A j, l \in Ids : j # l /\ j < k + 1 /\ l < k + 1 =>
                    node'["server"][j].remote_qpn # node'["server"][l].remote_qpn
               /\ \A n \in 1..Len(datagrams') : \A j \in Ids : j < k + 1 =>
                    datagrams'[n].imm # node'["server"][j].remote_qpn
    <3>1. ServerReach /\ cmPc["server"] \in Answering BY <1>1 DEF UdInv, Answering
    <3>2. /\ \A j \in Ids : j < k =>
               node["server"][j].remote_qpn \in Qps /\ node["server"][j].remote_qpn < Made
          /\ \A j, l \in Ids : j # l /\ j < k /\ l < k =>
               node["server"][j].remote_qpn # node["server"][l].remote_qpn
          /\ \A n \in 1..Len(datagrams) : \A j \in Ids : j < k =>
               datagrams[n].imm # node["server"][j].remote_qpn
      BY <2>1, <3>1 DEF ServerReach
    <3>3. \A j \in Ids : j < k + 1 => j < k \/ j = k
      <4>1. k \in Nat BY DEF CmInv, CmTypes
      <4>2. \A j \in Ids : j \in Int BY OptionsAssumption DEF Ids
      <4> QED BY <4>1, <4>2
    <3>4. \A j \in Ids : j < k => x # node["server"][j].remote_qpn BY <3>2, <1>4
    <3>5. \A j \in Ids : j < k => j # k
      <4>1. k \in Nat BY DEF CmInv, CmTypes
      <4>2. \A j \in Ids : j \in Int BY OptionsAssumption DEF Ids
      <4> QED BY <4>1, <4>2
    <3> HIDE DEF k
    <3>6. \A j \in Ids : j < k + 1 =>
            node'["server"][j].remote_qpn \in Qps /\ node'["server"][j].remote_qpn < Made
      BY <3>2, <3>3, <3>5, <1>5, <1>7
    <3>7. \A j, l \in Ids : j # l /\ j < k + 1 /\ l < k + 1 =>
            node'["server"][j].remote_qpn # node'["server"][l].remote_qpn
      BY <3>2, <3>3, <3>4, <3>5, <1>7
    <3>8. \A n \in 1..Len(datagrams') : \A j \in Ids : j < k + 1 =>
            datagrams'[n].imm # node'["server"][j].remote_qpn
      BY <3>2, <3>3, <1>4, <1>5, <1>7
    <3> QED BY <3>6, <3>7, <3>8
  <2> QED BY <2>1, <1>0, <1>7, <1>8 DEF ServerReach
<1> QED BY <1>9, <1>10, <1>11 DEF UdInv

LEMMA ServerUd == ASSUME CmInv, UdInv, CmTypes', opt' = opt, ServerStep PROVE UdInv'
<1> USE BothSides
<1>0. "client" # "server" /\ Num' = Num BY DEF Num
<1>1. CASE ServerListen
  <2>1. UNCHANGED <<connectsLeft, disconnectsLeft, connIndex, node, link, events, datagrams>> BY <1>1 DEF ServerListen
  <2>2. /\ cmPc["server"] = "synced" /\ cmPc'["client"] = cmPc["client"] /\ cmPc'["server"] \in {"events", "failed"}
    BY <1>0, <1>1 DEF ServerListen, Leave, CmInv, CmTypes
  <2>3. ClientStill BY <2>1, <2>2 DEF ClientStill
  <2>4. cmPc["server"] \in Before /\ cmPc["server"] \in Answering BY <2>2 DEF Before, Answering, Counting
  <2>5. ClientCount' /\ ClientReach' BY <2>1, <2>2, <2>3, <2>4, ClientUdStill
  <2>6. Made <= Made'
    <3>1. Num \in Int BY QpsAre DEF CmInv
    <3>2. connectsLeft["client"] \in Int BY DEF CmInv, CmTypes
    <3> QED BY <3>1, <3>2, <2>1, <1>0 DEF Made
  <2>7. ServerReach' /\ Datagrams' BY <2>1, <2>2, <2>4, <2>6, ServerUdStill
  <2> QED BY <2>5, <2>7 DEF UdInv
<1>2. ASSUME ServerFails PROVE cmPc'["server"] \notin Accepting
  BY <1>2, FailsTypes DEF CmInv, Accepting
<1>3. CASE RequestHandler
  <2>1. CASE ServerFails /\ UNCHANGED <<node, connIndex, datagrams>> BY <2>1, FailsUd
  <2>2. CASE IF NeedsReply
             THEN Leave("server", "ud_wait")
             ELSE UNCHANGED cmPc
    <3>1. cmPc["server"] = "events" BY <1>3 DEF RequestHandler, Takes
    <3>2. cmPc'["server"] \in Accepting BY <2>2, <3>1 DEF Leave, CmInv, CmTypes, Accepting
    <3> QED BY <3>2, <1>2, <1>3, AcceptUd
  <2> QED BY <1>3, <2>1, <2>2 DEF RequestHandler
<1>4. CASE UdReply
  <2>1. CASE ServerFails /\ UNCHANGED <<node, connIndex>>
    <3>1. datagrams # <<>> /\ datagrams' = Tail(datagrams) BY <1>4 DEF UdReply
    <3> QED BY <2>1, <3>1, FailsUd
  <2>2. CASE Leave("server", "events")
    <3>1. cmPc'["server"] \in Accepting BY <2>2 DEF Leave, CmInv, CmTypes, Accepting
    <3> QED BY <3>1, <1>2, <1>4, ReplyUd
  <2> QED BY <1>4, <2>1, <2>2 DEF UdReply
<1> QED BY <1>1, <1>3, <1>4 DEF ServerStep

\* Each side knows whom it reached, whatever either does.
LEMMA UdKept ==
  ASSUME CmInv, UdInv, opt' = opt, CmMove \/ UNCHANGED cmVars
  PROVE  UdInv'
<1> USE BothSides
<1>1. CASE UNCHANGED cmVars
  <2>1. UNCHANGED <<cmPc, connectsLeft, disconnectsLeft, connIndex, node, qpOfId, qp, link, events, datagrams>>
    BY <1>1 DEF cmVars
  <2>2. Num' = Num /\ Qps' = Qps /\ NeedsReply' = NeedsReply /\ IsUd' = IsUd /\ Made' = Made
    BY <2>1 DEF Num, Qps, IsUd, NeedsReply, BothWays, Made
  <2>3. ClientCount'
    BY <2>1, <2>2 DEF UdInv, ClientCount, Has, Event, Ordered, Before, Accepting, Counting
  <2>4. ClientReach' BY <2>1, <2>2 DEF UdInv, ClientReach, Has, Event, Met, Counting
  <2>5. ServerReach' BY <2>1, <2>2 DEF UdInv, ServerReach, Answering, Counting
  <2>6. Datagrams' BY <2>1, <2>2 DEF UdInv, Datagrams, Before
  <2> QED BY <2>3, <2>4, <2>5, <2>6 DEF UdInv
<1>2. CASE CmMove
  <2>0. CmTypes' BY <1>2, TypesKept DEF CmInv
  <2>1. CASE Kernel \/ DatagramLost BY <2>0, <2>1, KernelUd
  <2>2. CASE ClientStep BY <2>0, <2>2, ClientUd
  <2>3. CASE ServerStep BY <2>0, <2>3, ServerUd
  <2>4. ASSUME NEW s \in Sides, Allocate(s) PROVE UdInv' BY <2>0, <2>4, AllocateUd
  <2>5. ASSUME NEW s \in Sides,
               \/ Enters(s) \/ EventsEnd(s) \/ Leaves(s) \/ Disconnect(s) \/ DisconnectsEnd(s) \/ Destroy(s) \/ Vanish(s)
        PROVE  UdInv'
    BY <2>0, <2>5, OwnUd
  <2>6. ASSUME NEW s \in Sides, DisconnectHandler(s) PROVE UdInv'
    <3>1. CASE s = "client" BY <2>0, <2>6, <3>1, DownUd
    <3>2. CASE s = "server" BY <2>0, <2>6, <3>2, OwnUd
    <3> QED BY <3>1, <3>2 DEF Sides
  <2> QED BY <1>2, <2>1, <2>2, <2>3, <2>4, <2>5, <2>6 DEF CmMove
<1> QED BY <1>1, <1>2

LEMMA UdStarts == ASSUME Init PROVE UdInv
<1> USE BothSides
<1>1. CmInit /\ CmInv BY CmStarts DEF Init
<1>2. /\ \A s \in Sides : events[s] = <<>> /\ cmPc[s] = "idle" /\ connIndex[s] = 0 /\ disconnectsLeft[s] = 0
      /\ datagrams = <<>>
  BY <1>1 DEF CmInit
<1>3. ClientCount BY <1>2 DEF ClientCount, Counting
<1>4. ClientReach BY <1>2 DEF ClientReach, Counting
<1>5. ServerReach BY <1>2 DEF ServerReach, Answering, Counting
<1>6. Datagrams
  <2>1. Len(<<>>) = 0 /\ 1..0 = {} OBVIOUS
  <2> QED BY <2>1, <1>2 DEF Datagrams
<1> QED BY <1>3, <1>4, <1>5, <1>6 DEF UdInv

\* In every behaviour, of the nodes that were connected over datagrams no two
\* have reached the same queue pair, and what is on its way to the server names
\* none that it has heard of.
THEOREM DatagramsReachAll == Spec => []UdInv
<1>1. Init => CmInv /\ UdInv BY CmStarts, UdStarts
<1>2. CmInv /\ UdInv /\ [Next]_vars => (CmInv /\ UdInv)' BY CmSteps, CmKept, CmStill, UdKept
<1> QED BY <1>1, <1>2, PTL DEF Spec
=============================================================================
