--------------------------- MODULE PerfCommProofs ---------------------------
(***************************************************************************)
(* The exchange channel keeps the two sides of the benchmark in step, and  *)
(* they settle on the same sizes, in every behaviour of PerfPeers: for any *)
(* set of tests, any number of queue pairs, either channel, whatever the   *)
(* hosts bring and wherever a side fails.                                  *)
(***************************************************************************)
EXTENDS PerfPeers, SequenceTheorems, TLAPS

(***************************************************************************)
(* The script.                                                             *)
(***************************************************************************)
Fields == {"cycle_buffer", "cache_line_size", "mtu"}
Place == [cycle_buffer |-> 3, cache_line_size |-> 4, mtu |-> 5]

OtherKinds == {"connect", "version", "allocate", "before_cm", "cm", "after_cm", "init", "credit", "keys",
               "pair", "prepare", "ready", "traffic", "report", "destroy"}
Kinds == OtherKinds \cup Fields \cup {"close"}
ItemSet == Kinds \X Nat

\* A stretch of the script that neither settles a field nor closes.
Plain(q) == q \in Seq(ItemSet) /\ \A i \in 1..Len(q) : q[i][1] \in OtherKinds

\* The items of one kind exchange, if anything, only what settles nothing.
LEMMA PlainItems == ASSUME NEW k \in OtherKinds, NEW n \in Nat PROVE Plain(Items(k, n))
<1>1. ASSUME NEW i \in 1..n PROVE <<k, i>> \in ItemSet /\ <<k, i>>[1] \in OtherKinds
  <2>1. i \in Nat BY <1>1
  <2> QED BY <2>1 DEF ItemSet, Kinds
<1>2. Items(k, n) \in [1..n -> ItemSet] BY <1>1 DEF Items
<1>3. Items(k, n) \in Seq(ItemSet) BY <1>2, SeqDef
<1>4. Len(Items(k, n)) = n BY <1>2, <1>3, LenProperties
<1>5. \A i \in 1..n : Items(k, n)[i] = <<k, i>> BY DEF Items
<1> QED BY <1>1, <1>3, <1>4, <1>5 DEF Plain

LEMMA PlainEmpty == Plain(<<>>)
  BY DEF Plain

LEMMA ItemOK == ASSUME NEW k \in Kinds PROVE Item(k) \in ItemSet /\ Item(k)[1] = k
<1>1. 0 \in Nat OBVIOUS
<1> QED BY <1>1 DEF Item, ItemSet

LEMMA PlainOne == ASSUME NEW k \in OtherKinds PROVE Plain(<<Item(k)>>)
  BY DEF Plain, Item, ItemSet, Kinds

LEMMA PlainFour ==
  ASSUME NEW a \in OtherKinds, NEW b \in OtherKinds, NEW c \in OtherKinds, NEW d \in OtherKinds
  PROVE  Plain(<<Item(a), Item(b), Item(c), Item(d)>>)
<1>1. \A k \in OtherKinds : Item(k) \in ItemSet /\ Item(k)[1] \in OtherKinds BY DEF Item, ItemSet, Kinds
<1> QED BY <1>1 DEF Plain

\* The script up to some point past its opening.
Opens(q) ==
  /\ q \in Seq(ItemSet) /\ Len(q) >= 5
  /\ q[1] = Item("connect")
  /\ q[3] = Item("cycle_buffer") /\ q[4] = Item("cache_line_size") /\ q[5] = Item("mtu")
  /\ \A i \in 1..Len(q) : i \notin 3..5 => q[i][1] \in OtherKinds

\* The script goes on with plain stretches.
LEMMA OpensConcat ==
  ASSUME NEW q, NEW r, Opens(q), Plain(r) PROVE Opens(q \o r)
<1>1. q \in Seq(ItemSet) /\ r \in Seq(ItemSet) BY DEF Opens, Plain
<1>2. /\ q \o r \in Seq(ItemSet) /\ Len(q \o r) = Len(q) + Len(r)
      /\ \A i \in 1..(Len(q) + Len(r)) : (q \o r)[i] = IF i <= Len(q) THEN q[i] ELSE r[i - Len(q)]
  BY <1>1, ConcatProperties
<1>3. Len(q) \in Nat /\ Len(r) \in Nat /\ Len(q) >= 5 BY <1>1 DEF Opens
<1>4. \A i \in 1..Len(q \o r) : i \notin 3..5 => (q \o r)[i][1] \in OtherKinds
  <2> SUFFICES ASSUME NEW i \in 1..Len(q \o r), i \notin 3..5 PROVE (q \o r)[i][1] \in OtherKinds
    OBVIOUS
  <2>1. CASE i <= Len(q) BY <2>1, <1>2, <1>3 DEF Opens
  <2>2. CASE i > Len(q)
    <3>1. i - Len(q) \in 1..Len(r) BY <2>2, <1>2, <1>3
    <3> QED BY <2>2, <3>1, <1>2, <1>3 DEF Plain
  <2> QED BY <2>1, <2>2, <1>3
<1> QED BY <1>2, <1>3, <1>4 DEF Opens

\* Nothing but the mtu and its like is settled, each at its place, and nothing
\* that is exchanged comes after the closing.
ScriptOK ==
  /\ Script \in Seq(ItemSet) /\ Len(Script) >= 7
  /\ \A f \in Fields : Script[Place[f]] = Item(f)
  /\ \A p \in 1..Len(Script) : Script[p][1] \in Fields => p = Place[Script[p][1]]
  /\ \A p \in 1..Len(Script) : Script[p][1] = "close" => p = Len(Script) - 1
  /\ Script[Len(Script)][1] = "destroy"
  /\ Script[1][1] = "connect"

\* The script of every test is as ScriptOK says.
LEMMA ScriptFacts == ASSUME opt.num_of_qps \in Nat PROVE ScriptOK
<1> DEFINE A0 == <<Item("connect"), Item("version"), Item("cycle_buffer"), Item("cache_line_size"), Item("mtu")>>
           A == IF opt.work_rdma_cm
                THEN <<Item("allocate"), Item("before_cm"), Item("cm"), Item("after_cm")>>
                ELSE <<Item("init")>>
           B == IF opt.send_rcredit THEN <<Item("credit")>> ELSE <<>>
           C == Items("keys", opt.num_of_qps)
           D == <<Item("pair"), Item("prepare"), Item("ready"), Item("traffic")>>
           R == Reports
           Z == <<Item("close"), Item("destroy")>>
           F == A0 \o A \o B \o C \o D \o R
<1>0. Opens(A0)
  <2>1. \A k \in Kinds : Item(k) \in ItemSet /\ Item(k)[1] = k BY ItemOK
  <2>2. "connect" \in OtherKinds /\ "version" \in OtherKinds BY DEF OtherKinds
  <2> QED BY <2>1, <2>2 DEF Opens, Kinds, Fields
<1>1. Plain(A)
  <2>0. {"allocate", "before_cm", "cm", "after_cm"} \subseteq OtherKinds BY DEF OtherKinds
  <2>1. Plain(<<Item("allocate"), Item("before_cm"), Item("cm"), Item("after_cm")>>) BY <2>0, PlainFour
  <2>2. Plain(<<Item("init")>>) BY PlainOne DEF OtherKinds
  <2> QED BY <2>1, <2>2
<1>2. Plain(B)
  <2>1. Plain(<<Item("credit")>>) BY PlainOne DEF OtherKinds
  <2> QED BY <2>1, PlainEmpty
<1>3. Plain(C) BY PlainItems DEF OtherKinds
<1>4. Plain(D) BY ZenonT(40), PlainFour DEF OtherKinds
<1>5. Plain(R)
  <2>1. Plain(Items("report", 5)) /\ Plain(Items("report", 0)) BY PlainItems DEF OtherKinds
  <2> QED BY <2>1 DEF Reports
<1>6. Script = F \o Z BY DEF Script
<1> HIDE DEF A0, A, B, C, D, R
<1>7. Opens(A0 \o A) BY <1>0, <1>1, OpensConcat
<1>8. Opens(A0 \o A \o B) BY <1>2, <1>7, OpensConcat
<1>9. Opens(A0 \o A \o B \o C) BY <1>3, <1>8, OpensConcat
<1>10. Opens(A0 \o A \o B \o C \o D) BY <1>4, <1>9, OpensConcat
<1>11. Opens(F) BY <1>5, <1>10, OpensConcat
<1> HIDE DEF F
<1>12. Z \in Seq(ItemSet) /\ Len(Z) = 2 /\ Z[1] = Item("close") /\ Z[2] = Item("destroy")
  <2>1. Item("close") \in ItemSet /\ Item("destroy") \in ItemSet BY ItemOK DEF Kinds, OtherKinds
  <2> QED BY <2>1
<1> HIDE DEF Z
<1>13. F \in Seq(ItemSet) /\ Len(F) \in Nat /\ Len(F) >= 5 BY <1>11 DEF Opens
<1>14. /\ Script \in Seq(ItemSet) /\ Len(Script) = Len(F) + 2
       /\ \A i \in 1..(Len(F) + 2) : Script[i] = IF i <= Len(F) THEN F[i] ELSE Z[i - Len(F)]
  <2>1. F \in Seq(ItemSet) /\ Z \in Seq(ItemSet) BY <1>12, <1>13
  <2>2. /\ F \o Z \in Seq(ItemSet) /\ Len(F \o Z) = Len(F) + Len(Z)
        /\ \A i \in 1..(Len(F) + Len(Z)) : (F \o Z)[i] = IF i <= Len(F) THEN F[i] ELSE Z[i - Len(F)]
    BY <2>1, ConcatProperties
  <2> QED BY <2>2, <1>6, <1>12
<1>15. Script[Len(Script)] = Item("destroy") /\ Script[Len(Script) - 1] = Item("close")
  BY SMTT(30), <1>12, <1>13, <1>14
<1>16. \A p \in 1..Len(Script) : p \notin {3, 4, 5, Len(Script) - 1} => Script[p][1] \in OtherKinds
  <2> SUFFICES ASSUME NEW p \in 1..Len(Script), p \notin {3, 4, 5, Len(Script) - 1}
               PROVE  Script[p][1] \in OtherKinds
    OBVIOUS
  <2>1. CASE p <= Len(F) BY <2>1, <1>11, <1>13, <1>14 DEF Opens
  <2>2. CASE p > Len(F)
    <3>1. p = Len(Script) BY <2>2, <1>13, <1>14
    <3> QED BY <3>1, <1>15 DEF Item, OtherKinds
  <2> QED BY <2>1, <2>2, <1>13
<1>17. Script[3] = Item("cycle_buffer") /\ Script[4] = Item("cache_line_size") /\ Script[5] = Item("mtu")
  BY <1>11, <1>13, <1>14 DEF Opens
<1>18. \A p \in 1..Len(Script) : Script[p][1] \in Fields => p = Place[Script[p][1]]
  <2> SUFFICES ASSUME NEW p \in 1..Len(Script), Script[p][1] \in Fields PROVE p = Place[Script[p][1]]
    OBVIOUS
  <2>1. Script[p][1] \notin OtherKinds BY DEF Fields, OtherKinds
  <2>2. p # Len(Script) - 1 BY <1>15 DEF Fields, Item
  <2>3. p \in 3..5 BY <2>1, <2>2, <1>16
  <2>4. p = 3 \/ p = 4 \/ p = 5 BY <2>3
  <2> QED BY <2>4, <1>17 DEF Place, Item
<1>19. \A p \in 1..Len(Script) : Script[p][1] = "close" => p = Len(Script) - 1
  BY SMTT(30), <1>16, <1>17 DEF OtherKinds, Item
<1>20. \A f \in Fields : Script[Place[f]] = Item(f)
  BY <1>17 DEF Fields, Place
<1>21. Script[Len(Script)][1] = "destroy" BY <1>15 DEF Item
<1>22. Len(Script) >= 7 BY <1>13, <1>14
<1>23. Script[1][1] = "connect" BY <1>11, <1>13, <1>14 DEF Opens, Item
<1> QED BY <1>14, <1>18, <1>19, <1>20, <1>21, <1>22, <1>23 DEF ScriptOK

(***************************************************************************)
(* The invariant.  Where each side is in the script, and what is on the    *)
(* way to it.                                                              *)
(***************************************************************************)
N == Len(Script)
Ex(p) == Script[p][1] \in Exchanges

\* The item a side is at.
Pos(s) == N + 1 - Len(left[s])

\* What it still has to do for it, a delivered message being written.
Rest(s) == IF sent[s] = "complete" THEN Tail(todo[s]) ELSE todo[s]
\* The next item it has not exchanged.
Eff(s) == IF todo[s] # <<>> /\ Rest(s) \in {<<>>, <<"done">>} THEN Pos(s) + 1 ELSE Pos(s)

\* The client has asked, the server has been asked.
Awaits == Rest("client") # <<>> /\ Head(Rest("client")) = "read"
Owes == Rest("server") # <<>> /\ Head(Rest("server")) = "write"

\* No exchange from a to before b, and none from a on.
Clear(a, b) == \A p \in 1..N : a <= p /\ p < b => ~Ex(p)
ClearFrom(a) == \A p \in 1..N : a <= p => ~Ex(p)

\* The two are level; or the client is ahead by its question, which the server
\* has yet to read or to answer; or the server is ahead by its answer.
Lock(c, v, a, o) ==
  /\ a => c \in 1..N /\ Ex(c)
  /\ o => v \in 1..N /\ Ex(v)
  /\ \/ ~a /\ ~o /\ Clear(c, v) /\ Clear(v, c)
     \/ a /\ ~o /\ v <= c /\ Clear(v, c)
     \/ a /\ o /\ v = c
     \/ a /\ ~o /\ c < v /\ Clear(c + 1, v)

\* x is what the peer of s writes for the exchange at p.
Data(s, p, x) ==
  /\ x.item = Script[p]
  /\ Script[p][1] \in Fields => x.value = opt.host[Peer(s)][Script[p][1]]

\* A side that reads no more; one that has read but half a text, and will fail.
Gone(s) == comm[s] \in {"closed", "failed"}
Stuck(s) == stream[s] # <<>> /\ stream[s][1].piece = 2

Quiet(s) ==
  IF opt.use_rdma_cm THEN arrived[s] = 0
  ELSE stream[s] = <<>> \/ Stuck(s) \/ ClearFrom(Eff(s))

\* What the peer wrote for the exchange at p waits for s, and what follows it
\* will be read by nobody.
Brings(s, p) ==
  IF opt.use_rdma_cm THEN arrived[s] = 1 /\ Data(s, p, buf[s])
  ELSE /\ stream[s] # <<>>
       /\ \/ Stuck(s)
          \/ /\ stream[s][1].piece = 1 /\ Data(s, p, stream[s][1])
             /\ Len(stream[s]) > 1 => stream[s][2].piece = 2 \/ (s = "client" /\ ClearFrom(p + 1))
             /\ Len(stream[s]) > 2 => s = "client" /\ ClearFrom(p + 1)

Asked == Awaits /\ ~Owes /\ Eff("server") <= Eff("client")
Answered == Awaits /\ ~Owes /\ Eff("client") < Eff("server")

LockInv ==
  /\ Lock(Eff("client"), Eff("server"), Awaits, Owes)
  /\ IF Asked THEN Gone("server") \/ Brings("server", Eff("client")) ELSE Quiet("server")
  /\ IF Answered THEN Gone("client") \/ Brings("client", Eff("client")) ELSE Quiet("client")

LeftInv(s) ==
  /\ Len(left[s]) <= N
  /\ \A k \in 1..Len(left[s]) : left[s][k] = Script[N - Len(left[s]) + k]

First(s) == IF s = "client" THEN "write" ELSE "read"
Second(s) == IF s = "client" THEN "read" ELSE "write"
TodoInv(s) ==
  IF Pos(s) \in 1..N /\ Ex(Pos(s))
  THEN IF Script[Pos(s)][1] = "close" /\ ~opt.use_rdma_cm
       THEN todo[s] \in {<<First(s), Second(s), "done">>, <<Second(s), "done">>, <<"done">>}
       ELSE todo[s] \in {<<First(s), Second(s)>>, <<Second(s)>>}
  ELSE todo[s] = <<>>

\* A posted send is the write the side is at, from the buffer.
SentInv(s) ==
  /\ sent[s] # "none" => opt.use_rdma_cm /\ todo[s] # <<>> /\ Head(todo[s]) = "write"
  /\ sent[s] = "posted" => Data(Peer(s), Pos(s), buf[s])

\* Who finds the channel closed has a peer that reads no more.
TcpInv(s) == tcp[s] # "open" => Gone(Peer(s))

\* Who has not joined is at the first item.
Outside == {"off", "listening", "backlog", "resolved", "requesting", "accepted"}
CommInv(s) == comm[s] \in Outside => Pos(s) = 1

\* What was read was meant for the exchange; the server remembers it while it
\* writes.
GotInv ==
  /\ \A s \in Sides : got[s] # None => got[s].item = got[s].for
  /\ todo["server"] # <<>> /\ Head(todo["server"]) = "write" /\ Script[Pos("server")][1] \in Fields =>
       got["server"].value = opt.host["client"][Script[Pos("server")][1]]

\* What the two settle on.
Settlement(f) ==
  LET a == opt.host["client"][f]
      b == opt.host["server"][f] IN
  IF f = "mtu" THEN IF a > b THEN b ELSE a ELSE IF a > b THEN a ELSE b
OwnInv(s) == \A f \in Fields : own[s][f] = IF Pos(s) <= Place[f] THEN opt.host[s][f] ELSE Settlement(f)

Messages == [item : ItemSet \cup {Item("done")}, value : Int, piece : {1, 2}]

Types ==
  /\ opt.num_of_qps \in Nat /\ opt.host \in [Sides -> Hosts]
  /\ left \in [Sides -> Seq(ItemSet)]
  /\ todo \in [Sides -> Seq({"read", "write", "done"})]
  /\ stream \in [Sides -> Seq(Messages)]
  /\ own \in [Sides -> Hosts]
  /\ arrived \in [Sides -> Int]
  /\ DOMAIN comm = Sides /\ DOMAIN sent = Sides /\ DOMAIN tcp = Sides
  /\ DOMAIN buf = Sides /\ DOMAIN got = Sides

SideInv(s) == LeftInv(s) /\ TodoInv(s) /\ SentInv(s) /\ CommInv(s) /\ OwnInv(s)

IInv ==
  /\ Types
  /\ \A s \in Sides : SideInv(s) /\ TcpInv(s)
  /\ GotInv
  /\ LockInv

(***************************************************************************)
(* Going through the script.                                               *)
(***************************************************************************)
LEMMA ScriptStays == ASSUME opt' = opt PROVE Script' = Script
  BY DEF Script, Item, Items, Reports

\* A side is where its position says.
LEMMA HereIs ==
  ASSUME NEW s \in Sides, Types, LeftInv(s)
  PROVE  /\ N \in Nat /\ Len(left[s]) \in Nat
         /\ left[s] = <<>> => Pos(s) = N + 1
         /\ left[s] # <<>> => Pos(s) \in 1..N /\ Here(s) = Script[Pos(s)] /\ Here(s) \in ItemSet
<1>1. ScriptOK BY ScriptFacts DEF Types
<1>2. N \in Nat BY <1>1 DEF N, ScriptOK
<1>3. left[s] \in Seq(ItemSet) /\ Len(left[s]) \in Nat BY DEF Types
<1>4. ASSUME left[s] # <<>> PROVE Pos(s) \in 1..N /\ Here(s) = Script[Pos(s)] /\ Here(s) \in ItemSet
  <2>1. Len(left[s]) >= 1 /\ Head(left[s]) = left[s][1] /\ Head(left[s]) \in ItemSet BY <1>3, <1>4
  <2>2. Pos(s) \in 1..N BY <2>1, <1>2, <1>3 DEF Pos, LeftInv
  <2>3. left[s][1] = Script[N - Len(left[s]) + 1] BY <2>1, <1>3 DEF LeftInv
  <2>4. N - Len(left[s]) + 1 = Pos(s) BY <1>2, <1>3 DEF Pos
  <2> QED BY <1>4, <2>1, <2>2, <2>3, <2>4 DEF Here, AtEnd
<1>5. left[s] = <<>> => Pos(s) = N + 1 BY <1>2 DEF Pos
<1> QED BY <1>2, <1>3, <1>4, <1>5

LEMMA AfterTwo ==
  ASSUME NEW a, NEW b
  PROVE  (\A c : <<a, b>> \o <<c>> = <<a, b, c>>) /\ <<a, b>> \o <<>> = <<a, b>>
<1>1. ASSUME NEW c PROVE <<a, b>> \o <<c>> = <<a, b, c>>
  <2> DEFINE S == {a, b, c}
  <2>1. <<a, b>> \in Seq(S) /\ <<c>> \in Seq(S) /\ <<a, b, c>> \in Seq(S) OBVIOUS
  <2>2. /\ <<a, b>> \o <<c>> \in Seq(S) /\ Len(<<a, b>> \o <<c>>) = Len(<<a, b>>) + Len(<<c>>)
        /\ \A i \in 1..(Len(<<a, b>>) + Len(<<c>>)) :
             (<<a, b>> \o <<c>>)[i] = IF i <= Len(<<a, b>>) THEN <<a, b>>[i] ELSE <<c>>[i - Len(<<a, b>>)]
    BY <2>1, ConcatProperties
  <2>3. Len(<<a, b>>) = 2 /\ Len(<<c>>) = 1 /\ Len(<<a, b, c>>) = 3 OBVIOUS
  <2>4. ASSUME NEW i \in 1..3 PROVE (<<a, b>> \o <<c>>)[i] = <<a, b, c>>[i]
    <3>1. i = 1 \/ i = 2 \/ i = 3 OBVIOUS
    <3> QED BY <3>1, <2>2, <2>3
  <2>5. Len(<<a, b>> \o <<c>>) = 3 BY <2>2, <2>3
  <2> HIDE DEF S
  <2>6. /\ Len(<<a, b>> \o <<c>>) = Len(<<a, b, c>>)
        /\ \A i \in 1..Len(<<a, b>> \o <<c>>) : (<<a, b>> \o <<c>>)[i] = <<a, b, c>>[i]
    BY <2>3, <2>4, <2>5
  <2> QED BY <2>1, <2>2, <2>6, SeqEqual
<1>2. <<a, b>> \in Seq({a, b}) OBVIOUS
<1>3. <<a, b>> \o <<>> = <<a, b>> BY <1>2, ConcatEmptySeq
<1> QED BY <1>1, <1>3

\* What a side does for an exchange, and what of it is left.
LEMMA PartsAre ==
  ASSUME NEW s \in Sides, NEW kind
  PROVE  Parts(s, kind) =
           IF kind \notin Exchanges THEN <<>>
           ELSE IF kind = "close" /\ ~opt.use_rdma_cm THEN <<First(s), Second(s), "done">>
           ELSE <<First(s), Second(s)>>
<1>1. /\ <<"write", "read">> \o <<"done">> = <<"write", "read", "done">>
      /\ <<"read", "write">> \o <<"done">> = <<"read", "write", "done">>
      /\ <<"write", "read">> \o <<>> = <<"write", "read">>
      /\ <<"read", "write">> \o <<>> = <<"read", "write">>
  BY AfterTwo
<1>2. s = "client" \/ s = "server" BY DEF Sides
<1> QED BY <1>1, <1>2 DEF Parts, Goodbye, First, Second

\* Advance moves a side by one item ...
LEMMA ForwardLeft ==
  ASSUME NEW s \in Sides, Types, LeftInv(s), left[s] # <<>>, opt' = opt, Advance(s)
  PROVE  /\ left' \in [Sides -> Seq(ItemSet)]
         /\ LeftInv(s)' /\ Pos(s)' = Pos(s) + 1
         /\ \A t \in Sides : t # s => left'[t] = left[t] /\ todo'[t] = todo[t]
<1>1. left[s] \in Seq(ItemSet) /\ Len(left[s]) \in Nat /\ N \in Nat BY HereIs DEF Types
<1>2. left' = [left EXCEPT ![s] = Tail(left[s])] BY DEF Advance
<1>3. left'[s] = Tail(left[s]) BY <1>2 DEF Types
<1>4. /\ Tail(left[s]) \in Seq(ItemSet) /\ Len(Tail(left[s])) = Len(left[s]) - 1
      /\ \A k \in 1..(Len(left[s]) - 1) : Tail(left[s])[k] = left[s][k + 1]
  BY <1>1, HeadTailProperties
<1>5. left' \in [Sides -> Seq(ItemSet)] BY <1>2, <1>4 DEF Types
<1>6. Script' = Script /\ N' = N BY ScriptStays DEF N
<1>7. Pos(s)' = Pos(s) + 1
  <2>1. Len(left'[s]) = Len(left[s]) - 1 BY <1>3, <1>4
  <2>2. Pos(s)' = N + 1 - Len(left'[s]) BY <1>6 DEF Pos
  <2>3. Pos(s) = N + 1 - Len(left[s]) BY DEF Pos
  <2> QED BY <2>1, <2>2, <2>3, <1>1
<1>8. LeftInv(s)'
  <2>1. \A k \in 1..Len(left'[s]) : left'[s][k] = Script[N - Len(left'[s]) + k]
    <3> SUFFICES ASSUME NEW k \in 1..(Len(left[s]) - 1)
                 PROVE  Tail(left[s])[k] = Script[N - (Len(left[s]) - 1) + k]
      BY <1>3, <1>4
    <3>1. k + 1 \in 1..Len(left[s]) BY <1>1
    <3>2. Tail(left[s])[k] = left[s][k + 1] BY <1>4
    <3>3. left[s][k + 1] = Script[N - Len(left[s]) + (k + 1)] BY <3>1 DEF LeftInv
    <3>4. N - Len(left[s]) + (k + 1) = N - (Len(left[s]) - 1) + k BY <1>1
    <3> QED BY <3>2, <3>3, <3>4
  <2>2. Len(left'[s]) <= N BY <1>1, <1>3, <1>4 DEF LeftInv
  <2> QED BY <1>6, <2>1, <2>2 DEF LeftInv
<1>9. \A t \in Sides : t # s => left'[t] = left[t] /\ todo'[t] = todo[t] BY <1>2 DEF Advance, Types
<1> QED BY <1>5, <1>7, <1>8, <1>9

\* ... and gives it what is to be done there.
LEMMA ForwardTodo ==
  ASSUME NEW s \in Sides, Types, LeftInv(s), left[s] # <<>>, opt' = opt, Advance(s)
  PROVE  /\ todo' \in [Sides -> Seq({"read", "write", "done"})]
         /\ TodoInv(s)'
         /\ todo'[s] = <<>> \/ Head(todo'[s]) = First(s)
         /\ todo'[s] # <<"done">>
<1>1. left[s] \in Seq(ItemSet) /\ Len(left[s]) \in Nat /\ N \in Nat /\ Len(left[s]) > 0
  <2>1. left[s] \in Seq(ItemSet) /\ Len(left[s]) \in Nat /\ N \in Nat BY HereIs DEF Types
  <2>2. Len(left[s]) # 0 BY <2>1, EmptySeq
  <2> QED BY <2>1, <2>2
<1>2. todo' = [todo EXCEPT ![s] = IF Len(left[s]) = 1 THEN <<>> ELSE Parts(s, left[s][2][1])] BY DEF Advance
<1>3. todo'[s] = IF Len(left[s]) = 1 THEN <<>> ELSE Parts(s, left[s][2][1]) BY <1>2 DEF Types
<1>4. Pos(s)' = Pos(s) + 1 /\ Script' = Script /\ N' = N BY ForwardLeft, ScriptStays DEF N
<1>5. CASE Len(left[s]) = 1
  <2>1. Pos(s)' = N + 1 BY <1>1, <1>4, <1>5 DEF Pos
  <2>2. Pos(s)' \notin 1..N BY <1>1, <2>1
  <2>3. todo'[s] = <<>> BY <1>3, <1>5
  <2>4. TodoInv(s)' BY <2>2, <2>3, <1>4 DEF TodoInv
  <2>5. todo' \in [Sides -> Seq({"read", "write", "done"})] BY <1>2, <1>5 DEF Types
  <2> QED BY <2>3, <2>4, <2>5
<1>6. CASE Len(left[s]) # 1
  <2>0. 2 \in 1..Len(left[s]) /\ Len(left[s]) <= N
    <3>1. Len(left[s]) <= N BY DEF LeftInv
    <3>2. \A n \in Nat : n > 0 /\ n # 1 => n >= 2 OBVIOUS
    <3>3. Len(left[s]) \in Nat /\ Len(left[s]) > 0 BY <1>1
    <3>4. Len(left[s]) >= 2 BY <3>2, <3>3, <1>6
    <3> QED BY <3>1, <3>4, <1>1
  <2>1. left[s][2] = Script[N - Len(left[s]) + 2] BY <2>0 DEF LeftInv
  <2>2. Pos(s)' = N - Len(left[s]) + 2
    <3>1. Pos(s) = N + 1 - Len(left[s]) BY DEF Pos
    <3> QED BY <3>1, <1>1, <1>4
  <2>3. Pos(s)' \in 1..N BY <2>0, <2>2, <1>1
  <2>4. todo'[s] = Parts(s, Script[Pos(s)'][1]) BY <1>3, <1>6, <2>1, <2>2
  <2> DEFINE F == First(s)  S == Second(s)
  <2>5. todo'[s] = IF Script[Pos(s)'][1] \notin Exchanges THEN <<>>
                   ELSE IF Script[Pos(s)'][1] = "close" /\ ~opt.use_rdma_cm THEN <<F, S, "done">>
                   ELSE <<F, S>>
    BY <2>4, PartsAre
  <2>6. F \in {"read", "write"} /\ S \in {"read", "write"} BY DEF First, Second
  <2>7. TodoInv(s)' BY <1>4, <2>3, <2>5 DEF TodoInv, Ex
  <2>8. todo'[s] = <<>> \/ Head(todo'[s]) = First(s) BY <2>5
  <2>11. todo'[s] # <<"done">> BY <2>5, <2>6
  <2> HIDE DEF F, S
  <2>9. todo'[s] \in Seq({"read", "write", "done"})
    <3>1. F \in {"read", "write", "done"} /\ S \in {"read", "write", "done"} BY <2>6
    <3>2. /\ <<>> \in Seq({"read", "write", "done"})
          /\ <<F, S>> \in Seq({"read", "write", "done"})
          /\ <<F, S, "done">> \in Seq({"read", "write", "done"})
      BY <3>1
    <3> QED BY <2>5, <3>2
  <2>10. todo' \in [Sides -> Seq({"read", "write", "done"})] BY <1>2, <1>3, <2>9 DEF Types
  <2> QED BY <2>7, <2>8, <2>10, <2>11
<1> QED BY <1>5, <1>6

\* A side that has not moved is where it was.
LEMMA Unmoved ==
  ASSUME NEW t \in Sides, opt' = opt, left'[t] = left[t], todo'[t] = todo[t], sent'[t] = sent[t]
  PROVE  /\ Pos(t)' = Pos(t) /\ Rest(t)' = Rest(t) /\ Eff(t)' = Eff(t)
         /\ LeftInv(t) => LeftInv(t)'
         /\ TodoInv(t) => TodoInv(t)'
<1>1. Script' = Script /\ N' = N BY ScriptStays DEF N
<1>2. Pos(t)' = Pos(t) BY <1>1 DEF Pos
<1>3. Rest(t)' = Rest(t) BY DEF Rest
<1>4. Eff(t)' = Eff(t) BY <1>2, <1>3 DEF Eff
<1>5. LeftInv(t) => LeftInv(t)' BY <1>1 DEF LeftInv
<1>6. TodoInv(t) => TodoInv(t)' BY <1>1, <1>2 DEF TodoInv, Ex, First, Second
<1> QED BY <1>2, <1>3, <1>4, <1>5, <1>6

\* What the script says at the places that matter.
LEMMA Landmarks ==
  ASSUME Types
  PROVE  /\ N \in Nat /\ N >= 7 /\ ~Ex(1) /\ ~Ex(N)
         /\ \A f \in Fields : Place[f] \in 1..N /\ Ex(Place[f])
         /\ \A p \in 1..N : Script[p][1] \in Fields => p = Place[Script[p][1]]
         /\ \A p \in 1..N : Script[p][1] = "close" => p = N - 1
         /\ \A f \in Fields : Script[Place[f]][1] = f
         /\ Script \in Seq(ItemSet)
<1>1. ScriptOK BY ScriptFacts DEF Types
<1>2. N \in Nat /\ N >= 7 BY <1>1 DEF ScriptOK, N
<1>3. ~Ex(1) /\ ~Ex(N) BY <1>1 DEF ScriptOK, N, Ex, Exchanges, HandShakes
<1>4. \A f \in Fields : Script[Place[f]][1] = f
  <2>1. \A f \in Fields : Item(f)[1] = f BY DEF Item
  <2> QED BY <2>1, <1>1 DEF ScriptOK
<1>5. \A f \in Fields : Place[f] \in 1..N BY <1>2 DEF Fields, Place
<1>6. \A f \in Fields : Ex(Place[f]) BY <1>4 DEF Ex, Exchanges, Fields
<1> QED BY <1>1, <1>2, <1>3, <1>4, <1>5, <1>6 DEF ScriptOK, N

LEMMA Tails ==
  ASSUME NEW a, NEW b, NEW c
  PROVE  /\ Tail(<<a, b>>) = <<b>> /\ Tail(<<a, b, c>>) = <<b, c>> /\ Tail(<<a>>) = <<>>
         /\ Head(<<a, b>>) = a /\ Head(<<a, b, c>>) = a /\ Head(<<a>>) = a
         /\ Len(<<a, b>>) = 2 /\ Len(<<a, b, c>>) = 3 /\ Len(<<a>>) = 1
<1> DEFINE S == {a, b, c}
<1>1. <<a>> \in Seq(S) /\ <<a, b>> \in Seq(S) /\ <<a, b, c>> \in Seq(S) OBVIOUS
<1> QED BY <1>1

\* A side has something to do just where something is exchanged.
LEMMA Busy ==
  ASSUME NEW s \in Sides, Types, LeftInv(s), TodoInv(s), todo[s] # <<>>
  PROVE  /\ Pos(s) \in 1..N /\ Ex(Pos(s))
         /\ left[s] # <<>> /\ Here(s) = Script[Pos(s)]
         /\ \/ Len(todo[s]) # 1 /\ Head(todo[s]) = First(s)
               /\ Tail(todo[s]) \in {<<Second(s)>>, <<Second(s), "done">>}
            \/ Len(todo[s]) = 1 /\ todo[s] = <<Second(s)>>
            \/ Len(todo[s]) # 1 /\ todo[s] = <<Second(s), "done">>
            \/ todo[s] = <<"done">>
         /\ Head(todo[s]) = "done" => Script[Pos(s)][1] = "close" /\ ~opt.use_rdma_cm
         /\ Len(todo[s]) = 1 /\ Head(todo[s]) # "done" =>
              ~(Script[Pos(s)][1] = "close" /\ ~opt.use_rdma_cm)
         /\ Len(todo[s]) # 1 /\ Head(todo[s]) = Second(s) =>
              Script[Pos(s)][1] = "close" /\ ~opt.use_rdma_cm
<1>1. Pos(s) \in 1..N /\ Ex(Pos(s)) BY DEF TodoInv
<1>2. left[s] # <<>> /\ Here(s) = Script[Pos(s)]
  <2>1. N \in Nat BY Landmarks
  <2>2. left[s] = <<>> => Pos(s) = N + 1 BY HereIs
  <2>3. left[s] # <<>> BY <1>1, <2>1, <2>2
  <2> QED BY <2>3, HereIs
<1> DEFINE F == First(s)  S == Second(s)
<1>3. IF Script[Pos(s)][1] = "close" /\ ~opt.use_rdma_cm
      THEN todo[s] \in {<<F, S, "done">>, <<S, "done">>, <<"done">>}
      ELSE todo[s] \in {<<F, S>>, <<S>>}
  BY <1>1 DEF TodoInv
<1>4. S # "done" /\ F # "done" /\ F # S BY DEF First, Second
<1> HIDE DEF F, S
<1>5. \/ Len(todo[s]) # 1 /\ Head(todo[s]) = F /\ Tail(todo[s]) \in {<<S>>, <<S, "done">>}
      \/ Len(todo[s]) = 1 /\ todo[s] = <<S>>
      \/ Len(todo[s]) # 1 /\ todo[s] = <<S, "done">>
      \/ todo[s] = <<"done">>
  <2>1. CASE todo[s] = <<F, S, "done">> BY <2>1, Tails
  <2>2. CASE todo[s] = <<F, S>> BY <2>2, Tails
  <2>3. CASE todo[s] = <<S, "done">> BY <2>3
  <2>4. CASE todo[s] = <<S>> BY <2>4, Tails
  <2> QED BY <2>1, <2>2, <2>3, <2>4, <1>3
<1>6. Head(todo[s]) = "done" => Script[Pos(s)][1] = "close" /\ ~opt.use_rdma_cm BY <1>3, <1>4
<1>7. Len(todo[s]) = 1 /\ Head(todo[s]) # "done" => ~(Script[Pos(s)][1] = "close" /\ ~opt.use_rdma_cm)
  BY <1>3, <1>4
<1>8. Len(todo[s]) # 1 /\ Head(todo[s]) = S => Script[Pos(s)][1] = "close" /\ ~opt.use_rdma_cm
  BY <1>3, <1>4
<1> QED BY <1>1, <1>2, <1>5, <1>6, <1>7, <1>8 DEF F, S

\* On to the next item.
LEMMA Forward ==
  ASSUME NEW s \in Sides, Types, LeftInv(s), left[s] # <<>>, opt' = opt, Advance(s), sent'[s] = "none"
  PROVE  /\ left' \in [Sides -> Seq(ItemSet)] /\ todo' \in [Sides -> Seq({"read", "write", "done"})]
         /\ LeftInv(s)' /\ TodoInv(s)' /\ SentInv(s)'
         /\ Pos(s)' = Pos(s) + 1 /\ Eff(s)' = Pos(s) + 1
         /\ Rest(s)' = <<>> \/ Head(Rest(s)') = First(s)
         /\ todo'[s] = <<>> \/ Head(todo'[s]) = First(s)
         /\ \A t \in Sides : t # s => left'[t] = left[t] /\ todo'[t] = todo[t]
<1>1. /\ left' \in [Sides -> Seq(ItemSet)] /\ LeftInv(s)' /\ Pos(s)' = Pos(s) + 1
      /\ \A t \in Sides : t # s => left'[t] = left[t] /\ todo'[t] = todo[t]
  BY ForwardLeft
<1>2. /\ todo' \in [Sides -> Seq({"read", "write", "done"})] /\ TodoInv(s)'
      /\ todo'[s] = <<>> \/ Head(todo'[s]) = First(s)
      /\ todo'[s] # <<"done">>
  BY ForwardTodo
<1>3. Rest(s)' = todo'[s] BY DEF Rest
<1>4. Eff(s)' = Pos(s)' BY <1>2, <1>3 DEF Eff
<1>5. SentInv(s)' BY DEF SentInv
<1> QED BY <1>1, <1>2, <1>3, <1>4, <1>5

(***************************************************************************)
(* A part of an exchange.                                                  *)
(***************************************************************************)
\* The first part of two.
LEMMA PartFirst ==
  ASSUME NEW s \in Sides, NEW msg, Types, LeftInv(s), TodoInv(s), todo[s] # <<>>,
         Head(todo[s]) = First(s), opt' = opt, PartOver(s, msg), sent'[s] = "none"
  PROVE  /\ left' = left /\ todo' \in [Sides -> Seq({"read", "write", "done"})]
         /\ own' = own
         /\ LeftInv(s)' /\ TodoInv(s)' /\ SentInv(s)'
         /\ Pos(s)' = Pos(s) /\ Eff(s)' = Pos(s)
         /\ Rest(s)' = Tail(todo[s]) /\ todo'[s] = Tail(todo[s])
         /\ Tail(todo[s]) # <<>> /\ Head(Tail(todo[s])) = Second(s)
         /\ \A t \in Sides : t # s => todo'[t] = todo[t]
<1>1. First(s) # Second(s) /\ First(s) # "done" /\ Second(s) # "done"
      /\ Second(s) \in {"read", "write", "done"}
  BY DEF First, Second
<1>2. Head(<<Second(s)>>) = Second(s) /\ Head(<<Second(s), "done">>) = Second(s) /\ Head(<<"done">>) = "done"
  BY Tails
<1>3. Len(todo[s]) # 1 /\ Tail(todo[s]) \in {<<Second(s)>>, <<Second(s), "done">>}
  BY <1>1, <1>2, Busy
<1>4. todo' = [todo EXCEPT ![s] = Tail(todo[s])] /\ left' = left /\ own' = own BY <1>3 DEF PartOver
<1>5. todo'[s] = Tail(todo[s]) /\ \A t \in Sides : t # s => todo'[t] = todo[t] BY <1>4 DEF Types
<1>6. Head(Tail(todo[s])) = Second(s) BY <1>2, <1>3
<1>7. Tail(todo[s]) # <<>> /\ Tail(todo[s]) # <<"done">>
  <2>1. <<Second(s)>> # <<"done">> /\ <<Second(s), "done">> # <<"done">> BY <1>1, <1>2
  <2>2. <<Second(s)>> # <<>> /\ <<Second(s), "done">> # <<>> OBVIOUS
  <2> QED BY <2>1, <2>2, <1>3
<1>8. Tail(todo[s]) \in Seq({"read", "write", "done"})
  <2>1. <<Second(s)>> \in Seq({"read", "write", "done"}) BY <1>1
  <2>2. <<Second(s), "done">> \in Seq({"read", "write", "done"}) BY <1>1
  <2> QED BY <2>1, <2>2, <1>3
<1>9. todo' \in [Sides -> Seq({"read", "write", "done"})] BY <1>4, <1>8 DEF Types
<1>10. Script' = Script /\ N' = N BY ScriptStays DEF N
<1>11. Pos(s)' = Pos(s) /\ LeftInv(s)'
  <2>1. LeftInv(s) BY Busy
  <2> QED BY <2>1, <1>4, <1>10 DEF Pos, LeftInv
<1>12. Rest(s)' = todo'[s] BY DEF Rest
<1>13. Eff(s)' = Pos(s)
  <2>1. Rest(s)' # <<>> /\ Rest(s)' # <<"done">> BY <1>5, <1>7, <1>12
  <2> QED BY <2>1, <1>11 DEF Eff
<1>14. TodoInv(s)'
  <2>1. Pos(s) \in 1..N /\ Ex(Pos(s)) BY Busy
  <2>2. IF Script[Pos(s)][1] = "close" /\ ~opt.use_rdma_cm
        THEN Tail(todo[s]) = <<Second(s), "done">> ELSE Tail(todo[s]) = <<Second(s)>>
    <3>1. IF Script[Pos(s)][1] = "close" /\ ~opt.use_rdma_cm
          THEN todo[s] \in {<<First(s), Second(s), "done">>, <<Second(s), "done">>, <<"done">>}
          ELSE todo[s] \in {<<First(s), Second(s)>>, <<Second(s)>>}
      BY <2>1 DEF TodoInv
    <3>2. todo[s] # <<Second(s), "done">> /\ todo[s] # <<"done">> /\ todo[s] # <<Second(s)>>
      BY <1>1, <1>2
    <3>3. /\ Tail(<<First(s), Second(s), "done">>) = <<Second(s), "done">>
          /\ Tail(<<First(s), Second(s)>>) = <<Second(s)>>
      BY Tails
    <3> QED BY <3>1, <3>2, <3>3
  <2> QED BY <2>1, <2>2, <1>5, <1>10, <1>11 DEF TodoInv, Ex, First, Second
<1>15. SentInv(s)' BY DEF SentInv
<1> QED BY <1>4, <1>5, <1>6, <1>7, <1>9, <1>11, <1>12, <1>13, <1>14, <1>15

\* What the two make of their values is the same.
LEMMA SettlesAlike ==
  ASSUME NEW s \in Sides, NEW v, Types, LeftInv(s), TodoInv(s), todo[s] # <<>>, OwnInv(s),
         opt' = opt, Settled(s, v), Pos(s)' = Pos(s) + 1,
         Here(s)[1] \in Fields => v = opt.host[Peer(s)][Here(s)[1]]
  PROVE  /\ own' \in [Sides -> Hosts] /\ OwnInv(s)'
         /\ \A t \in Sides : t # s => own'[t] = own[t]
<1> DEFINE p == Pos(s)
           kind == Here(s)[1]
<1>1. p \in 1..N /\ kind = Script[p][1] /\ Ex(p) BY Busy
<1>2. N \in Nat BY Landmarks
<1>3. own[s] \in Hosts /\ opt.host[s] \in Hosts /\ opt.host[Peer(s)] \in Hosts
  BY DEF Types, Sides, Peer
<1>4. \A f \in Fields : Settlement(f)' = Settlement(f) BY DEF Settlement
<1>5. Fields = {"cycle_buffer", "cache_line_size", "mtu"} BY DEF Fields
<1>6. CASE kind \notin Fields
  <2>1. own' = own BY <1>6, <1>5 DEF Settled
  <2>2. \A f \in Fields : p # Place[f]
    <3>1. \A f \in Fields : Script[Place[f]][1] = f BY Landmarks
    <3> QED BY <3>1, <1>1, <1>6
  <2>3. \A f \in Fields : Place[f] \in Nat /\ (p + 1 <= Place[f] <=> p <= Place[f])
    BY <2>2, <1>1, <1>2 DEF Fields, Place
  <2>4. OwnInv(s)'
    <3> SUFFICES ASSUME NEW f \in Fields
                 PROVE  own[s][f] = IF p + 1 <= Place[f] THEN opt.host[s][f] ELSE Settlement(f)
      BY <2>1, <1>4 DEF OwnInv
    <3> QED BY <2>3 DEF OwnInv
  <2> QED BY <2>1, <2>4 DEF Types
<1>7. CASE kind \in Fields
  <2> DEFINE ours == opt.host[s][kind]
             theirs == opt.host[Peer(s)][kind]
  <2>1. p = Place[kind] BY <1>1, <1>7, Landmarks
  <2>2. own[s][kind] = ours /\ v = theirs BY SMTT(30), <2>1, <1>1, <1>2, <1>7 DEF OwnInv
  <2>3. /\ kind = "mtu" => ours \in 1..5 /\ theirs \in 1..5
        /\ kind # "mtu" => ours \in Nat /\ theirs \in Nat
    BY <1>3, <1>5, <1>7 DEF Hosts
  <2>4. own' = [own EXCEPT ![s][kind] = Settlement(kind)]
    <3>1. s = "client" \/ s = "server" BY DEF Sides
    <3>2. Settlement(kind) = IF kind = "mtu" THEN IF ours > theirs THEN theirs ELSE ours
                             ELSE IF theirs > ours THEN theirs ELSE ours
      BY <3>1, <2>3, <1>5, <1>7 DEF Settlement, Peer
    <3>3. CASE kind = "mtu" BY <3>2, <3>3, <2>2, <2>3 DEF Settled
    <3>4. CASE kind # "mtu" BY <3>2, <3>4, <2>2, <2>3, <1>5, <1>7 DEF Settled
    <3> QED BY <3>3, <3>4
  <2>5. /\ kind = "mtu" => Settlement(kind) \in 1..5
        /\ kind # "mtu" => Settlement(kind) \in Nat
    <3>1. s = "client" \/ s = "server" BY DEF Sides
    <3> QED BY <3>1, <2>3 DEF Settlement, Peer
  <2>6. own' \in [Sides -> Hosts] BY <2>4, <2>5, <1>3, <1>5, <1>7 DEF Types, Hosts
  <2>7. \A t \in Sides : t # s => own'[t] = own[t] BY <2>4 DEF Types
  <2>8. OwnInv(s)'
    <3> SUFFICES ASSUME NEW f \in Fields
                 PROVE  own'[s][f] = IF p + 1 <= Place[f] THEN opt.host[s][f] ELSE Settlement(f)
      BY <1>4 DEF OwnInv
    <3>1. own'[s][f] = IF f = kind THEN Settlement(kind) ELSE own[s][f]
      BY <2>4, <1>3, <1>5 DEF Types, Hosts
    <3>2. f # kind => p # Place[f]
      BY <2>1, <1>7 DEF Fields, Place
    <3>3. Place[f] \in Nat BY DEF Fields, Place
    <3> QED BY SMTT(30), <3>1, <3>2, <3>3, <2>1, <1>1, <1>2 DEF OwnInv
  <2> QED BY <2>6, <2>7, <2>8
<1> QED BY <1>6, <1>7

\* The second part of two, with which the exchange is over but for a goodbye.
LEMMA PartSecond ==
  ASSUME NEW s \in Sides, NEW msg, Types, LeftInv(s), TodoInv(s), OwnInv(s), todo[s] # <<>>,
         Head(todo[s]) = Second(s), opt' = opt, PartOver(s, msg), sent'[s] = "none",
         Here(s)[1] \in Fields => msg.value = opt.host[Peer(s)][Here(s)[1]]
  PROVE  /\ left' \in [Sides -> Seq(ItemSet)] /\ todo' \in [Sides -> Seq({"read", "write", "done"})]
         /\ own' \in [Sides -> Hosts]
         /\ LeftInv(s)' /\ TodoInv(s)' /\ SentInv(s)' /\ OwnInv(s)'
         /\ Pos(s)' \in {Pos(s), Pos(s) + 1} /\ Eff(s)' = Pos(s) + 1
         /\ Rest(s)' = <<>> \/ Head(Rest(s)') \in {First(s), "done"}
         /\ todo'[s] = <<>> \/ Head(todo'[s]) \in {First(s), "done"}
         /\ Tail(todo[s]) \in {<<>>, <<"done">>}
         /\ \A t \in Sides : t # s => left'[t] = left[t] /\ todo'[t] = todo[t] /\ own'[t] = own[t]
<1>1. First(s) # Second(s) /\ First(s) # "done" /\ Second(s) # "done" BY DEF First, Second
<1>2. Head(<<"done">>) = "done" BY Tails
<1>3. Pos(s) \in 1..N /\ Ex(Pos(s)) /\ left[s] # <<>> /\ Here(s) = Script[Pos(s)] BY Busy
<1>4. CASE Len(todo[s]) = 1
  <2>1. todo[s] = <<Second(s)>> BY <1>1, <1>2, <1>4, Busy
  <2>2. Tail(todo[s]) = <<>> BY <2>1, Tails
  <2>3. Advance(s) /\ Settled(s, msg.value) BY <1>4 DEF PartOver
  <2>4. /\ left' \in [Sides -> Seq(ItemSet)] /\ todo' \in [Sides -> Seq({"read", "write", "done"})]
        /\ LeftInv(s)' /\ TodoInv(s)' /\ SentInv(s)'
        /\ Pos(s)' = Pos(s) + 1 /\ Eff(s)' = Pos(s) + 1
        /\ Rest(s)' = <<>> \/ Head(Rest(s)') = First(s)
        /\ todo'[s] = <<>> \/ Head(todo'[s]) = First(s)
        /\ \A t \in Sides : t # s => left'[t] = left[t] /\ todo'[t] = todo[t]
    BY <1>3, <2>3, Forward
  <2>5. /\ own' \in [Sides -> Hosts] /\ OwnInv(s)'
        /\ \A t \in Sides : t # s => own'[t] = own[t]
    <3>1. Pos(s)' = Pos(s) + 1 BY <2>4
    <3> QED BY <3>1, <2>3, SettlesAlike
  <2> QED BY <2>2, <2>4, <2>5
<1>5. CASE Len(todo[s]) # 1
  <2>1. Script[Pos(s)][1] = "close" /\ ~opt.use_rdma_cm BY <1>5, Busy
  <2>2. todo[s] = <<Second(s), "done">>
    <3>1. Head(todo[s]) # First(s) BY <1>1
    <3>2. Len(<<"done">>) = 1 BY Tails
    <3> QED BY <3>1, <3>2, <1>5, Busy
  <2>3. Tail(todo[s]) = <<"done">> BY <2>2, Tails
  <2>4. todo' = [todo EXCEPT ![s] = <<"done">>] /\ left' = left /\ own' = own BY <1>5, <2>3 DEF PartOver
  <2>5. todo'[s] = <<"done">> /\ \A t \in Sides : t # s => todo'[t] = todo[t] BY <2>4 DEF Types
  <2>6. todo' \in [Sides -> Seq({"read", "write", "done"})]
    <3>1. <<"done">> \in Seq({"read", "write", "done"}) OBVIOUS
    <3> QED BY <3>1, <2>4 DEF Types
  <2>7. Script' = Script /\ N' = N BY ScriptStays DEF N
  <2>8. Pos(s)' = Pos(s) /\ LeftInv(s)' BY <2>4, <2>7 DEF Pos, LeftInv
  <2>9. Rest(s)' = <<"done">> BY <2>5 DEF Rest
  <2>10. Eff(s)' = Pos(s) + 1
    <3>1. <<"done">> # <<>> OBVIOUS
    <3> QED BY <3>1, <2>5, <2>8, <2>9 DEF Eff
  <2>11. TodoInv(s)' BY <1>3, <2>1, <2>5, <2>7, <2>8 DEF TodoInv, Ex
  <2>12. OwnInv(s)'
    <3>1. \A f \in Fields : Settlement(f)' = Settlement(f) BY DEF Settlement
    <3> QED BY <3>1, <2>4, <2>8 DEF OwnInv
  <2>13. SentInv(s)' BY DEF SentInv
  <2>14. left' \in [Sides -> Seq(ItemSet)] /\ own' \in [Sides -> Hosts] BY <2>4 DEF Types
  <2> QED BY <1>2, <2>3, <2>4, <2>5, <2>6, <2>8, <2>9, <2>10, <2>11, <2>12, <2>13, <2>14
<1> QED BY <1>4, <1>5

(***************************************************************************)
(* The two sides in step.                                                  *)
(***************************************************************************)
\* The client asks when it is at an exchange and nothing is on its way.
LEMMA ClientAsks ==
  ASSUME NEW c \in 1..N, NEW v \in Int, Types, Lock(c, v, FALSE, FALSE), Ex(c)
  PROVE  v <= c /\ Lock(c, v, TRUE, FALSE)
<1>1. N \in Nat BY Landmarks
<1> QED BY <1>1 DEF Lock, Clear

\* The server can only be asked what it is at.
LEMMA ServerHears ==
  ASSUME NEW c \in Int, NEW v \in 1..N, Types, Lock(c, v, TRUE, FALSE), Ex(v), v <= c
  PROVE  v = c /\ Lock(c, v, TRUE, TRUE)
<1>1. N \in Nat BY Landmarks
<1> QED BY <1>1 DEF Lock, Clear

\* When the server is asked, both are at the same exchange.
LEMMA ServerAnswers ==
  ASSUME NEW c \in Int, NEW v \in Int, NEW a \in BOOLEAN, Types, Lock(c, v, a, TRUE)
  PROVE  a /\ v = c /\ c \in 1..N /\ Ex(c) /\ Lock(c, v + 1, TRUE, FALSE)
<1>1. N \in Nat BY Landmarks
<1> QED BY <1>1 DEF Lock, Clear

\* The client has its answer and is level again.
LEMMA ClientHears ==
  ASSUME NEW c \in Int, NEW v \in Int, Types, Lock(c, v, TRUE, FALSE), c < v
  PROVE  Lock(c + 1, v, FALSE, FALSE)
<1>1. N \in Nat BY Landmarks
<1> QED BY <1>1 DEF Lock, Clear

\* Neither runs past an exchange while the other is at one.
LEMMA ClientSkips ==
  ASSUME NEW c \in 1..N, NEW v \in Int, NEW o \in BOOLEAN, Types, Lock(c, v, FALSE, o), ~Ex(c)
  PROVE  Lock(c + 1, v, FALSE, o)
<1>1. N \in Nat BY Landmarks
<1> QED BY <1>1 DEF Lock, Clear

LEMMA ServerSkips ==
  ASSUME NEW c \in Int, NEW v \in 1..N, NEW a \in BOOLEAN, Types, Lock(c, v, a, FALSE), ~Ex(v)
  PROVE  /\ Lock(c, v + 1, a, FALSE)
         /\ a => (v <= c <=> v + 1 <= c)
<1>1. N \in Nat BY Landmarks
<1> QED BY <1>1 DEF Lock, Clear

\* The script does not change.
LEMMA LockStays ==
  ASSUME NEW c, NEW v, NEW a, NEW o, opt' = opt
  PROVE  Lock(c, v, a, o)' <=> Lock(c, v, a, o)
<1>1. Script' = Script /\ N' = N BY ScriptStays DEF N
<1> QED BY <1>1 DEF Lock, Clear, Ex

(***************************************************************************)
(* What stays.                                                             *)
(***************************************************************************)
LEMMA SideStays ==
  ASSUME NEW t \in Sides, SideInv(t), opt' = opt, left'[t] = left[t], todo'[t] = todo[t],
         sent'[t] = sent[t], own'[t] = own[t],
         buf'[t] = buf[t] \/ sent[t] # "posted",
         comm'[t] = comm[t] \/ comm'[t] \notin Outside
  PROVE  SideInv(t)'
<1>1. Script' = Script /\ N' = N BY ScriptStays DEF N
<1>2. LeftInv(t)' /\ TodoInv(t)' /\ Pos(t)' = Pos(t) BY Unmoved DEF SideInv
<1>3. SentInv(t)'
  <2>1. ASSUME NEW p, NEW x PROVE Data(Peer(t), p, x)' <=> Data(Peer(t), p, x)
    BY <1>1 DEF Data
  <2> QED BY <2>1, <1>1, <1>2 DEF SideInv, SentInv, Data
<1>4. CommInv(t)' BY <1>2 DEF SideInv, CommInv
<1>5. OwnInv(t)'
  <2>1. \A f \in Fields : Settlement(f)' = Settlement(f) BY DEF Settlement
  <2> QED BY <2>1, <1>2 DEF SideInv, OwnInv
<1> QED BY <1>2, <1>3, <1>4, <1>5 DEF SideInv

\* What waits for a side still waits for it.
LEMMA BringsStays ==
  ASSUME NEW t \in Sides, NEW p, opt' = opt, Brings(t, p),
         stream'[t] = stream[t], arrived'[t] = arrived[t], buf'[t] = buf[t] \/ ~opt.use_rdma_cm
  PROVE  Brings(t, p)'
<1>1. Script' = Script /\ N' = N BY ScriptStays DEF N
<1>2. ASSUME NEW x PROVE Data(t, p, x)' <=> Data(t, p, x) BY <1>1 DEF Data
<1>3. Stuck(t)' <=> Stuck(t) BY DEF Stuck
<1>4. ClearFrom(p + 1)' <=> ClearFrom(p + 1) BY <1>1 DEF ClearFrom, Ex
<1>5. CASE opt.use_rdma_cm
  <2>1. arrived[t] = 1 /\ Data(t, p, buf[t]) BY <1>5 DEF Brings
  <2>2. buf'[t] = buf[t] BY <1>5
  <2>3. Data(t, p, buf[t])' BY <2>1, <2>2, <1>1 DEF Data
  <2> QED BY <2>1, <2>3, <1>5 DEF Brings
<1>6. CASE ~opt.use_rdma_cm
  <2>1. Data(t, p, stream[t][1])' <=> Data(t, p, stream[t][1]) BY <1>1 DEF Data
  <2> QED BY <2>1, <1>3, <1>4, <1>6 DEF Brings
<1> QED BY <1>5, <1>6

\* No exchange from a on, none from b on.
LEMMA ClearLater ==
  ASSUME NEW a \in Int, NEW b \in Int, Types, a <= b, ClearFrom(a)
  PROVE  ClearFrom(b)
<1>1. N \in Nat BY Landmarks
<1> QED BY <1>1 DEF ClearFrom

\* A side that waits for nothing still waits for nothing.
LEMMA QuietStays ==
  ASSUME NEW t \in Sides, Types, opt' = opt, Quiet(t), Eff(t) \in Int, Eff(t)' \in {Eff(t), Eff(t) + 1},
         stream'[t] = stream[t], arrived'[t] = arrived[t]
  PROVE  Quiet(t)'
<1>1. Script' = Script /\ N' = N BY ScriptStays DEF N
<1>2. Stuck(t)' <=> Stuck(t) BY DEF Stuck
<1>3. ClearFrom(Eff(t)) => ClearFrom(Eff(t) + 1) BY ClearLater
<1>4. ClearFrom(Eff(t)) => ClearFrom(Eff(t))'
  <2> SUFFICES ASSUME ClearFrom(Eff(t)) PROVE ClearFrom(Eff(t))' OBVIOUS
  <2>1. PICK e : e = Eff(t)' OBVIOUS
  <2>2. ClearFrom(e) BY <2>1, <1>3
  <2>3. ClearFrom(e)' BY <2>2, <1>1 DEF ClearFrom, Ex
  <2> QED BY <2>1, <2>3 DEF ClearFrom
<1> QED BY <1>2, <1>4 DEF Quiet

\* Nothing that the two are in step by has moved.
LEMMA LockSame ==
  ASSUME Types, LockInv, opt' = opt,
         Awaits' = Awaits, Owes' = Owes,
         \A s \in Sides : /\ Eff(s) \in Int /\ Eff(s)' = Eff(s)
                          /\ stream'[s] = stream[s] /\ arrived'[s] = arrived[s]
                          /\ Gone(s) => Gone(s)',
         buf'["server"] = buf["server"] \/ ~Asked,
         buf'["client"] = buf["client"] \/ ~Answered
  PROVE  LockInv'
<1>0. "client" \in Sides /\ "server" \in Sides BY DEF Sides
<1>1. PICK c, v : c = Eff("client") /\ v = Eff("server") OBVIOUS
<1>2. Eff("client")' = c /\ Eff("server")' = v BY <1>0, <1>1
<1>3. Awaits' = Awaits /\ Owes' = Owes OBVIOUS
<1>4. Asked' = Asked /\ Answered' = Answered BY <1>1, <1>2, <1>3 DEF Asked, Answered
<1>5. Lock(Eff("client"), Eff("server"), Awaits, Owes)'
  <2>1. PICK a, o : a = Awaits /\ o = Owes OBVIOUS
  <2>2. Lock(c, v, a, o) BY <1>1, <2>1 DEF LockInv
  <2>3. Lock(c, v, a, o)' BY <2>2, LockStays
  <2> QED BY <2>3, <2>1, <1>2, <1>3 DEF Lock, Clear
<1>6. IF Asked' THEN Gone("server")' \/ Brings("server", c)' ELSE Quiet("server")'
  <2>1. CASE Asked
    <3>1. Gone("server") \/ Brings("server", c) BY <2>1, <1>1 DEF LockInv
    <3>2. Brings("server", c) => Brings("server", c)' BY <2>1, <1>0, BringsStays
    <3> QED BY <3>1, <3>2, <2>1, <1>0, <1>4
  <2>2. CASE ~Asked
    <3>1. Quiet("server") BY <2>2 DEF LockInv
    <3>2. Quiet("server")' BY <3>1, <1>0, QuietStays
    <3> QED BY <3>2, <2>2, <1>4
  <2> QED BY <2>1, <2>2
<1>7. IF Answered' THEN Gone("client")' \/ Brings("client", c)' ELSE Quiet("client")'
  <2>1. CASE Answered
    <3>1. Gone("client") \/ Brings("client", c) BY <2>1, <1>1 DEF LockInv
    <3>2. Brings("client", c) => Brings("client", c)' BY <2>1, <1>0, BringsStays
    <3> QED BY <3>1, <3>2, <2>1, <1>0, <1>4
  <2>2. CASE ~Answered
    <3>1. Quiet("client") BY <2>2 DEF LockInv
    <3>2. Quiet("client")' BY <3>1, <1>0, QuietStays
    <3> QED BY <3>2, <2>2, <1>4
  <2> QED BY <2>1, <2>2
<1>8. \A s \in Sides : Brings(s, c)' <=> Brings(s, Eff("client"))'
  BY <1>2 DEF Brings, Data, ClearFrom
<1> QED BY <1>0, <1>5, <1>6, <1>7, <1>8 DEF LockInv

\* An exchange is behind a side only once it has said and heard all of it.
LEMMA EffIs ==
  ASSUME NEW s \in Sides, Types, SideInv(s)
  PROVE  /\ Pos(s) \in Int /\ Eff(s) \in Int /\ Eff(s) \in {Pos(s), Pos(s) + 1}
         /\ sent[s] # "complete" => Rest(s) = todo[s]
         /\ sent[s] # "complete" /\ (todo[s] = <<>> \/ Head(todo[s]) # "done") => Eff(s) = Pos(s)
         /\ todo[s] # <<>> /\ Head(todo[s]) # "write" => sent[s] = "none"
         /\ todo[s] = <<>> => sent[s] = "none"
         /\ sent[s] \in {"posted", "complete"} => opt.use_rdma_cm
<1>1. N \in Nat /\ Len(left[s]) \in Nat BY HereIs DEF SideInv
<1>2. Pos(s) \in Int BY <1>1 DEF Pos
<1>3. Eff(s) \in {Pos(s), Pos(s) + 1} BY DEF Eff
<1>4. Eff(s) \in Int BY <1>2, <1>3
<1>5. sent[s] # "complete" => Rest(s) = todo[s] BY DEF Rest
<1>6. Head(<<"done">>) = "done" BY Tails
<1>7. sent[s] # "complete" /\ (todo[s] = <<>> \/ Head(todo[s]) # "done") => Eff(s) = Pos(s)
  BY <1>5, <1>6 DEF Eff
<1> QED BY <1>2, <1>3, <1>4, <1>5, <1>7 DEF SideInv, SentInv

\* Nothing of the channel has moved but that an end of it is given up.
LEMMA ChannelStays ==
  ASSUME IInv, opt' = opt,
         UNCHANGED <<left, todo, stream, arrived, sent, own, got, buf>>,
         DOMAIN comm' = Sides, DOMAIN tcp' = Sides,
         \A s \in Sides : /\ comm'[s] = comm[s] \/ comm'[s] \notin Outside \/ Pos(s) = 1
                          /\ Gone(s) => Gone(s)'
                          /\ TcpInv(s)'
  PROVE  IInv'
<1>1. Types' BY DEF IInv, Types
<1>2. ASSUME NEW s \in Sides PROVE SideInv(s)' /\ TcpInv(s)'
  <2>1. SideInv(s) BY DEF IInv
  <2>2. Pos(s)' = Pos(s) BY Unmoved
  <2>3. CASE comm'[s] = comm[s] \/ comm'[s] \notin Outside BY <2>1, <2>3, SideStays
  <2>4. CASE Pos(s) = 1
    <3>1. CommInv(s)' BY <2>2, <2>4 DEF CommInv
    <3>2. LeftInv(s)' /\ TodoInv(s)' BY <2>1, Unmoved DEF SideInv
    <3>3. Script' = Script BY ScriptStays
    <3>4. SentInv(s)' BY <2>1, <2>2, <3>3 DEF SideInv, SentInv, Data
    <3>5. \A f \in Fields : Settlement(f)' = Settlement(f) BY DEF Settlement
    <3>6. OwnInv(s)' BY <2>1, <2>2, <3>5 DEF SideInv, OwnInv
    <3> QED BY <3>1, <3>2, <3>4, <3>6 DEF SideInv
  <2> QED BY <2>3, <2>4
<1>3. GotInv'
  <2>1. "server" \in Sides BY DEF Sides
  <2>2. Pos("server")' = Pos("server") /\ Script' = Script BY <2>1, Unmoved, ScriptStays
  <2> QED BY <2>2 DEF IInv, GotInv
<1>4. LockInv'
  <2>1. Types /\ LockInv BY DEF IInv
  <2>2. \A s \in Sides : Eff(s) \in Int BY EffIs DEF IInv
  <2>3. \A s \in Sides : Eff(s)' = Eff(s) /\ Rest(s)' = Rest(s) BY Unmoved
  <2>4. Awaits' = Awaits /\ Owes' = Owes BY <2>3 DEF Awaits, Owes, Sides
  <2> QED BY <2>1, <2>2, <2>3, <2>4, LockSame
<1> QED BY <1>1, <1>2, <1>3, <1>4 DEF IInv

\* Nothing of the channel changes.
LEMMA StillKept == ASSUME IInv, opt' = opt, UNCHANGED commVars PROVE IInv'
<1>1. UNCHANGED <<left, todo, comm, tcp, stream, arrived, sent, own, got, buf>> BY DEF commVars
<1>2. ASSUME NEW s \in Sides PROVE Gone(s)' = Gone(s) /\ TcpInv(s)' BY <1>1 DEF Gone, IInv, TcpInv
<1>3. DOMAIN comm' = Sides /\ DOMAIN tcp' = Sides BY <1>1 DEF IInv, Types
<1> QED BY <1>1, <1>2, <1>3, ChannelStays

\* Closing an end leaves the other with a peer that reads no more.
LEMMA Closes ==
  ASSUME NEW s \in Sides, NEW state \in {"closed", "failed"}, Types, TcpInv(Peer(s)), TcpInv(s), Close(s, state)
  PROVE  /\ DOMAIN comm' = Sides /\ DOMAIN tcp' = Sides
         /\ comm' = [comm EXCEPT ![s] = state]
         /\ \A t \in Sides : /\ Gone(t) => Gone(t)'
                             /\ comm'[t] = comm[t] \/ comm'[t] \notin Outside
                             /\ TcpInv(t)'
<1>1. comm' = [comm EXCEPT ![s] = state] BY DEF Close
<1>2. DOMAIN comm' = Sides /\ DOMAIN tcp' = Sides BY <1>1 DEF Close, Types
<1>3. comm'[s] = state /\ Gone(s)' BY <1>1 DEF Types, Gone
<1>4. \A t \in Sides : t # s => comm'[t] = comm[t] BY <1>1 DEF Types
<1>5. \A t \in Sides : Gone(t) => Gone(t)' BY <1>3, <1>4 DEF Gone
<1>6. state \notin Outside BY DEF Outside
<1>7. Peer(s) \in Sides /\ Peer(Peer(s)) = s /\ \A t \in Sides : t = s \/ t = Peer(s) BY DEF Sides, Peer
<1>8. TcpInv(Peer(s))' BY <1>3, <1>7 DEF TcpInv
<1>9. TcpInv(s)'
  <2>1. tcp'[s] = tcp[s] BY <1>7 DEF Close, Types, Peer
  <2> QED BY <2>1, <1>5, <1>7 DEF TcpInv
<1> QED BY <1>1, <1>2, <1>3, <1>4, <1>5, <1>6, <1>7, <1>8, <1>9

\* A side that ends in error.
LEMMA ExitKept == ASSUME NEW s \in Sides, IInv, opt' = opt, Exit(s) PROVE IInv'
<1>1. Peer(s) \in Sides BY DEF Sides, Peer
<1>2. Types /\ TcpInv(s) /\ TcpInv(Peer(s)) BY <1>1 DEF IInv
<1>3. Close(s, "failed") BY DEF Exit
<1>4. /\ DOMAIN comm' = Sides /\ DOMAIN tcp' = Sides
      /\ \A t \in Sides : /\ Gone(t) => Gone(t)'
                          /\ comm'[t] = comm[t] \/ comm'[t] \notin Outside
                          /\ TcpInv(t)'
  BY <1>2, <1>3, Closes
<1>5. UNCHANGED <<left, todo, stream, arrived, sent, own, got, buf>> BY DEF Exit
<1> QED BY <1>4, <1>5, ChannelStays

(***************************************************************************)
(* Past an item at which nothing is exchanged.                             *)
(***************************************************************************)
\* The client may go past such an item whatever the server does.
LEMMA ClientSkipsLock ==
  ASSUME IInv, ~Ex(Pos("client")), Pos("client") \in 1..N, todo["client"] = <<>>, opt' = opt,
         Eff("client")' = Pos("client") + 1, Rest("client")' = <<>> \/ Head(Rest("client")') = "write",
         Eff("server")' = Eff("server"), Rest("server")' = Rest("server"),
         UNCHANGED <<stream, buf, arrived>>, \A t \in Sides : Gone(t) => Gone(t)'
  PROVE  LockInv'
<1>0. "client" \in Sides /\ "server" \in Sides BY DEF Sides
<1>1. Eff("client") \in Int /\ Eff("server") \in Int /\ Eff("client") = Pos("client") /\ ~Awaits
  BY <1>0, EffIs DEF IInv, Awaits
<1>2. PICK c, v, o : c = Eff("client") /\ v = Eff("server") /\ o = Owes OBVIOUS
<1>3. c \in 1..N /\ v \in Int /\ o \in BOOLEAN /\ ~Ex(c) BY <1>1, <1>2 DEF Owes
<1>4. Types /\ Lock(c, v, FALSE, o)
  <2>1. Types /\ Lock(c, v, Awaits, Owes) BY <1>2 DEF IInv, LockInv
  <2> QED BY <2>1, <1>1, <1>2 DEF Lock
<1>5. Lock(c + 1, v, FALSE, o) BY <1>3, <1>4, ClientSkips
<1>6. Eff("client")' = c + 1 /\ Eff("server")' = v BY <1>1, <1>2
<1>7. ~Awaits' /\ Owes' = o BY <1>2 DEF Awaits, Owes
<1>8. Lock(Eff("client"), Eff("server"), Awaits, Owes)'
  <2>1. Lock(c + 1, v, FALSE, o)' BY <1>5, LockStays
  <2> QED BY <2>1, <1>6, <1>7 DEF Lock, Clear
<1>9. ~Asked /\ ~Answered /\ ~Asked' /\ ~Answered' BY <1>1, <1>7 DEF Asked, Answered
<1>10. Quiet("client") /\ Quiet("server") BY <1>9 DEF IInv, LockInv
<1>11. Quiet("client")' /\ Quiet("server")' BY <1>0, <1>1, <1>2, <1>4, <1>6, <1>10, QuietStays
<1> QED BY <1>8, <1>9, <1>11 DEF LockInv

\* The same of the server, also while it is asked.
LEMMA ServerSkipsLock ==
  ASSUME IInv, ~Ex(Pos("server")), Pos("server") \in 1..N, todo["server"] = <<>>, opt' = opt,
         Eff("server")' = Pos("server") + 1, Rest("server")' = <<>> \/ Head(Rest("server")') = "read",
         Eff("client")' = Eff("client"), Rest("client")' = Rest("client"),
         UNCHANGED <<stream, buf, arrived>>, \A t \in Sides : Gone(t) => Gone(t)'
  PROVE  LockInv'
<1>0. "client" \in Sides /\ "server" \in Sides BY DEF Sides
<1>1. Eff("client") \in Int /\ Eff("server") \in Int /\ Eff("server") = Pos("server") /\ ~Owes
  BY <1>0, EffIs DEF IInv, Owes
<1>2. PICK c, v, a : c = Eff("client") /\ v = Eff("server") /\ a = Awaits OBVIOUS
<1>3. v \in 1..N /\ c \in Int /\ a \in BOOLEAN /\ ~Ex(v) BY <1>1, <1>2 DEF Awaits
<1>4. Types /\ Lock(c, v, a, FALSE)
  <2>1. Types /\ Lock(c, v, Awaits, Owes) BY <1>2 DEF IInv, LockInv
  <2> QED BY <2>1, <1>1, <1>2 DEF Lock
<1>5. Lock(c, v + 1, a, FALSE) /\ (a => (v <= c <=> v + 1 <= c)) BY <1>3, <1>4, ServerSkips
<1>6. Eff("server")' = v + 1 /\ Eff("client")' = c BY <1>1, <1>2
<1>7. ~Owes' /\ Awaits' = a BY <1>2 DEF Awaits, Owes
<1>8. Lock(Eff("client"), Eff("server"), Awaits, Owes)'
  <2>1. Lock(c, v + 1, a, FALSE)' BY <1>5, LockStays
  <2> QED BY <2>1, <1>6, <1>7 DEF Lock, Clear
<1>9. Asked <=> a /\ v <= c BY <1>1, <1>2 DEF Asked
<1>10. Answered <=> a /\ c < v BY <1>1, <1>2 DEF Answered
<1>11. Asked' <=> a /\ v + 1 <= c BY <1>6, <1>7 DEF Asked
<1>12. Answered' <=> a /\ c < v + 1 BY <1>6, <1>7 DEF Answered
<1>13. (Asked' <=> Asked) /\ (Answered' <=> Answered)
  BY <1>3, <1>5, <1>9, <1>10, <1>11, <1>12
<1>14. IF Asked' THEN Gone("server")' \/ Brings("server", c)' ELSE Quiet("server")'
  <2>1. IF Asked THEN Gone("server") \/ Brings("server", c) ELSE Quiet("server")
    BY <1>2 DEF IInv, LockInv
  <2>2. Brings("server", c) => Brings("server", c)' BY <1>0, BringsStays
  <2>3. Quiet("server") => Quiet("server")' BY <1>0, <1>1, <1>2, <1>4, <1>6, QuietStays
  <2> QED BY <2>1, <2>2, <2>3, <1>0, <1>13
<1>15. IF Answered' THEN Gone("client")' \/ Brings("client", c)' ELSE Quiet("client")'
  <2>1. IF Answered THEN Gone("client") \/ Brings("client", c) ELSE Quiet("client")
    BY <1>2 DEF IInv, LockInv
  <2>2. Brings("client", c) => Brings("client", c)' BY <1>0, BringsStays
  <2>3. Quiet("client") => Quiet("client")' BY <1>0, <1>1, <1>2, <1>4, <1>6, QuietStays
  <2> QED BY <2>1, <2>2, <2>3, <1>0, <1>13
<1>16. \A s \in Sides : Brings(s, c)' <=> Brings(s, Eff("client"))'
  BY <1>6 DEF Brings, Data, ClearFrom
<1> QED BY <1>0, <1>8, <1>14, <1>15, <1>16 DEF LockInv

\* A side goes past an item at which nothing is exchanged.
LEMMA SkipKept ==
  ASSUME NEW s \in Sides, IInv, left[s] # <<>>, ~Ex(Pos(s)), opt' = opt, Advance(s),
         UNCHANGED <<tcp, stream, buf, arrived, sent, own, got>>,
         DOMAIN comm' = Sides, comm'[s] \notin Outside,
         \A t \in Sides : /\ Gone(t) => Gone(t)'
                          /\ t # s => comm'[t] = comm[t] \/ comm'[t] \notin Outside \/ Pos(t) = 1
  PROVE  IInv'
<1>1. Types /\ SideInv(s) /\ LeftInv(s) /\ TodoInv(s) BY DEF IInv, SideInv
<1>2. Pos(s) \in 1..N BY <1>1, HereIs
<1>3. todo[s] = <<>> BY <1>1 DEF TodoInv
<1>4. sent[s] = "none" BY <1>1, <1>3, EffIs
<1>5. /\ left' \in [Sides -> Seq(ItemSet)] /\ todo' \in [Sides -> Seq({"read", "write", "done"})]
      /\ LeftInv(s)' /\ TodoInv(s)' /\ SentInv(s)'
      /\ Pos(s)' = Pos(s) + 1 /\ Eff(s)' = Pos(s) + 1
      /\ Rest(s)' = <<>> \/ Head(Rest(s)') = First(s)
      /\ todo'[s] = <<>> \/ Head(todo'[s]) = First(s)
      /\ \A t \in Sides : t # s => left'[t] = left[t] /\ todo'[t] = todo[t]
  BY <1>1, <1>4, Forward
<1>6. Types' BY <1>1, <1>5 DEF Types
<1>7. SideInv(s)'
  <2>1. CommInv(s)' BY DEF CommInv
  <2>2. OwnInv(s)'
    <3>1. \A f \in Fields : Settlement(f)' = Settlement(f) BY DEF Settlement
    <3>2. \A f \in Fields : Pos(s) # Place[f] /\ Place[f] \in Int BY <1>1, Landmarks
    <3>3. \A f \in Fields : Pos(s) + 1 <= Place[f] <=> Pos(s) <= Place[f]
      <4>1. Pos(s) \in Int BY <1>1, EffIs
      <4> QED BY <4>1, <3>2
    <3>4. OwnInv(s) BY <1>1 DEF SideInv
    <3> QED BY <3>1, <3>3, <3>4, <1>5 DEF OwnInv
  <2> QED BY <1>5, <2>1, <2>2 DEF SideInv
<1>8. ASSUME NEW t \in Sides, t # s PROVE SideInv(t)' /\ Eff(t)' = Eff(t) /\ Rest(t)' = Rest(t)
  <2>1. left'[t] = left[t] /\ todo'[t] = todo[t] BY <1>5, <1>8
  <2>2. Eff(t)' = Eff(t) /\ Rest(t)' = Rest(t) /\ Pos(t)' = Pos(t) BY <2>1, Unmoved
  <2>3. SideInv(t) BY DEF IInv
  <2>4. CASE comm'[t] = comm[t] \/ comm'[t] \notin Outside
    <3>1. sent'[t] = sent[t] /\ own'[t] = own[t] /\ buf'[t] = buf[t] OBVIOUS
    <3>2. SideInv(t)' BY <3>1, <2>1, <2>3, <2>4, SideStays
    <3> QED BY <3>2, <2>2
  <2>5. CASE Pos(t) = 1
    <3>1. CommInv(t)' BY <2>2, <2>5 DEF CommInv
    <3>2. LeftInv(t)' /\ TodoInv(t)' BY <2>1, <2>3, Unmoved DEF SideInv
    <3>3. Script' = Script BY ScriptStays
    <3>4. SentInv(t)' BY <2>1, <2>2, <2>3, <3>3 DEF SideInv, SentInv, Data
    <3>5. \A f \in Fields : Settlement(f)' = Settlement(f) BY DEF Settlement
    <3>6. OwnInv(t)' BY <2>2, <2>3, <3>5 DEF SideInv, OwnInv
    <3> QED BY <2>2, <3>1, <3>2, <3>4, <3>6 DEF SideInv
  <2> QED BY <2>2, <2>4, <2>5, <1>8
<1>9. \A t \in Sides : SideInv(t)' /\ TcpInv(t)'
  <2>1. \A t \in Sides : Peer(t) \in Sides BY DEF Sides, Peer
  <2>2. \A t \in Sides : TcpInv(t)' BY <2>1 DEF IInv, TcpInv
  <2> QED BY <2>2, <1>7, <1>8
<1>10. GotInv'
  <2>1. s = "client" \/ s = "server" BY DEF Sides
  <2>2. CASE s = "server" BY <2>2, <1>5 DEF IInv, GotInv, First
  <2>3. CASE s = "client"
    <3>1. "server" \in Sides /\ "server" # s BY <2>3 DEF Sides
    <3>2. Pos("server")' = Pos("server") /\ Script' = Script /\ todo'["server"] = todo["server"]
      BY <3>1, <1>5, Unmoved, ScriptStays
    <3> QED BY <3>2 DEF IInv, GotInv
  <2> QED BY <2>1, <2>2, <2>3
<1>11. LockInv'
  <2>1. CASE s = "client"
    <3>1. Eff("server")' = Eff("server") /\ Rest("server")' = Rest("server") BY <2>1, <1>8 DEF Sides
    <3>2. Rest("client")' = <<>> \/ Head(Rest("client")') = "write" BY <2>1, <1>5 DEF First
    <3> QED BY <2>1, <3>1, <3>2, <1>2, <1>3, <1>5, ClientSkipsLock
  <2>2. CASE s = "server"
    <3>1. Eff("client")' = Eff("client") /\ Rest("client")' = Rest("client") BY <2>2, <1>8 DEF Sides
    <3>2. Rest("server")' = <<>> \/ Head(Rest("server")') = "read" BY <2>2, <1>5 DEF First
    <3> QED BY <2>2, <3>1, <3>2, <1>2, <1>3, <1>5, ServerSkipsLock
  <2> QED BY <2>1, <2>2 DEF Sides
<1> QED BY <1>6, <1>9, <1>10, <1>11 DEF IInv

(***************************************************************************)
(* What is said.                                                           *)
(***************************************************************************)
\* A side says its own value, which it has not settled yet.
LEMMA ValueIs ==
  ASSUME NEW s \in Sides, Types, SideInv(s), todo[s] # <<>>
  PROVE  /\ Value(s) \in Int
         /\ Script[Pos(s)][1] \in Fields => Value(s) = opt.host[s][Script[Pos(s)][1]]
<1>1. SideInv(s) /\ LeftInv(s) /\ TodoInv(s) /\ OwnInv(s) BY DEF SideInv
<1>2. Pos(s) \in 1..N /\ Here(s) = Script[Pos(s)] BY <1>1, Busy
<1>3. N \in Nat /\ (Script[Pos(s)][1] \in Fields => Pos(s) = Place[Script[Pos(s)][1]]) BY <1>2, Landmarks
<1>4. own[s] \in Hosts /\ DOMAIN own[s] = {"gid", "cycle_buffer", "cache_line_size", "mtu", "srq_exists"}
  BY DEF Types, Hosts
<1>5. Here(s) \in ItemSet /\ Here(s)[1] \in Kinds /\ Here(s)[2] \in Nat
  <2>1. left[s] # <<>> BY <1>1, Busy
  <2>2. Here(s) \in ItemSet BY <1>1, <2>1, HereIs
  <2> QED BY <2>2 DEF ItemSet
<1>6. CASE Here(s)[1] \in Fields
  <2>1. Value(s) = own[s][Here(s)[1]] BY <1>4, <1>6 DEF Value, Fields
  <2>2. own[s][Here(s)[1]] \in Int BY <1>4, <1>6 DEF Hosts, Fields
  <2>3. own[s][Here(s)[1]] = opt.host[s][Here(s)[1]] BY <1>1, <1>2, <1>3, <1>6 DEF OwnInv
  <2> QED BY <2>1, <2>2, <2>3, <1>2
<1>7. CASE Here(s)[1] \notin Fields
  <2>1. Here(s)[1] \notin DOMAIN own[s] BY <1>4, <1>5, <1>7 DEF Kinds, OtherKinds, Fields
  <2>2. Value(s) = IF Here(s)[1] = "keys" THEN Here(s)[2] - 1 ELSE 0 BY <2>1 DEF Value
  <2>3. Value(s) \in Int BY <2>2, <1>5
  <2> QED BY <2>3, <1>2, <1>7
<1> QED BY <1>6, <1>7

\* The text of a side, in its pieces.
LEMMA TextIs ==
  ASSUME NEW s \in Sides, Types, SideInv(s), todo[s] # <<>>
  PROVE  /\ Text(s) \in Seq(Messages) /\ Len(Text(s)) \in {1, 2} /\ Len(Text(s)) = Pieces(s)
         /\ Text(s)[1].piece = 1 /\ Data(Peer(s), Pos(s), Text(s)[1])
         /\ Len(Text(s)) = 2 => Text(s)[2].piece = 2
<1>1. Pieces(s) \in {1, 2} BY DEF Pieces
<1>2. LeftInv(s) /\ TodoInv(s) BY DEF SideInv
<1>3. Here(s) = Script[Pos(s)] /\ Here(s) \in ItemSet
  <2>1. left[s] # <<>> BY <1>2, Busy
  <2> QED BY <2>1, <1>2, HereIs
<1>4. Value(s) \in Int BY ValueIs
<1>5. Text(s) \in [1..Pieces(s) -> Messages] BY <1>1, <1>3, <1>4 DEF Text, Messages
<1>6. Pieces(s) \in Nat BY <1>1
<1>7. Text(s) \in Seq(Messages) BY <1>5, <1>6, SeqDef
<1>8. Len(Text(s)) = Pieces(s) BY <1>5, <1>6, <1>7, LenProperties
<1>9. 1 \in 1..Pieces(s) BY <1>1
<1>10. Text(s)[1] = [item |-> Here(s), value |-> Value(s), piece |-> 1] BY <1>9 DEF Text
<1>11. Pieces(s) = 2 => Text(s)[2] = [item |-> Here(s), value |-> Value(s), piece |-> 2] BY DEF Text
<1>12. Data(Peer(s), Pos(s), Text(s)[1])
  <2>1. Peer(Peer(s)) = s BY DEF Sides, Peer
  <2> QED BY <2>1, <1>3, <1>10, ValueIs DEF Data
<1> QED BY <1>1, <1>7, <1>8, <1>10, <1>11, <1>12

\* A text that is written to one who waits for it.
LEMMA TextBrings ==
  ASSUME NEW s \in Sides, NEW t \in Sides, t = Peer(s), Types, SideInv(s), todo[s] # <<>>, opt' = opt,
         ~opt.use_rdma_cm, stream' = [stream EXCEPT ![t] = @ \o Text(s)],
         Quiet(t), ~ClearFrom(Eff(t)), NEW p, p = Pos(s)
  PROVE  Brings(t, p)'
<1>1. stream[t] \in Seq(Messages) BY DEF Types
<1>2. /\ Text(s) \in Seq(Messages) /\ Len(Text(s)) \in {1, 2}
      /\ Text(s)[1].piece = 1 /\ Data(t, p, Text(s)[1])
      /\ Len(Text(s)) = 2 => Text(s)[2].piece = 2
  BY TextIs
<1>3. stream'[t] = stream[t] \o Text(s) BY DEF Types
<1>4. Script' = Script /\ N' = N BY ScriptStays DEF N
<1>5. CASE stream[t] = <<>>
  <2>1. stream'[t] = Text(s) BY <1>2, <1>3, <1>5, ConcatEmptySeq
  <2>2. Text(s) # <<>> BY <1>2, EmptySeq
  <2>3. Data(t, p, stream[t][1])' BY <1>2, <1>4, <2>1 DEF Data
  <2>4. Len(stream'[t]) > 1 => stream'[t][2].piece = 2 BY <1>2, <2>1
  <2>5. ~(Len(stream'[t]) > 2)
    <3>1. \A k \in {1, 2} : ~(k > 2) OBVIOUS
    <3>2. Len(stream'[t]) \in {1, 2} BY <1>2, <2>1
    <3> QED BY <3>1, <3>2
  <2>6. stream'[t] # <<>> /\ stream'[t][1].piece = 1 BY <1>2, <2>1, <2>2
  <2> QED BY <2>3, <2>4, <2>5, <2>6 DEF Brings
<1>6. CASE stream[t] # <<>> /\ Stuck(t)
  <2>1. Len(stream[t]) \in Nat /\ Len(stream[t]) # 0 BY <1>1, <1>6, EmptySeq
  <2>2. 1 \in 1..(Len(stream[t]) + Len(Text(s))) /\ 1 <= Len(stream[t]) BY <2>1, <1>2
  <2>3. stream'[t][1] = stream[t][1] BY <1>1, <1>2, <1>3, <2>2, ConcatProperties
  <2>4. stream'[t] # <<>>
    <3>1. Len(stream'[t]) = Len(stream[t]) + Len(Text(s)) BY <1>1, <1>2, <1>3, ConcatProperties
    <3>2. Len(stream'[t]) # 0 BY <3>1, <2>1, <1>2
    <3> QED BY <3>2, EmptySeq
  <2> QED BY <1>6, <2>3, <2>4 DEF Brings, Stuck
<1> QED BY <1>5, <1>6 DEF Quiet

\* What is left of the stream once the text has been read.
LEMMA ReadLeaves ==
  ASSUME NEW s \in Sides, NEW p, NEW n \in {1, 2}, Types, opt' = opt, ~opt.use_rdma_cm,
         Brings(s, p), stream[s][1].piece = 1, ~(Len(stream[s]) < n),
         stream' = [stream EXCEPT ![s] = SubSeq(@, n + 1, Len(@))]
  PROVE  /\ stream' \in [Sides -> Seq(Messages)]
         /\ stream'[s] = <<>> \/ Stuck(s)' \/ (s = "client" /\ ClearFrom(p + 1))
         /\ \A t \in Sides : t # s => stream'[t] = stream[t]
<1>1. stream[s] \in Seq(Messages) /\ Len(stream[s]) \in Nat BY DEF Types
<1>2. \A i \in (n + 1)..Len(stream[s]) : stream[s][i] \in Messages BY <1>1, LenProperties
<1>3. stream'[s] = SubSeq(stream[s], n + 1, Len(stream[s])) BY DEF Types
<1>4. n + 1 \in Int /\ Len(stream[s]) \in Int BY <1>1
<1>5. /\ stream'[s] \in Seq(Messages)
      /\ Len(stream'[s]) = IF n + 1 <= Len(stream[s]) THEN Len(stream[s]) - (n + 1) + 1 ELSE 0
      /\ \A i \in 1..(Len(stream[s]) - (n + 1) + 1) : stream'[s][i] = stream[s][(n + 1) + i - 1]
  BY <1>2, <1>3, <1>4, SubSeqProperties
<1>6. stream' \in [Sides -> Seq(Messages)] BY <1>3, <1>5 DEF Types
<1>7. ~Stuck(s) BY DEF Stuck
<1>8. /\ Len(stream[s]) > 1 => stream[s][2].piece = 2 \/ (s = "client" /\ ClearFrom(p + 1))
      /\ Len(stream[s]) > 2 => s = "client" /\ ClearFrom(p + 1)
  BY <1>7 DEF Brings
<1>9. CASE s = "client" /\ ClearFrom(p + 1) BY <1>6, <1>9 DEF Types
<1>10. CASE ~(s = "client" /\ ClearFrom(p + 1))
  <2>1. ~(Len(stream[s]) > 2) BY <1>8, <1>10
  <2>2. CASE n + 1 > Len(stream[s])
    <3>1. stream'[s] = <<>> BY <1>3, <1>4, <2>2, SubSeqEmpty
    <3> QED BY <3>1, <1>6 DEF Types
  <2>3. CASE ~(n + 1 > Len(stream[s]))
    <3>0. \A k \in Nat, m \in {1, 2} : ~(k > 2) /\ ~(m + 1 > k) => m = 1 /\ k = 2 OBVIOUS
    <3>1. n = 1 /\ Len(stream[s]) = 2 BY <2>1, <2>3, <1>1, <3>0
    <3>2. stream[s][2].piece = 2 BY <3>1, <1>8, <1>10
    <3>3. stream'[s][1] = stream[s][2] /\ Len(stream'[s]) = 1 BY <3>1, <1>5
    <3>4. stream'[s] # <<>>
      <4>1. SUFFICES ASSUME stream'[s] = <<>> PROVE FALSE OBVIOUS
      <4>2. Len(stream'[s]) = 0 BY <4>1, EmptySeq
      <4> QED BY <4>2, <3>3
    <3>5. Stuck(s)' BY <3>2, <3>3, <3>4 DEF Stuck
    <3> QED BY <3>5, <1>6 DEF Types
  <2> QED BY <2>2, <2>3
<1> QED BY <1>9, <1>10

(***************************************************************************)
(* Where the two are when one of them writes or reads.                     *)
(***************************************************************************)
LEMMA BothSides == "client" \in Sides /\ "server" \in Sides
                   /\ Peer("client") = "server" /\ Peer("server") = "client"
  BY DEF Sides, Peer

\* At an exchange it has not finished, a side is where it is in the script.
LEMMA AtExchange ==
  ASSUME NEW s \in Sides, IInv, todo[s] # <<>>, Head(todo[s]) # "done", sent[s] # "complete"
  PROVE  /\ Eff(s) = Pos(s) /\ Rest(s) = todo[s] /\ Pos(s) \in 1..N /\ Ex(Pos(s)) /\ ~ClearFrom(Pos(s))
         /\ Head(todo[s]) \in {"read", "write"}
<1>1. Types /\ SideInv(s) /\ LeftInv(s) /\ TodoInv(s) BY DEF IInv, SideInv
<1>2. Pos(s) \in 1..N /\ Ex(Pos(s)) BY <1>1, Busy
<1>3. N \in Nat BY <1>1, Landmarks
<1>4. ~ClearFrom(Pos(s)) BY <1>2, <1>3 DEF ClearFrom
<1>5. Head(todo[s]) \in {"read", "write"}
  <2>1. todo[s] \in Seq({"read", "write", "done"}) BY <1>1 DEF Types
  <2> QED BY <2>1, HeadTailProperties
<1> QED BY <1>1, <1>2, <1>4, <1>5, EffIs

\* Before the client asks nobody waits and nothing is on its way.
LEMMA BeforeAsking ==
  ASSUME IInv, todo["client"] # <<>>, Head(todo["client"]) = "write", sent["client"] # "complete"
  PROVE  /\ ~Awaits /\ ~Owes /\ ~Asked /\ ~Answered
         /\ Quiet("client") /\ Quiet("server") /\ ~ClearFrom(Eff("server"))
         /\ Eff("server") <= Pos("client")
         /\ Lock(Pos("client"), Eff("server"), TRUE, FALSE)
<1>1. /\ Eff("client") = Pos("client") /\ Rest("client") = todo["client"]
      /\ Pos("client") \in 1..N /\ Ex(Pos("client")) /\ ~ClearFrom(Pos("client"))
  BY BothSides, AtExchange
<1>2. ~Awaits BY <1>1 DEF Awaits
<1>3. Types /\ Lock(Eff("client"), Eff("server"), Awaits, Owes) BY DEF IInv, LockInv
<1>4. ~Owes BY <1>2, <1>3 DEF Lock
<1>5. Lock(Pos("client"), Eff("server"), FALSE, FALSE) BY <1>1, <1>2, <1>3, <1>4 DEF Lock
<1>6. Eff("server") \in Int BY BothSides, EffIs DEF IInv
<1>7. Eff("server") <= Pos("client") /\ Lock(Pos("client"), Eff("server"), TRUE, FALSE)
  BY <1>1, <1>3, <1>5, <1>6, ClientAsks
<1>8. ~ClearFrom(Eff("server"))
  <2>1. Pos("client") \in Int BY <1>1
  <2> QED BY <2>1, <1>1, <1>3, <1>6, <1>7, ClearLater
<1>9. ~Asked /\ ~Answered BY <1>2 DEF Asked, Answered
<1>10. Quiet("client") /\ Quiet("server") BY <1>9 DEF IInv, LockInv
<1> QED BY <1>2, <1>4, <1>7, <1>8, <1>9, <1>10

\* Once it has asked, its question waits for the server.
LEMMA AfterAsking ==
  ASSUME IInv, todo["client"] # <<>>, Head(todo["client"]) = "write", sent["client"] # "complete", opt' = opt,
         Eff("client")' = Pos("client"), Rest("client")' # <<>>, Head(Rest("client")') = "read",
         Eff("server")' = Eff("server"), Rest("server")' = Rest("server"),
         stream'["client"] = stream["client"], arrived'["client"] = arrived["client"],
         NEW p, p = Pos("client"), Gone("server")' \/ Brings("server", p)'
  PROVE  LockInv'
<1>1. /\ ~Awaits /\ ~Owes /\ Quiet("client") /\ Eff("server") <= Pos("client")
      /\ Lock(Pos("client"), Eff("server"), TRUE, FALSE)
  BY BeforeAsking
<1>2. PICK v : v = Eff("server") OBVIOUS
<1>3. Awaits' /\ ~Owes' BY <1>1 DEF Awaits, Owes
<1>4. Eff("client")' = p /\ Eff("server")' = v BY <1>2
<1>5. Lock(Eff("client"), Eff("server"), Awaits, Owes)'
  <2>1. Lock(p, v, TRUE, FALSE) BY <1>1, <1>2
  <2>2. Lock(p, v, TRUE, FALSE)' BY <2>1, LockStays
  <2> QED BY <2>2, <1>3, <1>4 DEF Lock, Clear
<1>6. v <= p /\ v \in Int /\ p \in Int
  <2>1. v \in Int BY <1>2, BothSides, EffIs DEF IInv
  <2>2. p \in Int BY BothSides, EffIs DEF IInv
  <2> QED BY <2>1, <2>2, <1>1, <1>2
<1>7. Asked' /\ ~Answered'
  <2>1. Asked' BY <1>3, <1>4, <1>6 DEF Asked
  <2>2. ~(p < v) BY <1>6
  <2> QED BY <2>1, <2>2, <1>4 DEF Answered
<1>8. Quiet("client")'
  <2>1. Types /\ Eff("client") \in Int /\ Eff("client") = Pos("client") BY BothSides, EffIs, AtExchange DEF IInv
  <2> QED BY <2>1, <1>1, BothSides, QuietStays
<1>9. Gone("server")' \/ Brings("server", Eff("client"))'
  BY <1>4 DEF Brings, Data, ClearFrom
<1> QED BY <1>5, <1>7, <1>8, <1>9 DEF LockInv

\* A server that reads what is there reads the question it is at.
LEMMA BeforeHearing ==
  ASSUME IInv, todo["server"] # <<>>, Head(todo["server"]) = "read"
  PROVE  /\ ~Owes /\ (~Answered \/ ~Asked)
         /\ ~Asked => Quiet("server") /\ ~ClearFrom(Eff("server"))
         /\ Asked => /\ Awaits /\ Eff("client") = Pos("server")
                     /\ Lock(Pos("server"), Pos("server"), TRUE, TRUE)
                     /\ Gone("server") \/ Brings("server", Pos("server"))
                     /\ Quiet("client")
<1>1. sent["server"] = "none" BY BothSides, EffIs DEF IInv
<1>2. /\ Eff("server") = Pos("server") /\ Rest("server") = todo["server"]
      /\ Pos("server") \in 1..N /\ Ex(Pos("server")) /\ ~ClearFrom(Pos("server"))
  BY <1>1, BothSides, AtExchange
<1>3. ~Owes BY <1>2 DEF Owes
<1>4. Types /\ Lock(Eff("client"), Eff("server"), Awaits, Owes) BY DEF IInv, LockInv
<1>5. Eff("client") \in Int /\ Pos("server") \in Int BY <1>2, BothSides, EffIs DEF IInv
<1>6. ~Answered \/ ~Asked BY <1>2, <1>5 DEF Answered, Asked
<1>7. ASSUME ~Asked PROVE Quiet("server") /\ ~ClearFrom(Eff("server"))
  BY <1>2, <1>7 DEF IInv, LockInv
<1>8. ASSUME Asked
      PROVE  /\ Awaits /\ Eff("client") = Pos("server")
             /\ Lock(Pos("server"), Pos("server"), TRUE, TRUE)
             /\ Gone("server") \/ Brings("server", Pos("server"))
             /\ Quiet("client")
  <2>1. Awaits /\ Pos("server") <= Eff("client") BY <1>2, <1>8 DEF Asked
  <2>2. Lock(Eff("client"), Pos("server"), TRUE, FALSE) BY <2>1, <1>2, <1>3, <1>4 DEF Lock
  <2>3. Eff("client") = Pos("server") /\ Lock(Eff("client"), Pos("server"), TRUE, TRUE)
    BY <2>1, <2>2, <1>2, <1>4, <1>5, ServerHears
  <2>4. Gone("server") \/ Brings("server", Eff("client")) BY <1>8 DEF IInv, LockInv
  <2>5. Quiet("client") BY <1>6, <1>8 DEF IInv, LockInv
  <2> QED BY <2>1, <2>3, <2>4, <2>5
<1> QED BY <1>3, <1>6, <1>7, <1>8

\* Once it has read, it owes the answer.
LEMMA AfterHearing ==
  ASSUME IInv, todo["server"] # <<>>, Head(todo["server"]) = "read", Asked, opt' = opt,
         Eff("server")' = Pos("server"), Rest("server")' # <<>>, Head(Rest("server")') = "write",
         Eff("client")' = Eff("client"), Rest("client")' = Rest("client"),
         stream'["client"] = stream["client"], arrived'["client"] = arrived["client"],
         Quiet("server")'
  PROVE  LockInv'
<1>1. /\ Awaits /\ Eff("client") = Pos("server") /\ Lock(Pos("server"), Pos("server"), TRUE, TRUE)
      /\ Quiet("client")
  BY BeforeHearing
<1>2. PICK v : v = Pos("server") OBVIOUS
<1>3. Awaits' /\ Owes' BY <1>1 DEF Awaits, Owes
<1>4. Eff("client")' = v /\ Eff("server")' = v BY <1>1, <1>2
<1>5. Lock(Eff("client"), Eff("server"), Awaits, Owes)'
  <2>1. Lock(v, v, TRUE, TRUE) BY <1>1, <1>2
  <2>2. Lock(v, v, TRUE, TRUE)' BY <2>1, LockStays
  <2> QED BY <2>2, <1>3, <1>4 DEF Lock, Clear
<1>6. ~Asked' /\ ~Answered' BY <1>3 DEF Asked, Answered
<1>7. Quiet("client")'
  <2>1. Types /\ Eff("client") \in Int BY BothSides, EffIs DEF IInv
  <2> QED BY <2>1, <1>1, BothSides, QuietStays
<1> QED BY <1>5, <1>6, <1>7 DEF LockInv

\* Before the server answers nothing is on its way.
LEMMA BeforeAnswering ==
  ASSUME IInv, todo["server"] # <<>>, Head(todo["server"]) = "write", sent["server"] # "complete"
  PROVE  /\ Awaits /\ Owes /\ ~Asked /\ ~Answered
         /\ Quiet("client") /\ Quiet("server") /\ ~ClearFrom(Eff("client"))
         /\ Eff("client") = Pos("server")
         /\ Lock(Pos("server"), Pos("server") + 1, TRUE, FALSE)
<1>1. /\ Eff("server") = Pos("server") /\ Rest("server") = todo["server"]
      /\ Pos("server") \in 1..N /\ Ex(Pos("server")) /\ ~ClearFrom(Pos("server"))
  BY BothSides, AtExchange
<1>2. Owes BY <1>1 DEF Owes
<1>3. Types /\ Lock(Eff("client"), Eff("server"), Awaits, Owes) BY DEF IInv, LockInv
<1>4. Awaits BY <1>2, <1>3 DEF Lock
<1>5. Lock(Eff("client"), Pos("server"), TRUE, TRUE) BY <1>1, <1>2, <1>3, <1>4 DEF Lock
<1>6. Eff("client") \in Int /\ Pos("server") \in Int BY <1>1, BothSides, EffIs DEF IInv
<1>7. Eff("client") = Pos("server") /\ Lock(Eff("client"), Pos("server") + 1, TRUE, FALSE)
  BY <1>3, <1>5, <1>6, ServerAnswers
<1>8. ~Asked /\ ~Answered BY <1>2 DEF Asked, Answered
<1>9. Quiet("client") /\ Quiet("server") BY <1>8 DEF IInv, LockInv
<1> QED BY <1>1, <1>2, <1>4, <1>7, <1>8, <1>9

\* Once it has answered, its answer waits for the client.
LEMMA AfterAnswering ==
  ASSUME IInv, todo["server"] # <<>>, Head(todo["server"]) = "write", sent["server"] # "complete", opt' = opt,
         Eff("server")' = Pos("server") + 1, Rest("server")' = <<>> \/ Head(Rest("server")') # "write",
         Eff("client")' = Eff("client"), Rest("client")' = Rest("client"),
         stream'["server"] = stream["server"], arrived'["server"] = arrived["server"],
         NEW p, p = Pos("server"), Gone("client")' \/ Brings("client", p)'
  PROVE  LockInv'
<1>1. /\ Awaits /\ Owes /\ Quiet("server") /\ Eff("client") = Pos("server")
      /\ Lock(Pos("server"), Pos("server") + 1, TRUE, FALSE)
  BY BeforeAnswering
<1>2. Awaits' /\ ~Owes' BY <1>1 DEF Awaits, Owes
<1>3. Eff("client")' = p /\ Eff("server")' = p + 1 BY <1>1
<1>4. Lock(Eff("client"), Eff("server"), Awaits, Owes)'
  <2>1. Lock(p, p + 1, TRUE, FALSE) BY <1>1
  <2>2. Lock(p, p + 1, TRUE, FALSE)' BY <2>1, LockStays
  <2> QED BY <2>2, <1>2, <1>3 DEF Lock, Clear
<1>5. p \in Int BY BothSides, EffIs DEF IInv
<1>6. ~Asked' /\ Answered'
  <2>1. p < p + 1 /\ ~(p + 1 <= p) BY <1>5
  <2> QED BY <2>1, <1>2, <1>3 DEF Asked, Answered
<1>7. Quiet("server")'
  <2>1. Types /\ Eff("server") \in Int /\ Eff("server") = Pos("server") BY BothSides, EffIs, AtExchange DEF IInv
  <2> QED BY <2>1, <1>1, BothSides, QuietStays
<1>8. Gone("client")' \/ Brings("client", Eff("client"))'
  BY <1>3 DEF Brings, Data, ClearFrom
<1> QED BY <1>4, <1>6, <1>7, <1>8 DEF LockInv

\* A client that reads what is there reads the answer to its question.
LEMMA BeforeLearning ==
  ASSUME IInv, todo["client"] # <<>>, Head(todo["client"]) = "read"
  PROVE  /\ Awaits
         /\ ~Answered => Quiet("client") /\ ~ClearFrom(Eff("client"))
         /\ Answered => /\ ~Owes /\ ~Asked /\ Quiet("server")
                        /\ Lock(Pos("client") + 1, Eff("server"), FALSE, FALSE)
                        /\ Gone("client") \/ Brings("client", Pos("client"))
<1>1. sent["client"] = "none" BY BothSides, EffIs DEF IInv
<1>2. /\ Eff("client") = Pos("client") /\ Rest("client") = todo["client"]
      /\ Pos("client") \in 1..N /\ Ex(Pos("client")) /\ ~ClearFrom(Pos("client"))
  BY <1>1, BothSides, AtExchange
<1>3. Awaits BY <1>2 DEF Awaits
<1>4. Types /\ Lock(Eff("client"), Eff("server"), Awaits, Owes) BY DEF IInv, LockInv
<1>5. ASSUME ~Answered PROVE Quiet("client") /\ ~ClearFrom(Eff("client"))
  BY <1>2, <1>5 DEF IInv, LockInv
<1>6. ASSUME Answered
      PROVE  /\ ~Owes /\ ~Asked /\ Quiet("server")
             /\ Lock(Pos("client") + 1, Eff("server"), FALSE, FALSE)
             /\ Gone("client") \/ Brings("client", Pos("client"))
  <2>1. ~Owes /\ Pos("client") < Eff("server") BY <1>2, <1>6 DEF Answered
  <2>2. Lock(Pos("client"), Eff("server"), TRUE, FALSE) BY <2>1, <1>2, <1>3, <1>4 DEF Lock
  <2>3. Pos("client") \in Int /\ Eff("server") \in Int BY BothSides, EffIs DEF IInv
  <2>4. Lock(Pos("client") + 1, Eff("server"), FALSE, FALSE) BY <2>1, <2>2, <2>3, <1>4, ClientHears
  <2>5. ~Asked BY <2>1, <2>3, <1>2 DEF Asked
  <2>6. Gone("client") \/ Brings("client", Pos("client")) BY <1>2, <1>6 DEF IInv, LockInv
  <2>7. Quiet("server") BY <2>5 DEF IInv, LockInv
  <2> QED BY <2>1, <2>4, <2>5, <2>6, <2>7
<1> QED BY <1>3, <1>5, <1>6

\* Once it has read, the two are level.
LEMMA AfterLearning ==
  ASSUME IInv, todo["client"] # <<>>, Head(todo["client"]) = "read", Answered, opt' = opt,
         Eff("client")' = Pos("client") + 1, Rest("client")' = <<>> \/ Head(Rest("client")') # "read",
         Eff("server")' = Eff("server"), Rest("server")' = Rest("server"),
         stream'["server"] = stream["server"], arrived'["server"] = arrived["server"],
         Quiet("client")'
  PROVE  LockInv'
<1>1. ~Owes /\ Quiet("server") /\ Lock(Pos("client") + 1, Eff("server"), FALSE, FALSE)
  BY BeforeLearning
<1>2. PICK c, v : c = Pos("client") /\ v = Eff("server") OBVIOUS
<1>3. ~Awaits' /\ ~Owes' BY <1>1 DEF Awaits, Owes
<1>4. Eff("client")' = c + 1 /\ Eff("server")' = v BY <1>2
<1>5. Lock(Eff("client"), Eff("server"), Awaits, Owes)'
  <2>1. Lock(c + 1, v, FALSE, FALSE) BY <1>1, <1>2
  <2>2. Lock(c + 1, v, FALSE, FALSE)' BY <2>1, LockStays
  <2> QED BY <2>2, <1>3, <1>4 DEF Lock, Clear
<1>6. ~Asked' /\ ~Answered' BY <1>3 DEF Asked, Answered
<1>7. Quiet("server")'
  <2>1. Types /\ Eff("server") \in Int BY BothSides, EffIs DEF IInv
  <2> QED BY <2>1, <1>1, BothSides, QuietStays
<1> QED BY <1>5, <1>6, <1>7 DEF LockInv

(***************************************************************************)
(* Writing and reading.                                                    *)
(***************************************************************************)
LEMMA PartKept ==
  ASSUME NEW s \in Sides, NEW msg, IInv, opt' = opt, todo[s] # <<>>, Head(todo[s]) # "done",
         PartOver(s, msg), comm' = comm, buf' = buf, DOMAIN sent' = Sides, sent'[s] = "none",
         DOMAIN tcp' = Sides,
         \A t \in Sides : /\ tcp'[t] # "open" => tcp[t] # "open"
                          /\ t # s => sent'[t] = sent[t],
         stream' \in [Sides -> Seq(Messages)], arrived' \in [Sides -> Int],
         msg # None => msg.item = msg.for,
         Here(s)[1] \in Fields /\ ~(s = "client" /\ Head(todo[s]) = "write") =>
           msg.value = opt.host[Peer(s)][Here(s)[1]]
  PROVE  /\ Types' /\ GotInv'
         /\ \A t \in Sides : SideInv(t)' /\ TcpInv(t)'
         /\ \A t \in Sides : t # s => Eff(t)' = Eff(t) /\ Rest(t)' = Rest(t)
         /\ Head(todo[s]) \in {First(s), Second(s)}
         /\ Head(todo[s]) = First(s) =>
              Eff(s)' = Pos(s) /\ Rest(s)' # <<>> /\ Head(Rest(s)') = Second(s)
         /\ Head(todo[s]) = Second(s) =>
              Eff(s)' = Pos(s) + 1 /\ (Rest(s)' = <<>> \/ Head(Rest(s)') \in {First(s), "done"})
<1>1. Types /\ SideInv(s) /\ LeftInv(s) /\ TodoInv(s) /\ OwnInv(s) /\ CommInv(s) /\ GotInv
  BY DEF IInv, SideInv
<1>2. Head(todo[s]) \in {First(s), Second(s)}
  <2>1. Head(<<Second(s)>>) = Second(s) /\ Head(<<Second(s), "done">>) = Second(s) /\ Head(<<"done">>) = "done"
    BY Tails
  <2> QED BY <2>1, <1>1, Busy
<1>3. First(s) # Second(s) BY DEF First, Second
<1>4. comm[s] \notin Outside
  <2>1. Ex(Pos(s)) /\ ~Ex(1) BY <1>1, Busy, Landmarks
  <2> QED BY <2>1, <1>1 DEF CommInv
<1>5. Here(s) = Script[Pos(s)] BY <1>1, Busy
<1>6. /\ left' \in [Sides -> Seq(ItemSet)] /\ todo' \in [Sides -> Seq({"read", "write", "done"})]
      /\ own' \in [Sides -> Hosts]
      /\ LeftInv(s)' /\ TodoInv(s)' /\ SentInv(s)' /\ OwnInv(s)'
      /\ \A t \in Sides : t # s => left'[t] = left[t] /\ todo'[t] = todo[t] /\ own'[t] = own[t]
      /\ Head(todo[s]) = First(s) =>
           /\ Pos(s)' = Pos(s) /\ todo'[s] # <<>> /\ Head(todo'[s]) = Second(s)
           /\ Eff(s)' = Pos(s) /\ Rest(s)' # <<>> /\ Head(Rest(s)') = Second(s)
      /\ Head(todo[s]) = Second(s) =>
           /\ todo'[s] = <<>> \/ Head(todo'[s]) \in {First(s), "done"}
           /\ Eff(s)' = Pos(s) + 1 /\ (Rest(s)' = <<>> \/ Head(Rest(s)') \in {First(s), "done"})
  <2>1. CASE Head(todo[s]) = First(s)
    <3>1. /\ left' = left /\ todo' \in [Sides -> Seq({"read", "write", "done"})]
          /\ own' = own
          /\ LeftInv(s)' /\ TodoInv(s)' /\ SentInv(s)'
          /\ Pos(s)' = Pos(s) /\ Eff(s)' = Pos(s)
          /\ Rest(s)' = Tail(todo[s]) /\ todo'[s] = Tail(todo[s])
          /\ Tail(todo[s]) # <<>> /\ Head(Tail(todo[s])) = Second(s)
          /\ \A t \in Sides : t # s => todo'[t] = todo[t]
      BY <1>1, <2>1, PartFirst
    <3>2. left' \in [Sides -> Seq(ItemSet)] /\ own' \in [Sides -> Hosts] BY <1>1, <3>1 DEF Types
    <3>3. OwnInv(s)'
      <4>1. \A f \in Fields : Settlement(f)' = Settlement(f) BY DEF Settlement
      <4> QED BY <4>1, <1>1, <3>1 DEF OwnInv
    <3> QED BY <1>3, <2>1, <3>1, <3>2, <3>3
  <2>2. CASE Head(todo[s]) = Second(s)
    <3>1. Here(s)[1] \in Fields => msg.value = opt.host[Peer(s)][Here(s)[1]] BY <2>2 DEF Second
    <3>2. /\ left' \in [Sides -> Seq(ItemSet)] /\ todo' \in [Sides -> Seq({"read", "write", "done"})]
          /\ own' \in [Sides -> Hosts]
          /\ LeftInv(s)' /\ TodoInv(s)' /\ SentInv(s)' /\ OwnInv(s)'
          /\ Pos(s)' \in {Pos(s), Pos(s) + 1} /\ Eff(s)' = Pos(s) + 1
          /\ Rest(s)' = <<>> \/ Head(Rest(s)') \in {First(s), "done"}
          /\ todo'[s] = <<>> \/ Head(todo'[s]) \in {First(s), "done"}
          /\ Tail(todo[s]) \in {<<>>, <<"done">>}
          /\ \A t \in Sides : t # s => left'[t] = left[t] /\ todo'[t] = todo[t] /\ own'[t] = own[t]
      BY <1>1, <2>2, <3>1, PartSecond
    <3> QED BY <1>3, <2>2, <3>2
  <2> QED BY <2>1, <2>2, <1>2
<1>7. got' = [got EXCEPT ![s] = msg] BY DEF PartOver
<1>8. Types' BY <1>1, <1>6, <1>7 DEF Types
<1>9. SideInv(s)'
  <2>1. CommInv(s)' BY <1>4 DEF CommInv
  <2> QED BY <2>1, <1>6 DEF SideInv
<1>10. ASSUME NEW t \in Sides, t # s
       PROVE  SideInv(t)' /\ Eff(t)' = Eff(t) /\ Rest(t)' = Rest(t) /\ Pos(t)' = Pos(t)
  <2>1. left'[t] = left[t] /\ todo'[t] = todo[t] /\ own'[t] = own[t] BY <1>6, <1>10
  <2>2. sent'[t] = sent[t] /\ buf'[t] = buf[t] /\ comm'[t] = comm[t] BY <1>10
  <2>3. SideInv(t) BY DEF IInv
  <2>4. SideInv(t)' BY <2>1, <2>2, <2>3, SideStays
  <2>5. Eff(t)' = Eff(t) /\ Rest(t)' = Rest(t) /\ Pos(t)' = Pos(t) BY <2>1, <2>2, Unmoved
  <2> QED BY <2>4, <2>5
<1>11. \A t \in Sides : SideInv(t)' /\ TcpInv(t)'
  <2>1. \A t \in Sides : TcpInv(t)' BY DEF IInv, TcpInv, Gone
  <2> QED BY <2>1, <1>9, <1>10
<1>12. GotInv'
  <2>0. Script' = Script BY ScriptStays
  <2>1. \A t \in Sides : got'[t] # None => got'[t].item = got'[t].for
    <3> SUFFICES ASSUME NEW t \in Sides, got'[t] # None PROVE got'[t].item = got'[t].for OBVIOUS
    <3>1. CASE t = s
      <4>1. got'[t] = msg BY <3>1, <1>1, <1>7 DEF Types
      <4> QED BY <4>1
    <3>2. CASE t # s
      <4>1. got'[t] = got[t] BY <3>2, <1>1, <1>7 DEF Types
      <4> QED BY <4>1, <1>1 DEF GotInv
    <3> QED BY <3>1, <3>2
  <2>2. ASSUME todo'["server"] # <<>>, Head(todo'["server"]) = "write", Script[Pos("server")'][1] \in Fields
        PROVE  got'["server"].value = opt.host["client"][Script[Pos("server")'][1]]
    <3>1. CASE s = "client"
      <4>1. got'["server"] = got["server"] /\ todo'["server"] = todo["server"] /\ Pos("server")' = Pos("server")
        BY <3>1, <1>1, <1>6, <1>7, <1>10, BothSides DEF Types
      <4> QED BY <4>1, <2>2, <1>1 DEF GotInv
    <3>2. CASE s = "server"
      <4>1. Head(todo[s]) = First(s) BY <3>2, <2>2, <1>2, <1>6 DEF First, Second
      <4>2. Pos(s)' = Pos(s) BY <4>1, <1>6
      <4>3. msg.value = opt.host["client"][Script[Pos(s)][1]] BY <3>2, <4>2, <2>2, <1>5, BothSides
      <4>4. got'["server"] = msg BY <3>2, <1>1, <1>7 DEF Types
      <4> QED BY <3>2, <4>2, <4>3, <4>4
    <3> QED BY <3>1, <3>2 DEF Sides
  <2> QED BY <2>0, <2>1, <2>2 DEF GotInv
<1> QED BY <1>2, <1>6, <1>8, <1>10, <1>11, <1>12

\* ethernet_write_keys, ethernet_write_data.
LEMMA TcpWriteKept == ASSUME NEW s \in Sides, IInv, opt' = opt, TcpWrite(s) PROVE IInv'
<1>1. ~opt.use_rdma_cm /\ comm[s] = "open" /\ todo[s] # <<>> /\ Head(todo[s]) = "write"
  BY DEF TcpWrite, Doing
<1>2. CASE tcp[s] = "reset"
  <2>1. Exit(s) BY <1>2 DEF TcpWrite
  <2> QED BY <2>1, ExitKept
<1>3. CASE tcp[s] # "reset"
  <2> DEFINE t == Peer(s)
  <2>1. /\ PartOver(s, got[s])
        /\ stream' = IF tcp[s] = "open" THEN [stream EXCEPT ![t] = @ \o Text(s)] ELSE stream
        /\ tcp' = IF tcp[s] = "closed" THEN [tcp EXCEPT ![s] = "reset"] ELSE tcp
        /\ comm' = comm /\ buf' = buf /\ arrived' = arrived /\ sent' = sent
    BY <1>3 DEF TcpWrite
  <2>2. Types /\ SideInv(s) /\ TcpInv(s) /\ GotInv /\ TodoInv(s) /\ LeftInv(s) BY DEF IInv, SideInv
  <2>3. t \in Sides /\ t # s /\ \A x \in Sides : x = s \/ x = t BY DEF Sides, Peer
  <2>4. sent[s] # "complete" /\ sent[s] # "posted" BY <1>1, <2>2, EffIs
  <2>5. sent[s] = "none"
    <3>1. SentInv(s) BY <2>2 DEF SideInv
    <3> QED BY <3>1, <1>1 DEF SentInv
  <2>6. Text(s) \in Seq(Messages) BY <1>1, <2>2, TextIs
  <2>7. stream' \in [Sides -> Seq(Messages)]
    <3>1. stream[t] \o Text(s) \in Seq(Messages) BY <2>2, <2>3, <2>6, ConcatProperties DEF Types
    <3> QED BY <3>1, <2>1, <2>2 DEF Types
  <2>8. Here(s) = Script[Pos(s)] BY <1>1, <2>2, Busy
  <2>9. s # "client" => s = "server" BY DEF Sides
  <2>10. Here(s)[1] \in Fields /\ ~(s = "client" /\ Head(todo[s]) = "write") =>
           got[s].value = opt.host[t][Here(s)[1]]
    BY <1>1, <2>2, <2>8, <2>9, BothSides DEF GotInv
  <2>11. got[s] # None => got[s].item = got[s].for BY <2>2 DEF GotInv
  <2>12. DOMAIN sent' = Sides /\ DOMAIN tcp' = Sides /\ arrived' \in [Sides -> Int]
    BY <2>1, <2>2 DEF Types
  <2>13. \A x \in Sides : tcp'[x] # "open" => tcp[x] # "open" BY <2>1, <2>2 DEF Types
  <2>14. /\ Types' /\ GotInv'
         /\ \A x \in Sides : SideInv(x)' /\ TcpInv(x)'
         /\ \A x \in Sides : x # s => Eff(x)' = Eff(x) /\ Rest(x)' = Rest(x)
         /\ Head(todo[s]) = First(s) =>
              Eff(s)' = Pos(s) /\ Rest(s)' # <<>> /\ Head(Rest(s)') = Second(s)
         /\ Head(todo[s]) = Second(s) =>
              Eff(s)' = Pos(s) + 1 /\ (Rest(s)' = <<>> \/ Head(Rest(s)') \in {First(s), "done"})
    <3>1. Head(todo[s]) # "done" /\ sent'[s] = "none" BY <1>1, <2>1, <2>5
    <3>2. \A x \in Sides : x # s => sent'[x] = sent[x] BY <2>1
    <3> QED BY <1>1, <2>1, <2>7, <2>10, <2>11, <2>12, <2>13, <3>1, <3>2, PartKept
  <2>15. PICK p : p = Pos(s) OBVIOUS
  <2>16. Quiet(t) /\ ~ClearFrom(Eff(t)) => Gone(t)' \/ Brings(t, p)'
    <3>1. CASE tcp[s] = "open"
      <4>1. stream' = [stream EXCEPT ![t] = @ \o Text(s)] BY <3>1, <2>1
      <4> QED BY <4>1, <1>1, <2>2, <2>3, <2>15, TextBrings
    <3>2. CASE tcp[s] # "open"
      <4>1. Gone(t) BY <3>2, <2>2 DEF TcpInv
      <4> QED BY <4>1, <2>1 DEF Gone
    <3> QED BY <3>1, <3>2
  <2>17. stream'[s] = stream[s] /\ arrived'[s] = arrived[s] BY <2>1, <2>2, <2>3 DEF Types
  <2>18. LockInv'
    <3>1. CASE s = "client"
      <4>1. Head(todo[s]) = First(s) /\ Second(s) = "read" /\ t = "server" BY <1>1, <3>1, BothSides DEF First, Second
      <4>2. Quiet("server") /\ ~ClearFrom(Eff("server")) BY <1>1, <2>4, <3>1, BeforeAsking
      <4>3. Gone("server")' \/ Brings("server", p)' BY <2>16, <4>1, <4>2
      <4>4. Eff("server")' = Eff("server") /\ Rest("server")' = Rest("server") BY <2>3, <2>14, <4>1
      <4> QED BY <1>1, <2>4, <2>14, <2>15, <2>17, <3>1, <4>1, <4>3, <4>4, AfterAsking
    <3>2. CASE s = "server"
      <4>1. Head(todo[s]) = Second(s) /\ First(s) = "read" /\ t = "client" BY <1>1, <3>2, BothSides DEF First, Second
      <4>2. Quiet("client") /\ ~ClearFrom(Eff("client")) BY <1>1, <2>4, <3>2, BeforeAnswering
      <4>3. Gone("client")' \/ Brings("client", p)' BY <2>16, <4>1, <4>2
      <4>4. Eff("client")' = Eff("client") /\ Rest("client")' = Rest("client") BY <2>3, <2>14, <4>1
      <4>5. Eff("server")' = Pos("server") + 1 /\ (Rest("server")' = <<>> \/ Head(Rest("server")') # "write")
        BY <2>14, <3>2, <4>1
      <4> QED BY <1>1, <2>4, <2>15, <2>17, <3>2, <4>3, <4>4, <4>5, AfterAnswering
    <3> QED BY <3>1, <3>2, <2>9
  <2> QED BY <2>14, <2>18 DEF IInv
<1> QED BY <1>2, <1>3

\* One who reads a whole text reads what was written for the exchange.
LEMMA ReadsIts ==
  ASSUME NEW s \in Sides, IInv, ~opt.use_rdma_cm, comm[s] = "open", todo[s] # <<>>, Head(todo[s]) = "read",
         stream[s] # <<>>, stream[s][1].piece # 2
  PROVE  /\ IF s = "server" THEN Asked ELSE Answered
         /\ Brings(s, Pos(s)) /\ Data(s, Pos(s), stream[s][1])
<1>1. ~Stuck(s) /\ ~Gone(s) BY DEF Stuck, Gone
<1>2. CASE s = "server"
  <2>1. Asked BY <1>1, <1>2, BeforeHearing DEF Quiet
  <2>2. Brings(s, Pos(s)) BY <1>1, <1>2, <2>1, BeforeHearing
  <2> QED BY <1>1, <1>2, <2>1, <2>2 DEF Brings
<1>3. CASE s = "client"
  <2>1. Answered BY <1>1, <1>3, BeforeLearning DEF Quiet
  <2>2. Brings(s, Pos(s)) BY <1>1, <1>3, <2>1, BeforeLearning
  <2> QED BY <1>1, <1>3, <2>1, <2>2 DEF Brings
<1> QED BY <1>2, <1>3 DEF Sides

\* ethernet_read_keys, ethernet_read_data.
LEMMA TcpReadKept == ASSUME NEW s \in Sides, IInv, opt' = opt, TcpRead(s) PROVE IInv'
<1> DEFINE n == Pieces(s)
           first == stream[s][1]
<1>1. ~opt.use_rdma_cm /\ comm[s] = "open" /\ todo[s] # <<>> /\ Head(todo[s]) = "read"
  BY DEF TcpRead, Doing
<1>0. Head(stream[s]) = first OBVIOUS
<1>2. CASE Len(stream[s]) < n \/ first.piece # 1
  <2>1. Exit(s) BY <1>0, <1>2 DEF TcpRead
  <2> QED BY <2>1, ExitKept
<1>3. CASE ~(Len(stream[s]) < n \/ first.piece # 1)
  <2> DEFINE t == Peer(s)
             msg == [item |-> first.item, for |-> Here(s), value |-> first.value]
  <2>1. /\ PartOver(s, msg)
        /\ stream' = [stream EXCEPT ![s] = SubSeq(@, n + 1, Len(@))]
        /\ tcp' = tcp /\ comm' = comm /\ buf' = buf /\ arrived' = arrived /\ sent' = sent
    BY <1>0, <1>3 DEF TcpRead
  <2>2. Types /\ SideInv(s) /\ TodoInv(s) /\ LeftInv(s) BY DEF IInv, SideInv
  <2>3. n \in {1, 2} BY DEF Pieces
  <2>4. sent[s] = "none" BY <1>1, <2>2, EffIs
  <2>5. t \in Sides /\ t # s /\ \A x \in Sides : x = s \/ x = t BY DEF Sides, Peer
  <2>6. stream[s] # <<>>
    <3>1. SUFFICES ASSUME stream[s] = <<>> PROVE FALSE OBVIOUS
    <3>2. Len(stream[s]) = 0 BY <3>1, EmptySeq
    <3> QED BY <3>2, <1>3, <2>3
  <2>7. /\ IF s = "server" THEN Asked ELSE Answered
        /\ Brings(s, Pos(s)) /\ Data(s, Pos(s), first)
    BY <1>1, <1>3, <2>6, ReadsIts
  <2>8. Here(s) = Script[Pos(s)] BY <1>1, <2>2, Busy
  <2>9. msg.item = msg.for /\ (Here(s)[1] \in Fields => msg.value = opt.host[t][Here(s)[1]])
    BY <2>7, <2>8 DEF Data
  <2>10. PICK p : p = Pos(s) OBVIOUS
  <2>11. /\ stream' \in [Sides -> Seq(Messages)]
         /\ stream'[s] = <<>> \/ Stuck(s)' \/ (s = "client" /\ ClearFrom(p + 1))
         /\ \A x \in Sides : x # s => stream'[x] = stream[x]
    <3>1. first.piece = 1 /\ ~(Len(stream[s]) < n) /\ Brings(s, p) BY <1>3, <2>7, <2>10
    <3> QED BY <1>1, <2>1, <2>2, <2>3, <3>1, ReadLeaves
  <2>12. DOMAIN sent' = Sides /\ DOMAIN tcp' = Sides /\ arrived' \in [Sides -> Int]
    BY <2>1, <2>2 DEF Types
  <2> HIDE DEF msg
  <2>13. /\ Types' /\ GotInv'
         /\ \A x \in Sides : SideInv(x)' /\ TcpInv(x)'
         /\ \A x \in Sides : x # s => Eff(x)' = Eff(x) /\ Rest(x)' = Rest(x)
         /\ Head(todo[s]) = First(s) =>
              Eff(s)' = Pos(s) /\ Rest(s)' # <<>> /\ Head(Rest(s)') = Second(s)
         /\ Head(todo[s]) = Second(s) =>
              Eff(s)' = Pos(s) + 1 /\ (Rest(s)' = <<>> \/ Head(Rest(s)') \in {First(s), "done"})
    <3>1. Head(todo[s]) # "done" /\ sent'[s] = "none" BY <1>1, <2>1, <2>4
    <3>2. \A x \in Sides : (x # s => sent'[x] = sent[x]) /\ (tcp'[x] # "open" => tcp[x] # "open") BY <2>1
    <3> QED BY <1>1, <2>1, <2>9, <2>11, <2>12, <3>1, <3>2, PartKept
  <2>14. stream'[t] = stream[t] /\ arrived'[t] = arrived[t] BY <2>1, <2>5, <2>11
  <2>15. LockInv'
    <3>1. CASE s = "server"
      <4>1. Head(todo[s]) = First(s) /\ Second(s) = "write" /\ t = "client" BY <1>1, <3>1, BothSides DEF First, Second
      <4>2. Quiet("server")' BY <1>1, <2>1, <2>11, <3>1 DEF Quiet
      <4>3. Eff("client")' = Eff("client") /\ Rest("client")' = Rest("client") BY <2>5, <2>13, <4>1
      <4> QED BY <1>1, <2>7, <2>13, <2>14, <3>1, <4>1, <4>2, <4>3, AfterHearing
    <3>2. CASE s = "client"
      <4>1. Head(todo[s]) = Second(s) /\ First(s) = "write" /\ t = "server" BY <1>1, <3>2, BothSides DEF First, Second
      <4>2. Eff("client")' = p + 1 /\ (Rest("client")' = <<>> \/ Head(Rest("client")') # "read")
        BY <2>10, <2>13, <3>2, <4>1
      <4>3. ClearFrom(p + 1) => ClearFrom(p + 1)'
        <5>1. Script' = Script /\ N' = N BY ScriptStays DEF N
        <5> QED BY <5>1 DEF ClearFrom, Ex
      <4>4. ClearFrom(p + 1)' => ClearFrom(Eff("client"))' BY <4>2 DEF ClearFrom
      <4>5. Quiet("client")' BY <1>1, <2>1, <2>11, <3>2, <4>3, <4>4 DEF Quiet
      <4>6. Eff("server")' = Eff("server") /\ Rest("server")' = Rest("server") BY <2>5, <2>13, <4>1
      <4>7. Eff("client")' = Pos("client") + 1 BY <4>2, <2>10, <3>2
      <4>8. Answered BY <2>7, <3>2
      <4> QED BY <1>1, <2>14, <3>2, <4>1, <4>2, <4>5, <4>6, <4>7, <4>8, AfterLearning
    <3> QED BY <3>1, <3>2 DEF Sides
  <2> QED BY <2>13, <2>15 DEF IInv
<1> QED BY <1>2, <1>3

\* Whoever says goodbye leaves nothing to be said after what it said last.
LEMMA AtGoodbye ==
  ASSUME NEW s \in Sides, IInv, todo[s] # <<>>, Head(todo[s]) = "done"
  PROVE  /\ Pos(s) = N - 1 /\ Eff(s) = N /\ sent[s] = "none" /\ Rest(s) # <<>> /\ Head(Rest(s)) = "done"
         /\ left[s] # <<>>
         /\ s = "client" => ~Asked /\ ~Answered /\ ClearFrom(Eff("server"))
         /\ s = "server" => ~Asked /\ (Answered => ClearFrom(Eff("client") + 1))
                                   /\ (~Answered => ClearFrom(Eff("client")))
<1>1. Types /\ SideInv(s) /\ LeftInv(s) /\ TodoInv(s) BY DEF IInv, SideInv
<1>2. sent[s] = "none" BY <1>1, EffIs
<1>3. Pos(s) \in 1..N /\ Script[Pos(s)][1] = "close" /\ left[s] # <<>> BY <1>1, Busy
<1>4. Pos(s) = N - 1 /\ N \in Nat /\ ~Ex(N) BY <1>1, <1>3, Landmarks
<1>5. Rest(s) = todo[s] BY <1>2 DEF Rest
<1>6. todo[s] = <<"done">>
  <2>1. First(s) # "done" /\ Second(s) # "done" BY DEF First, Second
  <2>2. Head(<<Second(s)>>) = Second(s) /\ Head(<<Second(s), "done">>) = Second(s) BY Tails
  <2> QED BY <2>1, <2>2, <1>1, Busy
<1>7. Eff(s) = N BY <1>4, <1>5, <1>6 DEF Eff
<1>8. Lock(Eff("client"), Eff("server"), Awaits, Owes) BY DEF IInv, LockInv
<1>9. Eff("client") \in Int /\ Eff("server") \in Int BY <1>1, BothSides, EffIs DEF IInv
<1>10. CASE s = "client"
  <2>1. ~Awaits BY <1>5, <1>10 DEF Awaits
  <2>2. ~Asked /\ ~Answered BY <2>1 DEF Asked, Answered
  <2>3. Clear(Eff("server"), N) BY <1>7, <1>8, <1>10, <2>1 DEF Lock
  <2>4. ClearFrom(Eff("server")) BY <1>4, <2>3 DEF Clear, ClearFrom
  <2> QED BY <1>2, <1>3, <1>4, <1>5, <1>7, <1>10, <2>2, <2>4
<1>11. CASE s = "server"
  <2>1. ~Owes BY <1>5, <1>11 DEF Owes
  <2>2. ~Asked
    <3> SUFFICES ASSUME Asked PROVE FALSE OBVIOUS
    <3>1. Awaits /\ N <= Eff("client") BY <1>7, <1>11 DEF Asked
    <3>2. Eff("client") \in 1..N /\ Ex(Eff("client")) BY <1>8, <3>1 DEF Lock
    <3>3. Eff("client") = N BY <3>1, <3>2, <1>4
    <3> QED BY <3>2, <3>3, <1>4
  <2>3. ASSUME Answered PROVE ClearFrom(Eff("client") + 1)
    <3>1. Awaits /\ Eff("client") < N BY <1>7, <1>11, <2>3 DEF Answered
    <3>2. Clear(Eff("client") + 1, N) BY <1>4, <1>7, <1>8, <1>9, <1>11, <2>1, <3>1 DEF Lock
    <3> QED BY <3>2, <1>4 DEF Clear, ClearFrom
  <2>4. ASSUME ~Answered PROVE ClearFrom(Eff("client"))
    <3>1. ~Awaits
      <4>1. ~(Awaits /\ N <= Eff("client")) BY <1>7, <1>11, <2>1, <2>2 DEF Asked
      <4>2. ~(Awaits /\ Eff("client") < N) BY <1>7, <1>11, <2>1, <2>4 DEF Answered
      <4> QED BY <4>1, <4>2, <1>4, <1>9
    <3>2. Clear(Eff("client"), N) BY <1>7, <1>8, <1>11, <3>1 DEF Lock
    <3> QED BY <3>2, <1>4 DEF Clear, ClearFrom
  <2> QED BY <1>2, <1>3, <1>4, <1>5, <1>7, <1>11, <2>2, <2>3, <2>4
<1> QED BY <1>10, <1>11 DEF Sides

\* A message after the last that will be read.
LEMMA AppendBrings ==
  ASSUME Types, NEW p, NEW x \in Messages, opt' = opt, ~opt.use_rdma_cm, Brings("client", p), ClearFrom(p + 1),
         stream'["client"] = Append(stream["client"], x)
  PROVE  Brings("client", p)'
<1>1. stream["client"] \in Seq(Messages) BY BothSides DEF Types
<1>2. Script' = Script /\ N' = N BY ScriptStays DEF N
<1>3. stream["client"] # <<>> BY DEF Brings
<1>4. Len(stream["client"]) \in Nat /\ Len(stream["client"]) # 0 BY <1>1, <1>3, EmptySeq
<1>5. 1 \in 1..Len(stream["client"]) BY <1>4
<1>6. stream'["client"][1] = stream["client"][1] /\ stream'["client"] # <<>>
  BY <1>1, <1>5, AppendProperties
<1>7. ClearFrom(p + 1)' BY <1>2 DEF ClearFrom, Ex
<1>8. Stuck("client") => Stuck("client")' BY <1>6 DEF Stuck
<1>9. CASE Stuck("client") BY <1>6, <1>8, <1>9 DEF Brings
<1>10. CASE ~Stuck("client")
  <2>1. stream["client"][1].piece = 1 /\ Data("client", p, stream["client"][1]) BY <1>10 DEF Brings
  <2>2. Data("client", p, stream["client"][1])' BY <2>1, <1>2, <1>6 DEF Data
  <2> QED BY <2>1, <2>2, <1>6, <1>7 DEF Brings
<1> QED BY <1>9, <1>10

\* The end of ctx_close_connection.
LEMMA TcpDoneKept == ASSUME NEW s \in Sides, IInv, opt' = opt, TcpDone(s) PROVE IInv'
<1>1. comm[s] = "open" /\ todo[s] # <<>> /\ Head(todo[s]) = "done" BY DEF TcpDone, Doing
<1>0. ~opt.use_rdma_cm BY <1>1, Busy DEF IInv, SideInv
<1>2. CASE tcp[s] = "reset"
  <2>1. Exit(s) BY <1>2 DEF TcpDone
  <2> QED BY <2>1, ExitKept
<1>3. CASE tcp[s] # "reset"
  <2> DEFINE t == Peer(s)
             bye == [item |-> Item("done"), value |-> 0, piece |-> 1]
  <2>1. /\ stream' = IF tcp[s] = "open" THEN [stream EXCEPT ![t] = Append(@, bye)] ELSE stream
        /\ Close(s, "closed") /\ Advance(s)
        /\ buf' = buf /\ arrived' = arrived /\ sent' = sent /\ own' = own /\ got' = got
    BY <1>3 DEF TcpDone
  <2>2. Types /\ SideInv(s) /\ LeftInv(s) /\ TodoInv(s) /\ GotInv BY DEF IInv, SideInv
  <2>3. t \in Sides /\ t # s /\ \A x \in Sides : x = s \/ x = t BY DEF Sides, Peer
  <2>4. /\ Pos(s) = N - 1 /\ Eff(s) = N /\ sent[s] = "none" /\ Rest(s) # <<>> /\ Head(Rest(s)) = "done"
        /\ left[s] # <<>>
    BY <1>1, AtGoodbye
  <2>5. /\ left' \in [Sides -> Seq(ItemSet)] /\ todo' \in [Sides -> Seq({"read", "write", "done"})]
        /\ LeftInv(s)' /\ TodoInv(s)' /\ SentInv(s)'
        /\ Pos(s)' = Pos(s) + 1 /\ Eff(s)' = Pos(s) + 1
        /\ Rest(s)' = <<>> \/ Head(Rest(s)') = First(s)
        /\ todo'[s] = <<>> \/ Head(todo'[s]) = First(s)
        /\ \A x \in Sides : x # s => left'[x] = left[x] /\ todo'[x] = todo[x]
    BY <2>1, <2>2, <2>4, Forward
  <2>6. /\ DOMAIN comm' = Sides /\ DOMAIN tcp' = Sides
        /\ comm' = [comm EXCEPT ![s] = "closed"]
        /\ \A x \in Sides : /\ Gone(x) => Gone(x)'
                            /\ comm'[x] = comm[x] \/ comm'[x] \notin Outside
                            /\ TcpInv(x)'
    <3>1. TcpInv(s) /\ TcpInv(Peer(s)) BY <2>3 DEF IInv
    <3> QED BY <2>1, <2>2, <3>1, Closes
  <2>7. stream' \in [Sides -> Seq(Messages)] /\ bye \in Messages
    <3>1. bye \in Messages BY DEF Messages
    <3>2. stream[t] \in Seq(Messages) BY <2>2, <2>3 DEF Types
    <3> HIDE DEF bye
    <3>3. Append(stream[t], bye) \in Seq(Messages) BY <3>1, <3>2, AppendProperties
    <3> QED BY <2>1, <2>2, <3>1, <3>3 DEF Types
  <2>8. Types' BY <2>1, <2>2, <2>5, <2>6, <2>7 DEF Types
  <2>9. SideInv(s)'
    <3>1. comm'[s] = "closed" BY <2>2, <2>6 DEF Types
    <3>2. CommInv(s)' BY <3>1 DEF CommInv, Outside
    <3>3. OwnInv(s)'
      <4>1. \A f \in Fields : Settlement(f)' = Settlement(f) BY DEF Settlement
      <4>2. OwnInv(s) /\ N \in Nat /\ N >= 7 BY <2>2, Landmarks DEF SideInv
      <4>3. \A f \in Fields : ~(Pos(s) <= Place[f]) /\ ~(Pos(s) + 1 <= Place[f])
        BY <2>4, <4>2 DEF Fields, Place
      <4> QED BY <2>1, <2>5, <4>1, <4>2, <4>3 DEF OwnInv
    <3> QED BY <2>5, <3>2, <3>3 DEF SideInv
  <2>10. SideInv(t)' /\ Eff(t)' = Eff(t) /\ Rest(t)' = Rest(t) /\ Pos(t)' = Pos(t) /\ todo'[t] = todo[t]
    <3>1. left'[t] = left[t] /\ todo'[t] = todo[t] BY <2>3, <2>5
    <3>2. sent'[t] = sent[t] /\ own'[t] = own[t] /\ buf'[t] = buf[t] BY <2>1
    <3>3. SideInv(t) /\ (comm'[t] = comm[t] \/ comm'[t] \notin Outside) BY <2>3, <2>6 DEF IInv
    <3>4. SideInv(t)' BY <2>3, <3>1, <3>2, <3>3, SideStays
    <3> QED BY <2>3, <3>1, <3>2, <3>4, Unmoved
  <2>11. \A x \in Sides : SideInv(x)' /\ TcpInv(x)' BY <2>3, <2>6, <2>9, <2>10
  <2>12. GotInv'
    <3>1. CASE s = "server"
      <4>1. todo'["server"] = <<>> \/ Head(todo'["server"]) # "write" BY <3>1, <2>5 DEF First
      <4> QED BY <4>1, <2>1, <2>2 DEF GotInv
    <3>2. CASE s = "client"
      <4>1. t = "server" BY <3>2, BothSides
      <4>2. Pos("server")' = Pos("server") /\ todo'["server"] = todo["server"] /\ Script' = Script
        BY <4>1, <2>10, ScriptStays
      <4> QED BY <4>2, <2>1, <2>2 DEF GotInv
    <3> QED BY <3>1, <3>2 DEF Sides
  <2>13. \A x \in Sides : Eff(x)' = Eff(x) /\ arrived'[x] = arrived[x] /\ Eff(x) \in Int
    <3>1. N \in Nat /\ Eff(s)' = Eff(s) BY <2>2, <2>4, <2>5, Landmarks
    <3> QED BY <3>1, <2>1, <2>3, <2>10, EffIs DEF IInv
  <2>14. Awaits' = Awaits /\ Owes' = Owes
    <3>1. CASE s = "client"
      <4>1. ~Awaits /\ ~Awaits' BY <3>1, <2>4, <2>5 DEF Awaits, First
      <4>2. t = "server" BY <3>1, BothSides
      <4>3. Owes' = Owes BY <4>2, <2>10 DEF Owes
      <4>4. Awaits \in BOOLEAN /\ Awaits' \in BOOLEAN BY DEF Awaits
      <4> QED BY <4>1, <4>3, <4>4
    <3>2. CASE s = "server"
      <4>1. ~Owes /\ ~Owes' BY <3>2, <2>4, <2>5 DEF Owes, First
      <4>2. t = "client" BY <3>2, BothSides
      <4>3. Awaits' = Awaits BY <4>2, <2>10 DEF Awaits
      <4>4. Owes \in BOOLEAN /\ Owes' \in BOOLEAN BY DEF Owes
      <4> QED BY <4>1, <4>3, <4>4
    <3> QED BY <3>1, <3>2 DEF Sides
  <2>15. Asked' = Asked /\ Answered' = Answered BY <2>13, <2>14, BothSides DEF Asked, Answered
  <2>16. Lock(Eff("client"), Eff("server"), Awaits, Owes)'
    <3>1. PICK c, v, a, o : c = Eff("client") /\ v = Eff("server") /\ a = Awaits /\ o = Owes OBVIOUS
    <3>2. Lock(c, v, a, o) BY <3>1 DEF IInv, LockInv
    <3>3. Lock(c, v, a, o)' BY <3>2, LockStays
    <3>4. Eff("client")' = c /\ Eff("server")' = v BY <3>1, <2>13, BothSides
    <3> QED BY <3>1, <3>3, <3>4, <2>14 DEF Lock, Clear
  <2>17. Gone(s)' BY <2>2, <2>6 DEF Gone, Types
  <2>18. stream'[s] = stream[s] BY <2>1, <2>2, <2>3 DEF Types
  <2>19. Quiet(s) => Quiet(s)' BY <2>2, <2>13, <2>18, QuietStays
  <2>20. ASSUME ClearFrom(Eff(t)) PROVE Quiet(t)'
    <3>1. PICK e : e = Eff(t) OBVIOUS
    <3>2. ClearFrom(e)
      BY <3>1, <2>20
    <3>3. ClearFrom(e)'
      <4>1. Script' = Script /\ N' = N BY ScriptStays DEF N
      <4> QED BY <3>2, <4>1 DEF ClearFrom, Ex
    <3>4. ClearFrom(Eff(t))'
      <4>1. Eff(t)' = e BY <3>1, <2>10
      <4> QED BY <3>3, <4>1 DEF ClearFrom
    <3> QED BY <3>4, <1>0 DEF Quiet
  <2>21. CASE s = "client"
    <3>1. ~Asked /\ ~Answered /\ ClearFrom(Eff("server")) /\ t = "server" BY <2>21, <1>1, AtGoodbye, BothSides
    <3>2. Quiet("client") BY <3>1 DEF IInv, LockInv
    <3>3. Quiet("client")' /\ Quiet("server")' BY <2>19, <2>20, <2>21, <3>1, <3>2
    <3>4. LockInv' BY <2>15, <2>16, <3>1, <3>3 DEF LockInv
    <3> QED BY <2>8, <2>11, <2>12, <3>4 DEF IInv
  <2>22. CASE s = "server"
    <3>1. /\ ~Asked /\ (Answered => ClearFrom(Eff("client") + 1))
          /\ (~Answered => ClearFrom(Eff("client"))) /\ t = "client"
      BY <2>22, <1>1, AtGoodbye, BothSides
    <3>2. Quiet("server") BY <3>1 DEF IInv, LockInv
    <3>3. Quiet("server")' BY <2>19, <2>22, <3>2
    <3>4. ~Answered => Quiet("client")' BY <2>20, <3>1
    <3>5. ASSUME Answered PROVE Gone("client")' \/ Brings("client", Eff("client"))'
      <4>1. PICK c : c = Eff("client") OBVIOUS
      <4>2. Gone("client") \/ Brings("client", c) BY <3>5, <4>1 DEF IInv, LockInv
      <4>3. ClearFrom(c + 1) BY <3>1, <3>5, <4>1
      <4>4. CASE Gone("client") BY <4>4, <2>6, BothSides
      <4>5. CASE Brings("client", c)
        <5>1. Brings("client", c)'
          <6>1. CASE tcp[s] = "open"
            <7>1. stream'["client"] = Append(stream["client"], bye) BY <6>1, <2>1, <2>2, <3>1, BothSides DEF Types
            <7> HIDE DEF bye
            <7> QED BY <7>1, <1>0, <2>2, <2>7, <4>3, <4>5, AppendBrings
          <6>2. CASE tcp[s] # "open"
            <7>1. stream' = stream /\ arrived' = arrived /\ buf' = buf BY <6>2, <2>1
            <7> QED BY <7>1, <4>5, BothSides, BringsStays
          <6> QED BY <6>1, <6>2
        <5>2. Eff("client")' = c BY <4>1, <2>13, BothSides
        <5> QED BY <5>1, <5>2 DEF Brings, Data, ClearFrom
      <4> QED BY <4>2, <4>4, <4>5
    <3>6. LockInv' BY <2>15, <2>16, <3>1, <3>3, <3>4, <3>5 DEF LockInv
    <3> QED BY <2>8, <2>11, <2>12, <3>6 DEF IInv
  <2> QED BY <2>21, <2>22 DEF Sides
<1> QED BY <1>2, <1>3

(***************************************************************************)
(* The RDMA channel.                                                       *)
(***************************************************************************)
\* A send is posted, or fails: nothing is said yet.
LEMMA SendKept ==
  ASSUME NEW s \in Sides, IInv, opt' = opt, todo[s] # <<>>, Head(todo[s]) = "write", sent[s] # "complete",
         opt.use_rdma_cm, UNCHANGED <<left, todo, comm, tcp, stream, arrived, own, got>>,
         DOMAIN sent' = Sides, DOMAIN buf' = Sides,
         sent'[s] \in {"posted", "error"},
         sent'[s] = "posted" => Data(Peer(s), Pos(s), buf'[s]),
         \A t \in Sides : t # s => sent'[t] = sent[t] /\ buf'[t] = buf[t]
  PROVE  IInv'
<1>1. Types /\ SideInv(s) /\ LeftInv(s) /\ TodoInv(s) /\ SentInv(s) /\ CommInv(s) /\ OwnInv(s) BY DEF IInv, SideInv
<1>2. Types' BY <1>1 DEF Types
<1>3. Script' = Script /\ N' = N BY ScriptStays DEF N
<1>4. Pos(s)' = Pos(s) BY <1>3 DEF Pos
<1>5. Rest(s)' = Rest(s) BY DEF Rest
<1>6. Eff(s)' = Eff(s) BY <1>4, <1>5 DEF Eff
<1>7. SideInv(s)'
  <2>1. LeftInv(s)' BY <1>1, <1>3 DEF LeftInv
  <2>2. TodoInv(s)' BY <1>1, <1>3, <1>4 DEF TodoInv, Ex, First, Second
  <2>3. SentInv(s)'
    <3>1. PICK p : p = Pos(s) OBVIOUS
    <3>2. sent'[s] = "posted" => Data(Peer(s), p, buf[s])' BY <3>1, <1>3 DEF Data
    <3> QED BY <3>1, <3>2, <1>4 DEF SentInv, Data
  <2>4. CommInv(s)' BY <1>1, <1>4 DEF CommInv
  <2>5. OwnInv(s)'
    <3>1. \A f \in Fields : Settlement(f)' = Settlement(f) BY DEF Settlement
    <3> QED BY <3>1, <1>1, <1>4 DEF OwnInv
  <2> QED BY <2>1, <2>2, <2>3, <2>4, <2>5 DEF SideInv
<1>8. ASSUME NEW t \in Sides, t # s
      PROVE  SideInv(t)' /\ Eff(t)' = Eff(t) /\ Rest(t)' = Rest(t) /\ Pos(t)' = Pos(t)
  <2>1. left'[t] = left[t] /\ todo'[t] = todo[t] /\ sent'[t] = sent[t] /\ own'[t] = own[t]
        /\ buf'[t] = buf[t] /\ comm'[t] = comm[t]
    BY <1>8
  <2>2. SideInv(t) BY DEF IInv
  <2>3. SideInv(t)' BY <2>1, <2>2, SideStays
  <2> QED BY <2>1, <2>3, Unmoved
<1>9. \A t \in Sides : SideInv(t)' /\ TcpInv(t)' BY <1>7, <1>8 DEF IInv, TcpInv, Gone
<1>10. \A t \in Sides : Eff(t)' = Eff(t) /\ Rest(t)' = Rest(t) /\ Pos(t)' = Pos(t) BY <1>4, <1>5, <1>6, <1>8
<1>11. GotInv' BY <1>3, <1>10, BothSides DEF IInv, GotInv
<1>12. LockInv'
  <2>1. s = "client" => ~Answered /\ buf'["server"] = buf["server"]
    <3> SUFFICES ASSUME s = "client" PROVE ~Answered /\ buf'["server"] = buf["server"] OBVIOUS
    <3> QED BY BeforeAsking, BothSides
  <2>2. s = "server" => ~Asked /\ buf'["client"] = buf["client"]
    <3> SUFFICES ASSUME s = "server" PROVE ~Asked /\ buf'["client"] = buf["client"] OBVIOUS
    <3> QED BY BeforeAnswering, BothSides
  <2>3. /\ buf'["server"] = buf["server"] \/ ~Asked
        /\ buf'["client"] = buf["client"] \/ ~Answered
    BY <2>1, <2>2 DEF Sides
  <2>4. Awaits' = Awaits /\ Owes' = Owes BY <1>10, BothSides DEF Awaits, Owes
  <2>5. \A t \in Sides : Eff(t) \in Int /\ Gone(t)' = Gone(t) BY EffIs DEF IInv, Gone
  <2> QED BY <1>1, <1>10, <2>3, <2>4, <2>5, LockSame DEF IInv
<1> QED BY <1>2, <1>9, <1>11, <1>12 DEF IInv

\* rdma_write_keys, rdma_write_data: the send is posted.
LEMMA RdmaPostKept == ASSUME NEW s \in Sides, IInv, opt' = opt, RdmaPost(s) PROVE IInv'
<1>1. /\ opt.use_rdma_cm /\ todo[s] # <<>> /\ Head(todo[s]) = "write" /\ sent[s] = "none"
      /\ buf' = [buf EXCEPT ![s] = [item |-> Here(s), value |-> Copied(s)]]
      /\ sent' = [sent EXCEPT ![s] = "posted"]
      /\ UNCHANGED <<left, todo, comm, tcp, stream, arrived, own, got>>
  BY DEF RdmaPost, Doing
<1>2. Types /\ SideInv(s) /\ LeftInv(s) /\ TodoInv(s) BY DEF IInv, SideInv
<1>3. /\ DOMAIN sent' = Sides /\ DOMAIN buf' = Sides /\ sent'[s] = "posted"
      /\ buf'[s] = [item |-> Here(s), value |-> Copied(s)]
      /\ \A t \in Sides : t # s => sent'[t] = sent[t] /\ buf'[t] = buf[t]
  BY <1>1, <1>2 DEF Types
<1>4. Here(s) = Script[Pos(s)] /\ Peer(Peer(s)) = s BY <1>1, <1>2, Busy DEF Sides, Peer
<1>5. Data(Peer(s), Pos(s), [item |-> Here(s), value |-> Copied(s)])
  <2>1. Here(s)[1] \in Fields => Copied(s) = Value(s) BY DEF Copied, IsAt, Fields
  <2> QED BY <2>1, <1>1, <1>2, <1>4, ValueIs DEF Data
<1>6. Data(Peer(s), Pos(s), buf'[s]) BY <1>3, <1>5
<1> QED BY <1>1, <1>3, <1>6, SendKept

\* A delivered send has said what the side had to say.
LEMMA RdmaDeliverKept == ASSUME NEW s \in Sides, IInv, opt' = opt, RdmaDeliver(s) PROVE IInv'
<1> DEFINE t == Peer(s)
<1>1. sent[s] = "posted" /\ UNCHANGED <<left, todo, comm, tcp, stream, own, got>> BY DEF RdmaDeliver
<1>2. Types /\ SideInv(s) /\ LeftInv(s) /\ TodoInv(s) /\ SentInv(s) /\ CommInv(s) /\ OwnInv(s) BY DEF IInv, SideInv
<1>3. opt.use_rdma_cm /\ todo[s] # <<>> /\ Head(todo[s]) = "write" /\ Data(t, Pos(s), buf[s])
  BY <1>1, <1>2 DEF SentInv
<1>4. t \in Sides /\ t # s /\ (\A x \in Sides : x = s \/ x = t) /\ SideInv(t) BY DEF Sides, Peer, IInv
<1>5. CASE comm[t] = "failed"
  <2>1. sent' = [sent EXCEPT ![s] = "error"] /\ buf' = buf /\ arrived' = arrived BY <1>5 DEF RdmaDeliver
  <2>2. /\ DOMAIN sent' = Sides /\ DOMAIN buf' = Sides /\ sent'[s] = "error"
        /\ \A x \in Sides : x # s => sent'[x] = sent[x] /\ buf'[x] = buf[x]
    BY <1>2, <2>1 DEF Types
  <2> QED BY <1>1, <1>3, <2>1, <2>2, SendKept
<1>6. CASE comm[t] # "failed"
  <2>1. /\ sent' = [sent EXCEPT ![s] = "complete"]
        /\ buf' = [buf EXCEPT ![t] = buf[s]]
        /\ arrived' = [arrived EXCEPT ![t] = arrived[t] + 1]
    BY <1>6 DEF RdmaDeliver
  <2>2. /\ sent'[s] = "complete" /\ sent'[t] = sent[t]
        /\ buf'[t] = buf[s] /\ buf'[s] = buf[s]
        /\ arrived'[t] = arrived[t] + 1 /\ arrived'[s] = arrived[s]
    BY <1>2, <1>4, <2>1 DEF Types
  <2>3. Types'
    <3>1. arrived[t] \in Int BY <1>2, <1>4 DEF Types
    <3>2. arrived[t] + 1 \in Int BY <3>1
    <3>3. arrived \in [Sides -> Int] BY <1>2 DEF Types
    <3>4. arrived' \in [Sides -> Int] BY <2>1, <3>2, <3>3
    <3> QED BY <1>1, <1>2, <2>1, <3>4 DEF Types
  <2>4. Script' = Script /\ N' = N BY ScriptStays DEF N
  <2>5. Pos(s)' = Pos(s) BY <1>1, <2>4 DEF Pos
  <2>6. Rest(s)' = Tail(todo[s]) BY <1>1, <2>2 DEF Rest
  <2>7. SideInv(s)'
    <3>1. LeftInv(s)' BY <1>1, <1>2, <2>4 DEF LeftInv
    <3>2. TodoInv(s)' BY <1>1, <1>2, <2>4, <2>5 DEF TodoInv, Ex, First, Second
    <3>3. SentInv(s)' BY <1>1, <1>3, <2>2 DEF SentInv
    <3>4. CommInv(s)' BY <1>1, <1>2, <2>5 DEF CommInv
    <3>5. OwnInv(s)'
      <4>1. \A f \in Fields : Settlement(f)' = Settlement(f) BY DEF Settlement
      <4> QED BY <4>1, <1>1, <1>2, <2>5 DEF OwnInv
    <3> QED BY <3>1, <3>2, <3>3, <3>4, <3>5 DEF SideInv
  <2>8. sent[t] # "posted"
    <3> SUFFICES ASSUME sent[t] = "posted" PROVE FALSE OBVIOUS
    <3>1. Head(todo[t]) = "write" /\ Rest(t) = todo[t] /\ todo[t] # <<>>
      BY <1>4 DEF SideInv, SentInv, Rest
    <3>2. CASE s = "client"
      <4>1. ~Owes /\ t = "server" BY <3>2, <1>1, <1>3, BeforeAsking, BothSides
      <4> QED BY <4>1, <3>1 DEF Owes
    <3>3. CASE s = "server"
      <4>1. Awaits /\ t = "client" BY <3>3, <1>1, <1>3, BeforeAnswering, BothSides
      <4> QED BY <4>1, <3>1 DEF Awaits
    <3> QED BY <3>2, <3>3 DEF Sides
  <2>9. SideInv(t)' /\ Eff(t)' = Eff(t) /\ Rest(t)' = Rest(t) /\ Pos(t)' = Pos(t)
    <3>1. left'[t] = left[t] /\ todo'[t] = todo[t] /\ own'[t] = own[t] /\ comm'[t] = comm[t] BY <1>1
    <3>2. SideInv(t)' BY <1>4, <2>2, <2>8, <3>1, SideStays
    <3> QED BY <1>4, <2>2, <3>1, <3>2, Unmoved
  <2>10. \A x \in Sides : SideInv(x)' /\ TcpInv(x)' BY <1>1, <1>4, <2>7, <2>9 DEF IInv, TcpInv, Gone
  <2>11. GotInv'
    <3>1. \A x \in Sides : Pos(x)' = Pos(x) BY <1>4, <2>5, <2>9
    <3> QED BY <1>1, <2>4, <3>1, BothSides DEF IInv, GotInv
  <2>12. PICK p : p = Pos(s) OBVIOUS
  <2>13. Quiet(t) => Brings(t, p)'
    <3> SUFFICES ASSUME Quiet(t) PROVE Brings(t, p)' OBVIOUS
    <3>1. arrived'[t] = 1 BY <1>3, <2>2 DEF Quiet
    <3>2. Data(t, p, buf[t])' BY <1>3, <2>2, <2>4, <2>12 DEF Data
    <3> QED BY <1>3, <3>1, <3>2 DEF Brings
  <2>14. LockInv'
    <3>1. CASE s = "client"
      <4>1. t = "server" /\ Quiet("server") BY <3>1, <1>1, <1>3, BeforeAsking, BothSides
      <4>2. First(s) = "write" /\ Second(s) = "read" BY <3>1 DEF First, Second
      <4>3. Tail(todo[s]) \in {<<"read">>, <<"read", "done">>}
        <5>1. Head(<<"read">>) = "read" /\ Head(<<"read", "done">>) = "read" /\ Head(<<"done">>) = "done" BY Tails
        <5> QED BY <5>1, <4>2, <1>2, <1>3, Busy
      <4>4. Rest("client")' # <<>> /\ Head(Rest("client")') = "read" /\ Rest("client")' # <<"done">>
        <5>1. \A q \in {<<"read">>, <<"read", "done">>} : q # <<>> /\ Head(q) = "read" /\ q # <<"done">>
          <6>1. Head(<<"read">>) = "read" /\ Head(<<"read", "done">>) = "read" /\ Head(<<"done">>) = "done" BY Tails
          <6>2. <<"read">> # <<>> /\ <<"read", "done">> # <<>> OBVIOUS
          <6> QED BY <6>1, <6>2
        <5>2. Rest("client")' = Tail(todo[s]) BY <2>6, <3>1
        <5> QED BY <5>1, <5>2, <4>3
      <4>5. Eff("client")' = Pos("client") BY <4>4, <2>5, <3>1 DEF Eff
      <4>6. Eff("server")' = Eff("server") /\ Rest("server")' = Rest("server") BY <2>9, <4>1
      <4>7. stream'["client"] = stream["client"] /\ arrived'["client"] = arrived["client"] BY <1>1, <2>2, <3>1
      <4>8. Brings("server", p)' BY <2>13, <4>1
      <4> QED BY <1>1, <1>3, <2>12, <3>1, <4>4, <4>5, <4>6, <4>7, <4>8, AfterAsking
    <3>2. CASE s = "server"
      <4>1. t = "client" /\ Quiet("client") BY <3>2, <1>1, <1>3, BeforeAnswering, BothSides
      <4>2. First(s) = "read" /\ Second(s) = "write" BY <3>2 DEF First, Second
      <4>3. todo[s] = <<"write">>
        <5>1. Head(<<"done">>) = "done" BY Tails
        <5>2. Len(todo[s]) = 1 BY <4>2, <1>2, <1>3, Busy
        <5> QED BY <5>1, <5>2, <4>2, <1>2, <1>3, Busy
      <4>4. Rest("server")' = <<>> BY <2>6, <3>2, <4>3, Tails
      <4>5. Eff("server")' = Pos("server") + 1 BY <1>1, <1>3, <2>5, <3>2, <4>4 DEF Eff
      <4>6. Eff("client")' = Eff("client") /\ Rest("client")' = Rest("client") BY <2>9, <4>1
      <4>7. stream'["server"] = stream["server"] /\ arrived'["server"] = arrived["server"] BY <1>1, <2>2, <3>2
      <4>8. Brings("client", p)' BY <2>13, <4>1
      <4> QED BY <1>1, <1>3, <2>12, <3>2, <4>4, <4>5, <4>6, <4>7, <4>8, AfterAnswering
    <3> QED BY <3>1, <3>2 DEF Sides
  <2> QED BY <2>3, <2>10, <2>11, <2>14 DEF IInv
<1> QED BY <1>5, <1>6

\* rdma_read_keys, rdma_read_data.
LEMMA RdmaReadKept == ASSUME NEW s \in Sides, IInv, opt' = opt, RdmaRead(s) PROVE IInv'
<1> DEFINE t == Peer(s)
           msg == [item |-> buf[s].item, for |-> Here(s), value |-> buf[s].value]
<1>1. /\ opt.use_rdma_cm /\ comm[s] = "open" /\ todo[s] # <<>> /\ Head(todo[s]) = "read" /\ arrived[s] > 0
      /\ PartOver(s, msg)
      /\ arrived' = [arrived EXCEPT ![s] = arrived[s] - 1]
      /\ tcp' = tcp /\ comm' = comm /\ buf' = buf /\ stream' = stream /\ sent' = sent
  BY DEF RdmaRead, Doing
<1>2. Types /\ SideInv(s) /\ TodoInv(s) /\ LeftInv(s) BY DEF IInv, SideInv
<1>3. t \in Sides /\ t # s /\ \A x \in Sides : x = s \/ x = t BY DEF Sides, Peer
<1>4. sent[s] = "none" BY <1>1, <1>2, EffIs
<1>5. ~Gone(s) /\ ~Quiet(s)
  <2>1. ~Quiet(s)
    <3> SUFFICES ASSUME Quiet(s) PROVE FALSE OBVIOUS
    <3>1. arrived[s] = 0 BY <1>1 DEF Quiet
    <3> QED BY <3>1, <1>1
  <2> QED BY <2>1, <1>1 DEF Gone
<1>6. (IF s = "server" THEN Asked ELSE Answered) /\ Brings(s, Pos(s))
  <2>1. CASE s = "server"
    <3>1. Asked BY <1>1, <1>5, <2>1, BeforeHearing
    <3> QED BY <1>1, <1>5, <2>1, <3>1, BeforeHearing
  <2>2. CASE s = "client"
    <3>1. Answered BY <1>1, <1>5, <2>2, BeforeLearning
    <3> QED BY <1>1, <1>5, <2>2, <3>1, BeforeLearning
  <2> QED BY <2>1, <2>2 DEF Sides
<1>7. arrived[s] = 1 /\ Data(s, Pos(s), buf[s]) BY <1>1, <1>6 DEF Brings
<1>8. Here(s) = Script[Pos(s)] BY <1>1, <1>2, Busy
<1>9. msg.item = msg.for /\ (Here(s)[1] \in Fields => msg.value = opt.host[t][Here(s)[1]])
  BY <1>7, <1>8 DEF Data
<1>10. /\ DOMAIN sent' = Sides /\ DOMAIN tcp' = Sides /\ arrived' \in [Sides -> Int]
       /\ stream' \in [Sides -> Seq(Messages)]
       /\ arrived'[s] = 0 /\ arrived'[t] = arrived[t]
  BY <1>1, <1>2, <1>3, <1>7 DEF Types
<1> HIDE DEF msg
<1>11. /\ Types' /\ GotInv'
       /\ \A x \in Sides : SideInv(x)' /\ TcpInv(x)'
       /\ \A x \in Sides : x # s => Eff(x)' = Eff(x) /\ Rest(x)' = Rest(x)
       /\ Head(todo[s]) = First(s) =>
            Eff(s)' = Pos(s) /\ Rest(s)' # <<>> /\ Head(Rest(s)') = Second(s)
       /\ Head(todo[s]) = Second(s) =>
            Eff(s)' = Pos(s) + 1 /\ (Rest(s)' = <<>> \/ Head(Rest(s)') \in {First(s), "done"})
  <2>1. Head(todo[s]) # "done" /\ sent'[s] = "none" BY <1>1, <1>4
  <2>2. \A x \in Sides : (x # s => sent'[x] = sent[x]) /\ (tcp'[x] # "open" => tcp[x] # "open") BY <1>1
  <2> QED BY <1>1, <1>9, <1>10, <2>1, <2>2, PartKept
<1>12. Quiet(s)' BY <1>1, <1>10 DEF Quiet
<1>13. stream'[t] = stream[t] BY <1>1
<1>14. LockInv'
  <2>1. CASE s = "server"
    <3>1. Head(todo[s]) = First(s) /\ Second(s) = "write" /\ t = "client" BY <1>1, <2>1, BothSides DEF First, Second
    <3>2. Eff("client")' = Eff("client") /\ Rest("client")' = Rest("client") BY <1>3, <1>11, <3>1
    <3> QED BY <1>1, <1>6, <1>10, <1>11, <1>12, <1>13, <2>1, <3>1, <3>2, AfterHearing
  <2>2. CASE s = "client"
    <3>1. Head(todo[s]) = Second(s) /\ First(s) = "write" /\ t = "server" BY <1>1, <2>2, BothSides DEF First, Second
    <3>2. Eff("server")' = Eff("server") /\ Rest("server")' = Rest("server") BY <1>3, <1>11, <3>1
    <3>3. Eff("client")' = Pos("client") + 1 /\ (Rest("client")' = <<>> \/ Head(Rest("client")') # "read")
      BY <1>11, <2>2, <3>1
    <3>4. Answered BY <1>6, <2>2
    <3> QED BY <1>1, <1>10, <1>12, <1>13, <2>2, <3>1, <3>2, <3>3, <3>4, AfterLearning
  <2> QED BY <2>1, <2>2 DEF Sides
<1> QED BY <1>11, <1>14 DEF IInv

\* rdma_write_keys, rdma_write_data: the completion is there.
LEMMA RdmaWrittenKept == ASSUME NEW s \in Sides, IInv, opt' = opt, RdmaWritten(s) PROVE IInv'
<1> DEFINE t == Peer(s)
<1>1. comm[s] = "open" /\ todo[s] # <<>> /\ Head(todo[s]) = "write" BY DEF RdmaWritten, Doing
<1>2. CASE sent[s] = "error" /\ Exit(s) BY <1>2, ExitKept
<1>3. CASE ~(sent[s] = "error" /\ Exit(s))
  <2>1. /\ sent[s] = "complete" /\ sent' = [sent EXCEPT ![s] = "none"]
        /\ PartOver(s, got[s])
        /\ comm' = comm /\ tcp' = tcp /\ stream' = stream /\ buf' = buf /\ arrived' = arrived
    BY <1>3 DEF RdmaWritten
  <2>2. Types /\ SideInv(s) /\ LeftInv(s) /\ TodoInv(s) /\ GotInv BY DEF IInv, SideInv
  <2>3. opt.use_rdma_cm BY <2>1, <2>2, EffIs
  <2>4. t \in Sides /\ t # s /\ \A x \in Sides : x = s \/ x = t BY DEF Sides, Peer
  <2>5. DOMAIN sent' = Sides /\ sent'[s] = "none" /\ (\A x \in Sides : x # s => sent'[x] = sent[x])
    BY <2>1, <2>2 DEF Types
  <2>6. Here(s) = Script[Pos(s)] BY <1>1, <2>2, Busy
  <2>7. s # "client" => s = "server" BY DEF Sides
  <2>8. Here(s)[1] \in Fields /\ ~(s = "client" /\ Head(todo[s]) = "write") =>
          got[s].value = opt.host[t][Here(s)[1]]
    BY <1>1, <2>2, <2>6, <2>7, BothSides DEF GotInv
  <2>9. got[s] # None => got[s].item = got[s].for BY <2>2 DEF GotInv
  <2>10. DOMAIN tcp' = Sides /\ arrived' \in [Sides -> Int] /\ stream' \in [Sides -> Seq(Messages)]
         /\ \A x \in Sides : tcp'[x] # "open" => tcp[x] # "open"
    BY <2>1, <2>2 DEF Types
  <2>11. /\ Types' /\ GotInv'
         /\ \A x \in Sides : SideInv(x)' /\ TcpInv(x)'
         /\ \A x \in Sides : x # s => Eff(x)' = Eff(x) /\ Rest(x)' = Rest(x)
         /\ Head(todo[s]) = First(s) =>
              Eff(s)' = Pos(s) /\ Rest(s)' # <<>> /\ Head(Rest(s)') = Second(s)
         /\ Head(todo[s]) = Second(s) =>
              Eff(s)' = Pos(s) + 1 /\ (Rest(s)' = <<>> \/ Head(Rest(s)') \in {First(s), "done"})
    <3>1. Head(todo[s]) # "done" BY <1>1
    <3> QED BY <1>1, <2>1, <2>5, <2>8, <2>9, <2>10, <3>1, PartKept
  <2>12. Rest(s) = Tail(todo[s]) BY <2>1 DEF Rest
  <2>13. Eff(s)' = Eff(s) /\ Awaits' = Awaits /\ Owes' = Owes
    <3>1. CASE s = "client"
      <4>1. First(s) = "write" /\ Second(s) = "read" /\ t = "server" BY <3>1, BothSides DEF First, Second
      <4>2. Tail(todo[s]) \in {<<"read">>, <<"read", "done">>}
        <5>1. Head(<<"read">>) = "read" /\ Head(<<"read", "done">>) = "read" /\ Head(<<"done">>) = "done" BY Tails
        <5> QED BY <5>1, <4>1, <1>1, <2>2, Busy
      <4>3. Rest(s) # <<>> /\ Head(Rest(s)) = "read" /\ Rest(s) # <<"done">>
        <5>1. \A q \in {<<"read">>, <<"read", "done">>} : q # <<>> /\ Head(q) = "read" /\ q # <<"done">>
          <6>1. Head(<<"read">>) = "read" /\ Head(<<"read", "done">>) = "read" /\ Head(<<"done">>) = "done" BY Tails
          <6>2. <<"read">> # <<>> /\ <<"read", "done">> # <<>> OBVIOUS
          <6> QED BY <6>1, <6>2
        <5> QED BY <5>1, <4>2, <2>12
      <4>4. Eff(s) = Pos(s) BY <4>3 DEF Eff
      <4>5. Awaits /\ Awaits' BY <1>1, <2>11, <3>1, <4>1, <4>3 DEF Awaits
      <4>6. Owes' = Owes BY <2>4, <2>11, <4>1 DEF Owes
      <4>7. Awaits \in BOOLEAN /\ Awaits' \in BOOLEAN BY DEF Awaits
      <4> QED BY <1>1, <2>11, <4>1, <4>4, <4>5, <4>6, <4>7
    <3>2. CASE s = "server"
      <4>1. First(s) = "read" /\ Second(s) = "write" /\ t = "client" BY <3>2, BothSides DEF First, Second
      <4>2. todo[s] = <<"write">>
        <5>1. Head(<<"done">>) = "done" BY Tails
        <5>2. Len(todo[s]) = 1 BY <4>1, <1>1, <2>2, <2>3, Busy
        <5> QED BY <5>1, <5>2, <4>1, <1>1, <2>2, Busy
      <4>3. Rest(s) = <<>> BY <2>12, <4>2, Tails
      <4>4. Eff(s) = Pos(s) + 1 BY <1>1, <4>3 DEF Eff
      <4>5. ~Owes /\ ~Owes' BY <1>1, <2>11, <3>2, <4>1, <4>3 DEF Owes
      <4>6. Awaits' = Awaits BY <2>4, <2>11, <4>1 DEF Awaits
      <4>7. Owes \in BOOLEAN /\ Owes' \in BOOLEAN BY DEF Owes
      <4> QED BY <1>1, <2>11, <4>1, <4>4, <4>5, <4>6, <4>7
    <3> QED BY <3>1, <3>2 DEF Sides
  <2>14. LockInv'
    <3>1. \A x \in Sides : Eff(x)' = Eff(x) BY <2>4, <2>11, <2>13
    <3>2. \A x \in Sides : Eff(x) \in Int /\ Gone(x)' = Gone(x) BY <2>1, EffIs DEF IInv, Gone
    <3>3. LockInv BY DEF IInv
    <3> QED BY <2>1, <2>2, <2>13, <3>1, <3>2, <3>3, LockSame
  <2> QED BY <2>11, <2>14 DEF IInv
<1> QED BY <1>2, <1>3

(***************************************************************************)
(* The specification.                                                      *)
(***************************************************************************)
\* One item further, where nothing is exchanged.
LEMMA PlainSkip ==
  ASSUME NEW s \in Sides, NEW kind, IInv, opt' = opt, IsAt(s, kind),
         kind \notin Exchanges \cup {"connect", "end"}, Advance(s), UNCHANGED exchanging
  PROVE  IInv'
<1>1. Types /\ LeftInv(s) /\ CommInv(s) BY DEF IInv, SideInv
<1>2. left[s] # <<>> BY DEF IsAt, Here, AtEnd, Item
<1>3. Pos(s) \in 1..N /\ Here(s) = Script[Pos(s)] BY <1>1, <1>2, HereIs
<1>4. ~Ex(Pos(s)) BY <1>3 DEF IsAt, Ex
<1>5. Pos(s) # 1
  <2>1. Script[1][1] = "connect" BY <1>1, ScriptFacts DEF Types, ScriptOK
  <2> QED BY <2>1, <1>3 DEF IsAt
<1>6. comm' = comm /\ UNCHANGED <<tcp, stream, buf, arrived, sent, own, got>> BY DEF exchanging
<1>7. comm'[s] \notin Outside /\ DOMAIN comm' = Sides BY <1>1, <1>5, <1>6 DEF CommInv, Types
<1>8. \A t \in Sides : Gone(t) => Gone(t)' BY <1>6 DEF Gone
<1> QED BY <1>2, <1>4, <1>6, <1>7, <1>8, SkipKept

\* Who has not joined is at the first item, where nothing is exchanged.
LEMMA OutsideIs ==
  ASSUME NEW s \in Sides, IInv, comm[s] \in Outside
  PROVE  Pos(s) = 1 /\ left[s] # <<>> /\ ~Ex(Pos(s))
<1>1. Types /\ LeftInv(s) /\ CommInv(s) BY DEF IInv, SideInv
<1>2. Pos(s) = 1 BY <1>1 DEF CommInv
<1>3. N \in Nat /\ N >= 7 /\ ~Ex(1) BY <1>1, Landmarks
<1>4. left[s] = <<>> => Pos(s) = N + 1 BY <1>1, HereIs
<1>5. left[s] # <<>>
  <2>1. 1 # N + 1 BY <1>3
  <2> QED BY <2>1, <1>2, <1>4
<1> QED BY <1>2, <1>3, <1>5

\* establish_connection.
LEMMA EstablishKept == ASSUME IInv, opt' = opt, Establish PROVE IInv'
<1>0. Types /\ (\A s \in Sides : TcpInv(s)) BY DEF IInv
<1>1. DOMAIN comm = Sides BY <1>0 DEF Types
<1>2. ASSUME Listen PROVE IInv'
  <2>1. comm["server"] = "off" /\ comm' = [comm EXCEPT !["server"] = "listening"]
        /\ UNCHANGED <<left, todo, tcp, stream, arrived, sent, own, got, buf>>
    BY <1>2 DEF Listen, quiet
  <2>2. Pos("server") = 1 BY <2>1, BothSides, OutsideIs DEF Outside
  <2>3. DOMAIN comm' = Sides /\ DOMAIN tcp' = Sides BY <1>0, <2>1 DEF Types
  <2>4. \A s \in Sides : comm'[s] = comm[s] \/ Pos(s) = 1 BY <1>1, <2>1, <2>2
  <2>5. \A s \in Sides : Gone(s) => Gone(s)' BY <1>1, <2>1 DEF Gone
  <2>6. \A s \in Sides : TcpInv(s)'
    <3>1. \A s \in Sides : Peer(s) \in Sides BY DEF Sides, Peer
    <3> QED BY <1>0, <2>1, <2>5, <3>1 DEF TcpInv
  <2> QED BY <2>1, <2>3, <2>4, <2>5, <2>6, ChannelStays
<1>3. ASSUME TcpConnect PROVE IInv'
  <2>1. CASE comm["server"] = "listening"
    <3>1. comm["client"] = "off" /\ comm' = [client |-> "open", server |-> "backlog"] /\ Advance("client")
          /\ UNCHANGED <<tcp, stream, buf, arrived, sent, own, got>>
      BY <1>3, <2>1 DEF TcpConnect, quiet
    <3>2. left["client"] # <<>> /\ ~Ex(Pos("client")) BY <3>1, BothSides, OutsideIs DEF Outside
    <3>3. Pos("server") = 1 BY <2>1, BothSides, OutsideIs DEF Outside
    <3>4. DOMAIN comm' = Sides /\ comm'["client"] \notin Outside BY <3>1 DEF Sides, Outside
    <3>5. \A t \in Sides : Gone(t) => Gone(t)' BY <2>1, <3>1 DEF Gone, Sides
    <3>6. \A t \in Sides : t # "client" => Pos(t) = 1 BY <3>3 DEF Sides
    <3> QED BY <3>1, <3>2, <3>4, <3>5, <3>6, BothSides, SkipKept
  <2>2. CASE comm["server"] # "listening" BY <1>3, <2>2, BothSides, ExitKept DEF TcpConnect
  <2> QED BY <2>1, <2>2
<1>4. ASSUME TcpAccept PROVE IInv'
  <2>1. comm["server"] = "backlog" /\ comm' = [comm EXCEPT !["server"] = "open"] /\ Advance("server")
        /\ UNCHANGED <<tcp, stream, buf, arrived, sent, own, got>>
    BY <1>4 DEF TcpAccept, quiet
  <2>2. left["server"] # <<>> /\ ~Ex(Pos("server")) BY <2>1, BothSides, OutsideIs DEF Outside
  <2>3. DOMAIN comm' = Sides /\ comm'["server"] \notin Outside BY <1>1, <2>1, BothSides DEF Outside
  <2>4. \A t \in Sides : (Gone(t) => Gone(t)') /\ (t # "server" => comm'[t] = comm[t])
    BY <1>1, <2>1 DEF Gone
  <2> QED BY <2>1, <2>2, <2>3, <2>4, BothSides, SkipKept
<1>5. ASSUME RdmaResolve PROVE IInv'
  <2>1. comm["client"] \in {"off", "resolved"}
        /\ UNCHANGED <<left, todo, tcp, stream, arrived, sent, own, got, buf>>
        /\ \E c : comm' = [comm EXCEPT !["client"] = c]
    BY <1>5 DEF RdmaResolve
  <2>2. Pos("client") = 1 BY <2>1, BothSides, OutsideIs DEF Outside
  <2>3. DOMAIN comm' = Sides /\ DOMAIN tcp' = Sides BY <1>0, <2>1 DEF Types
  <2>4. \A s \in Sides : comm'[s] = comm[s] \/ Pos(s) = 1 BY <1>1, <2>1, <2>2
  <2>5. \A s \in Sides : Gone(s) => Gone(s)' BY <1>1, <2>1 DEF Gone
  <2>6. \A s \in Sides : TcpInv(s)'
    <3>1. \A s \in Sides : Peer(s) \in Sides BY DEF Sides, Peer
    <3> QED BY <1>0, <2>1, <2>5, <3>1 DEF TcpInv
  <2> QED BY <2>1, <2>3, <2>4, <2>5, <2>6, ChannelStays
<1>6. ASSUME RdmaRefused PROVE IInv' BY <1>6, BothSides, ExitKept DEF RdmaRefused
<1>7. ASSUME RdmaAccept PROVE IInv'
  <2>1. comm["client"] = "requesting" /\ comm["server"] = "listening"
        /\ comm' = [client |-> "accepted", server |-> "open"] /\ Advance("server")
        /\ UNCHANGED <<tcp, stream, buf, arrived, sent, own, got>>
    BY <1>7 DEF RdmaAccept
  <2>2. left["server"] # <<>> /\ ~Ex(Pos("server")) BY <2>1, BothSides, OutsideIs DEF Outside
  <2>3. Pos("client") = 1 BY <2>1, BothSides, OutsideIs DEF Outside
  <2>4. DOMAIN comm' = Sides /\ comm'["server"] \notin Outside BY <2>1 DEF Sides, Outside
  <2>5. \A t \in Sides : Gone(t) => Gone(t)' BY <2>1 DEF Gone, Sides
  <2>6. \A t \in Sides : t # "server" => Pos(t) = 1 BY <2>3 DEF Sides
  <2> QED BY <2>1, <2>2, <2>4, <2>5, <2>6, BothSides, SkipKept
<1>8. ASSUME RdmaEstablished PROVE IInv'
  <2>1. comm["client"] = "accepted" /\ comm' = [comm EXCEPT !["client"] = "open"] /\ Advance("client")
        /\ UNCHANGED <<tcp, stream, buf, arrived, sent, own, got>>
    BY <1>8 DEF RdmaEstablished, quiet
  <2>2. left["client"] # <<>> /\ ~Ex(Pos("client")) BY <2>1, BothSides, OutsideIs DEF Outside
  <2>3. DOMAIN comm' = Sides /\ comm'["client"] \notin Outside BY <1>1, <2>1, BothSides DEF Outside
  <2>4. \A t \in Sides : (Gone(t) => Gone(t)') /\ (t # "client" => comm'[t] = comm[t])
    BY <1>1, <2>1 DEF Gone
  <2> QED BY <2>1, <2>2, <2>3, <2>4, BothSides, SkipKept
<1> QED BY <1>2, <1>3, <1>4, <1>5, <1>6, <1>7, <1>8 DEF Establish

\* Both begin level, with nothing on its way.
LEMMA AtTheStart == Init => IInv
<1> SUFFICES ASSUME Init PROVE IInv OBVIOUS
<1>1. opt.num_of_qps \in Nat /\ opt.host \in [Sides -> Hosts]
  <2>1. opt \in Parameters BY TestsAssumption DEF Init
  <2> QED BY <2>1, OptionsAssumption DEF Parameters
<1>2. /\ left = [s \in Sides |-> Script] /\ todo = [s \in Sides |-> <<>>]
      /\ comm = [s \in Sides |-> IF opt.refused THEN "failed" ELSE "off"]
      /\ tcp = [s \in Sides |-> "open"] /\ stream = [s \in Sides |-> <<>>]
      /\ buf = [s \in Sides |-> None] /\ arrived = [s \in Sides |-> 0]
      /\ sent = [s \in Sides |-> "none"] /\ own = [s \in Sides |-> opt.host[s]]
      /\ got = [s \in Sides |-> None]
  BY DEF Init, CommInit
<1>3. ScriptOK BY <1>1, ScriptFacts
<1>4. Types
  <2>1. \A S : <<>> \in Seq(S) OBVIOUS
  <2>2. Script \in Seq(ItemSet) BY <1>3 DEF ScriptOK
  <2>3. stream \in [Sides -> Seq(Messages)] /\ todo \in [Sides -> Seq({"read", "write", "done"})]
    BY <1>2, <2>1
  <2>4. left \in [Sides -> Seq(ItemSet)] /\ own \in [Sides -> Hosts] /\ arrived \in [Sides -> Int]
    BY <1>1, <1>2, <2>2
  <2> QED BY <1>1, <1>2, <2>3, <2>4 DEF Types
<1>5. N \in Nat /\ N >= 7 /\ ~Ex(1) /\ Script \in Seq(ItemSet) BY <1>4, Landmarks
<1>6. ASSUME NEW s \in Sides
      PROVE  /\ Pos(s) = 1 /\ SideInv(s) /\ TcpInv(s) /\ Eff(s) = 1 /\ Rest(s) = <<>> /\ Quiet(s)
  <2>1. left[s] = Script /\ todo[s] = <<>> /\ sent[s] = "none" /\ tcp[s] = "open" /\ stream[s] = <<>>
        /\ arrived[s] = 0 /\ own[s] = opt.host[s]
    BY <1>2
  <2>2. Len(left[s]) = N BY <2>1 DEF N
  <2>3. Pos(s) = 1 BY <1>5, <2>2 DEF Pos
  <2>4. LeftInv(s)
    <3>1. \A k \in 1..N : Script[k] = Script[N - N + k] BY <1>5
    <3> QED BY <1>5, <2>1, <2>2, <3>1 DEF LeftInv
  <2>5. TodoInv(s) BY <1>5, <2>1, <2>3 DEF TodoInv
  <2>6. SentInv(s) /\ CommInv(s) /\ TcpInv(s) BY <2>1, <2>3 DEF SentInv, CommInv, TcpInv
  <2>7. OwnInv(s)
    <3>1. \A f \in Fields : 1 <= Place[f] BY DEF Fields, Place
    <3> QED BY <2>1, <2>3, <3>1 DEF OwnInv
  <2>8. Eff(s) = 1 /\ Rest(s) = <<>> BY <2>1, <2>3 DEF Eff, Rest
  <2>9. Quiet(s) BY <2>1 DEF Quiet
  <2> QED BY <2>3, <2>4, <2>5, <2>6, <2>7, <2>8, <2>9 DEF SideInv
<1>7. GotInv BY <1>2, BothSides DEF GotInv
<1>8. LockInv
  <2>1. ~Awaits /\ ~Owes BY <1>6, BothSides DEF Awaits, Owes
  <2>2. Eff("client") = 1 /\ Eff("server") = 1 BY <1>6, BothSides
  <2>3. Clear(1, 1) BY <1>5 DEF Clear
  <2>4. Lock(Eff("client"), Eff("server"), Awaits, Owes) BY <2>1, <2>2, <2>3 DEF Lock
  <2>5. ~Asked /\ ~Answered BY <2>1 DEF Asked, Answered
  <2> QED BY <1>6, <2>4, <2>5, BothSides DEF LockInv
<1> QED BY <1>4, <1>6, <1>7, <1>8 DEF IInv

\* A part of an exchange on either channel.
LEMMA ExchangeKept == ASSUME NEW s \in Sides, IInv, opt' = opt, Exchange(s) PROVE IInv'
  BY TcpWriteKept, TcpReadKept, TcpDoneKept, RdmaPostKept, RdmaWrittenKept, RdmaReadKept DEF Exchange

\* The steps of a program.
LEMMA ProgramKept == ASSUME NEW s \in Sides, IInv, Program(s) PROVE IInv'
<1>1. CASE Talk(s) BY <1>1, ExchangeKept DEF Talk
<1>2. CASE CmAllocate(s)
  <2>1. CASE cmPc'[s] = "failed"
    <3>1. opt' = opt /\ UNCHANGED commVars BY <1>2, <2>1 DEF CmAllocate, exchanging, commVars
    <3> QED BY <3>1, StillKept
  <2>2. CASE cmPc'[s] # "failed"
    <3>1. opt' = opt /\ IsAt(s, "allocate") /\ Advance(s) /\ UNCHANGED exchanging
      BY <1>2, <2>2 DEF CmAllocate, Now
    <3> QED BY <3>1, PlainSkip DEF Exchanges, HandShakes
  <2> QED BY <2>1, <2>2
<1>3. CASE CmEnter(s) BY <1>3, StillKept DEF CmEnter
<1>4. CASE CmHandler(s) BY <1>4, StillKept DEF CmHandler
<1>5. CASE CmLeave(s)
  <2>1. opt' = opt /\ IsAt(s, "cm") /\ Advance(s) /\ UNCHANGED exchanging BY <1>5 DEF CmLeave, Now
  <2> QED BY <2>1, PlainSkip DEF Exchanges, HandShakes
<1>6. CASE Initialize(s)
  <2>1. opt' = opt /\ IsAt(s, "init") /\ Advance(s) /\ UNCHANGED exchanging BY <1>6 DEF Initialize, Now
  <2> QED BY <2>1, PlainSkip DEF Exchanges, HandShakes
<1>7. CASE Credit(s)
  <2>1. opt' = opt /\ IsAt(s, "credit") /\ Advance(s) /\ UNCHANGED exchanging BY <1>7 DEF Credit, Now
  <2> QED BY <2>1, PlainSkip DEF Exchanges, HandShakes
<1>8. CASE Pair(s)
  <2>1. opt' = opt /\ IsAt(s, "pair") /\ Advance(s) /\ UNCHANGED exchanging BY <1>8 DEF Pair, Now
  <2> QED BY <2>1, PlainSkip DEF Exchanges, HandShakes
<1>9. CASE Ready(s)
  <2>1. opt' = opt /\ IsAt(s, "prepare") /\ Advance(s) /\ UNCHANGED exchanging BY <1>9 DEF Ready, Now
  <2> QED BY <2>1, PlainSkip DEF Exchanges, HandShakes
<1>10. CASE Begin(s) BY <1>10, StillKept DEF Begin
<1>11. CASE Work(s) BY <1>11, StillKept DEF Work
<1>12. CASE Over(s)
  <2>1. opt' = opt /\ IsAt(s, "traffic") /\ Advance(s) /\ UNCHANGED exchanging BY <1>12 DEF Over, Now
  <2> QED BY <2>1, PlainSkip DEF Exchanges, HandShakes
<1>13. CASE Disconnects(s) BY <1>13, StillKept DEF Disconnects
<1>14. CASE Destroys(s)
  <2>1. opt' = opt /\ IsAt(s, "destroy") /\ Advance(s) /\ UNCHANGED exchanging BY <1>14 DEF Destroys, Now
  <2> QED BY <2>1, PlainSkip DEF Exchanges, HandShakes
<1>15. CASE Ends(s) BY <1>15, ExitKept DEF Ends
<1> QED BY <1>1, <1>2, <1>3, <1>4, <1>5, <1>6, <1>7, <1>8, <1>9, <1>10, <1>11, <1>12, <1>13, <1>14, <1>15
        DEF Program

\* The steps of programs, kernels and devices.
LEMMA NextKept == ASSUME IInv, [Next]_vars PROVE IInv'
<1>1. CASE Meet BY <1>1, EstablishKept DEF Meet
<1>2. CASE CmKernel BY <1>2, StillKept DEF CmKernel
<1>3. CASE Wire
  <2>1. PICK s \in Sides : RdmaDeliver(s) /\ opt' = opt BY <1>3 DEF Wire
  <2> QED BY <2>1, RdmaDeliverKept
<1>4. CASE \E s \in Sides, q \in Ids : Device(s, q)
  <2>1. opt' = opt /\ UNCHANGED commVars BY <1>4 DEF Device
  <2> QED BY <2>1, StillKept
<1>5. ASSUME NEW s \in Sides, Program(s) PROVE IInv' BY <1>5, ProgramKept
<1>6. ASSUME NEW s \in Sides, Crash(s) PROVE IInv' BY <1>6, ExitKept DEF Crash
<1>7. ASSUME NEW s \in Sides, CmGone(s) PROVE IInv' BY <1>7, StillKept DEF CmGone
<1>8. ASSUME NEW s \in Sides, Interrupt(s) PROVE IInv' BY <1>8, StillKept DEF Interrupt
<1>9. CASE UNCHANGED vars BY <1>9, StillKept DEF vars
<1>10. CASE Next BY <1>1, <1>2, <1>3, <1>4, <1>5, <1>6, <1>7, <1>8, <1>10 DEF Next, Network
<1> QED BY <1>9, <1>10

\* The two sides stay in step: at most one question or one answer is on its
\* way, it was written for the exchange it will be read in, and what each side
\* runs with is its own value up to the exchange of it and the settlement of
\* both from then on (ctx_hand_shake, ctx_xchg_data, check_sys_data, check_mtu).
THEOREM Invariance == Spec => []IInv
<1>1. Init => IInv BY AtTheStart
<1>2. IInv /\ [Next]_vars => IInv' BY NextKept
<1> QED BY <1>1, <1>2, PTL DEF Spec

\* What a side reads was written for the exchange it reads it in, on either
\* channel, whatever the gids of the hosts and wherever a side fails.
THEOREM InStepAlways == Spec => []InStep
<1>1. IInv => InStep BY DEF IInv, GotInv, InStep
<1> QED BY <1>1, Invariance, PTL

\* Once both are past the exchange of the mtu they run with the same cycle
\* buffer, cache line and mtu, whatever their hosts began with.
THEOREM AgreementKept == Spec => []Agreement
<1>1. IInv => Agreement
  <2> SUFFICES ASSUME IInv, \A s \in Sides : Past(s, "mtu"),
                      NEW f \in {"cycle_buffer", "cache_line_size", "mtu"}
               PROVE  own["client"][f] = own["server"][f]
    BY DEF Agreement
  <2>1. ASSUME NEW s \in Sides PROVE Pos(s) > 5
    <3> SUFFICES ASSUME ~(Pos(s) > 5) PROVE FALSE OBVIOUS
    <3>1. Types /\ LeftInv(s) BY DEF IInv, SideInv
    <3>2. N \in Nat /\ N >= 7 /\ Script[5][1] = "mtu" BY <3>1, Landmarks DEF Fields, Place
    <3>3. left[s] \in Seq(ItemSet) /\ Len(left[s]) \in Nat BY <3>1, HereIs DEF Types
    <3>4. Len(left[s]) <= N BY <3>1 DEF LeftInv
    <3>5. \A n \in Nat, k \in Nat : n >= 7 /\ k <= n /\ ~(n + 1 - k > 5) =>
            5 - n + k \in 1..k /\ n - k + (5 - n + k) = 5
      OBVIOUS
    <3>6. ~(N + 1 - Len(left[s]) > 5) BY DEF Pos
    <3>7. /\ 5 - N + Len(left[s]) \in 1..Len(left[s])
          /\ N - Len(left[s]) + (5 - N + Len(left[s])) = 5
      BY <3>2, <3>3, <3>4, <3>5, <3>6
    <3>8. left[s][5 - N + Len(left[s])] = Script[N - Len(left[s]) + (5 - N + Len(left[s]))]
      BY <3>1, <3>7 DEF LeftInv
    <3>9. 5 - N + Len(left[s]) \in DOMAIN left[s] BY <3>3, <3>7, LenProperties
    <3>10. Past(s, "mtu") OBVIOUS
    <3> QED BY <3>2, <3>7, <3>8, <3>9, <3>10 DEF Past
  <2>2. f \in Fields /\ Place[f] \in 3..5 BY DEF Fields, Place
  <2>3. ASSUME NEW s \in Sides PROVE own[s][f] = Settlement(f)
    <3>1. ~(Pos(s) <= Place[f])
      <4>1. Pos(s) \in Int BY EffIs DEF IInv
      <4> QED BY <4>1, <2>1, <2>2
    <3> QED BY <2>2, <3>1 DEF IInv, SideInv, OwnInv
  <2> QED BY <2>3, BothSides
<1> QED BY <1>1, Invariance, PTL

(***************************************************************************)
(* Where in the script queue pairs are numbered, connected and paired.     *)
(***************************************************************************)
OfKinds(K, q) == q \in Seq(ItemSet) /\ \A i \in 1..Len(q) : q[i][1] \in K

Opening == {"connect", "version", "cycle_buffer", "cache_line_size", "mtu",
            "allocate", "before_cm", "cm", "after_cm", "init", "credit"}
Closing == {"report", "close", "destroy"}

Num == opt.num_of_qps

\* In script q the keys come after the first m items, then the pairing, and the
\* test between the last barrier and what closes it.
KeysAfter(q, m) ==
  /\ q \in Seq(ItemSet) /\ m \in Nat /\ m + Num + 4 <= Len(q)
  /\ \A i \in 1..Num : q[m + i] = <<"keys", i>>
  /\ q[m + Num + 1][1] = "pair" /\ q[m + Num + 2][1] = "prepare"
  /\ q[m + Num + 3][1] = "ready" /\ q[m + Num + 4][1] = "traffic"
  /\ \A p \in 1..m : q[p][1] \in Opening
  /\ \A p \in 1..Len(q) : p > m + Num + 4 => q[p][1] \in Closing

\* With the manager the connections are made at the eighth item, between two
\* barriers.
CmSteady(q) ==
  opt.work_rdma_cm =>
    /\ Len(q) >= 9
    /\ q[6][1] = "allocate" /\ q[7][1] = "before_cm" /\ q[8][1] = "cm" /\ q[9][1] = "after_cm"
    /\ \A p \in 1..Len(q) : /\ q[p][1] = "allocate" => p = 6
                            /\ q[p][1] = "cm" => p = 8
                            /\ q[p][1] # "init"

PairAt == CHOOSE p \in 1..N : Script[p][1] = "pair"
Through(s) == opt.work_rdma_cm /\ 8 < Pos(s)
Paired(s) == PairAt < Pos(s)

(***************************************************************************)
(* The script of every test is like that.                                  *)
(***************************************************************************)
LEMMA ConcatIs ==
  ASSUME NEW q \in Seq(ItemSet), NEW r \in Seq(ItemSet)
  PROVE  /\ q \o r \in Seq(ItemSet) /\ Len(q \o r) = Len(q) + Len(r) /\ Len(q) \in Nat /\ Len(r) \in Nat
         /\ \A i \in 1..Len(q) : (q \o r)[i] = q[i]
         /\ \A i \in 1..Len(q \o r) : i > Len(q) => i - Len(q) \in 1..Len(r) /\ (q \o r)[i] = r[i - Len(q)]
<1>1. Len(q) \in Nat /\ Len(r) \in Nat OBVIOUS
<1>2. /\ q \o r \in Seq(ItemSet) /\ Len(q \o r) = Len(q) + Len(r)
      /\ \A i \in 1..(Len(q) + Len(r)) : (q \o r)[i] = IF i <= Len(q) THEN q[i] ELSE r[i - Len(q)]
  BY ConcatProperties
<1>3. \A i \in 1..Len(q) : i \in 1..(Len(q) + Len(r)) /\ i <= Len(q) BY <1>1
<1>4. \A i \in 1..(Len(q) + Len(r)) : i > Len(q) => i - Len(q) \in 1..Len(r) /\ ~(i <= Len(q)) BY <1>1
<1> QED BY <1>1, <1>2, <1>3, <1>4

LEMMA OfConcat ==
  ASSUME NEW K, NEW q, NEW r, OfKinds(K, q), OfKinds(K, r)
  PROVE  OfKinds(K, q \o r)
<1> DEFINE w == q \o r
<1>1. q \in Seq(ItemSet) /\ r \in Seq(ItemSet) BY DEF OfKinds
<1>2. /\ w \in Seq(ItemSet) /\ Len(w) = Len(q) + Len(r) /\ Len(q) \in Nat /\ Len(r) \in Nat
      /\ \A i \in 1..Len(q) : w[i] = q[i]
      /\ \A i \in 1..Len(w) : i > Len(q) => i - Len(q) \in 1..Len(r) /\ w[i] = r[i - Len(q)]
  BY <1>1, ConcatIs
<1> HIDE DEF w
<1>3. ASSUME NEW i \in 1..Len(w) PROVE w[i][1] \in K
  <2>1. CASE i <= Len(q)
    <3>1. i \in 1..Len(q) BY <2>1, <1>2
    <3> QED BY <3>1, <1>2 DEF OfKinds
  <2>2. CASE i > Len(q) BY <2>2, <1>2 DEF OfKinds
  <2> QED BY <2>1, <2>2, <1>2
<1>4. OfKinds(K, w) BY <1>2, <1>3 DEF OfKinds
<1> QED BY <1>4 DEF w

\* Items of one kind, and short stretches.
LEMMA OfItems ==
  ASSUME NEW K, NEW k \in K \cap Kinds, NEW n \in Nat
  PROVE  OfKinds(K, Items(k, n)) /\ Len(Items(k, n)) = n /\ \A i \in 1..n : Items(k, n)[i] = <<k, i>>
<1>1. ASSUME NEW i \in 1..n PROVE <<k, i>> \in ItemSet /\ <<k, i>>[1] \in K
  <2>1. i \in Nat BY <1>1
  <2> QED BY <2>1 DEF ItemSet
<1>2. Items(k, n) \in [1..n -> ItemSet] BY <1>1 DEF Items
<1>3. Items(k, n) \in Seq(ItemSet) BY <1>2, SeqDef
<1>4. Len(Items(k, n)) = n BY <1>2, <1>3, LenProperties
<1>5. \A i \in 1..n : Items(k, n)[i] = <<k, i>> BY DEF Items
<1> QED BY <1>1, <1>3, <1>4, <1>5 DEF OfKinds

LEMMA OfFew ==
  ASSUME NEW K, NEW a \in K \cap Kinds, NEW b \in K \cap Kinds, NEW c \in K \cap Kinds, NEW d \in K \cap Kinds
  PROVE  /\ OfKinds(K, <<>>) /\ OfKinds(K, <<Item(a)>>) /\ OfKinds(K, <<Item(a), Item(b)>>)
         /\ OfKinds(K, <<Item(a), Item(b), Item(c), Item(d)>>)
<1>1. \A k \in K \cap Kinds : Item(k) \in ItemSet /\ Item(k)[1] \in K BY DEF Item, ItemSet
<1>2. OfKinds(K, <<>>) BY DEF OfKinds
<1>3. OfKinds(K, <<Item(a)>>) BY <1>1 DEF OfKinds
<1>4. OfKinds(K, <<Item(a), Item(b)>>) BY <1>1 DEF OfKinds
<1>5. OfKinds(K, <<Item(a), Item(b), Item(c), Item(d)>>) BY <1>1 DEF OfKinds
<1> QED BY <1>2, <1>3, <1>4, <1>5

\* What closes the script moves no key.
LEMMA KeysThenClosing ==
  ASSUME NEW q, NEW m, NEW r, Num \in Nat, KeysAfter(q, m), OfKinds(Closing, r)
  PROVE  KeysAfter(q \o r, m)
<1> DEFINE w == q \o r
           n == Num
<1>1. q \in Seq(ItemSet) /\ r \in Seq(ItemSet) /\ m \in Nat /\ m + n + 4 <= Len(q) BY DEF OfKinds, KeysAfter
<1>2. /\ w \in Seq(ItemSet) /\ Len(w) = Len(q) + Len(r) /\ Len(q) \in Nat /\ Len(r) \in Nat
      /\ \A i \in 1..Len(q) : w[i] = q[i]
      /\ \A i \in 1..Len(w) : i > Len(q) => i - Len(q) \in 1..Len(r) /\ w[i] = r[i - Len(q)]
  BY <1>1, ConcatIs
<1>3. /\ \A i \in 1..n : q[m + i] = <<"keys", i>>
      /\ q[m + n + 1][1] = "pair" /\ q[m + n + 2][1] = "prepare"
      /\ q[m + n + 3][1] = "ready" /\ q[m + n + 4][1] = "traffic"
      /\ \A p \in 1..m : q[p][1] \in Opening
      /\ \A p \in 1..Len(q) : p > m + n + 4 => q[p][1] \in Closing
  BY DEF KeysAfter
<1>4. \A k \in 1..Len(r) : r[k][1] \in Closing BY DEF OfKinds
<1>5. n \in Nat OBVIOUS
<1> HIDE DEF w, n
<1>6. \A i \in 1..n : w[m + i] = <<"keys", i>>
  <2>1. \A i \in 1..n : m + i \in 1..Len(q) BY <1>1, <1>2, <1>5
  <2> QED BY <2>1, <1>2, <1>3
<1>7. /\ w[m + n + 1][1] = "pair" /\ w[m + n + 2][1] = "prepare"
      /\ w[m + n + 3][1] = "ready" /\ w[m + n + 4][1] = "traffic"
  <2>1. m + n + 1 \in 1..Len(q) /\ m + n + 2 \in 1..Len(q) /\ m + n + 3 \in 1..Len(q) /\ m + n + 4 \in 1..Len(q)
    BY <1>1, <1>2, <1>5
  <2> QED BY <2>1, <1>2, <1>3
<1>8. \A p \in 1..m : w[p][1] \in Opening
  <2>1. \A p \in 1..m : p \in 1..Len(q) BY <1>1, <1>2, <1>5
  <2> QED BY <2>1, <1>2, <1>3
<1>9. ASSUME NEW p \in 1..Len(w), p > m + n + 4 PROVE w[p][1] \in Closing
  <2>1. CASE p <= Len(q)
    <3>1. p \in 1..Len(q) BY <2>1, <1>2
    <3> QED BY <3>1, <1>2, <1>3, <1>9
  <2>2. CASE p > Len(q) BY <2>2, <1>2, <1>4
  <2> QED BY <2>1, <2>2, <1>2
<1>10. m + n + 4 <= Len(w) BY <1>1, <1>2, <1>5
<1> QED BY <1>1, <1>2, <1>6, <1>7, <1>8, <1>9, <1>10 DEF KeysAfter, w, n

\* What comes after the connections are made leaves their place alone.
Later == {"credit", "keys", "pair", "prepare", "ready", "traffic"} \cup Closing

LEMMA SteadyThenLater ==
  ASSUME NEW q \in Seq(ItemSet), NEW r, CmSteady(q), OfKinds(Later, r)
  PROVE  CmSteady(q \o r)
<1> DEFINE w == q \o r
<1>1. r \in Seq(ItemSet) BY DEF OfKinds
<1>2. /\ w \in Seq(ItemSet) /\ Len(w) = Len(q) + Len(r) /\ Len(q) \in Nat /\ Len(r) \in Nat
      /\ \A i \in 1..Len(q) : w[i] = q[i]
      /\ \A i \in 1..Len(w) : i > Len(q) => i - Len(q) \in 1..Len(r) /\ w[i] = r[i - Len(q)]
  BY <1>1, ConcatIs
<1> HIDE DEF w
<1>3. ASSUME opt.work_rdma_cm
      PROVE  /\ Len(w) >= 9
             /\ w[6][1] = "allocate" /\ w[7][1] = "before_cm" /\ w[8][1] = "cm" /\ w[9][1] = "after_cm"
             /\ \A p \in 1..Len(w) : (w[p][1] = "allocate" => p = 6) /\ (w[p][1] = "cm" => p = 8) /\ w[p][1] # "init"
  <2>1. /\ Len(q) >= 9
        /\ q[6][1] = "allocate" /\ q[7][1] = "before_cm" /\ q[8][1] = "cm" /\ q[9][1] = "after_cm"
        /\ \A p \in 1..Len(q) : (q[p][1] = "allocate" => p = 6) /\ (q[p][1] = "cm" => p = 8) /\ q[p][1] # "init"
    BY <1>3 DEF CmSteady
  <2>2. 6 \in 1..Len(q) /\ 7 \in 1..Len(q) /\ 8 \in 1..Len(q) /\ 9 \in 1..Len(q) BY <2>1, <1>2
  <2>3. ASSUME NEW p \in 1..Len(w) PROVE (w[p][1] = "allocate" => p = 6) /\ (w[p][1] = "cm" => p = 8) /\ w[p][1] # "init"
    <3>1. CASE p <= Len(q)
      <4>1. p \in 1..Len(q) BY <3>1, <1>2
      <4> QED BY <4>1, <1>2, <2>1
    <3>2. CASE p > Len(q)
      <4>1. w[p][1] \in Later BY <3>2, <1>2 DEF OfKinds
      <4> QED BY <4>1 DEF Later, Closing
    <3> QED BY <3>1, <3>2, <1>2
  <2>4. Len(w) >= 9 BY <2>1, <1>2
  <2> QED BY <2>1, <2>2, <2>3, <2>4, <1>2
<1> QED BY <1>3 DEF CmSteady, w

\* The queue pairs are numbered one by one and paired next, after what opens
\* the script and before what closes it.
LEMMA Plan ==
  ASSUME Num \in Nat
  PROVE  CmSteady(Script) /\ \E m \in Nat : KeysAfter(Script, m) /\ (opt.work_rdma_cm => m >= 9)
<1> DEFINE A0 == <<Item("connect"), Item("version"), Item("cycle_buffer"), Item("cache_line_size"), Item("mtu")>>
           A == IF opt.work_rdma_cm
                THEN <<Item("allocate"), Item("before_cm"), Item("cm"), Item("after_cm")>>
                ELSE <<Item("init")>>
           B == IF opt.send_rcredit THEN <<Item("credit")>> ELSE <<>>
           C == Items("keys", opt.num_of_qps)
           D == <<Item("pair"), Item("prepare"), Item("ready"), Item("traffic")>>
           R == Reports
           Z == <<Item("close"), Item("destroy")>>
           E == A0 \o A
           F == E \o B
           G == F \o C
           H == G \o D
<1>0. Opening \subseteq Kinds /\ Closing \subseteq Kinds /\ Later \subseteq Kinds
      /\ Closing \subseteq Later
  BY DEF Opening, Closing, Later, Kinds, OtherKinds, Fields
<1>1. /\ OfKinds(Opening, A0) /\ Len(A0) = 5
      /\ \A i \in 1..5 : A0[i][1] \notin {"allocate", "cm", "init"}
  <2>1. \A k \in Opening : Item(k) \in ItemSet /\ Item(k)[1] = k BY <1>0 DEF Item, ItemSet
  <2>2. "connect" \in Opening /\ "version" \in Opening /\ "cycle_buffer" \in Opening
        /\ "cache_line_size" \in Opening /\ "mtu" \in Opening
    BY DEF Opening
  <2>3. A0 \in Seq(ItemSet) /\ Len(A0) = 5 BY <2>1, <2>2
  <2>4. \A i \in 1..5 : i = 1 \/ i = 2 \/ i = 3 \/ i = 4 \/ i = 5 OBVIOUS
  <2>5. A0[1][1] = "connect" /\ A0[2][1] = "version" /\ A0[3][1] = "cycle_buffer"
        /\ A0[4][1] = "cache_line_size" /\ A0[5][1] = "mtu"
    BY DEF Item
  <2> HIDE DEF A0
  <2>6. \A i \in 1..5 : A0[i][1] \in Opening /\ A0[i][1] \notin {"allocate", "cm", "init"} BY <2>2, <2>4, <2>5
  <2> QED BY <2>3, <2>6 DEF OfKinds
<1>2. /\ OfKinds(Opening, A)
      /\ opt.work_rdma_cm => /\ Len(A) = 4 /\ A[1][1] = "allocate" /\ A[2][1] = "before_cm"
                             /\ A[3][1] = "cm" /\ A[4][1] = "after_cm"
  <2>1. {"allocate", "before_cm", "cm", "after_cm", "init"} \subseteq Opening \cap Kinds BY <1>0 DEF Opening
  <2>2. OfKinds(Opening, <<Item("allocate"), Item("before_cm"), Item("cm"), Item("after_cm")>>) BY <2>1, OfFew
  <2>3. OfKinds(Opening, <<Item("init")>>) BY <2>1, OfFew
  <2> QED BY <2>2, <2>3 DEF Item
<1>3. OfKinds(Opening, B) /\ OfKinds(Later, B)
  <2>1. "credit" \in Opening \cap Kinds /\ "credit" \in Later \cap Kinds BY <1>0 DEF Opening, Later
  <2> QED BY <2>1, OfFew
<1>4. OfKinds(Later, C) /\ Len(C) = Num /\ \A i \in 1..Num : C[i] = <<"keys", i>>
  <2>1. "keys" \in Later \cap Kinds BY <1>0 DEF Later
  <2> QED BY <2>1, OfItems DEF Num
<1>5. /\ OfKinds(Later, D) /\ Len(D) = 4
      /\ D[1][1] = "pair" /\ D[2][1] = "prepare" /\ D[3][1] = "ready" /\ D[4][1] = "traffic"
  <2>1. {"pair", "prepare", "ready", "traffic"} \subseteq Later \cap Kinds BY <1>0 DEF Later, Closing
  <2>2. OfKinds(Later, D) BY <2>1, OfFew
  <2>3. Len(D) = 4 /\ D[1][1] = "pair" /\ D[2][1] = "prepare" /\ D[3][1] = "ready" /\ D[4][1] = "traffic" BY DEF Item
  <2> HIDE DEF D
  <2> QED BY <2>2, <2>3
<1>6. OfKinds(Closing, R) /\ OfKinds(Closing, Z)
  <2>1. "report" \in Closing \cap Kinds /\ "close" \in Closing \cap Kinds /\ "destroy" \in Closing \cap Kinds
    BY <1>0 DEF Closing
  <2>2. OfKinds(Closing, Items("report", 5)) /\ OfKinds(Closing, Items("report", 0)) BY <2>1, OfItems
  <2> QED BY <2>1, <2>2, OfFew DEF Reports
<1>7. Script = (H \o R) \o Z BY DEF Script
<1> HIDE DEF A0, A, B, C, D, R, Z
<1>8. \A q : OfKinds(Closing, q) => OfKinds(Later, q) BY <1>0 DEF OfKinds
<1>9. E \in Seq(ItemSet) /\ OfKinds(Opening, E) /\ CmSteady(E) /\ (opt.work_rdma_cm => Len(E) = 9)
  <2>1. A0 \in Seq(ItemSet) /\ A \in Seq(ItemSet) BY <1>1, <1>2 DEF OfKinds
  <2>2. /\ E \in Seq(ItemSet) /\ Len(E) = 5 + Len(A)
        /\ \A i \in 1..5 : E[i] = A0[i]
        /\ \A i \in 1..Len(E) : i > 5 => i - 5 \in 1..Len(A) /\ E[i] = A[i - 5]
        /\ Len(A) \in Nat
    <3>1. /\ E \in Seq(ItemSet) /\ Len(E) = Len(A0) + Len(A) /\ Len(A) \in Nat
          /\ \A i \in 1..Len(A0) : E[i] = A0[i]
          /\ \A i \in 1..Len(E) : i > Len(A0) => i - Len(A0) \in 1..Len(A) /\ E[i] = A[i - Len(A0)]
      BY <2>1, ConcatIs
    <3> HIDE DEF E
    <3>2. Len(A0) = 5 BY <1>1
    <3> QED BY <3>1, <3>2
  <2>3. OfKinds(Opening, E) BY <1>1, <1>2, OfConcat
  <2> HIDE DEF E
  <2>4. ASSUME opt.work_rdma_cm
        PROVE  /\ Len(E) = 9
               /\ E[6][1] = "allocate" /\ E[7][1] = "before_cm" /\ E[8][1] = "cm" /\ E[9][1] = "after_cm"
               /\ \A p \in 1..Len(E) : (E[p][1] = "allocate" => p = 6) /\ (E[p][1] = "cm" => p = 8) /\ E[p][1] # "init"
    <3>1. Len(E) = 9
      <4>1. Len(A) = 4 /\ Len(E) = 5 + Len(A) BY <2>2, <2>4, <1>2
      <4> QED BY <4>1
    <3>2. E[6] = A[1] /\ E[7] = A[2] /\ E[8] = A[3] /\ E[9] = A[4] BY <3>1, <2>2
    <3>3. E[6][1] = "allocate" /\ E[7][1] = "before_cm" /\ E[8][1] = "cm" /\ E[9][1] = "after_cm"
      BY <3>2, <2>4, <1>2
    <3>4. ASSUME NEW p \in 1..9 PROVE (E[p][1] = "allocate" => p = 6) /\ (E[p][1] = "cm" => p = 8) /\ E[p][1] # "init"
      <4>1. p \in 1..5 \/ p = 6 \/ p = 7 \/ p = 8 \/ p = 9 OBVIOUS
      <4>2. CASE p \in 1..5 BY <4>2, <2>2, <1>1
      <4> QED BY <4>1, <4>2, <3>3
    <3> QED BY <3>1, <3>3, <3>4
  <2>5. CmSteady(E)
    <3>1. Len(E) = 9 => Len(E) >= 9 OBVIOUS
    <3> QED BY <3>1, <2>4 DEF CmSteady
  <2> QED BY <2>2, <2>3, <2>4, <2>5
<1> HIDE DEF E
<1>10. F \in Seq(ItemSet) /\ OfKinds(Opening, F) /\ CmSteady(F) /\ (opt.work_rdma_cm => Len(F) >= 9)
  <2>1. CmSteady(F) BY <1>3, <1>9, SteadyThenLater
  <2>2. OfKinds(Opening, F) BY <1>3, <1>9, OfConcat
  <2> QED BY <2>1, <2>2 DEF OfKinds, CmSteady
<1> HIDE DEF F
<1>11. G \in Seq(ItemSet) /\ CmSteady(G) /\ C \in Seq(ItemSet)
  <2>1. C \in Seq(ItemSet) BY <1>4 DEF OfKinds
  <2> QED BY <2>1, <1>4, <1>10, SteadyThenLater, ConcatIs
<1>12. H \in Seq(ItemSet) /\ CmSteady(H) /\ D \in Seq(ItemSet)
  <2>1. D \in Seq(ItemSet) BY <1>5 DEF OfKinds
  <2> QED BY <2>1, <1>5, <1>11, SteadyThenLater, ConcatIs
<1>13. PICK m \in Nat : m = Len(F) BY <1>10
<1>14. KeysAfter(H, m)
  <2>1. /\ Len(G) = m + Num
        /\ \A i \in 1..m : G[i] = F[i]
        /\ \A i \in 1..Len(G) : i > m => i - m \in 1..Num /\ G[i] = C[i - m]
    BY <1>4, <1>10, <1>11, <1>13, ConcatIs
  <2>2. /\ Len(H) = Len(G) + 4
        /\ \A i \in 1..Len(G) : H[i] = G[i]
        /\ \A i \in 1..Len(H) : i > Len(G) => i - Len(G) \in 1..4 /\ H[i] = D[i - Len(G)]
    <3>1. /\ Len(H) = Len(G) + Len(D)
          /\ \A i \in 1..Len(G) : H[i] = G[i]
          /\ \A i \in 1..Len(H) : i > Len(G) => i - Len(G) \in 1..Len(D) /\ H[i] = D[i - Len(G)]
      BY <1>11, <1>12, ConcatIs
    <3> HIDE DEF G, H
    <3>2. Len(D) = 4 BY <1>5
    <3> QED BY <3>1, <3>2
  <2> HIDE DEF G, H
  <2>3. PICK n \in Nat : n = Num OBVIOUS
  <2>4. \A i \in 1..n : H[m + i] = <<"keys", i>>
    <3>1. \A i \in 1..n : m + i \in 1..Len(G) /\ m + i > m /\ m + i - m = i BY <2>1, <2>3
    <3>2. \A i \in 1..n : H[m + i] = G[m + i] BY <3>1, <2>2
    <3>3. \A i \in 1..n : G[m + i] = C[m + i - m] BY <3>1, <2>1
    <3> QED BY <3>1, <3>2, <3>3, <2>3, <1>4
  <2>5. /\ H[m + n + 1][1] = "pair" /\ H[m + n + 2][1] = "prepare"
        /\ H[m + n + 3][1] = "ready" /\ H[m + n + 4][1] = "traffic"
    <3>1. PICK g \in Nat : g = Len(G) /\ g = m + n BY <2>1, <2>3
    <3>2. \A i \in 1..4 : g + i \in 1..(g + 4) /\ g + i > g /\ (g + i) - g = i OBVIOUS
    <3>3. \A i \in 1..(g + 4) : i > g => H[i] = D[i - g] BY <2>2, <3>1
    <3>4. \A i \in 1..4 : H[g + i] = D[i] BY <3>2, <3>3
    <3>5. H[g + 1] = D[1] /\ H[g + 2] = D[2] /\ H[g + 3] = D[3] /\ H[g + 4] = D[4] BY <3>4
    <3> QED BY <3>1, <3>5, <1>5
  <2>6. \A p \in 1..m : H[p][1] \in Opening
    <3>1. \A p \in 1..m : p \in 1..Len(G) BY <2>1, <2>3
    <3>2. \A p \in 1..m : F[p][1] \in Opening BY <1>10, <1>13 DEF OfKinds
    <3> QED BY <3>1, <3>2, <2>1, <2>2
  <2>7. ASSUME NEW p \in 1..Len(H), p > m + n + 4 PROVE H[p][1] \in Closing
    BY <2>1, <2>2, <2>3, <2>7
  <2>8. m + n + 4 <= Len(H) BY <2>1, <2>2, <2>3
  <2> QED BY <1>12, <2>3, <2>4, <2>5, <2>6, <2>7, <2>8 DEF KeysAfter
<1> HIDE DEF H
<1>15. KeysAfter(H \o R, m) /\ CmSteady(H \o R) /\ H \o R \in Seq(ItemSet)
  <2>1. R \in Seq(ItemSet) BY <1>6 DEF OfKinds
  <2> QED BY <2>1, <1>6, <1>8, <1>12, <1>14, KeysThenClosing, SteadyThenLater, ConcatIs
<1>16. KeysAfter(Script, m) /\ CmSteady(Script)
  BY <1>6, <1>7, <1>8, <1>15, KeysThenClosing, SteadyThenLater
<1> QED BY <1>10, <1>13, <1>16

\* The place of the pairing: past every key and past the connections.
LEMMA Places ==
  ASSUME Types
  PROVE  /\ N \in Nat /\ PairAt \in 1..N /\ Script[PairAt][1] = "pair"
         /\ \A p \in 1..N : Script[p][1] = "pair" => p = PairAt
         /\ \A p \in 1..N : Script[p][1] = "keys" => p < PairAt /\ Script[p][2] \in 1..Num
         /\ \A i \in 1..Num : \E p \in 1..N : p < PairAt /\ Script[p][1] = "keys" /\ Script[p][2] = i
         /\ PairAt + 3 \in 1..N /\ Ex(PairAt + 2)
         /\ \A p \in 1..N : /\ Script[p][1] = "prepare" <=> p = PairAt + 1
                            /\ Script[p][1] = "traffic" <=> p = PairAt + 3
                            /\ Script[p][1] \in {"cm", "init"} => p < PairAt
                            /\ Script[p][1] = "destroy" => PairAt + 3 < p
         /\ opt.work_rdma_cm =>
              /\ 9 < PairAt /\ 9 \in 1..N /\ Ex(9) /\ 8 \in 1..N /\ Script[8][1] = "cm"
              /\ \A p \in 1..N : (Script[p][1] = "allocate" => p = 6) /\ (Script[p][1] = "cm" => p = 8) /\ Script[p][1] # "init"
<1>1. Num \in Nat BY DEF Types, Num
<1>2. PICK n \in Nat : n = Num BY <1>1
<1>3. CmSteady(Script) BY <1>1, Plan
<1>4. PICK m \in Nat : KeysAfter(Script, m) /\ (opt.work_rdma_cm => m >= 9) BY <1>1, Plan
<1>5. Script \in Seq(ItemSet) /\ N \in Nat BY <1>4 DEF KeysAfter, N
<1>6. /\ m + n + 4 <= N
      /\ \A i \in 1..n : Script[m + i] = <<"keys", i>>
      /\ Script[m + n + 1][1] = "pair" /\ Script[m + n + 2][1] = "prepare"
      /\ Script[m + n + 3][1] = "ready" /\ Script[m + n + 4][1] = "traffic"
      /\ \A p \in 1..m : Script[p][1] \in Opening
      /\ \A p \in 1..N : p > m + n + 4 => Script[p][1] \in Closing
  BY <1>2, <1>4 DEF KeysAfter, N
<1>7. ASSUME NEW p \in 1..N
      PROVE  \/ p \in 1..m \/ p = m + n + 1 \/ p = m + n + 2 \/ p = m + n + 3 \/ p = m + n + 4 \/ p > m + n + 4
             \/ p - m \in 1..n /\ Script[p] = <<"keys", p - m>> /\ p < m + n + 1
  <2>1. p - m \in 1..n => m + (p - m) = p /\ p < m + n + 1 OBVIOUS
  <2>2. \/ p \in 1..m \/ p = m + n + 1 \/ p = m + n + 2 \/ p = m + n + 3 \/ p = m + n + 4 \/ p > m + n + 4
        \/ p - m \in 1..n
    OBVIOUS
  <2> QED BY <2>1, <2>2, <1>6
<1>8. ASSUME NEW p \in 1..N
      PROVE  /\ Script[p][1] = "pair" => p = m + n + 1
             /\ Script[p][1] = "keys" => p < m + n + 1 /\ Script[p][2] \in 1..n
             /\ Script[p][1] = "prepare" => p = m + n + 2
             /\ Script[p][1] = "traffic" => p = m + n + 4
             /\ Script[p][1] \in {"cm", "init"} => p < m + n + 1
             /\ Script[p][1] = "destroy" => m + n + 4 < p
  <2>1. CASE p \in 1..m
    <3>1. p < m + n + 1 BY <2>1
    <3> QED BY <2>1, <3>1, <1>6 DEF Opening
  <2>2. CASE p = m + n + 1 \/ p = m + n + 2 \/ p = m + n + 3 \/ p = m + n + 4 BY <2>2, <1>6
  <2>3. CASE p > m + n + 4
    <3>1. m + n + 4 < p BY <2>3
    <3> QED BY <2>3, <3>1, <1>6 DEF Closing
  <2>4. CASE p - m \in 1..n /\ Script[p] = <<"keys", p - m>> /\ p < m + n + 1 BY <2>4
  <2> QED BY <2>1, <2>2, <2>3, <2>4, <1>7
<1>9. m + n + 1 \in 1..N /\ m + n + 2 \in 1..N /\ m + n + 3 \in 1..N /\ m + n + 4 \in 1..N BY <1>5, <1>6
<1>10. PairAt = m + n + 1
  <2>1. PairAt \in 1..N /\ Script[PairAt][1] = "pair" BY <1>6, <1>9 DEF PairAt
  <2> QED BY <2>1, <1>8
<1>11. \A i \in 1..n : \E p \in 1..N : p < PairAt /\ Script[p][1] = "keys" /\ Script[p][2] = i
  <2> SUFFICES ASSUME NEW i \in 1..n PROVE \E p \in 1..N : p < PairAt /\ Script[p][1] = "keys" /\ Script[p][2] = i
    OBVIOUS
  <2>1. m + i \in 1..N /\ m + i < m + n + 1 BY <1>5, <1>6, SMTT(30)
  <2>2. Script[m + i] = <<"keys", i>> BY <1>6
  <2> QED BY <2>1, <2>2, <1>10
<1>12. ASSUME opt.work_rdma_cm
       PROVE  /\ 9 < PairAt /\ 9 \in 1..N /\ Ex(9) /\ 8 \in 1..N /\ Script[8][1] = "cm"
              /\ \A p \in 1..N : (Script[p][1] = "allocate" => p = 6) /\ (Script[p][1] = "cm" => p = 8) /\ Script[p][1] # "init"
  <2>1. m >= 9 BY <1>4, <1>12
  <2>2. 9 < PairAt BY <2>1, <1>10
  <2>3. 9 \in 1..N /\ 8 \in 1..N BY <2>1, <1>5, <1>6
  <2>4. Script[9][1] = "after_cm" /\ Script[8][1] = "cm"
        /\ \A p \in 1..N : (Script[p][1] = "allocate" => p = 6) /\ (Script[p][1] = "cm" => p = 8) /\ Script[p][1] # "init"
    BY <1>3, <1>12 DEF CmSteady, N
  <2> QED BY <2>2, <2>3, <2>4 DEF Ex, Exchanges, HandShakes
<1>13. PairAt + 1 = m + n + 2 /\ PairAt + 2 = m + n + 3 /\ PairAt + 3 = m + n + 4 BY <1>10
<1>14. Ex(PairAt + 2) BY <1>6, <1>13 DEF Ex, Exchanges, HandShakes
<1>15. /\ Script[PairAt + 1][1] = "prepare" /\ Script[PairAt + 3][1] = "traffic" /\ PairAt + 3 \in 1..N
       /\ \A p \in 1..N : /\ Script[p][1] = "prepare" => p = PairAt + 1
                          /\ Script[p][1] = "traffic" => p = PairAt + 3
                          /\ Script[p][1] \in {"cm", "init"} => p < PairAt
                          /\ Script[p][1] = "destroy" => PairAt + 3 < p
  BY <1>6, <1>8, <1>9, <1>10, <1>13
<1>16. N \in Nat /\ PairAt \in 1..N /\ Script[PairAt][1] = "pair" BY <1>5, <1>6, <1>9, <1>10
<1> QED BY <1>2, <1>8, <1>10, <1>11, <1>12, <1>14, <1>15, <1>16

LEMMA PlacesStay == ASSUME opt' = opt PROVE Script' = Script /\ N' = N /\ PairAt' = PairAt
<1>1. Script' = Script BY ScriptStays
<1> QED BY <1>1 DEF N, PairAt

\* Who is past an exchange has a peer that has come to it.
LEMMA Barrier ==
  ASSUME IInv, NEW s \in Sides, NEW p \in 1..N, Ex(p), p < Pos(s)
  PROVE  p <= Pos(Peer(s))
<1> USE BothSides
<1>1. N \in Nat BY HereIs DEF IInv, SideInv
<1>2. \A t \in Sides : Pos(t) \in Int /\ Eff(t) \in Int /\ Eff(t) \in {Pos(t), Pos(t) + 1}
  BY EffIs DEF IInv
<1>3. Awaits => Eff("client") = Pos("client")
  <2> SUFFICES ASSUME Awaits PROVE Eff("client") = Pos("client") OBVIOUS
  <2>1. Rest("client") # <<>> /\ Head(Rest("client")) = "read" BY DEF Awaits
  <2>2. Head(<<"done">>) = "done" OBVIOUS
  <2>3. Rest("client") \notin {<<>>, <<"done">>} BY <2>1, <2>2
  <2> QED BY <2>3 DEF Eff
<1>4. PICK c \in Int : c = Eff("client") BY <1>2
<1>5. PICK v \in Int : v = Eff("server") BY <1>2
<1>6. Lock(c, v, Awaits, Owes) BY <1>4, <1>5 DEF IInv, LockInv
<1>7. CASE s = "client"
  <2>1. p < c
    <3>1. c \in {Pos("client"), Pos("client") + 1} /\ Pos("client") \in Int BY <1>2, <1>4
    <3> QED BY <3>1, <1>7
  <2>2. p <= v
    <3>1. CASE Clear(v, c)
      <4>1. ~(v <= p) BY <3>1, <2>1 DEF Clear
      <4> QED BY <4>1
    <3>2. CASE v = c \/ c < v BY <3>2, <2>1
    <3> QED BY <3>1, <3>2, <1>6 DEF Lock
  <2>3. CASE p < v
    <3>1. v \in {Pos("server"), Pos("server") + 1} /\ Pos("server") \in Int BY <1>2, <1>5
    <3> QED BY <3>1, <2>3, <1>7
  <2>4. CASE p = v
    <3>1. FALSE
      <4>1. CASE Clear(v, c) BY <4>1, <2>1, <2>4 DEF Clear
      <4>2. CASE v = c \/ c < v BY <4>2, <2>1, <2>4
      <4> QED BY <4>1, <4>2, <1>6 DEF Lock
    <3> QED BY <3>1
  <2> QED BY <2>2, <2>3, <2>4
<1>8. CASE s = "server"
  <2>1. p < v
    <3>1. v \in {Pos("server"), Pos("server") + 1} /\ Pos("server") \in Int BY <1>2, <1>5
    <3> QED BY <3>1, <1>8
  <2>2. Pos("client") \in Int /\ c \in {Pos("client"), Pos("client") + 1} /\ (Awaits => c = Pos("client"))
    BY <1>2, <1>3, <1>4
  <2>3. CASE ~Awaits /\ ~Owes /\ Clear(c, v)
    <3>1. ~(c <= p) BY <2>1, <2>3 DEF Clear
    <3> QED BY <3>1, <2>2, <1>8
  <2>4. CASE Awaits /\ v <= c BY <2>1, <2>2, <2>4, <1>8
  <2>5. CASE Awaits /\ v = c BY <2>1, <2>2, <2>5, <1>8
  <2>6. CASE Awaits /\ Clear(c + 1, v)
    <3>1. ~(c + 1 <= p) BY <2>1, <2>6 DEF Clear
    <3> QED BY <3>1, <2>2, <2>6, <1>8
  <2> QED BY <2>3, <2>4, <2>5, <2>6, <1>6 DEF Lock
<1> QED BY <1>7, <1>8 DEF Sides

(***************************************************************************)
(* What a step does to the place of a side.                                *)
(***************************************************************************)
LEMMA AtIs ==
  ASSUME IInv, NEW s \in Sides, NEW kind, IsAt(s, kind), kind # "end"
  PROVE  left[s] # <<>> /\ Pos(s) \in 1..N /\ Script[Pos(s)][1] = kind
<1>1. left[s] # <<>>
  <2> SUFFICES ASSUME left[s] = <<>> PROVE FALSE OBVIOUS
  <2>1. Here(s)[1] = "end" BY DEF Here, AtEnd, Item
  <2> QED BY <2>1 DEF IsAt
<1>2. Types /\ LeftInv(s) BY DEF IInv, SideInv
<1> QED BY <1>1, <1>2, HereIs DEF IsAt

\* A side that leaves the connections, the pairing or the preparation behind
\* has done with them.
Goes(s) ==
  /\ left[s] # <<>> /\ Advance(s)
  /\ Script[Pos(s)][1] = "cm" => CmLeave(s)
  /\ Script[Pos(s)][1] = "pair" => Pair(s)
  /\ Script[Pos(s)][1] = "prepare" => Ready(s)

LEMMA MeetMoves ==
  ASSUME IInv, opt' = opt, NEW s \in Sides, Establish
  PROVE  left'[s] = left[s] \/ Goes(s)
<1> USE BothSides
<1>1. ASSUME NEW t \in Sides, comm[t] \in Outside, Advance(t) PROVE left'[s] = left[s] \/ Goes(s)
  <2>1. Pos(t) = 1 /\ left[t] # <<>> BY <1>1, OutsideIs
  <2>2. Types /\ LeftInv(t) BY DEF IInv, SideInv
  <2>3. Script[1][1] = "connect" BY <2>2, ScriptFacts DEF Types, ScriptOK
  <2>4. CASE s = t BY <1>1, <2>1, <2>3, <2>4 DEF Goes
  <2>5. CASE s # t BY <1>1, <2>1, <2>2, <2>5, ForwardLeft
  <2> QED BY <2>4, <2>5
<1>2. CASE Listen \/ RdmaResolve \/ RdmaRefused BY <1>2 DEF Listen, RdmaResolve, RdmaRefused, Exit
<1>3. CASE TcpConnect BY <1>1, <1>3 DEF TcpConnect, Exit, Outside
<1>4. CASE TcpAccept BY <1>1, <1>4 DEF TcpAccept, Outside
<1>5. CASE RdmaAccept BY <1>1, <1>5 DEF RdmaAccept, Outside
<1>6. CASE RdmaEstablished BY <1>1, <1>6 DEF RdmaEstablished, Outside
<1> QED BY <1>2, <1>3, <1>4, <1>5, <1>6 DEF Establish

LEMMA TalkMoves ==
  ASSUME IInv, opt' = opt, NEW s \in Sides, NEW t \in Sides, Exchange(t)
  PROVE  left'[s] = left[s] \/ Goes(s)
<1>1. CASE UNCHANGED left BY <1>1
<1>2. CASE todo[t] # <<>> /\ Advance(t)
  <2>1. Types /\ LeftInv(t) /\ TodoInv(t) BY DEF IInv, SideInv
  <2>2. left[t] # <<>> /\ Ex(Pos(t)) BY <1>2, <2>1, Busy
  <2>3. Script[Pos(t)][1] \notin {"cm", "pair", "prepare"} BY <2>2 DEF Ex, Exchanges, HandShakes
  <2>4. CASE s = t BY <1>2, <2>2, <2>3, <2>4 DEF Goes
  <2>5. CASE s # t BY <1>2, <2>1, <2>2, <2>5, ForwardLeft
  <2> QED BY <2>4, <2>5
<1>3. \A msg : PartOver(t, msg) => UNCHANGED left \/ Advance(t) BY DEF PartOver
<1>4. CASE TcpWrite(t) BY <1>1, <1>2, <1>3, <1>4 DEF TcpWrite, Doing, Exit
<1>5. CASE TcpRead(t) BY <1>1, <1>2, <1>3, <1>5 DEF TcpRead, Doing, Exit
<1>6. CASE TcpDone(t) BY <1>1, <1>2, <1>6 DEF TcpDone, Doing, Exit
<1>7. CASE RdmaPost(t) BY <1>1, <1>7 DEF RdmaPost
<1>8. CASE RdmaWritten(t) BY <1>1, <1>2, <1>3, <1>8 DEF RdmaWritten, Doing, Exit
<1>9. CASE RdmaRead(t) BY <1>1, <1>2, <1>3, <1>9 DEF RdmaRead, Doing
<1> QED BY <1>4, <1>5, <1>6, <1>7, <1>8, <1>9 DEF Exchange

LEMMA ProgramMoves ==
  ASSUME IInv, opt' = opt, NEW s \in Sides, NEW t \in Sides, Program(t)
  PROVE  left'[s] = left[s] \/ Goes(s)
<1>1. CASE UNCHANGED left BY <1>1
<1>2. ASSUME NEW kind, IsAt(t, kind), kind # "end", Advance(t),
             kind = "cm" => CmLeave(t), kind = "pair" => Pair(t), kind = "prepare" => Ready(t)
      PROVE  left'[s] = left[s] \/ Goes(s)
  <2>1. left[t] # <<>> /\ Script[Pos(t)][1] = kind BY <1>2, AtIs
  <2>2. Types /\ LeftInv(t) BY DEF IInv, SideInv
  <2>3. CASE s = t BY <1>2, <2>1, <2>3 DEF Goes
  <2>4. CASE s # t BY <1>2, <2>1, <2>2, <2>4, ForwardLeft
  <2> QED BY <2>3, <2>4
<1>3. CASE Talk(t) BY <1>3, TalkMoves DEF Talk
<1>4. CASE CmAllocate(t) BY <1>1, <1>2, <1>4 DEF CmAllocate, Now
<1>5. CASE CmEnter(t) \/ CmHandler(t) \/ Begin(t) \/ Work(t) \/ Disconnects(t)
  BY <1>1, <1>5 DEF CmEnter, CmHandler, Begin, Work, Disconnects, commVars
<1>6. CASE CmLeave(t)
  <2>1. IsAt(t, "cm") /\ Advance(t) BY <1>6 DEF CmLeave, Now
  <2> QED BY <1>2, <1>6, <2>1
<1>7. CASE Initialize(t) BY <1>2, <1>7 DEF Initialize, Now
<1>8. CASE Credit(t) BY <1>2, <1>8 DEF Credit, Now
<1>9. CASE Pair(t)
  <2>1. IsAt(t, "pair") /\ Advance(t) BY <1>9 DEF Pair, Now
  <2> QED BY <1>2, <1>9, <2>1
<1>10. CASE Ready(t)
  <2>1. IsAt(t, "prepare") /\ Advance(t) BY <1>10 DEF Ready, Now
  <2> QED BY <1>2, <1>10, <2>1
<1>11. CASE Over(t) BY <1>2, <1>11 DEF Over, Now
<1>12. CASE Destroys(t) BY <1>2, <1>12 DEF Destroys, Now
<1>13. CASE Ends(t) BY <1>1, <1>13 DEF Ends, Exit
<1> QED BY <1>3, <1>4, <1>5, <1>6, <1>7, <1>8, <1>9, <1>10, <1>11, <1>12, <1>13 DEF Program
=============================================================================
