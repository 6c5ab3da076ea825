--------------------------- MODULE PerfPairProofs ---------------------------
(***************************************************************************)
(* Proofs about both sides of the script at once, in every behaviour of    *)
(* PerfPeers.  The queue pairs of the two are paired one to one: by the    *)
(* keys that were exchanged, by the connections of the manager, or by the  *)
(* datagrams that told whom to send to.  And nothing is sent before both   *)
(* sides are ready for it: the last barrier holds back who would; where    *)
(* credits are given, nothing is sent without a receive that awaits it.    *)
(* And without faults neither side ends in error.                          *)
(***************************************************************************)
EXTENDS PerfCmProofs, PerfLoopProofs

(***************************************************************************)
(* The pairing.                                                            *)
(***************************************************************************)
Told(x) == KeysReach /\ x.item[1] = "keys" => x.value = x.item[2] - 1

\* Where keys reach their reader, every one on its way, or just read, is that of
\* the queue pair it names, and what a side has been told of a queue pair is its
\* number; elsewhere a side is told nothing.
StreamTold(s) == \A k \in 1..Len(stream[s]) : stream[s][k].piece = 1 => Told(stream[s][k])
BufTold(s) == sent[s] = "posted" \/ arrived[s] > 0 => Told(buf[s])
Remembers ==
  todo["server"] # <<>> /\ Head(todo["server"]) = "write" =>
    got["server"].item = Script[Pos("server")] /\ Told(got["server"])
RemInv(s) ==
  /\ DOMAIN rem[s] = Ids
  /\ KeysReach =>
       \A p \in 1..N : Script[p][1] = "keys" /\ p < Pos(s) =>
         rem[s][Script[p][2] - 1] = Script[p][2] - 1
  /\ ~KeysReach => \A q \in Ids : rem[s][q] = None
KeysInv ==
  /\ DOMAIN rem = Sides
  /\ \A s \in Sides : StreamTold(s) /\ BufTold(s) /\ RemInv(s)
  /\ Remembers

\* Once a side is through with the manager, the server has met all connections;
\* and the datagram destinations of a side are all there until it has paired.
TablesInv ==
  /\ Through("server") => connIndex["server"] = Num
  /\ Through("client") /\ ~Paired("client") /\ IsUd =>
       \A i \in Qps : \E q \in Qps : node["client"][q].remote_qpn = i
  /\ Through("server") /\ ~Paired("server") /\ NeedsReply =>
       \A i \in Qps : \E q \in Qps : node["server"][q].remote_qpn = i

MateInv(s) ==
  Paired(s) =>
    /\ ~opt.work_rdma_cm => \A q \in Qps : mate[s][q] = IF KeysReach THEN q ELSE None
    /\ opt.work_rdma_cm /\ ~IsUd =>
         \A q \in Qps : mate[s][q] \in Qps /\ qp[Peer(s)][mate[s][q]] = qp[s][q]
    /\ opt.work_rdma_cm /\ IsUd /\ Sends(s) => {mate[s][q] : q \in Qps} = Qps

PairInv == DOMAIN mate = Sides /\ TablesInv /\ \A s \in Sides : MateInv(s)

(***************************************************************************)
(* What a step does to the place of a side, to its tables and to its       *)
(* partners.                                                               *)
(***************************************************************************)
LEMMA Moves ==
  ASSUME IInv, [Next]_vars, NEW s \in Sides
  PROVE  (left'[s] = left[s] /\ Pos(s)' = Pos(s)) \/ (Goes(s) /\ Pos(s)' = Pos(s) + 1)
<1>1. opt' = opt BY CmSteps
<1>2. Script' = Script /\ N' = N BY <1>1, PlacesStay
<1>3. left'[s] = left[s] \/ Goes(s)
  <2>1. CASE UNCHANGED left BY <2>1
  <2>2. CASE Meet BY <2>2, <1>1, MeetMoves DEF Meet
  <2>3. CASE CmKernel \/ Wire \/ \E t \in Sides, q \in Ids : Device(t, q)
    BY <2>1, <2>3 DEF CmKernel, Wire, RdmaDeliver, Device, commVars
  <2>4. ASSUME NEW t \in Sides, Program(t) PROVE left'[s] = left[s] \/ Goes(s) BY <2>4, <1>1, ProgramMoves
  <2>5. ASSUME NEW t \in Sides, Crash(t) \/ CmGone(t) \/ Interrupt(t) PROVE left'[s] = left[s]
    BY <2>5 DEF Crash, CmGone, Interrupt, Exit, commVars
  <2>6. CASE UNCHANGED vars BY <2>6 DEF vars, commVars
  <2> QED BY <2>1, <2>2, <2>3, <2>4, <2>5, <2>6 DEF Next, Network
<1>4. CASE left'[s] = left[s] BY <1>2, <1>4 DEF Pos
<1>5. CASE Goes(s)
  <2>1. Types /\ LeftInv(s) /\ left[s] # <<>> /\ Advance(s) BY <1>5 DEF IInv, SideInv, Goes
  <2> QED BY <1>1, <1>5, <2>1, ForwardLeft
<1> QED BY <1>3, <1>4, <1>5

\* The tables of a side as they are.
Tables(s) ==
  /\ qp'[s] = qp[s] /\ connIndex'[s] = connIndex[s]
  /\ \A q \in Ids : node'[s][q].remote_qpn = node[s][q].remote_qpn

\* The handlers of a side work on its own tables.
LEMMA OthersTables ==
  ASSUME CmTypes, NEW s \in Sides, NEW t \in Sides, s # t,
         \/ t = "client" /\ ClientStep
         \/ t = "server" /\ ServerStep
         \/ Allocate(t) \/ Destroy(t) \/ Disconnect(t)
  PROVE  Tables(s)
<1> USE BothSides
<1>0. node \in [Sides -> [Ids -> Nodes]] /\ DOMAIN node = Sides /\ DOMAIN qp = Sides /\ DOMAIN connIndex = Sides
  BY DEF CmTypes
<1>1. CASE UNCHANGED <<node, qp, connIndex>> BY <1>1 DEF Tables
<1>2. CASE t = "client" /\ ClientStep
  <2>1. CASE ClientResolve \/ AddressHandler \/ EventErrorHandler \/ ClientRetries
    BY <1>1, <2>1 DEF ClientResolve, AddressHandler, EventErrorHandler, ClientRetries
  <2>2. CASE RouteHandler
    <3>1. CASE UNCHANGED <<node, qp, connIndex>> BY <1>1, <3>1
    <3>2. CASE ~UNCHANGED <<node, qp, connIndex>>
      <4> DEFINE k == connIndex["client"]
      <4>1. /\ qp' = [qp EXCEPT !["client"][k] = EventId("client")]
            /\ node' = [node EXCEPT !["client"][k].connected = TRUE]
            /\ connIndex' = [connIndex EXCEPT !["client"] = k + 1]
        BY <2>2, <3>2 DEF RouteHandler
      <4>2. \A q \in Ids : node'[s][q].remote_qpn = node[s][q].remote_qpn
        BY <1>0, <4>1, NodeConnected
      <4>3. qp'[s] = qp[s] /\ connIndex'[s] = connIndex[s] BY <1>0, <1>2, <4>1
      <4> QED BY <4>2, <4>3 DEF Tables
    <3> QED BY <3>1, <3>2
  <2>3. CASE EstablishedHandler
    <3>1. qp' = qp /\ connIndex' = connIndex BY <2>3 DEF EstablishedHandler
    <3>2. CASE node' = node BY <1>1, <3>1, <3>2
    <3>3. CASE node' # node
      <4> DEFINE e == disconnectsLeft["client"]
                 i == EventId("client")
      <4>1. node' = [node EXCEPT !["client"][e].remote_qpn = i] BY <2>3, <3>3 DEF EstablishedHandler, EstablishUd
      <4>2. i \in Ids \cup {None} BY <2>3, TookTypes DEF EstablishedHandler, Takes
      <4>3. \A q \in Ids : node'[s][q].remote_qpn = node[s][q].remote_qpn
        <5> HIDE DEF e, i
        <5>1. \A u \in Sides, j \in Ids : node'[u][j].remote_qpn = IF u = "client" /\ j = e THEN i ELSE node[u][j].remote_qpn
          BY <1>0, <4>1, <4>2, NodeReached
        <5> QED BY <5>1, <1>2
      <4> QED BY <3>1, <4>3 DEF Tables
    <3> QED BY <3>2, <3>3
  <2> QED BY <1>2, <2>1, <2>2, <2>3 DEF ClientStep
<1>3. CASE t = "server" /\ ServerStep
  <2> DEFINE k == connIndex["server"]
  <2>0. s = "client" BY <1>3 DEF Sides
  <2>1. CASE ServerListen BY <1>1, <2>1 DEF ServerListen
  <2>2. ASSUME NEW i \in Ids \cup {None}, NEW n \in Ids \cup {None}, Connected(k, i, n),
               qp' = qp \/ \E x : qp' = [qp EXCEPT !["server"][k] = x]
        PROVE  Tables(s)
    <3>1. /\ \A j \in Ids : node'["client"][j] = node["client"][j]
          /\ connIndex'["client"] = connIndex["client"]
      BY <2>2, ConnectedTypes
    <3>2. qp'["client"] = qp["client"] BY <1>0, <2>2
    <3> QED BY <2>0, <3>1, <3>2 DEF Tables
  <2>3. CASE RequestHandler
    <3>1. CASE UNCHANGED <<node, qp, connIndex>> BY <1>1, <3>1
    <3>2. CASE ~UNCHANGED <<node, qp, connIndex>>
      <4> DEFINE i == EventId("server")
      <4>1. /\ qp' = [qp EXCEPT !["server"][k] = i]
            /\ \/ node' = [node EXCEPT !["server"][k].cma_id = i] /\ connIndex' = connIndex
               \/ Connected(k, i, None)
        BY <2>3, <3>2 DEF RequestHandler
      <4>2. i \in Ids \cup {None} /\ None \in Ids \cup {None} BY <2>3, TookTypes DEF RequestHandler, Takes
      <4>3. CASE Connected(k, i, None) BY <2>2, <4>1, <4>2, <4>3
      <4>4. CASE node' = [node EXCEPT !["server"][k].cma_id = i] /\ connIndex' = connIndex
        <5>1. qp'["client"] = qp["client"] BY <1>0, <4>1
        <5> HIDE DEF i, k
        <5>2. \A u \in Sides, j \in Ids : node'[u][j].remote_qpn = node[u][j].remote_qpn
          BY <1>0, <4>2, <4>4, NodeNamed
        <5> QED BY <2>0, <4>4, <5>1, <5>2 DEF Tables
      <4> QED BY <4>1, <4>3, <4>4
    <3> QED BY <3>1, <3>2
  <2>4. CASE UdReply
    <3>1. CASE UNCHANGED <<node, qp, connIndex>> BY <1>1, <3>1
    <3>2. CASE ~UNCHANGED <<node, qp, connIndex>>
      <4> DEFINE i == node["server"][k].cma_id
                 n == Head(datagrams).imm
      <4>1. qp' = qp /\ Connected(k, i, n) BY <2>4, <3>2 DEF UdReply
      <4> HIDE DEF i, n
      <4>2. node'["client"] = node["client"] /\ connIndex'["client"] = connIndex["client"]
        BY <1>0, <4>1 DEF Connected
      <4> QED BY <2>0, <4>1, <4>2 DEF Tables
    <3> QED BY <3>1, <3>2
  <2> QED BY <1>3, <2>1, <2>3, <2>4 DEF ServerStep
<1>4. CASE Allocate(t) BY <1>0, <1>4 DEF Allocate, Tables
<1>5. CASE Destroy(t) BY <1>0, <1>5 DEF Destroy, Tables
<1>6. CASE Disconnect(t) BY <1>0, <1>6 DEF Disconnect, Tables
<1> QED BY <1>2, <1>3, <1>4, <1>5, <1>6

\* Once a side is through with the manager its connections stay as they are,
\* and until it has paired its destinations too.
LEMMA TablesRest ==
  ASSUME IInv, CmTypes, [Next]_vars, NEW s \in Sides, Through(s)
  PROVE  qp'[s] = qp[s] /\ connIndex'[s] = connIndex[s] /\ (Paired(s) \/ Tables(s))
<1>0. Types /\ opt.work_rdma_cm /\ 8 < Pos(s) BY DEF IInv, Through
<1>1. CASE UNCHANGED <<node, qp, connIndex>> BY <1>1 DEF Tables
<1>2. CASE UNCHANGED cmVars BY <1>1, <1>2 DEF cmVars
<1>3. ASSUME NEW kind \in {"allocate", "cm"}, IsAt(s, kind) PROVE FALSE
  <2>1. Pos(s) \in 1..N /\ Script[Pos(s)][1] = kind BY <1>3, AtIs
  <2>2. Pos(s) \in {6, 8} BY <1>0, <2>1, Places
  <2> QED BY <1>0, <2>2
<1>4. ASSUME IsAt(s, "destroy") PROVE Paired(s)
  <2>1. Pos(s) \in 1..N /\ Script[Pos(s)][1] = "destroy" BY <1>4, AtIs
  <2> QED BY <1>0, <2>1, Places DEF Paired
<1>5. CASE CmKernel
  <2>1. CASE DatagramLost BY <1>1, <2>1 DEF DatagramLost
  <2>2. CASE \E i \in Ids : ResolutionEnds(i) \/ RequestArrives(i) BY <1>1, <2>2 DEF ResolutionEnds, RequestArrives
  <2> QED BY <1>5, <2>1, <2>2 DEF CmKernel, Kernel
<1>6. CASE Meet \/ Wire \/ \E t \in Sides, q \in Ids : Device(t, q) BY <1>2, <1>6 DEF Meet, Wire, Device
<1>7. ASSUME NEW t \in Sides, Crash(t) \/ Interrupt(t) PROVE UNCHANGED cmVars BY <1>7 DEF Crash, Interrupt
<1>8. ASSUME NEW t \in Sides, CmGone(t) PROVE UNCHANGED <<node, qp, connIndex>> BY <1>8 DEF CmGone, Vanish
<1>9. ASSUME NEW t \in Sides, Program(t)
      PROVE  qp'[s] = qp[s] /\ connIndex'[s] = connIndex[s] /\ (Paired(s) \/ Tables(s))
  <2>0. CASE UNCHANGED <<node, qp, connIndex>> BY <1>1, <2>0
  <2>1. ASSUME UNCHANGED cmVars PROVE UNCHANGED <<node, qp, connIndex>> BY <2>1 DEF cmVars
  <2>2. CASE Talk(t) \/ Initialize(t) \/ Credit(t) \/ Pair(t) \/ Ready(t) \/ Begin(t) \/ Work(t) \/ Over(t) \/ Ends(t)
    BY <2>0, <2>1, <2>2 DEF Talk, Initialize, Credit, Pair, Ready, Begin, Work, Over, Ends
  <2>3. CASE CmEnter(t) \/ CmLeave(t) BY <2>0, <2>3 DEF CmEnter, CmLeave
  <2>4. CASE CmAllocate(t)
    <3>1. IsAt(t, "allocate") /\ Allocate(t) BY <2>4 DEF CmAllocate, Now
    <3>2. s # t BY <1>3, <3>1
    <3> QED BY <3>1, <3>2, OthersTables DEF Tables
  <2>5. CASE CmHandler(t)
    <3>1. /\ IsAt(t, "cm")
          /\ \/ t = "client" /\ ClientStep
             \/ t = "server" /\ ServerStep
             \/ DisconnectHandler(t) \/ EventsEnd(t)
      BY <2>5 DEF CmHandler, Now
    <3>2. s # t BY <1>3, <3>1
    <3>3. CASE DisconnectHandler(t) \/ EventsEnd(t) BY <2>0, <3>3 DEF DisconnectHandler, EventsEnd
    <3> QED BY <3>1, <3>2, <3>3, OthersTables DEF Tables
  <2>6. CASE Disconnects(t)
    <3>1. IsAt(t, "destroy") /\ (Disconnect(t) \/ DisconnectHandler(t) \/ DisconnectsEnd(t))
      BY <2>6 DEF Disconnects, Now
    <3>2. CASE DisconnectHandler(t) \/ DisconnectsEnd(t) BY <2>0, <3>2 DEF DisconnectHandler, DisconnectsEnd
    <3>3. CASE Disconnect(t) /\ s # t BY <3>3, OthersTables DEF Tables
    <3>4. CASE Disconnect(t) /\ s = t BY <1>4, <3>1, <3>4 DEF Disconnect
    <3> QED BY <3>1, <3>2, <3>3, <3>4
  <2>7. CASE Destroys(t)
    <3>1. IsAt(t, "destroy") /\ Destroy(t) BY <1>0, <2>7, CmSteps DEF Destroys, Now
    <3>2. CASE s # t BY <3>1, <3>2, OthersTables DEF Tables
    <3>3. CASE s = t BY <1>4, <3>1, <3>3 DEF Destroy
    <3> QED BY <3>2, <3>3
  <2> QED BY <1>9, <2>2, <2>3, <2>4, <2>5, <2>6, <2>7 DEF Program
<1>10. CASE UNCHANGED vars BY <1>2, <1>10 DEF vars
<1> QED BY <1>1, <1>2, <1>5, <1>6, <1>7, <1>8, <1>9, <1>10 DEF Next, Network

\* Only the pairing gives a side its partners.
LEMMA MateMoves ==
  ASSUME [Next]_vars, DOMAIN mate = Sides, NEW s \in Sides
  PROVE  /\ DOMAIN mate' = Sides /\ (mate'[s] = mate[s] \/ Pair(s))
         /\ mate' = mate \/ \E t \in Sides : Pair(t)
<1> DEFINE Claim == /\ DOMAIN mate' = Sides /\ (mate'[s] = mate[s] \/ Pair(s))
                    /\ mate' = mate \/ \E t \in Sides : Pair(t)
<1>1. ASSUME mate' = mate PROVE Claim BY <1>1
<1>2. ASSUME NEW t \in Sides, Pair(t) PROVE Claim
  <2>1. \E x : mate' = [mate EXCEPT ![t] = x] BY <1>2 DEF Pair
  <2> QED BY <1>2, <2>1
<1>3. ASSUME NEW t \in Sides, Program(t), ~Pair(t) PROVE mate' = mate
  <2>1. CASE Begin(t) BY <2>1 DEF Begin
  <2>2. CASE Work(t) BY <2>2 DEF Work
  <2>3. CASE Ready(t) BY <2>3 DEF Ready
  <2>4. CASE Talk(t) \/ CmAllocate(t) \/ CmEnter(t) \/ CmHandler(t) \/ CmLeave(t) \/ Initialize(t) \/ Credit(t)
             \/ Over(t) \/ Disconnects(t) \/ Destroys(t) \/ Ends(t)
    BY <2>4 DEF Talk, CmAllocate, CmEnter, CmHandler, CmLeave, Initialize, Credit, Over, Disconnects, Destroys, Ends
  <2> QED BY <1>3, <2>1, <2>2, <2>3, <2>4 DEF Program
<1>4. ASSUME NEW t \in Sides, Crash(t) \/ CmGone(t) \/ Interrupt(t) PROVE mate' = mate
  BY <1>4 DEF Crash, CmGone, Interrupt
<1>5. ASSUME Network PROVE Claim BY <1>1, <1>5 DEF Network, Meet, CmKernel, Wire, Device
<1>6. ASSUME UNCHANGED vars PROVE Claim BY <1>1, <1>6 DEF vars
<1> HIDE DEF Claim
<1>7. Claim BY <1>1, <1>2, <1>3, <1>4, <1>5, <1>6 DEF Next
<1> QED BY <1>7 DEF Claim

(***************************************************************************)
(* The tables, when all connections are made.                              *)
(***************************************************************************)
LEMMA TablesFull ==
  ASSUME CmInv, connIndex["server"] = Num, NEW s \in Sides
  PROVE  /\ \A q \in Qps : qp[s][q] \in Qps
         /\ \A i \in Qps : \E q \in Qps : qp[s][q] = i
         /\ \A j \in Ids, q \in Qps : qp[s][j] = qp[s][q] => j = q
<1> USE BothSides
<1>0. PICK n \in Nat : n = Num BY QpsAre DEF CmInv
<1>1. n >= 1 /\ n <= MaxQps /\ Qps = 0..(n - 1) /\ Qps \subseteq Ids BY <1>0, QpsAre DEF CmInv
<1>2. None \notin Nat BY OptionsAssumption
<1>3. None \notin Qps BY <1>1, <1>2
<1>4. /\ \A q \in Qps : qp["server"][q] \in Qps /\ link[qp["server"][q]] \in Met
      /\ \A j, k \in Ids : j # k /\ qp["server"][j] # None => qp["server"][j] # qp["server"][k]
  <2>1. ServerTable BY DEF CmInv
  <2>2. \A q \in Qps : q \in Ids /\ q < connIndex["server"] BY <1>0, <1>1
  <2>3. \A q \in Qps : qp["server"][q] # None BY <2>1, <2>2 DEF ServerTable
  <2> QED BY <2>1, <2>2, <2>3 DEF ServerTable
<1>5. \A i \in Qps : \E q \in Qps : qp["server"][q] = i
  <2> DEFINE f == qp["server"]
  <2>1. \A k \in 0..(n - 1) : f[k] \in 0..(n - 1) BY <1>1, <1>4
  <2>2. \A j, k \in 0..(n - 1) : j # k => f[j] # f[k] BY <1>1, <1>3, <1>4
  <2> HIDE DEF f
  <2>3. \A i \in 0..(n - 1) : \E k \in 0..(n - 1) : f[k] = i BY <1>1, <2>1, <2>2, Onto
  <2> QED BY <1>1, <2>3 DEF f
<1>6. \A i \in Qps : link[i] \in Met BY <1>4, <1>5
<1>7. CASE s = "server"
  <2> SUFFICES ASSUME NEW j \in Ids, NEW q \in Qps, qp["server"][j] = qp["server"][q] PROVE j = q
    BY <1>4, <1>5, <1>7
  <2> QED BY <1>1, <1>3, <1>4
<1>8. CASE s = "client"
  <2> DEFINE f == qp["client"]
  <2>1. /\ \A j \in Ids : IF j < connIndex["client"] THEN f[j] \in Qps ELSE f[j] = None
        /\ \A j, k \in Ids : j # k /\ f[j] # None => f[j] # f[k]
        /\ \A i \in Ids : link[i] \in Requested => \E j \in Ids : f[j] = i
    BY DEF CmInv, ClientTable
  <2>2. connIndex["client"] \in Nat BY DEF CmInv, CmTypes
  <2>3. \A i \in Qps : \E j \in Ids : f[j] = i BY <1>1, <1>6, <2>1 DEF Met, Requested
  <2> HIDE DEF f
  <2>4. ASSUME NEW j \in Ids, j \notin Qps, f[j] # None PROVE FALSE
    <3>1. j \in Nat /\ n <= j /\ j < MaxQps BY <1>1, <2>4, OptionsAssumption DEF Ids
    <3>2. j < connIndex["client"] BY <2>1, <2>4
    <3>3. \A k \in 0..n : k \in Ids /\ k < connIndex["client"] BY <2>2, <3>1, <3>2, OptionsAssumption DEF Ids
    <3>4. \A k \in 0..n : f[k] \in Qps BY <2>1, <3>3
    <3>5. PICK m \in Nat : m = n + 1 BY <1>1
    <3>6. 0..(m - 1) = 0..n /\ n \in 0..(m - 1) BY <1>1, <3>5
    <3>7. \A k \in 0..(m - 1) : f[k] \in 0..(m - 1) /\ f[k] # n
      <4>1. \A x \in 0..(n - 1) : x \in 0..n /\ x # n BY <1>1
      <4> QED BY <1>1, <3>4, <3>6, <4>1
    <3>8. \E a, b \in 0..(m - 1) : a # b /\ f[a] = f[b] BY <3>6, <3>7, NoRoom
    <3> QED BY <1>3, <2>1, <3>3, <3>4, <3>6, <3>8
  <2>5. \A i \in Qps : \E q \in Qps : f[q] = i BY <1>3, <2>3, <2>4
  <2>6. \A q \in Qps : f[q] \in Qps
    <3> DEFINE g == [i \in Qps |-> CHOOSE q \in Qps : f[q] = i]
    <3>1. \A i \in Qps : g[i] \in Qps /\ f[g[i]] = i BY <2>5
    <3> HIDE DEF g
    <3>2. \A i, k \in 0..(n - 1) : i # k => g[i] # g[k] BY <1>1, <3>1
    <3>3. \A i \in 0..(n - 1) : g[i] \in 0..(n - 1) BY <1>1, <3>1
    <3>4. \A q \in 0..(n - 1) : \E i \in 0..(n - 1) : g[i] = q BY <1>1, <3>2, <3>3, Onto
    <3> SUFFICES ASSUME NEW q \in Qps PROVE f[q] \in Qps OBVIOUS
    <3>5. PICK i \in Qps : g[i] = q BY <1>1, <3>4
    <3>6. f[g[i]] = i BY <3>1
    <3> QED BY <3>5, <3>6
  <2>7. ASSUME NEW j \in Ids, NEW q \in Qps, f[j] = f[q] PROVE j = q
    <3>1. f[q] # None BY <1>3, <2>6
    <3> QED BY <1>1, <2>1, <2>7, <3>1
  <2> QED BY <1>8, <2>5, <2>6, <2>7 DEF f
<1> QED BY <1>7, <1>8 DEF Sides

\* The index of a connection in a table that holds them all.
LEMMA IndexIs ==
  ASSUME CmInv, connIndex["server"] = Num, NEW s \in Sides, NEW i \in Qps
  PROVE  IndexOf(s, i) \in Qps /\ qp[s][IndexOf(s, i)] = i
<1>1. PICK q \in Qps : qp[s][q] = i BY TablesFull
<1>2. q \in Ids BY QpsAre DEF CmInv
<1>3. IndexOf(s, i) = CHOOSE j \in Ids : qp[s][j] = i BY <1>1, <1>2 DEF IndexOf
<1>4. IndexOf(s, i) \in Ids /\ qp[s][IndexOf(s, i)] = i BY <1>1, <1>2, <1>3
<1>5. IndexOf(s, i) = q BY <1>1, <1>4, TablesFull
<1> QED BY <1>1, <1>5

\* The tables from step to step.
LEMMA TablesKept ==
  ASSUME IInv, CmInv, UdInv, TablesInv, [Next]_vars
  PROVE  TablesInv'
<1> USE BothSides
<1>0. Types /\ opt' = opt /\ Script' = Script /\ N' = N /\ PairAt' = PairAt
  BY CmSteps, PlacesStay DEF IInv
<1>1. Num' = Num /\ Qps' = Qps /\ IsUd' = IsUd /\ NeedsReply' = NeedsReply
  BY <1>0 DEF Num, Qps, IsUd, NeedsReply, BothWays
<1>2. PICK n \in Nat : n = Num BY QpsAre DEF CmInv
<1>3. n >= 1 /\ n <= MaxQps /\ Qps = 0..(n - 1) /\ Qps \subseteq Ids BY <1>2, QpsAre DEF CmInv
<1>4. \A s \in Sides : Pos(s) \in Int BY EffIs DEF IInv
<1>5. N \in Nat /\ PairAt \in 1..N BY <1>0, Places
\* A side that is through has been, or leaves the manager just now.
<1>6. ASSUME NEW s \in Sides, Through(s)'
      PROVE  \/ Through(s) /\ (Paired(s) => Paired(s)')
             \/ CmLeave(s)
  <2>1. opt.work_rdma_cm /\ 8 < Pos(s)' BY <1>0, <1>6 DEF Through
  <2>2. Paired(s) => Paired(s)'
    <3>1. Pos(s)' = Pos(s) \/ Pos(s)' = Pos(s) + 1 BY Moves
    <3>2. PairAt < Pos(s) => PairAt < Pos(s)' BY <3>1, <1>4, <1>5
    <3> QED BY <3>2, <1>0 DEF Paired
  <2>3. CASE 8 < Pos(s) BY <2>1, <2>2, <2>3 DEF Through
  <2>4. CASE ~(8 < Pos(s))
    <3>1. Goes(s) /\ Pos(s)' = Pos(s) + 1 BY <2>1, <2>4, Moves
    <3>2. Pos(s) = 8 BY <2>1, <2>4, <3>1, <1>4
    <3>3. Script[8][1] = "cm" BY <1>0, <2>1, Places
    <3> QED BY <3>1, <3>2, <3>3 DEF Goes
  <2> QED BY <2>3, <2>4
<1>7. ASSUME NEW s \in Sides, CmLeave(s) PROVE Tables(s) /\ cmPc[s] = "connected" BY <1>7 DEF CmLeave, Tables
<1>8. ASSUME Through("server")' PROVE connIndex'["server"] = Num
  <2>1. CASE Through("server")
    <3>1. connIndex'["server"] = connIndex["server"] BY <2>1, TablesRest DEF CmInv
    <3> QED BY <2>1, <3>1 DEF TablesInv
  <2>2. CASE CmLeave("server")
    <3>1. connIndex["server"] = Num BY <1>7, <2>2 DEF CmInv, ServerCount
    <3> QED BY <1>7, <2>2, <3>1 DEF Tables
  <2> QED BY <1>6, <1>8, <2>1, <2>2
<1>9. ASSUME Through("client")', ~Paired("client")', IsUd
      PROVE  \A i \in Qps : \E q \in Qps : node'["client"][q].remote_qpn = i
  <2>1. CASE Through("client") /\ (Paired("client") => Paired("client")')
    <3>1. ~Paired("client") BY <1>9, <2>1
    <3>2. Tables("client") BY <2>1, <3>1, TablesRest DEF CmInv
    <3>3. \A i \in Qps : \E q \in Qps : node["client"][q].remote_qpn = i BY <1>9, <2>1, <3>1 DEF TablesInv
    <3> QED BY <1>3, <3>2, <3>3 DEF Tables
  <2>2. CASE CmLeave("client")
    <3>1. Tables("client") /\ cmPc["client"] = "connected" BY <1>7, <2>2
    <3>2. Made = n
      <4>1. connectsLeft["client"] = 0 BY <3>1 DEF UdInv, ClientCount
      <4> QED BY <1>2, <4>1 DEF Made
    <3> DEFINE f == [e \in Qps |-> node["client"][e].remote_qpn]
    <3>3. \A e \in Qps : e \in Ids /\ e < n BY <1>3
    <3>4. /\ \A e \in Qps : node["client"][e].remote_qpn \in Qps
          /\ \A d, e \in Qps : d # e => node["client"][d].remote_qpn # node["client"][e].remote_qpn
      BY <1>9, <3>1, <3>2, <3>3 DEF UdInv, ClientReach
    <3>5. /\ \A e \in 0..(n - 1) : f[e] \in 0..(n - 1)
          /\ \A d, e \in 0..(n - 1) : d # e => f[d] # f[e]
      BY <1>3, <3>4
    <3> HIDE DEF f
    <3>6. \A i \in 0..(n - 1) : \E e \in 0..(n - 1) : f[e] = i BY <1>3, <3>5, Onto
    <3>7. \A i \in Qps : \E e \in Qps : node["client"][e].remote_qpn = i BY <1>3, <3>6 DEF f
    <3> QED BY <1>3, <3>1, <3>7 DEF Tables
  <2> QED BY <1>6, <1>9, <2>1, <2>2
<1>10. ASSUME Through("server")', ~Paired("server")', NeedsReply
       PROVE  \A i \in Qps : \E q \in Qps : node'["server"][q].remote_qpn = i
  <2>1. CASE Through("server") /\ (Paired("server") => Paired("server")')
    <3>1. ~Paired("server") BY <1>10, <2>1
    <3>2. Tables("server") BY <2>1, <3>1, TablesRest DEF CmInv
    <3>3. \A i \in Qps : \E q \in Qps : node["server"][q].remote_qpn = i BY <1>10, <2>1, <3>1 DEF TablesInv
    <3> QED BY <1>3, <3>2, <3>3 DEF Tables
  <2>2. CASE CmLeave("server")
    <3>1. Tables("server") /\ cmPc["server"] = "connected" BY <1>7, <2>2
    <3>2. connIndex["server"] = n BY <1>2, <3>1 DEF CmInv, ServerCount
    <3> DEFINE f == [e \in Qps |-> node["server"][e].remote_qpn]
    <3>3. \A e \in Qps : e \in Ids /\ e < n BY <1>3
    <3>4. /\ \A e \in Qps : node["server"][e].remote_qpn \in Qps
          /\ \A d, e \in Qps : d # e => node["server"][d].remote_qpn # node["server"][e].remote_qpn
      BY <1>10, <3>1, <3>2, <3>3 DEF UdInv, ServerReach, Answering
    <3>5. /\ \A e \in 0..(n - 1) : f[e] \in 0..(n - 1)
          /\ \A d, e \in 0..(n - 1) : d # e => f[d] # f[e]
      BY <1>3, <3>4
    <3> HIDE DEF f
    <3>6. \A i \in 0..(n - 1) : \E e \in 0..(n - 1) : f[e] = i BY <1>3, <3>5, Onto
    <3>7. \A i \in Qps : \E e \in Qps : node["server"][e].remote_qpn = i BY <1>3, <3>6 DEF f
    <3> QED BY <1>3, <3>1, <3>7 DEF Tables
  <2> QED BY <1>6, <1>10, <2>1, <2>2
<1> QED BY <1>1, <1>8, <1>9, <1>10 DEF TablesInv

\* Who pairs through the manager has a peer that is through with it too.
LEMMA BothThrough ==
  ASSUME IInv, CmInv, TablesInv, NEW s \in Sides, opt.work_rdma_cm, PairAt <= Pos(s)
  PROVE  Through(s) /\ Through(Peer(s)) /\ connIndex["server"] = Num
<1> USE BothSides
<1>1. 9 < PairAt /\ 9 \in 1..N /\ Ex(9) /\ PairAt \in 1..N /\ N \in Nat BY Places DEF IInv
<1>2. \A t \in Sides : Pos(t) \in Int BY EffIs DEF IInv
<1>3. 9 < Pos(s) BY <1>1, <1>2
<1>4. 9 <= Pos(Peer(s)) BY <1>1, <1>3, Barrier
<1>5. Peer(s) \in Sides BY DEF Sides, Peer
<1>6. Through(s) /\ Through(Peer(s)) BY <1>2, <1>3, <1>4, <1>5 DEF Through
<1>7. Through("server") BY <1>6 DEF Sides
<1> QED BY <1>6, <1>7 DEF TablesInv

\* What the pairing finds.
LEMMA PairsThem ==
  ASSUME IInv, CmInv, KeysInv, TablesInv, DOMAIN mate = Sides, opt' = opt, NEW s \in Sides, Pair(s)
  PROVE  /\ ~opt.work_rdma_cm => \A q \in Qps : mate'[s][q] = IF KeysReach THEN q ELSE None
         /\ opt.work_rdma_cm /\ ~IsUd =>
              \A q \in Qps : mate'[s][q] \in Qps /\ qp[Peer(s)][mate'[s][q]] = qp[s][q]
         /\ opt.work_rdma_cm /\ IsUd /\ Sends(s) => {mate'[s][q] : q \in Qps} = Qps
<1>1. IsAt(s, "pair") /\ mate' = [mate EXCEPT ![s] = [q \in Ids |-> IF q \in Qps THEN Partner(s, q) ELSE None]]
  BY DEF Pair, Now
<1>2. Types BY DEF IInv
<1>3. Pos(s) = PairAt /\ PairAt \in 1..N /\ N \in Nat
  <2>1. Pos(s) \in 1..N /\ Script[Pos(s)][1] = "pair" BY <1>1, AtIs
  <2> QED BY <2>1, <1>2, Places
<1>4. Qps = 0..(Num - 1) /\ Num \in Nat /\ Qps \subseteq Ids BY QpsAre DEF CmInv
<1>5. \A q \in Qps : mate'[s][q] = Partner(s, q) BY <1>1, <1>4
<1>6. Peer(s) \in Sides BY DEF Sides, Peer
<1>7. ASSUME ~opt.work_rdma_cm, NEW q \in Qps PROVE mate'[s][q] = IF KeysReach THEN q ELSE None
  <2>1. PICK j \in 1..Num : j - 1 = q
    <3>1. q + 1 \in 1..Num /\ q + 1 - 1 = q BY <1>4
    <3> QED BY <3>1, <1>4
  <2>2. PICK p \in 1..N : p < PairAt /\ Script[p][1] = "keys" /\ Script[p][2] = j BY <1>2, Places
  <2>3. KeysReach => rem[s][j - 1] = j - 1 BY <2>2, <1>3 DEF KeysInv, RemInv
  <2>4. ~KeysReach => rem[s][q] = None BY <1>4 DEF KeysInv, RemInv
  <2>5. mate'[s][q] = rem[s][q] BY <1>5, <1>7 DEF Partner
  <2> QED BY <2>1, <2>3, <2>4, <2>5
<1>8. ASSUME opt.work_rdma_cm PROVE Through(s) /\ Through(Peer(s)) /\ connIndex["server"] = Num
  <2>1. PairAt <= Pos(s) BY <1>3
  <2> QED BY <1>8, <2>1, BothThrough
<1>9. ASSUME opt.work_rdma_cm, ~IsUd, NEW q \in Qps
      PROVE  mate'[s][q] \in Qps /\ qp[Peer(s)][mate'[s][q]] = qp[s][q]
  <2>1. qp[s][q] \in Qps BY <1>8, <1>9, TablesFull
  <2>2. mate'[s][q] = IndexOf(Peer(s), qp[s][q]) BY <1>5, <1>9 DEF Partner
  <2> QED BY <2>1, <2>2, <1>6, <1>8, <1>9, IndexIs
<1>10. ASSUME opt.work_rdma_cm, IsUd, Sends(s) PROVE {mate'[s][q] : q \in Qps} = Qps
  <2>1. ~Paired(s) BY <1>3 DEF Paired
  <2>2. \A i \in Qps : \E q \in Qps : node[s][q].remote_qpn = i
    <3>1. CASE s = "client" BY <1>8, <1>10, <2>1, <3>1 DEF TablesInv
    <3>2. CASE s = "server"
      <4>1. NeedsReply BY <1>10, <3>2 DEF NeedsReply, Sends
      <4> QED BY <1>8, <1>10, <2>1, <3>2, <4>1 DEF TablesInv
    <3> QED BY <3>1, <3>2 DEF Sides
  <2>3. \A q \in Qps : mate'[s][q] = IndexOf(Peer(s), node[s][q].remote_qpn) BY <1>5, <1>10 DEF Partner
  <2>4. \A q \in Qps : node[s][q].remote_qpn \in Qps
    <3> DEFINE g == [i \in Qps |-> CHOOSE q \in Qps : node[s][q].remote_qpn = i]
    <3>1. \A i \in Qps : g[i] \in Qps /\ node[s][g[i]].remote_qpn = i BY <2>2
    <3> HIDE DEF g
    <3>2. PICK n \in Nat : n = Num BY <1>4
    <3>3. n <= MaxQps BY <3>2, QpsAre DEF CmInv
    <3>4. \A i, k \in 0..(n - 1) : i # k => g[i] # g[k] BY <1>4, <3>1, <3>2
    <3>5. \A i \in 0..(n - 1) : g[i] \in 0..(n - 1) BY <1>4, <3>1, <3>2
    <3>6. \A q \in 0..(n - 1) : \E i \in 0..(n - 1) : g[i] = q BY <3>3, <3>4, <3>5, Onto
    <3> SUFFICES ASSUME NEW q \in Qps PROVE node[s][q].remote_qpn \in Qps OBVIOUS
    <3>7. PICK i \in Qps : g[i] = q BY <1>4, <3>2, <3>6
    <3>8. node[s][g[i]].remote_qpn = i BY <3>1
    <3> QED BY <3>7, <3>8
  <2>5. \A q \in Qps : mate'[s][q] \in Qps BY <1>6, <1>8, <1>10, <2>3, <2>4, IndexIs
  <2>6. ASSUME NEW r \in Qps PROVE \E q \in Qps : mate'[s][q] = r
    <3>1. qp[Peer(s)][r] \in Qps BY <1>6, <1>8, <1>10, TablesFull
    <3>2. PICK q \in Qps : node[s][q].remote_qpn = qp[Peer(s)][r] BY <2>2, <3>1
    <3>3. mate'[s][q] \in Qps /\ qp[Peer(s)][mate'[s][q]] = qp[Peer(s)][r]
      BY <1>6, <1>8, <1>10, <2>3, <2>5, <3>1, <3>2, IndexIs
    <3>4. mate'[s][q] \in Ids BY <1>4, <3>3
    <3>5. mate'[s][q] = r BY <1>6, <1>8, <1>10, <3>3, <3>4, TablesFull
    <3> QED BY <3>5
  <2> QED BY <2>5, <2>6
<1> QED BY <1>7, <1>9, <1>10

LEMMA PairKept ==
  ASSUME IInv, CmInv, UdInv, KeysInv, PairInv, [Next]_vars
  PROVE  PairInv'
<1>0. Types /\ opt' = opt /\ Script' = Script /\ N' = N /\ PairAt' = PairAt /\ (KeysReach' <=> KeysReach)
  BY CmSteps, PlacesStay, KeysStay DEF IInv
<1>1. Qps' = Qps /\ (IsUd <=> IsUd') /\ \A s \in Sides : (Sends(s) <=> Sends(s)') /\ Peer(s)' = Peer(s)
  BY <1>0 DEF Num, Qps, IsUd, Sends, BothWays, Peer
<1>2. TablesInv' BY TablesKept DEF PairInv
<1>3. DOMAIN mate' = Sides BY MateMoves, BothSides DEF PairInv
<1>4. \A t \in Sides : Pos(t) \in Int BY EffIs DEF IInv
<1>5. PairAt \in 1..N /\ N \in Nat BY <1>0, Places
<1>6. ASSUME NEW s \in Sides PROVE MateInv(s)'
  <2> SUFFICES ASSUME Paired(s)' PROVE MateInv(s)' BY DEF MateInv
  <2>0. Peer(s) \in Sides BY DEF Sides, Peer
  <2>1. PairAt < Pos(s)' BY <1>0 DEF Paired
  <2>2. CASE Pair(s)
    <3>1. /\ ~opt.work_rdma_cm => \A q \in Qps : mate'[s][q] = IF KeysReach THEN q ELSE None
          /\ opt.work_rdma_cm /\ ~IsUd =>
               \A q \in Qps : mate'[s][q] \in Qps /\ qp[Peer(s)][mate'[s][q]] = qp[s][q]
          /\ opt.work_rdma_cm /\ IsUd /\ Sends(s) => {mate'[s][q] : q \in Qps} = Qps
      BY <1>0, <2>2, PairsThem DEF PairInv
    <3>2. qp' = qp BY <2>2 DEF Pair, cmVars
    <3> QED BY <1>0, <1>1, <3>1, <3>2 DEF MateInv
  <2>3. CASE ~Pair(s)
    <3>1. mate'[s] = mate[s] BY <2>3, MateMoves DEF PairInv
    <3>2. PairAt < Pos(s)
      <4>1. CASE Pos(s)' = Pos(s) BY <2>1, <4>1
      <4>2. CASE Goes(s) /\ Pos(s)' = Pos(s) + 1
        <5>1. Pos(s) # PairAt BY <1>0, <2>3, <4>2, Places DEF Goes
        <5> QED BY <5>1, <2>1, <4>2, <1>4, <1>5
      <4> QED BY <4>1, <4>2, Moves
    <3>3. opt.work_rdma_cm => qp'[s] = qp[s] /\ qp'[Peer(s)] = qp[Peer(s)]
      <4> SUFFICES ASSUME opt.work_rdma_cm PROVE qp'[s] = qp[s] /\ qp'[Peer(s)] = qp[Peer(s)] OBVIOUS
      <4>1. PairAt <= Pos(s) BY <3>2, <1>4, <1>5
      <4>2. Through(s) /\ Through(Peer(s)) BY <4>1, BothThrough DEF PairInv
      <4> QED BY <4>2, <2>0, TablesRest DEF CmInv
    <3>4. MateInv(s) /\ Paired(s) BY <3>2 DEF PairInv, Paired
    <3> QED BY <1>0, <1>1, <3>1, <3>3, <3>4 DEF MateInv
  <2> QED BY <2>2, <2>3
<1> QED BY <1>2, <1>3, <1>6 DEF PairInv

(***************************************************************************)
(* The keys, from step to step.                                            *)
(***************************************************************************)
\* What a side writes for a queue pair is its number.
LEMMA ValueTold ==
  ASSUME IInv, NEW s \in Sides, todo[s] # <<>>
  PROVE  /\ Here(s) = Script[Pos(s)] /\ Pos(s) \in 1..N
         /\ Here(s)[1] = "keys" => Value(s) = Here(s)[2] - 1
<1>1. Types /\ LeftInv(s) /\ TodoInv(s) BY DEF IInv, SideInv
<1>2. Here(s) = Script[Pos(s)] /\ Pos(s) \in 1..N BY <1>1, Busy
<1>3. DOMAIN own[s] = {"gid", "cycle_buffer", "cache_line_size", "mtu", "srq_exists"} BY <1>1 DEF Types, Hosts
<1>4. Here(s)[1] = "keys" => Value(s) = Here(s)[2] - 1 BY <1>3 DEF Value
<1> QED BY <1>2, <1>4

\* A side that goes past no key knows what it knew.
LEMMA RemGoes ==
  ASSUME IInv, KeysInv, opt' = opt, rem' = rem, got' = got,
         \/ UNCHANGED <<left, todo>>
         \/ \E t \in Sides : left[t] # <<>> /\ Script[Pos(t)][1] # "keys" /\ Advance(t)
  PROVE  DOMAIN rem' = Sides /\ (\A s \in Sides : RemInv(s)') /\ Remembers'
<1> USE BothSides, KeysStay
<1>1. Script' = Script /\ N' = N BY PlacesStay
<1>2. CASE UNCHANGED <<left, todo>>
  <2>1. \A s \in Sides : Pos(s)' = Pos(s) BY <1>1, <1>2 DEF Pos
  <2> QED BY <1>1, <1>2, <2>1 DEF KeysInv, RemInv, Remembers, Told
<1>3. ASSUME NEW t \in Sides, left[t] # <<>>, Script[Pos(t)][1] # "keys", Advance(t)
      PROVE  DOMAIN rem' = Sides /\ (\A s \in Sides : RemInv(s)') /\ Remembers'
  <2>1. Types /\ LeftInv(t) BY DEF IInv, SideInv
  <2>2. /\ Pos(t)' = Pos(t) + 1
        /\ \A s \in Sides : s # t => left'[s] = left[s] /\ todo'[s] = todo[s]
    BY <1>3, <2>1, ForwardLeft
  <2>3. todo'[t] = <<>> \/ Head(todo'[t]) = First(t) BY <1>3, <2>1, ForwardTodo
  <2>4. \A s \in Sides : s # t => Pos(s)' = Pos(s) BY <1>1, <2>2 DEF Pos
  <2>5. \A s \in Sides : Pos(s) \in Int BY EffIs DEF IInv
  <2>6. ASSUME NEW s \in Sides PROVE RemInv(s)'
    <3>1. ASSUME NEW p \in 1..N, Script[p][1] = "keys", p < Pos(s)' PROVE p < Pos(s)
      <4>1. CASE s = t
        <5>1. p # Pos(t) BY <1>3, <3>1
        <5>2. p < Pos(t) + 1 BY <2>2, <3>1, <4>1
        <5> QED BY <2>5, <4>1, <5>1, <5>2
      <4> QED BY <2>4, <3>1, <4>1
    <3>2. RemInv(s) BY DEF KeysInv
    <3> QED BY <1>1, <3>1, <3>2 DEF RemInv
  <2>7. Remembers'
    <3>1. CASE t = "server" BY <2>3, <3>1 DEF Remembers, First
    <3>2. CASE t # "server"
      <4>1. todo'["server"] = todo["server"] /\ Pos("server")' = Pos("server") BY <2>2, <2>4, <3>2
      <4> QED BY <1>1, <4>1 DEF KeysInv, Remembers, Told
    <3> QED BY <3>1, <3>2
  <2> QED BY <2>6, <2>7 DEF KeysInv
<1> QED BY <1>2, <1>3

\* A part of an exchange: a side remembers the number it has read.
LEMMA RemPart ==
  ASSUME IInv, CmInv, KeysInv, opt' = opt, NEW s \in Sides, NEW msg, PartOver(s, msg),
         todo[s] # <<>>, Head(todo[s]) \in {"read", "write"},
         IF Head(todo[s]) = "read" THEN msg.item = Script[Pos(s)] /\ Told(msg) ELSE msg = got[s]
  PROVE  DOMAIN rem' = Sides /\ (\A t \in Sides : RemInv(t)') /\ Remembers'
<1> USE BothSides, KeysStay
<1>1. Script' = Script /\ N' = N BY PlacesStay
<1>2. Types /\ LeftInv(s) /\ TodoInv(s) BY DEF IInv, SideInv
<1>3. left[s] # <<>> /\ Here(s) = Script[Pos(s)] /\ Pos(s) \in 1..N BY <1>2, Busy
<1>4. \A t \in Sides : Pos(t) \in Int /\ RemInv(t) BY EffIs DEF IInv, KeysInv
<1>5. First("server") = "read" /\ Second("server") = "write" /\ First("client") = "write" /\ Second("client") = "read"
  BY DEF First, Second
<1>6. got' = [got EXCEPT ![s] = msg] /\ DOMAIN got = Sides /\ DOMAIN todo = Sides /\ DOMAIN rem = Sides
  BY <1>2 DEF PartOver, Types, KeysInv
<1>7. CASE Len(todo[s]) = 1
  <2>1. Advance(s) /\ Settled(s, msg.value) BY <1>7 DEF PartOver
  <2>2. /\ Pos(s)' = Pos(s) + 1
        /\ \A t \in Sides : t # s => left'[t] = left[t] /\ todo'[t] = todo[t]
    BY <1>2, <1>3, <2>1, ForwardLeft
  <2>3. todo'[s] = <<>> \/ Head(todo'[s]) = First(s) BY <1>2, <1>3, <2>1, ForwardTodo
  <2>4. \A t \in Sides : t # s => Pos(t)' = Pos(t) BY <1>1, <2>2 DEF Pos
  <2>5. KeysReach /\ Here(s)[1] = "keys" => msg.value = Here(s)[2] - 1
    <3>1. CASE Head(todo[s]) = "read" BY <3>1, <1>3 DEF Told
    <3>2. CASE Head(todo[s]) = "write"
      <4>1. Head(todo[s]) = Second(s)
        <5>1. \/ Head(todo[s]) = Second(s) \/ todo[s] = <<"done">>
          <6>1. Head(<<Second(s)>>) = Second(s) BY Tails
          <6> QED BY <6>1, <1>2, <1>7, Busy
        <5>2. Head(<<"done">>) = "done" BY Tails
        <5> QED BY <5>1, <5>2, <3>2
      <4>2. s = "server" BY <4>1, <3>2, <1>5 DEF Sides
      <4>3. got["server"].item = Script[Pos("server")] /\ Told(got["server"]) BY <3>2, <4>2 DEF KeysInv, Remembers
      <4> QED BY <3>2, <4>2, <4>3, <1>3 DEF Told
    <3> QED BY <3>1, <3>2
  <2>6. Here(s)[1] # "keys" \/ ~KeysReach => rem' = rem BY <2>1 DEF Settled
  <2>7. Here(s)[1] = "keys" /\ KeysReach => rem' = [rem EXCEPT ![s][Here(s)[2] - 1] = Here(s)[2] - 1]
    BY <2>1, <2>5 DEF Settled
  <2>8. CASE Here(s)[1] # "keys" \/ ~KeysReach
    <3>1. ASSUME NEW t \in Sides PROVE RemInv(t)'
      <4>1. ASSUME KeysReach, NEW p \in 1..N, Script[p][1] = "keys", p < Pos(t)' PROVE p < Pos(t)
        <5>1. CASE t = s
          <6>1. p # Pos(s) BY <1>3, <2>8, <4>1
          <6>2. p < Pos(s) + 1 BY <2>2, <4>1, <5>1
          <6> QED BY <1>4, <5>1, <6>1, <6>2
        <5> QED BY <2>4, <4>1, <5>1
      <4> QED BY <1>1, <1>4, <2>6, <2>8, <4>1 DEF RemInv
    <3>2. DOMAIN rem' = Sides BY <1>6, <2>6, <2>8
    <3>3. Remembers'
      <4>1. CASE s = "server" BY <2>3, <4>1, <1>5 DEF Remembers
      <4>2. CASE s # "server"
        <5>1. todo'["server"] = todo["server"] /\ Pos("server")' = Pos("server") /\ got'["server"] = got["server"]
          BY <1>6, <2>2, <2>4, <4>2
        <5> QED BY <1>1, <5>1 DEF KeysInv, Remembers, Told
      <4> QED BY <4>1, <4>2
    <3> QED BY <3>1, <3>2, <3>3
  <2>9. CASE Here(s)[1] = "keys" /\ KeysReach
    <3> DEFINE k == Here(s)[2] - 1
    <3>1. rem' = [rem EXCEPT ![s][k] = k] BY <2>7, <2>9
    <3>2. \A p \in 1..N : Script[p][1] = "keys" => Script[p][2] - 1 \in Ids
      <4>1. Num \in Nat /\ Num <= MaxQps BY QpsAre DEF CmInv
      <4>2. \A p \in 1..N : Script[p][1] = "keys" => Script[p][2] \in 1..Num BY <1>2, Places
      <4>3. \A i \in 1..Num : i - 1 \in Ids BY <4>1, OptionsAssumption DEF Ids
      <4> QED BY <4>2, <4>3
    <3>3. k \in Ids BY <1>3, <2>9, <3>2
    <3> HIDE DEF k
    <3>4. /\ DOMAIN rem' = Sides /\ DOMAIN rem'[s] = DOMAIN rem[s] /\ rem'[s][k] = k
          /\ \A j \in Ids : j # k => rem'[s][j] = rem[s][j]
          /\ \A t \in Sides : t # s => rem'[t] = rem[t]
      <4>1. DOMAIN rem[s] = Ids BY <1>4 DEF RemInv
      <4> QED BY <3>1, <3>3, <4>1, <1>6
    <3>5. ASSUME NEW t \in Sides PROVE RemInv(t)'
      <4>1. CASE t # s BY <4>1, <1>1, <1>4, <2>4, <3>4 DEF RemInv
      <4>2. CASE t = s
        <5>1. ASSUME NEW p \in 1..N, Script[p][1] = "keys", p < Pos(s)'
              PROVE  rem'[s][Script[p][2] - 1] = Script[p][2] - 1
          <6>1. Script[p][2] - 1 \in Ids BY <3>2, <5>1
          <6>2. CASE Script[p][2] - 1 = k BY <6>2, <3>4
          <6>3. CASE Script[p][2] - 1 # k
            <7>1. p # Pos(s) BY <6>3, <1>3 DEF k
            <7>2. p < Pos(s) + 1 BY <2>2, <5>1
            <7>3. p < Pos(s) BY <7>1, <7>2, <1>4
            <7>4. rem[s][Script[p][2] - 1] = Script[p][2] - 1 BY <7>3, <5>1, <1>4, <2>9 DEF RemInv
            <7> QED BY <6>1, <6>3, <7>4, <3>4
          <6> QED BY <6>2, <6>3
        <5>2. DOMAIN rem'[s] = Ids BY <3>4, <1>4 DEF RemInv
        <5> QED BY <4>2, <5>1, <5>2, <1>1, <2>9 DEF RemInv
      <4> QED BY <4>1, <4>2
    <3>6. Remembers'
      <4>1. CASE s = "server" BY <2>3, <4>1, <1>5 DEF Remembers
      <4>2. CASE s # "server"
        <5>1. todo'["server"] = todo["server"] /\ Pos("server")' = Pos("server") /\ got'["server"] = got["server"]
          BY <1>6, <2>2, <2>4, <4>2
        <5> QED BY <1>1, <5>1 DEF KeysInv, Remembers, Told
      <4> QED BY <4>1, <4>2
    <3> QED BY <3>4, <3>5, <3>6
  <2> QED BY <2>8, <2>9
<1>8. CASE Len(todo[s]) # 1
  <2>1. todo' = [todo EXCEPT ![s] = Tail(todo[s])] /\ UNCHANGED <<left, rem>> BY <1>8 DEF PartOver
  <2>2. \A t \in Sides : Pos(t)' = Pos(t) BY <1>1, <2>1 DEF Pos
  <2>3. \A t \in Sides : RemInv(t)' BY <1>1, <1>4, <2>1, <2>2 DEF RemInv
  <2>4. Remembers'
    <3>1. CASE s # "server"
      <4>1. todo'["server"] = todo["server"] /\ got'["server"] = got["server"] BY <1>6, <2>1, <3>1
      <4> QED BY <1>1, <2>2, <4>1 DEF KeysInv, Remembers, Told
    <3>2. CASE s = "server"
      <4>1. todo'["server"] = Tail(todo["server"]) /\ got'["server"] = msg BY <1>6, <2>1, <3>2
      <4>2. CASE Head(todo[s]) = "read" BY <1>1, <2>2, <3>2, <4>1, <4>2 DEF Remembers, Told
      <4>3. CASE Head(todo[s]) = "write"
        <5>1. todo[s] = <<"write", "done">>
          <6>1. Head(<<"done">>) = "done" BY Tails
          <6> QED BY <6>1, <4>3, <1>2, <1>5, <1>8, <3>2, Busy
        <5>2. Tail(todo[s]) = <<"done">> /\ Head(<<"done">>) = "done" BY <5>1, Tails
        <5> QED BY <3>2, <4>1, <5>2 DEF Remembers
      <4> QED BY <4>2, <4>3
    <3> QED BY <3>1, <3>2
  <2> QED BY <1>6, <2>1, <2>3, <2>4
<1> QED BY <1>7, <1>8

\* What is on its way is told as it was.
LEMMA ToldStays ==
  ASSUME KeysInv, opt' = opt, UNCHANGED <<stream, buf, sent, arrived>>, NEW s \in Sides
  PROVE  StreamTold(s)' /\ BufTold(s)'
  BY KeysStay DEF KeysInv, StreamTold, BufTold, Told

LEMMA KeysTcpWrite ==
  ASSUME IInv, CmInv, KeysInv, opt' = opt, NEW s \in Sides, TcpWrite(s), ~Exit(s)
  PROVE  KeysInv'
<1> USE BothSides, KeysStay
<1>1. /\ todo[s] # <<>> /\ Head(todo[s]) = "write" /\ PartOver(s, got[s])
      /\ stream' = IF tcp[s] = "open" THEN [stream EXCEPT ![Peer(s)] = @ \o Text(s)] ELSE stream
      /\ UNCHANGED <<buf, arrived, sent>>
  BY DEF TcpWrite, Doing
<1>2. DOMAIN rem' = Sides /\ (\A t \in Sides : RemInv(t)') /\ Remembers' BY <1>1, RemPart
<1>3. Types /\ SideInv(s) /\ Peer(s) \in Sides BY DEF IInv, Sides, Peer
<1>4. ASSUME NEW t \in Sides PROVE BufTold(t)' BY <1>1 DEF KeysInv, BufTold, Told
<1>5. ASSUME NEW t \in Sides PROVE StreamTold(t)'
  <2>0. StreamTold(t) BY DEF KeysInv
  <2>1. CASE stream'[t] = stream[t] BY <2>0, <2>1 DEF StreamTold, Told
  <2>2. CASE stream'[t] # stream[t]
    <3>1. t = Peer(s) /\ stream'[t] = stream[t] \o Text(s) BY <1>1, <1>3, <2>2 DEF Types
    <3>2. stream[t] \in Seq(Messages) /\ Text(s) \in Seq(Messages) BY <1>1, <1>3, TextIs DEF Types
    <3>3. \A k \in 1..Len(Text(s)) : Text(s)[k].piece = 1 => Told(Text(s)[k])
      <4>1. Len(Text(s)) = Pieces(s) BY <1>1, <1>3, TextIs
      <4>2. \A k \in 1..Pieces(s) : Text(s)[k] = [item |-> Here(s), value |-> Value(s), piece |-> k] BY DEF Text
      <4>3. Here(s)[1] = "keys" => Value(s) = Here(s)[2] - 1 BY <1>1, ValueTold
      <4> QED BY <4>1, <4>2, <4>3 DEF Told
    <3> DEFINE q == stream[t]
               r == Text(s)
    <3>4. /\ Len(q) \in Nat /\ Len(r) \in Nat /\ Len(q \o r) = Len(q) + Len(r)
          /\ \A i \in 1..(Len(q) + Len(r)) : (q \o r)[i] = IF i <= Len(q) THEN q[i] ELSE r[i - Len(q)]
      BY <3>2, ConcatProperties
    <3>5. \A k \in 1..Len(q) : q[k].piece = 1 => Told(q[k]) BY <2>0 DEF StreamTold
    <3>6. \A k \in 1..Len(r) : r[k].piece = 1 => Told(r[k]) BY <3>3
    <3>7. stream'[t] = q \o r BY <3>1
    <3> HIDE DEF q, r
    <3>8. ASSUME NEW k \in 1..Len(q \o r), (q \o r)[k].piece = 1 PROVE Told((q \o r)[k])
      <4>1. CASE k <= Len(q)
        <5>1. k \in 1..Len(q) /\ (q \o r)[k] = q[k] BY <3>4, <4>1
        <5> QED BY <3>5, <3>8, <5>1
      <4>2. CASE ~(k <= Len(q))
        <5>1. k - Len(q) \in 1..Len(r) /\ (q \o r)[k] = r[k - Len(q)] BY <3>4, <4>2
        <5> QED BY <3>6, <3>8, <5>1
      <4> QED BY <4>1, <4>2
    <3> QED BY <3>7, <3>8 DEF StreamTold, Told
  <2> QED BY <2>1, <2>2
<1> QED BY <1>2, <1>4, <1>5 DEF KeysInv

LEMMA KeysTcpRead ==
  ASSUME IInv, CmInv, KeysInv, opt' = opt, NEW s \in Sides, TcpRead(s), ~Exit(s)
  PROVE  KeysInv'
<1> USE BothSides, KeysStay
<1> DEFINE n == Pieces(s)
           first == stream[s][1]
           msg == [item |-> first.item, for |-> Here(s), value |-> first.value]
<1>1. /\ ~opt.use_rdma_cm /\ comm[s] = "open" /\ todo[s] # <<>> /\ Head(todo[s]) = "read"
      /\ ~(Len(stream[s]) < n) /\ first.piece = 1 /\ PartOver(s, msg)
      /\ stream' = [stream EXCEPT ![s] = SubSeq(stream[s], n + 1, Len(stream[s]))]
      /\ UNCHANGED <<buf, arrived, sent>>
  BY DEF TcpRead, Doing
<1>2. n \in {1, 2} BY DEF Pieces
<1>3. Types BY DEF IInv
<1>4. stream[s] \in Seq(Messages) /\ Len(stream[s]) \in Nat BY <1>3 DEF Types
<1>5. stream[s] # <<>> /\ 1 \in 1..Len(stream[s])
  <2>1. \A m \in Nat, k \in {1, 2} : ~(m < k) => 1 \in 1..m OBVIOUS
  <2>2. 1 \in 1..Len(stream[s]) BY <1>1, <1>2, <1>4, <2>1
  <2>3. stream[s] # <<>>
    <3> SUFFICES ASSUME stream[s] = <<>> PROVE FALSE OBVIOUS
    <3>1. Len(stream[s]) = 0 BY EmptySeq
    <3> QED BY <2>2, <3>1
  <2> QED BY <2>2, <2>3
<1>6. first.item = Script[Pos(s)]
  <2>1. Data(s, Pos(s), first) BY <1>1, <1>5, ReadsIts
  <2> QED BY <2>1 DEF Data
<1>7. StreamTold(s) BY DEF KeysInv
<1>8. Told(first) BY <1>1, <1>5, <1>7 DEF StreamTold
<1>9. msg.item = Script[Pos(s)] /\ Told(msg) BY <1>6, <1>8 DEF Told
<1> HIDE DEF msg
<1>10. DOMAIN rem' = Sides /\ (\A t \in Sides : RemInv(t)') /\ Remembers' BY <1>1, <1>9, RemPart
<1>11. ASSUME NEW t \in Sides PROVE BufTold(t)' BY <1>1 DEF KeysInv, BufTold, Told
<1>12. StreamTold(s)'
  <2> DEFINE q == stream[s]
  <2>1. \A i \in (n + 1)..Len(q) : q[i] \in Messages BY <1>2, <1>4, LenProperties
  <2>2. n + 1 \in Int /\ Len(q) \in Int BY <1>2, <1>4
  <2>3. /\ Len(SubSeq(q, n + 1, Len(q))) = IF n + 1 <= Len(q) THEN Len(q) - (n + 1) + 1 ELSE 0
        /\ \A i \in 1..(Len(q) - (n + 1) + 1) : SubSeq(q, n + 1, Len(q))[i] = q[(n + 1) + i - 1]
    BY <2>1, <2>2, SubSeqProperties
  <2>4. stream'[s] = SubSeq(q, n + 1, Len(q)) BY <1>1, <1>3 DEF Types
  <2>5. \A k \in 1..Len(q) : q[k].piece = 1 => Told(q[k]) BY <1>7 DEF StreamTold
  <2>6. ASSUME NEW l \in Nat, NEW m \in {1, 2}, NEW k \in 1..(IF m + 1 <= l THEN l - (m + 1) + 1 ELSE 0)
        PROVE  k \in 1..(l - (m + 1) + 1) /\ (m + 1) + k - 1 \in 1..l
    OBVIOUS
  <2>7. Len(q) \in Nat BY <1>4
  <2> HIDE DEF q, n
  <2>8. ASSUME NEW k \in 1..Len(stream'[s]) PROVE stream'[s][k].piece = 1 => Told(stream'[s][k])
    <3>1. k \in 1..(Len(q) - (n + 1) + 1) /\ (n + 1) + k - 1 \in 1..Len(q) BY <1>2, <2>3, <2>4, <2>6, <2>7
    <3>2. stream'[s][k] = q[(n + 1) + k - 1] BY <2>3, <2>4, <3>1
    <3> QED BY <2>5, <3>1, <3>2
  <2> QED BY <2>8 DEF StreamTold, Told
<1>13. ASSUME NEW t \in Sides PROVE StreamTold(t)'
  <2>1. CASE t = s BY <1>12, <2>1
  <2>2. CASE t # s
    <3>1. stream'[t] = stream[t] BY <1>1, <1>3, <2>2 DEF Types
    <3>2. StreamTold(t) BY DEF KeysInv
    <3> QED BY <3>1, <3>2 DEF StreamTold, Told
  <2> QED BY <2>1, <2>2
<1> QED BY <1>10, <1>11, <1>13 DEF KeysInv

LEMMA KeysTcpDone ==
  ASSUME IInv, KeysInv, opt' = opt, NEW s \in Sides, TcpDone(s), ~Exit(s)
  PROVE  KeysInv'
<1> USE BothSides, KeysStay
<1> DEFINE x == [item |-> Item("done"), value |-> 0, piece |-> 1]
<1>1. /\ todo[s] # <<>> /\ Head(todo[s]) = "done" /\ Advance(s)
      /\ stream' = IF tcp[s] = "open" THEN [stream EXCEPT ![Peer(s)] = Append(@, x)] ELSE stream
      /\ UNCHANGED <<buf, arrived, sent, rem, got>>
  BY DEF TcpDone, Doing
<1>2. Types /\ LeftInv(s) /\ TodoInv(s) BY DEF IInv, SideInv
<1>3. left[s] # <<>> /\ Script[Pos(s)][1] = "close" BY <1>1, <1>2, Busy
<1>4. DOMAIN rem' = Sides /\ (\A t \in Sides : RemInv(t)') /\ Remembers'
  <2>1. Script[Pos(s)][1] # "keys" BY <1>3
  <2> QED BY <1>1, <1>3, <2>1, RemGoes
<1>5. ASSUME NEW t \in Sides PROVE BufTold(t)' BY <1>1 DEF KeysInv, BufTold, Told
<1>6. Told(x) BY DEF Told, Item
<1>7. ASSUME NEW t \in Sides PROVE StreamTold(t)'
  <2>0. StreamTold(t) BY DEF KeysInv
  <2>1. CASE stream'[t] = stream[t] BY <2>0, <2>1 DEF StreamTold, Told
  <2>2. CASE stream'[t] # stream[t]
    <3>1. stream'[t] = Append(stream[t], x) BY <1>1, <1>2, <2>2 DEF Types
    <3>2. stream[t] \in Seq(Messages) BY <1>2 DEF Types
    <3> DEFINE q == stream[t]
    <3>3. x \in Messages
      <4>1. Item("done") \in ItemSet \cup {Item("done")} /\ 0 \in Int /\ 1 \in {1, 2} OBVIOUS
      <4> QED BY <4>1 DEF Messages
    <3>4. \A k \in 1..Len(q) : q[k].piece = 1 => Told(q[k]) BY <2>0 DEF StreamTold
    <3> HIDE DEF x
    <3>5. Len(Append(q, x)) = Len(q) + 1 /\ Len(q) \in Nat /\ Append(q, x)[Len(q) + 1] = x
          /\ \A k \in 1..Len(q) : Append(q, x)[k] = q[k]
      BY <3>2, <3>3
    <3>6. stream'[t] = Append(q, x) BY <3>1
    <3> HIDE DEF q
    <3>7. \A k \in 1..(Len(q) + 1) : k \in 1..Len(q) \/ k = Len(q) + 1 BY <3>5
    <3>8. \A k \in 1..Len(stream'[t]) : stream'[t][k].piece = 1 => Told(stream'[t][k])
      BY <1>6, <3>4, <3>5, <3>6, <3>7
    <3> QED BY <3>8 DEF StreamTold, Told
  <2> QED BY <2>1, <2>2
<1> QED BY <1>4, <1>5, <1>7 DEF KeysInv

LEMMA KeysRdma ==
  ASSUME IInv, CmInv, KeysInv, opt' = opt, NEW s \in Sides,
         RdmaPost(s) \/ RdmaDeliver(s) \/ RdmaWritten(s) \/ RdmaRead(s), ~Exit(s)
  PROVE  KeysInv'
<1> USE BothSides, KeysStay
<1>0. Types /\ Peer(s) \in Sides /\ Peer(s) # s BY DEF IInv, Sides, Peer
<1>1. stream' = stream
  BY DEF RdmaPost, RdmaDeliver, RdmaWritten, RdmaRead
<1>2. \A t \in Sides : StreamTold(t)' BY <1>1 DEF KeysInv, StreamTold, Told
<1>3. CASE RdmaPost(s)
  <2>1. /\ todo[s] # <<>> /\ buf' = [buf EXCEPT ![s] = [item |-> Here(s), value |-> Copied(s)]]
        /\ sent' = [sent EXCEPT ![s] = "posted"]
        /\ UNCHANGED <<left, todo, arrived, rem, got>>
    BY <1>3 DEF RdmaPost, Doing
  <2>2. Told([item |-> Here(s), value |-> Copied(s)])
    <3>1. KeysReach => Copied(s) = Value(s) BY DEF Copied
    <3> QED BY <2>1, <3>1, ValueTold DEF Told
  <2>3. ASSUME NEW t \in Sides PROVE BufTold(t)'
    <3>1. CASE t = s
      <4>1. buf'[t] = [item |-> Here(s), value |-> Copied(s)] BY <2>1, <3>1, <1>0 DEF Types
      <4> QED BY <2>2, <4>1 DEF BufTold, Told
    <3>2. CASE t # s
      <4>1. buf'[t] = buf[t] /\ sent'[t] = sent[t] /\ arrived'[t] = arrived[t] BY <2>1, <3>2
      <4> QED BY <4>1 DEF KeysInv, BufTold, Told
    <3> QED BY <3>1, <3>2
  <2>4. DOMAIN rem' = Sides /\ (\A t \in Sides : RemInv(t)') /\ Remembers' BY <2>1, RemGoes
  <2> QED BY <1>2, <2>3, <2>4 DEF KeysInv
<1>4. CASE RdmaDeliver(s)
  <2>1. /\ sent[s] = "posted" /\ UNCHANGED <<left, todo, rem, got>>
        /\ \/ \E x : sent' = [sent EXCEPT ![s] = x] /\ x # "posted" /\ UNCHANGED <<buf, arrived>>
           \/ \E x : /\ sent' = [sent EXCEPT ![s] = x] /\ x # "posted"
                     /\ buf' = [buf EXCEPT ![Peer(s)] = buf[s]]
                     /\ arrived' = [arrived EXCEPT ![Peer(s)] = @ + 1]
    BY <1>4 DEF RdmaDeliver
  <2>2. Told(buf[s]) BY <2>1 DEF KeysInv, BufTold
  <2>3. ASSUME NEW t \in Sides PROVE BufTold(t)'
    <3>1. sent'[t] = "posted" => sent[t] = "posted" BY <2>1, <1>0 DEF Types
    <3>2. (buf'[t] = buf[t] /\ arrived'[t] = arrived[t]) \/ buf'[t] = buf[s] BY <2>1, <1>0 DEF Types
    <3>3. CASE buf'[t] = buf[s] BY <2>2, <3>3 DEF BufTold, Told
    <3>4. CASE buf'[t] = buf[t] /\ arrived'[t] = arrived[t] BY <3>1, <3>4 DEF KeysInv, BufTold, Told
    <3> QED BY <3>2, <3>3, <3>4
  <2>4. DOMAIN rem' = Sides /\ (\A t \in Sides : RemInv(t)') /\ Remembers' BY <2>1, RemGoes
  <2> QED BY <1>2, <2>3, <2>4 DEF KeysInv
<1>5. CASE RdmaWritten(s)
  <2>1. /\ todo[s] # <<>> /\ Head(todo[s]) = "write" /\ PartOver(s, got[s])
        /\ sent' = [sent EXCEPT ![s] = "none"] /\ UNCHANGED <<buf, arrived>>
    BY <1>5 DEF RdmaWritten, Doing
  <2>2. ASSUME NEW t \in Sides PROVE BufTold(t)'
    <3>1. sent'[t] = "posted" => sent[t] = "posted" BY <2>1, <1>0 DEF Types
    <3> QED BY <2>1, <3>1 DEF KeysInv, BufTold, Told
  <2>3. DOMAIN rem' = Sides /\ (\A t \in Sides : RemInv(t)') /\ Remembers' BY <2>1, RemPart
  <2> QED BY <1>2, <2>2, <2>3 DEF KeysInv
<1>6. CASE RdmaRead(s)
  <2> DEFINE msg == [item |-> buf[s].item, for |-> Here(s), value |-> buf[s].value]
  <2>1. /\ opt.use_rdma_cm /\ comm[s] = "open" /\ todo[s] # <<>> /\ Head(todo[s]) = "read"
        /\ arrived[s] > 0 /\ PartOver(s, msg)
        /\ arrived' = [arrived EXCEPT ![s] = arrived[s] - 1] /\ UNCHANGED <<buf, sent>>
    BY <1>6 DEF RdmaRead, Doing
  <2>2. ~Gone(s) /\ ~Quiet(s)
    <3>1. Quiet(s) => arrived[s] = 0 BY <2>1 DEF Quiet
    <3>2. ~(0 > 0) OBVIOUS
    <3> QED BY <2>1, <3>1, <3>2 DEF Gone
  <2>3. Brings(s, Pos(s))
    <3>1. CASE s = "server"
      <4>1. Asked BY <2>1, <2>2, <3>1, BeforeHearing
      <4> QED BY <2>1, <2>2, <3>1, <4>1, BeforeHearing
    <3>2. CASE s = "client"
      <4>1. Answered BY <2>1, <2>2, <3>2, BeforeLearning
      <4> QED BY <2>1, <2>2, <3>2, <4>1, BeforeLearning
    <3> QED BY <3>1, <3>2 DEF Sides
  <2>4. buf[s].item = Script[Pos(s)] BY <2>1, <2>3 DEF Brings, Data
  <2>5. Told(buf[s]) BY <2>1 DEF KeysInv, BufTold
  <2>6. msg.item = Script[Pos(s)] /\ Told(msg) BY <2>4, <2>5 DEF Told
  <2> HIDE DEF msg
  <2>7. ASSUME NEW t \in Sides PROVE BufTold(t)'
    <3>1. arrived'[t] > 0 => arrived[t] > 0
      <4>1. arrived \in [Sides -> Int] BY <1>0 DEF Types
      <4>2. \A a \in Int : a - 1 > 0 => a > 0 OBVIOUS
      <4> QED BY <2>1, <4>1, <4>2
    <3> QED BY <2>1, <3>1 DEF KeysInv, BufTold, Told
  <2>8. DOMAIN rem' = Sides /\ (\A t \in Sides : RemInv(t)') /\ Remembers' BY <2>1, <2>6, RemPart
  <2> QED BY <1>2, <2>7, <2>8 DEF KeysInv
<1> QED BY <1>3, <1>4, <1>5, <1>6

\* Everything but a part of an exchange leaves the keys alone.
LEMMA KeysIdle ==
  ASSUME IInv, KeysInv, opt' = opt, UNCHANGED <<stream, buf, sent, arrived, rem, got>>,
         \/ UNCHANGED <<left, todo>>
         \/ \E t \in Sides : left[t] # <<>> /\ Script[Pos(t)][1] # "keys" /\ Advance(t)
  PROVE  KeysInv'
<1>1. \A s \in Sides : StreamTold(s)' /\ BufTold(s)' BY ToldStays
<1>2. DOMAIN rem' = Sides /\ (\A s \in Sides : RemInv(s)') /\ Remembers' BY RemGoes
<1> QED BY <1>1, <1>2 DEF KeysInv

LEMMA KeysKept ==
  ASSUME IInv, CmInv, KeysInv, [Next]_vars
  PROVE  KeysInv'
<1> USE BothSides, KeysStay
<1>0. opt' = opt BY CmSteps
<1>1. CASE UNCHANGED commVars BY <1>0, <1>1, KeysIdle DEF commVars
<1>2. ASSUME NEW s \in Sides, Exit(s) PROVE KeysInv' BY <1>0, <1>2, KeysIdle DEF Exit
<1>3. ASSUME NEW s \in Sides, NEW kind, IsAt(s, kind), kind \notin {"keys", "end"}, Advance(s), UNCHANGED exchanging
      PROVE  KeysInv'
  <2>1. left[s] # <<>> /\ Script[Pos(s)][1] = kind BY <1>3, AtIs
  <2>2. Script[Pos(s)][1] # "keys" BY <1>3, <2>1
  <2>3. UNCHANGED <<stream, buf, sent, arrived, rem, got>> BY <1>3 DEF exchanging
  <2> QED BY <1>0, <1>3, <2>1, <2>2, <2>3, KeysIdle
<1>4. CASE Meet
  <2>0. Establish BY <1>4 DEF Meet
  <2>1. ASSUME NEW t \in Sides, comm[t] \in Outside, Advance(t), UNCHANGED <<stream, buf, sent, arrived, rem, got>>
        PROVE  KeysInv'
    <3>1. Pos(t) = 1 /\ left[t] # <<>> /\ ~Ex(Pos(t)) BY <2>1, OutsideIs
    <3>2. Script[Pos(t)][1] # "keys" BY <3>1 DEF Ex, Exchanges, HandShakes
    <3> QED BY <1>0, <2>1, <3>1, <3>2, KeysIdle
  <2>2. CASE Listen BY <2>2, <1>0, KeysIdle DEF Listen, quiet
  <2>3. CASE TcpConnect BY <2>1, <2>3, <1>2 DEF TcpConnect, quiet, Outside
  <2>4. CASE TcpAccept BY <2>1, <2>4 DEF TcpAccept, quiet, Outside
  <2>5. CASE RdmaResolve BY <2>5, <1>0, KeysIdle DEF RdmaResolve
  <2>6. CASE RdmaRefused BY <2>6, <1>2 DEF RdmaRefused
  <2>7. CASE RdmaAccept BY <2>1, <2>7 DEF RdmaAccept, Outside
  <2>8. CASE RdmaEstablished BY <2>1, <2>8 DEF RdmaEstablished, quiet, Outside
  <2> QED BY <2>0, <2>2, <2>3, <2>4, <2>5, <2>6, <2>7, <2>8 DEF Establish
<1>5. CASE CmKernel BY <1>1, <1>5 DEF CmKernel
<1>6. CASE Wire
  <2>1. PICK s \in Sides : RdmaDeliver(s) BY <1>6 DEF Wire
  <2>2. CASE Exit(s) BY <2>2, <1>2
  <2>3. CASE ~Exit(s) BY <2>1, <2>3, <1>0, KeysRdma
  <2> QED BY <2>2, <2>3
<1>7. ASSUME NEW s \in Sides, NEW q \in Ids, Device(s, q) PROVE KeysInv' BY <1>1, <1>7 DEF Device
<1>8. ASSUME NEW s \in Sides, Program(s) PROVE KeysInv'
  <2>1. CASE Talk(s)
    <3>1. Exchange(s) BY <2>1 DEF Talk
    <3>2. CASE Exit(s) BY <3>2, <1>2
    <3>3. CASE ~Exit(s) /\ (TcpWrite(s) \/ TcpRead(s) \/ TcpDone(s))
      BY <3>3, <1>0, KeysTcpWrite, KeysTcpRead, KeysTcpDone
    <3>4. CASE ~Exit(s) /\ (RdmaPost(s) \/ RdmaWritten(s) \/ RdmaRead(s)) BY <3>4, <1>0, KeysRdma
    <3> QED BY <3>1, <3>2, <3>3, <3>4 DEF Exchange
  <2>2. CASE CmAllocate(s)
    <3>1. CASE cmPc'[s] = "failed" BY <1>1, <2>2, <3>1 DEF CmAllocate, exchanging, commVars
    <3>2. CASE cmPc'[s] # "failed"
      <4>1. IsAt(s, "allocate") /\ Advance(s) /\ UNCHANGED exchanging BY <2>2, <3>2 DEF CmAllocate, Now
      <4> QED BY <4>1, <1>3
    <3> QED BY <3>1, <3>2
  <2>3. CASE CmEnter(s) \/ CmHandler(s) \/ Begin(s) \/ Work(s) \/ Disconnects(s)
    BY <1>1, <2>3 DEF CmEnter, CmHandler, Begin, Work, Disconnects
  <2>4. ASSUME NEW kind \in {"cm", "init", "credit", "pair", "prepare", "traffic", "destroy"},
               IsAt(s, kind), Advance(s), UNCHANGED exchanging
        PROVE  KeysInv'
    BY <1>3, <2>4
  <2>5. CASE CmLeave(s) BY <2>4, <2>5 DEF CmLeave, Now
  <2>6. CASE Initialize(s) BY <2>4, <2>6 DEF Initialize, Now
  <2>7. CASE Credit(s) BY <2>4, <2>7 DEF Credit, Now
  <2>8. CASE Pair(s) BY <2>4, <2>8 DEF Pair, Now
  <2>9. CASE Ready(s) BY <2>4, <2>9 DEF Ready, Now
  <2>10. CASE Over(s) BY <2>4, <2>10 DEF Over, Now
  <2>11. CASE Destroys(s) BY <2>4, <2>11 DEF Destroys, Now
  <2>12. CASE Ends(s) BY <2>12, <1>2 DEF Ends
  <2> QED BY <1>8, <2>1, <2>2, <2>3, <2>5, <2>6, <2>7, <2>8, <2>9, <2>10, <2>11, <2>12 DEF Program
<1>9. ASSUME NEW s \in Sides, Crash(s) \/ CmGone(s) \/ Interrupt(s) PROVE KeysInv'
  BY <1>1, <1>2, <1>9 DEF Crash, CmGone, Interrupt
<1>10. CASE UNCHANGED vars BY <1>1, <1>10 DEF vars
<1> QED BY <1>4, <1>5, <1>6, <1>7, <1>8, <1>9, <1>10 DEF Next, Network

(***************************************************************************)
(* The specification.                                                      *)
(***************************************************************************)
LEMMA PairStarts == ASSUME Init PROVE KeysInv /\ PairInv
<1> USE BothSides
<1>1. /\ left = [s \in Sides |-> Script] /\ todo = [s \in Sides |-> <<>>]
      /\ stream = [s \in Sides |-> <<>>] /\ sent = [s \in Sides |-> "none"] /\ arrived = [s \in Sides |-> 0]
      /\ rem = [s \in Sides |-> [q \in Ids |-> None]]
      /\ DOMAIN mate = Sides
  BY DEF Init, CommInit, QueuesInit
<1>2. Types BY AtTheStart DEF IInv
<1>3. N \in Nat /\ PairAt \in 1..N BY <1>2, Places
<1>4. \A s \in Sides : Pos(s) = 1
  <2>1. \A s \in Sides : Len(left[s]) = N BY <1>1 DEF N
  <2>2. N + 1 - N = 1 BY <1>3
  <2> QED BY <2>1, <2>2 DEF Pos
<1>5. KeysInv
  <2>1. ~(0 > 0) /\ Len(<<>>) = 0 /\ 1..0 = {} OBVIOUS
  <2>2. \A s \in Sides : StreamTold(s) BY <1>1, <2>1 DEF StreamTold
  <2>3. \A s \in Sides : BufTold(s) BY <1>1, <2>1 DEF BufTold
  <2>4. \A s \in Sides : RemInv(s)
    <3>1. \A p \in 1..N : ~(p < 1) BY <1>3
    <3> QED BY <1>1, <1>4, <3>1 DEF RemInv
  <2>5. Remembers BY <1>1 DEF Remembers
  <2> QED BY <1>1, <2>2, <2>3, <2>4, <2>5 DEF KeysInv
<1>6. PairInv
  <2>1. \A s \in Sides : ~Through(s) /\ ~Paired(s)
    <3>1. ~(8 < 1) /\ ~(PairAt < 1) BY <1>3
    <3> QED BY <1>4, <3>1 DEF Through, Paired
  <2> QED BY <1>1, <2>1 DEF PairInv, TablesInv, MateInv
<1> QED BY <1>5, <1>6

\* Who has no pairing before it has paired.
LEMMA PastPairing ==
  ASSUME IInv, NEW s \in Sides, Past(s, "pair")
  PROVE  Paired(s)
<1> SUFFICES ASSUME ~Paired(s) PROVE FALSE OBVIOUS
<1>1. Types /\ LeftInv(s) BY DEF IInv, SideInv
<1>2. N \in Nat /\ PairAt \in 1..N /\ Script[PairAt][1] = "pair" BY <1>1, Places
<1>3. left[s] \in Seq(ItemSet) /\ Len(left[s]) \in Nat BY <1>1, HereIs DEF Types
<1>4. Len(left[s]) <= N /\ ~(PairAt < N + 1 - Len(left[s])) BY <1>1 DEF LeftInv, Paired, Pos
<1>5. \A n \in Nat, k \in Nat : \A p \in 1..n : k <= n /\ ~(p < n + 1 - k) => p - n + k \in 1..k /\ n - k + (p - n + k) = p
  OBVIOUS
<1>6. PICK j \in 1..Len(left[s]) : N - Len(left[s]) + j = PairAt
  <2>1. /\ PairAt - N + Len(left[s]) \in 1..Len(left[s])
        /\ N - Len(left[s]) + (PairAt - N + Len(left[s])) = PairAt
    BY <1>2, <1>3, <1>4, <1>5
  <2> QED BY <2>1
<1>7. left[s][j] = Script[PairAt] BY <1>1, <1>6 DEF LeftInv
<1>8. j \in DOMAIN left[s] BY <1>3, LenProperties
<1> QED BY <1>2, <1>7, <1>8 DEF Past

LEMMA OneToOneThen ==
  ASSUME IInv, CmInv, PairInv
  PROVE  OneToOne
<1> USE BothSides
<1>1. Qps \subseteq Ids BY QpsAre DEF CmInv
<1>2. \A t \in Sides : Pos(t) \in Int /\ PairAt \in Int BY EffIs, Places DEF IInv
<1> SUFFICES ASSUME NEW s \in Sides, Past(s, "pair"),
                    opt.work_rdma_cm \/ KeysReach
             PROVE  /\ Sends(s) \/ ~IsUd => {mate[s][q] : q \in Qps} = Qps
                    /\ ~IsUd /\ Past(Peer(s), "pair") => \A q \in Qps : mate[Peer(s)][mate[s][q]] = q
  BY DEF OneToOne
<1> DEFINE t == Peer(s)
<1>3. t \in Sides /\ Peer(t) = s BY DEF Sides, Peer
<1>4. Paired(s) /\ MateInv(s) /\ (Past(t, "pair") => Paired(t) /\ MateInv(t)) BY <1>3, PastPairing DEF PairInv
<1>5. CASE ~opt.work_rdma_cm
  <2>1. \A q \in Qps : mate[s][q] = q BY <1>4, <1>5 DEF MateInv
  <2>2. Past(t, "pair") => \A q \in Qps : mate[t][q] = q BY <1>4, <1>5 DEF MateInv
  <2> QED BY <2>1, <2>2
<1>6. CASE opt.work_rdma_cm /\ IsUd BY <1>4, <1>6 DEF MateInv
<1>7. CASE opt.work_rdma_cm /\ ~IsUd
  <2>1. connIndex["server"] = Num
    <3>1. PairAt <= Pos(s) BY <1>2, <1>4 DEF Paired
    <3> QED BY <1>7, <3>1, BothThrough DEF PairInv
  <2>0. \A x \in Sides : \A j \in Ids, q \in Qps : qp[x][j] = qp[x][q] => j = q BY <2>1, TablesFull
  <2>2. \A q \in Qps : mate[s][q] \in Qps /\ qp[t][mate[s][q]] = qp[s][q] BY <1>4, <1>7 DEF MateInv
  <2>3. \A r \in Qps : \E q \in Qps : mate[s][q] = r
    <3> SUFFICES ASSUME NEW r \in Qps PROVE \E q \in Qps : mate[s][q] = r OBVIOUS
    <3>1. qp[t][r] \in Qps BY <1>3, <2>1, TablesFull
    <3>2. PICK q \in Qps : qp[s][q] = qp[t][r] BY <2>1, <3>1, TablesFull
    <3>3. mate[s][q] \in Ids /\ qp[t][mate[s][q]] = qp[t][r] BY <1>1, <2>2, <3>2
    <3>4. mate[s][q] = r BY <1>3, <2>0, <3>3
    <3> QED BY <3>4
  <2>4. ASSUME Past(t, "pair"), NEW q \in Qps PROVE mate[t][mate[s][q]] = q
    <3>1. \A r \in Qps : mate[t][r] \in Qps /\ qp[s][mate[t][r]] = qp[t][r] BY <1>3, <1>4, <1>7, <2>4 DEF MateInv
    <3>2. mate[t][mate[s][q]] \in Ids /\ qp[s][mate[t][mate[s][q]]] = qp[s][q] BY <1>1, <2>2, <3>1
    <3> QED BY <2>0, <3>2
  <2> QED BY <2>2, <2>3, <2>4
<1> QED BY <1>5, <1>6, <1>7

\* The keys a side has been told, over the socket in any build and over RDMA in
\* one with HAVE_ENDIAN, are those of the queue pairs they name, and over RDMA in
\* the build without it a side is told none; every connection the server's table
\* holds is in the client's too once a side is past the barriers around them, and
\* so each queue pair has the partner that has it (ctx_hand_shake,
\* rdma_cm_connect_events, ctx_connect).
THEOREM PairsStand == Spec => [](KeysInv /\ PairInv)
<1> DEFINE All == IInv /\ CmInv /\ UdInv /\ KeysInv /\ PairInv
<1>1. Init => All BY AtTheStart, CmStarts, UdStarts, PairStarts
<1>2. All /\ [Next]_vars => All' BY NextKept, CmSteps, CmKept, CmStill, UdKept, KeysKept, PairKept
<1> QED BY <1>1, <1>2, PTL DEF Spec

\* The queue pairs of the two sides are paired one to one, for any number of
\* them and in whatever order the manager's events came; if by keys, then where
\* keys arrive: over the socket, or over RDMA in a build with HAVE_ENDIAN.
THEOREM OneToOneAlways == Spec => []OneToOne
<1>1. IInv /\ CmInv /\ PairInv => OneToOne BY OneToOneThen
<1> QED BY <1>1, Invariance, ConnectionsStand, PairsStand, PTL

(***************************************************************************)
(* Nothing is sent before both sides are ready for it.                     *)
(***************************************************************************)

\* Who sends: with credits a server its counts, in bursts both.
MaySend(s) == Sends(s) \/ opt.send_rcredit \/ Loop = "burst"

\* A side has prepared its queues just when its place says so, and is in its loop
\* only past the last barrier; its queue pairs are ready once it is connected.
StageInv(s) ==
  /\ at[s] = "idle" <=> Pos(s) <= PairAt + 1
  /\ at[s] \notin {"idle", "ready"} => PairAt + 3 <= Pos(s)
  /\ Through(s) => \A q \in Qps : qpState[s][q] = "RTS"
  /\ ~opt.work_rdma_cm /\ Paired(s) => \A q \in Qps : qpState[s][q] = ReadyState(s)
  /\ ~MaySend(s) => \A q \in Ids : sq[s][q] = <<>>
ReadyInv == DOMAIN qpState = Sides /\ \A s \in Sides : StageInv(s)

\* A loop goes from place to place and never back to where it began; of itself
\* it does not fail.
Goer(s) == at' = at \/ \E place : place # "idle" /\ at' = [at EXCEPT ![s] = place]
Runs(s) == at' = at \/ \E place : place \notin {"idle", "failed"} /\ at' = [at EXCEPT ![s] = place]

LEMMA BwGoes == ASSUME NEW s \in Sides, BwStep(s) PROVE Runs(s)
<1>1. CASE BwPost(s) \/ InfinitePost(s) \/ BiPost(s)
  BY <1>1 DEF BwPost, InfinitePost, BiPost, NextQp, GoTo, Runs
<1>2. CASE BwPoll(s) \/ InfinitePoll(s) \/ BiPoll(s)
  BY <1>2 DEF BwPoll, InfinitePoll, BiPoll, GoTo, Runs
<1>3. CASE BwServerReceive(s) \/ BiReceive(s) \/ InfiniteReceive(s)
  BY <1>3 DEF BwServerReceive, BiReceive, InfiniteReceive, GoTo, Runs
<1>4. CASE BwServerCredit(s) \/ InfiniteCredit(s) \/ BiCredit(s)
  BY <1>4 DEF BwServerCredit, InfiniteCredit, BiCredit, GoTo, Runs
<1>5. CASE BwServerEnd(s) \/ CleanCredit(s)
  BY <1>5 DEF BwServerEnd, CleanCredit, GoTo, Runs
<1> QED BY <1>1, <1>2, <1>3, <1>4, <1>5 DEF BwStep

LEMMA LatGoes == ASSUME NEW s \in Sides, LatStep(s) PROVE Runs(s)
<1>1. CASE LatWriteRound(s) \/ LatWritePoll(s)
  BY <1>1 DEF LatWriteRound, LatWritePoll, GoTo, Runs
<1>2. CASE LatPost(s) \/ LatPoll(s)
  BY <1>2 DEF LatPost, LatPoll, GoTo, Runs
<1>3. CASE LatSendReceive(s) \/ LatSendPost(s) \/ LatSendPoll(s)
  BY <1>3 DEF LatSendReceive, LatSendPost, LatSendPoll, GoTo, Runs
<1>4. CASE BurstServe(s) \/ BurstServePoll(s) \/ BurstPost(s)
  BY <1>4 DEF BurstServe, BurstServePoll, BurstPost, GoTo, Runs
<1>5. CASE BurstPoll(s)
  <2>1. PICK place \in {"burst_poll", "burst", "done"} : GoTo(s, place) BY <1>5 DEF BurstPoll
  <2> QED BY <2>1 DEF GoTo, Runs
<1> QED BY <1>1, <1>2, <1>3, <1>4, <1>5 DEF LatStep

\* The place of a side in its loop changes when it prepares and in the test.
LEMMA PlaceMoves ==
  ASSUME LoopInv, [Next]_vars, NEW s \in Sides
  PROVE  \/ at'[s] = at[s]
         \/ Ready(s) /\ at[s] = "idle" /\ at'[s] = "ready"
         \/ IsAt(s, "traffic") /\ at'[s] # "idle"
<1> DEFINE Claim == \/ at'[s] = at[s]
                    \/ Ready(s) /\ at[s] = "idle" /\ at'[s] = "ready"
                    \/ IsAt(s, "traffic") /\ at'[s] # "idle"
<1>0. DOMAIN at = Sides BY DEF LoopInv, Domains
<1>1. ASSUME at' = at PROVE Claim BY <1>1
<1>2. ASSUME NEW t \in Sides, Goer(t), IsAt(t, "traffic") PROVE Claim
  BY <1>0, <1>2 DEF Goer
<1>3. ASSUME NEW t \in Sides, Ready(t) PROVE Claim BY <1>0, <1>3 DEF Ready, Prepare
<1>4. ASSUME NEW t \in Sides, Work(t) PROVE Claim
  <2>1. Goer(t) /\ IsAt(t, "traffic") BY <1>4, BwGoes, LatGoes DEF Work, Now, Runs, Goer
  <2> QED BY <2>1, <1>2
<1>5. ASSUME NEW t \in Sides, Begin(t) PROVE Claim
  <2>1. Start(t) # "idle" BY StartIs
  <2>2. Goer(t) /\ IsAt(t, "traffic") BY <1>5, <2>1 DEF Begin, Now, GoTo, Goer
  <2> QED BY <2>2, <1>2
<1>6. ASSUME NEW t \in Sides, Interrupt(t) PROVE Claim
  <2>1. Goer(t) /\ IsAt(t, "traffic")
    BY <1>6 DEF Interrupt, Now, Alarm, CheckAlive, SendError, GoTo, Goer
  <2> QED BY <2>1, <1>2
<1>7. ASSUME NEW t \in Sides, Program(t), ~Ready(t), ~Work(t), ~Begin(t) PROVE at' = at
  BY <1>7 DEF Program, Talk, CmAllocate, CmEnter, CmHandler, CmLeave, Initialize, Credit, Pair,
     Over, Disconnects, Destroys, Ends, queueVars
<1>8. ASSUME NEW t \in Sides, Crash(t) \/ CmGone(t) PROVE at' = at BY <1>8 DEF Crash, CmGone, queueVars
<1>9. ASSUME Network PROVE Claim
  BY <1>1, <1>9, SMTT(30) DEF Network, Meet, CmKernel, Wire, Device, Serve, queueVars
<1>10. ASSUME UNCHANGED vars PROVE Claim BY <1>1, <1>10 DEF vars, queueVars
<1> HIDE DEF Claim
<1>11. Claim BY <1>1, <1>3, <1>4, <1>5, <1>6, <1>7, <1>8, <1>9, <1>10 DEF Next
<1> QED BY <1>11 DEF Claim

\* Queue pairs change their state when they are made and when they are connected.
LEMMA StateMoves ==
  ASSUME [Next]_vars, DOMAIN qpState = Sides, NEW s \in Sides
  PROVE  /\ DOMAIN qpState' = Sides
         /\ qpState'[s] = qpState[s] \/ Initialize(s) \/ CmLeave(s) \/ (Pair(s) /\ ~opt.work_rdma_cm)
<1> DEFINE Claim == /\ DOMAIN qpState' = Sides
                    /\ qpState'[s] = qpState[s] \/ Initialize(s) \/ CmLeave(s) \/ (Pair(s) /\ ~opt.work_rdma_cm)
<1>1. ASSUME qpState' = qpState PROVE Claim BY <1>1
<1>2. ASSUME NEW t \in Sides, \E x : qpState' = [qpState EXCEPT ![t] = x],
             Initialize(t) \/ CmLeave(t) \/ (Pair(t) /\ ~opt.work_rdma_cm)
      PROVE  Claim
  BY <1>2
<1>3. ASSUME NEW t \in Sides, Initialize(t) PROVE Claim
  <2>1. \E x : qpState' = [qpState EXCEPT ![t] = x] BY <1>3 DEF Initialize, CtxInit
  <2> QED BY <1>2, <1>3, <2>1
<1>4. ASSUME NEW t \in Sides, CmLeave(t) PROVE Claim
  <2>1. \E x : qpState' = [qpState EXCEPT ![t] = x] BY <1>4 DEF CmLeave
  <2> QED BY <1>2, <1>4, <2>1
<1>5. ASSUME NEW t \in Sides, Pair(t) PROVE Claim
  <2>1. CASE opt.work_rdma_cm BY <1>1, <1>5, <2>1 DEF Pair, setupVars
  <2>2. CASE ~opt.work_rdma_cm
    <3>1. \E x : qpState' = [qpState EXCEPT ![t] = x] BY <1>5, <2>2 DEF Pair, CtxConnect
    <3> QED BY <1>2, <1>5, <2>2, <3>1
  <2> QED BY <2>1, <2>2
<1>6. ASSUME NEW t \in Sides, Program(t), ~Initialize(t), ~CmLeave(t), ~Pair(t) PROVE qpState' = qpState
  <2>1. CASE Begin(t) BY <2>1 DEF Begin, setupVars
  <2>2. CASE Work(t) BY <2>2 DEF Work, setupVars
  <2>3. CASE Ready(t) BY <2>3 DEF Ready, setupVars
  <2>4. CASE Talk(t) \/ CmAllocate(t) \/ CmEnter(t) \/ CmHandler(t) \/ Credit(t)
             \/ Over(t) \/ Disconnects(t) \/ Destroys(t) \/ Ends(t)
    BY <2>4 DEF Talk, CmAllocate, CmEnter, CmHandler, Credit, AllocCredit, Over, Disconnects, Destroys,
       DestroyCtx, Ends, setupVars
  <2> QED BY <1>6, <2>1, <2>2, <2>3, <2>4 DEF Program
<1>7. ASSUME NEW t \in Sides, Crash(t) \/ CmGone(t) \/ Interrupt(t) PROVE qpState' = qpState
  BY <1>7 DEF Crash, CmGone, Interrupt, setupVars
<1>8. ASSUME Network PROVE Claim BY <1>1, <1>8 DEF Network, Meet, CmKernel, Wire, Device, setupVars
<1>9. ASSUME UNCHANGED vars PROVE Claim BY <1>1, <1>9 DEF vars, setupVars
<1> HIDE DEF Claim
<1>10. Claim BY <1>1, <1>3, <1>4, <1>5, <1>6, <1>7, <1>8, <1>9 DEF Next
<1> QED BY <1>10 DEF Claim

\* A loop that posts is one of a side that may send.
LEMMA SendersPost ==
  ASSUME LoopInv, NEW s \in Sides
  PROVE  /\ at[s] \in {"bw_post", "inf_post", "bi_post", "bws_credit", "infs_credit", "bi_credit"} => MaySend(s)
         /\ at[s] \in {"lat_write", "lat_send_post", "lat", "burst", "burst_serve"} => MaySend(s)
<1>1. PlaceOK(s) /\ (s = "client" => MaySend(s)) BY SideIs DEF MaySend, Sends
<1>2. at[s] \in Crediting => MaySend(s) BY <1>1 DEF PlaceOK, MaySend
<1>3. at[s] = "bw_post" => MaySend(s) BY <1>1 DEF PlaceOK, MaySend, Sends, BothWays, Sides
<1>4. at[s] \in {"inf_post", "lat", "burst"} => MaySend(s) BY <1>1 DEF PlaceOK, Sides
<1>5. at[s] = "bi_post" => MaySend(s)
  <2> SUFFICES ASSUME at[s] = "bi_post" PROVE opt.duplex BY DEF MaySend, Sends, BothWays
  <2>1. Loop = "bi" BY <1>1, PlaceTells
  <2> QED BY <2>1 DEF Loop
<1>6. at[s] \in {"lat_write", "lat_send_post"} => MaySend(s)
  <2> SUFFICES ASSUME at[s] \in {"lat_write", "lat_send_post"} PROVE opt.tst = "LAT"
    BY DEF MaySend, Sends, BothWays
  <2>1. Loop \in {"lat_write", "lat_send"} BY <1>1, PlaceTells DEF PlacesOf
  <2> QED BY <2>1 DEF Loop
<1>7. at[s] = "burst_serve" => MaySend(s)
  <2> SUFFICES ASSUME at[s] = "burst_serve" PROVE Loop = "burst" BY DEF MaySend
  <2> QED BY <1>1, PlaceTells DEF PlacesOf
<1> QED BY <1>2, <1>3, <1>4, <1>5, <1>6, <1>7 DEF Crediting

\* What a loop of s may do to the send queues.
PostsOwn(s) == sq' = sq \/ (MaySend(s) /\ \E q, w : sq' = [sq EXCEPT ![s][q] = w])

LEMMA BwPosts == ASSUME LoopInv, NEW s \in Sides, BwStep(s) PROVE PostsOwn(s)
<1>1. CASE BwPost(s) \/ InfinitePost(s) \/ BiPost(s)
  <2>1. MaySend(s) BY <1>1, SendersPost DEF BwPost, InfinitePost, BiPost
  <2>2. sq' = sq \/ PostNext(s, run[s].index) BY <1>1 DEF BwPost, InfinitePost, BiPost
  <2>3. PostNext(s, run[s].index) => \E q, w : sq' = [sq EXCEPT ![s][q] = w] BY DEF PostNext
  <2> QED BY <2>1, <2>2, <2>3 DEF PostsOwn
<1>2. CASE BwPoll(s) \/ InfinitePoll(s) \/ BiPoll(s)
  BY <1>2 DEF BwPoll, InfinitePoll, BiPoll, PostsOwn
<1>3. CASE BwServerReceive(s) \/ BiReceive(s) \/ InfiniteReceive(s)
  BY <1>3 DEF BwServerReceive, BiReceive, InfiniteReceive, PostsOwn
<1>4. CASE BwServerCredit(s) \/ InfiniteCredit(s) \/ BiCredit(s)
  <2>1. MaySend(s) BY <1>4, SendersPost DEF BwServerCredit, InfiniteCredit, BiCredit
  <2>2. sq' = sq \/ \E q, w : sq' = [sq EXCEPT ![s][q] = w]
    BY <1>4 DEF BwServerCredit, InfiniteCredit, BiCredit
  <2> QED BY <2>1, <2>2 DEF PostsOwn
<1>5. CASE BwServerEnd(s) \/ CleanCredit(s) BY <1>5 DEF BwServerEnd, CleanCredit, PostsOwn
<1> QED BY <1>1, <1>2, <1>3, <1>4, <1>5 DEF BwStep

LEMMA LatPosts == ASSUME LoopInv, NEW s \in Sides, LatStep(s) PROVE PostsOwn(s)
<1>1. CASE LatWritePoll(s) \/ LatPoll(s) \/ LatSendReceive(s) \/ LatSendPoll(s) \/ BurstServePoll(s) \/ BurstPoll(s)
  BY <1>1 DEF LatWritePoll, LatPoll, LatSendReceive, LatSendPoll, BurstServePoll, BurstPoll, PostsOwn
<1>2. CASE LatWriteRound(s) \/ LatPost(s) \/ LatSendPost(s)
  <2>1. MaySend(s) BY <1>2, SendersPost DEF LatWriteRound, LatPost, LatSendPost
  <2>2. sq' = sq \/ \E k, w : sq' = Append0(s, k, w) BY <1>2 DEF LatWriteRound, LatPost, LatSendPost
  <2>3. ASSUME NEW k, NEW w, sq' = Append0(s, k, w) PROVE \E q, x : sq' = [sq EXCEPT ![s][q] = x]
    BY <2>3 DEF Append0
  <2> QED BY <2>1, <2>2, <2>3 DEF PostsOwn
<1>3. CASE BurstServe(s) \/ BurstPost(s)
  <2>1. MaySend(s) BY <1>3, SendersPost DEF BurstServe, BurstPost
  <2>2. sq' = sq \/ \E k : sq' = PostLists(s, k) BY <1>3 DEF BurstServe, BurstPost
  <2>3. ASSUME NEW k, sq' = PostLists(s, k) PROVE \E q, x : sq' = [sq EXCEPT ![s][q] = x]
    BY <2>3 DEF PostLists
  <2> QED BY <2>1, <2>2, <2>3 DEF PostsOwn
<1> QED BY <1>1, <1>2, <1>3 DEF LatStep

\* The queues of a side that does not send stay empty.
LEMMA SilentKept ==
  ASSUME LoopInv, [Next]_vars, NEW s \in Sides, ~MaySend(s), \A q \in Ids : sq[s][q] = <<>>
  PROVE  \A q \in Ids : sq'[s][q] = <<>>
<1> DEFINE Claim == \A q \in Ids : sq'[s][q] = <<>>
<1>0. DOMAIN sq = Sides /\ \A t \in Sides : sq[t] \in [Ids -> Seq(Requests)]
  BY SideIs DEF LoopInv, Domains, SideOK, SendsOK
<1>1. ASSUME sq' = sq PROVE Claim BY <1>1
<1>2. ASSUME NEW t \in Sides, Work(t) PROVE Claim
  <2>1. PostsOwn(t) BY <1>2, BwPosts, LatPosts DEF Work
  <2>2. CASE t = s BY <1>1, <2>1, <2>2 DEF PostsOwn
  <2>3. CASE t # s
    <3>1. sq'[s] = sq[s] BY <1>0, <2>1, <2>3 DEF PostsOwn
    <3> QED BY <3>1
  <2> QED BY <2>2, <2>3
<1>3. ASSUME NEW t \in Sides, NEW q \in Ids, Device(t, q) PROVE Claim
  <2>1. sq[t][q] # <<>> /\ sq' = [sq EXCEPT ![t][q] = Tail(@)] BY <1>3 DEF Device, Serve
  <2>2. t # s BY <2>1
  <2>3. sq'[s] = sq[s] BY <1>0, <2>1, <2>2
  <2> QED BY <2>3
<1>4. ASSUME NEW t \in Sides, Program(t), ~Work(t) PROVE sq' = sq
  <2>1. CASE Begin(t) BY <2>1 DEF Begin
  <2>2. CASE Ready(t) BY <2>2 DEF Ready, Prepare
  <2> QED BY <1>4, <2>1, <2>2 DEF Program, Talk, CmAllocate, CmEnter, CmHandler, CmLeave, Initialize, Credit, Pair,
     Over, Disconnects, Destroys, Ends, queueVars
<1>5. ASSUME NEW t \in Sides, Crash(t) \/ CmGone(t) \/ Interrupt(t) PROVE sq' = sq
  BY <1>5 DEF Crash, CmGone, Interrupt, Alarm, CheckAlive, SendError, queueVars
<1>6. ASSUME Meet \/ CmKernel \/ Wire PROVE sq' = sq BY <1>6 DEF Meet, CmKernel, Wire, queueVars
<1>7. ASSUME UNCHANGED vars PROVE sq' = sq BY <1>7 DEF vars, queueVars
<1> HIDE DEF Claim
<1>8. Claim BY <1>1, <1>2, <1>3, <1>4, <1>5, <1>6, <1>7 DEF Next, Network
<1> QED BY <1>8 DEF Claim

\* Where a step takes a side that has a place of its own for what changes.
LEMMA StageKept ==
  ASSUME IInv, LoopInv, ReadyInv, [Next]_vars
  PROVE  ReadyInv'
<1>0. /\ Types /\ opt' = opt /\ Script' = Script /\ N' = N /\ PairAt' = PairAt
      /\ Loop' = Loop /\ Qps' = Qps /\ DOMAIN qpState = Sides /\ Qps \subseteq Ids
  <2>1. opt' = opt BY CmSteps
  <2>2. Loop' = Loop /\ Qps' = Qps BY <2>1, LoopStays
  <2>3. OptOK BY DEF LoopInv
  <2> QED BY <2>1, <2>2, <2>3, PlacesStay, IdsAre DEF IInv, ReadyInv
<1>1. \A s \in Sides : (MaySend(s)' <=> MaySend(s)) /\ ReadyState(s)' = ReadyState(s)
  BY <1>0 DEF MaySend, ReadyState, Sends, BothWays
<1>2. /\ N \in Nat /\ PairAt \in 1..N
      /\ \A p \in 1..N : /\ Script[p][1] = "prepare" <=> p = PairAt + 1
                         /\ Script[p][1] = "traffic" <=> p = PairAt + 3
                         /\ Script[p][1] \in {"cm", "init"} => p < PairAt
      /\ opt.work_rdma_cm => /\ 8 \in 1..N /\ Script[8][1] = "cm"
                             /\ \A p \in 1..N : Script[p][1] # "init"
  BY <1>0, Places
<1>3. ASSUME NEW s \in Sides PROVE StageInv(s)'
  <2>0. StageInv(s) /\ Pos(s) \in Int /\ Pos(s)' \in Int
    <3>1. Pos(s) \in Int BY EffIs DEF IInv
    <3>2. Pos(s)' \in Int BY <3>1, Moves
    <3> QED BY <3>1, <3>2 DEF ReadyInv
  <2>1. \/ Pos(s)' = Pos(s)
        \/ Goes(s) /\ Pos(s)' = Pos(s) + 1
    BY Moves
  <2>2. /\ (at[s] = "idle" <=> Pos(s) <= PairAt + 1)'
        /\ (at[s] \notin {"idle", "ready"} => PairAt + 3 <= Pos(s))'
    <3>1. CASE at'[s] = at[s]
      <4>1. CASE Pos(s)' = Pos(s) BY <1>0, <2>0, <3>1, <4>1 DEF StageInv
      <4>2. CASE Goes(s) /\ Pos(s)' = Pos(s) + 1
        <5>1. Pos(s) # PairAt + 1
          <6> SUFFICES ASSUME Pos(s) = PairAt + 1 PROVE FALSE OBVIOUS
          <6>1. PairAt + 1 \in 1..N BY <1>0, Places
          <6>2. Ready(s) BY <1>2, <4>2, <6>1 DEF Goes
          <6>3. at[s] = "idle" /\ at'[s] = "ready" BY <6>2 DEF Ready, Prepare, LoopInv, Domains
          <6> QED BY <3>1, <6>3
        <5> QED BY <1>0, <1>2, <2>0, <3>1, <4>2, <5>1 DEF StageInv
      <4> QED BY <2>1, <4>1, <4>2
    <3>2. CASE Ready(s) /\ at[s] = "idle" /\ at'[s] = "ready"
      <4>1. IsAt(s, "prepare") /\ Advance(s) BY <3>2 DEF Ready, Now
      <4>2. left[s] # <<>> /\ Pos(s) \in 1..N /\ Pos(s) = PairAt + 1 BY <1>2, <4>1, AtIs
      <4>3. Pos(s)' = Pos(s) + 1 BY <1>0, <4>1, <4>2, ForwardLeft DEF IInv, SideInv
      <4> QED BY <1>0, <1>2, <2>0, <3>2, <4>2, <4>3
    <3>3. CASE IsAt(s, "traffic") /\ at'[s] # "idle"
      <4>1. Pos(s) = PairAt + 3 BY <1>2, <3>3, AtIs
      <4> QED BY <1>0, <1>2, <2>0, <2>1, <3>3, <4>1
    <3> QED BY <3>1, <3>2, <3>3, PlaceMoves
  <2>3. qpState'[s] = qpState[s] \/ Initialize(s) \/ CmLeave(s) \/ (Pair(s) /\ ~opt.work_rdma_cm)
    BY <1>0, StateMoves
  <2>4. Initialize(s) => Pos(s) < PairAt /\ ~opt.work_rdma_cm
    <3>1. ASSUME Initialize(s) PROVE Pos(s) \in 1..N /\ Script[Pos(s)][1] = "init"
      BY <3>1, AtIs DEF Initialize, Now
    <3> QED BY <1>2, <3>1
  <2>5. CmLeave(s) => Pos(s) < PairAt
    <3>1. ASSUME CmLeave(s) PROVE Pos(s) \in 1..N /\ Script[Pos(s)][1] = "cm" BY <3>1, AtIs DEF CmLeave, Now
    <3> QED BY <1>2, <3>1
  <2>6. ASSUME Through(s)' PROVE \A q \in Qps : qpState'[s][q] = "RTS"
    <3>0. opt.work_rdma_cm /\ 8 < Pos(s)' BY <1>0, <2>6 DEF Through
    <3>1. CASE CmLeave(s)
      <4>1. qpState'[s] = [q \in Ids |-> IF q \in Qps THEN "RTS" ELSE qpState[s][q]]
        BY <1>0, <3>1 DEF CmLeave
      <4> QED BY <1>0, <4>1
    <3>2. CASE ~CmLeave(s)
      <4>1. qpState'[s] = qpState[s] BY <2>3, <2>4, <3>0, <3>2
      <4>2. 8 < Pos(s)
        <5>1. CASE Goes(s) /\ Pos(s)' = Pos(s) + 1
          <6>1. Pos(s) # 8 BY <1>2, <3>0, <3>2, <5>1 DEF Goes
          <6> QED BY <2>0, <3>0, <5>1, <6>1
        <5> QED BY <2>1, <3>0, <5>1
      <4>3. \A q \in Qps : qpState[s][q] = "RTS" BY <2>0, <3>0, <4>2 DEF StageInv, Through
      <4> QED BY <4>1, <4>3
    <3> QED BY <3>1, <3>2
  <2>7. ASSUME ~opt.work_rdma_cm, Paired(s)' PROVE \A q \in Qps : qpState'[s][q] = ReadyState(s)
    <3>0. PairAt < Pos(s)' BY <1>0, <2>7 DEF Paired
    <3>1. CASE Pair(s)
      <4>1. qpState'[s] = [q \in Ids |-> IF q \in Qps THEN ReadyState(s) ELSE qpState[s][q]]
        BY <1>0, <2>7, <3>1 DEF Pair, CtxConnect
      <4> QED BY <1>0, <4>1
    <3>2. CASE ~Pair(s)
      <4>1. PairAt < Pos(s)
        <5>1. CASE Goes(s) /\ Pos(s)' = Pos(s) + 1
          <6>1. Pos(s) # PairAt BY <1>0, <3>2, <5>1, Places DEF Goes
          <6> QED BY <1>2, <2>0, <3>0, <5>1, <6>1
        <5> QED BY <2>1, <3>0, <5>1
      <4>2. qpState'[s] = qpState[s] BY <1>2, <2>0, <2>3, <2>4, <2>5, <3>2, <4>1
      <4>3. \A q \in Qps : qpState[s][q] = ReadyState(s) BY <2>0, <2>7, <4>1 DEF StageInv, Paired
      <4> QED BY <4>2, <4>3
    <3> QED BY <3>1, <3>2
  <2>8. ~MaySend(s) => \A q \in Ids : sq'[s][q] = <<>> BY <2>0, SilentKept DEF StageInv
  <2> QED BY <1>0, <1>1, <2>2, <2>6, <2>7, <2>8 DEF StageInv
<1>4. DOMAIN qpState' = Sides BY <1>0, StateMoves, BothSides
<1> QED BY <1>3, <1>4 DEF ReadyInv

LEMMA StageStarts == ASSUME Init PROVE ReadyInv
<1> USE BothSides
<1>1. /\ left = [s \in Sides |-> Script] /\ at = [s \in Sides |-> "idle"]
      /\ sq = [s \in Sides |-> [q \in Ids |-> <<>>]] /\ DOMAIN qpState = Sides
  BY DEF Init, CommInit, QueuesInit, SetupInit
<1>2. Types BY AtTheStart DEF IInv
<1>3. N \in Nat /\ PairAt \in 1..N BY <1>2, Places
<1>4. \A s \in Sides : Pos(s) = 1
  <2>1. \A s \in Sides : Len(left[s]) = N BY <1>1 DEF N
  <2>2. N + 1 - N = 1 BY <1>3
  <2> QED BY <2>1, <2>2 DEF Pos
<1>5. ~(8 < 1) /\ ~(PairAt < 1) /\ 1 <= PairAt + 1 BY <1>3
<1> QED BY <1>1, <1>4, <1>5 DEF ReadyInv, StageInv, Through, Paired

LEMMA ReadyThen ==
  ASSUME IInv, CmInv, PairInv, LoopInv, RefusedInv, ReadyInv
  PROVE  ReadyBeforeTraffic
<1> USE BothSides
<1> SUFFICES ASSUME NEW s \in Sides, NEW q \in Ids, sq[s][q] # <<>>
             PROVE  /\ qpState[s][q] = "RTS" \/ Loop = "burst"
                    /\ opt.work_rdma_cm \/ KeysReach => mate[s][q] # None
                    /\ at[Peer(s)] # "idle"
  BY DEF ReadyBeforeTraffic
<1>0. Types /\ N \in Nat /\ PairAt \in 1..N /\ PairAt + 2 \in 1..N /\ Ex(PairAt + 2)
      /\ (opt.work_rdma_cm => 9 < PairAt) /\ Peer(s) \in Sides
  <2>1. Types BY DEF IInv
  <2>2. N \in Nat /\ PairAt \in 1..N /\ PairAt + 3 \in 1..N /\ Ex(PairAt + 2) /\ (opt.work_rdma_cm => 9 < PairAt)
    BY <2>1, Places
  <2>3. PairAt + 2 \in 1..N BY <2>2
  <2> QED BY <2>1, <2>2, <2>3, Two
<1>1. q \in Qps /\ at[s] \notin {"idle", "ready"} BY SideIs DEF SideOK, SendsOK
<1>2. StageInv(s) /\ StageInv(Peer(s)) /\ MateInv(s) /\ MaySend(s)
  BY <1>0 DEF ReadyInv, StageInv, PairInv
<1>3. PairAt + 3 <= Pos(s) /\ Pos(s) \in Int /\ Pos(Peer(s)) \in Int
  BY <1>0, <1>1, <1>2, EffIs DEF StageInv, IInv
<1>4. Paired(s) /\ (opt.work_rdma_cm => Through(s)) BY <1>0, <1>3 DEF Paired, Through
<1>5. at[Peer(s)] # "idle"
  <2>1. PairAt + 2 < Pos(s) BY <1>0, <1>3
  <2>2. PairAt + 2 <= Pos(Peer(s)) BY <1>0, <2>1, Barrier
  <2>3. ~(Pos(Peer(s)) <= PairAt + 1) BY <1>0, <1>3, <2>2
  <2> QED BY <1>2, <2>3 DEF StageInv
<1>6. /\ opt.send_rcredit => opt.work_rdma_cm /\ ~IsUd
      /\ Loop = "burst" => ~opt.work_rdma_cm
  <2>1. OptOK /\ ~opt.refused BY <1>1 DEF LoopInv, RefusedInv
  <2>2. Loop = "burst" => opt.tst = "LAT_BY_BW" BY DEF Loop
  <2> QED BY <2>1, <2>2 DEF OptOK, IsUd
<1>7. qpState[s][q] = "RTS" \/ Loop = "burst"
  <2>1. CASE opt.work_rdma_cm BY <1>1, <1>2, <1>4, <2>1 DEF StageInv
  <2>2. CASE ~opt.work_rdma_cm
    <3>1. qpState[s][q] = ReadyState(s) BY <1>1, <1>2, <1>4, <2>2 DEF StageInv
    <3> QED BY <1>2, <1>6, <2>2, <3>1 DEF MaySend, ReadyState
  <2> QED BY <2>1, <2>2
<1>8. ASSUME opt.work_rdma_cm \/ KeysReach PROVE mate[s][q] # None
  <2>1. Qps \subseteq Ids /\ \A i \in Ids : i # None BY QpsAre, OptionsAssumption DEF CmInv, Ids
  <2>2. CASE ~opt.work_rdma_cm BY <1>1, <1>2, <1>4, <1>8, <2>1, <2>2 DEF MateInv
  <2>3. CASE opt.work_rdma_cm /\ ~IsUd BY <1>1, <1>2, <1>4, <2>1, <2>3 DEF MateInv
  <2>4. CASE opt.work_rdma_cm /\ IsUd
    <3>1. Sends(s) BY <1>2, <1>6, <2>4 DEF MaySend
    <3>2. {mate[s][p] : p \in Qps} = Qps BY <1>2, <1>4, <2>4, <3>1 DEF MateInv
    <3> QED BY <1>1, <2>1, <3>2
  <2> QED BY <2>2, <2>3, <2>4
<1> QED BY <1>5, <1>7, <1>8

\* A request is only posted on a queue pair that is ready to send and, where keys
\* arrive or connections pair, knows its partner, to a peer that has prepared its queues, for any number of queue pairs
\* and however the two sides are connected.
THEOREM ReadyBeforeTrafficAlways == Spec => []ReadyBeforeTraffic
<1> DEFINE All == IInv /\ LoopInv /\ ReadyInv
<1>1. Init => All BY AtTheStart, LoopAtStart, StageStarts
<1>2. All /\ [Next]_vars => All'
  <2>1. LoopInv /\ [Next]_vars => LoopInv' BY LoopNextKept, LoopStill DEF vars, queueVars
  <2> QED BY <2>1, NextKept, StageKept
<1>3. IInv /\ CmInv /\ PairInv /\ LoopInv /\ RefusedInv /\ ReadyInv => ReadyBeforeTraffic BY ReadyThen
<1>4. RefusedInv /\ [Next]_vars => RefusedInv' BY RefusedKept
<1>5. Init => RefusedInv BY RefusedAtStart
<1> QED BY <1>1, <1>2, <1>3, <1>4, <1>5, ConnectionsStand, PairsStand, PTL DEF Spec

LEMMA MatedThen ==
  ASSUME IInv, PairInv, LoopInv, RefusedInv, ReadyInv
  PROVE  Mated
<1> USE BothSides
<1> SUFFICES ASSUME Credited, NEW s \in Sides, sq[s][0] # <<>> PROVE mate[s][0] = 0 BY DEF Mated
<1>1. /\ N \in Nat /\ PairAt \in 1..N /\ PairAt + 3 \in 1..N /\ (opt.work_rdma_cm => 9 < PairAt)
      /\ Types /\ Peer(s) \in Sides
  BY Places, Two DEF IInv
<1>2. at[s] \notin {"idle", "ready"} BY SideIs, CreditedIs DEF SideOK, SendsOK
<1>3. StageInv(s) /\ MateInv(s) BY DEF ReadyInv, PairInv
<1>4. PairAt + 3 <= Pos(s) /\ Pos(s) \in Int BY <1>1, <1>2, <1>3, EffIs DEF StageInv, IInv
<1>5. Paired(s) BY <1>1, <1>4 DEF Paired
<1>6. opt.work_rdma_cm /\ ~IsUd
  <2>1. OptOK /\ ~opt.refused BY <1>2 DEF LoopInv, RefusedInv
  <2>2. opt.send_rcredit /\ opt.connection_type = "RC" BY CreditedIs DEF Credited
  <2> QED BY <2>1, <2>2 DEF OptOK, IsUd
<1>7. mate[s][0] \in Qps BY <1>3, <1>5, <1>6, CreditedIs DEF MateInv
<1> QED BY <1>7, CreditedIs

\* With credits a message never finds its receiver without a receive, whatever
\* the depth of the queue, the list and the iterations: the sender waits in time,
\* although what it is told of the receiver is old and may be overtaken.
THEOREM CreditsSuffice == Spec => [](Credited => NoReceiveMissing)
<1> DEFINE Ready0 == \A s \in Sides : sq[s][0] # <<>> => at[Peer(s)] # "idle"
           All == IInv /\ CmInv /\ PairInv /\ LoopInv /\ RefusedInv /\ ReadyInv
           Facts == LoopInv /\ Mated /\ (Credited => Ready0)
<1>1. Spec => []All
  <2>1. Init => IInv /\ LoopInv /\ ReadyInv BY AtTheStart, LoopAtStart, StageStarts
  <2>2. LoopInv /\ [Next]_vars => LoopInv' BY LoopNextKept, LoopStill DEF vars, queueVars
  <2>3. IInv /\ LoopInv /\ ReadyInv /\ [Next]_vars => (IInv /\ LoopInv /\ ReadyInv)' BY <2>2, NextKept, StageKept
  <2>4. RefusedInv /\ [Next]_vars => RefusedInv' BY RefusedKept
  <2>5. Init => RefusedInv BY RefusedAtStart
  <2> QED BY <2>1, <2>3, <2>4, <2>5, ConnectionsStand, PairsStand, PTL DEF Spec
<1>2. All => Facts
  <2> SUFFICES ASSUME All PROVE Facts OBVIOUS
  <2>1. ReadyBeforeTraffic BY ReadyThen
  <2>2. Mated BY MatedThen
  <2>3. Credited => Ready0 BY <2>1, CreditedIs DEF ReadyBeforeTraffic
  <2> QED BY <2>2, <2>3
<1>3. Init => FlowInv BY FlowAtStart
<1>4. FlowInv /\ Facts /\ [Next]_vars => FlowInv' BY FlowNextKept
<1>5. FlowInv /\ Facts => (Credited => NoReceiveMissing) BY FlowMeans
<1> HIDE DEF All, Facts
<1> QED BY <1>1, <1>2, <1>3, <1>4, <1>5, PTL DEF Spec

(***************************************************************************)
(* The types: what the invariants do not say of comm, mate and result.     *)
(***************************************************************************)
Phases == Outside \cup {"open", "closed", "failed"}
Results == {"none", "clean", "failed", "undefined"}
Whole(f) == f = [s \in Sides |-> f[s]]
TypeRest ==
  /\ comm \in [Sides -> Phases]
  /\ mate \in [Sides -> [Ids -> Ids \cup {None}]]
  /\ result \in [Sides -> Results]
  /\ Whole(rq) /\ Whole(rcq) /\ Whole(word)

\* A side may be in any phase of the channel next, but in no other.
Phased == comm' = comm \/ \E s \in Sides, c \in Phases : comm' = [comm EXCEPT ![s] = c]

LEMMA MeetPhased == ASSUME comm \in [Sides -> Phases], Establish PROVE comm' \in [Sides -> Phases]
<1> USE BothSides
<1>1. CASE Listen BY <1>1 DEF Listen, Phases, Outside
<1>2. CASE TcpConnect BY <1>2 DEF TcpConnect, Exit, Close, Phases, Outside, Sides
<1>3. CASE TcpAccept BY <1>3 DEF TcpAccept, Phases, Outside
<1>4. CASE RdmaResolve
  <2>1. \E c \in Phases : comm' = [comm EXCEPT !["client"] = c] BY <1>4 DEF RdmaResolve, Phases, Outside
  <2> QED BY <2>1
<1>5. CASE RdmaRefused BY <1>5 DEF RdmaRefused, Exit, Close, Phases
<1>6. CASE RdmaAccept BY <1>6 DEF RdmaAccept, Phases, Outside, Sides
<1>7. CASE RdmaEstablished BY <1>7 DEF RdmaEstablished, Phases
<1> QED BY <1>1, <1>2, <1>3, <1>4, <1>5, <1>6, <1>7 DEF Establish

LEMMA TalkPhased == ASSUME NEW s \in Sides, Exchange(s) PROVE Phased
<1>1. ASSUME Exit(s) PROVE Phased BY <1>1 DEF Exit, Close, Phased, Phases
<1>2. CASE TcpWrite(s) BY <1>1, <1>2 DEF TcpWrite, Phased
<1>3. CASE TcpRead(s) BY <1>1, <1>3 DEF TcpRead, Phased
<1>4. CASE TcpDone(s) BY <1>1, <1>4 DEF TcpDone, Close, Phased, Phases
<1>5. CASE RdmaPost(s) BY <1>1, <1>5 DEF RdmaPost, Phased
<1>6. CASE RdmaWritten(s) BY <1>1, <1>6 DEF RdmaWritten, Close, Phased, Phases
<1>7. CASE RdmaRead(s) BY <1>1, <1>7 DEF RdmaRead, Phased
<1> QED BY <1>2, <1>3, <1>4, <1>5, <1>6, <1>7 DEF Exchange

LEMMA PhasesKept == ASSUME comm \in [Sides -> Phases], [Next]_vars PROVE comm' \in [Sides -> Phases]
<1> DEFINE Claim == comm' \in [Sides -> Phases]
<1>1. ASSUME Phased PROVE Claim BY <1>1 DEF Phased
<1>2. ASSUME comm' = comm PROVE Claim BY <1>2
<1>3. ASSUME NEW s \in Sides, Exit(s) PROVE Claim BY <1>3 DEF Exit, Close, Phases
<1>4. ASSUME Meet PROVE Claim BY <1>4, MeetPhased DEF Meet
<1> HIDE DEF Claim
<1>5. ASSUME NEW s \in Sides, Program(s) PROVE Claim
  <2>1. CASE Talk(s) BY <1>1, <2>1, TalkPhased DEF Talk
  <2>2. CASE Ends(s) BY <1>3, <2>2 DEF Ends
  <2>3. CASE CmAllocate(s) \/ CmEnter(s) \/ CmHandler(s) \/ CmLeave(s) \/ Initialize(s) \/ Credit(s) \/ Pair(s)
    BY <1>2, <2>3 DEF CmAllocate, CmEnter, CmHandler, CmLeave, Initialize, Credit, Pair, commVars, exchanging
  <2>4. CASE Ready(s) \/ Begin(s) \/ Work(s) \/ Over(s) \/ Disconnects(s) \/ Destroys(s)
    BY <1>2, <2>4 DEF Ready, Begin, Work, Over, Disconnects, Destroys, commVars, exchanging
  <2> QED BY <1>5, <2>1, <2>2, <2>3, <2>4 DEF Program
<1>6. ASSUME NEW s \in Sides, Crash(s) PROVE Claim BY <1>3, <1>6 DEF Crash
<1>7. ASSUME NEW s \in Sides, CmGone(s) \/ Interrupt(s) PROVE Claim BY <1>2, <1>7 DEF CmGone, Interrupt, commVars
<1>8. ASSUME Network, ~Meet PROVE Claim BY <1>2, <1>8 DEF Network, CmKernel, Wire, RdmaDeliver, Device, commVars
<1>9. ASSUME UNCHANGED vars PROVE Claim BY <1>2, <1>9 DEF vars, commVars
<1>10. Claim BY <1>4, <1>5, <1>6, <1>7, <1>8, <1>9 DEF Next
<1> QED BY <1>10 DEF Claim

\* Only giving everything back has a result.
LEMMA ResultMoves == ASSUME [Next]_vars, result \in [Sides -> Results] PROVE result' \in [Sides -> Results]
<1> DEFINE Claim == result' \in [Sides -> Results]
<1>1. ASSUME result' = result PROVE Claim BY <1>1
<1>2. ASSUME NEW s \in Sides, Destroys(s) PROVE Claim
  <2> DEFINE x == CASE \E n \in DOMAIN Releases(s) : Undefined(s, n) -> "undefined"
                    [] \E n \in DOMAIN Releases(s) : InUse(s, n) -> "failed"
                    [] OTHER -> "clean"
  <2>1. result' = [result EXCEPT ![s] = x] BY <1>2 DEF Destroys, DestroyCtx
  <2>2. x \in Results
    <3>1. ASSUME NEW A \in BOOLEAN, NEW B \in BOOLEAN
          PROVE  (CASE A -> "undefined" [] B -> "failed" [] OTHER -> "clean") \in Results
      BY DEF Results
    <3> QED BY <3>1
  <2> HIDE DEF x
  <2> QED BY <2>1, <2>2
<1> HIDE DEF Claim
<1>3. ASSUME NEW s \in Sides, Program(s), ~Destroys(s) PROVE Claim
  <2>1. CASE Talk(s) \/ CmAllocate(s) \/ CmEnter(s) \/ CmHandler(s) \/ CmLeave(s) \/ Disconnects(s) \/ Ends(s)
    BY <1>1, <2>1 DEF Talk, CmAllocate, CmEnter, CmHandler, CmLeave, Disconnects, Ends, setupVars
  <2>2. CASE Initialize(s) \/ Credit(s) \/ Pair(s)
    BY <1>1, <2>2 DEF Initialize, CtxInit, Credit, AllocCredit, Pair, CtxConnect, setupVars
  <2>3. CASE Ready(s) \/ Begin(s) \/ Work(s) \/ Over(s)
    BY <1>1, <2>3 DEF Ready, Begin, Work, Over, setupVars
  <2> QED BY <1>3, <2>1, <2>2, <2>3 DEF Program
<1>4. ASSUME NEW s \in Sides, Crash(s) \/ CmGone(s) \/ Interrupt(s) PROVE Claim
  BY <1>1, <1>4 DEF Crash, CmGone, Interrupt, setupVars
<1>5. ASSUME Network PROVE Claim BY <1>1, <1>5 DEF Network, Meet, CmKernel, Wire, Device, setupVars
<1>6. ASSUME UNCHANGED vars PROVE Claim BY <1>1, <1>6 DEF vars, setupVars
<1>7. Claim BY <1>2, <1>3, <1>4, <1>5, <1>6 DEF Next
<1> QED BY <1>7 DEF Claim

LEMMA MatesKept ==
  ASSUME IInv, CmInv, KeysInv, TablesInv, [Next]_vars, mate \in [Sides -> [Ids -> Ids \cup {None}]]
  PROVE  mate' \in [Sides -> [Ids -> Ids \cup {None}]]
<1>1. opt' = opt BY CmSteps
<1>2. DOMAIN mate = Sides /\ Qps \subseteq Ids BY QpsAre DEF CmInv
<1>3. ASSUME NEW s \in Sides, Pair(s) PROVE mate'[s] \in [Ids -> Ids \cup {None}]
  <2>1. mate' = [mate EXCEPT ![s] = [q \in Ids |-> IF q \in Qps THEN Partner(s, q) ELSE None]] BY <1>3 DEF Pair
  <2>2. \A q \in Ids : mate'[s][q] = IF q \in Qps THEN Partner(s, q) ELSE None BY <1>2, <2>1
  <2>3. ASSUME NEW q \in Qps PROVE Partner(s, q) \in Ids \cup {None}
    <3>1. CASE ~opt.work_rdma_cm
      <4>1. mate'[s][q] = IF KeysReach THEN q ELSE None BY <1>1, <1>2, <1>3, <3>1, PairsThem
      <4> QED BY <1>2, <2>2, <4>1
    <3>2. CASE opt.work_rdma_cm
      <4>1. \A id : IndexOf(Peer(s), id) \in Ids \cup {None} BY DEF IndexOf
      <4> QED BY <3>2, <4>1 DEF Partner
    <3> QED BY <3>1, <3>2
  <2>4. \A q \in Ids : (IF q \in Qps THEN Partner(s, q) ELSE None) \in Ids \cup {None} BY <2>3
  <2>5. mate'[s] = [q \in Ids |-> IF q \in Qps THEN Partner(s, q) ELSE None] BY <1>2, <2>1
  <2> QED BY <2>4, <2>5
<1>4. ASSUME NEW s \in Sides, Pair(s) PROVE mate' \in [Sides -> [Ids -> Ids \cup {None}]]
  <2>1. PICK x : mate' = [mate EXCEPT ![s] = x] BY <1>4 DEF Pair
  <2>2. mate'[s] = x BY <1>2, <2>1
  <2>3. x \in [Ids -> Ids \cup {None}] BY <1>3, <1>4, <2>2
  <2> QED BY <2>1, <2>3
<1> QED BY <1>2, <1>4, MateMoves, BothSides

\* What is left of the script is its end.
LEMMA EndOf ==
  ASSUME NEW S, NEW q \in Seq(S), NEW r \in Seq(S), Len(q) <= Len(r),
         \A k \in 1..Len(q) : q[k] = r[Len(r) - Len(q) + k]
  PROVE  IsSuffix(q, r)
<1>1. PICK n \in Nat : n = Len(q) OBVIOUS
<1>2. PICK m \in Nat : m = Len(r) /\ n <= m BY <1>1
<1>3. ASSUME NEW p \in Seq(S), NEW l \in Nat, l = Len(p)
      PROVE  Reverse(p) \in Seq(S) /\ Len(Reverse(p)) = l /\ \A i \in 1..l : Reverse(p)[i] = p[l - i + 1]
  <2>1. \A i \in 1..l : l - i + 1 \in 1..l /\ p[l - i + 1] \in S
    <3>1. \A i \in 1..l : l - i + 1 \in 1..l OBVIOUS
    <3> QED BY <1>3, <3>1, ElementOfSeq
  <2>2. Reverse(p) = [i \in 1..l |-> p[l - i + 1]] BY <1>3 DEF Reverse
  <2> HIDE <1>3
  <2>3. [i \in 1..l |-> p[l - i + 1]] \in Seq(S) BY <2>1
  <2>4. Len([i \in 1..l |-> p[l - i + 1]]) = l BY <2>3
  <2> QED BY <2>2, <2>3, <2>4
<1> DEFINE Q == Reverse(q)  R == Reverse(r)
<1>4. Q \in Seq(S) /\ Len(Q) = n /\ \A i \in 1..n : Q[i] = q[n - i + 1] BY <1>1, <1>3
<1>5. R \in Seq(S) /\ Len(R) = m /\ \A i \in 1..m : R[i] = r[m - i + 1] BY <1>2, <1>3
<1>6. ASSUME NEW i \in 1..n PROVE Q[i] = R[i]
  <2>1. n - i + 1 \in 1..n /\ m - n + (n - i + 1) = m - i + 1 /\ i \in 1..m BY <1>2
  <2>2. q[n - i + 1] = r[m - n + (n - i + 1)] BY <1>1, <1>2, <2>1
  <2> QED BY <1>4, <1>5, <2>1, <2>2
<1> HIDE DEF Q, R
<1>7. \A i \in 1..n : 1 + i - 1 = i OBVIOUS
<1>8. SubSeq(Q, 1, n) = SubSeq(R, 1, n)
  <2>1. SubSeq(Q, 1, n) = [i \in 1..n |-> Q[i]] BY <1>2, <1>4
  <2>2. SubSeq(R, 1, n) = [i \in 1..n |-> R[i]] BY <1>2, <1>5
  <2> QED BY <1>6, <2>1, <2>2
<1> QED BY <1>2, <1>4, <1>5, <1>8 DEF IsSuffix, IsPrefix, Q, R

\* The queues of a side are altered one side at a time.
Altered(f, g) == g = f \/ \E s \in Sides : \E w : g = [f EXCEPT ![s] = w]
Rewritten == Altered(rq, rq') /\ Altered(rcq, rcq') /\ Altered(word, word')

LEMMA AlteredOne == ASSUME NEW f, NEW s \in Sides, NEW q, NEW x PROVE Altered(f, [f EXCEPT ![s][q] = x])
<1>1. [f EXCEPT ![s][q] = x] = [f EXCEPT ![s] = [f[s] EXCEPT ![q] = x]] OBVIOUS
<1> QED BY <1>1 DEF Altered

LEMMA StaysWhole == ASSUME NEW f, NEW g, Whole(f), Altered(f, g) PROVE Whole(g)
<1>1. CASE g = f BY <1>1
<1>2. ASSUME NEW s \in Sides, NEW w, g = [f EXCEPT ![s] = w] PROVE Whole(g)
  <2>1. DOMAIN f = Sides BY DEF Whole
  <2>2. g = [t \in Sides |-> IF t = s THEN w ELSE f[t]] BY <1>2, <2>1
  <2> QED BY <2>2 DEF Whole
<1> QED BY <1>1, <1>2 DEF Altered

LEMMA BwRewrites == ASSUME NEW s \in Sides, BwStep(s) PROVE Rewritten
<1> USE AlteredOne DEF Rewritten
<1>0. \A f : Altered(f, f) BY DEF Altered
<1>1. CASE BwPost(s) \/ InfinitePost(s) \/ BiPost(s)
  BY <1>0, <1>1 DEF BwPost, InfinitePost, BiPost, PostNext
<1>2. CASE BwPoll(s) \/ InfinitePoll(s) \/ BiPoll(s)
  BY <1>0, <1>2 DEF BwPoll, InfinitePoll, BiPoll
<1>3. ASSUME NEW q, Received(s, q) PROVE Altered(rq, rq') /\ Altered(rcq, rcq')
  BY <1>0, <1>3 DEF Received
<1>4. CASE BwServerReceive(s) \/ BiReceive(s)
  BY <1>0, <1>3, <1>4 DEF BwServerReceive, BiReceive
<1>5. CASE InfiniteReceive(s)
  <2> DEFINE list(q) == IF run[s].unused[q] + 1 >= opt.recv_post_list THEN opt.recv_post_list ELSE 0
  <2>1. PICK q \in Qps : /\ rcq' = [rcq EXCEPT ![s][q] = @ - 1]
                         /\ rq' = [rq EXCEPT ![s][Pool(q)] = @ + list(q)]
                         /\ word' = word
    BY <1>5 DEF InfiniteReceive
  <2>2. rcq' = [rcq EXCEPT ![s][q] = rcq[s][q] - 1] BY <2>1
  <2>3. rq' = [rq EXCEPT ![s][Pool(q)] = rq[s][Pool(q)] + list(q)] BY <2>1
  <2>4. Altered(rcq, rcq') BY <2>2
  <2>5. Altered(rq, rq') BY <2>3
  <2> QED BY <1>0, <2>1, <2>4, <2>5
<1>6. CASE BwServerCredit(s) \/ InfiniteCredit(s) \/ BiCredit(s)
  BY <1>0, <1>6 DEF BwServerCredit, InfiniteCredit, BiCredit
<1>7. CASE BwServerEnd(s) \/ CleanCredit(s) BY <1>0, <1>7 DEF BwServerEnd, CleanCredit
<1> QED BY <1>1, <1>2, <1>4, <1>5, <1>6, <1>7 DEF BwStep

LEMMA LatRewrites == ASSUME NEW s \in Sides, LatStep(s) PROVE Rewritten
<1> USE AlteredOne DEF Rewritten
<1>0. \A f : Altered(f, f) BY DEF Altered
<1>1. CASE LatWritePoll(s) \/ LatPoll(s) \/ LatSendPoll(s) \/ BurstServePoll(s)
  BY <1>0, <1>1 DEF LatWritePoll, LatPoll, LatSendPoll, BurstServePoll
<1>2. CASE LatWriteRound(s) \/ LatPost(s) \/ LatSendPost(s)
  BY <1>0, <1>2 DEF LatWriteRound, LatPost, LatSendPost
<1>3. CASE LatSendReceive(s) BY <1>0, <1>3 DEF LatSendReceive
<1>4. CASE BurstServe(s) BY <1>0, <1>4 DEF BurstServe
<1>5. CASE BurstPost(s) BY <1>0, <1>5 DEF BurstPost
<1>6. CASE BurstPoll(s) BY <1>0, <1>6 DEF BurstPoll
<1> QED BY <1>1, <1>2, <1>3, <1>4, <1>5, <1>6 DEF LatStep

LEMMA Rewrites == ASSUME [Next]_vars PROVE Rewritten
<1> USE AlteredOne
<1>0. \A f : Altered(f, f) BY DEF Altered
<1>1. ASSUME rq' = rq, rcq' = rcq, word' = word PROVE Rewritten BY <1>0, <1>1 DEF Rewritten
<1>2. ASSUME NEW s \in Sides, NEW q \in Ids, Serve(s, q) PROVE Rewritten
  <2>1. Peer(s) \in Sides BY Two
  <2>2. word' = word \/ \E x : word' = [word EXCEPT ![Peer(s)][q] = x] BY <1>2 DEF Serve
  <2>3. rq' = rq \/ \E p, x : rq' = [rq EXCEPT ![Peer(s)][p] = x] BY <1>2 DEF Serve
  <2>4. rcq' = rcq \/ rcq' = [rcq EXCEPT ![Peer(s)][mate[s][q]] = rcq[Peer(s)][mate[s][q]] + 1] BY <1>2 DEF Serve
  <2>5. Altered(word, word') BY <1>0, <2>1, <2>2
  <2>6. Altered(rq, rq') BY <1>0, <2>1, <2>3
  <2>7. Altered(rcq, rcq')
    <3>1. Altered(rcq, [rcq EXCEPT ![Peer(s)][mate[s][q]] = rcq[Peer(s)][mate[s][q]] + 1]) BY <2>1
    <3>2. CASE rcq' = rcq BY <1>0, <3>2
    <3>3. CASE rcq' # rcq
      <4>1. rcq' = [rcq EXCEPT ![Peer(s)][mate[s][q]] = rcq[Peer(s)][mate[s][q]] + 1] BY <2>4, <3>3
      <4> QED BY <3>1, <4>1
    <3> QED BY <3>2, <3>3
  <2> QED BY <2>5, <2>6, <2>7 DEF Rewritten
<1>3. ASSUME NEW s \in Sides, Ready(s) PROVE Rewritten
  BY <1>0, <1>3 DEF Ready, Prepare, Altered, Rewritten
<1>4. ASSUME NEW s \in Sides, Work(s) PROVE Rewritten BY <1>4, BwRewrites, LatRewrites DEF Work
<1>5. ASSUME NEW s \in Sides, Program(s) PROVE Rewritten
  <2>1. CASE Talk(s) \/ CmAllocate(s) \/ CmEnter(s) \/ CmHandler(s) \/ CmLeave(s)
    BY <1>1, <2>1 DEF Talk, CmAllocate, CmEnter, CmHandler, CmLeave, queueVars
  <2>2. CASE Initialize(s) \/ Credit(s) \/ Pair(s) \/ Begin(s)
    BY <1>1, <2>2 DEF Initialize, Credit, Pair, Begin, queueVars
  <2>3. CASE Over(s) \/ Disconnects(s) \/ Destroys(s) \/ Ends(s)
    BY <1>1, <2>3 DEF Over, Disconnects, Destroys, Ends, queueVars
  <2> QED BY <1>3, <1>4, <1>5, <2>1, <2>2, <2>3 DEF Program
<1>6. ASSUME NEW s \in Sides, Interrupt(s) PROVE Rewritten
  BY <1>1, <1>6 DEF Interrupt, Alarm, CheckAlive, SendError
<1>7. ASSUME NEW s \in Sides, Crash(s) \/ CmGone(s) PROVE Rewritten BY <1>1, <1>7 DEF Crash, CmGone, queueVars
<1>8. ASSUME Network PROVE Rewritten BY <1>1, <1>2, <1>8 DEF Network, Meet, CmKernel, Wire, Device, queueVars
<1>9. ASSUME UNCHANGED vars PROVE Rewritten BY <1>1, <1>9 DEF vars, queueVars
<1> QED BY <1>5, <1>6, <1>7, <1>8, <1>9 DEF Next

LEMMA RestKept ==
  ASSUME IInv, CmInv, KeysInv, PairInv, TypeRest, [Next]_vars
  PROVE  TypeRest'
<1>1. Whole(rq)' /\ Whole(rcq)' /\ Whole(word)' BY Rewrites, StaysWhole DEF Rewritten, TypeRest
<1> QED BY <1>1, PhasesKept, MatesKept, ResultMoves DEF TypeRest, PairInv

LEMMA RestStarts == ASSUME Init PROVE TypeRest
BY DEF Init, CommInit, QueuesInit, SetupInit, TypeRest, Phases, Outside, Results, Whole

LEMMA TypesAre == ASSUME IInv, CmInv, LoopInv, TypeRest PROVE TypeOK
<1>1. \A s \in Sides : IsSuffix(left[s], Script)
  <2> SUFFICES ASSUME NEW s \in Sides PROVE IsSuffix(left[s], Script) OBVIOUS
  <2>1. Types /\ LeftInv(s) BY DEF IInv, SideInv
  <2>2. left[s] \in Seq(ItemSet) /\ Script \in Seq(ItemSet) BY <2>1, ScriptFacts DEF Types, ScriptOK
  <2> QED BY <2>1, <2>2, EndOf DEF LeftInv, N
<1>2. qp \in [Sides -> [Ids -> Ids \cup {None}]] BY DEF CmInv, CmTypes
<1>3. rq \in [Sides -> [Ids -> Nat]] /\ rcq \in [Sides -> [Ids -> Nat]] /\ word \in [Sides -> [Ids -> Nat]]
  BY SideIs DEF SideOK, TypeRest, Whole
<1> QED BY <1>1, <1>2, <1>3 DEF TypeOK, TypeRest, Phases, Outside, Results

\* The types hold in every behaviour, for any number of queue pairs and tests.
THEOREM TypesStand == Spec => []TypeOK
<1> DEFINE All == IInv /\ CmInv /\ UdInv /\ KeysInv /\ PairInv /\ LoopInv /\ TypeRest
<1>1. Init => All BY AtTheStart, CmStarts, UdStarts, PairStarts, LoopAtStart, RestStarts
<1>2. All /\ [Next]_vars => All'
  <2>1. LoopInv /\ [Next]_vars => LoopInv' BY LoopNextKept, LoopStill DEF vars, queueVars
  <2> QED BY <2>1, NextKept, CmSteps, CmKept, CmStill, UdKept, KeysKept, PairKept, RestKept
<1>3. All => TypeOK BY TypesAre
<1> QED BY <1>1, <1>2, <1>3, PTL DEF Spec

(***************************************************************************)
(* The orderly end.  Without faults, as long as no request is turned away, *)
(* no side of the channel ends in error but a client that came too early.  *)
(***************************************************************************)
Orderly ==
  ~opt.faults /\ ~opt.refused /\ ~KeysMissed /\ SameGids /\ (NeedsReply => opt.num_of_qps = 1)
\* A request found no listener, for good.
Turned == \E i \in Ids : link[i] = "refused" /\ ~Has(events["server"], Event("connect_request", i))

\* Who finds nobody to join goes no further; nobody else ends in error; and a
\* channel is closed by who is through with it.
EndsInv ==
  /\ \A s \in Sides : comm[s] = "failed" => s = "client" /\ Pos(s) = 1
  /\ \A s \in Sides :
       /\ sent[s] # "error"
       /\ tcp[s] # "open" => comm[Peer(s)] = "closed"
       /\ tcp[s] = "reset" => comm[s] = "closed"
       /\ comm[s] = "closed" => N <= Pos(s) /\ ~opt.use_rdma_cm

\* In the stream of a side waits one whole text, for an exchange it has still to
\* read, or none; and behind it the goodbye of a peer that has closed.
Bye == [item |-> Item("done"), value |-> 0, piece |-> 1]
Span(kind) == IF kind \in HandShakes /\ opt.host["client"].gid THEN 2 ELSE 1
Unread(s) == Len(stream[s]) - (IF comm[Peer(s)] = "closed" THEN 1 ELSE 0)
\* Of q, of which m messages are unread, the first belongs to such a text.
Fits(s, q, m) ==
  \/ m = 0
  \/ /\ q[1].piece = 1
     /\ \E p \in 1..N : Ex(p) /\ Eff(s) <= p /\ q[1].item = Script[p] /\ m = Span(Script[p][1])
StreamIs(s) ==
  /\ comm[Peer(s)] = "closed" => stream[s] # <<>> /\ stream[s][Len(stream[s])] = Bye
  /\ Fits(s, stream[s], Unread(s))
StreamInv == ~opt.use_rdma_cm => \A s \in Sides : comm[s] # "closed" => StreamIs(s)

\* No handler of the manager fails; the client hears of no failure while it
\* connects, and has a queue pair for each of its requests; past the connections
\* a side is out of the handlers.
Beyond == {"used", "disconnecting", "disconnected", "destroyed", "gone"}
Failing == {"failed", "undefined", "retry"}
Troubles == {"addr_error", "route_error", "rejected"}
Calm == \A i \in Ids, k \in Troubles : ~Has(events["client"], Event(k, i))
Equipped == \A i \in Ids : link[i] \in Requested => i \in qpOfId["client"]
HandlersInv ==
  /\ \A s \in Sides : cmPc[s] \notin Failing /\ (Through(s) => cmPc[s] \in Beyond)
  /\ cmPc["client"] = "events" => Calm /\ Equipped
OrderInv ==
  /\ opt.refused => Pos("client") = 1
  /\ Orderly => Turned \/ (EndsInv /\ StreamInv /\ HandlersInv /\ \A s \in Sides : at[s] # "failed")

(***************************************************************************)
(* The manager.                                                            *)
(***************************************************************************)
\* The steps that concern connections, with where the program takes the last.
Guarded ==
  \/ Kernel \/ DatagramLost \/ ClientStep \/ ServerStep
  \/ \E s \in Sides :
       \/ Allocate(s) \/ Enters(s) \/ DisconnectHandler(s) \/ EventsEnd(s) \/ Leaves(s)
       \/ IsAt(s, "destroy") /\ opt.work_rdma_cm /\ (Disconnect(s) \/ DisconnectsEnd(s) \/ Destroy(s))
       \/ ~Alive(s) /\ Vanish(s)
LEMMA GuardedSteps == ASSUME [Next]_vars PROVE Guarded \/ UNCHANGED cmVars
<1> USE DEF cmVars
<1>1. CASE UNCHANGED vars BY <1>1 DEF vars
<1>2. CASE Network
  <2>1. CASE Meet BY <2>1 DEF Meet
  <2>2. CASE CmKernel BY <2>2 DEF CmKernel, Guarded
  <2>3. CASE Wire BY <2>3 DEF Wire
  <2>4. CASE \E s \in Sides, q \in Ids : Device(s, q) BY <2>4 DEF Device
  <2> QED BY <1>2, <2>1, <2>2, <2>3, <2>4 DEF Network
<1>3. ASSUME NEW s \in Sides, Program(s) PROVE Guarded \/ UNCHANGED cmVars
  <2>1. CASE Talk(s) BY <2>1 DEF Talk
  <2>2. CASE CmAllocate(s) BY <2>2 DEF CmAllocate, Guarded
  <2>3. CASE CmEnter(s)
    <3>1. Enters(s) BY <2>3 DEF CmEnter, Enters
    <3> QED BY <3>1 DEF Guarded
  <2>4. CASE CmHandler(s) BY <2>4 DEF CmHandler, Guarded
  <2>5. CASE CmLeave(s)
    <3>1. Leaves(s) BY <2>5 DEF CmLeave, Leaves
    <3> QED BY <3>1 DEF Guarded
  <2>6. CASE Initialize(s) \/ Credit(s) \/ Pair(s) \/ Ready(s) BY <2>6 DEF Initialize, Credit, Pair, Ready
  <2>7. CASE Begin(s) \/ Work(s) \/ Over(s) \/ Ends(s) BY <2>7 DEF Begin, Work, Over, Ends
  <2>8. CASE Disconnects(s) BY <2>8 DEF Disconnects, Now, Guarded
  <2>9. CASE Destroys(s) BY <2>9 DEF Destroys, Now, Guarded
  <2> QED BY <1>3, <2>1, <2>2, <2>3, <2>4, <2>5, <2>6, <2>7, <2>8, <2>9 DEF Program
<1>4. ASSUME NEW s \in Sides, Crash(s) \/ Interrupt(s) PROVE UNCHANGED cmVars BY <1>4 DEF Crash, Interrupt
<1>5. ASSUME NEW s \in Sides, CmGone(s) PROVE Guarded BY <1>5 DEF CmGone, Guarded
<1> QED BY <1>1, <1>2, <1>3, <1>4, <1>5 DEF Next

LEMMA GuardedMoves == Guarded => CmMove
BY DEF Guarded, CmMove

\* A request that was turned away stays so.
LEMMA TurnedStays == ASSUME CmInv, Turned, [Next]_vars PROVE Turned'
<1>1. PICK i \in Ids : link[i] = "refused" /\ ~Has(events["server"], Event("connect_request", i)) BY DEF Turned
<1> DEFINE e == Event("connect_request", i)
<1> SUFFICES link'[i] = "refused" /\ ~Has(events'["server"], e) BY DEF Turned, Has, Event
<1> HIDE DEF e
<1>0. CmTypes /\ LinkInv(i) /\ "client" \in Sides /\ "server" \in Sides BY DEF CmInv, Sides
<1>2. ASSUME UNCHANGED <<link, events>> PROVE link'[i] = "refused" /\ ~Has(events'["server"], e)
  BY <1>1, <1>2 DEF Has, e
<1>3. Closed(i) = "refused" BY <1>1 DEF Closed
<1>4. events \in [Sides -> Seq(EventSet)] /\ link \in [Ids -> LinkStates] BY <1>0 DEF CmTypes
<1>5. e \in EventSet /\ e.kind = "connect_request" BY DEF e, Event, EventSet, EventKinds, Single
<1>6. ~Has(events["server"], e) BY <1>1 DEF e
<1>7. \A j \in Ids : j # i => Event("connect_request", j) # e BY DEF e, Event
<1>8. ASSUME \/ events'["server"] \in {<<>>, events["server"]}
             \/ events["server"] # <<>> /\ events'["server"] = Tail(events["server"])
             \/ \E r : Farewells(r) /\ events'["server"] = events["server"] \o r
      PROVE  ~Has(events'["server"], e)
  <2>1. CASE events'["server"] \in {<<>>, events["server"]} BY <1>6, <2>1 DEF Has
  <2>2. CASE events["server"] # <<>> /\ events'["server"] = Tail(events["server"])
    BY <1>0, <1>4, <1>6, <2>2, TailTells
  <2>3. CASE \E r : Farewells(r) /\ events'["server"] = events["server"] \o r
    BY <1>0, <1>4, <1>5, <1>6, <2>3, FarewellsTell DEF Single
  <2> QED BY <1>8, <2>1, <2>2, <2>3
<1>9. Farewells(PartAll) /\ Farewells(PartOpen) BY <1>0, PartTypes
<1>10. CASE \E j \in Ids : ResolutionEnds(j) \/ RequestArrives(j)
  <2>1. PICK j \in Ids : ResolutionEnds(j) \/ RequestArrives(j) BY <1>10
  <2>2. j # i BY <1>1, <2>1 DEF ResolutionEnds, RequestArrives, Resolved
  <2>3. link'[i] = link[i] BY <1>4, <2>1, <2>2 DEF ResolutionEnds, RequestArrives
  <2>4. ~Has(events'["server"], e)
    <3>1. CASE events'["server"] = events["server"] BY <1>8, <3>1
    <3>2. CASE events'["server"] = Append(events["server"], Event("connect_request", j))
      <4>1. Event("connect_request", j) \in EventSet BY <1>0, EventTypes DEF EventKinds, Single
      <4> QED BY <1>0, <1>4, <1>6, <1>7, <2>2, <3>2, <4>1, AppendTells
    <3> QED BY <1>0, <1>4, <2>1, <3>1, <3>2 DEF ResolutionEnds, RequestArrives
  <2> QED BY <1>1, <2>3, <2>4
<1>11. CASE DatagramLost BY <1>2, <1>11 DEF DatagramLost
<1>12. CASE ClientStep
  <2>1. CASE ClientResolve BY <1>0, <1>1, <2>1 DEF ClientResolve, CmInv, Before
  <2>2. CASE AddressHandler \/ RouteHandler
    <3>1. /\ events["client"] # <<>> /\ events' = [events EXCEPT !["client"] = Took("client")]
          /\ Head(events["client"]).kind \in {"addr_resolved", "route_resolved"}
          /\ link' = link \/ \E l : link' = [link EXCEPT ![EventId("client")] = l]
      BY <2>2 DEF AddressHandler, RouteHandler, Takes
    <3>2. EventId("client") # i
      <4>1. Has(events["client"], Head(events["client"]))
            /\ Head(events["client"]) = Event(Head(events["client"]).kind, EventId("client"))
        BY <1>0, <1>4, <3>1, HeadIs DEF EventId
      <4> QED BY <1>0, <1>1, <3>1, <4>1 DEF LinkInv
    <3>3. events'["server"] = events["server"] BY <1>4, <3>1
    <3> QED BY <1>1, <1>4, <1>8, <3>1, <3>2, <3>3
  <2>3. CASE EstablishedHandler \/ EventErrorHandler
    <3>1. link' = link /\ events' = [events EXCEPT !["client"] = Took("client")]
      BY <2>3 DEF EstablishedHandler, EventErrorHandler
    <3> QED BY <1>1, <1>4, <1>8, <3>1
  <2>4. CASE ClientRetries
    <3>1. link'[i] = Closed(i) /\ events'["server"] = events["server"] \o PartOpen BY <2>4 DEF ClientRetries
    <3> QED BY <1>3, <1>8, <1>9, <3>1
  <2> QED BY <1>12, <2>1, <2>2, <2>3, <2>4 DEF ClientStep
<1>13. CASE ServerStep
  <2>1. CASE ServerListen BY <1>2, <2>1 DEF ServerListen
  <2>2. ASSUME ServerFails PROVE link'[i] = "refused" /\ ~Has(events'["server"], e)
    BY <1>3, <1>8, <2>2 DEF ServerFails
  <2>3. CASE RequestHandler /\ ~ServerFails
    <3>1. /\ events["server"] # <<>> /\ Head(events["server"]).kind = "connect_request"
          /\ events'["server"] = Tail(events["server"]) /\ link' = [link EXCEPT ![EventId("server")] = "up"]
      <4>1. /\ Takes("server", "connect_request") /\ link' = [link EXCEPT ![EventId("server")] = "up"]
            /\ events' = [client |-> Append(events["client"], Event("established", EventId("server"))),
                          server |-> Took("server")]
        BY <2>3, ZenonT(40) DEF RequestHandler
      <4>2. events'["server"] = Took("server") BY <4>1
      <4> QED BY <4>1, <4>2 DEF Takes, Took
    <3>2. EventId("server") # i
      <4>1. Has(events["server"], Head(events["server"]))
            /\ Head(events["server"]) = Event(Head(events["server"]).kind, EventId("server"))
        BY <1>0, <1>4, <3>1, HeadIs DEF EventId
      <4> QED BY <1>6, <3>1, <4>1 DEF e
    <3> QED BY <1>1, <1>4, <1>8, <3>1, <3>2
  <2>4. CASE UdReply /\ ~ServerFails BY <1>2, <2>4 DEF UdReply
  <2> QED BY <1>13, <2>1, <2>2, <2>3, <2>4 DEF ServerStep
<1>14. ASSUME NEW s \in Sides,
              \/ Allocate(s) \/ Enters(s) \/ DisconnectHandler(s) \/ EventsEnd(s) \/ Leaves(s)
              \/ Disconnect(s) \/ DisconnectsEnd(s) \/ Destroy(s) \/ Vanish(s)
       PROVE  link'[i] = "refused" /\ ~Has(events'["server"], e)
  <2>1. CASE Allocate(s) \/ Enters(s) \/ EventsEnd(s) \/ Leaves(s) \/ DisconnectsEnd(s)
    BY <1>2, <2>1 DEF Allocate, Enters, EventsEnd, Leaves, DisconnectsEnd
  <2>2. CASE DisconnectHandler(s)
    <3>1. link' = link /\ events[s] # <<>> /\ events' = [events EXCEPT ![s] = Took(s)]
      BY <2>2 DEF DisconnectHandler, Takes
    <3>2. events'["server"] = events["server"] \/ (events["server"] # <<>> /\ events'["server"] = Tail(events["server"]))
      BY <1>4, <3>1 DEF Took
    <3> QED BY <1>1, <1>8, <3>1, <3>2
  <2>3. CASE Disconnect(s) \/ Destroy(s) \/ Vanish(s)
    <3>1. link'[i] \in {link[i], Closed(i)} BY <2>3 DEF Disconnect, Destroy, Vanish
    <3>2. events'["server"] \in {<<>>, events["server"], events["server"] \o PartAll}
      BY <1>0, <2>3 DEF Disconnect, Destroy, Vanish
    <3> QED BY <1>1, <1>3, <1>8, <1>9, <3>1, <3>2
  <2> QED BY <1>14, <2>1, <2>2, <2>3
<1>15. CASE UNCHANGED cmVars BY <1>2, <1>15 DEF cmVars
<1> QED BY <1>10, <1>11, <1>12, <1>13, <1>14, <1>15, CmSteps DEF CmMove, Kernel

(***************************************************************************)
(* The test.                                                               *)
(***************************************************************************)
\* Who is past an exchange has a peer that has not failed.
LEMMA PeerLives ==
  ASSUME IInv, EndsInv, NEW s \in Sides, NEW p \in 1..N, Ex(p), p < Pos(s)
  PROVE  comm[Peer(s)] # "failed"
<1>1. p <= Pos(Peer(s)) BY Barrier
<1>2. Peer(s) \in Sides BY DEF Sides, Peer
<1>3. N \in Nat /\ ~Ex(1) BY Landmarks DEF IInv
<1> SUFFICES ASSUME comm[Peer(s)] = "failed" PROVE FALSE OBVIOUS
<1>4. Pos(Peer(s)) = 1 BY <1>2 DEF EndsInv
<1>5. p = 1
  <2> HIDE DEF N
  <2> QED BY <1>1, <1>3, <1>4
<1> QED BY <1>3, <1>5

\* No loop is left in error.
LEMMA PlacesKept ==
  ASSUME IInv, LoopInv, EndsInv, Orderly, [Next]_vars, \A s \in Sides : at[s] # "failed"
  PROVE  \A s \in Sides : at'[s] # "failed"
<1> DEFINE Claim == \A s \in Sides : at'[s] # "failed"
<1>0. DOMAIN at = Sides BY DEF LoopInv, Domains
<1>1. ASSUME at' = at PROVE Claim BY <1>1
<1>2. ASSUME NEW t \in Sides, Runs(t) PROVE Claim BY <1>0, <1>2 DEF Runs
<1>3. ASSUME NEW t \in Sides, Ready(t) PROVE Claim BY <1>0, <1>3 DEF Ready, Prepare
<1>4. ASSUME NEW t \in Sides, Work(t) PROVE Claim
  <2>1. Runs(t) BY <1>4, BwGoes, LatGoes DEF Work
  <2> QED BY <2>1, <1>2
<1>5. ASSUME NEW t \in Sides, Begin(t) PROVE Claim
  <2>1. Start(t) \notin {"idle", "failed"} BY StartIs, LoopIs DEF PlacesOf
  <2>2. Runs(t) BY <1>5, <2>1 DEF Begin, GoTo, Runs
  <2> QED BY <2>2, <1>2
<1>6. ASSUME NEW t \in Sides, Interrupt(t) PROVE Claim
  <2>1. CASE Alarm(t) BY <1>1, <2>1 DEF Alarm
  <2>2. CASE CheckAlive(t) BY <2>2 DEF CheckAlive, Orderly
  <2>3. CASE ~Alive(Peer(t))
    <3>1. IsAt(t, "traffic") /\ Types BY <1>6 DEF Interrupt, Now, IInv
    <3>2. Pos(t) \in 1..N /\ Script[Pos(t)][1] = "traffic" BY <3>1, AtIs
    <3>3. /\ N \in Nat /\ PairAt \in 1..N /\ PairAt + 3 \in 1..N /\ Ex(PairAt + 2)
          /\ \A p \in 1..N : Script[p][1] = "traffic" => p = PairAt + 3
      BY <3>1, Places
    <3>4. Pos(t) = PairAt + 3 BY <3>2, <3>3
    <3>5. PairAt + 2 \in 1..N /\ PairAt + 2 < Pos(t)
      <4> HIDE DEF N, PairAt, Pos
      <4> QED BY <3>3, <3>4
    <3>6. comm[Peer(t)] # "failed" BY <3>3, <3>5, PeerLives
    <3> QED BY <2>3, <3>6 DEF Alive
  <2>4. \A q \in Ids : ~Astray(t, q) BY DEF Astray, Orderly
  <2> QED BY <1>6, <2>1, <2>2, <2>3, <2>4 DEF Interrupt
<1>7. ASSUME NEW t \in Sides, Program(t), ~Ready(t), ~Work(t), ~Begin(t) PROVE at' = at
  BY <1>7 DEF Program, Talk, CmAllocate, CmEnter, CmHandler, CmLeave, Initialize, Credit, Pair,
     Over, Disconnects, Destroys, Ends, queueVars
<1>8. ASSUME NEW t \in Sides, Crash(t) \/ CmGone(t) PROVE at' = at BY <1>8 DEF Crash, CmGone, queueVars
<1>9. ASSUME Network PROVE at' = at
  BY <1>9, SMTT(30) DEF Network, Meet, CmKernel, Wire, Device, Serve, queueVars
<1>10. ASSUME UNCHANGED vars PROVE at' = at BY <1>10 DEF vars, queueVars
<1> HIDE DEF Claim
<1>11. Claim BY <1>1, <1>3, <1>4, <1>5, <1>6, <1>7, <1>8, <1>9, <1>10 DEF Next
<1> QED BY <1>11 DEF Claim

(***************************************************************************)
(* The handlers.                                                           *)
(***************************************************************************)
\* A node that is established has the queue pair it answers with, there being
\* one.
LEMMA SenderThere ==
  ASSUME CmInv, UdInv, HandlersInv, Orderly, NeedsReply, Takes("client", "established")
  PROVE  node["client"][disconnectsLeft["client"]].cma_id \in qpOfId["client"]
<1> DEFINE i == EventId("client")
<1>0. CmTypes /\ "client" \in Sides BY DEF CmInv, Sides
<1>1. cmPc["client"] = "events" /\ connectsLeft["client"] # 0 /\ events["client"] # <<>>
      /\ Head(events["client"]).kind = "established"
  BY DEF Takes
<1>2. Has(events["client"], Event("established", i)) /\ i \in Ids
  <2>1. events["client"] \in Seq(EventSet) BY <1>0 DEF CmTypes
  <2> QED BY <1>1, <2>1, HeadIs DEF EventId, EventSet
<1>3. link[i] \in Met /\ i \in Qps
  <2>1. link[i] \in Met BY <1>2 DEF CmInv, LinkInv
  <2> QED BY <1>2, <2>1 DEF CmInv, LinkInv, Met
<1>4. Num = 1 /\ Qps = {0} BY DEF Orderly, Num, Qps
<1>5. connectsLeft["client"] \in 0..Num /\ node["client"][0].cma_id = 0
      /\ (disconnectsLeft["client"] = Made \/ \A j \in Ids : ~Has(events["client"], Event("established", j)))
  BY <1>1, <1>4 DEF UdInv, ClientCount, Counting
<1>6. disconnectsLeft["client"] = 0 BY <1>1, <1>2, <1>4, <1>5 DEF Made
<1>7. 0 \in qpOfId["client"]
  <2>1. Equipped BY <1>1 DEF HandlersInv
  <2> QED BY <1>2, <1>3, <1>4, <2>1 DEF Equipped, Requested, Met
<1> QED BY <1>5, <1>6, <1>7

\* No handler fails.
LEMMA NoneFails ==
  ASSUME CmInv, UdInv, HandlersInv, Orderly, CmMove
  PROVE  \A s \in Sides : cmPc'[s] \notin Failing
<1> DEFINE Claim == \A s \in Sides : cmPc'[s] \notin Failing
<1>0. CmTypes /\ ~opt.faults /\ \A s \in Sides : cmPc[s] \notin Failing BY DEF CmInv, Orderly, HandlersInv
<1>1. DOMAIN cmPc = Sides BY <1>0 DEF CmTypes
<1>2. ASSUME cmPc' = cmPc PROVE Claim BY <1>0, <1>2
<1>3. ASSUME NEW s \in Sides, NEW p, p \notin Failing, Leave(s, p) PROVE Claim
  BY <1>0, <1>1, <1>3 DEF Leave
<1> HIDE DEF Claim
<1>4. ASSUME Kernel \/ DatagramLost PROVE Claim
  BY <1>2, <1>4 DEF Kernel, ResolutionEnds, RequestArrives, DatagramLost
<1>5. ASSUME ClientStep PROVE Claim
  <2>0. "client" \in Sides BY DEF Sides
  <2>1. CASE ClientResolve
    <3>1. Leave("client", "events") BY <1>0, <2>1 DEF ClientResolve
    <3> QED BY <1>3, <2>0, <3>1 DEF Failing
  <2>2. CASE AddressHandler \/ RouteHandler BY <1>0, <1>2, <2>2 DEF AddressHandler, RouteHandler
  <2>3. CASE EstablishedHandler BY <1>0, <1>2, <2>3, SenderThere DEF EstablishedHandler
  <2>4. CASE EventErrorHandler
    <3>1. PICK kind \in Troubles : Takes("client", kind) BY <2>4 DEF EventErrorHandler, Troubles
    <3>2. cmPc["client"] = "events" /\ events["client"] # <<>> /\ Head(events["client"]).kind = kind
      BY <3>1 DEF Takes
    <3>3. events["client"] \in Seq(EventSet) BY <1>0, <2>0 DEF CmTypes
    <3>4. Has(events["client"], Event(kind, Head(events["client"]).id)) /\ Head(events["client"]).id \in Ids
      BY <3>2, <3>3, HeadIs DEF EventSet
    <3>5. Calm BY <3>2 DEF HandlersInv
    <3> QED BY <3>4, <3>5 DEF Calm
  <2>5. CASE ClientRetries BY <1>0, <2>0, <2>5 DEF ClientRetries, Failing
  <2> QED BY <1>5, <2>1, <2>2, <2>3, <2>4, <2>5 DEF ClientStep
<1>6. ASSUME ServerStep PROVE Claim
  <2>0. "server" \in Sides BY DEF Sides
  <2>1. CASE ServerListen
    <3>1. Leave("server", "events") BY <1>0, <2>1 DEF ServerListen
    <3> QED BY <1>3, <2>0, <3>1 DEF Failing
  <2>2. CASE RequestHandler
    <3>1. Leave("server", "ud_wait") \/ cmPc' = cmPc BY <1>0, <2>2, ZenonT(40) DEF RequestHandler
    <3> QED BY <1>2, <1>3, <2>0, <3>1 DEF Failing
  <2>3. CASE UdReply
    <3>1. Leave("server", "events") BY <1>0, <2>3 DEF UdReply
    <3> QED BY <1>3, <2>0, <3>1 DEF Failing
  <2> QED BY <1>6, <2>1, <2>2, <2>3 DEF ServerStep
<1>7. ASSUME NEW s \in Sides,
             \/ Allocate(s) \/ Enters(s) \/ DisconnectHandler(s) \/ EventsEnd(s) \/ Leaves(s)
             \/ Disconnect(s) \/ DisconnectsEnd(s) \/ Destroy(s) \/ Vanish(s)
      PROVE  Claim
  <2>1. cmPc' = cmPc \/ \E p \in {"allocated", "synced", "connected", "used", "disconnecting", "disconnected", "destroyed", "gone"} :
                          Leave(s, p)
    BY <1>0, <1>7 DEF Allocate, Enters, DisconnectHandler, EventsEnd, Leaves, Disconnect, DisconnectsEnd, Destroy, Vanish
  <2> QED BY <1>2, <1>3, <2>1 DEF Failing
<1>8. Claim BY <1>4, <1>5, <1>6, <1>7 DEF CmMove
<1> QED BY <1>8 DEF Claim

\* Past the connections there is no way back.
LEMMA BeyondStays ==
  ASSUME CmTypes, CmMove, NEW s \in Sides, cmPc[s] \in Beyond
  PROVE  cmPc'[s] \in Beyond
<1> USE DEF Beyond
<1>1. DOMAIN cmPc = Sides BY DEF CmTypes
<1>2. ASSUME NEW t \in Sides, NEW p, Leave(t, p), t = s => p \in Beyond PROVE cmPc'[s] \in Beyond
  BY <1>1, <1>2 DEF Leave
<1>3. CASE Kernel \/ DatagramLost BY <1>3 DEF Kernel, ResolutionEnds, RequestArrives, DatagramLost
<1>4. CASE ClientStep
  <2>1. cmPc' = cmPc \/ (cmPc["client"] \notin Beyond /\ \E p : Leave("client", p))
    <3>1. CASE ClientResolve \/ ClientRetries BY <3>1 DEF ClientResolve, ClientRetries
    <3>2. CASE AddressHandler \/ RouteHandler BY <3>2 DEF AddressHandler, RouteHandler, Takes
    <3>3. CASE EstablishedHandler \/ EventErrorHandler BY <3>3 DEF EstablishedHandler, EventErrorHandler, Takes
    <3> QED BY <1>4, <3>1, <3>2, <3>3 DEF ClientStep
  <2> QED BY <1>2, <2>1, BothSides
<1>5. CASE ServerStep
  <2>1. cmPc' = cmPc \/ (cmPc["server"] \notin Beyond /\ \E p : Leave("server", p))
    <3>1. CASE ServerListen BY <3>1 DEF ServerListen
    <3>2. CASE RequestHandler
      <4>1. cmPc["server"] = "events" BY <3>2 DEF RequestHandler, Takes
      <4>2. cmPc' = cmPc \/ Leave("server", "ud_wait") \/ ServerFails BY <3>2, ZenonT(40) DEF RequestHandler
      <4> QED BY <4>1, <4>2 DEF ServerFails
    <3>3. CASE UdReply BY <3>3 DEF UdReply, ServerFails
    <3> QED BY <1>5, <3>1, <3>2, <3>3 DEF ServerStep
  <2> QED BY <1>2, <2>1, BothSides
<1>6. ASSUME NEW t \in Sides,
             \/ Allocate(t) \/ Enters(t) \/ DisconnectHandler(t) \/ EventsEnd(t) \/ Leaves(t)
             \/ Disconnect(t) \/ DisconnectsEnd(t) \/ Destroy(t) \/ Vanish(t)
      PROVE  cmPc'[s] \in Beyond
  <2>1. \/ cmPc' = cmPc \/ (cmPc[t] \notin Beyond /\ \E p : Leave(t, p))
        \/ \E p \in Beyond : Leave(t, p)
    BY <1>6 DEF Allocate, Enters, DisconnectHandler, EventsEnd, Leaves, Disconnect, DisconnectsEnd, Destroy, Vanish
  <2> QED BY <1>2, <2>1
<1> QED BY <1>3, <1>4, <1>5, <1>6 DEF CmMove

LEMMA ThroughBeyond ==
  ASSUME IInv, CmInv, HandlersInv, [Next]_vars, NEW s \in Sides, Through(s)'
  PROVE  cmPc'[s] \in Beyond
<1>1. opt' = opt /\ (CmMove \/ UNCHANGED cmVars) BY CmSteps
<1>2. opt.work_rdma_cm /\ 8 < Pos(s)' BY <1>1 DEF Through
<1>3. CASE cmPc[s] \in Beyond
  <2>1. CASE UNCHANGED cmVars BY <1>3, <2>1 DEF cmVars
  <2> QED BY <1>1, <1>3, <2>1, BeyondStays DEF CmInv
<1>4. CASE cmPc[s] \notin Beyond
  <2>1. ~(8 < Pos(s)) BY <1>2, <1>4 DEF HandlersInv, Through
  <2>2. Goes(s) /\ Pos(s)' = Pos(s) + 1 BY <1>2, <2>1, Moves
  <2>3. Pos(s) \in Int BY EffIs DEF IInv
  <2>4. Pos(s) = 8 BY <1>2, <2>1, <2>2, <2>3
  <2>5. CmLeave(s) BY <1>2, <2>2, <2>4, Places DEF Goes, IInv
  <2>6. DOMAIN cmPc = Sides BY DEF CmInv, CmTypes
  <2> QED BY <2>5, <2>6 DEF CmLeave, Leave, Beyond
<1> QED BY <1>3, <1>4

\* The client hears of trouble only if it is told.
LEMMA CalmStays ==
  ASSUME CmTypes, Calm,
         \/ events'["client"] = events["client"]
         \/ events["client"] # <<>> /\ events'["client"] = Tail(events["client"])
         \/ \E k \in EventKinds \ Troubles, i \in Ids : events'["client"] = Append(events["client"], Event(k, i))
  PROVE  Calm'
<1>1. events["client"] \in Seq(EventSet) BY BothSides DEF CmTypes
<1> SUFFICES ASSUME NEW j \in Ids, NEW l \in Troubles, Has(events'["client"], Event(l, j)) PROVE FALSE
  BY DEF Calm, Has, Event
<1>2. ~Has(events["client"], Event(l, j)) BY DEF Calm
<1>3. CASE events'["client"] = events["client"] BY <1>2, <1>3
<1>4. CASE events["client"] # <<>> /\ events'["client"] = Tail(events["client"])
  BY <1>1, <1>2, <1>4, TailTells
<1>5. CASE \E k \in EventKinds \ Troubles, i \in Ids : events'["client"] = Append(events["client"], Event(k, i))
  <2>1. PICK k \in EventKinds \ Troubles, i \in Ids : events'["client"] = Append(events["client"], Event(k, i)) BY <1>5
  <2>2. Event(k, i) \in EventSet BY EventTypes, BothSides
  <2>3. Event(l, j) # Event(k, i) BY <2>1 DEF Event
  <2> QED BY <1>1, <1>2, <2>1, <2>2, <2>3, AppendTells
<1> QED BY <1>3, <1>4, <1>5

\* A side comes to its events from the hand-shake only.
LEMMA ClientEnters ==
  ASSUME CmTypes, CmMove, cmPc'["client"] = "events"
  PROVE  cmPc["client"] = "events" \/ ClientResolve
<1>1. DOMAIN cmPc = Sides /\ "client" \in Sides /\ "server" \in Sides BY DEF CmTypes, Sides
<1>2. CASE Kernel \/ DatagramLost BY <1>2 DEF Kernel, ResolutionEnds, RequestArrives, DatagramLost
<1>3. CASE ClientStep
  <2>1. CASE AddressHandler \/ RouteHandler BY <2>1 DEF AddressHandler, RouteHandler, Takes
  <2>2. CASE EstablishedHandler \/ EventErrorHandler BY <2>2 DEF EstablishedHandler, EventErrorHandler, Takes
  <2>3. CASE ClientRetries BY <1>1, <2>3 DEF ClientRetries, Leave
  <2> QED BY <1>3, <2>1, <2>2, <2>3 DEF ClientStep
<1>4. CASE ServerStep
  <2>1. cmPc' = cmPc \/ \E p : Leave("server", p)
    <3>1. CASE ServerListen BY <3>1 DEF ServerListen
    <3>2. CASE RequestHandler
      <4>1. cmPc' = cmPc \/ Leave("server", "ud_wait") \/ ServerFails BY <3>2, ZenonT(40) DEF RequestHandler
      <4> QED BY <4>1 DEF ServerFails
    <3>3. CASE UdReply BY <3>3 DEF UdReply, ServerFails
    <3> QED BY <1>4, <3>1, <3>2, <3>3 DEF ServerStep
  <2> QED BY <1>1, <2>1 DEF Leave
<1>5. ASSUME NEW t \in Sides,
             \/ Allocate(t) \/ Enters(t) \/ DisconnectHandler(t) \/ EventsEnd(t) \/ Leaves(t)
             \/ Disconnect(t) \/ DisconnectsEnd(t) \/ Destroy(t) \/ Vanish(t)
      PROVE  cmPc["client"] = "events"
  <2>1. cmPc' = cmPc \/ \E p : p # "events" /\ Leave(t, p)
    BY <1>5 DEF Allocate, Enters, DisconnectHandler, EventsEnd, Leaves, Disconnect, DisconnectsEnd, Destroy, Vanish
  <2> QED BY <1>1, <2>1 DEF Leave
<1> QED BY <1>2, <1>3, <1>4, <1>5 DEF CmMove

\* The end of a program that comes to it closes no connection that is being made.
LEMMA NoneCloses ==
  ASSUME IInv, EndsInv, HandlersInv, cmPc["client"] = "events", cmPc'["client"] = "events", NEW s \in Sides,
         DOMAIN cmPc = Sides,
         \/ IsAt(s, "destroy") /\ opt.work_rdma_cm /\ (Disconnect(s) \/ Destroy(s))
         \/ ~Alive(s) /\ Vanish(s)
  PROVE  FALSE
<1>1. "client" \in Sides /\ "server" \in Sides BY DEF Sides
<1>2. CASE s = "client" BY <1>1, <1>2 DEF Disconnect, Destroy, Vanish, Leave
<1>3. CASE s = "server"
  <2>1. CASE ~Alive(s) BY <1>3, <2>1 DEF Alive, EndsInv
  <2>2. CASE IsAt(s, "destroy") /\ opt.work_rdma_cm
    <3>1. Pos("server") \in 1..N /\ Script[Pos("server")][1] = "destroy" BY <1>3, <2>2, AtIs
    <3>2. /\ N \in Nat /\ PairAt \in 1..N /\ 9 < PairAt /\ 9 \in 1..N /\ Ex(9)
          /\ \A p \in 1..N : Script[p][1] = "destroy" => PairAt + 3 < p
      BY <2>2, Places DEF IInv
    <3>3. PairAt + 3 < Pos("server") BY <3>1, <3>2
    <3>4. 9 < Pos("server")
      <4> HIDE DEF N, PairAt, Pos
      <4> QED BY <3>1, <3>2, <3>3
    <3>5. 9 <= Pos("client") BY <1>1, <3>2, <3>4, Barrier, BothSides
    <3>6. Pos("client") \in Int BY <1>1, EffIs DEF IInv
    <3>7. Through("client")
      <4> HIDE DEF Pos
      <4> QED BY <2>2, <3>5, <3>6 DEF Through
    <3> QED BY <1>1, <3>7 DEF HandlersInv, Beyond
  <2> QED BY <1>3, <2>1, <2>2
<1> QED BY <1>2, <1>3 DEF Sides

\* While the client connects.
LEMMA ConnectingKept ==
  ASSUME IInv, CmInv, EndsInv, HandlersInv, Orderly, ~Turned', Guarded,
         cmPc["client"] = "events", cmPc'["client"] = "events"
  PROVE  Calm' /\ Equipped'
<1>0. CmTypes /\ ~opt.faults /\ "client" \in Sides /\ "server" \in Sides BY DEF CmInv, Orderly, Sides
<1>1. Calm /\ Equipped BY DEF HandlersInv
<1>2. /\ DOMAIN events = Sides /\ DOMAIN link = Ids /\ DOMAIN qpOfId = Sides /\ DOMAIN cmPc = Sides
      /\ \A s \in Sides : events[s] \in Seq(EventSet)
  BY <1>0 DEF CmTypes
<1>3. ASSUME UNCHANGED <<link, events, qpOfId>> PROVE Calm' /\ Equipped'
  BY <1>1, <1>3 DEF Calm, Has, Event, Equipped
<1>4. ASSUME NEW i \in Ids, link'[i] \notin Requested \/ link[i] \in Requested,
             \A j \in Ids : j # i => link'[j] = link[j], qpOfId'["client"] = qpOfId["client"]
      PROVE  Equipped'
  BY <1>1, <1>4 DEF Equipped
<1>5. ASSUME NEW s \in Sides, events[s] # <<>>
      PROVE  Has(events[s], Event(Head(events[s]).kind, EventId(s))) /\ EventId(s) \in Ids
  BY <1>2, <1>5, HeadIs DEF EventId, EventSet
<1>6. ASSUME events["client"] # <<>>, events' = [events EXCEPT !["client"] = Took("client")] PROVE Calm'
  BY <1>0, <1>1, <1>2, <1>6, CalmStays DEF Took
<1>7. ASSUME NEW i \in Ids, ResolutionEnds(i) PROVE Calm' /\ Equipped'
  <2>1. /\ link[i] \in {"addr", "route"} /\ link' = [link EXCEPT ![i] = Resolved[link[i]]]
        /\ events' = [events EXCEPT !["client"] = Append(@, Event(Resolved[link[i]], i))]
        /\ qpOfId' = qpOfId
    BY <1>0, <1>7 DEF ResolutionEnds, Resolved
  <2>2. Resolved[link[i]] \in {"addr_resolved", "route_resolved"} BY <2>1 DEF Resolved
  <2>3. Equipped' BY <1>2, <1>4, <2>1, <2>2 DEF Requested
  <2>4. events'["client"] = Append(events["client"], Event(Resolved[link[i]], i)) BY <1>0, <1>2, <2>1
  <2>5. Resolved[link[i]] \in EventKinds \ Troubles BY <2>2 DEF EventKinds, Single, Troubles
  <2> QED BY <1>0, <1>1, <2>3, <2>4, <2>5, CalmStays
<1>8. ASSUME NEW i \in Ids, RequestArrives(i) PROVE Calm' /\ Equipped'
  <2>1. link[i] = "request" /\ qpOfId' = qpOfId /\ \E l : link' = [link EXCEPT ![i] = l] BY <1>8 DEF RequestArrives
  <2>2. Equipped' BY <1>2, <1>4, <2>1 DEF Requested
  <2>3. CASE cmPc["server"] \in {"events", "ud_wait"}
    <3>1. events'["client"] = events["client"] BY <1>0, <1>2, <1>8, <2>3 DEF RequestArrives
    <3> QED BY <1>0, <1>1, <2>2, <3>1, CalmStays
  <2>4. CASE cmPc["server"] \notin {"events", "ud_wait"}
    <3>1. link'[i] = "refused" /\ events'["server"] = events["server"] BY <1>0, <1>2, <1>8, <2>4 DEF RequestArrives
    <3>2. ~Has(events["server"], Event("connect_request", i)) BY <2>1 DEF CmInv, LinkInv
    <3> QED BY <3>1, <3>2 DEF Turned, Has, Event
  <2> QED BY <2>3, <2>4
<1>9. ASSUME ClientStep PROVE Calm' /\ Equipped'
  <2>1. CASE ClientResolve BY <2>1 DEF ClientResolve
  <2>2. CASE AddressHandler
    <3>1. /\ events["client"] # <<>> /\ events' = [events EXCEPT !["client"] = Took("client")]
          /\ link' = [link EXCEPT ![EventId("client")] = "route"] /\ qpOfId' = qpOfId
      BY <1>0, <2>2 DEF AddressHandler, Takes
    <3>2. EventId("client") \in Ids BY <1>0, <1>5, <3>1
    <3> QED BY <1>2, <1>4, <1>6, <3>1, <3>2 DEF Requested
  <2>3. CASE RouteHandler
    <3> DEFINE i == EventId("client")
    <3>1. /\ events["client"] # <<>> /\ events' = [events EXCEPT !["client"] = Took("client")]
          /\ link' = [link EXCEPT ![i] = "request"]
          /\ qpOfId' = [qpOfId EXCEPT !["client"] = @ \cup {i}]
      BY <1>0, <2>3 DEF RouteHandler, Takes
    <3> HIDE DEF i
    <3>2. qpOfId'["client"] = qpOfId["client"] \cup {i} /\ \A j \in Ids : j # i => link'[j] = link[j]
      BY <1>0, <1>2, <3>1
    <3>3. Equipped' BY <1>1, <3>2 DEF Equipped
    <3> QED BY <1>6, <3>1, <3>3
  <2>4. CASE EstablishedHandler
    <3>1. /\ events["client"] # <<>> /\ events' = [events EXCEPT !["client"] = Took("client")]
          /\ link' = link /\ qpOfId' = qpOfId
      BY <2>4 DEF EstablishedHandler, Takes
    <3> QED BY <1>1, <1>6, <3>1 DEF Equipped
  <2>5. CASE EventErrorHandler \/ ClientRetries
    BY <1>0, <1>2, <2>5 DEF EventErrorHandler, ClientRetries, Leave
  <2> QED BY <1>9, <2>1, <2>2, <2>3, <2>4, <2>5 DEF ClientStep
<1>10. ASSUME ServerStep PROVE Calm' /\ Equipped'
  <2>1. CASE ServerListen BY <1>3, <2>1 DEF ServerListen
  <2>2. CASE RequestHandler
    <3> DEFINE i == EventId("server")
    <3>1. /\ Takes("server", "connect_request") /\ link' = [link EXCEPT ![i] = "up"]
          /\ events' = [client |-> Append(events["client"], Event("established", i)),
                        server |-> Took("server")]
          /\ qpOfId' = [qpOfId EXCEPT !["server"] = @ \cup {i}]
      BY <1>0, <2>2, ZenonT(40) DEF RequestHandler
    <3>2. Has(events["server"], Event("connect_request", i)) /\ i \in Ids
      BY <1>0, <1>5, <3>1 DEF Takes
    <3>3. link[i] \in Requested BY <3>2 DEF CmInv, LinkInv, Requested
    <3> HIDE DEF i
    <3>4. qpOfId'["client"] = qpOfId["client"] /\ \A j \in Ids : j # i => link'[j] = link[j] BY <1>0, <1>2, <3>1
    <3>5. Equipped' BY <1>4, <3>2, <3>3, <3>4
    <3>6. events'["client"] = Append(events["client"], Event("established", i)) BY <3>1
    <3>7. "established" \in EventKinds \ Troubles BY DEF EventKinds, Single, Troubles
    <3> QED BY <1>0, <1>1, <3>2, <3>5, <3>6, <3>7, CalmStays
  <2>3. CASE UdReply BY <1>0, <1>3, <2>3 DEF UdReply
  <2> QED BY <1>10, <2>1, <2>2, <2>3 DEF ServerStep
<1>11. CASE DatagramLost BY <1>3, <1>11 DEF DatagramLost
<1>12. ASSUME NEW s \in Sides, Allocate(s) \/ Enters(s) \/ EventsEnd(s) \/ Leaves(s) \/ DisconnectsEnd(s)
       PROVE  Calm' /\ Equipped'
  BY <1>3, <1>12 DEF Allocate, Enters, EventsEnd, Leaves, DisconnectsEnd
<1>13. ASSUME NEW s \in Sides, DisconnectHandler(s) PROVE Calm' /\ Equipped'
  <2>1. /\ events[s] # <<>> /\ events' = [events EXCEPT ![s] = Took(s)]
        /\ link' = link /\ qpOfId' = qpOfId
    BY <1>13 DEF DisconnectHandler, Takes
  <2>2. Equipped' BY <1>1, <2>1 DEF Equipped
  <2>3. s = "server" => events'["client"] = events["client"] BY <1>0, <1>2, <2>1
  <2> QED BY <1>0, <1>1, <1>6, <2>1, <2>2, <2>3, CalmStays DEF Sides
<1>14. ASSUME NEW s \in Sides,
              \/ IsAt(s, "destroy") /\ opt.work_rdma_cm /\ (Disconnect(s) \/ Destroy(s))
              \/ ~Alive(s) /\ Vanish(s)
       PROVE  FALSE
  BY <1>2, <1>14, NoneCloses
<1> QED BY <1>7, <1>8, <1>9, <1>10, <1>11, <1>12, <1>13, <1>14 DEF Guarded, Kernel

LEMMA HandlersKept ==
  ASSUME IInv, CmInv, UdInv, EndsInv, HandlersInv, Orderly, ~Turned', [Next]_vars
  PROVE  HandlersInv'
<1>1. opt' = opt /\ (CmMove \/ UNCHANGED cmVars) BY CmSteps
<1>2. \A s \in Sides : cmPc'[s] \notin Failing
  <2>1. CASE CmMove BY <2>1, NoneFails
  <2>2. CASE UNCHANGED cmVars BY <2>2 DEF cmVars, HandlersInv
  <2> QED BY <1>1, <2>1, <2>2
<1>3. \A s \in Sides : Through(s)' => cmPc'[s] \in Beyond BY ThroughBeyond
<1>4. ASSUME cmPc'["client"] = "events" PROVE Calm' /\ Equipped'
  <2>1. CASE UNCHANGED cmVars BY <1>4, <2>1 DEF cmVars, HandlersInv, Calm, Equipped, Has, Event
  <2>2. CASE CmMove /\ cmPc["client"] = "events"
    <3>1. CASE Guarded BY <1>4, <2>2, <3>1, ConnectingKept
    <3> QED BY <2>1, <3>1, GuardedSteps
  <2>3. CASE ClientResolve /\ cmPc["client"] # "events"
    <3>1. cmPc["client"] = "synced" /\ events' = events
          /\ link' = [i \in Ids |-> IF i \in Qps THEN "addr" ELSE "new"]
      BY <2>3 DEF ClientResolve, Orderly
    <3>2. events["client"] = <<>> BY <3>1 DEF CmInv, Before
    <3>3. Calm' BY <3>1, <3>2 DEF Calm, Has
    <3>4. \A i \in Ids : link'[i] \notin Requested BY <3>1 DEF Requested
    <3> QED BY <3>3, <3>4 DEF Equipped
  <2> QED BY <1>1, <1>4, <2>1, <2>2, <2>3, ClientEnters DEF CmInv
<1> QED BY <1>2, <1>3, <1>4 DEF HandlersInv

(***************************************************************************)
(* The channel.                                                            *)
(***************************************************************************)
\* What becomes of the channel: a side goes through the script, and exchanges.
Skips(s) == Alive(s) /\ left[s] # <<>> /\ ~Ex(Pos(s)) /\ Advance(s) /\ UNCHANGED exchanging
CommWays ==
  \/ UNCHANGED commVars \/ Establish
  \/ \E s \in Sides : Alive(s) /\ (Exchange(s) \/ RdmaDeliver(s) \/ Skips(s))

LEMMA SkipsAt ==
  ASSUME IInv, NEW s \in Sides, NEW kind, Now(s, kind), kind \notin Exchanges \cup {"end"},
         Advance(s), UNCHANGED exchanging
  PROVE  Skips(s)
<1>1. IsAt(s, kind) /\ Alive(s) BY DEF Now
<1>2. left[s] # <<>> /\ Script[Pos(s)][1] = kind BY <1>1, AtIs
<1> QED BY <1>1, <1>2 DEF Skips, Ex

LEMMA WaysOfComm ==
  ASSUME IInv, Orderly, HandlersInv, \A s \in Sides : at[s] # "failed", [Next]_vars
  PROVE  CommWays
<1> DEFINE Ways == CommWays
<1>1. ASSUME UNCHANGED commVars PROVE Ways BY <1>1 DEF CommWays
<1>2. ASSUME NEW s \in Sides, Skips(s) PROVE Ways BY <1>2 DEF CommWays, Skips
<1>3. ASSUME Network PROVE Ways
  BY <1>3 DEF CommWays, Network, Meet, CmKernel, Wire, Device
<1> HIDE DEF Ways
<1>4. ASSUME NEW s \in Sides, Program(s) PROVE Ways
  <2>1. CASE Talk(s) BY <2>1 DEF Talk, Ways, CommWays
  <2>2. CASE CmAllocate(s)
    <3>1. Now(s, "allocate") /\ UNCHANGED exchanging /\ (Advance(s) \/ UNCHANGED <<left, todo>>)
      BY <2>2 DEF CmAllocate
    <3>2. CASE Advance(s)
      <4>1. Skips(s) BY <3>1, <3>2, SkipsAt DEF Exchanges, HandShakes
      <4> QED BY <4>1, <1>2
    <3>3. CASE UNCHANGED <<left, todo>>
      <4>1. UNCHANGED commVars BY <3>1, <3>3 DEF commVars, exchanging
      <4> QED BY <4>1, <1>1
    <3> QED BY <3>1, <3>2, <3>3
  <2>3. CASE CmEnter(s) \/ CmHandler(s) \/ Begin(s) \/ Work(s) \/ Disconnects(s)
    <3>1. UNCHANGED commVars BY <2>3 DEF CmEnter, CmHandler, Begin, Work, Disconnects
    <3> QED BY <3>1, <1>1
  <2>4. CASE CmLeave(s) \/ Initialize(s) \/ Credit(s) \/ Pair(s) \/ Ready(s) \/ Over(s) \/ Destroys(s)
    <3>1. PICK kind \in {"cm", "init", "credit", "pair", "prepare", "traffic", "destroy"} :
            Now(s, kind) /\ Advance(s) /\ UNCHANGED exchanging
      BY <2>4 DEF CmLeave, Initialize, Credit, Pair, Ready, Over, Destroys
    <3>2. Skips(s) BY <3>1, SkipsAt DEF Exchanges, HandShakes
    <3> QED BY <3>2, <1>2
  <2>5. opt.work_rdma_cm \/ KeysReach BY DEF Orderly, KeysMissed
  <2>6. ~Ends(s) BY <2>5 DEF Ends, HandlersInv, Failing
  <2> QED BY <1>4, <2>1, <2>2, <2>3, <2>4, <2>6 DEF Program
<1>5. ASSUME NEW s \in Sides, CmGone(s) \/ Interrupt(s) PROVE UNCHANGED commVars BY <1>5 DEF CmGone, Interrupt
<1>6. ASSUME NEW s \in Sides PROVE ~Crash(s) BY DEF Crash, Orderly
<1>7. ASSUME UNCHANGED vars PROVE UNCHANGED commVars BY <1>7 DEF vars
<1>8. Ways BY <1>1, <1>3, <1>4, <1>5, <1>6, <1>7 DEF Next
<1> QED BY <1>8 DEF Ways

\* Who joins, or comes too early, is at the first item.
LEMMA Meets ==
  ASSUME IInv, Orderly, Establish, opt' = opt
  PROVE  /\ tcp' = tcp /\ sent' = sent /\ stream' = stream
         /\ \A s \in Sides :
              /\ \/ comm'[s] = comm[s] /\ left'[s] = left[s] /\ todo'[s] = todo[s]
                 \/ comm[s] \in Outside /\ comm'[s] \in Outside \cup {"open"}
                 \/ s = "client" /\ comm[s] \in Outside /\ comm'[s] = "failed" /\ left'[s] = left[s]
              /\ \/ left'[s] = left[s] /\ todo'[s] = todo[s]
                 \/ left[s] # <<>> /\ ~Ex(Pos(s)) /\ Advance(s)
<1> DEFINE Claim ==
      /\ tcp' = tcp /\ sent' = sent /\ stream' = stream
      /\ \A s \in Sides :
           /\ \/ comm'[s] = comm[s] /\ left'[s] = left[s] /\ todo'[s] = todo[s]
              \/ comm[s] \in Outside /\ comm'[s] \in Outside \cup {"open"}
              \/ s = "client" /\ comm[s] \in Outside /\ comm'[s] = "failed" /\ left'[s] = left[s]
           /\ \/ left'[s] = left[s] /\ todo'[s] = todo[s]
              \/ left[s] # <<>> /\ ~Ex(Pos(s)) /\ Advance(s)
<1>0. "client" \in Sides /\ "server" \in Sides /\ DOMAIN comm = Sides BY DEF IInv, Types, Sides
<1>1. ASSUME NEW t \in Sides, NEW c \in Outside \cup {"open"}, comm[t] \in Outside, comm' = [comm EXCEPT ![t] = c],
             UNCHANGED <<left, todo, tcp, stream, sent>>
      PROVE  Claim
  BY <1>0, <1>1
<1>2. ASSUME comm["client"] \in Outside, Exit("client"), comm["client"] \notin {"backlog", "open"} PROVE Claim
  BY <1>0, <1>2 DEF Exit, Close
<1>3. ASSUME NEW t \in Sides, Advance(t), comm[t] \in Outside, UNCHANGED <<tcp, stream, sent>>,
             \A s \in Sides : comm'[s] = comm[s] \/ (comm[s] \in Outside /\ comm'[s] \in Outside \cup {"open"}),
             comm'[t] \in Outside \cup {"open"}
      PROVE  Claim
  <2>1. left[t] # <<>> /\ ~Ex(Pos(t)) /\ Types /\ LeftInv(t) BY <1>3, OutsideIs DEF IInv, SideInv
  <2>2. \A s \in Sides : s # t => left'[s] = left[s] /\ todo'[s] = todo[s] BY <1>3, <2>1, ForwardLeft
  <2> QED BY <1>3, <2>1, <2>2
<1> HIDE DEF Claim
<1>4. ASSUME Listen PROVE Claim BY <1>0, <1>1, <1>4 DEF Listen, quiet, Outside
<1>5. ASSUME TcpConnect PROVE Claim
  <2>1. CASE comm["server"] = "listening"
    <3>1. /\ comm' = [client |-> "open", server |-> "backlog"] /\ Advance("client") /\ comm["client"] = "off"
          /\ UNCHANGED <<tcp, stream, sent>>
      BY <1>5, <2>1 DEF TcpConnect, quiet
    <3>2. comm'["client"] = "open" /\ comm'["server"] = "backlog" BY <3>1
    <3>3. \A s \in Sides : comm'[s] = comm[s] \/ (comm[s] \in Outside /\ comm'[s] \in Outside \cup {"open"})
      BY <2>1, <3>1, <3>2 DEF Sides, Outside
    <3> QED BY <1>0, <1>3, <3>1, <3>2, <3>3 DEF Outside
  <2>2. CASE comm["server"] # "listening" BY <1>2, <1>5, <2>2 DEF TcpConnect, Outside
  <2> QED BY <2>1, <2>2
<1>6. ASSUME TcpAccept PROVE Claim
  <2>1. comm' = [comm EXCEPT !["server"] = "open"] /\ Advance("server") /\ comm["server"] = "backlog"
        /\ UNCHANGED <<tcp, stream, sent>>
    BY <1>6 DEF TcpAccept, quiet
  <2>2. comm'["server"] = "open" /\ comm'["client"] = comm["client"] BY <1>0, <2>1
  <2>3. \A s \in Sides : comm'[s] = comm[s] \/ (comm[s] \in Outside /\ comm'[s] \in Outside \cup {"open"})
    BY <2>1, <2>2 DEF Sides, Outside
  <2> QED BY <1>0, <1>3, <2>1, <2>2, <2>3 DEF Outside
<1>7. ASSUME RdmaResolve PROVE Claim
  <2>1. PICK c \in {"resolved", "requesting"} : comm' = [comm EXCEPT !["client"] = c]
    BY <1>7 DEF RdmaResolve, Orderly
  <2>2. comm["client"] \in Outside /\ c \in Outside \cup {"open"} /\ UNCHANGED <<left, todo, tcp, stream, sent>>
    BY <1>7, <2>1 DEF RdmaResolve, Outside
  <2> QED BY <1>0, <1>1, <2>1, <2>2
<1>8. ASSUME RdmaRefused PROVE Claim BY <1>2, <1>8 DEF RdmaRefused, Outside
<1>9. ASSUME RdmaAccept PROVE Claim
  <2>1. /\ comm' = [client |-> "accepted", server |-> "open"] /\ Advance("server") /\ comm["client"] = "requesting"
        /\ comm["server"] = "listening" /\ UNCHANGED <<tcp, stream, sent>>
    BY <1>9 DEF RdmaAccept
  <2>2. comm'["server"] = "open" /\ comm'["client"] = "accepted" BY <2>1
  <2>3. \A s \in Sides : comm'[s] = comm[s] \/ (comm[s] \in Outside /\ comm'[s] \in Outside \cup {"open"})
    BY <2>1, <2>2 DEF Sides, Outside
  <2> QED BY <1>0, <1>3, <2>1, <2>2, <2>3 DEF Outside
<1>10. ASSUME RdmaEstablished PROVE Claim
  <2>1. comm' = [comm EXCEPT !["client"] = "open"] /\ Advance("client") /\ comm["client"] = "accepted"
        /\ UNCHANGED <<tcp, stream, sent>>
    BY <1>10 DEF RdmaEstablished, quiet
  <2>2. comm'["client"] = "open" /\ comm'["server"] = comm["server"] BY <1>0, <2>1
  <2>3. \A s \in Sides : comm'[s] = comm[s] \/ (comm[s] \in Outside /\ comm'[s] \in Outside \cup {"open"})
    BY <2>1, <2>2 DEF Sides, Outside
  <2> QED BY <1>0, <1>3, <2>1, <2>2, <2>3 DEF Outside
<1>11. Claim BY <1>4, <1>5, <1>6, <1>7, <1>8, <1>9, <1>10 DEF Establish
<1> QED BY <1>11 DEF Claim

\* Nobody writes to a peer that has closed.
LEMMA WritersPeer ==
  ASSUME IInv, EndsInv, NEW s \in Sides, ~opt.use_rdma_cm, Doing(s, "write")
  PROVE  tcp[s] = "open" /\ sent[s] # "complete" /\ todo[s] # <<>> /\ Head(todo[s]) = "write"
<1> USE BothSides
<1>1. todo[s] # <<>> /\ Head(todo[s]) = "write" /\ comm[s] = "open" BY DEF Doing
<1>2. \A t \in Sides : sent[t] = "none" BY DEF IInv, SideInv, SentInv
<1>3. ~ClearFrom(Eff(Peer(s)))
  <2>1. CASE s = "client" BY <1>1, <1>2, <2>1, BeforeAsking
  <2>2. CASE s = "server" BY <1>1, <1>2, <2>2, BeforeAnswering
  <2> QED BY <2>1, <2>2 DEF Sides
<1>4. ASSUME tcp[s] # "open" PROVE FALSE
  <2>1. Peer(s) \in Sides BY DEF Peer, Sides
  <2>2. comm[Peer(s)] = "closed" BY <1>4 DEF EndsInv
  <2>3. N <= Pos(Peer(s)) BY <2>1, <2>2 DEF EndsInv
  <2>4. Pos(Peer(s)) \in Int /\ Eff(Peer(s)) \in Int /\ Eff(Peer(s)) \in {Pos(Peer(s)), Pos(Peer(s)) + 1}
    BY <2>1, EffIs DEF IInv
  <2>5. N \in Nat /\ ~Ex(N) BY Landmarks DEF IInv
  <2> HIDE DEF N
  <2>6. N <= Eff(Peer(s)) BY <2>3, <2>4, <2>5
  <2>7. \A p \in 1..N : Eff(Peer(s)) <= p => p = N BY <2>4, <2>5, <2>6
  <2> QED BY <1>3, <2>5, <2>7 DEF ClearFrom
<1> QED BY <1>1, <1>2, <1>4

\* What waits for a reader is one whole text of the length that it asks for.
LEMMA ReaderFinds ==
  ASSUME IInv, EndsInv, SameGids, NEW s \in Sides, ~opt.use_rdma_cm, Doing(s, "read"), StreamIs(s),
         stream[s] # <<>> \/ tcp[s] # "open"
  PROVE  /\ stream[s] # <<>> /\ stream[s][1].piece = 1
         /\ Unread(s) = Pieces(s) /\ ~(Len(stream[s]) < Pieces(s))
<1>0. Types /\ SideInv(s) /\ LeftInv(s) /\ TodoInv(s) BY DEF IInv, SideInv
<1>1. todo[s] # <<>> /\ Head(todo[s]) = "read" /\ comm[s] = "open" BY DEF Doing
<1>2. stream[s] # <<>>
  <2>1. tcp[s] # "open" => comm[Peer(s)] = "closed" BY DEF EndsInv
  <2> QED BY <2>1 DEF StreamIs
<1>3. stream[s] \in Seq(Messages) /\ Len(stream[s]) \in Nat BY <1>0 DEF Types
<1>12. PICK l \in Nat : l = Len(stream[s]) BY <1>3
<1>13. Unread(s) = IF comm[Peer(s)] = "closed" THEN l - 1 ELSE l
  <2>1. Unread(s) = l - (IF comm[Peer(s)] = "closed" THEN 1 ELSE 0) BY <1>12, Zenon DEF Unread
  <2> QED BY <2>1, SMT
<1>4. Pos(s) \in 1..N /\ Here(s) = Script[Pos(s)] BY <1>0, <1>1, Busy
<1>5. Script[Pos(s)][1] # "done" /\ Script \in Seq(ItemSet)
  <2>1. Script \in Seq(ItemSet) BY <1>0, Landmarks
  <2>2. Script[Pos(s)] \in ItemSet BY <1>4, <2>1, ElementOfSeq DEF N
  <2> QED BY <2>1, <2>2 DEF ItemSet, Kinds, OtherKinds, Fields
<1>6. stream[s][1].piece # 2 => stream[s][1].item = Script[Pos(s)] BY <1>1, <1>2, ReadsIts DEF Data
<1>7. Unread(s) # 0
  <2> SUFFICES ASSUME Unread(s) = 0 PROVE FALSE OBVIOUS
  <2>1. Len(stream[s]) # 0 BY <1>2, <1>3, EmptySeq
  <2>2. comm[Peer(s)] = "closed" /\ Len(stream[s]) = 1 BY <1>12, <1>13, <2>1
  <2>3. stream[s][1] = Bye BY <2>2 DEF StreamIs
  <2>4. stream[s][1].piece = 1 /\ stream[s][1].item[1] = "done" BY <2>3 DEF Bye, Item
  <2> QED BY <1>5, <1>6, <2>4
<1>8. stream[s][1].piece = 1 /\ \E p \in 1..N : stream[s][1].item = Script[p] /\ Unread(s) = Span(Script[p][1])
  BY <1>7 DEF StreamIs, Fits
<1>9. Unread(s) = Span(Here(s)[1]) BY <1>4, <1>6, <1>8
<1>10. Span(Here(s)[1]) = Pieces(s) BY DEF Span, Pieces, SameGids, Sides
<1>11. ~(Len(stream[s]) < Unread(s)) BY <1>12, <1>13
<1> QED BY <1>2, <1>8, <1>9, <1>10, <1>11

\* A send reaches a peer that lives.
LEMMA DeliversTo ==
  ASSUME IInv, EndsInv, NEW s \in Sides, RdmaDeliver(s)
  PROVE  comm[Peer(s)] # "failed"
<1> USE BothSides
<1> SUFFICES ASSUME comm[Peer(s)] = "failed" PROVE FALSE OBVIOUS
<1>1. Peer(s) = "client" /\ s = "server" /\ Pos("client") = 1 BY DEF EndsInv, Sides, Peer
<1>2. sent["server"] = "posted" BY <1>1 DEF RdmaDeliver
<1>3. todo["server"] # <<>> /\ Head(todo["server"]) = "write" BY <1>2 DEF IInv, SideInv, SentInv
<1>4. Awaits BY <1>2, <1>3, BeforeAnswering
<1>5. ~Ex(1) BY Landmarks DEF IInv
<1>6. todo["client"] = <<>> BY <1>1, <1>5 DEF IInv, SideInv, TodoInv
<1>7. Rest("client") = <<>> BY <1>6, EffIs DEF IInv
<1> QED BY <1>4, <1>7 DEF Awaits

LEMMA PartMoves ==
  ASSUME Types, NEW s \in Sides, NEW msg, PartOver(s, msg)
  PROVE  \A t \in Sides : t # s => left'[t] = left[t] /\ todo'[t] = todo[t]
BY DEF Types, PartOver, Advance

\* A step that closes nothing and fails nothing.
LEMMA EndsStay ==
  ASSUME IInv, EndsInv, [Next]_vars, NEW s \in Sides, Alive(s), comm' = comm, tcp' = tcp,
         \A t \in Sides : sent'[t] # "error",
         \A t \in Sides : t # s => left'[t] = left[t]
  PROVE  EndsInv'
<1>1. opt' = opt BY CmSteps
<1>2. Script' = Script /\ N' = N BY <1>1, PlacesStay
<1>3. \A t \in Sides : Pos(t) \in Int /\ Pos(t)' \in {Pos(t), Pos(t) + 1} BY Moves, EffIs DEF IInv
<1>4. N \in Nat BY Landmarks DEF IInv
<1>5. \A t \in Sides : t # s => Pos(t)' = Pos(t) BY <1>2 DEF Pos
<1>6. \A t \in Sides : comm'[t] = "failed" => t = "client" /\ Pos(t)' = 1
  BY <1>5 DEF EndsInv, Alive
<1>7. \A t \in Sides : N <= Pos(t) => N' <= Pos(t)'
  <2> HIDE DEF N, Pos
  <2> QED BY <1>2, <1>3, <1>4
<1> HIDE DEF N, Pos
<1> QED BY <1>1, <1>6, <1>7 DEF EndsInv

LEMMA DoneEnds ==
  ASSUME IInv, EndsInv, StreamInv, [Next]_vars, NEW s \in Sides, TcpDone(s)
  PROVE  EndsInv'
<1> USE BothSides
<1>0. opt' = opt BY CmSteps
<1>1. Types /\ LeftInv(s) /\ TodoInv(s) /\ DOMAIN comm = Sides /\ DOMAIN tcp = Sides BY DEF IInv, SideInv, Types
<1>2. todo[s] # <<>> /\ Head(todo[s]) = "done" /\ comm[s] = "open" BY DEF TcpDone, Doing
<1>3. ~opt.use_rdma_cm BY <1>1, <1>2, Busy
<1>4. Pos(s) = N - 1 /\ Eff(s) = N /\ sent[s] = "none" /\ left[s] # <<>> BY <1>2, AtGoodbye
<1>5. N \in Nat /\ ~Ex(N) BY <1>1, Landmarks
<1>6. tcp[s] # "reset" BY <1>2 DEF EndsInv
<1>7. Close(s, "closed") /\ Advance(s) /\ sent' = sent BY <1>6 DEF TcpDone
<1>8. N' = N /\ Script' = Script BY <1>0, PlacesStay
<1>9. Pos(s)' = Pos(s) + 1 /\ \A t \in Sides : t # s => left'[t] = left[t] BY <1>0, <1>1, <1>4, <1>7, ForwardLeft
<1>10. \A t \in Sides : t # s => Pos(t)' = Pos(t) BY <1>8, <1>9 DEF Pos
<1>11. comm' = [comm EXCEPT ![s] = "closed"] BY <1>7 DEF Close
<1>12. comm'[s] = "closed" /\ \A t \in Sides : t # s => comm'[t] = comm[t] BY <1>1, <1>11
<1>13. N' <= Pos(s)'
  <2> HIDE DEF N, Pos
  <2> QED BY <1>4, <1>5, <1>8, <1>9
<1>14. Peer(s) \in Sides /\ Peer(s) # s /\ Peer(Peer(s)) = s BY DEF Sides, Peer
<1>15. stream[s] # <<>> => comm[Peer(s)] = "closed"
  <2> SUFFICES ASSUME stream[s] # <<>>, comm[Peer(s)] # "closed" PROVE FALSE OBVIOUS
  <2>1. StreamIs(s) BY <1>2, <1>3 DEF StreamInv
  <2>2. stream[s] \in Seq(Messages) BY <1>1 DEF Types
  <2>3. Unread(s) # 0
    <3>1. Len(stream[s]) \in Nat /\ Len(stream[s]) # 0 BY <2>2, EmptySeq
    <3> QED BY <3>1 DEF Unread
  <2>4. \E p \in 1..N : Ex(p) /\ Eff(s) <= p BY <2>1, <2>3 DEF StreamIs, Fits
  <2> HIDE DEF N
  <2>5. \A p \in 1..N : N <= p => p = N BY <1>5
  <2> QED BY <1>4, <1>5, <2>4, <2>5
<1>16. /\ tcp'[s] = tcp[s]
       /\ tcp'[Peer(s)] = CASE stream[s] # <<>> \/ comm[s] = "backlog" -> "reset"
                            [] stream[s] = <<>> /\ tcp[Peer(s)] = "open" -> "closed"
                            [] OTHER -> tcp[Peer(s)]
  <2>1. tcp' = [tcp EXCEPT ![Peer(s)] =
                   CASE stream[s] # <<>> \/ comm[s] = "backlog" -> "reset"
                     [] stream[s] = <<>> /\ @ = "open" -> "closed"
                     [] OTHER -> @]
    BY <1>2, <1>3, <1>7 DEF Close
  <2> QED BY <1>1, <1>14, <2>1
<1>17. tcp'[Peer(s)] = "reset" => comm[Peer(s)] = "closed"
  <2>1. CASE stream[s] # <<>> BY <1>15, <2>1
  <2>2. CASE stream[s] = <<>> /\ tcp[Peer(s)] = "open" BY <1>2, <1>16, <2>2
  <2>3. CASE stream[s] = <<>> /\ tcp[Peer(s)] # "open"
    <3>1. tcp'[Peer(s)] = tcp[Peer(s)] BY <1>2, <1>16, <2>3
    <3> QED BY <1>14, <3>1 DEF EndsInv
  <2> QED BY <2>1, <2>2, <2>3
<1>18. \A t \in Sides : t = s \/ t = Peer(s) BY DEF Sides, Peer
<1>19. \A t \in Sides : comm'[t] = "failed" => t = "client" /\ Pos(t)' = 1
  BY <1>10, <1>12 DEF EndsInv
<1>20. \A t \in Sides : comm'[t] = "closed" => N' <= Pos(t)' /\ ~opt'.use_rdma_cm
  BY <1>0, <1>3, <1>8, <1>10, <1>12, <1>13 DEF EndsInv
<1>21. \A t \in Sides : tcp'[t] # "open" => comm'[Peer(t)] = "closed"
  BY <1>12, <1>14, <1>16, <1>18 DEF EndsInv
<1>22. \A t \in Sides : tcp'[t] = "reset" => comm'[t] = "closed"
  BY <1>6, <1>12, <1>14, <1>16, <1>17, <1>18
<1>23. \A t \in Sides : sent'[t] # "error" BY <1>7 DEF EndsInv
<1> HIDE DEF N, Pos
<1> QED BY <1>19, <1>20, <1>21, <1>22, <1>23 DEF EndsInv

LEMMA TalkEnds ==
  ASSUME IInv, EndsInv, StreamInv, Orderly, [Next]_vars, NEW s \in Sides, Alive(s), Exchange(s)
  PROVE  EndsInv'
<1>1. Types /\ DOMAIN sent = Sides BY DEF IInv, Types
<1>2. ASSUME comm' = comm, tcp' = tcp, \A t \in Sides : sent'[t] # "error",
             \A t \in Sides : t # s => left'[t] = left[t]
      PROVE  EndsInv'
  BY <1>2, EndsStay
<1>3. ASSUME NEW msg, PartOver(s, msg), comm' = comm, tcp' = tcp, \A t \in Sides : sent'[t] # "error"
      PROVE  EndsInv'
  <2>1. \A t \in Sides : t # s => left'[t] = left[t] BY <1>1, <1>3, PartMoves
  <2> QED BY <1>2, <1>3, <2>1
<1>4. \A t \in Sides : sent[t] # "error" BY DEF EndsInv
<1>5. CASE TcpWrite(s)
  <2>1. ~opt.use_rdma_cm /\ Doing(s, "write") BY <1>5 DEF TcpWrite
  <2>2. tcp[s] = "open" BY <2>1, WritersPeer
  <2>3. PartOver(s, got[s]) /\ comm' = comm /\ tcp' = tcp /\ sent' = sent BY <1>5, <2>2 DEF TcpWrite
  <2> QED BY <1>3, <1>4, <2>3
<1>6. CASE TcpRead(s)
  <2>1. ~opt.use_rdma_cm /\ Doing(s, "read") /\ (stream[s] # <<>> \/ tcp[s] # "open") BY <1>6 DEF TcpRead
  <2>2. StreamIs(s) BY <2>1 DEF StreamInv, Doing
  <2>3. stream[s][1].piece = 1 /\ ~(Len(stream[s]) < Pieces(s)) BY <2>1, <2>2, ReaderFinds DEF Orderly
  <2>4. \E msg : PartOver(s, msg) /\ comm' = comm /\ tcp' = tcp /\ sent' = sent
    <3>1. Head(stream[s]).piece = 1
      <4>1. Head(stream[s]) = stream[s][1] OBVIOUS
      <4> QED BY <2>3, <4>1
    <3>2. ~(Len(stream[s]) < Pieces(s) \/ Head(stream[s]).piece # 1) BY <2>3, <3>1
    <3>3. PartOver(s, [item |-> Head(stream[s]).item, for |-> Here(s), value |-> Head(stream[s]).value])
          /\ UNCHANGED <<comm, tries, tcp, buf, recvs, arrived, sent>>
      BY <1>6, <3>2, Zenon DEF TcpRead
    <3> QED BY <3>3
  <2> QED BY <1>3, <1>4, <2>4
<1>7. CASE TcpDone(s) BY <1>7, DoneEnds
<1>8. CASE RdmaPost(s)
  <2>1. comm' = comm /\ tcp' = tcp /\ sent' = [sent EXCEPT ![s] = "posted"] /\ left' = left BY <1>8 DEF RdmaPost
  <2> QED BY <1>1, <1>2, <1>4, <2>1
<1>9. CASE RdmaWritten(s)
  <2>1. comm' = comm /\ tcp' = tcp /\ sent' = [sent EXCEPT ![s] = "none"] /\ PartOver(s, got[s])
    BY <1>4, <1>9 DEF RdmaWritten
  <2>2. \A t \in Sides : sent'[t] # "error" BY <1>1, <1>4, <2>1
  <2> QED BY <1>3, <2>1, <2>2
<1>10. CASE RdmaRead(s)
  <2>1. PICK msg : PartOver(s, msg) /\ comm' = comm /\ tcp' = tcp /\ sent' = sent BY <1>10 DEF RdmaRead
  <2> QED BY <1>3, <1>4, <2>1
<1> QED BY <1>5, <1>6, <1>7, <1>8, <1>9, <1>10 DEF Exchange

\* No side ends in error but a client that comes too early.
LEMMA EndsKept ==
  ASSUME IInv, EndsInv, StreamInv, HandlersInv, Orderly, \A s \in Sides : at[s] # "failed", [Next]_vars
  PROVE  EndsInv'
<1>1. opt' = opt /\ CommWays BY CmSteps, WaysOfComm
<1>2. Script' = Script /\ N' = N BY <1>1, PlacesStay
<1>3. Types /\ DOMAIN sent = Sides /\ \A t \in Sides : sent[t] # "error" BY DEF IInv, Types, EndsInv
<1>4. CASE UNCHANGED commVars
  <2>1. UNCHANGED <<left, comm, tcp, sent>> BY <1>4 DEF commVars
  <2>2. \A t \in Sides : Pos(t)' = Pos(t) BY <1>2, <2>1 DEF Pos
  <2> HIDE DEF N, Pos
  <2> QED BY <1>1, <1>2, <2>1, <2>2 DEF EndsInv
<1>5. CASE Establish
  <2>1. /\ tcp' = tcp /\ sent' = sent
        /\ \A s \in Sides :
             \/ comm'[s] = comm[s] /\ left'[s] = left[s]
             \/ comm[s] \in Outside /\ comm'[s] \in Outside \cup {"open"}
             \/ s = "client" /\ comm[s] \in Outside /\ comm'[s] = "failed" /\ left'[s] = left[s]
    BY <1>1, <1>5, Meets
  <2>2. \A s \in Sides : comm[s] \in Outside => Pos(s) = 1 BY OutsideIs
  <2>3. \A s \in Sides : left'[s] = left[s] => Pos(s)' = Pos(s) BY <1>2 DEF Pos
  <2>4. {"closed", "failed"} \cap (Outside \cup {"open"}) = {} BY DEF Outside
  <2>5. \A t \in Sides : comm'[t] = "failed" => t = "client" /\ Pos(t)' = 1
    BY <2>1, <2>2, <2>3, <2>4 DEF EndsInv
  <2>6. \A t \in Sides : comm[t] = "closed" <=> comm'[t] = "closed" BY <2>1, <2>4
  <2>7. \A t \in Sides : comm'[t] = "closed" => left'[t] = left[t] BY <2>1, <2>4
  <2>8. \A t \in Sides : Peer(t) \in Sides BY DEF Peer, Sides
  <2> HIDE DEF N, Pos
  <2> QED BY <1>1, <1>2, <2>1, <2>3, <2>5, <2>6, <2>7, <2>8 DEF EndsInv
<1>6. ASSUME NEW s \in Sides, Alive(s), Skips(s) PROVE EndsInv'
  <2>1. comm' = comm /\ tcp' = tcp /\ sent' = sent /\ Advance(s) BY <1>6 DEF Skips, exchanging
  <2>2. \A t \in Sides : t # s => left'[t] = left[t] BY <1>3, <2>1 DEF Advance, Types
  <2> QED BY <1>3, <1>6, <2>1, <2>2, EndsStay
<1>7. ASSUME NEW s \in Sides, Alive(s), RdmaDeliver(s) PROVE EndsInv'
  <2>1. comm[Peer(s)] # "failed" BY <1>7, DeliversTo
  <2>2. comm' = comm /\ tcp' = tcp /\ left' = left /\ sent' = [sent EXCEPT ![s] = "complete"]
    BY <1>7, <2>1 DEF RdmaDeliver
  <2>3. \A t \in Sides : sent'[t] # "error" BY <1>3, <2>2
  <2> QED BY <1>7, <2>2, <2>3, EndsStay
<1>8. ASSUME NEW s \in Sides, Alive(s), Exchange(s) PROVE EndsInv' BY <1>8, TalkEnds
<1> QED BY <1>1, <1>4, <1>5, <1>6, <1>7, <1>8 DEF CommWays

(***************************************************************************)
(* The streams.                                                            *)
(***************************************************************************)
LEMMA UnreadIs ==
  ASSUME NEW s \in Sides, Types
  PROVE  /\ stream[s] \in Seq(Messages) /\ Len(stream[s]) \in Nat
         /\ Unread(s) = IF comm[Peer(s)] = "closed" THEN Len(stream[s]) - 1 ELSE Len(stream[s])
         /\ stream[s] = <<>> <=> Len(stream[s]) = 0
<1>1. stream[s] \in Seq(Messages) BY DEF Types
<1>2. PICK l \in Nat : l = Len(stream[s]) BY <1>1
<1>3. Unread(s) = l - (IF comm[Peer(s)] = "closed" THEN 1 ELSE 0) BY <1>2, Zenon DEF Unread
<1>4. Unread(s) = IF comm[Peer(s)] = "closed" THEN l - 1 ELSE l BY <1>3, SMT
<1> QED BY <1>1, <1>2, <1>4, EmptySeq

\* What waits keeps its reader while that comes no further than the next
\* exchange.
LEMMA StreamStays ==
  ASSUME IInv, NEW s \in Sides, StreamIs(s), opt' = opt, stream'[s] = stream[s],
         comm'[Peer(s)] = "closed" <=> comm[Peer(s)] = "closed",
         \A p \in 1..N : Ex(p) /\ Eff(s) <= p => Eff(s)' <= p
  PROVE  StreamIs(s)'
<1>1. Script' = Script /\ N' = N BY PlacesStay
<1>2. Unread(s)' = Unread(s) BY DEF Unread
<1>3. \A k : Span(k)' = Span(k) BY DEF Span
<1>4. \A p : Ex(p)' = Ex(p) BY <1>1 DEF Ex
<1>5. Bye' = Bye BY DEF Bye, Item
<1>6. comm'[Peer(s)] = "closed" => stream'[s] # <<>> /\ stream'[s][Len(stream'[s])] = Bye' BY <1>5 DEF StreamIs
<1>7. Fits(s, stream[s], Unread(s))' 
  <2>1. CASE Unread(s) = 0 BY <1>2, <2>1 DEF Fits
  <2>2. CASE Unread(s) # 0
    <3>1. stream[s][1].piece = 1 BY <2>2 DEF StreamIs, Fits
    <3>2. PICK p \in 1..N : Ex(p) /\ Eff(s) <= p /\ stream[s][1].item = Script[p] /\ Unread(s) = Span(Script[p][1])
      BY <2>2 DEF StreamIs, Fits
    <3>3. Eff(s)' <= p BY <3>2
    <3> HIDE DEF N, Eff, Script, Unread, Span, Ex
    <3> QED BY <1>1, <1>2, <1>3, <1>4, <3>1, <3>2, <3>3 DEF Fits
  <2> QED BY <2>1, <2>2
<1> QED BY <1>6, <1>7 DEF StreamIs

\* Nothing is unread where all is quiet, and nothing will be where nothing is.
LEMMA QuietRead ==
  ASSUME IInv, NEW s \in Sides, ~opt.use_rdma_cm, StreamIs(s), Quiet(s)
  PROVE  Unread(s) = 0
<1>1. Types BY DEF IInv
<1> SUFFICES ASSUME Unread(s) # 0 PROVE FALSE OBVIOUS
<1>2. /\ stream[s][1].piece = 1
      /\ \E p \in 1..N : Ex(p) /\ Eff(s) <= p
  BY DEF StreamIs, Fits
<1>3. stream[s] # <<>> BY <1>1, UnreadIs DEF StreamIs
<1> QED BY <1>2, <1>3 DEF Quiet, Stuck, ClearFrom

LEMMA ReadStays ==
  ASSUME NEW s \in Sides, StreamIs(s), Unread(s) = 0, stream'[s] = stream[s],
         comm'[Peer(s)] = "closed" <=> comm[Peer(s)] = "closed"
  PROVE  StreamIs(s)'
<1>1. Unread(s)' = 0 BY DEF Unread
<1>2. Bye' = Bye BY DEF Bye, Item
<1> QED BY <1>1, <1>2 DEF StreamIs, Fits

LEMMA WriteStream ==
  ASSUME IInv, EndsInv, StreamInv, SameGids, opt' = opt, NEW s \in Sides, TcpWrite(s)
  PROVE  StreamInv'
<1> DEFINE t == Peer(s)
<1>0. Types /\ SideInv(s) /\ ~opt.use_rdma_cm /\ Doing(s, "write") BY DEF TcpWrite, IInv
<1>1. t \in Sides /\ t # s /\ Peer(t) = s /\ (\A r \in Sides : r = s \/ r = t) /\ comm[s] = "open"
  BY <1>0 DEF Sides, Peer, Doing
<1>2. tcp[s] = "open" /\ sent[s] # "complete" /\ todo[s] # <<>> /\ Head(todo[s]) = "write"
  BY <1>0, WritersPeer
<1>3. PartOver(s, got[s]) /\ stream' = [stream EXCEPT ![t] = @ \o Text(s)] /\ comm' = comm /\ sent' = sent
  BY <1>2 DEF TcpWrite
<1>4. Quiet(s) /\ Quiet(t) /\ Eff(t) <= Pos(s)
  <2>1. CASE s = "client" BY <1>2, <2>1, BeforeAsking, BothSides
  <2>2. CASE s = "server"
    <3>1. Quiet("client") /\ Quiet("server") /\ Eff("client") = Pos("server") BY <1>2, <2>2, BeforeAnswering
    <3>2. Pos("server") \in Int BY EffIs, BothSides DEF IInv
    <3>3. Eff("client") <= Pos("server")
      <4> HIDE DEF Eff, Pos
      <4> QED BY <3>1, <3>2
    <3> QED BY <2>2, <3>1, <3>3, BothSides
  <2> QED BY <2>1, <2>2 DEF Sides
<1>5. Pos(s) \in 1..N /\ Ex(Pos(s)) BY <1>2, AtExchange
<1>6. left'[t] = left[t] /\ todo'[t] = todo[t] BY <1>0, <1>1, <1>3, PartMoves
<1>7. Eff(t)' = Eff(t) BY <1>1, <1>3, <1>6, Unmoved
<1>8. Script' = Script /\ N' = N BY PlacesStay
<1>9. DOMAIN stream = Sides BY <1>0 DEF Types
<1> HIDE DEF t
<1>10. StreamIs(s)'
  <2>1. StreamIs(s) BY <1>0, <1>1 DEF StreamInv
  <2>2. Unread(s) = 0 BY <1>0, <1>4, <2>1, QuietRead
  <2>3. stream'[s] = stream[s] BY <1>1, <1>3, <1>9
  <2> QED BY <1>3, <2>1, <2>2, <2>3, ReadStays
<1>11. ASSUME comm[t] # "closed" PROVE StreamIs(t)'
  <2>1. StreamIs(t) BY <1>0, <1>1, <1>11 DEF StreamInv
  <2>2. Unread(t) = 0 BY <1>0, <1>1, <1>4, <2>1, QuietRead
  <2>3. stream[t] = <<>> BY <1>0, <1>1, <2>2, UnreadIs
  <2>4. stream'[t] = Text(s)
    <3>1. stream'[t] = <<>> \o Text(s) BY <1>1, <1>3, <1>9, <2>3
    <3>2. Text(s) \in Seq(Messages) BY <1>0, <1>2, TextIs
    <3> QED BY <3>1, <3>2
  <2>5. Len(Text(s)) = Pieces(s) /\ Text(s)[1].piece = 1 /\ Text(s)[1].item = Script[Pos(s)] /\ Len(Text(s)) \in {1, 2}
    BY <1>0, <1>2, TextIs DEF Data
  <2>6. comm'[Peer(t)] # "closed" BY <1>1, <1>3
  <2>7. Unread(t)' = Pieces(s)
    <3>1. Unread(t)' = Len(Text(s)) - 0 BY <2>4, <2>6, Zenon DEF Unread
    <3> QED BY <2>5, <3>1
  <2>8. Pieces(s) = Span(Script[Pos(s)][1])
    <3>1. Here(s) = Script[Pos(s)] BY <1>0, <1>2, Busy DEF SideInv
    <3> QED BY <3>1 DEF Pieces, Span, SameGids, Sides
  <2>9. \A k : Span(k)' = Span(k) BY DEF Span
  <2>10. \A p : Ex(p)' = Ex(p) BY <1>8 DEF Ex
  <2>11. Fits(t, stream[t], Unread(t))'
    <3> HIDE DEF N, Eff, Script, Unread, Span, Ex, Pos, Pieces, Text
    <3> QED BY <1>4, <1>5, <1>7, <1>8, <2>4, <2>5, <2>7, <2>8, <2>9, <2>10 DEF Fits
  <2> QED BY <2>6, <2>11 DEF StreamIs
<1> QED BY <1>1, <1>3, <1>10, <1>11 DEF StreamInv

LEMMA LastOf ==
  ASSUME NEW S, NEW q \in Seq(S), NEW l \in Nat, l = Len(q)
  PROVE  /\ SubSeq(q, l + 1, l) = <<>>
         /\ l # 0 => Len(SubSeq(q, l, l)) = 1 /\ SubSeq(q, l, l)[1] = q[l] /\ SubSeq(q, l, l) # <<>>
<1>1. SubSeq(q, l + 1, l) = <<>> OBVIOUS
<1>2. l # 0 => Len(SubSeq(q, l, l)) = 1 /\ SubSeq(q, l, l)[1] = q[l] OBVIOUS
<1>3. Len(<<>>) # 1 OBVIOUS
<1> QED BY <1>1, <1>2, <1>3

LEMMA ReadStream ==
  ASSUME IInv, EndsInv, StreamInv, SameGids, opt' = opt, NEW s \in Sides, TcpRead(s)
  PROVE  StreamInv'
<1> DEFINE t == Peer(s)
<1>0. Types /\ SideInv(s) /\ ~opt.use_rdma_cm /\ Doing(s, "read") /\ (stream[s] # <<>> \/ tcp[s] # "open")
  BY DEF TcpRead, IInv
<1>1. t \in Sides /\ t # s /\ Peer(t) = s /\ (\A r \in Sides : r = s \/ r = t) /\ comm[s] = "open"
  BY <1>0 DEF Sides, Peer, Doing
<1>2. StreamIs(s) BY <1>0, <1>1 DEF StreamInv
<1>3. stream[s][1].piece = 1 /\ Unread(s) = Pieces(s) /\ ~(Len(stream[s]) < Pieces(s)) BY <1>0, <1>2, ReaderFinds
<1>4. Head(stream[s]) = stream[s][1] OBVIOUS
<1>5. /\ PartOver(s, [item |-> Head(stream[s]).item, for |-> Here(s), value |-> Head(stream[s]).value])
      /\ stream' = [stream EXCEPT ![s] = SubSeq(@, Pieces(s) + 1, Len(@))]
      /\ comm' = comm /\ sent' = sent
  <2>1. ~(Len(stream[s]) < Pieces(s) \/ Head(stream[s]).piece # 1) BY <1>3, <1>4
  <2> QED BY <2>1, Zenon DEF TcpRead
<1>6. left'[t] = left[t] /\ todo'[t] = todo[t] BY <1>0, <1>1, <1>5, PartMoves
<1>7. Eff(t)' = Eff(t) BY <1>1, <1>5, <1>6, Unmoved
<1>8. DOMAIN stream = Sides BY <1>0 DEF Types
<1>9. stream'[s] = SubSeq(stream[s], Pieces(s) + 1, Len(stream[s])) /\ stream'[t] = stream[t] BY <1>1, <1>5, <1>8
<1>10. PICK l \in Nat : l = Len(stream[s]) BY <1>0, UnreadIs
<1>11. Pieces(s) = IF comm[t] = "closed" THEN l - 1 ELSE l BY <1>0, <1>3, <1>10, UnreadIs
<1> HIDE DEF t
<1>12. Bye' = Bye BY DEF Bye, Item
<1>13. StreamIs(s)'
  <2>1. CASE comm[t] = "closed"
    <3>1. stream[s] # <<>> /\ stream[s][l] = Bye /\ l # 0 BY <1>0, <1>2, <1>10, <2>1, UnreadIs DEF StreamIs, t
    <3>2. Pieces(s) + 1 = l BY <1>11, <2>1
    <3>3. Len(stream'[s]) = 1 /\ stream'[s][1] = Bye /\ stream'[s] # <<>>
      BY SMTT(30), <1>0, <1>9, <1>10, <3>1, <3>2, LastOf DEF Types
    <3>4. Unread(s)' = 0
      <4>1. Unread(s)' = 1 - 1 BY <1>5, <2>1, <3>3, Zenon DEF Unread, t
      <4> QED BY <4>1
    <3> QED BY <1>12, <3>3, <3>4 DEF StreamIs, Fits
  <2>2. CASE comm[t] # "closed"
    <3>1. Pieces(s) = l BY <1>11, <2>2
    <3>2. stream'[s] = <<>> BY <1>0, <1>9, <1>10, <3>1, LastOf DEF Types
    <3>3. comm'[Peer(s)] # "closed" BY <1>5, <2>2 DEF t
    <3>4. Unread(s)' = 0
      <4>1. Unread(s)' = Len(<<>>) - 0 BY <3>2, <3>3, Zenon DEF Unread
      <4> QED BY <4>1
    <3> QED BY <3>3, <3>4 DEF StreamIs, Fits
  <2> QED BY <2>1, <2>2
<1>14. ASSUME comm[t] # "closed" PROVE StreamIs(t)'
  <2>1. StreamIs(t) BY <1>0, <1>1, <1>14 DEF StreamInv
  <2> QED BY <1>1, <1>5, <1>7, <1>9, <2>1, StreamStays
<1> QED BY <1>1, <1>5, <1>13, <1>14 DEF StreamInv

LEMMA DoneStream ==
  ASSUME IInv, EndsInv, StreamInv, opt' = opt, NEW s \in Sides, TcpDone(s)
  PROVE  StreamInv'
<1> DEFINE t == Peer(s)
<1>0. Types /\ LeftInv(s) /\ TodoInv(s) /\ DOMAIN comm = Sides /\ DOMAIN stream = Sides BY DEF IInv, SideInv, Types
<1>1. todo[s] # <<>> /\ Head(todo[s]) = "done" /\ comm[s] = "open" BY DEF TcpDone, Doing
<1>2. ~opt.use_rdma_cm /\ left[s] # <<>> BY <1>0, <1>1, Busy
<1>3. t \in Sides /\ t # s /\ Peer(t) = s /\ (\A r \in Sides : r = s \/ r = t) BY DEF Sides, Peer
<1>4. tcp[s] # "reset" BY <1>1 DEF EndsInv
<1>5. Close(s, "closed") /\ Advance(s) /\ sent' = sent
      /\ stream' = IF tcp[s] = "open"
                   THEN [stream EXCEPT ![t] = Append(@, [item |-> Item("done"), value |-> 0, piece |-> 1])] ELSE stream
  BY <1>4 DEF TcpDone
<1>6. comm'[s] = "closed" /\ comm'[t] = comm[t] BY <1>0, <1>3, <1>5 DEF Close
<1>7. left'[t] = left[t] /\ todo'[t] = todo[t] BY <1>0, <1>2, <1>3, <1>5, ForwardLeft
<1>8. Eff(t)' = Eff(t) BY <1>3, <1>5, <1>7, Unmoved
<1>9. Script' = Script /\ N' = N BY PlacesStay
<1> HIDE DEF t
<1>10. ASSUME comm[t] # "closed" PROVE StreamIs(t)'
  <2>1. StreamIs(t) BY <1>2, <1>3, <1>10 DEF StreamInv
  <2>2. tcp[s] = "open"
    <3>1. tcp[s] # "open" => comm[Peer(s)] = "closed" BY DEF EndsInv
    <3> QED BY <1>10, <3>1 DEF t
  <2>3. stream'[t] = Append(stream[t], Bye) BY <1>0, <1>3, <1>5, <2>2 DEF Bye
  <2>4. PICK l \in Nat : l = Len(stream[t]) BY <1>0, <1>3, UnreadIs
  <2>5. Unread(t) = l /\ stream[t] \in Seq(Messages) BY <1>0, <1>1, <1>3, <2>4, UnreadIs
  <2>6. /\ Len(Append(stream[t], Bye)) = l + 1 /\ Append(stream[t], Bye)[l + 1] = Bye
        /\ l # 0 => Append(stream[t], Bye)[1] = stream[t][1]
        /\ Append(stream[t], Bye) # <<>>
    <3>1. Bye \in Messages BY DEF Bye, Messages, Item
    <3> HIDE DEF Bye
    <3>2. Len(Append(stream[t], Bye)) = l + 1 /\ Append(stream[t], Bye)[l + 1] = Bye BY <2>4, <2>5
    <3>3. l # 0 => Append(stream[t], Bye)[1] = stream[t][1] BY <2>4, <2>5, <3>1
    <3>4. Append(stream[t], Bye) # <<>>
      <4>1. Len(<<>>) = 0 /\ l + 1 # 0 BY <2>4
      <4> HIDE <2>4
      <4> QED BY <3>2, <4>1
    <3> QED BY <3>2, <3>3, <3>4
  <2>7. Unread(t)' = l
    <3>1. Unread(t)' = (l + 1) - 1 BY <1>3, <1>6, <2>3, <2>6, Zenon DEF Unread
    <3> QED BY <3>1
  <2>8. Bye' = Bye BY DEF Bye, Item
  <2>9. stream'[t] # <<>> /\ stream'[t][Len(stream'[t])] = Bye' BY <2>3, <2>6, <2>8
  <2>10. \A k : Span(k)' = Span(k) BY DEF Span
  <2>11. \A p : Ex(p)' = Ex(p) BY <1>9 DEF Ex
  <2>12. Fits(t, stream[t], Unread(t))'
    <3>1. CASE l = 0 BY <2>7, <3>1 DEF Fits
    <3>2. CASE l # 0
      <4>1. stream[t][1].piece = 1 /\ stream'[t][1] = stream[t][1] BY <2>1, <2>3, <2>5, <2>6, <3>2 DEF StreamIs, Fits
      <4>2. \E p \in 1..N : Ex(p) /\ Eff(t) <= p /\ stream[t][1].item = Script[p] /\ l = Span(Script[p][1])
        BY <2>1, <2>5, <3>2 DEF StreamIs, Fits
      <4> HIDE DEF N, Eff, Script, Unread, Span, Ex
      <4> QED BY <1>8, <1>9, <2>7, <2>10, <2>11, <4>1, <4>2 DEF Fits
    <3> QED BY <3>1, <3>2
  <2> QED BY <2>9, <2>12 DEF StreamIs
<1> QED BY <1>3, <1>6, <1>10 DEF StreamInv

\* Who skips an item comes no further than the next exchange.
LEMMA SkipsNone ==
  ASSUME IInv, NEW s \in Sides, left[s] # <<>>, ~Ex(Pos(s)), Advance(s), sent' = sent, opt' = opt
  PROVE  \A p \in 1..N : Ex(p) /\ Eff(s) <= p => Eff(s)' <= p
<1>1. Types /\ SideInv(s) /\ LeftInv(s) /\ TodoInv(s) BY DEF IInv, SideInv
<1>2. Pos(s) \in 1..N /\ N \in Nat BY <1>1, HereIs
<1>3. todo[s] = <<>> BY <1>1, <1>2 DEF TodoInv
<1>4. sent[s] = "none" /\ Eff(s) = Pos(s) BY <1>1, <1>3, EffIs
<1>5. Eff(s)' = Pos(s) + 1 BY <1>1, <1>4, Forward
<1> SUFFICES ASSUME NEW p \in 1..N, Ex(p), Eff(s) <= p PROVE Eff(s)' <= p OBVIOUS
<1>6. p # Pos(s) OBVIOUS
<1> HIDE DEF N, Pos, Eff, Ex
<1> QED BY <1>2, <1>4, <1>5, <1>6

LEMMA StreamKept ==
  ASSUME IInv, EndsInv, StreamInv, HandlersInv, Orderly, \A s \in Sides : at[s] # "failed", [Next]_vars
  PROVE  StreamInv'
<1>1. opt' = opt /\ CommWays BY CmSteps, WaysOfComm
<1> SUFFICES ASSUME ~opt.use_rdma_cm PROVE StreamInv' BY <1>1 DEF StreamInv
<1>2. \A s \in Sides : Peer(s) \in Sides BY DEF Peer, Sides
<1>3. ASSUME stream' = stream, sent' = sent,
             \A s \in Sides : comm'[s] = "closed" <=> comm[s] = "closed",
             \A s \in Sides : \/ left'[s] = left[s] /\ todo'[s] = todo[s]
                              \/ left[s] # <<>> /\ ~Ex(Pos(s)) /\ Advance(s)
      PROVE  StreamInv'
  <2>1. ASSUME NEW s \in Sides, comm'[s] # "closed" PROVE StreamIs(s)'
    <3>1. StreamIs(s) BY <1>3, <2>1 DEF StreamInv
    <3>2. \A p \in 1..N : Ex(p) /\ Eff(s) <= p => Eff(s)' <= p
      <4>1. CASE left'[s] = left[s] /\ todo'[s] = todo[s] BY <1>1, <1>3, <4>1, Unmoved
      <4>2. CASE left[s] # <<>> /\ ~Ex(Pos(s)) /\ Advance(s) BY <1>1, <1>3, <4>2, SkipsNone
      <4> QED BY <1>3, <4>1, <4>2
    <3>3. comm'[Peer(s)] = "closed" <=> comm[Peer(s)] = "closed" BY <1>2, <1>3
    <3> QED BY <1>1, <1>3, <3>1, <3>2, <3>3, StreamStays
  <2> QED BY <2>1 DEF StreamInv
<1>4. CASE UNCHANGED commVars BY <1>3, <1>4 DEF commVars
<1>5. CASE Establish
  <2>1. /\ stream' = stream /\ sent' = sent
        /\ \A s \in Sides :
             /\ comm'[s] = comm[s] \/ (comm[s] \in Outside /\ comm'[s] \in Outside \cup {"open", "failed"})
             /\ \/ left'[s] = left[s] /\ todo'[s] = todo[s]
                \/ left[s] # <<>> /\ ~Ex(Pos(s)) /\ Advance(s)
    BY <1>1, <1>5, Meets
  <2>2. "closed" \notin Outside \cup {"open", "failed"} BY DEF Outside
  <2>3. \A s \in Sides : comm'[s] = "closed" <=> comm[s] = "closed" BY <2>1, <2>2
  <2> QED BY <1>3, <2>1, <2>3
<1>6. ASSUME NEW s \in Sides, Skips(s) PROVE StreamInv'
  <2>1. /\ left[s] # <<>> /\ ~Ex(Pos(s)) /\ Advance(s) /\ stream' = stream /\ sent' = sent /\ comm' = comm
    BY <1>6 DEF Skips, exchanging
  <2>2. \A t \in Sides : t # s => left'[t] = left[t] /\ todo'[t] = todo[t]
    BY <1>1, <2>1, ForwardLeft DEF IInv, SideInv
  <2>3. \A t \in Sides : \/ left'[t] = left[t] /\ todo'[t] = todo[t]
                         \/ left[t] # <<>> /\ ~Ex(Pos(t)) /\ Advance(t)
    BY <2>1, <2>2
  <2> QED BY <1>3, <2>1, <2>3
<1>7. \A s \in Sides : sent[s] = "none" BY DEF IInv, SideInv, SentInv
<1>8. ASSUME NEW s \in Sides, Exchange(s) PROVE StreamInv'
  <2>1. ~RdmaPost(s) /\ ~RdmaWritten(s) /\ ~RdmaRead(s) BY <1>7 DEF RdmaPost, RdmaWritten, RdmaRead
  <2> QED BY <1>1, <1>8, <2>1, WriteStream, ReadStream, DoneStream DEF Exchange, Orderly
<1>9. ASSUME NEW s \in Sides PROVE ~RdmaDeliver(s) BY <1>7 DEF RdmaDeliver
<1> QED BY <1>1, <1>4, <1>5, <1>6, <1>8, <1>9 DEF CommWays

(***************************************************************************)
(* The end.                                                                *)
(***************************************************************************)
\* A test that was refused stays where it is.
LEMMA RefusedStill ==
  ASSUME RefusedInv, opt.refused, [Next]_vars
  PROVE  left' = left
<1>1. \A s \in Sides : ~Alive(s) BY DEF RefusedInv, Alive
<1>2. ~Establish
  BY BothSides DEF RefusedInv, Establish, Listen, TcpConnect, TcpAccept, RdmaResolve, RdmaRefused, RdmaAccept, RdmaEstablished
<1>3. CASE UNCHANGED vars BY <1>3 DEF vars, commVars
<1>4. CASE Network BY <1>1, <1>2, <1>4 DEF Network, Meet, CmKernel, Wire, Device, commVars
<1>5. ASSUME NEW s \in Sides, Program(s) \/ Crash(s) \/ Interrupt(s) PROVE FALSE
  BY <1>1, <1>5 DEF Program, Talk, Now, CmAllocate, CmEnter, CmHandler, CmLeave, Initialize, Credit, Pair,
     Ready, Begin, Work, Over, Disconnects, Destroys, Ends, Crash, Interrupt
<1>6. ASSUME NEW s \in Sides, CmGone(s) PROVE left' = left BY <1>6 DEF CmGone, commVars
<1> QED BY <1>3, <1>4, <1>5, <1>6 DEF Next

LEMMA OrderStarts == ASSUME Init PROVE OrderInv
<1>1. N \in Nat BY AtTheStart, Landmarks DEF IInv
<1>2. \A s \in Sides : Pos(s) = 1
  <2>1. \A s \in Sides : left[s] = Script BY DEF Init, CommInit
  <2>2. \A s \in Sides : Pos(s) = N + 1 - N BY <2>1 DEF Pos, N
  <2> HIDE DEF N, Pos
  <2> QED BY <1>1, <2>2
<1>3. ASSUME Orderly PROVE EndsInv /\ StreamInv /\ HandlersInv /\ \A s \in Sides : at[s] # "failed"
  <2>1. \A s \in Sides : /\ comm[s] = "off" /\ tcp[s] = "open" /\ sent[s] = "none" /\ stream[s] = <<>>
                         /\ cmPc[s] = "idle" /\ at[s] = "idle"
    BY <1>3 DEF Orderly, Init, CommInit, CmInit, QueuesInit
  <2>2. \A s \in Sides : Peer(s) \in Sides BY DEF Peer, Sides
  <2>3. EndsInv BY <2>1 DEF EndsInv
  <2>4. ASSUME NEW s \in Sides PROVE StreamIs(s)
    <3>1. comm[Peer(s)] # "closed" BY <2>1, <2>2
    <3>2. Unread(s) = Len(<<>>) - 0 BY <2>1, <3>1, Zenon DEF Unread
    <3>3. Unread(s) = 0 BY <3>2
    <3> QED BY <3>1, <3>3 DEF StreamIs, Fits
  <2>5. HandlersInv
    <3>1. \A s \in Sides : ~Through(s) BY <1>2 DEF Through
    <3> QED BY <2>1, <3>1, BothSides DEF HandlersInv, Failing
  <2> QED BY <2>1, <2>3, <2>4, <2>5 DEF StreamInv
<1> QED BY <1>2, <1>3, BothSides DEF OrderInv

LEMMA OrderKept ==
  ASSUME IInv, CmInv, UdInv, LoopInv, RefusedInv, OrderInv, [Next]_vars
  PROVE  OrderInv'
<1>1. opt' = opt BY CmSteps
<1>2. opt.refused => Pos("client")' = 1
  <2> SUFFICES ASSUME opt.refused PROVE Pos("client")' = 1 OBVIOUS
  <2>1. left' = left BY RefusedStill
  <2>2. Pos("client")' = Pos("client") BY <1>1, <2>1, PlacesStay DEF Pos
  <2> QED BY <2>2 DEF OrderInv
<1>3. Orderly' => Orderly BY <1>1, KeysStay DEF Orderly, SameGids, NeedsReply, IsUd, BothWays
<1>4. ASSUME Orderly, ~Turned'
      PROVE  EndsInv' /\ StreamInv' /\ HandlersInv' /\ \A s \in Sides : at'[s] # "failed"
  <2>1. ~Turned BY <1>4, TurnedStays
  <2>2. EndsInv /\ StreamInv /\ HandlersInv /\ \A s \in Sides : at[s] # "failed" BY <1>4, <2>1 DEF OrderInv
  <2> QED BY <1>4, <2>2, EndsKept, StreamKept, HandlersKept, PlacesKept
<1> QED BY <1>1, <1>2, <1>3, <1>4 DEF OrderInv

\* Who has joined is past the first item.
LEMMA JoinedPast == ASSUME IInv, NEW s \in Sides, Joined(s) PROVE Pos(s) # 1
<1>1. LeftInv(s) /\ N \in Nat /\ N >= 7 /\ Script[1][1] = "connect" /\ Len(left[s]) \in Nat
      /\ DOMAIN left[s] = 1..Len(left[s])
  BY Landmarks, ScriptFacts, HereIs DEF IInv, SideInv, Types, ScriptOK
<1> SUFFICES ASSUME Pos(s) = 1 PROVE FALSE OBVIOUS
<1>2. PICK n \in Nat : n = N /\ n >= 7 BY <1>1
<1>3. PICK l \in Nat : l = Len(left[s]) BY <1>1
<1>4. n + 1 - l = 1 BY <1>2, <1>3 DEF Pos
<1>5. l = n /\ 1 \in 1..l /\ n - l + 1 = 1 BY <1>2, <1>4
<1>6. left[s][1] = Script[1]
  <2>1. left[s][1] = Script[n - l + 1] BY <1>1, <1>2, <1>3, <1>5 DEF LeftInv
  <2> QED BY <1>5, <2>1
<1> QED BY <1>1, <1>3, <1>5, <1>6 DEF Joined, Past

LEMMA OrderlyThen ==
  ASSUME IInv, OrderInv, NeedsReply => opt.num_of_qps = 1
  PROVE  OrderlyEnd
<1> SUFFICES ASSUME ~opt.faults, ~KeysMissed, SameGids, Joined("client"), ~(\E i \in Ids : link[i] = "refused"), NEW s \in Sides
             PROVE  comm[s] # "failed"
  BY DEF OrderlyEnd
<1>1. Pos("client") # 1 BY JoinedPast, BothSides
<1>2. Orderly /\ ~Turned BY <1>1 DEF OrderInv, Orderly, Turned
<1>3. EndsInv BY <1>2 DEF OrderInv
<1> QED BY <1>1, <1>3 DEF EndsInv

\* Without faults, once the client has joined, as long as no request was turned
\* away and no key is missed, no side ends in error: neither in an exchange nor
\* in a handler of the manager, in a loop or in the closing; if only a test whose
\* datagrams must be answered has one queue pair.
THEOREM OrderlyAlways == Spec => []((NeedsReply => opt.num_of_qps = 1) => OrderlyEnd)
<1> DEFINE All == IInv /\ CmInv /\ UdInv /\ LoopInv /\ RefusedInv /\ OrderInv
<1>1. Init => All BY AtTheStart, CmStarts, UdStarts, LoopAtStart, RefusedAtStart, OrderStarts
<1>2. All /\ [Next]_vars => All'
  <2> SUFFICES ASSUME All, [Next]_vars PROVE All' OBVIOUS
  <2>1. IInv' BY NextKept
  <2>2. CmInv' BY CmSteps, CmKept, CmStill
  <2>3. UdInv' BY CmSteps, UdKept
  <2>4. LoopInv'
    <3>1. CASE Next BY <3>1, LoopNextKept
    <3>2. CASE UNCHANGED vars BY <3>2, LoopStill DEF vars, queueVars
    <3> QED BY <3>1, <3>2
  <2>5. RefusedInv' BY RefusedKept
  <2>6. OrderInv' BY OrderKept
  <2> QED BY <2>1, <2>2, <2>3, <2>4, <2>5, <2>6
<1>3. All => ((NeedsReply => opt.num_of_qps = 1) => OrderlyEnd) BY OrderlyThen
<1> HIDE DEF All
<1> QED BY <1>1, <1>2, <1>3, PTL DEF Spec
=============================================================================
