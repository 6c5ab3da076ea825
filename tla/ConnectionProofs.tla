-------------------------- MODULE ConnectionProofs --------------------------
(***************************************************************************)
(* Proofs about Connection for any number of clients, retries and receive  *)
(* work requests: the strengthened invariant IInv is inductive, and from   *)
(* it follow type correctness, that main outlives run(), the agreement of  *)
(* the two sides, the life of the queue pair, and the refinement of        *)
(* Session.                                                                *)
(***************************************************************************)
EXTENDS Connection, TLAPS

(***************************************************************************)
(* Queues of events.                                                       *)
(***************************************************************************)

LEMMA ElemsAppend ==
  ASSUME NEW s \in Seq(Event), NEW e \in Event
  PROVE  /\ Append(s, e) \in Seq(Event)
         /\ Elems(Append(s, e)) \subseteq Elems(s) \cup {e}
  BY DEF Elems

LEMMA ElemsTail ==
  ASSUME NEW s \in Seq(Event), s # <<>>
  PROVE  /\ Tail(s) \in Seq(Event) /\ Elems(Tail(s)) \subseteq Elems(s)
         /\ Head(s) \in Event /\ Head(s) \in Elems(s)
  BY DEF Elems

LEMMA ElemsConcat ==
  ASSUME NEW s \in Seq(Event), NEW t \in Seq(Event)
  PROVE  s \o t \in Seq(Event) /\ Elems(s \o t) \subseteq Elems(s) \cup Elems(t)
  BY DEF Elems

LEMMA ElemsEmpty == <<>> \in Seq(Event) /\ Elems(<<>>) = {}
  BY DEF Elems

LEMMA ElemsOne ==
  ASSUME NEW e \in Event
  PROVE  <<e>> \in Seq(Event) /\ Elems(<<e>>) = {e}
  BY DEF Elems

LEMMA ElemsType == ASSUME NEW s \in Seq(Event) PROVE Elems(s) \subseteq Event
  BY DEF Elems

LEMMA EvType ==
  ASSUME NEW t \in EventTypes, NEW c \in Clients
  PROVE  Ev(t, c) \in Event /\ Ev(t, c).type = t /\ Ev(t, c).id = c /\ Ev(t, c) # None
  BY NoneAssumption DEF Ev, Event

LEMMA ProcsFacts ==
  /\ Server \in Procs /\ Clients \subseteq Procs /\ Server \notin Clients
  /\ None \notin Clients /\ None \notin Event
  /\ \A p \in Procs : p # Server => p \in Clients
  BY ProcessAssumption, NoneAssumption DEF Procs

(***************************************************************************)
(* What links and the taken client may do in a step: what an event says of *)
(* its connection stays true.                                              *)
(***************************************************************************)
LinkStep ==
  /\ cm_id' = cm_id \/ cm_id = None
  /\ \A c \in Clients :
       /\ link[c] \in {"up", "down"} => link'[c] \in {"up", "down"}
       /\ link[c] = "down" => link'[c] = "down"

LEMMA SoundStep ==
  ASSUME LinkStep, NEW p \in Procs, NEW e \in Event, Sound(p, e)
  PROVE  Sound(p, e)'
<1>1. e.id \in Clients
  BY DEF Event
<1> QED BY <1>1, ProcsFacts DEF LinkStep, Sound

LEMMA EventsKept ==
  ASSUME TypeOK, EventInv, LinkStep,
         \A p \in Procs : \A e \in Elems(events'[p]) :
           e \in Elems(events[p]) \/ Queued(p, e)',
         \A p \in Procs : cur'[p] = None \/ cur'[p] = cur[p] \/ Sound(p, cur[p])'
  PROVE  EventInv'
<1> SUFFICES ASSUME NEW p \in Procs
             PROVE  /\ \A e \in Elems(events'[p]) : Queued(p, e)'
                    /\ cur'[p] # None => Sound(p, cur[p])'
  BY DEF EventInv
<1>1. \A e \in Elems(events'[p]) : Queued(p, e)'
  <2> SUFFICES ASSUME NEW e \in Elems(events[p]) PROVE Queued(p, e)'
    OBVIOUS
  <2>1. e \in Event
    BY ElemsType DEF TypeOK
  <2> QED BY <2>1, SoundStep DEF EventInv, Queued
<1>2. ASSUME cur'[p] # None PROVE Sound(p, cur[p])'
  <2>1. CASE cur'[p] = cur[p]
    <3>1. cur[p] \in Event /\ Sound(p, cur[p])
      BY <1>2, <2>1 DEF EventInv, TypeOK
    <3> DEFINE e == cur[p]
    <3>2. \A f \in Event : Sound(p, f) => Sound(p, f)'
      BY SoundStep
    <3> QED BY <3>1, <3>2, <2>1 DEF Sound
  <2> QED BY <1>2, <2>1
<1> QED BY <1>1, <1>2

(***************************************************************************)
(* Steps of the two threads that touch neither events nor connections.     *)
(***************************************************************************)
LEMMA QuietStep ==
  ASSUME IInv, NEW p \in Procs, NEW where \in Threads,
         where \notin {"new", "addr", "route", "first", "serve", "handle"},
         p # Server /\ where \in Dialing => pc[p] \in Dialing,
         p = Server /\ where \in {"setup", "listen"} => pc[p] \in {"new", "setup"},
         where # "ended" => alive'[p],
         pc[p] \in Threads,
         Goto(p, where),
         alive' \in [Procs -> BOOLEAN],
         \A q \in Procs \ {p} : alive'[q] = alive[q],
         UNCHANGED <<mpc, retry, cmVars, connVars>>
  PROVE  IInv'
<1> USE DEF IInv
<1>0. /\ pc' = [pc EXCEPT ![p] = where]
      /\ UNCHANGED <<mpc, retry, events, cur, unacked, link, cm_id, qp, recvs, connected, wire>>
  BY DEF Goto, cmVars, connVars
<1>1. TypeOK'
  BY <1>0 DEF TypeOK
<1>2. DriverInv'
  BY <1>0 DEF DriverInv, TypeOK, Threads, Crashes, Running, Dead
<1>3. RetryInv'
  BY <1>0, ProcsFacts DEF RetryInv, TypeOK
<1>4. HandlerInv'
  BY <1>0 DEF HandlerInv, TypeOK
<1>5. ServerInv'
  BY <1>0, ProcsFacts DEF ServerInv, TypeOK, Threads
<1>6. LinkInv'
  BY <1>0, ProcsFacts DEF LinkInv, TypeOK
<1>7. EventInv'
  BY <1>0 DEF EventInv, Queued, Sound
<1> QED BY <1>1, <1>2, <1>3, <1>4, <1>5, <1>6, <1>7

LEMMA StartInv == ASSUME IInv, NEW p \in Procs, Start(p) PROVE IInv'
<1>1. alive' = [alive EXCEPT ![p] = TRUE] /\ alive \in [Procs -> BOOLEAN]
  BY DEF Start, IInv, TypeOK
<1> QED BY <1>1, QuietStep DEF Start, Threads, Dialing

LEMMA FinishInv == ASSUME IInv, NEW p \in Procs, Finish(p) PROVE IInv'
<1>1. alive' = [alive EXCEPT ![p] = FALSE] /\ alive \in [Procs -> BOOLEAN]
  BY DEF Finish, IInv, TypeOK
<1> QED BY <1>1, QuietStep DEF Finish, Threads, Dialing

LEMMA ServerSetupInv == ASSUME IInv, ServerSetup PROVE IInv'
<1>1. /\ pc[Server] = "setup" /\ alive' = alive /\ alive[Server]
      /\ alive \in [Procs -> BOOLEAN]
  BY ProcsFacts DEF ServerSetup, threadVars, IInv, TypeOK, DriverInv, Running, Threads
<1>2. PICK next \in {"listen", "done"} : Goto(Server, next)
  BY DEF ServerSetup
<1> QED BY <1>1, <1>2, QuietStep, ProcsFacts DEF ServerSetup, threadVars, Threads, Dialing

LEMMA ClientSetupInv == ASSUME IInv, NEW c \in Clients, ClientSetup(c) PROVE IInv'
<1>1. /\ pc[c] = "setup" /\ alive' = alive /\ alive[c]
      /\ alive \in [Procs -> BOOLEAN]
  BY ProcsFacts DEF ClientSetup, threadVars, IInv, TypeOK, DriverInv, Running, Threads
<1>2. PICK next \in {"resolve", "done"} : Goto(c, next)
  BY DEF ClientSetup
<1> QED BY <1>1, <1>2, QuietStep, ProcsFacts DEF ClientSetup, threadVars, Threads, Dialing

LEMMA MainWakeInv == ASSUME IInv, NEW p \in Procs, MainWake(p) PROVE IInv'
<1> USE DEF IInv
<1>0. /\ mpc[p] = "sleep" /\ mpc' = [mpc EXCEPT ![p] = "spin"]
      /\ UNCHANGED <<pc, alive, retry, events, cur, unacked, link, cm_id, qp, recvs,
                     connected, wire>>
  BY DEF MainWake, cmVars, connVars
<1>1. TypeOK'
  BY <1>0 DEF TypeOK
<1>2. DriverInv'
  BY <1>0 DEF DriverInv, TypeOK, Dead
<1>3. RetryInv' /\ HandlerInv' /\ ServerInv' /\ LinkInv'
  BY <1>0 DEF RetryInv, HandlerInv, ServerInv, LinkInv
<1>4. EventInv'
  BY <1>0 DEF EventInv, Queued, Sound
<1> QED BY <1>1, <1>2, <1>3, <1>4

(***************************************************************************)
(* The death of a process, whatever its reason.                            *)
(***************************************************************************)
LEMMA CutType ==
  ASSUME NEW state \in {"idle", "req", "lost", "rep", "up", "down"}
  PROVE  Cut(state) \in {"idle", "req", "lost", "rep", "up", "down"}
  BY DEF Cut

LEMMA NoticeType ==
  ASSUME TypeOK, NEW p \in Procs, NEW q \in Procs
  PROVE  /\ Notice(p, q) \in Seq(Event)
         /\ \A e \in Elems(Notice(p, q)) :
              /\ e.type \in {"DISCONNECTED", "OTHER"}
              /\ p \in {Server, e.id}
              /\ q # Server => e.id = q
              /\ e.type = "DISCONNECTED" => link[e.id] = "up"
<1> DEFINE c == IF p = Server THEN q ELSE p
<1>1. CASE (p = Server) = (q = Server)
  BY <1>1, ElemsEmpty DEF Notice
<1>2. CASE ~ ((p = Server) = (q = Server))
  <2>1. c \in Clients /\ p \in {Server, c} /\ (q # Server => c = q)
    BY <1>2, ProcsFacts
  <2>2. /\ Ev("DISCONNECTED", c) \in Event /\ Ev("OTHER", c) \in Event
        /\ Ev("DISCONNECTED", c).type = "DISCONNECTED" /\ Ev("DISCONNECTED", c).id = c
        /\ Ev("OTHER", c).type = "OTHER" /\ Ev("OTHER", c).id = c
    BY <2>1, EvType DEF EventTypes
  <2>3. \/ Notice(p, q) = <<Ev("DISCONNECTED", c)>> /\ link[c] = "up"
        \/ Notice(p, q) = <<Ev("OTHER", c)>>
        \/ Notice(p, q) = <<>>
    BY <1>2 DEF Notice
  <2>4. /\ Elems(<<Ev("DISCONNECTED", c)>>) = {Ev("DISCONNECTED", c)}
        /\ Elems(<<Ev("OTHER", c)>>) = {Ev("OTHER", c)}
        /\ <<Ev("DISCONNECTED", c)>> \in Seq(Event) /\ <<Ev("OTHER", c)>> \in Seq(Event)
    BY <2>2, ElemsOne
  <2> HIDE DEF c
  <2> QED BY <2>1, <2>2, <2>3, <2>4, ElemsEmpty
<1> QED BY <1>1, <1>2

LEMMA DieInv ==
  ASSUME IInv, NEW p \in Procs, NEW how \in Crashes, Die(p, how)
  PROVE  IInv'
<1> USE DEF IInv
<1>0. /\ mpc' = [mpc EXCEPT ![p] = "dead"] /\ pc' = [pc EXCEPT ![p] = how]
      /\ cur' = [cur EXCEPT ![p] = None] /\ alive' = [alive EXCEPT ![p] = FALSE]
      /\ unacked' = [unacked EXCEPT ![p] = FALSE] /\ wire' = wire \ {p}
      /\ UNCHANGED <<retry, cm_id, qp, recvs, connected>>
  BY DEF Die, Goto
<1>1. events' = [q \in Procs |-> IF q = p \/ Dead(q) THEN <<>> ELSE events[q] \o Notice(p, q)]
  BY DEF Die
<1>2. link' = [c \in Clients |-> IF p \in {Server, c} THEN Cut(link[c]) ELSE link[c]]
  BY DEF Die
<1>3. how \notin Threads /\ how \in Crashes
  BY DEF Threads, Crashes
<1>4. \A q \in Procs : events'[q] \in Seq(Event)
  <2> SUFFICES ASSUME NEW q \in Procs PROVE events'[q] \in Seq(Event)
    OBVIOUS
  <2>1. events[q] \in Seq(Event) /\ Notice(p, q) \in Seq(Event)
    BY NoticeType DEF TypeOK
  <2>2. events[q] \o Notice(p, q) \in Seq(Event)
    BY <2>1, ElemsConcat
  <2> QED BY <1>1, <2>2, ElemsEmpty
<1>5. link' \in [Clients -> {"idle", "req", "lost", "rep", "up", "down"}]
  <2>1. \A c \in Clients : link'[c] \in {"idle", "req", "lost", "rep", "up", "down"}
    BY <1>2, CutType DEF TypeOK
  <2> QED BY <1>2, <2>1
<1>6. TypeOK'
  <2>1. events' \in [Procs -> Seq(Event)]
    BY <1>1, <1>4
  <2> QED BY <1>0, <1>3, <1>5, <2>1 DEF TypeOK
<1>7. /\ LinkStep
      /\ \A c \in Clients : link'[c] \in {"rep", "up", "down"} => link[c] \in {"rep", "up", "down"}
      /\ \A c \in Clients : link'[c] \in {"up", "down"} => link[c] \in {"up", "down"}
      /\ \A c \in Clients : link[c] = "idle" => link'[c] = "idle"
      /\ \A c \in Clients : p \in {Server, c} /\ link[c] = "up" => link'[c] = "down"
  BY <1>0, <1>2 DEF LinkStep, Cut
<1>8. DriverInv'
  BY <1>0, <1>3 DEF DriverInv, TypeOK, Dead, Running, Crashes
<1>9. RetryInv'
  BY <1>0, <1>3, ProcsFacts DEF RetryInv, TypeOK, Threads
<1>10. HandlerInv'
  BY <1>0, <1>3 DEF HandlerInv, TypeOK, Threads
<1>11. ServerInv'
  BY <1>0, <1>3, <1>7, ProcsFacts DEF ServerInv, TypeOK, Threads, LinkStep
<1>12. LinkInv'
  BY <1>0, <1>3, <1>7, ProcsFacts DEF LinkInv, TypeOK, Threads, Dialing
<1>13. EventInv'
  <2>1. ASSUME NEW q \in Procs, NEW e \in Elems(events'[q])
        PROVE  e \in Elems(events[q]) \/ Queued(q, e)'
    <3>1. CASE q = p \/ Dead(q)
      BY <1>1, <2>1, <3>1, ElemsEmpty
    <3>2. CASE ~ (q = p \/ Dead(q))
      <4>1. events'[q] = events[q] \o Notice(p, q)
        BY <1>1, <3>2
      <4>2. e \in Elems(events[q]) \/ e \in Elems(Notice(p, q))
        BY <2>1, <4>1, ElemsConcat, NoticeType DEF TypeOK
      <4>3. ASSUME e \in Elems(Notice(p, q)) PROVE Queued(q, e)'
        <5>1. /\ e \in Event /\ e.type \in {"DISCONNECTED", "OTHER"}
              /\ p \in {Server, e.id} /\ (q # Server => e.id = q)
              /\ e.type = "DISCONNECTED" => link[e.id] = "up"
          BY <4>3, NoticeType, ElemsType
        <5>2. e.id \in Clients
          BY <5>1 DEF Event
        <5> QED BY <1>7, <5>1, <5>2 DEF Sound, Queued
      <4> QED BY <4>2, <4>3
    <3> QED BY <3>1, <3>2
  <2>2. \A q \in Procs : cur'[q] = None \/ cur'[q] = cur[q]
    BY <1>0 DEF TypeOK
  <2> QED BY <1>7, <2>1, <2>2, EventsKept
<1> QED BY <1>6, <1>8, <1>9, <1>10, <1>11, <1>12, <1>13

LEMMA KillInv == ASSUME IInv, NEW p \in Procs, Kill(p) PROVE IInv'
  BY DieInv DEF Kill, Crashes

LEMMA MainExitInv == ASSUME IInv, NEW p \in Procs, MainExit(p) PROVE IInv'
  BY DieInv DEF MainExit, Crashes

LEMMA BuildCrashInv == ASSUME IInv, NEW p \in Procs, BuildCrash(p) PROVE IInv'
  BY DieInv DEF BuildCrash, Crashes

(***************************************************************************)
(* The other steps of the environment.                                     *)
(***************************************************************************)
LEMMA PostType ==
  ASSUME TypeOK, NEW p \in Procs, NEW t \in EventTypes, NEW c \in Clients,
         NEW es, es = Post(p, t, c)
  PROVE  /\ es \in [Procs -> Seq(Event)]
         /\ \A q \in Procs : \A e \in Elems(es[q]) :
              e \in Elems(events[q]) \/ (q = p /\ e = Ev(t, c))
<1>1. Ev(t, c) \in Event
  BY EvType
<1>2. es = [events EXCEPT ![p] = Append(@, Ev(t, c))] /\ events \in [Procs -> Seq(Event)]
  BY DEF Post, TypeOK
<1>3. /\ Append(events[p], Ev(t, c)) \in Seq(Event)
      /\ Elems(Append(events[p], Ev(t, c))) \subseteq Elems(events[p]) \cup {Ev(t, c)}
  BY <1>1, <1>2, ElemsAppend
<1> QED BY <1>2, <1>3

LEMMA OtherSound ==
  ASSUME NEW p \in Procs, NEW c \in Clients, p \in {Server, c}
  PROVE  Queued(p, Ev("OTHER", c))'
  BY DEF Queued, Sound, Ev

LEMMA TimeoutInv == ASSUME IInv, NEW c \in Clients, Timeout(c) PROVE IInv'
<1> USE DEF IInv
<1>0. /\ link[c] = "req" /\ link' = [link EXCEPT ![c] = "lost"]
      /\ events' = Post(c, "OTHER", c)
      /\ UNCHANGED <<pc, mpc, alive, retry, cur, unacked, cm_id, qp, recvs, connected, wire>>
  BY DEF Timeout, threadVars, connVars
<1>1. /\ events' \in [Procs -> Seq(Event)]
      /\ \A q \in Procs : \A e \in Elems(events'[q]) :
           e \in Elems(events[q]) \/ (q = c /\ e = Ev("OTHER", c))
  BY <1>0, PostType, ProcsFacts DEF EventTypes
<1>2. TypeOK'
  BY <1>0, <1>1 DEF TypeOK
<1>3. DriverInv' /\ RetryInv' /\ HandlerInv'
  BY <1>0 DEF DriverInv, Dead, RetryInv, HandlerInv
<1>4. LinkStep
  BY <1>0 DEF LinkStep, TypeOK
<1>5. ServerInv'
  BY <1>0, <1>4 DEF ServerInv, LinkStep
<1>6. LinkInv'
  BY <1>0 DEF LinkInv, TypeOK
<1>7. EventInv'
  BY <1>0, <1>1, <1>4, EventsKept, OtherSound, ProcsFacts
<1> QED BY <1>2, <1>3, <1>5, <1>6, <1>7

LEMMA DeviceRemovalInv == ASSUME IInv, NEW p \in Procs, DeviceRemoval(p) PROVE IInv'
<1> USE DEF IInv
<1>0. UNCHANGED <<pc, mpc, alive, retry, cur, unacked, link, cm_id, qp, recvs, connected, wire>>
  BY DEF DeviceRemoval, threadVars, connVars
<1>00. PICK c \in Clients : p \in {Server, c} /\ events' = Post(p, "OTHER", c)
  BY DEF DeviceRemoval
<1>1. /\ events' \in [Procs -> Seq(Event)]
      /\ \A q \in Procs : \A e \in Elems(events'[q]) :
           e \in Elems(events[q]) \/ (q = p /\ e = Ev("OTHER", c))
  <2>1. TypeOK /\ "OTHER" \in EventTypes /\ events' = Post(p, "OTHER", c)
    BY <1>00 DEF EventTypes
  <2> QED BY <2>1, PostType
<1>2. TypeOK'
  BY <1>0, <1>1 DEF TypeOK
<1>3. DriverInv' /\ RetryInv' /\ HandlerInv' /\ ServerInv' /\ LinkInv'
  BY <1>0 DEF DriverInv, Dead, RetryInv, HandlerInv, ServerInv, LinkInv
<1>4. LinkStep
  BY <1>0 DEF LinkStep
<1>7. EventInv'
  BY <1>0, <1>00, <1>1, <1>4, EventsKept, OtherSound
<1> QED BY <1>2, <1>3, <1>7

LEMMA DeliverInv == ASSUME IInv, NEW p \in Procs, Deliver(p) PROVE IInv'
<1> USE DEF IInv
<1>0. /\ wire' = wire \ {p}
      /\ recvs' = IF qp[p] = "live" /\ recvs[p] > 0
                  THEN [recvs EXCEPT ![p] = @ - 1] ELSE recvs
      /\ UNCHANGED <<pc, mpc, alive, retry, events, cur, unacked, link, cm_id, qp, connected>>
  BY DEF Deliver, threadVars, cmVars
<1>1. recvs' \in [Procs -> 0 .. WrNumber]
  BY <1>0, BoundAssumption DEF TypeOK
<1>2. TypeOK'
  BY <1>0, <1>1 DEF TypeOK
<1>3. DriverInv' /\ RetryInv' /\ HandlerInv' /\ ServerInv' /\ LinkInv'
  BY <1>0 DEF DriverInv, Dead, RetryInv, HandlerInv, ServerInv, LinkInv
<1>4. EventInv'
  BY <1>0 DEF EventInv, Queued, Sound
<1> QED BY <1>2, <1>3, <1>4

LEMMA StopInv == ASSUME IInv, NEW p \in Procs, Stop(p) PROVE IInv'
<1> USE DEF IInv
<1>00. PICK c : c = IF p = Server THEN cm_id ELSE p
  OBVIOUS
<1>0. /\ connected[p] /\ link[c] = "up" /\ link' = [link EXCEPT ![c] = "down"]
      /\ events' = [q \in Procs |->
             IF q \in {Server, c} /\ ~Dead(q)
             THEN Append(events[q], Ev("DISCONNECTED", c)) ELSE events[q]]
      /\ UNCHANGED <<pc, mpc, alive, retry, cur, unacked, cm_id, qp, recvs, connected, wire>>
  BY <1>00 DEF Stop, threadVars, connVars
<1>1. c \in Clients
  BY <1>00, <1>0, ProcsFacts DEF ServerInv
<1>2. Ev("DISCONNECTED", c) \in Event
  BY <1>1, EvType DEF EventTypes
<1>3. \A q \in Procs :
        /\ events'[q] \in Seq(Event)
        /\ \A e \in Elems(events'[q]) :
             \/ e \in Elems(events[q])
             \/ q \in {Server, c} /\ e = Ev("DISCONNECTED", c)
  BY <1>0, <1>2, ElemsAppend DEF TypeOK
<1>4. TypeOK'
  <2>1. events' \in [Procs -> Seq(Event)]
    BY <1>0, <1>3
  <2> QED BY <1>0, <1>1, <2>1 DEF TypeOK
<1>5. DriverInv' /\ RetryInv' /\ HandlerInv'
  BY <1>0 DEF DriverInv, Dead, RetryInv, HandlerInv
<1>6. LinkStep /\ link'[c] = "down"
  BY <1>0, <1>1 DEF LinkStep, TypeOK
<1>7. ServerInv'
  BY <1>0, <1>6 DEF ServerInv, LinkStep
<1>8. LinkInv'
  BY <1>0, <1>1 DEF LinkInv, TypeOK
<1>9. \A q \in {Server, c} : Queued(q, Ev("DISCONNECTED", c))'
  BY <1>1, <1>6, ProcsFacts DEF Queued, Sound, Ev
<1>10. EventInv'
  BY <1>0, <1>3, <1>6, <1>9, EventsKept
<1> QED BY <1>4, <1>5, <1>7, <1>8, <1>10

(***************************************************************************)
(* The event loops.                                                        *)
(***************************************************************************)
LEMMA OnEventInv == ASSUME IInv, NEW p \in Procs, OnEvent(p) PROVE IInv'
<1> USE DEF IInv
<1>0. /\ pc[p] = "handle" /\ cur' = [cur EXCEPT ![p] = None]
      /\ UNCHANGED <<mpc, alive, retry, events, unacked, link, cm_id>>
  BY DEF OnEvent, threadVars
<1>1. cur[p] \in Event /\ Sound(p, cur[p]) /\ cur[p].id \in Clients
  <2>1. cur[p] \in Event
    BY <1>0 DEF HandlerInv
  <2> QED BY <2>1, ProcsFacts DEF EventInv, Event
<1>2. PICK where \in {"serve", "close", "blocked"} : pc' = [pc EXCEPT ![p] = where]
  BY DEF OnEvent, OnConnection, OnDisconnect, Goto
<1>3. \/ /\ cur[p].type = "ESTABLISHED" /\ where = "serve"
         /\ connected' = [connected EXCEPT ![p] = TRUE]
         /\ wire' = wire \cup {q \in {Server, cur[p].id} \ {p} : ~Dead(q)}
         /\ UNCHANGED <<qp, recvs>>
      \/ /\ where # "serve"
         /\ qp' = [qp EXCEPT ![p] = "gone"] /\ recvs' = [recvs EXCEPT ![p] = 0]
         /\ UNCHANGED <<connected, wire>>
      \/ /\ where # "serve"
         /\ UNCHANGED <<qp, recvs, connected, wire>>
  <2>1. CASE cur[p].type = "ESTABLISHED" /\ OnConnection(p, cur[p].id)
    <3>1. where = "serve"
      BY <1>2, <2>1 DEF OnConnection, Goto, TypeOK
    <3> QED BY <2>1, <3>1 DEF OnConnection
  <2>2. CASE OnDisconnect(p)
    <3>1. where # "serve"
      BY <1>2, <2>2 DEF OnDisconnect, Goto, TypeOK
    <3> QED BY <2>2, <3>1 DEF OnDisconnect
  <2>3. CASE Goto(p, "close") /\ UNCHANGED <<qp, recvs, connected, wire>>
    <3>1. where # "serve"
      BY <1>2, <2>3 DEF Goto, TypeOK
    <3> QED BY <2>3, <3>1
  <2> QED BY <2>1, <2>2, <2>3 DEF OnEvent
<1>4. TypeOK'
  <2>1. recvs' \in [Procs -> 0 .. WrNumber]
    <3>1. 0 \in 0 .. WrNumber
      BY BoundAssumption
    <3>2. recvs \in [Procs -> 0 .. WrNumber]
      BY DEF TypeOK
    <3> QED BY <1>3, <3>1, <3>2
  <2>2. wire' \subseteq Procs
    BY <1>1, <1>3, ProcsFacts DEF TypeOK
  <2>3. qp' \in [Procs -> {"none", "live", "gone"}] /\ connected' \in [Procs -> BOOLEAN]
    BY <1>3 DEF TypeOK
  <2>4. pc' \in [Procs -> Threads \cup Crashes] /\ cur' \in [Procs -> Event \cup {None}]
    BY <1>0, <1>2 DEF TypeOK, Threads
  <2> QED BY <1>0, <2>1, <2>2, <2>3, <2>4 DEF TypeOK
<1>5. DriverInv'
  BY <1>0, <1>2 DEF DriverInv, TypeOK, Dead, Running, Threads, Crashes
<1>6. RetryInv'
  BY <1>0, <1>2, ProcsFacts DEF RetryInv, TypeOK
<1>7. HandlerInv'
  BY <1>0, <1>2, <1>3 DEF HandlerInv, TypeOK
<1>8. ServerInv'
  BY <1>0, <1>1, <1>2, <1>3, ProcsFacts DEF ServerInv, TypeOK, Sound, LinkInv
<1>9. LinkInv'
  BY <1>0, <1>1, <1>2, <1>3, ProcsFacts DEF LinkInv, TypeOK, Dialing, Sound
<1>10. EventInv'
  <2>1. LinkStep
    BY <1>0 DEF LinkStep
  <2> QED BY <1>0, <2>1, EventsKept DEF TypeOK
<1> QED BY <1>4, <1>5, <1>6, <1>7, <1>8, <1>9, <1>10

LEMMA RetrieveInv == ASSUME IInv, NEW p \in Procs, Retrieve(p) PROVE IInv'
<1> USE DEF IInv
<1>0. /\ pc[p] = "serve" /\ events[p] # <<>> /\ pc' = [pc EXCEPT ![p] = "handle"]
      /\ unacked' = [unacked EXCEPT ![p] = FALSE]
      /\ UNCHANGED <<mpc, alive, retry, cm_id, qp, recvs, connected, wire>>
  BY DEF Retrieve, GetEvent, Goto, threadVars, connVars
<1>1. PICK ev : ev = Head(events[p])
  OBVIOUS
<1>1a. PICK response \in BOOLEAN :
        response = (p # Server /\ ev.type = "CONNECT_RESPONSE" /\ qp[p] = "live")
  OBVIOUS
<1>1b. PICK told \in IF response THEN {Ev("ESTABLISHED", p), Ev("OTHER", p)} ELSE {ev} :
        LET raised == response /\ told.type = "ESTABLISHED"
        IN /\ cur' = [cur EXCEPT ![p] = told]
           /\ events' = [q \in Procs |->
                IF q = p THEN Tail(events[p])
                ELSE IF raised /\ q = Server /\ link[p] = "rep"
                THEN Append(events[q], Ev("ESTABLISHED", p)) ELSE events[q]]
           /\ link' = IF raised /\ link[p] = "rep" THEN [link EXCEPT ![p] = "up"] ELSE link
  BY <1>1, <1>1a DEF Retrieve, GetEvent
<1>2. PICK up \in BOOLEAN : up = (response /\ told.type = "ESTABLISHED")
  OBVIOUS
<1>3. /\ cur' = [cur EXCEPT ![p] = told]
      /\ events' = [q \in Procs |->
             IF q = p THEN Tail(events[p])
             ELSE IF up /\ q = Server /\ link[p] = "rep"
             THEN Append(events[q], Ev("ESTABLISHED", p)) ELSE events[q]]
      /\ link' = IF up /\ link[p] = "rep" THEN [link EXCEPT ![p] = "up"] ELSE link
  BY <1>2, <1>1b
<1>3a. /\ response => p \in Clients /\ p # Server
       /\ up => told = Ev("ESTABLISHED", p)
       /\ ~up => told = ev \/ (p \in Clients /\ told = Ev("OTHER", p))
       /\ up => response
  <2>1. p # Server => p \in Clients
    BY ProcsFacts
  <2>2. CASE p \in Clients
    <3>1. Ev("OTHER", p).type = "OTHER" /\ Ev("ESTABLISHED", p).type = "ESTABLISHED"
      BY <2>2, EvType DEF EventTypes
    <3>2. CASE response
      <4>1. told \in {Ev("ESTABLISHED", p), Ev("OTHER", p)}
        BY <1>1b, <3>2
      <4>2. p # Server
        BY <1>1a, <3>2
      <4>3. up <=> told = Ev("ESTABLISHED", p)
        BY <1>2, <3>1, <3>2, <4>1
      <4> QED BY <2>2, <3>2, <4>1, <4>2, <4>3
    <3>3. CASE ~response
      BY <1>1b, <1>2, <3>3
    <3> QED BY <3>2, <3>3
  <2>3. CASE p \notin Clients
    BY <1>1a, <1>1b, <1>2, <2>1, <2>3
  <2> QED BY <2>2, <2>3
<1>4. /\ Tail(events[p]) \in Seq(Event) /\ Elems(Tail(events[p])) \subseteq Elems(events[p])
      /\ ev \in Event /\ Queued(p, ev) /\ Sound(p, ev)
  BY <1>0, <1>1, ElemsTail DEF TypeOK, EventInv, Queued
<1>5. up => p \in Clients /\ p # Server /\ cm_id = p /\ qp[p] = "live"
  BY <1>1a, <1>3a, <1>4, ProcsFacts DEF Sound
<1>5a. told \in Event /\ (~up /\ p # Server => told.type # "ESTABLISHED")
  <2>1. CASE told = ev
    BY <1>2, <1>4, <2>1 DEF Queued
  <2>2. CASE told = Ev("ESTABLISHED", p) /\ up
    BY <1>5, <2>2, EvType DEF EventTypes
  <2>3. CASE told = Ev("OTHER", p) /\ p \in Clients
    BY <2>3, EvType DEF EventTypes
  <2> QED BY <1>3a, <2>1, <2>2, <2>3
<1>6. up => /\ Ev("ESTABLISHED", p) \in Event
            /\ Ev("ESTABLISHED", p).type = "ESTABLISHED" /\ Ev("ESTABLISHED", p).id = p
  BY <1>5, EvType DEF EventTypes
<1>7. \A q \in Procs :
        /\ events'[q] \in Seq(Event)
        /\ \A e \in Elems(events'[q]) :
             \/ e \in Elems(events[q])
             \/ up /\ q = Server /\ link[p] = "rep" /\ e = Ev("ESTABLISHED", p)
  BY <1>3, <1>4, <1>6, ElemsAppend DEF TypeOK
<1>8. TypeOK'
  <2>1. events' \in [Procs -> Seq(Event)]
    BY <1>3, <1>7
  <2>2. cur' \in [Procs -> Event \cup {None}]
    BY <1>3, <1>5a DEF TypeOK
  <2>3. link' \in [Clients -> {"idle", "req", "lost", "rep", "up", "down"}]
    BY <1>3, <1>5 DEF TypeOK
  <2>4. pc' \in [Procs -> Threads \cup Crashes] /\ unacked' \in [Procs -> BOOLEAN]
    BY <1>0 DEF TypeOK, Threads
  <2> QED BY <1>0, <2>1, <2>2, <2>3, <2>4 DEF TypeOK
<1>9. /\ LinkStep
      /\ up /\ link[p] = "rep" => link'[p] = "up"
      /\ \A c \in Clients : c # p \/ ~up => link'[c] = link[c]
      /\ \A c \in Clients : link[c] = "idle" => link'[c] = "idle"
  BY <1>0, <1>3, <1>5 DEF LinkStep, TypeOK
<1>10. DriverInv'
  BY <1>0 DEF DriverInv, TypeOK, Dead, Running, Threads, Crashes
<1>11. RetryInv'
  BY <1>0, ProcsFacts DEF RetryInv, TypeOK
<1>12. HandlerInv'
  <2>1. cur'[p] \in Event /\ (cur'[p].type = "ESTABLISHED" => qp[p] = "live")
    <3>1. CASE up
      BY <1>3, <1>5, <1>3a, <1>5a, <3>1 DEF TypeOK
    <3>2. CASE ~up
      <4>1. cur'[p] = told
        BY <1>3 DEF TypeOK
      <4>2. told.type = "ESTABLISHED" => qp[p] = "live"
        <5>1. CASE p = Server
          BY <1>0, <5>1 DEF ServerInv
        <5>2. CASE p # Server
          BY <1>5a, <3>2, <5>2
        <5> QED BY <5>1, <5>2
      <4> QED BY <1>5a, <4>1, <4>2
    <3> QED BY <3>1, <3>2
  <2> QED BY <1>0, <1>3, <2>1 DEF HandlerInv, TypeOK
<1>13. ServerInv'
  BY <1>0, <1>5, <1>9, ProcsFacts DEF ServerInv, TypeOK, LinkStep
<1>14. LinkInv'
  BY <1>0, <1>3, <1>5, <1>9, ProcsFacts DEF LinkInv, TypeOK, Dialing
<1>15. EventInv'
  <2>1. up /\ link[p] = "rep" => Queued(Server, Ev("ESTABLISHED", p))'
    BY <1>5, <1>6, <1>9 DEF Queued, Sound
  <2>2. up => Sound(p, Ev("ESTABLISHED", p))'
    BY <1>0, <1>5, <1>6 DEF Sound
  <2>3. Sound(p, ev)'
    BY <1>4, <1>9, SoundStep
  <2>4. \A q \in Procs : cur'[q] = None \/ cur'[q] = cur[q] \/ Sound(q, cur[q])'
    <3> SUFFICES ASSUME NEW q \in Procs
                 PROVE cur'[q] = None \/ cur'[q] = cur[q] \/ Sound(q, cur[q])'
      OBVIOUS
    <3>1. CASE q = p
      <4>1. cur'[p] = told
        BY <1>3 DEF TypeOK
      <4>2. p \in Clients => Sound(p, Ev("OTHER", p))'
        BY EvType DEF Sound, EventTypes
      <4>3. Sound(p, told)'
        BY <1>3a, <2>2, <2>3, <4>2
      <4> QED BY <3>1, <4>1, <4>3 DEF Sound
    <3>2. CASE q # p
      BY <1>3, <3>2 DEF TypeOK
    <3> QED BY <3>1, <3>2
  <2> QED BY <1>7, <1>9, <2>1, <2>4, EventsKept
<1> QED BY <1>8, <1>10, <1>11, <1>12, <1>13, <1>14, <1>15

(***************************************************************************)
(* RDMAServer::run.                                                        *)
(***************************************************************************)
LEMMA RetrieveFirstInv == ASSUME IInv, RetrieveFirst PROVE IInv'
<1> USE DEF IInv
<1>0. /\ pc[Server] = "listen" /\ events[Server] # <<>> /\ pc' = [pc EXCEPT ![Server] = "first"]
      /\ cur' = [cur EXCEPT ![Server] = Head(events[Server])]
      /\ events' = [events EXCEPT ![Server] = Tail(@)]
      /\ unacked' = [unacked EXCEPT ![Server] = TRUE]
      /\ UNCHANGED <<mpc, alive, retry, link, cm_id, qp, recvs, connected, wire>>
  BY DEF RetrieveFirst, Goto, threadVars, connVars
<1>1. PICK ev : ev = Head(events[Server])
  OBVIOUS
<1>2. /\ Tail(events[Server]) \in Seq(Event)
      /\ Elems(Tail(events[Server])) \subseteq Elems(events[Server])
      /\ ev \in Event /\ Sound(Server, ev)
  BY <1>0, <1>1, ElemsTail, ProcsFacts DEF TypeOK, EventInv, Queued
<1>3. TypeOK'
  BY <1>0, <1>1, <1>2 DEF TypeOK, Threads
<1>4. DriverInv'
  BY <1>0 DEF DriverInv, TypeOK, Dead, Running, Threads, Crashes
<1>5. RetryInv'
  BY <1>0, ProcsFacts DEF RetryInv, TypeOK
<1>6. HandlerInv'
  BY <1>0, <1>1, <1>2 DEF HandlerInv, TypeOK
<1>7. ServerInv' /\ LinkInv'
  BY <1>0, ProcsFacts DEF ServerInv, LinkInv, TypeOK
<1>8. EventInv'
  <2>1. LinkStep
    BY <1>0 DEF LinkStep
  <2>2. \A q \in Procs : \A e \in Elems(events'[q]) : e \in Elems(events[q])
    BY <1>0, <1>2 DEF TypeOK
  <2>3. Sound(Server, ev)'
    BY <1>2, <2>1, SoundStep, ProcsFacts
  <2>4. \A q \in Procs : cur'[q] = cur[q] \/ (q = Server /\ cur'[q] = ev)
    BY <1>0, <1>1 DEF TypeOK
  <2>5. \A q \in Procs : cur'[q] = cur[q] \/ Sound(q, cur[q])'
    BY <2>3, <2>4 DEF Sound
  <2> QED BY <2>1, <2>2, <2>5, EventsKept
<1> QED BY <1>3, <1>4, <1>5, <1>6, <1>7, <1>8

LEMMA RecvsType ==
  ASSUME TypeOK, NEW p \in Procs, NEW rs, rs = PostRecvs(p)
  PROVE  rs \in [Procs -> 0 .. WrNumber]
<1>1. WrNumber \in 0 .. WrNumber
  BY BoundAssumption
<1> QED BY <1>1 DEF TypeOK, PostRecvs

(* The first request: the server names its client, before it can fail. *)
LEMMA ServerFirstInv == ASSUME IInv, ServerFirst PROVE IInv'
<1> USE DEF IInv
<1>0. /\ pc[Server] = "first" /\ cur' = [cur EXCEPT ![Server] = None]
      /\ UNCHANGED <<mpc, alive, retry, wire>>
  BY DEF ServerFirst, OnConnectRequest
<1>1. PICK c : c = cur[Server].id
  OBVIOUS
<1>2. c \in Clients /\ cm_id = None /\ ~connected[Server]
  BY <1>0, <1>1, ProcsFacts DEF HandlerInv, ServerInv, Event
<1>3. \/ /\ cm_id' = c /\ Build(Server) /\ Accepting(c, "serve")
      \/ /\ pc' = [pc EXCEPT ![Server] = "done"]
         /\ UNCHANGED <<events, unacked, link>>
         /\ cm_id' \in {c, cm_id}
         /\ Build(Server) \/ UNCHANGED <<qp, recvs, connected>>
  BY <1>1 DEF ServerFirst, OnConnectRequest, Goto
<1>4. PICK where \in {"serve", "done"} :
        /\ pc' = [pc EXCEPT ![Server] = where]
        /\ where = "serve" => /\ cm_id' = c
                              /\ qp' = [qp EXCEPT ![Server] = "live"]
  BY <1>3 DEF Accepting, Build, Goto
<1>5. /\ cm_id' \in {c, cm_id}
      /\ qp' \in [Procs -> {"none", "live", "gone"}]
      /\ recvs' \in [Procs -> 0 .. WrNumber]
      /\ connected' \in [Procs -> BOOLEAN] /\ ~connected'[Server]
      /\ unacked' \in [Procs -> BOOLEAN]
      /\ \A q \in Clients : qp'[q] = qp[q] /\ connected'[q] = connected[q]
  <2>1. Build(Server) => recvs' \in [Procs -> 0 .. WrNumber]
    BY RecvsType, ProcsFacts DEF Build
  <2>2. Build(Server) \/ UNCHANGED <<qp, recvs, connected>>
    BY <1>3
  <2>3. recvs' \in [Procs -> 0 .. WrNumber]
    BY <2>1, <2>2 DEF TypeOK
  <2>4. cm_id' \in {c, cm_id}
    BY <1>3
  <2>5. unacked' \in [Procs -> BOOLEAN]
    BY <1>3 DEF Accepting, TypeOK
  <2>6. /\ qp' \in [Procs -> {"none", "live", "gone"}]
        /\ connected' \in [Procs -> BOOLEAN]
    BY <2>2 DEF Build, TypeOK
  <2>7. ~connected'[Server]
    BY <1>2, <2>2, ProcsFacts DEF Build, TypeOK
  <2>8. \A q \in Clients : qp'[q] = qp[q] /\ connected'[q] = connected[q]
    BY <2>2, ProcsFacts DEF Build, TypeOK
  <2> QED BY <2>3, <2>4, <2>5, <2>6, <2>7, <2>8
<1>6. \/ events' = events /\ link' = link
      \/ /\ events' = Post(c, "CONNECT_RESPONSE", c) /\ link[c] = "req"
         /\ link' = [link EXCEPT ![c] = "rep"] /\ cm_id' = c
      \/ events' = Post(Server, "OTHER", c) /\ link' = link
  BY <1>3 DEF Accepting, Accept
<1>7. /\ events' \in [Procs -> Seq(Event)]
      /\ \A q \in Procs : \A e \in Elems(events'[q]) :
           \/ e \in Elems(events[q])
           \/ q = Server /\ e = Ev("OTHER", c)
           \/ q = c /\ e = Ev("CONNECT_RESPONSE", c) /\ cm_id' = c
  <2>1. /\ TypeOK /\ "OTHER" \in EventTypes /\ "CONNECT_RESPONSE" \in EventTypes
        /\ c \in Procs /\ Server \in Procs
    BY <1>2, ProcsFacts DEF EventTypes
  <2>2. CASE events' = events
    BY <2>2 DEF TypeOK
  <2>3. CASE events' = Post(c, "CONNECT_RESPONSE", c) /\ cm_id' = c
    <3>1. /\ events' \in [Procs -> Seq(Event)]
          /\ \A q \in Procs : \A e \in Elems(events'[q]) :
               e \in Elems(events[q]) \/ (q = c /\ e = Ev("CONNECT_RESPONSE", c))
      BY <1>2, <2>1, <2>3, PostType
    <3> QED BY <2>3, <3>1
  <2>4. CASE events' = Post(Server, "OTHER", c)
    BY <1>2, <2>1, <2>4, PostType
  <2> QED BY <1>6, <2>2, <2>3, <2>4
<1>8. /\ LinkStep
      /\ \A q \in Clients : link'[q] = link[q] \/ (q = c /\ cm_id' = c /\ link[q] = "req" /\ link'[q] = "rep")
  BY <1>2, <1>6 DEF LinkStep, TypeOK
<1>9. TypeOK'
  BY <1>0, <1>2, <1>4, <1>5, <1>6, <1>7 DEF TypeOK, Threads
<1>10. DriverInv'
  BY <1>0, <1>4 DEF DriverInv, TypeOK, Dead, Running, Threads, Crashes
<1>11. RetryInv'
  BY <1>0, <1>4, ProcsFacts DEF RetryInv, TypeOK
<1>12. HandlerInv'
  BY <1>0, <1>4, <1>5, ProcsFacts DEF HandlerInv, TypeOK
<1>13. ServerInv'
  BY <1>2, <1>4, <1>5, ProcsFacts DEF ServerInv, TypeOK
<1>14. LinkInv'
  BY <1>2, <1>4, <1>5, <1>8, ProcsFacts DEF LinkInv, TypeOK, Dialing
<1>15. EventInv'
  <2>1. Queued(Server, Ev("OTHER", c))'
    BY <1>2, OtherSound, ProcsFacts
  <2>2. cm_id' = c => Queued(c, Ev("CONNECT_RESPONSE", c))'
    BY <1>2, ProcsFacts DEF Queued, Sound, Ev
  <2>3. \A q \in Procs : cur'[q] = None \/ cur'[q] = cur[q]
    BY <1>0 DEF TypeOK
  <2> QED BY <1>7, <1>8, <2>1, <2>2, <2>3, EventsKept
<1> QED BY <1>9, <1>10, <1>11, <1>12, <1>13, <1>14, <1>15

LEMMA LaterRequestInv == ASSUME IInv, LaterRequest PROVE IInv'
<1>1. CASE Die(Server, "aborted")
  BY <1>1, DieInv, ProcsFacts DEF Crashes
<1>2. CASE /\ pc[Server] = "handle" /\ Goto(Server, "close")
           /\ cur' = [cur EXCEPT ![Server] = None]
           /\ UNCHANGED <<threadVars, events, unacked, link, connVars>>
  <2> USE DEF IInv
  <2>0. /\ pc[Server] = "handle" /\ pc' = [pc EXCEPT ![Server] = "close"]
        /\ cur' = [cur EXCEPT ![Server] = None]
        /\ UNCHANGED <<mpc, alive, retry, events, unacked, link, cm_id, qp, recvs, connected, wire>>
    BY <1>2 DEF Goto, threadVars, connVars
  <2>1. TypeOK'
    BY <2>0 DEF TypeOK, Threads
  <2>2. DriverInv'
    BY <2>0 DEF DriverInv, TypeOK, Dead, Running, Threads, Crashes
  <2>3. RetryInv' /\ HandlerInv' /\ ServerInv' /\ LinkInv'
    BY <2>0, ProcsFacts DEF RetryInv, HandlerInv, ServerInv, LinkInv, TypeOK
  <2>4. EventInv'
    <3>1. LinkStep
      BY <2>0 DEF LinkStep
    <3> QED BY <2>0, <3>1, EventsKept DEF TypeOK
  <2> QED BY <2>1, <2>2, <2>3, <2>4
<1> QED BY <1>1, <1>2 DEF LaterRequest

LEMMA CloseInv == ASSUME IInv, NEW p \in Procs, Close(p) PROVE IInv'
<1> USE DEF IInv
<1>1. PICK refused : refused = IF p = Server THEN {c \in Clients : link[c] = "req"} ELSE {}
  OBVIOUS
<1>0. /\ pc[p] = "close" /\ pc' = [pc EXCEPT ![p] = "done"]
      /\ events' = [q \in Procs |->
             IF q = p THEN <<>>
             ELSE IF q \in refused THEN Append(events[q], Ev("OTHER", q))
             ELSE events[q]]
      /\ link' = [c \in Clients |-> IF c \in refused THEN "lost" ELSE link[c]]
      /\ UNCHANGED <<mpc, alive, retry, cur, unacked, cm_id, qp, recvs, connected, wire>>
  BY <1>1 DEF Close, Goto, threadVars, connVars
<1>2. refused \subseteq Clients /\ \A c \in refused : link[c] = "req"
  BY <1>1
<1>3. \A q \in Procs :
        /\ events'[q] \in Seq(Event)
        /\ \A e \in Elems(events'[q]) :
             e \in Elems(events[q]) \/ (q \in Clients /\ e = Ev("OTHER", q))
  <2> SUFFICES ASSUME NEW q \in Procs
               PROVE  /\ events'[q] \in Seq(Event)
                      /\ \A e \in Elems(events'[q]) :
                           e \in Elems(events[q]) \/ (q \in Clients /\ e = Ev("OTHER", q))
    OBVIOUS
  <2>1. events[q] \in Seq(Event)
    BY DEF TypeOK
  <2>2. CASE q = p
    BY <1>0, <2>2, ElemsEmpty
  <2>3. CASE q # p /\ q \in refused
    <3>1. q \in Clients /\ Ev("OTHER", q) \in Event
      BY <1>2, <2>3, EvType DEF EventTypes
    <3> QED BY <1>0, <2>1, <2>3, <3>1, ElemsAppend
  <2>4. CASE q # p /\ q \notin refused
    BY <1>0, <2>1, <2>4
  <2> QED BY <2>2, <2>3, <2>4
<1>4. TypeOK'
  <2>1. events' \in [Procs -> Seq(Event)]
    BY <1>0, <1>3
  <2>2. link' \in [Clients -> {"idle", "req", "lost", "rep", "up", "down"}]
    BY <1>0 DEF TypeOK
  <2> QED BY <1>0, <2>1, <2>2 DEF TypeOK, Threads
<1>5. DriverInv'
  BY <1>0 DEF DriverInv, TypeOK, Dead, Running, Threads, Crashes
<1>6. RetryInv' /\ HandlerInv'
  BY <1>0, ProcsFacts DEF RetryInv, HandlerInv, TypeOK
<1>7. LinkStep /\ \A c \in Clients : link'[c] = link[c] \/ (link[c] = "req" /\ link'[c] = "lost")
  BY <1>0, <1>2 DEF LinkStep
<1>8. ServerInv'
  BY <1>0, <1>7, ProcsFacts DEF ServerInv, TypeOK
<1>9. LinkInv'
  BY <1>0, <1>7, ProcsFacts DEF LinkInv, TypeOK, Dialing
<1>10. EventInv'
  BY <1>0, <1>3, <1>7, EventsKept, OtherSound
<1> QED BY <1>4, <1>5, <1>6, <1>8, <1>9, <1>10

(***************************************************************************)
(* RDMAClient::run.                                                        *)
(***************************************************************************)
DialEvents(c) ==
  {Ev(t, c) : t \in {"ADDR_RESOLVED", "ADDR_ERROR", "ROUTE_RESOLVED", "ROUTE_ERROR", "OTHER"}}

LEMMA PopType ==
  ASSUME TypeOK, NEW p \in Procs, events[p] # <<>>,
         NEW es, es = [events EXCEPT ![p] = Tail(@)]
  PROVE  /\ es \in [Procs -> Seq(Event)]
         /\ \A q \in Procs : Elems(es[q]) \subseteq Elems(events[q])
<1>1. Tail(events[p]) \in Seq(Event) /\ Elems(Tail(events[p])) \subseteq Elems(events[p])
  BY ElemsTail DEF TypeOK
<1> QED BY <1>1 DEF TypeOK

LEMMA PopPostType ==
  ASSUME TypeOK, NEW p \in Procs, events[p] # <<>>, NEW x \in Event
  PROVE  /\ Append(Tail(events[p]), x) \in Seq(Event)
         /\ Elems(Append(Tail(events[p]), x)) \subseteq Elems(events[p]) \cup {x}
<1>1. Tail(events[p]) \in Seq(Event) /\ Elems(Tail(events[p])) \subseteq Elems(events[p])
  BY ElemsTail DEF TypeOK
<1> QED BY <1>1, ElemsAppend

(* A client that dials: it touches nothing but its own side. *)
LEMMA DialStep ==
  ASSUME IInv, NEW c \in Clients, NEW where \in {"resolve", "addr", "route", "done"},
         pc[c] \in {"resolve", "addr", "route"}, Goto(c, where),
         retry' \in [Clients -> 0 .. NumRetries],
         \A d \in Clients \ {c} : retry'[d] = retry[d],
         where \in {"addr", "route"} => retry'[c] >= 1,
         events' \in [Procs -> Seq(Event)],
         \A q \in Procs : \A e \in Elems(events'[q]) :
           e \in Elems(events[q]) \/ (q = c /\ e \in DialEvents(c)),
         Build(c) \/ UNCHANGED <<qp, recvs, connected>>,
         UNCHANGED <<mpc, alive, cur, unacked, link, cm_id, wire>>
  PROVE  IInv'
<1> USE DEF IInv
<1>0. pc' = [pc EXCEPT ![c] = where] /\ c \in Procs /\ c # Server
  BY ProcsFacts DEF Goto
<1>1. /\ qp' \in [Procs -> {"none", "live", "gone"}]
      /\ recvs' \in [Procs -> 0 .. WrNumber]
      /\ connected' \in [Procs -> BOOLEAN]
      /\ \A p \in Procs : /\ qp'[p] = qp[p] \/ qp'[p] = "live"
                          /\ connected'[p] => connected[p]
      /\ qp'[Server] = qp[Server] /\ connected'[Server] = connected[Server]
  <2>1. CASE Build(c)
    <3>1. recvs' \in [Procs -> 0 .. WrNumber]
      BY <1>0, <2>1, RecvsType DEF Build
    <3> QED BY <1>0, <2>1, <3>1, ProcsFacts DEF Build, TypeOK
  <2>2. CASE UNCHANGED <<qp, recvs, connected>>
    BY <2>2 DEF TypeOK
  <2> QED BY <2>1, <2>2
<1>2. TypeOK'
  BY <1>0, <1>1 DEF TypeOK, Threads
<1>3. DriverInv'
  BY <1>0 DEF DriverInv, TypeOK, Dead, Running, Threads, Crashes
<1>4. RetryInv'
  BY <1>0, ProcsFacts DEF RetryInv, TypeOK
<1>5. HandlerInv'
  BY <1>0, <1>1 DEF HandlerInv, TypeOK
<1>6. ServerInv'
  BY <1>0, <1>1, ProcsFacts DEF ServerInv, TypeOK
<1>7. LinkInv'
  <2>1. link' = link /\ cm_id' = cm_id
    OBVIOUS
  <2>2. \A d \in Clients : d \in Procs
    BY ProcsFacts
  <2>3. \A d \in Clients : pc'[d] = pc[d] \/ (pc[d] \in Dialing /\ pc'[d] \notin {"serve", "handle"})
    BY <1>0, <2>2 DEF TypeOK, Dialing
  <2>4. \A d \in Clients : pc'[d] \in Dialing => pc[d] \in Dialing
    BY <1>0, <2>2 DEF TypeOK, Dialing
  <2> QED BY <1>1, <2>1, <2>2, <2>3, <2>4 DEF LinkInv
<1>8. EventInv'
  <2>1. LinkStep
    BY DEF LinkStep
  <2>2. \A e \in DialEvents(c) : Queued(c, e)'
    BY DEF DialEvents, Queued, Sound, Ev
  <2> QED BY <2>1, <2>2, EventsKept
<1> QED BY <1>2, <1>3, <1>4, <1>5, <1>6, <1>7, <1>8

LEMMA ResolveInv == ASSUME IInv, NEW c \in Clients, Resolve(c) PROVE IInv'
<1> USE DEF IInv
<1>0. /\ pc[c] = "resolve" /\ c \in Procs
      /\ UNCHANGED <<mpc, alive, retry, cur, unacked, link, cm_id, qp, recvs, connected, wire>>
  BY ProcsFacts DEF Resolve, threadVars, connVars
<1>1. CASE Goto(c, "done") /\ UNCHANGED events
  BY <1>0, <1>1, DialStep DEF TypeOK
<1>2. CASE /\ RetryLeft(c) /\ Goto(c, "addr")
           /\ \E t \in {"ADDR_RESOLVED", "ADDR_ERROR", "OTHER"} : events' = Post(c, t, c)
  <2>1. PICK t \in {"ADDR_RESOLVED", "ADDR_ERROR", "OTHER"} : events' = Post(c, t, c)
    BY <1>2
  <2>2. t \in EventTypes /\ Ev(t, c) \in DialEvents(c)
    BY DEF EventTypes, DialEvents
  <2>3. /\ events' \in [Procs -> Seq(Event)]
        /\ \A q \in Procs : \A e \in Elems(events'[q]) :
             e \in Elems(events[q]) \/ (q = c /\ e = Ev(t, c))
    BY <1>0, <2>1, <2>2, PostType
  <2>4. retry[c] >= 1
    BY <1>2, BoundAssumption DEF RetryLeft, TypeOK
  <2> QED BY <1>0, <1>2, <2>2, <2>3, <2>4, DialStep DEF TypeOK
<1> QED BY <1>1, <1>2 DEF Resolve

LEMMA CountErrorType ==
  ASSUME TypeOK, NEW c \in Clients, retry[c] >= 1, CountError(c)
  PROVE  /\ retry' \in [Clients -> 0 .. NumRetries]
         /\ retry'[c] = retry[c] - 1
         /\ \A d \in Clients \ {c} : retry'[d] = retry[d]
<1>1. retry[c] - 1 \in 0 .. NumRetries
  BY BoundAssumption DEF TypeOK
<1> QED BY <1>1 DEF TypeOK, CountError

LEMMA AddrErrorInv == ASSUME IInv, NEW c \in Clients, AddrError(c) PROVE IInv'
<1> USE DEF IInv
<1>0. /\ pc[c] = "addr" /\ c \in Procs /\ events[c] # <<>> /\ CountError(c)
      /\ events' = [events EXCEPT ![c] = Tail(@)] /\ Goto(c, "resolve")
      /\ UNCHANGED <<mpc, alive, cur, unacked, link, cm_id, qp, recvs, connected, wire>>
  BY ProcsFacts DEF AddrError, Receives, Pop, connVars
<1>1. /\ events' \in [Procs -> Seq(Event)]
      /\ \A q \in Procs : Elems(events'[q]) \subseteq Elems(events[q])
  BY <1>0, PopType
<1>2. retry[c] >= 1
  BY <1>0 DEF RetryInv
<1>3. /\ retry' \in [Clients -> 0 .. NumRetries]
      /\ \A d \in Clients \ {c} : retry'[d] = retry[d]
  BY <1>0, <1>2, CountErrorType
<1> QED BY <1>0, <1>1, <1>3, DialStep

LEMMA RouteErrorInv == ASSUME IInv, NEW c \in Clients, RouteError(c) PROVE IInv'
<1> USE DEF IInv
<1>0. /\ pc[c] = "route" /\ c \in Procs /\ events[c] # <<>> /\ CountError(c)
      /\ events' = [events EXCEPT ![c] = Tail(@)]
      /\ Goto(c, IF retry[c] - 1 <= 0 THEN "done" ELSE "route")
      /\ UNCHANGED <<mpc, alive, cur, unacked, link, cm_id, qp, recvs, connected, wire>>
  BY ProcsFacts DEF RouteError, Receives, Pop, connVars
<1>1. /\ events' \in [Procs -> Seq(Event)]
      /\ \A q \in Procs : Elems(events'[q]) \subseteq Elems(events[q])
  BY <1>0, PopType
<1>2. retry[c] >= 1
  BY <1>0 DEF RetryInv
<1>3. /\ retry' \in [Clients -> 0 .. NumRetries] /\ retry'[c] = retry[c] - 1
      /\ \A d \in Clients \ {c} : retry'[d] = retry[d]
  BY <1>0, <1>2, CountErrorType
<1>4. CASE retry[c] - 1 <= 0
  BY <1>0, <1>1, <1>3, <1>4, DialStep
<1>5. CASE ~ (retry[c] - 1 <= 0)
  <2>1. retry'[c] >= 1
    BY <1>3, <1>5, BoundAssumption DEF TypeOK
  <2> QED BY <1>0, <1>1, <1>3, <1>5, <2>1, DialStep
<1> QED BY <1>4, <1>5

LEMMA UnexpectedInv == ASSUME IInv, NEW c \in Clients, Unexpected(c) PROVE IInv'
<1> USE DEF IInv
<1>0. /\ pc[c] \in {"addr", "route"} /\ c \in Procs /\ events[c] # <<>>
      /\ events' = [events EXCEPT ![c] = Tail(@)] /\ Goto(c, "done")
      /\ UNCHANGED <<mpc, alive, retry, cur, unacked, link, cm_id, qp, recvs, connected, wire>>
  BY ProcsFacts DEF Unexpected, Receives, Pop, threadVars, connVars
<1>1. /\ events' \in [Procs -> Seq(Event)]
      /\ \A q \in Procs : Elems(events'[q]) \subseteq Elems(events[q])
  BY <1>0, PopType
<1> QED BY <1>0, <1>1, DialStep DEF TypeOK

LEMMA OnAddrResolvedInv == ASSUME IInv, NEW c \in Clients, OnAddrResolved(c) PROVE IInv'
<1> USE DEF IInv
<1>0. /\ pc[c] = "addr" /\ c \in Procs /\ events[c] # <<>> /\ retry[c] >= 1
      /\ Build(c) \/ UNCHANGED <<qp, recvs, connected>>
      /\ UNCHANGED <<mpc, alive, retry, cur, unacked, link, cm_id, wire>>
  BY ProcsFacts DEF OnAddrResolved, Receives, threadVars, RetryInv
<1>1. CASE Goto(c, "done") /\ Pop(c)
  <2>1. /\ events' \in [Procs -> Seq(Event)]
        /\ \A q \in Procs : Elems(events'[q]) \subseteq Elems(events[q])
    BY <1>0, <1>1, PopType DEF Pop
  <2> QED BY <1>0, <1>1, <2>1, DialStep DEF TypeOK
<1>2. CASE /\ Goto(c, "route")
           /\ \E t \in {"ROUTE_RESOLVED", "ROUTE_ERROR", "OTHER"} :
                events' = [events EXCEPT ![c] = Append(Tail(@), Ev(t, c))]
  <2>1. PICK t \in {"ROUTE_RESOLVED", "ROUTE_ERROR", "OTHER"} :
               events' = [events EXCEPT ![c] = Append(Tail(@), Ev(t, c))]
    BY <1>2
  <2>2. Ev(t, c) \in Event /\ Ev(t, c) \in DialEvents(c)
    BY EvType DEF EventTypes, DialEvents
  <2>3. PICK x \in Event : x = Ev(t, c)
    BY <2>2
  <2>4. /\ events' \in [Procs -> Seq(Event)]
        /\ \A q \in Procs : \A e \in Elems(events'[q]) :
             e \in Elems(events[q]) \/ (q = c /\ e = x)
    <3>1. /\ Append(Tail(events[c]), x) \in Seq(Event)
          /\ Elems(Append(Tail(events[c]), x)) \subseteq Elems(events[c]) \cup {x}
      BY <1>0, PopPostType
    <3> QED BY <1>0, <2>1, <2>3, <3>1 DEF TypeOK
  <2>5. Goto(c, "route") /\ retry' \in [Clients -> 0 .. NumRetries] /\ retry'[c] >= 1
    BY <1>0, <1>2 DEF TypeOK
  <2> QED BY <1>0, <2>2, <2>3, <2>4, <2>5, DialStep
<1> QED BY <1>1, <1>2 DEF OnAddrResolved

LEMMA OnRouteResolvedInv == ASSUME IInv, NEW c \in Clients, OnRouteResolved(c) PROVE IInv'
<1> USE DEF IInv
<1>0. /\ pc[c] = "route" /\ c \in Procs /\ c # Server /\ events[c] # <<>> /\ link[c] = "idle"
      /\ UNCHANGED <<mpc, alive, retry, cur, unacked, cm_id, qp, recvs, connected, wire>>
  BY ProcsFacts DEF OnRouteResolved, Receives, threadVars, connVars, LinkInv, Dialing
<1>1. CASE Goto(c, "done") /\ Pop(c) /\ UNCHANGED link
  <2>1. /\ events' \in [Procs -> Seq(Event)]
        /\ \A q \in Procs : Elems(events'[q]) \subseteq Elems(events[q])
    BY <1>0, <1>1, PopType DEF Pop
  <2> QED BY <1>0, <1>1, <2>1, DialStep DEF TypeOK
<1>2. ASSUME NEW state \in {"lost", "req"}, link' = [link EXCEPT ![c] = state], Goto(c, "serve"),
             events' \in [Procs -> Seq(Event)],
             \A q \in Procs : \A e \in Elems(events'[q]) : e \in Elems(events[q]) \/ Queued(q, e)'
      PROVE  IInv'
  <2>0. pc' = [pc EXCEPT ![c] = "serve"]
    BY <1>2 DEF Goto
  <2>1. TypeOK'
    BY <1>0, <1>2, <2>0 DEF TypeOK, Threads
  <2>2. DriverInv'
    BY <1>0, <2>0 DEF DriverInv, TypeOK, Dead, Running, Threads, Crashes
  <2>3. RetryInv' /\ HandlerInv'
    BY <1>0, <2>0, ProcsFacts DEF RetryInv, HandlerInv, TypeOK
  <2>4. /\ LinkStep
        /\ \A d \in Clients : link'[d] = link[d] \/ (d = c /\ link'[d] \in {"lost", "req"})
    BY <1>0, <1>2 DEF LinkStep, TypeOK
  <2>5. ServerInv'
    BY <1>0, <2>0, <2>4, ProcsFacts DEF ServerInv, TypeOK, LinkStep
  <2>6. LinkInv'
    <3>1. \A d \in Clients : d = c \/ pc'[d] = pc[d]
      BY <2>0, ProcsFacts DEF TypeOK
    <3>2. pc'[c] = "serve" /\ link'[c] \in {"lost", "req"}
      BY <1>0, <1>2, <2>0 DEF TypeOK
    <3> QED BY <1>0, <2>4, <3>1, <3>2 DEF LinkInv, Dialing
  <2>7. EventInv'
    BY <1>0, <1>2, <2>4, EventsKept
  <2> QED BY <2>1, <2>2, <2>3, <2>5, <2>6, <2>7
<1>3. CASE /\ Goto(c, "serve")
           /\ events' = [events EXCEPT ![c] = Append(Tail(@), Ev("OTHER", c))]
           /\ link' = [link EXCEPT ![c] = "lost"]
  <2>1. Ev("OTHER", c) \in Event /\ Queued(c, Ev("OTHER", c))'
    BY <1>0, EvType, OtherSound DEF EventTypes
  <2>2. /\ Append(Tail(events[c]), Ev("OTHER", c)) \in Seq(Event)
        /\ Elems(Append(Tail(events[c]), Ev("OTHER", c))) \subseteq Elems(events[c]) \cup {Ev("OTHER", c)}
    BY <1>0, <2>1, PopPostType
  <2>3. /\ events' \in [Procs -> Seq(Event)]
        /\ \A q \in Procs : \A e \in Elems(events'[q]) :
             e \in Elems(events[q]) \/ (q = c /\ e = Ev("OTHER", c))
    BY <1>0, <1>3, <2>2 DEF TypeOK
  <2> QED BY <1>2, <1>3, <2>1, <2>3
<1>4. CASE /\ Goto(c, "serve")
           /\ events' = [events EXCEPT ![c] = Tail(@),
                                       ![Server] = Append(@, Ev("CONNECT_REQUEST", c))]
           /\ link' = [link EXCEPT ![c] = "req"]
  <2>1. /\ Ev("CONNECT_REQUEST", c) \in Event
        /\ Ev("CONNECT_REQUEST", c).type = "CONNECT_REQUEST"
    BY EvType DEF EventTypes
  <2>2. Queued(Server, Ev("CONNECT_REQUEST", c))'
    BY <2>1 DEF Queued, Sound
  <2>3. /\ Tail(events[c]) \in Seq(Event) /\ Elems(Tail(events[c])) \subseteq Elems(events[c])
        /\ Append(events[Server], Ev("CONNECT_REQUEST", c)) \in Seq(Event)
        /\ Elems(Append(events[Server], Ev("CONNECT_REQUEST", c)))
             \subseteq Elems(events[Server]) \cup {Ev("CONNECT_REQUEST", c)}
    BY <1>0, <2>1, ElemsTail, ElemsAppend, ProcsFacts DEF TypeOK
  <2>4. /\ events' \in [Procs -> Seq(Event)]
        /\ \A q \in Procs : \A e \in Elems(events'[q]) :
             e \in Elems(events[q]) \/ (q = Server /\ e = Ev("CONNECT_REQUEST", c))
    BY <1>0, <1>4, <2>3 DEF TypeOK
  <2> QED BY <1>2, <1>4, <2>2, <2>4
<1> QED BY <1>1, <1>3, <1>4 DEF OnRouteResolved

(***************************************************************************)
(* The strengthening is an invariant.                                      *)
(***************************************************************************)
LEMMA InitInv == ASSUME Init PROVE IInv
<1> USE DEF Init
<1>1. TypeOK
  <2>1. NumRetries \in 0 .. NumRetries /\ 0 \in 0 .. WrNumber
    BY BoundAssumption
  <2> QED BY <2>1, ElemsEmpty DEF TypeOK, Threads
<1>2. DriverInv
  BY DEF DriverInv, Dead, Running, Crashes
<1>3. RetryInv /\ HandlerInv /\ ServerInv /\ LinkInv
  BY ProcsFacts DEF RetryInv, HandlerInv, ServerInv, LinkInv
<1>4. EventInv
  BY ElemsEmpty DEF EventInv
<1> QED BY <1>1, <1>2, <1>3, <1>4 DEF IInv

LEMMA StutterInv == ASSUME IInv, UNCHANGED vars PROVE IInv'
<1>1. UNCHANGED <<pc, mpc, alive, retry, events, cur, unacked, link, cm_id, qp, recvs,
                  connected, wire>>
  BY DEF vars, threadVars, cmVars, connVars
<1> QED BY <1>1 DEF IInv, TypeOK, DriverInv, Dead, RetryInv, HandlerInv, ServerInv, LinkInv,
                    EventInv, Queued, Sound

LEMMA NextInv == ASSUME IInv, [Next]_vars PROVE IInv'
<1>1. ASSUME NEW p \in Procs, MainStep(p) PROVE IInv'
  BY <1>1, MainWakeInv, MainExitInv DEF MainStep
<1>2. ASSUME NEW p \in Procs, ThreadStep(p) PROVE IInv'
  <2>1. CASE ServerStep
    BY <2>1, ServerSetupInv, RetrieveFirstInv, ServerFirstInv, LaterRequestInv DEF ServerStep
  <2>2. CASE p \in Clients /\ ClientStep(p)
    BY <2>2, ClientSetupInv, ResolveInv, AddrErrorInv, OnAddrResolvedInv, RouteErrorInv,
       OnRouteResolvedInv, UnexpectedInv DEF ClientStep
  <2> QED BY <1>2, <2>1, <2>2, StartInv, FinishInv, RetrieveInv, OnEventInv, CloseInv
             DEF ThreadStep
<1>3. ASSUME NEW p \in Procs, Environment(p) PROVE IInv'
  BY <1>3, KillInv, StopInv, DeviceRemovalInv, DeliverInv, BuildCrashInv DEF Environment
<1>4. ASSUME NEW c \in Clients, Timeout(c) PROVE IInv'
  BY <1>4, TimeoutInv
<1> QED BY <1>1, <1>2, <1>3, <1>4, StutterInv DEF Next

(***************************************************************************)
(* What every event, handler and connection satisfies, in every behaviour. *)
(***************************************************************************)
THEOREM Invariance == Spec => []IInv
  BY InitInv, NextInv, PTL DEF Spec

(***************************************************************************)
(* Every variable keeps its type.                                          *)
(***************************************************************************)
THEOREM TypeCorrect == Spec => []TypeOK
  BY Invariance, PTL DEF IInv

(***************************************************************************)
(* main never leaves its spin loop between the start of the connection     *)
(* thread and the return of run(), however the two are scheduled.          *)
(***************************************************************************)
THEOREM MainOutlives == Spec => []MainOutlivesRun
<1>1. ASSUME IInv PROVE MainOutlivesRun
  BY <1>1 DEF IInv, MainOutlivesRun, DriverInv, TypeOK, Running, Threads, Crashes, Dead
<1> QED BY <1>1, Invariance, PTL

(***************************************************************************)
(* on_connection always sends on a live queue pair of its own connection.  *)
(***************************************************************************)
THEOREM SendsOnLive == Spec => []SendOnLiveQp
<1>1. ASSUME IInv PROVE SendOnLiveQp
  <2> SUFFICES ASSUME NEW p \in Procs, pc[p] = "handle", cur[p].type = "ESTABLISHED"
               PROVE  qp[p] = "live" /\ (p = Server => cur[p].id = cm_id)
    BY DEF SendOnLiveQp
  <2>1. qp[p] = "live" /\ cur[p] \in Event /\ Sound(p, cur[p]) /\ cur[p].id \in Clients
    BY <1>1, ProcsFacts DEF IInv, HandlerInv, EventInv, Event
  <2> QED BY <1>1, <2>1 DEF IInv, LinkInv, Sound
<1> QED BY <1>1, Invariance, PTL

(***************************************************************************)
(* destroy_connection finds the queue pair and the identifier of the one   *)
(* connection conn_ctx holds: it never frees anything twice.               *)
(***************************************************************************)
THEOREM DestroysOnlyBuilt == Spec => []DestroyOnlyBuilt
<1>1. ASSUME IInv PROVE DestroyOnlyBuilt
  <2> SUFFICES ASSUME NEW p \in Procs, pc[p] = "handle", cur[p].type = "DISCONNECTED"
               PROVE  qp[p] = "live" /\ cur[p].id = IF p = Server THEN cm_id ELSE p
    BY DEF DestroyOnlyBuilt
  <2>1. cur[p] \in Event /\ Sound(p, cur[p]) /\ cur[p].id \in Clients
    BY <1>1, ProcsFacts DEF IInv, HandlerInv, EventInv, Event
  <2>2. link[cur[p].id] = "down" /\ cm_id = cur[p].id
    BY <1>1, <2>1 DEF IInv, LinkInv, Sound
  <2> QED BY <1>1, <2>1, <2>2, ProcsFacts DEF IInv, LinkInv, ServerInv, Sound
<1> QED BY <1>1, Invariance, PTL

(***************************************************************************)
(* Server and client agree on which connection is served.                  *)
(***************************************************************************)
THEOREM Agreement == Spec => []SidesAgree
<1>1. ASSUME IInv PROVE SidesAgree
  BY <1>1, ProcsFacts DEF IInv, SidesAgree, LinkInv, ServerInv
<1> QED BY <1>1, Invariance, PTL

(***************************************************************************)
(* The one message of each side.                                           *)
(***************************************************************************)
Has(s, t) == \E e \in Elems(s) : e.type = t

\* r is what becomes of the queue s when nothing of type t is added.
NoNew(s, r, t) ==
  /\ AtMostOnce(s, t) => AtMostOnce(r, t)
  /\ Has(r, t) => Has(s, t)

LEMMA NoNewSame == ASSUME NEW s, NEW t PROVE NoNew(s, s, t)
  BY DEF NoNew

LEMMA NoNewEmpty == ASSUME NEW s, NEW t PROVE NoNew(s, <<>>, t)
  BY DEF NoNew, AtMostOnce, Has, Elems

LEMMA NoNewTail ==
  ASSUME NEW s \in Seq(Event), s # <<>>, NEW t
  PROVE  /\ NoNew(s, Tail(s), t)
         /\ AtMostOnce(s, t) /\ Head(s).type = t => ~Has(Tail(s), t)
<1>1. /\ Len(s) \in Nat /\ Len(s) > 0 /\ DOMAIN Tail(s) = 1..(Len(s) - 1)
      /\ Head(s) = s[1] /\ DOMAIN s = 1..Len(s)
      /\ \A i \in 1..(Len(s) - 1) : Tail(s)[i] = s[i + 1]
  OBVIOUS
<1>2. AtMostOnce(s, t) => AtMostOnce(Tail(s), t)
  <2> SUFFICES ASSUME AtMostOnce(s, t), NEW i \in DOMAIN Tail(s), NEW j \in DOMAIN Tail(s),
                      Tail(s)[i].type = t, Tail(s)[j].type = t
               PROVE  i = j
    BY DEF AtMostOnce
  <2>1. i + 1 \in DOMAIN s /\ j + 1 \in DOMAIN s /\ s[i + 1].type = t /\ s[j + 1].type = t
    BY <1>1
  <2>2. i + 1 = j + 1
    BY <2>1 DEF AtMostOnce
  <2> QED BY <1>1, <2>2
<1>3. Has(Tail(s), t) => Has(s, t)
  BY ElemsTail DEF Has
<1>4. ASSUME AtMostOnce(s, t), Head(s).type = t, Has(Tail(s), t) PROVE FALSE
  <2>1. PICK i \in DOMAIN Tail(s) : Tail(s)[i].type = t
    BY <1>4 DEF Has, Elems
  <2>2. i + 1 \in DOMAIN s /\ 1 \in DOMAIN s /\ s[i + 1].type = t /\ s[1].type = t /\ i >= 1
    BY <1>1, <1>4, <2>1
  <2>3. i + 1 = 1
    BY <1>4, <2>2 DEF AtMostOnce
  <2> QED BY <1>1, <2>2, <2>3
<1> QED BY <1>2, <1>3, <1>4 DEF NoNew

LEMMA AppendOnce ==
  ASSUME NEW s \in Seq(Event), NEW e \in Event, NEW t
  PROVE  /\ e.type # t => NoNew(s, Append(s, e), t)
         /\ ~Has(s, t) => AtMostOnce(Append(s, e), t)
<1>1. /\ Len(s) \in Nat /\ DOMAIN Append(s, e) = 1..(Len(s) + 1) /\ DOMAIN s = 1..Len(s)
      /\ \A i \in 1..Len(s) : Append(s, e)[i] = s[i]
      /\ Append(s, e)[Len(s) + 1] = e
  OBVIOUS
<1>2. \A i \in 1..(Len(s) + 1) : i \in DOMAIN s \/ i = Len(s) + 1
  BY <1>1
<1>3. e.type # t => (AtMostOnce(s, t) => AtMostOnce(Append(s, e), t))
  BY <1>1, <1>2 DEF AtMostOnce
<1>4. e.type # t => (Has(Append(s, e), t) => Has(s, t))
  BY <1>1, <1>2 DEF Has, Elems
<1>5. ~Has(s, t) => AtMostOnce(Append(s, e), t)
  BY <1>1, <1>2 DEF AtMostOnce, Has, Elems
<1> QED BY <1>3, <1>4, <1>5 DEF NoNew

\* Any step that neither adds such an event nor writes nor connects.
LEMMA MetaStep ==
  ASSUME MetaInv,
         \A p \in Procs : NoNew(events[p], events'[p], Opener(p)),
         \A p \in Procs : Opens(p)' => Opens(p),
         \A p \in Procs : pc'[p] \in Dialing => pc[p] \in Dialing \/ ~connected[p],
         UNCHANGED connected,
         cm_id' = cm_id \/ cm_id = None,
         \A p \in Procs : Written(p)' => Written(p),
         \A p \in Procs : p \in wire' /\ qp'[p] = "live" =>
            p \in wire /\ (recvs'[p] = WrNumber \/ (qp[p] = "live" /\ recvs'[p] = recvs[p]))
  PROVE  MetaInv'
<1> SUFFICES ASSUME NEW p \in Procs
             PROVE  /\ AtMostOnce(events'[p], Opener(p))
                    /\ Waits(p)' => ~Opens(p)' /\ ~connected'[p]
                    /\ Opens(p)' \/ pc'[p] \in Dialing => ~connected'[p]
                    /\ Written(p)' => IF p = Server THEN \E c \in Clients : connected'[c]
                                      ELSE cm_id' = p /\ connected'[Server]
                    /\ p \in wire' /\ qp'[p] = "live" => recvs'[p] = WrNumber
  BY DEF MetaInv, Opener
<1>1. Waits(p)' => Waits(p)
  BY DEF NoNew, Has, Waits, Opener
<1>2. AtMostOnce(events'[p], Opener(p))
  BY DEF NoNew, MetaInv
<1>3. /\ Waits(p) => ~Opens(p) /\ ~connected[p]
      /\ Opens(p) \/ pc[p] \in Dialing => ~connected[p]
      /\ Written(p) => IF p = Server THEN \E c \in Clients : connected[c]
                       ELSE cm_id = p /\ connected[Server]
      /\ p \in wire /\ qp[p] = "live" => recvs[p] = WrNumber
  BY DEF MetaInv
<1>4. p # Server => p \in Clients /\ p # None
  BY ProcsFacts
<1>5. Waits(p)' => ~Opens(p)' /\ ~connected'[p]
  BY <1>1, <1>3
<1>6. Opens(p)' \/ pc'[p] \in Dialing => ~connected'[p]
  BY <1>3
<1>7. Written(p)' => IF p = Server THEN \E c \in Clients : connected'[c]
                                      ELSE cm_id' = p /\ connected'[Server]
  BY <1>3, <1>4
<1>8. p \in wire' /\ qp'[p] = "live" => recvs'[p] = WrNumber
  BY <1>3
<1> QED BY <1>2, <1>5, <1>6, <1>7, <1>8

\* The last conjuncts of MetaStep, where no queue pair changes.
LEMMA QuietMeta ==
  ASSUME MetaInv,
         \A p \in Procs : NoNew(events[p], events'[p], Opener(p)),
         \A p \in Procs : Opens(p)' => Opens(p),
         \A p \in Procs : pc'[p] \in Dialing => pc[p] \in Dialing \/ ~connected[p],
         UNCHANGED <<connected, qp, recvs, cm_id>>, wire' \subseteq wire
  PROVE  MetaInv'
<1>1. \A p \in Procs : Written(p)' => Written(p)
  BY DEF Written
<1> QED BY <1>1, MetaStep

LEMMA DieMeta == ASSUME IInv, MetaInv, NEW p \in Procs, NEW how \in Crashes, Die(p, how) PROVE MetaInv'
<1>1. /\ pc' = [pc EXCEPT ![p] = how] /\ cur' = [cur EXCEPT ![p] = None] /\ wire' = wire \ {p}
      /\ events' = [q \in Procs |-> IF q = p \/ Dead(q) THEN <<>> ELSE events[q] \o Notice(p, q)]
      /\ UNCHANGED <<connected, qp, recvs, cm_id>>
  BY DEF Die, Goto
<1>2. \A q \in Procs : pc'[q] = pc[q] \/ pc'[q] \notin Dialing \cup {"handle"}
  BY <1>1 DEF IInv, TypeOK, Crashes, Dialing
<1>3. \A q \in Procs : pc'[q] = pc[q] => q # p \/ pc[q] \in Crashes
  BY <1>1 DEF IInv, TypeOK
<1>4. \A q \in Procs : Opens(q)' => Opens(q)
  BY <1>1, <1>2, <1>3 DEF Opens, Crashes, IInv, TypeOK
<1>5. ASSUME NEW q \in Procs PROVE NoNew(events[q], events'[q], Opener(q))
  <2>1. CASE q = p \/ Dead(q)
    BY <1>1, <2>1, NoNewEmpty
  <2>2. CASE ~(q = p \/ Dead(q)) /\ Notice(p, q) = <<>>
    <3>1. events'[q] = events[q]
      BY <1>1, <2>2 DEF IInv, TypeOK
    <3> QED BY <3>1, NoNewSame
  <2>3. CASE ~(q = p \/ Dead(q)) /\ Notice(p, q) # <<>>
    <3>1. PICK c \in Clients, t \in {"DISCONNECTED", "OTHER"} : Notice(p, q) = <<Ev(t, c)>>
      BY <2>3, ProcsFacts DEF Notice
    <3>2. t \in EventTypes /\ Ev(t, c) \in Event /\ Ev(t, c).type = t /\ t # Opener(q)
      BY EvType DEF EventTypes, Opener
    <3>3. events'[q] = events[q] \o <<Ev(t, c)>> /\ events[q] \in Seq(Event)
      BY <1>1, <2>3, <3>1 DEF IInv, TypeOK
    <3>4. events'[q] = Append(events[q], Ev(t, c))
      BY <3>2, <3>3
    <3> QED BY <3>2, <3>3, <3>4, AppendOnce
  <2> QED BY <2>1, <2>2, <2>3
<1> QED BY <1>1, <1>2, <1>4, <1>5, QuietMeta

LEMMA PostOnce ==
  ASSUME TypeOK, NEW p \in Procs, NEW t \in EventTypes, NEW c \in Clients, events' = Post(p, t, c),
         t # Opener(p)
  PROVE  \A q \in Procs : NoNew(events[q], events'[q], Opener(q))
<1>1. Ev(t, c) \in Event /\ Ev(t, c).type = t
  BY EvType
<1>2. \A q \in Procs : events[q] \in Seq(Event) /\ (q # p => events'[q] = events[q])
  BY DEF Post, TypeOK
<1>3. events'[p] = Append(events[p], Ev(t, c))
  BY DEF Post, TypeOK
<1> QED BY <1>1, <1>2, <1>3, NoNewSame, AppendOnce

LEMMA EnvironmentMeta ==
  ASSUME IInv, MetaInv, NEW p \in Procs, Environment(p)
  PROVE  MetaInv'
<1> USE DEF IInv
<1>1. CASE Kill(p) \/ BuildCrash(p)
  BY <1>1, DieMeta DEF Kill, BuildCrash, Crashes
<1>2. CASE Stop(p)
  <2>1. PICK c \in Clients : /\ c = IF p = Server THEN cm_id ELSE p
                             /\ link' = [link EXCEPT ![c] = "down"]
                             /\ events' = [q \in Procs |->
                                  IF q \in {Server, c} /\ ~Dead(q)
                                  THEN Append(events[q], Ev("DISCONNECTED", c)) ELSE events[q]]
    BY <1>2, ProcsFacts DEF Stop, ServerInv
  <2>2. Ev("DISCONNECTED", c) \in Event /\ Ev("DISCONNECTED", c).type = "DISCONNECTED"
    BY EvType DEF EventTypes
  <2>3. \A q \in Procs : events[q] \in Seq(Event) /\ "DISCONNECTED" # Opener(q)
    BY DEF TypeOK, Opener
  <2>4. \A q \in Procs : events'[q] = events[q] \/ events'[q] = Append(events[q], Ev("DISCONNECTED", c))
    BY <2>1
  <2>5. \A q \in Procs : NoNew(events[q], events'[q], Opener(q))
    BY <2>2, <2>3, <2>4, NoNewSame, AppendOnce
  <2>6. UNCHANGED <<pc, cur, connected, qp, recvs, cm_id, wire>>
    BY <1>2 DEF Stop, connVars
  <2> QED BY <2>5, <2>6, QuietMeta DEF Opens
<1>3. CASE DeviceRemoval(p)
  <2>1. \A q \in Procs : NoNew(events[q], events'[q], Opener(q))
    BY <1>3, PostOnce DEF DeviceRemoval, EventTypes, Opener
  <2>2. UNCHANGED <<pc, cur, connected, qp, recvs, cm_id, wire>>
    BY <1>3 DEF DeviceRemoval, connVars
  <2> QED BY <2>1, <2>2, QuietMeta DEF Opens
<1>4. CASE Deliver(p)
  <2>1. /\ p \in wire /\ wire' = wire \ {p}
        /\ \A q \in Procs : q # p => recvs'[q] = recvs[q]
        /\ UNCHANGED <<pc, cur, events, connected, qp, cm_id>>
    BY <1>4 DEF Deliver, cmVars, TypeOK
  <2>2. \A q \in Procs : Written(q)' => Written(q)
    BY <2>1 DEF Written
  <2> QED BY <2>1, <2>2, NoNewSame, MetaStep DEF Opens
<1> QED BY <1>1, <1>2, <1>3, <1>4 DEF Environment

LEMMA MainMeta == ASSUME IInv, MetaInv, NEW p \in Procs, MainStep(p) PROVE MetaInv'
<1>1. CASE MainWake(p)
  BY <1>1, QuietMeta, NoNewSame DEF MainWake, cmVars, connVars, Opens
<1>2. CASE MainExit(p)
  BY <1>2, DieMeta DEF MainExit, Crashes
<1> QED BY <1>1, <1>2 DEF MainStep

LEMMA TimeoutMeta == ASSUME IInv, MetaInv, NEW c \in Clients, Timeout(c) PROVE MetaInv'
<1>1. \A q \in Procs : NoNew(events[q], events'[q], Opener(q))
  BY PostOnce, ProcsFacts DEF Timeout, EventTypes, Opener, IInv
<1> QED BY <1>1, QuietMeta DEF Timeout, connVars, Opens

\* on_connection sends the side's one message.
LEMMA OnConnectionMeta ==
  ASSUME IInv, MetaInv, NEW p \in Procs, OnEvent(p), cur[p].type = "ESTABLISHED"
  PROVE  MetaInv'
<1> USE DEF IInv
<1>1. /\ pc[p] = "handle" /\ pc' = [pc EXCEPT ![p] = "serve"] /\ cur' = [cur EXCEPT ![p] = None]
      /\ connected' = [connected EXCEPT ![p] = TRUE]
      /\ wire' = wire \cup {q \in {Server, cur[p].id} \ {p} : ~Dead(q)}
      /\ UNCHANGED <<qp, recvs, cm_id, events>>
  BY DEF OnEvent, OnConnection, OnDisconnect, Goto
<1>2. cur[p].id \in Clients /\ cur[p].id = cm_id /\ cm_id # None /\ (p # Server => p = cm_id)
  <2>1. cur[p] \in Event /\ Sound(p, cur[p]) /\ cur[p].id \in Clients
    BY <1>1, ProcsFacts DEF HandlerInv, EventInv, Event
  <2> QED BY <2>1, ProcsFacts DEF Sound, LinkInv
<1>3. Opens(p) /\ ~connected[p] /\ ~Waits(p)
  BY <1>1 DEF Opens, MetaInv
<1>4. PICK q \in Procs : q = IF p = Server THEN cm_id ELSE Server
  BY <1>2, ProcsFacts
<1>5. wire' \subseteq wire \cup {q}
  BY <1>1, <1>2, <1>4
\* Nothing has been sent to the other side yet.
<1>6. ~Written(q)
  <2>1. CASE p = Server
    BY <1>2, <1>3, <1>4, <2>1, ProcsFacts DEF MetaInv
  <2>2. CASE p # Server
    <3>1. \A c \in Clients : connected[c] => c = p
      BY <1>2, <2>2 DEF LinkInv
    <3> QED BY <1>3, <1>4, <2>2, <3>1, ProcsFacts DEF MetaInv
  <2> QED BY <2>1, <2>2
<1> SUFFICES ASSUME NEW r \in Procs
             PROVE  /\ AtMostOnce(events'[r], Opener(r))
                    /\ Waits(r)' => ~Opens(r)' /\ ~connected'[r]
                    /\ Opens(r)' \/ pc'[r] \in Dialing => ~connected'[r]
                    /\ Written(r)' => IF r = Server THEN \E c \in Clients : connected'[c]
                                      ELSE cm_id' = r /\ connected'[Server]
                    /\ r \in wire' /\ qp'[r] = "live" => recvs'[r] = WrNumber
  BY DEF MetaInv, Opener
<1>7. AtMostOnce(events'[r], Opener(r)) /\ (Waits(r)' <=> Waits(r))
  BY <1>1 DEF MetaInv, Waits, Opener
<1>8. /\ r # p => connected'[r] = connected[r] /\ pc'[r] = pc[r] /\ cur'[r] = cur[r]
      /\ r = p => connected'[r] /\ pc'[r] = "serve"
  BY <1>1 DEF TypeOK
<1>9. Waits(r)' => ~Opens(r)' /\ ~connected'[r]
  BY <1>3, <1>7, <1>8 DEF MetaInv, Opens
<1>10. Opens(r)' \/ pc'[r] \in Dialing => ~connected'[r]
  BY <1>8 DEF MetaInv, Opens, Dialing
<1>11. Written(r)' => IF r = Server THEN \E c \in Clients : connected'[c]
                                      ELSE cm_id' = r /\ connected'[Server]
  <2>1. CASE r = q
    BY <1>1, <1>2, <1>4, <2>1, ProcsFacts DEF TypeOK
  <2>2. CASE r # q
    <3>1. Written(r)' => Written(r)
      BY <1>1, <1>5, <2>2 DEF Written
    <3>2. \A c \in Procs : connected[c] => connected'[c]
      BY <1>1 DEF TypeOK
    <3> QED BY <1>1, <3>1, <3>2, ProcsFacts DEF MetaInv
  <2> QED BY <2>1, <2>2
<1>12. r \in wire' /\ qp'[r] = "live" => recvs'[r] = WrNumber
  <2>1. CASE r = q
    BY <1>1, <1>6, <2>1 DEF Written
  <2>2. CASE r # q
    BY <1>1, <1>5, <2>2 DEF MetaInv
  <2> QED BY <2>1, <2>2
<1> QED BY <1>7, <1>9, <1>10, <1>11, <1>12

LEMMA OnEventMeta == ASSUME IInv, MetaInv, NEW p \in Procs, OnEvent(p) PROVE MetaInv'
<1> USE DEF IInv
<1>1. CASE cur[p].type # "ESTABLISHED"
  <2>1. /\ pc[p] = "handle" /\ cur' = [cur EXCEPT ![p] = None]
        /\ \E where \in {"close", "blocked"} : pc' = [pc EXCEPT ![p] = where]
        /\ UNCHANGED <<events, connected, wire, cm_id>>
        /\ \/ UNCHANGED <<qp, recvs>>
           \/ qp' = [qp EXCEPT ![p] = "gone"] /\ recvs' = [recvs EXCEPT ![p] = 0]
    BY <1>1 DEF OnEvent, OnDisconnect, Goto
  <2>2. \A q \in Procs : \/ q # p /\ pc'[q] = pc[q] /\ cur'[q] = cur[q]
                         \/ q = p /\ pc'[q] \notin Dialing \cup {"handle"}
    BY <2>1 DEF TypeOK, Dialing
  <2>3. \A q \in Procs : (qp'[q] = qp[q] /\ recvs'[q] = recvs[q]) \/ qp'[q] = "gone"
    BY <2>1 DEF TypeOK
  <2>4. \A q \in Procs : Written(q)' => Written(q)
    BY <2>1, <2>3 DEF Written
  <2>5. \A q \in Procs : NoNew(events[q], events'[q], Opener(q))
    BY <2>1, NoNewSame
  <2> QED BY <2>1, <2>2, <2>3, <2>4, <2>5, MetaStep DEF Opens
<1> QED BY <1>1, OnConnectionMeta

\* rdma_get_cm_event takes the one event there is out of the queue, and on a
\* client makes the server's.
LEMMA RetrieveMeta == ASSUME IInv, MetaInv, NEW p \in Procs, Retrieve(p) PROVE MetaInv'
<1> USE DEF IInv
<1> DEFINE ev == Head(events[p])
           response == p # Server /\ ev.type = "CONNECT_RESPONSE" /\ qp[p] = "live"
<1>0. PICK told \in IF response THEN {Ev("ESTABLISHED", p), Ev("OTHER", p)} ELSE {ev} :
        LET raised == response /\ told.type = "ESTABLISHED"
        IN /\ cur' = [cur EXCEPT ![p] = told]
           /\ events' = [q \in Procs |->
                IF q = p THEN Tail(events[p])
                ELSE IF raised /\ q = Server /\ link[p] = "rep"
                THEN Append(events[q], Ev("ESTABLISHED", p)) ELSE events[q]]
  BY DEF Retrieve, GetEvent
<1> DEFINE up == response /\ told.type = "ESTABLISHED"
           tells == up /\ link[p] = "rep"
<1>1. /\ pc[p] = "serve" /\ pc' = [pc EXCEPT ![p] = "handle"]
      /\ events[p] # <<>> /\ events[p] \in Seq(Event) /\ ev \in Event /\ ev \in Elems(events[p])
      /\ cur' = [cur EXCEPT ![p] = told]
      /\ events' = [q \in Procs |->
             IF q = p THEN Tail(events[p])
             ELSE IF tells /\ q = Server
             THEN Append(events[q], Ev("ESTABLISHED", p)) ELSE events[q]]
      /\ UNCHANGED <<connected, qp, recvs, cm_id, wire>>
  <2>1. events[p] \in Seq(Event) /\ events[p] # <<>>
    BY DEF Retrieve, GetEvent, TypeOK
  <2>2. events' = [q \in Procs |->
             IF q = p THEN Tail(events[p])
             ELSE IF tells /\ q = Server
             THEN Append(events[q], Ev("ESTABLISHED", p)) ELSE events[q]]
    BY <1>0
  <2> QED BY <1>0, <2>1, <2>2, ElemsTail DEF Retrieve, GetEvent, Goto, connVars
<1> SUFFICES ASSUME NEW r \in Procs
             PROVE  /\ AtMostOnce(events'[r], Opener(r))
                    /\ Waits(r)' => ~Opens(r)' /\ ~connected'[r]
                    /\ Opens(r)' \/ pc'[r] \in Dialing => ~connected'[r]
  <2>1. \A q \in Procs : Written(q)' <=> Written(q)
    BY <1>1 DEF Written
  <2> QED BY <1>1, <2>1 DEF MetaInv, Opener
<1>2. CASE r = p
  <2>1. events'[r] = Tail(events[r]) /\ pc'[r] = "handle" /\ cur'[r] = told
    BY <1>1, <1>2 DEF TypeOK
  <2>2. Opens(r)' => ev.type = Opener(r)
    <3>1. p # Server => Queued(p, ev)
      BY <1>1 DEF EventInv
    <3>2. response => ev.type = Opener(r)
      BY <1>2 DEF Opener
    <3>3. ~response => told = ev
      BY <1>0
    <3> QED BY <1>2, <2>1, <3>1, <3>2, <3>3 DEF Opens, Opener, Queued
  <2>3. /\ AtMostOnce(events'[r], Opener(r))
        /\ Waits(r)' => Waits(r)
        /\ ev.type = Opener(r) => ~Waits(r)' /\ Waits(r)
    <3>1. /\ NoNew(events[r], Tail(events[r]), Opener(r)) /\ AtMostOnce(events[r], Opener(r))
          /\ ev.type = Opener(r) => ~Has(Tail(events[r]), Opener(r))
      BY <1>1, <1>2, NoNewTail DEF MetaInv
    <3> QED BY <1>1, <1>2, <2>1, <3>1 DEF NoNew, Has, Waits, Opener
  <2>4. Waits(r)' => ~Opens(r)'
    BY <2>2, <2>3
  <2>5. Waits(r) => ~connected[r]
    BY DEF MetaInv
  <2> QED BY <1>1, <2>1, <2>2, <2>3, <2>4, <2>5 DEF Dialing
<1>3. CASE r # p /\ ~(tells /\ r = Server)
  <2>1. events'[r] = events[r] /\ pc'[r] = pc[r] /\ cur'[r] = cur[r] /\ connected'[r] = connected[r]
    BY <1>1, <1>3 DEF TypeOK
  <2> QED BY <2>1 DEF MetaInv, Waits, Opens, Opener
\* The server's event is the first of its kind.
<1>4. CASE r # p /\ tells /\ r = Server
  <2>1. /\ events'[r] = Append(events[r], Ev("ESTABLISHED", p)) /\ events[r] \in Seq(Event)
        /\ pc'[r] = pc[r] /\ cur'[r] = cur[r] /\ connected'[r] = connected[r]
        /\ Opener(r) = "ESTABLISHED" /\ p \in Clients /\ link[p] = "rep"
    BY <1>1, <1>4, ProcsFacts DEF TypeOK, Opener
  <2>2. cm_id = p
    BY <2>1 DEF LinkInv
  <2>3. \A e \in Event : e.type = "ESTABLISHED" => ~Sound(Server, e)
    <3> SUFFICES ASSUME NEW e \in Event, e.type = "ESTABLISHED", Sound(Server, e) PROVE FALSE
      OBVIOUS
    <3>1. e.id \in Clients /\ link[e.id] \in {"up", "down"}
      BY DEF Sound, Event
    <3> QED BY <2>1, <2>2, <3>1 DEF LinkInv
  <2>4. ~Has(events[r], "ESTABLISHED")
    BY <1>4, <2>1, <2>3, ElemsType DEF Has, EventInv, Queued
  <2>5. ~Opens(r)
    BY <1>4, <2>3, ProcsFacts DEF Opens, EventInv, HandlerInv
  <2>6. ~connected[r]
    BY <1>4, <2>1, <2>2 DEF ServerInv
  <2>7. Ev("ESTABLISHED", p) \in Event
    BY <2>1, EvType DEF EventTypes
  <2>8. AtMostOnce(events'[r], Opener(r))
    BY <2>1, <2>4, <2>7, AppendOnce
  <2> QED BY <2>1, <2>5, <2>6, <2>8 DEF Opens
<1> QED BY <1>2, <1>3, <1>4

\* build_connection on a side that is not connected.
LEMMA BuildFirst ==
  ASSUME IInv, NEW p \in Procs, Build(p), ~connected[p]
  PROVE  /\ connected' = connected
         /\ \A q \in Procs : q # p => qp'[q] = qp[q] /\ recvs'[q] = recvs[q]
         /\ recvs'[p] = WrNumber
<1> USE DEF IInv
<1>1. connected' = [connected EXCEPT ![p] = FALSE] /\ connected \in [Procs -> BOOLEAN]
  BY DEF Build, TypeOK
<1>2. \A q \in Procs : connected'[q] = connected[q]
  BY <1>1
<1>3. connected' = connected
  BY <1>1, <1>2
<1> QED BY <1>3 DEF Build, PostRecvs, TypeOK

LEMMA ServerFirstMeta == ASSUME IInv, MetaInv, ServerFirst PROVE MetaInv'
<1> USE DEF IInv
<1>1. /\ pc[Server] = "first" /\ cm_id = None /\ ~connected[Server] /\ Server \in Procs
      /\ cur' = [cur EXCEPT ![Server] = None] /\ wire' = wire
      /\ \E where \in {"serve", "done"} : pc' = [pc EXCEPT ![Server] = where]
  BY ProcsFacts DEF ServerFirst, OnConnectRequest, Accepting, ServerInv, Goto
<1>2. /\ connected' = connected
      /\ \A p \in Procs : p # Server => qp'[p] = qp[p] /\ recvs'[p] = recvs[p]
      /\ (qp'[Server] = qp[Server] /\ recvs'[Server] = recvs[Server]) \/ recvs'[Server] = WrNumber
  <2>1. UNCHANGED <<connected, qp, recvs>> \/ Build(Server)
    BY <1>1 DEF ServerFirst, OnConnectRequest
  <2> QED BY <1>1, <2>1, BuildFirst
<1>3. \A p \in Procs : Written(p)' => Written(p)
  BY <1>1, <1>2 DEF Written
<1>4. \A p \in Procs : \/ p # Server /\ pc'[p] = pc[p] /\ cur'[p] = cur[p]
                       \/ p = Server /\ pc'[p] \notin Dialing \cup {"handle"}
  BY <1>1 DEF TypeOK, Dialing
<1>5. CASE events' = events
  <2>1. \A p \in Procs : NoNew(events[p], events'[p], Opener(p))
    BY <1>5, NoNewSame
  <2> QED BY <1>1, <1>2, <1>3, <1>4, <2>1, MetaStep DEF Opens
<1>6. CASE events' # events
  <2>1. PICK c \in Clients : c = cur[Server].id /\ Accept(c) /\ cm_id' = c
    BY <1>1, <1>6, ProcsFacts DEF ServerFirst, OnConnectRequest, Accepting, HandlerInv, Event
  <2>2. CASE events' = Post(Server, "OTHER", c)
    <3>1. \A p \in Procs : NoNew(events[p], events'[p], Opener(p))
      BY <1>1, <2>2, PostOnce DEF EventTypes, Opener
    <3> QED BY <1>1, <1>2, <1>3, <1>4, <3>1, MetaStep DEF Opens
\* The response is the first of its kind: no client has been taken before.
  <2>3. CASE events' = Post(c, "CONNECT_RESPONSE", c) /\ link[c] = "req"
    <3>1. /\ Ev("CONNECT_RESPONSE", c) \in Event /\ events[c] \in Seq(Event) /\ c \in Procs /\ c # Server
          /\ events'[c] = Append(events[c], Ev("CONNECT_RESPONSE", c)) /\ Opener(c) = "CONNECT_RESPONSE"
          /\ \A p \in Procs : p # c => events'[p] = events[p]
      BY <2>3, EvType, ProcsFacts DEF Post, EventTypes, TypeOK, Opener
    <3>2. ~Has(events[c], Opener(c))
      <4>1. cm_id # c
        BY <1>1, ProcsFacts
      <4> QED BY <3>1, <4>1 DEF Has, EventInv, Queued, Sound
    <3>3. AtMostOnce(events'[c], Opener(c))
      BY <3>1, <3>2, AppendOnce
    <3>4. ~connected[c] /\ ~Opens(c)
      BY <1>1, <3>1, ProcsFacts DEF LinkInv, Opens, EventInv, HandlerInv, Sound
    <3> SUFFICES ASSUME NEW r \in Procs
                 PROVE  /\ AtMostOnce(events'[r], Opener(r))
                        /\ Waits(r)' => ~Opens(r)' /\ ~connected'[r]
                        /\ Opens(r)' \/ pc'[r] \in Dialing => ~connected'[r]
                        /\ Written(r)' => IF r = Server THEN \E d \in Clients : connected'[d]
                                          ELSE cm_id' = r /\ connected'[Server]
                        /\ r \in wire' /\ qp'[r] = "live" => recvs'[r] = WrNumber
      BY DEF MetaInv, Opener
    <3>5. /\ AtMostOnce(events'[r], Opener(r))
          /\ Waits(r)' => ~Opens(r)' /\ ~connected'[r]
      <4>1. CASE r = c
        BY <1>2, <1>4, <3>1, <3>3, <3>4, <4>1 DEF Opens
      <4>2. CASE r # c
        BY <1>2, <1>4, <3>1, <4>2 DEF Opens, Waits, Opener, MetaInv
      <4> QED BY <4>1, <4>2
    <3>6. Opens(r)' \/ pc'[r] \in Dialing => ~connected'[r]
      BY <1>2, <1>4 DEF Opens, MetaInv
    <3>7. Written(r)' => r = Server /\ \E d \in Clients : connected'[d]
      BY <1>1, <1>2, <1>3, ProcsFacts DEF MetaInv
    <3>8. r \in wire' /\ qp'[r] = "live" => recvs'[r] = WrNumber
      BY <1>1, <1>2 DEF MetaInv
    <3> QED BY <3>5, <3>6, <3>7, <3>8
  <2> QED BY <2>1, <2>2, <2>3 DEF Accept
<1> QED BY <1>5, <1>6

LEMMA ServerMeta == ASSUME IInv, MetaInv, ServerStep PROVE MetaInv'
<1> USE DEF IInv
<1>1. CASE ServerSetup
  <2>1. /\ pc[Server] = "setup" /\ \E next \in {"listen", "done"} : pc' = [pc EXCEPT ![Server] = next]
        /\ UNCHANGED <<events, cur, connected, qp, recvs, cm_id, wire>>
    BY <1>1 DEF ServerSetup, Goto, cmVars, connVars
  <2> QED BY <2>1, QuietMeta, NoNewSame DEF Opens, Dialing, TypeOK
<1>2. CASE RetrieveFirst
  <2>1. /\ pc' = [pc EXCEPT ![Server] = "first"] /\ events[Server] # <<>>
        /\ events' = [events EXCEPT ![Server] = Tail(@)]
        /\ \A p \in Procs : p # Server => cur'[p] = cur[p]
        /\ UNCHANGED <<connected, qp, recvs, cm_id, wire>>
    BY <1>2 DEF RetrieveFirst, Goto, connVars, TypeOK
  <2>2. \A p \in Procs : NoNew(events[p], events'[p], Opener(p))
    BY <2>1, NoNewSame, NoNewTail DEF TypeOK
  <2> QED BY <2>1, <2>2, QuietMeta DEF Opens, Dialing, TypeOK
<1>3. CASE LaterRequest
  <2>1. CASE Die(Server, "aborted")
    BY <2>1, DieMeta, ProcsFacts DEF Crashes
  <2>2. CASE ~Die(Server, "aborted")
    <3>1. /\ pc' = [pc EXCEPT ![Server] = "close"]
          /\ \A p \in Procs : p # Server => cur'[p] = cur[p]
          /\ UNCHANGED <<events, connected, qp, recvs, cm_id, wire>>
      BY <1>3, <2>2 DEF LaterRequest, Goto, connVars, TypeOK
    <3> QED BY <3>1, QuietMeta, NoNewSame DEF Opens, Dialing, TypeOK
  <2> QED BY <2>1, <2>2
<1> QED BY <1>1, <1>2, <1>3, ServerFirstMeta DEF ServerStep

LEMMA CloseMeta == ASSUME IInv, MetaInv, NEW p \in Procs, Close(p) PROVE MetaInv'
<1> USE DEF IInv
<1>1. /\ pc' = [pc EXCEPT ![p] = "done"]
      /\ UNCHANGED <<cur, connected, qp, recvs, cm_id, wire>>
  BY DEF Close, Goto, connVars
<1>2. ASSUME NEW q \in Procs PROVE NoNew(events[q], events'[q], Opener(q))
  <2>1. CASE q = p
    BY <2>1, NoNewEmpty DEF Close
  <2>2. CASE q # p
    <3>1. events'[q] = events[q] \/ (q \in Clients /\ events'[q] = Append(events[q], Ev("OTHER", q)))
      BY <2>2 DEF Close
    <3>2. q \in Clients => Ev("OTHER", q) \in Event /\ Ev("OTHER", q).type = "OTHER"
      BY EvType DEF EventTypes
    <3>3. events[q] \in Seq(Event) /\ Opener(q) # "OTHER"
      BY DEF TypeOK, Opener
    <3> QED BY <3>1, <3>2, <3>3, NoNewSame, AppendOnce
  <2> QED BY <2>1, <2>2
<1> QED BY <1>1, <1>2, QuietMeta DEF Opens, Dialing, TypeOK

\* A client's queue before its request is out: an event may go, and another,
\* which makes nobody send, may come.
LEMMA DialQueue ==
  ASSUME IInv, NEW c \in Clients, NEW q \in Seq(Event), NEW t \in EventTypes, t # "CONNECT_RESPONSE",
         \/ q = events[c]
         \/ events[c] # <<>> /\ q = Tail(events[c])
  PROVE  /\ NoNew(events[c], q, Opener(c))
         /\ NoNew(events[c], Append(q, Ev(t, c)), Opener(c))
<1>1. events[c] \in Seq(Event) /\ Opener(c) = "CONNECT_RESPONSE"
  BY ProcsFacts DEF IInv, TypeOK, Opener
<1>2. NoNew(events[c], q, Opener(c))
  BY <1>1, NoNewSame, NoNewTail
<1>3. NoNew(q, Append(q, Ev(t, c)), Opener(c))
  BY <1>1, EvType, AppendOnce
<1> QED BY <1>2, <1>3 DEF NoNew

LEMMA ClientMeta == ASSUME IInv, MetaInv, NEW c \in Clients, ClientStep(c) PROVE MetaInv'
<1> USE DEF IInv
<1>1. /\ pc[c] \in Dialing
      /\ \E where \in Threads \ {"handle"} : pc' = [pc EXCEPT ![c] = where]
      /\ UNCHANGED <<cur, cm_id, wire>>
  <2>1. pc[c] \in Dialing /\ UNCHANGED <<cur, cm_id, wire>>
    BY DEF ClientStep, ClientSetup, Resolve, AddrError, OnAddrResolved, RouteError, OnRouteResolved,
           Unexpected, Receives, Dialing, cmVars, connVars
  <2>2. \E where \in Threads \ {"handle"} : pc' = [pc EXCEPT ![c] = where]
    BY DEF ClientStep, ClientSetup, Resolve, AddrError, OnAddrResolved, RouteError, OnRouteResolved,
           Unexpected, Threads, Goto
  <2> QED BY <2>1, <2>2
<1>2. /\ connected' = connected
      /\ \A p \in Procs : p # c => qp'[p] = qp[p] /\ recvs'[p] = recvs[p]
      /\ (qp'[c] = qp[c] /\ recvs'[c] = recvs[c]) \/ recvs'[c] = WrNumber
  <2>1. ~connected[c]
    BY <1>1, ProcsFacts DEF MetaInv
  <2>2. UNCHANGED <<connected, qp, recvs>> \/ Build(c)
    BY DEF ClientStep, ClientSetup, Resolve, AddrError, OnAddrResolved, RouteError, OnRouteResolved,
           Unexpected, cmVars, connVars
  <2> QED BY <2>1, <2>2, ProcsFacts, BuildFirst
<1>3. \A p \in Procs : Written(p)' => Written(p)
  BY <1>1, <1>2 DEF Written
<1>4. \A p \in Procs : Opens(p)' => Opens(p)
  BY <1>1 DEF Opens, TypeOK
<1>5. \A p \in Procs : pc'[p] \in Dialing => pc[p] \in Dialing \/ ~connected[p]
  BY <1>1 DEF TypeOK
<1>6. \A p \in Procs : NoNew(events[p], events'[p], Opener(p))
  <2>1. events[c] \in Seq(Event) /\ c \in Procs /\ c # Server
    BY ProcsFacts DEF TypeOK
  <2>2. (\E where, type : Receives(c, where, type)) =>
           events[c] # <<>> /\ Tail(events[c]) \in Seq(Event)
    BY <2>1, ElemsTail DEF Receives
  <2>3. CASE UNCHANGED events
    BY <2>3, NoNewSame
  <2>4. CASE \E t \in EventTypes \ {"CONNECT_RESPONSE"} : events' = Post(c, t, c)
    BY <2>1, <2>4, PostOnce DEF Opener
  <2>5. ASSUME events[c] # <<>>, Tail(events[c]) \in Seq(Event), NEW t \in EventTypes \ {"CONNECT_RESPONSE"}
        PROVE  /\ NoNew(events[c], Tail(events[c]), Opener(c))
               /\ NoNew(events[c], Append(Tail(events[c]), Ev(t, c)), Opener(c))
    BY <2>5, DialQueue
  <2>6. "OTHER" \in EventTypes \ {"CONNECT_RESPONSE"}
    BY DEF EventTypes
  <2>7. CASE events[c] # <<>> /\ Tail(events[c]) \in Seq(Event) /\ Pop(c)
    <3>1. events'[c] = Tail(events[c]) /\ \A p \in Procs : p # c => events'[p] = events[p]
      BY <2>1, <2>7 DEF Pop, TypeOK
    <3> QED BY <2>5, <2>6, <2>7, <3>1, NoNewSame
  <2>8. CASE events[c] # <<>> /\ Tail(events[c]) \in Seq(Event)
             /\ \E t \in EventTypes \ {"CONNECT_RESPONSE"} :
                  events' = [events EXCEPT ![c] = Append(Tail(@), Ev(t, c))]
    <3>1. PICK t \in EventTypes \ {"CONNECT_RESPONSE"} :
            events'[c] = Append(Tail(events[c]), Ev(t, c)) /\ \A p \in Procs : p # c => events'[p] = events[p]
      BY <2>1, <2>8 DEF TypeOK
    <3> QED BY <2>5, <2>8, <3>1, NoNewSame
  <2>9. CASE events[c] # <<>> /\ Tail(events[c]) \in Seq(Event)
             /\ events' = [events EXCEPT ![c] = Tail(@), ![Server] = Append(@, Ev("CONNECT_REQUEST", c))]
    <3>1. /\ events'[c] = Tail(events[c]) /\ events'[Server] = Append(events[Server], Ev("CONNECT_REQUEST", c))
          /\ \A p \in Procs : p # c /\ p # Server => events'[p] = events[p]
          /\ events[Server] \in Seq(Event)
      BY <2>1, <2>9, ProcsFacts DEF TypeOK
    <3>2. Ev("CONNECT_REQUEST", c) \in Event /\ Ev("CONNECT_REQUEST", c).type # Opener(Server)
      BY EvType DEF EventTypes, Opener
    <3>3. NoNew(events[Server], events'[Server], Opener(Server))
      BY <3>1, <3>2, AppendOnce
    <3> QED BY <2>5, <2>6, <2>9, <3>1, <3>3, NoNewSame
  <2>10. CASE ClientSetup(c) \/ Resolve(c)
    BY <2>3, <2>4, <2>10 DEF ClientSetup, Resolve, cmVars, EventTypes
  <2>11. CASE AddrError(c) \/ RouteError(c) \/ Unexpected(c)
    BY <2>2, <2>7, <2>11 DEF AddrError, RouteError, Unexpected
  <2>12. CASE OnAddrResolved(c)
    <3>1. events[c] # <<>> /\ Tail(events[c]) \in Seq(Event)
      BY <2>2, <2>12 DEF OnAddrResolved
    <3> QED BY <2>7, <2>8, <2>12, <3>1 DEF OnAddrResolved, EventTypes
  <2>13. CASE OnRouteResolved(c)
    <3>1. events[c] # <<>> /\ Tail(events[c]) \in Seq(Event)
      BY <2>2, <2>13 DEF OnRouteResolved
    <3> QED BY <2>6, <2>7, <2>8, <2>9, <2>13, <3>1 DEF OnRouteResolved
  <2> QED BY <2>10, <2>11, <2>12, <2>13 DEF ClientStep
<1> QED BY <1>1, <1>2, <1>3, <1>4, <1>5, <1>6, MetaStep

LEMMA NextMeta == ASSUME IInv, MetaInv, [Next]_vars PROVE MetaInv'
<1>1. ASSUME NEW p \in Procs, ThreadStep(p) PROVE MetaInv'
  <2>1. CASE Start(p) \/ Finish(p)
    <3>1. /\ \/ pc[p] = "new" /\ pc' = [pc EXCEPT ![p] = "setup"]
             \/ pc' = [pc EXCEPT ![p] = "ended"]
          /\ UNCHANGED <<events, cur, connected, qp, recvs, cm_id, wire>>
      BY <2>1 DEF Start, Finish, Goto, cmVars, connVars
    <3> QED BY <3>1, QuietMeta, NoNewSame DEF Opens, Dialing, IInv, TypeOK
  <2> QED BY <1>1, <2>1, RetrieveMeta, OnEventMeta, CloseMeta, ServerMeta, ClientMeta DEF ThreadStep
<1>2. CASE UNCHANGED vars
  BY <1>2, QuietMeta, NoNewSame DEF vars, cmVars, connVars, Opens
<1> QED BY <1>1, <1>2, MainMeta, EnvironmentMeta, TimeoutMeta DEF Next

LEMMA InitMeta == ASSUME Init PROVE MetaInv
<1>1. \A p \in Procs : ~Waits(p) /\ ~Opens(p) /\ ~Written(p) /\ ~connected[p] /\ AtMostOnce(events[p], Opener(p))
  BY DEF Init, Waits, Opens, Written, AtMostOnce, Elems
<1> QED BY <1>1 DEF MetaInv, Written

(***************************************************************************)
(* A meta message never meets a live queue pair without a posted receive:  *)
(* each side sends once, and only after the other has filled its queue.    *)
(***************************************************************************)
THEOREM MetaFindsItsRecv == Spec => []MetaFindsRecv
<1>1. Init => MetaInv
  BY InitMeta
<1>2. IInv /\ MetaInv /\ [Next]_vars => MetaInv'
  BY NextMeta
<1>3. IInv /\ MetaInv => MetaFindsRecv
  <2> SUFFICES ASSUME MetaInv, IInv, NEW p \in wire, qp[p] = "live" PROVE recvs[p] > 0
    BY DEF MetaFindsRecv
  <2> QED BY BoundAssumption DEF MetaInv, IInv, TypeOK
<1> QED BY <1>1, <1>2, <1>3, Invariance, PTL DEF Spec

(***************************************************************************)
(* Connection implements Session: the steps that change what Session sees  *)
(* are the first request, the client's handshake and the server's.         *)
(***************************************************************************)
SameSession == UNCHANGED <<cm_id, Opened, connected[Server]>>

LEMMA SameSessionStep ==
  ASSUME cm_id' = cm_id, connected'[Server] = connected[Server],
         \A c \in Clients : link'[c] \in {"up", "down"} <=> link[c] \in {"up", "down"}
  PROVE  SameSession
  BY DEF SameSession, Opened

LEMMA DieSame ==
  ASSUME NEW p \in Procs, NEW how, Die(p, how) PROVE SameSession
<1>1. \A c \in Clients : link'[c] \in {"up", "down"} <=> link[c] \in {"up", "down"}
  BY DEF Die, Cut
<1> QED BY <1>1, SameSessionStep DEF Die

LEMMA MainSame == ASSUME NEW p \in Procs, MainStep(p) PROVE SameSession
<1>1. CASE MainWake(p)
  BY <1>1, SameSessionStep DEF MainWake, cmVars, connVars
<1>2. CASE MainExit(p)
  BY <1>2, DieSame DEF MainExit
<1> QED BY <1>1, <1>2 DEF MainStep

LEMMA EnvironmentSame ==
  ASSUME IInv, NEW p \in Procs, Environment(p) PROVE SameSession
<1>1. CASE Kill(p)
  BY <1>1, DieSame DEF Kill
<1>2. CASE Stop(p)
  <2>1. PICK c : c = IF p = Server THEN cm_id ELSE p
    OBVIOUS
  <2>2. /\ link[c] = "up" /\ link' = [link EXCEPT ![c] = "down"]
        /\ UNCHANGED <<cm_id, connected>>
    BY <1>2, <2>1 DEF Stop, connVars
  <2>3. \A d \in Clients : link'[d] \in {"up", "down"} <=> link[d] \in {"up", "down"}
    BY <2>2 DEF IInv, TypeOK
  <2> QED BY <2>2, <2>3, SameSessionStep
<1>3. CASE DeviceRemoval(p)
  BY <1>3, SameSessionStep DEF DeviceRemoval, connVars
<1>4. CASE Deliver(p)
  BY <1>4, SameSessionStep DEF Deliver, cmVars
<1>5. CASE BuildCrash(p)
  BY <1>5, DieSame DEF BuildCrash
<1> QED BY <1>1, <1>2, <1>3, <1>4, <1>5 DEF Environment

LEMMA ClientSame ==
  ASSUME IInv, NEW c \in Clients, ClientStep(c) PROVE SameSession
<1>1. CASE ClientSetup(c) \/ Resolve(c) \/ AddrError(c) \/ RouteError(c) \/ Unexpected(c)
  BY <1>1, SameSessionStep
     DEF ClientSetup, Resolve, AddrError, RouteError, Unexpected, cmVars, connVars
<1>2. CASE OnAddrResolved(c)
  BY <1>2, SameSessionStep, ProcsFacts DEF OnAddrResolved, Build, IInv, TypeOK
<1>3. CASE OnRouteResolved(c)
  <2>1. link[c] = "idle"
    BY <1>3 DEF OnRouteResolved, Receives, IInv, LinkInv, Dialing
  <2>2. link' = link \/ \E state \in {"lost", "req"} : link' = [link EXCEPT ![c] = state]
    BY <1>3 DEF OnRouteResolved
  <2>3. \A d \in Clients : link'[d] \in {"up", "down"} <=> link[d] \in {"up", "down"}
    BY <2>1, <2>2 DEF IInv, TypeOK
  <2> QED BY <1>3, <2>3, SameSessionStep DEF OnRouteResolved, connVars
<1> QED BY <1>1, <1>2, <1>3 DEF ClientStep

LEMMA TakeStep ==
  ASSUME IInv, ServerFirst
  PROVE  SameSession \/ \E c \in Clients : Served!Take(c)
<1>1. /\ pc[Server] = "first" /\ cm_id = None /\ ~connected[Server]
      /\ cur[Server].id \in Clients
  BY ProcsFacts DEF ServerFirst, IInv, ServerInv, HandlerInv, Event
<1>2. connected'[Server] = connected[Server]
  BY <1>1, ProcsFacts DEF ServerFirst, OnConnectRequest, Build, IInv, TypeOK
<1>3. \A d \in Clients : link'[d] \in {"up", "down"} <=> link[d] \in {"up", "down"}
  <2>1. link' = link \/ \E c \in Clients : link[c] = "req" /\ link' = [link EXCEPT ![c] = "rep"]
    BY <1>1 DEF ServerFirst, OnConnectRequest, Accepting, Accept
  <2> QED BY <2>1 DEF IInv, TypeOK
<1>4. Opened' = Opened
  BY <1>3 DEF Opened
<1>5. cm_id' = cur[Server].id \/ cm_id' = cm_id
  BY DEF ServerFirst
<1> QED BY <1>1, <1>2, <1>4, <1>5 DEF SameSession, Served!Take

LEMMA OpenClientStep ==
  ASSUME IInv, NEW p \in Procs, Retrieve(p)
  PROVE  SameSession \/ Served!OpenClient
<1>1. UNCHANGED <<cm_id, connected>> /\ events[p] # <<>>
  BY DEF Retrieve, GetEvent, connVars
<1>2. CASE link' = link
  BY <1>1, <1>2, SameSessionStep
<1>3. CASE link' # link
  <2>1. /\ p # Server /\ Head(events[p]).type = "CONNECT_RESPONSE"
        /\ link[p] = "rep" /\ link' = [link EXCEPT ![p] = "up"]
    BY <1>3 DEF Retrieve, GetEvent
  <2>2. p \in Clients /\ cm_id = p
    BY <2>1, ProcsFacts DEF IInv, LinkInv
  <2>3. Opened = {}
    BY <2>1, <2>2 DEF Opened, IInv, LinkInv
  <2>4. Opened' = {p}
    BY <2>1, <2>2, <2>3 DEF Opened, IInv, TypeOK
  <2> QED BY <1>1, <2>2, <2>3, <2>4, ProcsFacts DEF Served!OpenClient
<1> QED BY <1>2, <1>3

LEMMA OpenServerStep ==
  ASSUME IInv, NEW p \in Procs, OnEvent(p)
  PROVE  SameSession \/ Served!OpenServer
<1>1. UNCHANGED <<cm_id, link>> /\ Opened' = Opened
  BY DEF OnEvent, Opened
<1>2. CASE connected'[Server] = connected[Server]
  BY <1>1, <1>2 DEF SameSession
<1>3. CASE connected'[Server] # connected[Server]
  <2>1. p = Server /\ pc[p] = "handle" /\ cur[p].type = "ESTABLISHED" /\ connected'[Server] = TRUE
    BY <1>3, ProcsFacts DEF OnEvent, OnConnection, OnDisconnect, IInv, TypeOK
  <2>2. cur[p].id \in Clients /\ link[cur[p].id] \in {"up", "down"}
    BY <2>1, ProcsFacts DEF IInv, HandlerInv, EventInv, Sound, Event
  <2>3. Opened = {cm_id}
    BY <2>2 DEF Opened, IInv, LinkInv
  <2> QED BY <1>1, <2>1, <2>3 DEF Served!OpenServer
<1> QED BY <1>2, <1>3

LEMMA CloseSame == ASSUME IInv, NEW p \in Procs, Close(p) PROVE SameSession
<1>1. \A c \in Clients : link'[c] \in {"up", "down"} <=> link[c] \in {"up", "down"}
  BY DEF Close
<1> QED BY <1>1, SameSessionStep DEF Close, connVars

LEMMA SessionStep ==
  ASSUME IInv, [Next]_vars
  PROVE  SameSession \/ Served!Next
<1>1. ASSUME NEW p \in Procs, ThreadStep(p) PROVE SameSession \/ Served!Next
  <2>1. CASE Start(p) \/ Finish(p) \/ ServerSetup \/ RetrieveFirst
    BY <2>1, SameSessionStep DEF Start, Finish, ServerSetup, RetrieveFirst, cmVars, connVars
  <2>2. CASE LaterRequest
    <3>1. CASE Die(Server, "aborted")
      BY <3>1, DieSame, ProcsFacts
    <3>2. CASE UNCHANGED <<link, connVars>>
      BY <3>2, SameSessionStep DEF connVars
    <3> QED BY <2>2, <3>1, <3>2 DEF LaterRequest
  <2> QED BY <1>1, <2>1, <2>2, TakeStep, OpenClientStep, OpenServerStep, CloseSame, ClientSame
             DEF ThreadStep, ServerStep, Served!Next
<1>2. ASSUME NEW c \in Clients, Timeout(c) PROVE SameSession
  <2>1. \A d \in Clients : link'[d] \in {"up", "down"} <=> link[d] \in {"up", "down"}
    BY <1>2 DEF Timeout, IInv, TypeOK
  <2> QED BY <1>2, <2>1, SameSessionStep DEF Timeout, connVars
<1>3. CASE UNCHANGED vars
  BY <1>3, SameSessionStep DEF vars, cmVars, connVars
<1> QED BY <1>1, <1>2, <1>3, MainSame, EnvironmentSame DEF Next

(***************************************************************************)
(* For any number of clients: one client per run of the server, its side   *)
(* open before the server's, and no other client ever told it is connected. *)
(***************************************************************************)
THEOREM SessionRefinement == Spec => ImplementsSession
<1>1. ASSUME Init PROVE Served!Init
  BY <1>1, ProcsFacts DEF Init, Served!Init, Opened
<1>2. ASSUME IInv, [Next]_vars PROVE [Served!Next]_(Served!sessionVars)
  BY <1>2, SessionStep DEF SameSession, Served!sessionVars
<1> QED BY <1>1, <1>2, Invariance, PTL DEF Spec, ImplementsSession, Served!Spec
=============================================================================
