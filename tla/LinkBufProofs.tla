--------------------------- MODULE LinkBufProofs ---------------------------
(***************************************************************************)
(* Proofs about LinkBuf for any set of adders, any capacity and any        *)
(* lengths.  The first part is arithmetic: positions of one window of the  *)
(* ring have slots of their own, and every position shares its slot with   *)
(* one of the window.                                                      *)
(***************************************************************************)
EXTENDS LinkBuf, TLAPS

LEMMA CapacityPositive == Capacity \in Nat /\ Capacity > 0
BY CapacityAssumption

(* Quotient and remainder. *)
LEMMA Division ==
  ASSUME NEW p \in Nat, NEW c \in Nat, c > 0
  PROVE  /\ p = c * (p \div c) + (p % c)
         /\ p \div c \in Nat
         /\ p % c \in 0 .. c - 1
BY Z3

(* The only multiple of c strictly between -c and c is 0. *)
LEMMA SmallMultiple ==
  ASSUME NEW c \in Nat, c > 0, NEW q \in Int, c * q < c, c * q > 0 - c
  PROVE  q = 0
OBVIOUS

LEMMA RemainderUnique ==
  ASSUME NEW c \in Nat, c > 0, NEW q \in Int, NEW s \in Int,
         NEW r \in 0 .. c - 1, NEW t \in 0 .. c - 1, c * q + r = c * s + t
  PROVE  q = s /\ r = t
<1>1. c * (q - s) = c * q - c * s
  OBVIOUS
<1>2. c * (q - s) < c /\ c * (q - s) > 0 - c
  <2>1. c * q \in Int /\ c * s \in Int
    OBVIOUS
  <2> QED BY <1>1, <2>1
<1>3. q - s = 0
  BY <1>2, SmallMultiple
<1> QED BY <1>3

(* Whole laps do not change the slot. *)
LEMMA Laps ==
  ASSUME NEW p \in Nat, NEW n \in Nat, NEW c \in Nat, c > 0
  PROVE  (p + c * n) % c = p % c
<1> DEFINE whole == p + c * n
<1> DEFINE q == p \div c
<1> DEFINE s == whole \div c
<1> DEFINE r == p % c
<1> DEFINE t == whole % c
<1>1. p = c * q + r /\ q \in Nat /\ r \in 0 .. c - 1
  BY Division
<1>2. whole = c * s + t /\ s \in Nat /\ t \in 0 .. c - 1
  <2>1. whole \in Nat
    OBVIOUS
  <2> HIDE DEF whole
  <2> QED BY <2>1, Division
<1>3. c * (q + n) + r = c * s + t
  <2>1. whole = p + c * n
    OBVIOUS
  <2> HIDE DEF whole, q, s, r, t
  <2>2. c * (q + n) = c * q + c * n /\ c * q \in Int /\ c * n \in Int
    BY <1>1
  <2> QED BY <2>1, <2>2, <1>1, <1>2
<1>4. r = t
  <2> HIDE DEF whole, q, s, r, t
  <2>1. q + n \in Int /\ s \in Int
    BY <1>1, <1>2
  <2> QED BY <2>1, <1>1, <1>2, <1>3, RemainderUnique
<1> QED BY <1>4

LEMMA SlotType == \A p \in Nat : slot_index(p) \in Slots
BY CapacityPositive, Division DEF slot_index, Slots

(* Two positions of one window have different slots. *)
LEMMA WindowInjective ==
  ASSUME NEW a \in Nat,
         NEW p \in a .. a + Capacity - 1, NEW q \in a .. a + Capacity - 1,
         slot_index(p) = slot_index(q)
  PROVE  p = q
<1> DEFINE c == Capacity
<1> DEFINE m == p \div c
<1> DEFINE n == q \div c
<1> DEFINE r == p % c
<1>1. c \in Nat /\ c > 0 /\ p \in Nat /\ q \in Nat
  BY CapacityPositive
<1>2. /\ p = c * m + r /\ q = c * n + r
      /\ m \in Nat /\ n \in Nat /\ r \in 0 .. c - 1
  <2>1. q % c = r
    BY DEF slot_index
  <2> HIDE DEF c
  <2> QED BY <1>1, <2>1, Division
<1>3. c * (m - n) = c * m - c * n /\ c * m \in Int /\ c * n \in Int
  <2> HIDE DEF c, m, n
  <2> QED BY <1>1, <1>2
<1>4. p - q < c /\ p - q > 0 - c
  BY <1>1
<1>5. c * (m - n) < c /\ c * (m - n) > 0 - c
  <2> HIDE DEF c, m, n, r
  <2> QED BY <1>1, <1>2, <1>3, <1>4
<1>6. m - n = 0
  <2> HIDE DEF c, m, n
  <2>1. m - n \in Int
    BY <1>2
  <2> QED BY <1>1, <1>5, <2>1, SmallMultiple
<1>7. m = n
  <2> HIDE DEF c, m, n
  <2> QED BY <1>2, <1>6
<1> QED
  <2> HIDE DEF c, m, n, r
  <2> QED BY <1>2, <1>7

(* Every position from the window on shares its slot with the window. *)
LEMMA WindowCovers ==
  ASSUME NEW a \in Nat, NEW p \in Nat, a <= p
  PROVE  \E w \in a .. a + Capacity - 1 : w <= p /\ slot_index(w) = slot_index(p)
<1> DEFINE c == Capacity
<1> DEFINE n == (p - a) \div c
<1> DEFINE r == (p - a) % c
<1>1. c \in Nat /\ c > 0 /\ p - a \in Nat
  BY CapacityPositive
<1>2. p - a = c * n + r /\ n \in Nat /\ r \in 0 .. c - 1
  <2> HIDE DEF c
  <2> QED BY <1>1, Division
<1> DEFINE w == a + r
<1>3. w \in a .. a + c - 1 /\ w \in Nat /\ c * n \in Nat
  <2> HIDE DEF c, n, r
  <2> QED BY <1>1, <1>2
<1>4. p = w + c * n
  <2> HIDE DEF c, n, r
  <2> QED BY <1>1, <1>2, <1>3
<1>5. slot_index(p) = slot_index(w)
  <2>1. (w + c * n) % c = w % c
    <3> HIDE DEF c, n, w
    <3> QED BY <1>1, <1>2, <1>3, Laps
  <2> QED BY <1>4, <2>1 DEF slot_index
<1>6. w <= p
  <2> HIDE DEF c, n, w
  <2> QED BY <1>3, <1>4
<1> QED BY <1>3, <1>5, <1>6

-----------------------------------------------------------------------------
(***************************************************************************)
(* One lemma per step: it preserves the inductive invariant.               *)
(***************************************************************************)

LEMMA WindowType ==
  ASSUME TypeOK
  PROVE  /\ m_tail \in Nat
         /\ \A p \in Window : p \in Nat
         /\ \A p \in Nat : LinkAt(p) \in Nat
BY SlotType, CapacityPositive DEF TypeOK, Window, LinkAt

LEMMA InitInv == Init => IInv
<1> SUFFICES ASSUME Init PROVE IInv
  OBVIOUS
<1>0. \A p \in Window : LinkAt(p) = 0
  BY SlotType, CapacityPositive DEF Init, Window, LinkAt
<1>1. TypeOK
  BY DEF Init, TypeOK
<1>2. TrackInv /\ StretchInv /\ SpaceInv
  BY DEF Init, TrackInv, Base, StretchInv, SpaceInv, Busy
<1>3. PassedInv /\ LinkInv
  BY <1>0 DEF PassedInv, LinkInv
<1> QED BY <1>1, <1>2, <1>3 DEF IInv

(* A new stretch begins where every other one has ended. *)
LEMMA ReserveInv ==
  ASSUME NEW t \in Adders, IInv, Reserve(t)
  PROVE  IInv'
<1> USE DEF IInv
<1>1. PICK len \in Lengths :
        /\ from' = [from EXCEPT ![t] = reserved]
        /\ to' = [to EXCEPT ![t] = reserved + len]
        /\ reserved' = reserved + len
  BY DEF Reserve
<1>2. len \in Nat /\ len > 0
  BY LengthAssumption
<1>3. /\ pc' = [pc EXCEPT ![t] = "wait"]
      /\ UNCHANGED <<m_links, m_tail, tpc, position, next>>
  BY DEF Reserve, trackerVars
<1>4. TypeOK'
  BY <1>1, <1>2, <1>3 DEF TypeOK
<1>5. /\ Base' = Base /\ Window' = Window
      /\ \A p : LinkAt(p)' = LinkAt(p)
  BY <1>3 DEF Base, Window, LinkAt
<1>6. TrackInv'
  <2>1. Base \in Nat
    BY DEF Base, TypeOK
  <2> QED BY <1>1, <1>2, <1>3, <1>5, <2>1 DEF TrackInv, TypeOK
<1>7. StretchInv'
  <2> SUFFICES ASSUME NEW u \in Adders, Busy(u)'
               PROVE  /\ Base <= from'[u]
                      /\ from'[u] < to'[u]
                      /\ to'[u] <= reserved'
                      /\ \A v \in Adders \ {u} : Busy(v)' =>
                           to'[u] <= from'[v] \/ to'[v] <= from'[u]
    BY <1>5 DEF StretchInv
  <2>1. Base \in Nat /\ Base <= reserved /\ reserved \in Nat
    BY DEF Base, TypeOK, TrackInv
  <2>2. from'[t] = reserved /\ to'[t] = reserved + len
    BY <1>1 DEF TypeOK
  <2>3. \A v \in Adders \ {t} :
          /\ from'[v] = from[v] /\ to'[v] = to[v]
          /\ Busy(v)' => Busy(v)
    BY <1>1, <1>3 DEF TypeOK, Busy
  <2>4. \A v \in Adders : from[v] \in Nat /\ to[v] \in Nat
    BY DEF TypeOK
  <2>5. CASE u = t
    BY <1>1, <1>2, <2>1, <2>2, <2>3, <2>4, <2>5 DEF StretchInv
  <2>6. CASE u # t
    <3>1. /\ Base <= from[u] /\ from[u] < to[u] /\ to[u] <= reserved
          /\ \A v \in Adders \ {u} : Busy(v) => to[u] <= from[v] \/ to[v] <= from[u]
      BY <2>3, <2>6 DEF StretchInv
    <3> QED BY <1>1, <1>2, <2>1, <2>2, <2>3, <2>4, <2>6, <3>1
  <2> QED BY <2>5, <2>6
<1>8. SpaceInv'
  BY <1>1, <1>3 DEF SpaceInv, TypeOK
<1>9. PassedInv'
  BY <1>5 DEF PassedInv
<1>10. LinkInv'
  <2> SUFFICES ASSUME NEW p \in Window, LinkAt(p) # 0
               PROVE  /\ p + LinkAt(p) <= reserved'
                      /\ \A q \in Window : (p < q /\ LinkAt(q) # 0) => p + LinkAt(p) <= q
                      /\ \A u \in Adders : Busy(u)' =>
                           to'[u] <= p \/ p + LinkAt(p) <= from'[u]
    BY <1>5 DEF LinkInv
  <2>1. p \in Nat /\ LinkAt(p) \in Nat /\ reserved \in Nat
    BY WindowType DEF TypeOK
  <2>2. p + LinkAt(p) <= reserved
    BY DEF LinkInv
  <2>3. \A u \in Adders : u # t => from'[u] = from[u] /\ to'[u] = to[u] /\ (Busy(u)' => Busy(u))
    BY <1>1, <1>3 DEF TypeOK, Busy
  <2>4. from'[t] = reserved
    BY <1>1 DEF TypeOK
  <2>5. \A q \in Window : (p < q /\ LinkAt(q) # 0) => p + LinkAt(p) <= q
    BY DEF LinkInv
  <2>6. \A u \in Adders : Busy(u) => to[u] <= p \/ p + LinkAt(p) <= from[u]
    BY DEF LinkInv
  <2> QED BY <1>1, <1>2, <2>1, <2>2, <2>3, <2>4, <2>5, <2>6
<1> QED BY <1>4, <1>6, <1>7, <1>8, <1>9, <1>10

(* Steps of an adder that touch neither the ring nor the tracker. *)
LEMMA QuietStepInv ==
  ASSUME IInv, NEW t \in Adders, NEW label \in {"check", "store"},
         pc[t] # "idle", from[t] < m_tail + Capacity,
         pc' = [pc EXCEPT ![t] = label],
         UNCHANGED <<m_links, m_tail, reserved, from, to, tpc, position, next>>
  PROVE  IInv'
<1> USE DEF IInv
<1>1. TypeOK'
  BY DEF TypeOK
<1>2. /\ Base' = Base /\ Window' = Window
      /\ \A p : LinkAt(p)' = LinkAt(p)
      /\ \A u \in Adders : Busy(u)' => Busy(u)
  BY DEF Base, Window, LinkAt, Busy, TypeOK
<1>3. TrackInv' /\ PassedInv'
  BY <1>2 DEF TrackInv, PassedInv
<1>4. StretchInv'
  BY <1>2 DEF StretchInv
<1>5. SpaceInv'
  BY DEF SpaceInv, TypeOK
<1>6. LinkInv'
  BY <1>2 DEF LinkInv
<1> QED BY <1>1, <1>3, <1>4, <1>5, <1>6

LEMMA HasSpaceInv ==
  ASSUME NEW t \in Adders, IInv, HasSpace(t)
  PROVE  IInv'
<1>1. from[t] < m_tail + Capacity
  BY CapacityPositive DEF HasSpace, has_space, IInv, TypeOK
<1> QED BY <1>1, QuietStepInv DEF HasSpace, trackerVars

LEMMA CheckSlotInv ==
  ASSUME NEW t \in Adders, IInv, CheckSlot(t)
  PROVE  IInv'
<1>1. from[t] < m_tail + Capacity
  BY DEF CheckSlot, IInv, SpaceInv
<1> QED BY <1>1, QuietStepInv DEF CheckSlot, trackerVars

(* The slot a link goes to belongs to its start alone, in this window. *)
LEMMA StoreLinkInv ==
  ASSUME NEW t \in Adders, IInv, StoreLink(t)
  PROVE  IInv'
<1> USE DEF IInv
<1> DEFINE f == from[t]
<1> DEFINE len == to[t] - from[t]
<1>0. /\ pc[t] = "store" /\ pc' = [pc EXCEPT ![t] = "idle"]
      /\ m_links' = [m_links EXCEPT ![slot_index(f)] = len]
      /\ UNCHANGED <<m_tail, reserved, from, to, tpc, position, next>>
  BY DEF StoreLink, Distance, trackerVars
<1>1. f \in Nat /\ to[t] \in Nat /\ reserved \in Nat /\ m_tail \in Nat /\ Base \in Nat
  BY DEF TypeOK, Base
<1>2. Busy(t) /\ Base <= f /\ f < to[t] /\ to[t] <= reserved /\ m_tail <= Base
  BY <1>0 DEF StretchInv, Busy, TrackInv
<1>3. f < m_tail + Capacity
  BY <1>0 DEF SpaceInv
<1>4. f \in Window /\ len \in Nat /\ len > 0 /\ f + len = to[t]
  BY <1>1, <1>2, <1>3, CapacityPositive DEF Window
<1>5. Base' = Base /\ Window' = Window
  BY <1>0 DEF Base, Window
<1>6. m_links'[slot_index(f)] = len
  BY <1>0, <1>1, SlotType DEF TypeOK
<1>7. \A p \in Window : p # f => LinkAt(p)' = LinkAt(p)
  <2> SUFFICES ASSUME NEW p \in Window, p # f PROVE LinkAt(p)' = LinkAt(p)
    OBVIOUS
  <2>1. slot_index(p) # slot_index(f)
    BY <1>1, <1>4, WindowInjective DEF Window
  <2> QED BY <1>0, <2>1 DEF LinkAt, TypeOK
<1>8. \A u \in Adders : Busy(u)' => Busy(u) /\ u # t
  BY <1>0 DEF Busy, TypeOK
<1>9. TypeOK'
  BY <1>0, <1>1, <1>4, SlotType DEF TypeOK
<1>10. TrackInv'
  <2>1. tpc = "claim" => position # f
    <3>1. tpc = "claim" => LinkAt(position) \in Nat /\ LinkAt(position) > 0 /\ position \in Nat
      BY WindowType DEF TrackInv
    <3>2. tpc = "claim" /\ position = f => to[t] <= f \/ f + LinkAt(f) <= f
      BY <1>2, <1>4, <3>1 DEF LinkInv
    <3> QED BY <1>1, <1>2, <3>1, <3>2
  <2> QED BY <1>0, <1>5, <1>7, <2>1 DEF TrackInv
<1>11. StretchInv'
  BY <1>0, <1>5, <1>8 DEF StretchInv
<1>12. SpaceInv'
  BY <1>0 DEF SpaceInv, TypeOK
<1>13. PassedInv'
  BY <1>1, <1>2, <1>5, <1>7 DEF PassedInv
<1>14. LinkInv'
  <2> SUFFICES ASSUME NEW p \in Window, LinkAt(p)' # 0
               PROVE  /\ p + LinkAt(p)' <= reserved
                      /\ \A q \in Window : (p < q /\ LinkAt(q)' # 0) => p + LinkAt(p)' <= q
                      /\ \A u \in Adders : Busy(u)' => to[u] <= p \/ p + LinkAt(p)' <= from[u]
    BY <1>0, <1>5 DEF LinkInv
  <2>0. \A u \in Adders : from[u] \in Nat /\ to[u] \in Nat
    BY DEF TypeOK
  <2>00. \A q \in Window : q \in Nat /\ LinkAt(q) \in Nat
    BY WindowType
  <2>1. CASE p = f
    <3>1. p + LinkAt(p)' = to[t]
      <4>1. LinkAt(p)' = len
        BY <1>6, <2>1 DEF LinkAt
      <4> QED BY <1>4, <2>1, <4>1
    <3>2. ASSUME NEW q \in Window, p < q, LinkAt(q)' # 0
          PROVE  to[t] <= q
      <4>1. q # f /\ LinkAt(q) # 0
        BY <1>1, <1>7, <2>1, <2>00, <3>2
      <4>2. to[t] <= q \/ q + LinkAt(q) <= f
        BY <1>2, <4>1 DEF LinkInv
      <4> QED BY <1>1, <2>1, <2>00, <3>2, <4>2
    <3>3. ASSUME NEW u \in Adders, Busy(u)'
          PROVE  to[u] <= p \/ to[t] <= from[u]
      BY <1>2, <1>8, <2>1, <3>3 DEF StretchInv
    <3> QED BY <1>2, <3>1, <3>2, <3>3
  <2>2. CASE p # f
    <3>1. LinkAt(p)' = LinkAt(p) /\ LinkAt(p) # 0
      BY <1>7, <2>2
    <3>2. ASSUME NEW q \in Window, p < q, LinkAt(q)' # 0
          PROVE  p + LinkAt(p) <= q
      <4>1. CASE q = f
        <5>1. to[t] <= p \/ p + LinkAt(p) <= f
          BY <1>2, <3>1 DEF LinkInv
        <5> QED BY <1>1, <1>2, <2>00, <3>2, <4>1, <5>1
      <4>2. CASE q # f
        BY <1>7, <3>1, <3>2, <4>2 DEF LinkInv
      <4> QED BY <4>1, <4>2
    <3>3. p + LinkAt(p) <= reserved
      BY <3>1 DEF LinkInv
    <3>4. \A u \in Adders : Busy(u)' => to[u] <= p \/ p + LinkAt(p) <= from[u]
      BY <1>8, <3>1 DEF LinkInv
    <3> QED BY <3>1, <3>2, <3>3, <3>4
  <2> QED BY <2>1, <2>2
<1> QED BY <1>9, <1>10, <1>11, <1>12, <1>13, <1>14

LEMMA LoadTailInv == IInv /\ LoadTail => IInv'
<1> SUFFICES ASSUME IInv, LoadTail PROVE IInv'
  OBVIOUS
<1> USE DEF IInv
<1>0. /\ tpc = "idle" /\ tpc' = "read" /\ position' = m_tail
      /\ UNCHANGED <<m_links, m_tail, reserved, pc, from, to, next>>
  BY DEF LoadTail, adderVars
<1>1. TypeOK'
  BY <1>0 DEF TypeOK
<1>2. /\ Base' = Base /\ Window' = Window
      /\ \A p : LinkAt(p)' = LinkAt(p)
      /\ \A u \in Adders : Busy(u)' <=> Busy(u)
  BY <1>0 DEF Base, Window, LinkAt, Busy
<1>3. TrackInv' /\ PassedInv' /\ SpaceInv'
  BY <1>0, <1>2 DEF TrackInv, PassedInv, SpaceInv
<1>4. StretchInv' /\ LinkInv'
  BY <1>0, <1>2 DEF StretchInv, LinkInv
<1> QED BY <1>1, <1>3, <1>4

(* A link the tracker finds starts inside the window: beyond it, the slot  *)
(* is one the tracker has emptied.                                         *)
LEMMA LinkInWindow ==
  ASSUME IInv, NEW p \in Nat, Base <= p, LinkAt(p) # 0, p < Base + Capacity
  PROVE  p \in Window
<1> USE DEF IInv
<1>1. m_tail \in Nat /\ Base \in Nat /\ m_tail <= Base
  BY DEF TypeOK, Base, TrackInv
<1>2. PICK w \in m_tail .. m_tail + Capacity - 1 :
        w <= p /\ slot_index(w) = slot_index(p)
  <2>1. m_tail <= p
    BY <1>1
  <2>2. \E w \in m_tail .. m_tail + Capacity - 1 :
          w <= p /\ slot_index(w) = slot_index(p)
    BY <1>1, <2>1, WindowCovers
  <2> QED BY <2>2
<1>3. w \in Window /\ LinkAt(w) # 0
  BY <1>2 DEF Window, LinkAt
<1>4. Base <= w
  BY <1>1, <1>3, CapacityPositive DEF PassedInv, Window
<1>5. w = p
  <2>1. w \in Base .. Base + Capacity - 1 /\ p \in Base .. Base + Capacity - 1
    BY <1>1, <1>2, <1>4, CapacityPositive
  <2> QED BY <1>1, <1>2, <2>1, WindowInjective
<1> QED BY <1>3, <1>5

LEMMA ReadLinkInv == IInv /\ ReadLink => IInv'
<1> SUFFICES ASSUME IInv, ReadLink PROVE IInv'
  OBVIOUS
<1> USE DEF IInv
<1>0. /\ tpc = "read" /\ tpc' \in {"claim", "publish"}
      /\ next' = position + LinkAt(position)
      /\ tpc' = "claim" => LinkAt(position) # 0
      /\ UNCHANGED <<m_links, m_tail, reserved, pc, from, to, position>>
  BY DEF ReadLink, adderVars, LinkAt
<1>1. position \in Nat /\ LinkAt(position) \in Nat /\ Base = position
  BY <1>0, WindowType DEF TypeOK, Base
<1>2. TypeOK'
  BY <1>0, <1>1 DEF TypeOK
<1>3. /\ Base' = Base /\ Window' = Window
      /\ \A u \in Adders : Busy(u)' <=> Busy(u)
  BY <1>0 DEF Base, Window, Busy
<1>4. LinkAt(position)' = LinkAt(position) /\ \A p : LinkAt(p)' = LinkAt(p)
  BY <1>0 DEF LinkAt
<1>5. tpc' = "claim" => position \in Window
  BY <1>0, <1>1, LinkInWindow, CapacityPositive
<1>6. TrackInv'
  BY <1>0, <1>3, <1>4, <1>5 DEF TrackInv
<1>7. PassedInv' /\ SpaceInv'
  BY <1>0, <1>3, <1>4 DEF PassedInv, SpaceInv
<1>8. StretchInv' /\ LinkInv'
  BY <1>0, <1>3, <1>4 DEF StretchInv, LinkInv
<1> QED BY <1>2, <1>6, <1>7, <1>8

(* Following a link skips one finished operation and nothing else. *)
LEMMA ClaimInv == IInv /\ Claim => IInv'
<1> SUFFICES ASSUME IInv, Claim PROVE IInv'
  OBVIOUS
<1> USE DEF IInv
<1>0. /\ tpc = "claim" /\ tpc' = "read" /\ position' = next
      /\ m_links' = [m_links EXCEPT ![slot_index(position)] = 0]
      /\ UNCHANGED <<m_tail, reserved, pc, from, to, next>>
  BY DEF Claim, Claimed, adderVars
<1>1. /\ position \in Window /\ LinkAt(position) # 0
      /\ next = position + LinkAt(position) /\ Base = position
  BY <1>0 DEF TrackInv, Base
<1>2. /\ position \in Nat /\ LinkAt(position) \in Nat /\ next \in Nat
      /\ m_tail \in Nat /\ reserved \in Nat
      /\ \A p \in Window : p \in Nat /\ LinkAt(p) \in Nat
  BY WindowType DEF TypeOK
<1>3. position < next /\ next <= reserved /\ m_tail <= position
  BY <1>1, <1>2 DEF LinkInv, TrackInv
<1>4. Base' = next /\ Window' = Window
  BY <1>0 DEF Base, Window
<1>5. m_links'[slot_index(position)] = 0
  BY <1>0, <1>2, SlotType DEF TypeOK
<1>6. \A p \in Window : LinkAt(p)' = IF p = position THEN 0 ELSE LinkAt(p)
  <2> SUFFICES ASSUME NEW p \in Window
               PROVE  LinkAt(p)' = IF p = position THEN 0 ELSE LinkAt(p)
    OBVIOUS
  <2>1. CASE p = position
    BY <1>5, <2>1 DEF LinkAt
  <2>2. CASE p # position
    <3>1. slot_index(p) # slot_index(position)
      BY <1>1, <1>2, <2>2, WindowInjective DEF Window
    <3> QED BY <1>0, <2>2, <3>1 DEF LinkAt, TypeOK
  <2> QED BY <2>1, <2>2
<1>7. \A u \in Adders : Busy(u)' <=> Busy(u)
  BY <1>0 DEF Busy
<1>8. TypeOK'
  BY <1>0, <1>2, SlotType DEF TypeOK
<1>9. TrackInv'
  BY <1>0, <1>2, <1>3, <1>4 DEF TrackInv
<1>10. StretchInv'
  <2> SUFFICES ASSUME NEW u \in Adders, Busy(u)
               PROVE  /\ next <= from[u] /\ from[u] < to[u] /\ to[u] <= reserved
                      /\ \A v \in Adders \ {u} : Busy(v) =>
                           to[u] <= from[v] \/ to[v] <= from[u]
    BY <1>0, <1>4, <1>7 DEF StretchInv
  <2>1. /\ position <= from[u] /\ from[u] < to[u] /\ to[u] <= reserved
        /\ \A v \in Adders \ {u} : Busy(v) => to[u] <= from[v] \/ to[v] <= from[u]
    BY <1>1 DEF StretchInv
  <2>2. to[u] <= position \/ next <= from[u]
    BY <1>1 DEF LinkInv
  <2>3. from[u] \in Nat /\ to[u] \in Nat
    BY DEF TypeOK
  <2> QED BY <1>2, <2>1, <2>2, <2>3
<1>11. SpaceInv'
  BY <1>0 DEF SpaceInv
<1>12. PassedInv'
  <2> SUFFICES ASSUME NEW p \in Window, p < next PROVE LinkAt(p)' = 0
    BY <1>4 DEF PassedInv
  <2>1. CASE p < position
    BY <1>1, <1>6, <2>1 DEF PassedInv
  <2>2. CASE p = position
    BY <1>6, <2>2
  <2>3. CASE position < p
    <3>1. LinkAt(p) # 0 => next <= p
      BY <1>1, <2>3 DEF LinkInv
    <3> QED BY <1>2, <1>6, <2>3, <3>1
  <2> QED BY <1>2, <2>1, <2>2, <2>3
<1>13. LinkInv'
  <2> SUFFICES ASSUME NEW p \in Window, LinkAt(p)' # 0
               PROVE  /\ p + LinkAt(p)' <= reserved
                      /\ \A q \in Window : (p < q /\ LinkAt(q)' # 0) => p + LinkAt(p)' <= q
                      /\ \A u \in Adders : Busy(u) => to[u] <= p \/ p + LinkAt(p)' <= from[u]
    BY <1>0, <1>4, <1>7 DEF LinkInv
  <2>1. LinkAt(p)' = LinkAt(p) /\ LinkAt(p) # 0
    BY <1>6
  <2>2. \A q \in Window : LinkAt(q)' # 0 => LinkAt(q) # 0
    BY <1>6
  <2> QED BY <2>1, <2>2 DEF LinkInv
<1> QED BY <1>8, <1>9, <1>10, <1>11, <1>12, <1>13

(* The window moves to the tracker; what it leaves behind is empty. *)
LEMMA PublishInv == IInv /\ Publish => IInv'
<1> SUFFICES ASSUME IInv, Publish PROVE IInv'
  OBVIOUS
<1> USE DEF IInv
<1>0. /\ tpc = "publish" /\ tpc' = "idle"
      /\ UNCHANGED <<m_links, reserved, pc, from, to, position, next>>
  BY DEF Publish, Moved, adderVars
<1>1. Base = position /\ m_tail <= position /\ position <= reserved
  BY <1>0 DEF Base, TrackInv
<1>2. m_tail \in Nat /\ position \in Nat /\ reserved \in Nat
  BY DEF TypeOK
<1>3. m_tail' = position
  BY <1>1, <1>2 DEF Publish, Moved
<1>4. Base' = position /\ Window' = position .. position + Capacity - 1
  BY <1>0, <1>3 DEF Base, Window
<1>5. \A p : LinkAt(p)' = LinkAt(p)
  BY <1>0 DEF LinkAt
<1>6. \A u \in Adders : Busy(u)' <=> Busy(u)
  BY <1>0 DEF Busy
<1>7. \A p \in Window' : LinkAt(p) # 0 => p \in Window
  BY <1>1, <1>2, <1>4, LinkInWindow, CapacityPositive
<1>8. TypeOK'
  BY <1>0, <1>1, <1>2, <1>3 DEF TypeOK
<1>9. TrackInv' /\ StretchInv'
  <2>1. TrackInv'
    BY <1>0, <1>1, <1>2, <1>3, <1>4 DEF TrackInv
  <2>2. StretchInv'
    BY <1>0, <1>1, <1>4, <1>6 DEF StretchInv
  <2> QED BY <2>1, <2>2
<1>10. SpaceInv'
  <2> SUFFICES ASSUME NEW u \in Adders, pc[u] \in {"check", "store"}
               PROVE  from[u] < position + Capacity
    BY <1>0, <1>3 DEF SpaceInv
  <2>1. from[u] < m_tail + Capacity /\ from[u] \in Nat
    BY DEF SpaceInv, TypeOK
  <2> QED BY <1>1, <1>2, <2>1, CapacityPositive
<1>11. PassedInv'
  BY <1>2, <1>4, CapacityPositive DEF PassedInv
<1>12. LinkInv'
  BY <1>0, <1>5, <1>6, <1>7 DEF LinkInv
<1> QED BY <1>8, <1>9, <1>10, <1>11, <1>12

LEMMA RestartInv == IInv /\ Restart => IInv'
<1> SUFFICES ASSUME IInv, Restart PROVE IInv'
  OBVIOUS
<1> USE DEF IInv
<1>0. /\ tpc = "idle" /\ m_links' = [i \in Slots |-> 0] /\ m_tail' = reserved
      /\ \A u \in Adders : pc[u] = "idle"
      /\ UNCHANGED <<reserved, pc, from, to, tpc, position, next>>
  BY DEF Restart, adderVars, trackerVars
<1>1. reserved \in Nat
  BY DEF TypeOK
<1>2. Base' = reserved /\ Window' = reserved .. reserved + Capacity - 1
  BY <1>0 DEF Base, Window
<1>3. \A p \in Window' : LinkAt(p)' = 0
  BY <1>0, <1>1, <1>2, SlotType, CapacityPositive DEF LinkAt
<1>4. TypeOK'
  BY <1>0, <1>1 DEF TypeOK
<1>5. TrackInv' /\ StretchInv' /\ SpaceInv'
  BY <1>0, <1>1, <1>2 DEF TrackInv, StretchInv, SpaceInv, Busy
<1>6. PassedInv' /\ LinkInv'
  BY <1>3 DEF PassedInv, LinkInv
<1> QED BY <1>4, <1>5, <1>6

(***************************************************************************)
(* The conjunction of LinkBuf's invariants is inductive.                   *)
(***************************************************************************)
THEOREM Invariance == Spec => []IInv
<1>1. ASSUME IInv, [Next]_vars PROVE IInv'
  <2>1. ASSUME NEW t \in Adders, Reserve(t) \/ Adder(t) PROVE IInv'
    BY <1>1, <2>1, ReserveInv, HasSpaceInv, CheckSlotInv, StoreLinkInv DEF Adder
  <2>2. CASE Tracker
    BY <1>1, <2>2, LoadTailInv, ReadLinkInv, ClaimInv, PublishInv DEF Tracker
  <2>3. CASE Restart
    BY <1>1, <2>3, RestartInv
  <2>4. CASE UNCHANGED vars
    <3>1. UNCHANGED <<m_links, m_tail, reserved, pc, from, to, tpc, position, next>>
      BY <2>4 DEF vars, adderVars, trackerVars
    <3> QED BY <1>1, <3>1 DEF IInv, TypeOK, TrackInv, StretchInv, SpaceInv,
            PassedInv, LinkInv, Base, Window, LinkAt, Busy
  <2> QED BY <1>1, <2>1, <2>2, <2>3, <2>4 DEF Next
<1> QED BY <1>1, InitInv, PTL DEF Spec

(***************************************************************************)
(* The ring, the threads' positions and the tail stay within their types.  *)
(***************************************************************************)
THEOREM TypeCorrect == Spec => []TypeOK
<1>1. IInv => TypeOK BY DEF IInv
<1> QED BY <1>1, Invariance, PTL

(***************************************************************************)
(* assert(slot.load() == 0) in add_link never fires.                       *)
(***************************************************************************)
THEOREM SlotAlwaysFree == Spec => []SlotFree
<1>1. ASSUME IInv PROVE SlotFree
  <2> SUFFICES ASSUME NEW t \in Adders, pc[t] \in {"check", "store"}, LinkAt(from[t]) # 0
               PROVE  FALSE
    BY DEF SlotFree, LinkAt
  <2>1. Busy(t) /\ from[t] \in Nat /\ to[t] \in Nat /\ m_tail \in Nat /\ Base \in Nat
    BY <1>1 DEF Busy, IInv, TypeOK, Base
  <2>2. /\ m_tail <= Base /\ Base <= from[t] /\ from[t] < to[t]
        /\ from[t] < m_tail + Capacity
    BY <1>1, <2>1 DEF IInv, TrackInv, StretchInv, SpaceInv
  <2>3. from[t] \in Window
    BY <2>1, <2>2, CapacityPositive DEF Window
  <2>4. to[t] <= from[t] \/ from[t] + LinkAt(from[t]) <= from[t]
    BY <1>1, <2>1, <2>3 DEF IInv, LinkInv
  <2>5. LinkAt(from[t]) \in Nat
    BY <1>1, <2>1, WindowType DEF IInv
  <2> QED BY <2>1, <2>2, <2>4, <2>5
<1> QED BY <1>1, Invariance, PTL

(***************************************************************************)
(* The tracker never passes an operation that has not finished.            *)
(***************************************************************************)
THEOREM NothingSkipped == Spec => []NoHoleBelow
<1>1. ASSUME IInv PROVE NoHoleBelow
  <2> SUFFICES ASSUME NEW t \in Adders, pc[t] # "idle"
               PROVE  /\ m_tail <= from[t]
                      /\ tpc \in {"read", "claim", "publish"} => position <= from[t]
    BY DEF NoHoleBelow
  <2>1. m_tail <= Base /\ Base <= from[t]
    BY <1>1 DEF IInv, TrackInv, StretchInv, Busy
  <2>2. m_tail \in Nat /\ Base \in Nat /\ from[t] \in Nat
    BY <1>1 DEF IInv, TypeOK, Base
  <2>3. tpc \in {"read", "claim", "publish"} => Base = position
    BY DEF Base
  <2> QED BY <2>1, <2>2, <2>3
<1> QED BY <1>1, Invariance, PTL

(***************************************************************************)
(* LinkBuf implements LinkOrder: a reservation begins an operation, the    *)
(* store of its link finishes it, and only Publish and Restart move the    *)
(* tail.                                                                   *)
(***************************************************************************)
Begun == [t \in Adders |-> IF pc[t] = "idle" THEN -1 ELSE from[t]]

LEMMA AdderOrder ==
  ASSUME IInv, NEW t \in Adders, Reserve(t) \/ Adder(t)
  PROVE  Order!Next \/ UNCHANGED <<reserved, Begun, m_tail>>
<1> USE DEF IInv, TypeOK
<1>1. CASE Reserve(t)
  <2>1. PICK len \in Lengths : /\ from' = [from EXCEPT ![t] = reserved]
                               /\ reserved' = reserved + len
    BY <1>1 DEF Reserve
  <2>2. reserved' > reserved
    BY <2>1, LengthAssumption
  <2>3. Begun[t] = -1 /\ Begun' = [Begun EXCEPT ![t] = reserved] /\ m_tail' = m_tail
    BY <1>1, <2>1 DEF Reserve, Begun
  <2>4. Order!Begin(t)
    BY <2>2, <2>3 DEF Begun, Order!Begin, Order!Idle
  <2> QED BY <2>4 DEF Order!Next
<1>2. CASE HasSpace(t) \/ CheckSlot(t)
  <2>1. UNCHANGED <<reserved, from, m_tail>>
    BY <1>2 DEF HasSpace, CheckSlot
  <2>2. \A u \in Adders : pc'[u] = "idle" <=> pc[u] = "idle"
    BY <1>2 DEF HasSpace, CheckSlot
  <2> QED BY <2>1, <2>2 DEF Begun
<1>3. CASE StoreLink(t)
  <2>1. /\ pc[t] = "store" /\ pc' = [pc EXCEPT ![t] = "idle"]
        /\ UNCHANGED <<reserved, from, m_tail>>
    BY <1>3 DEF StoreLink
  <2>2. from[t] # -1 /\ pc \in [Adders -> {"idle", "wait", "check", "store"}]
    OBVIOUS
  <2>3. Begun[t] = from[t]
    BY <2>1 DEF Begun
  <2>4. Begun' = [Begun EXCEPT ![t] = -1]
    BY <2>1, <2>2 DEF Begun
  <2>5. /\ Begun[t] # Order!Idle /\ Begun' = [Begun EXCEPT ![t] = Order!Idle]
        /\ UNCHANGED <<reserved, m_tail>>
    BY <2>1, <2>2, <2>3, <2>4 DEF Order!Idle
  <2>6. Order!Finish(t)
    BY <2>5 DEF Begun, Order!Finish
  <2> QED BY <2>6 DEF Order!Next
<1> QED BY <1>1, <1>2, <1>3 DEF Adder

LEMMA TailOrder ==
  ASSUME IInv, m_tail' \in Nat, m_tail' > m_tail, m_tail' <= reserved,
         \A t \in Adders : Busy(t) => m_tail' <= from[t],
         UNCHANGED <<reserved, pc, from>>
  PROVE  Order!Next
<1>1. \A t \in Adders : Begun[t] # -1 => m_tail' <= Begun[t]
  BY DEF Begun, Busy
<1>2. Begun' = Begun
  BY DEF Begun
<1> QED BY <1>1, <1>2 DEF Begun, Order!Next, Order!Advance, Order!Idle

LEMMA PublishOrder ==
  ASSUME IInv, Publish PROVE Order!Next \/ UNCHANGED <<reserved, Begun, m_tail>>
<1>1. /\ tpc = "publish" /\ m_tail' = IF position > m_tail THEN position ELSE m_tail
      /\ UNCHANGED <<reserved, pc, from>>
  BY DEF Publish, Moved, adderVars
<1>2. position \in Nat /\ position <= reserved /\ \A t \in Adders : Busy(t) => position <= from[t]
  BY <1>1 DEF IInv, TypeOK, TrackInv, StretchInv, Base
<1>3. CASE position > m_tail
  BY <1>1, <1>2, <1>3, TailOrder
<1>4. CASE ~ (position > m_tail)
  BY <1>1, <1>4 DEF Begun
<1> QED BY <1>3, <1>4

LEMMA RestartOrder ==
  ASSUME IInv, Restart PROVE Order!Next \/ UNCHANGED <<reserved, Begun, m_tail>>
<1>1. /\ m_tail' = reserved /\ \A t \in Adders : ~Busy(t)
      /\ UNCHANGED <<reserved, pc, from>>
  BY DEF Restart, adderVars, Busy
<1>2. m_tail \in Nat /\ reserved \in Nat /\ m_tail <= reserved
  BY DEF IInv, TypeOK
<1>3. CASE m_tail < reserved
  BY <1>1, <1>2, <1>3, TailOrder
<1>4. CASE m_tail = reserved
  BY <1>1, <1>4 DEF Begun
<1> QED BY <1>2, <1>3, <1>4

(***************************************************************************)
(* For every capacity, number of threads and set of lengths: operations    *)
(* take consecutive stretches, and the tail never goes back nor passes one *)
(* that is unfinished.                                                     *)
(***************************************************************************)
THEOREM OrderRefinement == Spec => ImplementsOrder
<1>1. ASSUME Init PROVE Order!Init
  BY <1>1 DEF Init, Order!Init, Order!Idle
<1>2. ASSUME IInv, [Next]_vars PROVE [Order!Next]_(Order!orderVars)
  <2>1. CASE LoadTail \/ ReadLink \/ Claim \/ UNCHANGED vars
    BY <2>1 DEF LoadTail, ReadLink, Claim, vars, adderVars, Order!orderVars
  <2>2. UNCHANGED <<reserved, Begun, m_tail>> => UNCHANGED Order!orderVars
    BY DEF Begun, Order!orderVars
  <2> QED BY <1>2, <2>1, <2>2, AdderOrder, PublishOrder, RestartOrder DEF Next, Tracker
<1> QED BY <1>1, <1>2, Invariance, PTL DEF Spec, ImplementsOrder, Order!Spec
=============================================================================
