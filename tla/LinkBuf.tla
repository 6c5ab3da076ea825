------------------------------ MODULE LinkBuf ------------------------------
(***************************************************************************)
(* Link_buf (src/include/link_buf.h): a lock-free ring of links that       *)
(* tracks how far a total order of concurrent operations is complete.      *)
(*                                                                         *)
(* Several adders each take the next stretch [from, to) of the order, wait *)
(* for has_space(from), and store its length in slot from mod capacity.    *)
(* One tracker follows the links from the tail, empties each slot it has   *)
(* passed, and publishes the new tail last.  Every load and store of an    *)
(* atomic is a step of its own, but for the tail the tracker loads again   *)
(* before it stores it, which nobody else writes.                          *)
(*                                                                         *)
(* External: how adders take their stretches (nothing in the repository    *)
(* uses the ring; link_buf.h:59-67 and 94-101 say what users owe it).      *)
(***************************************************************************)
EXTENDS Integers

CONSTANTS
  Adders,     \* threads calling has_space and add_link
  Capacity,   \* m_capacity
  Lengths,    \* lengths an operation may have
  Stops,      \* advance_tail_until has a condition that may stop it
  MaxPos      \* bound on the positions handed out

ASSUME CapacityAssumption == Capacity \in Nat \ {0}
ASSUME LengthAssumption == Lengths \subseteq Nat \ {0} /\ MaxPos \in Nat
ASSUME StopsAssumption == Stops \in BOOLEAN

VARIABLES
  m_links,   \* the slots; 0 is no link
  m_tail,
  reserved,  \* external: the next position to hand out
  pc,        \* pc[t]: "idle", "wait" for space, "check" the slot, "store"
  from,      \* from[t], to[t]: the stretch of t's operation
  to,
  tpc,       \* tracker: "idle", "read" a link, "claim" its slot, "publish"
  position,  \* tracker's local variables
  next

adderVars   == <<reserved, pc, from, to>>
trackerVars == <<tpc, position, next>>
vars == <<m_links, m_tail, adderVars, trackerVars>>

Slots == 0 .. Capacity - 1

(* position & (m_capacity - 1), the capacity being a power of two. *)
slot_index(p) == p % Capacity

(* A faulty test that lets a link in one position early. *)
has_space_early(p) == m_tail + Capacity >= p

has_space(p) == m_tail + Capacity > p

Init ==
  /\ m_links = [i \in Slots |-> 0]
  /\ m_tail = 0
  /\ reserved = 0
  /\ pc = [t \in Adders |-> "idle"]
  /\ from = [t \in Adders |-> 0]
  /\ to = [t \in Adders |-> 0]
  /\ tpc = "idle"
  /\ position = 0
  /\ next = 0
-----------------------------------------------------------------------------
(* External: t takes the next stretch of the order. *)
Reserve(t) ==
  /\ pc[t] = "idle"
  /\ \E len \in Lengths :
       /\ reserved + len <= MaxPos
       /\ from' = [from EXCEPT ![t] = reserved]
       /\ to' = [to EXCEPT ![t] = reserved + len]
       /\ reserved' = reserved + len
  /\ pc' = [pc EXCEPT ![t] = "wait"]
  /\ UNCHANGED <<m_links, m_tail, trackerVars>>

HasSpace(t) ==
  /\ pc[t] = "wait"
  /\ has_space(from[t])
  /\ pc' = [pc EXCEPT ![t] = "check"]
  /\ UNCHANGED <<m_links, m_tail, reserved, from, to, trackerVars>>

(* add_link: assert(slot.load() == 0), which is SlotFree below. *)
CheckSlot(t) ==
  /\ pc[t] = "check"
  /\ pc' = [pc EXCEPT ![t] = "store"]
  /\ UNCHANGED <<m_links, m_tail, reserved, from, to, trackerVars>>

(* A faulty link that holds where it leads, not how far. *)
DistanceAbsolute(t) == to[t]
Distance(t) == to[t] - from[t]

(* add_link: slot.store(to - from). *)
StoreLink(t) ==
  /\ pc[t] = "store"
  /\ m_links' = [m_links EXCEPT ![slot_index(from[t])] = Distance(t)]
  /\ pc' = [pc EXCEPT ![t] = "idle"]
  /\ UNCHANGED <<m_tail, reserved, from, to, trackerVars>>
-----------------------------------------------------------------------------
(* advance_tail_until, by the single tracker. *)

LoadTail ==
  /\ tpc = "idle"
  /\ position' = m_tail
  /\ tpc' = "read"
  /\ UNCHANGED <<m_links, m_tail, adderVars, next>>

(* A faulty tracker that publishes before it has emptied the slot. *)
ReadLinkPublishing ==
  /\ tpc = "read"
  /\ LET distance == m_links[slot_index(position)]
     IN /\ next' = position + distance
        /\ m_tail' = position + distance
        /\ tpc' = IF distance = 0 THEN "publish" ELSE "claim"
  /\ UNCHANGED <<m_links, adderVars, position>>

(* next_position, and the test whether to stop. *)
ReadLink ==
  /\ tpc = "read"
  /\ LET distance == m_links[slot_index(position)]
     IN /\ next' = position + distance
        /\ \/ distance # 0 /\ tpc' = "claim"
           \/ (distance = 0 \/ Stops) /\ tpc' = "publish"
  /\ UNCHANGED <<m_links, m_tail, adderVars, position>>

(* A faulty claim that leaves the link in its slot. *)
Unclaimed(p) == m_links
Claimed(p) == [m_links EXCEPT ![slot_index(p)] = 0]

(* claim_position; position = next. *)
Claim ==
  /\ tpc = "claim"
  /\ m_links' = Claimed(position)
  /\ position' = next
  /\ tpc' = "read"
  /\ UNCHANGED <<m_tail, adderVars, next>>

(* A faulty end that publishes nothing. *)
Unmoved(p) == m_tail
Moved(p) == IF p > m_tail THEN p ELSE m_tail

(* The tail is stored if it has moved. *)
Publish ==
  /\ tpc = "publish"
  /\ m_tail' = Moved(position)
  /\ tpc' = "idle"
  /\ UNCHANGED <<m_links, adderVars, position, next>>

(***************************************************************************)
(* clear_links and set_tail, called while nobody uses the ring, to restart *)
(* it where the order has got to.                                          *)
(***************************************************************************)
Restart ==
  /\ tpc = "idle" /\ \A t \in Adders : pc[t] = "idle"
  /\ m_links' = [i \in Slots |-> 0]
  /\ m_tail' = reserved
  /\ UNCHANGED <<adderVars, trackerVars>>
-----------------------------------------------------------------------------
Adder(t) == HasSpace(t) \/ CheckSlot(t) \/ StoreLink(t)
Tracker  == LoadTail \/ ReadLink \/ Claim \/ Publish

Next ==
  \/ \E t \in Adders : Reserve(t) \/ Adder(t)
  \/ Tracker
  \/ Restart

Spec == Init /\ [][Next]_vars

(* A thread inside an operation goes on, and the tracker keeps tracking. *)
Fairness == WF_vars(Tracker) /\ \A t \in Adders : WF_vars(Adder(t))

FairSpec == Spec /\ Fairness
-----------------------------------------------------------------------------
TypeOK ==
  /\ m_links \in [Slots -> Nat]
  /\ m_tail \in 0 .. reserved
  /\ reserved \in Nat
  /\ pc \in [Adders -> {"idle", "wait", "check", "store"}]
  /\ from \in [Adders -> Nat]
  /\ to \in [Adders -> Nat]
  /\ tpc \in {"idle", "read", "claim", "publish"}
  /\ position \in Nat
  /\ next \in Nat

(***************************************************************************)
(* assert(slot.load() == 0) in add_link never fires, and nobody fills the  *)
(* slot between that load and the store: has_space, asked about a tail     *)
(* that moves, keeps two laps of the ring apart.                           *)
(***************************************************************************)
SlotFree ==
  \A t \in Adders : pc[t] \in {"check", "store"} =>
    m_links[slot_index(from[t])] = 0

(***************************************************************************)
(* The tracker never passes an unfinished operation, not even with the     *)
(* position it has not published yet.                                      *)
(***************************************************************************)
NoHoleBelow ==
  \A t \in Adders : pc[t] # "idle" =>
    /\ m_tail <= from[t]
    /\ tpc \in {"read", "claim", "publish"} => position <= from[t]

(***************************************************************************)
(* The order this ring keeps: LinkOrder, with an operation unfinished from *)
(* its reservation to the store of its link.                               *)
(***************************************************************************)
Order == INSTANCE LinkOrder WITH
           begun <- [t \in Adders |-> IF pc[t] = "idle" THEN -1 ELSE from[t]],
           tail  <- m_tail

ImplementsOrder == Order!Spec

(***************************************************************************)
(* An adder that waits for space finishes its operation, and the tail      *)
(* reaches the end of the order once everything is finished.               *)
(***************************************************************************)
AddersFinish == \A t \in Adders : (pc[t] # "idle") ~> (pc[t] = "idle")

TailCatchesUp == (reserved = MaxPos) ~> (m_tail = MaxPos)
-----------------------------------------------------------------------------
(***************************************************************************)
(* The inductive strengthening the theorems of LinkBufProofs rest on.      *)
(***************************************************************************)
Busy(t)   == pc[t] # "idle"
Base      == IF tpc = "idle" THEN m_tail ELSE position
Window    == m_tail .. m_tail + Capacity - 1
LinkAt(p) == m_links[slot_index(p)]

TrackInv ==
  /\ m_tail <= Base
  /\ Base <= reserved
  /\ tpc = "claim" => /\ position \in Window
                      /\ LinkAt(position) # 0
                      /\ next = position + LinkAt(position)

(* Unfinished operations are disjoint stretches past the tracker. *)
StretchInv ==
  \A t \in Adders : Busy(t) =>
    /\ Base <= from[t]
    /\ from[t] < to[t]
    /\ to[t] <= reserved
    /\ \A u \in Adders \ {t} : Busy(u) => to[t] <= from[u] \/ to[u] <= from[t]

SpaceInv ==
  \A t \in Adders : pc[t] \in {"check", "store"} => from[t] < m_tail + Capacity

(* What the tracker has passed is empty until the tail is published. *)
PassedInv == \A p \in Window : p < Base => LinkAt(p) = 0

(* A link in the window overlaps neither another one nor an operation that *)
(* is unfinished.                                                          *)
LinkInv ==
  \A p \in Window : LinkAt(p) # 0 =>
    /\ p + LinkAt(p) <= reserved
    /\ \A q \in Window : (p < q /\ LinkAt(q) # 0) => p + LinkAt(p) <= q
    /\ \A t \in Adders : Busy(t) => to[t] <= p \/ p + LinkAt(p) <= from[t]

IInv == TypeOK /\ TrackInv /\ StretchInv /\ SpaceInv /\ PassedInv /\ LinkInv
=============================================================================
