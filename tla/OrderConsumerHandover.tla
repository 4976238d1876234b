------------------------ MODULE OrderConsumerHandover ------------------------
(***************************************************************************)
(* Orderly histories, for any number of processes and partitions: as long  *)
(* as there was no crash, eviction, fatal error or second signal, however  *)
(* many rebalances, shutdowns and restarts there were, a message is        *)
(* handled once, in order, and has one outcome.  The inductive invariant   *)
(* is OrderlyInv: a partition changes hands only between two rounds of     *)
(* poll, when its owner has stored all that it has handled, and the commit *)
(* on the way out passes that on to the next owner.                        *)
(***************************************************************************)
EXTENDS OrderConsumerAccounting

----------------------------------------------------------------------------
(* What the invariant says of a state. *)

LEMMA OutcomesAreOfMessages ==
    ASSUME TypeOK
    PROVE  Settled \union Queued \subseteq Message
<1>1. Settled \subseteq Message
  BY DEF TypeOK, BrokerTypeOK, HistoryTypeOK, Settled, DeadLettered, Letter
<1>2. Queued \subseteq Message
  BY DEF TypeOK, ClientTypeOK, Queued, Letter
<1> QED
  BY <1>1, <1>2

LEMMA FrontierType ==
    ASSUME TypeOK, NEW c \in Consumers, NEW p \in Partitions
    PROVE  Frontier(c, p) \in Nat
BY DEF TypeOK, ThreadTypeOK, ClientTypeOK, Frontier, InHand, Message

LEMMA EdgeType ==
    ASSUME TypeOK, NEW p \in Partitions
    PROVE  Edge(p) \in Nat
BY FrontierType DEF TypeOK, BrokerTypeOK, Edge

\* What a thread has not yet found an outcome for is new and in its hands alone.
LEMMA InHandIsNew ==
    ASSUME TypeOK, HoldsWhatItOwns, NothingBeyondEdge, NEW c \in Consumers,
           pc[c] \in {"handle", "deliver", "produce"}
    PROVE  /\ cur[c] \in Message
           /\ cur[c] \notin Settled \union Queued
           /\ \A d \in Consumers \ {c} : cur[d] # cur[c]
<1>1. cur[c] \in Message /\ cur[c] # None
  BY DEF TypeOK, ThreadTypeOK, Busy
<1>2. cur[c].part \in Partitions /\ InHand(c, cur[c].part) /\ cur[c].off \in Nat
  BY <1>1 DEF InHand, Message
<1>3. owner[cur[c].part] = c /\ c # None
  BY <1>2, NoneAssumption DEF HoldsWhatItOwns
<1>4. \A d \in Consumers \ {c} : cur[d] # cur[c]
  BY <1>1, <1>2, <1>3 DEF HoldsWhatItOwns, InHand
<1>5. ~BeingStored(cur[c])
  BY <1>4 DEF BeingStored
<1>6. Edge(cur[c].part) = cur[c].off
  BY <1>2, <1>3 DEF Edge, Frontier
<1> QED
  BY <1>1, <1>2, <1>4, <1>5, <1>6 DEF NothingBeyondEdge

----------------------------------------------------------------------------
(* Steps that leave the offsets and hands alone. *)

\* Nothing moves but threads; what gains an outcome is about to be stored.
LEMMA QuietOrderly ==
    ASSUME OrderlyInv, clean' => clean,
           UNCHANGED <<owner, held, position, stored, cur>>,
           \A p \in Partitions : owner[p] = None => committed'[p] = committed[p],
           TypeOK,
           \A m \in (Settled \union Queued)' :
                m \in Settled \union Queued \/ (m \in Message /\ BeingStored(m)'),
           \A c \in Consumers : pc[c] \in {"flush", "store"}
                                    => pc'[c] \in {"flush", "store"},
           clean' => OneOutcome'
    PROVE  OrderlyInv'
<1> SUFFICES ASSUME clean' PROVE (HoldsWhatItOwns /\ NothingBeyondEdge)'
  BY DEF OrderlyInv
<1>1. HoldsWhatItOwns /\ NothingBeyondEdge
  BY DEF OrderlyInv
<1>2. HoldsWhatItOwns'
  BY <1>1 DEF HoldsWhatItOwns, InHand, Frontier
<1>3. \A p \in Partitions : Edge(p)' = Edge(p)
  BY DEF Edge, Frontier, InHand
<1>4. \A m : BeingStored(m) => BeingStored(m)'
  BY DEF BeingStored
<1>5. \A m \in Settled \union Queued : m.part \in Partitions
  BY OutcomesAreOfMessages DEF Message
<1>6. NothingBeyondEdge'
  BY <1>1, <1>3, <1>4, <1>5 DEF NothingBeyondEdge
<1> QED
  BY <1>2, <1>6

\* A partition changes hands, a message is taken up or put down: no edge goes back.
LEMMA EdgesAdvance ==
    ASSUME OrderlyInv, clean, HoldsWhatItOwns', TypeOK,
           \A p \in Partitions : Edge(p)' \in Nat /\ Edge(p)' >= Edge(p),
           UNCHANGED <<delivered, dlqTopic>>,
           Queued' \subseteq Queued,
           \A m \in Message :
                BeingStored(m) => BeingStored(m)' \/ m.off < Edge(m.part)'
    PROVE  OrderlyInv'
<1>1. Settled' = Settled /\ DeadLettered' = DeadLettered
  BY DEF Settled, DeadLettered
<1>2. OneOutcome'
  BY <1>1 DEF OrderlyInv, OneOutcome
<1>3. NothingBeyondEdge'
  <2> SUFFICES ASSUME NEW m \in Settled \union Queued
               PROVE  (m.off < Edge(m.part) \/ BeingStored(m))'
    BY <1>1 DEF NothingBeyondEdge
  <2>1. m \in Message /\ m.part \in Partitions /\ m.off \in Nat
    BY OutcomesAreOfMessages DEF Message
  <2>2. CASE m.off < Edge(m.part)
    BY <2>1, <2>2, EdgeType
  <2>3. CASE BeingStored(m)
    BY <2>1, <2>3
  <2> QED
    BY <2>2, <2>3 DEF OrderlyInv, NothingBeyondEdge
<1> QED
  BY <1>2, <1>3 DEF OrderlyInv

----------------------------------------------------------------------------
(* Partitions change hands. *)

LEMMA AssignOrderly ==
    ASSUME TypeOK, OrderlyInv, clean, NEW c \in Consumers, NEW p \in Partitions,
           Assign(c, p)
    PROVE  OrderlyInv'
<1>1. HoldsWhatItOwns
  BY DEF OrderlyInv
<1>2. /\ cur' = cur /\ pc' = pc /\ committed' = committed
      /\ UNCHANGED <<delivered, dlqTopic, flight, clean>>
  BY DEF Assign, program, inHand, history
<1>3. cur[c] = None /\ owner[p] = None /\ c # None
  BY NoneAssumption DEF Assign, TypeOK, ThreadTypeOK, Busy
<1>4. /\ owner'[p] = c
      /\ \A q \in Partitions \ {p} : owner'[q] = owner[q]
      /\ held'[c] = held[c] \union {p}
      /\ \A d \in Consumers \ {c} : held'[d] = held[d]
  BY DEF Assign, TypeOK, BrokerTypeOK, ClientTypeOK
<1>5. position'[c][p] = committed[p] /\ stored'[c][p] = committed[p]
  BY DEF Assign, TypeOK, ClientTypeOK
<1>6. \A d \in Consumers : \A q \in Partitions : d # c \/ q # p =>
        position'[d][q] = position[d][q] /\ stored'[d][q] = stored[d][q]
  BY DEF Assign, TypeOK, ClientTypeOK
<1>7. \A d \in Consumers : \A q \in Partitions : InHand(d, q)' <=> InHand(d, q)
  BY <1>2 DEF InHand
<1>8. \A d \in Consumers : \A q \in Partitions :
        d # c \/ q # p => Frontier(d, q)' = Frontier(d, q)
  BY <1>2, <1>6 DEF Frontier, InHand
<1>9. Frontier(c, p)' = committed[p]
  BY <1>2, <1>3, <1>5 DEF Frontier, InHand
<1>10. HoldsWhatItOwns'
  <2> SUFFICES ASSUME NEW d \in Consumers, NEW q \in Partitions
               PROVE  /\ q \in held'[d] <=> owner'[q] = d
                      /\ InHand(d, q)' => owner'[q] = d
                      /\ owner'[q] = d => stored'[d][q] = Frontier(d, q)'
    BY DEF HoldsWhatItOwns
  <2>1. CASE q = p
    <3>1. d # None /\ ~InHand(d, p) /\ p \notin held[d]
      BY <1>1, <1>3, NoneAssumption DEF HoldsWhatItOwns
    <3> QED
      BY <1>4, <1>5, <1>7, <1>9, <2>1, <3>1
  <2>2. CASE q # p
    <3>1. q \in held'[d] <=> q \in held[d]
      BY <1>4, <2>2
    <3>2. owner'[q] = owner[q]
      BY <1>4, <2>2
    <3> QED
      BY <1>1, <1>6, <1>7, <1>8, <2>2, <3>1, <3>2 DEF HoldsWhatItOwns
  <2> QED
    BY <2>1, <2>2
<1>11. \A q \in Partitions : Edge(q)' = Edge(q)
  <2> SUFFICES ASSUME NEW q \in Partitions PROVE Edge(q)' = Edge(q)
    OBVIOUS
  <2>1. CASE q = p
    BY <1>3, <1>4, <1>9, <2>1 DEF Edge
  <2>2. CASE q # p /\ owner[q] = None
    BY <1>2, <1>4, <2>2 DEF Edge
  <2>3. CASE q # p /\ owner[q] # None
    <3>1. owner[q] \in Consumers /\ owner'[q] = owner[q]
      BY <1>4, <2>3 DEF TypeOK, BrokerTypeOK
    <3>2. Frontier(owner[q], q)' = Frontier(owner[q], q)
      BY <1>8, <2>3, <3>1 DEF Frontier, InHand
    <3> QED
      BY <2>3, <3>1, <3>2 DEF Edge, Frontier, InHand
  <2> QED
    BY <2>1, <2>2, <2>3
<1>12. \A m : BeingStored(m) => BeingStored(m)'
  BY <1>2 DEF BeingStored
<1>13. Queued' \subseteq Queued
  BY <1>2 DEF Queued
<1>14. \A q \in Partitions : Edge(q)' \in Nat /\ Edge(q)' >= Edge(q)
  BY <1>11, EdgeType
<1> QED
  BY <1>2, <1>10, <1>12, <1>13, <1>14, EdgesAdvance

LEMMA RevokeOrderly ==
    ASSUME TypeOK, OrderlyInv, clean, NEW c \in Consumers, NEW p \in Partitions,
           Revoke(c, p)
    PROVE  OrderlyInv'
<1>1. HoldsWhatItOwns
  BY DEF OrderlyInv
<1>2. /\ cur' = cur /\ pc' = pc
      /\ UNCHANGED <<delivered, dlqTopic, flight, clean>>
  BY DEF Revoke, program, inHand, history
<1>3. cur[c] = None /\ owner[p] = c /\ c # None
  BY NoneAssumption DEF Revoke, TypeOK, ThreadTypeOK, Busy
<1>4. /\ owner'[p] = None
      /\ \A q \in Partitions \ {p} : owner'[q] = owner[q]
      /\ held'[c] = held[c] \ {p}
      /\ \A d \in Consumers \ {c} : held'[d] = held[d]
  BY DEF Revoke, TypeOK, BrokerTypeOK, ClientTypeOK
<1>5. committed'[p] = stored[c][p]
      /\ \A q \in Partitions \ {p} : committed'[q] = committed[q]
  BY DEF Revoke, Commit
<1>6. \A d \in Consumers : \A q \in Partitions : d # c \/ q # p =>
        position'[d][q] = position[d][q] /\ stored'[d][q] = stored[d][q]
  BY DEF Revoke, TypeOK, ClientTypeOK
<1>7. \A d \in Consumers : \A q \in Partitions : InHand(d, q)' <=> InHand(d, q)
  BY <1>2 DEF InHand
<1>8. \A d \in Consumers : \A q \in Partitions :
        d # c \/ q # p => Frontier(d, q)' = Frontier(d, q)
  BY <1>2, <1>6 DEF Frontier, InHand
<1>9. HoldsWhatItOwns'
  <2> SUFFICES ASSUME NEW d \in Consumers, NEW q \in Partitions
               PROVE  /\ q \in held'[d] <=> owner'[q] = d
                      /\ InHand(d, q)' => owner'[q] = d
                      /\ owner'[q] = d => stored'[d][q] = Frontier(d, q)'
    BY DEF HoldsWhatItOwns
  <2>1. CASE q = p
    <3>1. d # None /\ ~InHand(d, p) /\ p \notin held'[d]
      BY <1>1, <1>3, <1>4, NoneAssumption DEF HoldsWhatItOwns, InHand
    <3> QED
      BY <1>4, <1>7, <2>1, <3>1
  <2>2. CASE q # p
    <3>1. q \in held'[d] <=> q \in held[d]
      BY <1>4, <2>2
    <3>2. owner'[q] = owner[q]
      BY <1>4, <2>2
    <3> QED
      BY <1>1, <1>6, <1>7, <1>8, <2>2, <3>1, <3>2 DEF HoldsWhatItOwns
  <2> QED
    BY <2>1, <2>2
<1>10. \A q \in Partitions : Edge(q)' = Edge(q)
  <2> SUFFICES ASSUME NEW q \in Partitions PROVE Edge(q)' = Edge(q)
    OBVIOUS
  <2>1. CASE q = p
    <3>1. stored[c][p] = Frontier(c, p)
      BY <1>1, <1>3 DEF HoldsWhatItOwns
    <3> QED
      BY <1>3, <1>4, <1>5, <2>1, <3>1 DEF Edge
  <2>2. CASE q # p /\ owner[q] = None
    BY <1>4, <1>5, <2>2 DEF Edge
  <2>3. CASE q # p /\ owner[q] # None
    <3>1. owner[q] \in Consumers /\ owner'[q] = owner[q]
      BY <1>4, <2>3 DEF TypeOK, BrokerTypeOK
    <3>2. Frontier(owner[q], q)' = Frontier(owner[q], q)
      BY <1>8, <2>3, <3>1 DEF Frontier, InHand
    <3> QED
      BY <2>3, <3>1, <3>2 DEF Edge, Frontier, InHand
  <2> QED
    BY <2>1, <2>2, <2>3
<1>11. \A m : BeingStored(m) => BeingStored(m)'
  BY <1>2 DEF BeingStored
<1>12. Queued' \subseteq Queued
  BY <1>2 DEF Queued
<1>13. \A q \in Partitions : Edge(q)' \in Nat /\ Edge(q)' >= Edge(q)
  BY <1>10, EdgeType
<1> QED
  BY <1>2, <1>9, <1>11, <1>12, <1>13, EdgesAdvance

LEMMA GroupOrderly ==
    ASSUME TypeOK, OrderlyInv, NEW c \in Consumers, GroupStep(c)
    PROVE  OrderlyInv'
<1> SUFFICES ASSUME clean' PROVE OrderlyInv'
  BY DEF OrderlyInv
<1>1. CASE Evict(c)
  BY <1>1 DEF Evict, Fault
<1>2. clean
  BY <1>1 DEF GroupStep, Assign, Revoke, Evict, Fault, LosePartitions, history
\* Nobody is stale.
<1>3. CASE LosePartitions(c)
  BY <1>2, <1>3
  DEF LosePartitions, Stale, OrderlyInv, HoldsWhatItOwns, TypeOK, ClientTypeOK
<1> QED
  BY <1>1, <1>2, <1>3, AssignOrderly, RevokeOrderly DEF GroupStep

----------------------------------------------------------------------------
(* A process leaves the group. *)

LEMMA CloseLeaveOrderly ==
    ASSUME TypeOK, OrderlyInv, clean, NEW c \in Consumers, CloseLeave(c)
    PROVE  OrderlyInv'
<1>1. HoldsWhatItOwns
  BY DEF OrderlyInv
<1>2. /\ UNCHANGED <<delivered, dlqTopic, clean>>
      /\ Gone(c) /\ Commit(c, held[c]) /\ pc[c] = "closeLeave"
  BY DEF CloseLeave, LastCommit, history
<1>3. /\ cur[c] = None /\ cur'[c] = None /\ held'[c] = {} /\ c # None
      /\ flight'[c] = {}
      /\ \A d \in Consumers \ {c} :
            /\ cur'[d] = cur[d] /\ pc'[d] = pc[d] /\ held'[d] = held[d]
            /\ position'[d] = position[d] /\ stored'[d] = stored[d]
            /\ flight'[d] = flight[d]
  BY <1>2, NoneAssumption
  DEF Gone, PutDown, TypeOK, ThreadTypeOK, ClientTypeOK, Busy
<1>4. \A q \in Partitions : owner'[q] = IF owner[q] = c THEN None ELSE owner[q]
  BY <1>2 DEF Gone
<1>5. \A q \in Partitions : committed'[q] = IF q \in held[c] /\ owner[q] = c
                                            THEN stored[c][q] ELSE committed[q]
  BY <1>2 DEF Commit
<1>6. \A d \in Consumers \ {c} : \A q \in Partitions :
        (InHand(d, q)' <=> InHand(d, q)) /\ Frontier(d, q)' = Frontier(d, q)
  BY <1>3 DEF InHand, Frontier
<1>7. HoldsWhatItOwns'
  <2> SUFFICES ASSUME NEW d \in Consumers, NEW q \in Partitions
               PROVE  /\ q \in held'[d] <=> owner'[q] = d
                      /\ InHand(d, q)' => owner'[q] = d
                      /\ owner'[q] = d => stored'[d][q] = Frontier(d, q)'
    BY DEF HoldsWhatItOwns
  <2>1. d # None
    BY NoneAssumption
  <2>2. CASE d = c
    BY <1>3, <1>4, <2>1, <2>2 DEF InHand
  <2>3. CASE d # c
    <3>1. owner'[q] = d <=> owner[q] = d
      BY <1>4, <2>1, <2>3
    <3> QED
      BY <1>1, <1>3, <1>6, <2>3, <3>1 DEF HoldsWhatItOwns
  <2> QED
    BY <2>2, <2>3
<1>8. \A q \in Partitions : Edge(q)' = Edge(q)
  <2> SUFFICES ASSUME NEW q \in Partitions PROVE Edge(q)' = Edge(q)
    OBVIOUS
  <2>1. CASE owner[q] = c
    <3>1. q \in held[c] /\ stored[c][q] = Frontier(c, q)
      BY <1>1, <2>1 DEF HoldsWhatItOwns
    <3> QED
      BY <1>3, <1>4, <1>5, <2>1, <3>1 DEF Edge
  <2>2. CASE owner[q] = None
    BY <1>3, <1>4, <1>5, <2>2 DEF Edge
  <2>3. CASE owner[q] # None /\ owner[q] # c
    <3>1. owner[q] \in Consumers \ {c} /\ owner'[q] = owner[q]
      BY <1>4, <2>3 DEF TypeOK, BrokerTypeOK
    <3>2. Frontier(owner[q], q)' = Frontier(owner[q], q)
      BY <1>3, <3>1 DEF Frontier, InHand
    <3> QED
      BY <2>3, <3>1, <3>2 DEF Edge, Frontier, InHand
  <2> QED
    BY <2>1, <2>2, <2>3
<1>9. \A m : BeingStored(m) => BeingStored(m)'
  BY <1>2, <1>3 DEF BeingStored
<1>10. Queued' \subseteq Queued
  <2>1. \A d \in Consumers : flight'[d] \subseteq flight[d]
    BY <1>3
  <2> QED
    BY <2>1 DEF Queued
<1>11. \A q \in Partitions : Edge(q)' \in Nat /\ Edge(q)' >= Edge(q)
  BY <1>8, EdgeType
<1> QED
  BY <1>2, <1>7, <1>9, <1>10, <1>11, EdgesAdvance

----------------------------------------------------------------------------
(* A message is taken up and put down. *)

LEMMA PollMessageOrderly ==
    ASSUME TypeOK, OrderlyInv, clean, NEW c \in Consumers, NEW p \in Partitions,
           PollMessage(c, p)
    PROVE  OrderlyInv'
<1> DEFINE o == position[c][p]
<1>1. HoldsWhatItOwns /\ owner[p] = c
  BY DEF OrderlyInv, HoldsWhatItOwns, PollMessage
<1>2. /\ UNCHANGED <<owner, committed, held, stored, flight, delivered, dlqTopic, clean>>
      /\ pc' = [pc EXCEPT ![c] = "handle"] /\ pc[c] = "poll"
  BY DEF PollMessage, AutoOffsetStore, broker, history
<1>3. /\ cur[c] = None /\ o \in Nat /\ cur'[c] = At(p, o)
      /\ At(p, o).part = p /\ At(p, o).off = o /\ At(p, o) # None
      /\ \A d \in Consumers \ {c} : cur'[d] = cur[d] /\ position'[d] = position[d]
      /\ \A q \in Partitions \ {p} : position'[c][q] = position[c][q]
  <2>1. o \in Nat
    BY DEF TypeOK, ClientTypeOK
  <2>2. At(p, o) \in Message
    BY <2>1 DEF At, Message
  <2>3. At(p, o) # None /\ At(p, o).part = p /\ At(p, o).off = o
    BY <2>2, NoneAssumption DEF At
  <2>4. \A q \in Partitions \ {p} : position'[c][q] = position[c][q]
    BY DEF PollMessage, TypeOK, ClientTypeOK
  <2>5. \A d \in Consumers \ {c} : cur'[d] = cur[d] /\ position'[d] = position[d]
    BY DEF PollMessage, TypeOK, ThreadTypeOK, ClientTypeOK
  <2>6. cur[c] = None /\ cur'[c] = At(p, o)
    BY DEF PollMessage, TypeOK, ThreadTypeOK, Busy
  <2> QED
    BY <2>1, <2>3, <2>4, <2>5, <2>6
<1>4. \A d \in Consumers : \A q \in Partitions : Frontier(d, q)' = Frontier(d, q)
  <2> SUFFICES ASSUME NEW d \in Consumers, NEW q \in Partitions
               PROVE  Frontier(d, q)' = Frontier(d, q)
    OBVIOUS
  <2>1. CASE d # c
    BY <1>3, <2>1 DEF Frontier, InHand
  <2>2. CASE d = c /\ q = p
    BY <1>3, <2>2 DEF Frontier, InHand
  <2>3. CASE d = c /\ q # p
    BY <1>3, <2>3 DEF Frontier, InHand
  <2> QED
    BY <2>1, <2>2, <2>3
<1>5. \A d \in Consumers : \A q \in Partitions :
        InHand(d, q)' => InHand(d, q) \/ (d = c /\ q = p)
  BY <1>3 DEF InHand
<1>6. HoldsWhatItOwns'
  BY <1>1, <1>2, <1>4, <1>5 DEF HoldsWhatItOwns
<1>7. \A q \in Partitions : Edge(q)' = Edge(q)
  BY <1>2, <1>4 DEF Edge, TypeOK, BrokerTypeOK, Frontier, InHand
<1>8. \A m : BeingStored(m) => BeingStored(m)'
  BY <1>2, <1>3 DEF BeingStored, TypeOK, ThreadTypeOK
<1>9. Queued' \subseteq Queued
  BY <1>2 DEF Queued
<1>10. \A q \in Partitions : Edge(q)' \in Nat /\ Edge(q)' >= Edge(q)
  BY <1>7, EdgeType
<1> QED
  BY <1>2, <1>6, <1>8, <1>9, <1>10, EdgesAdvance

LEMMA StoreOffsetOrderly ==
    ASSUME TypeOK, OffsetsInOrder, OrderlyInv, clean, NEW c \in Consumers,
           NEW m, NEW p, m = cur[c], p = m.part, StoreOffset(c)
    PROVE  OrderlyInv'
<1>1. HoldsWhatItOwns
  BY DEF OrderlyInv
<1>2. m \in Message /\ m # None /\ p \in Partitions /\ m.off \in Nat /\ InHand(c, p)
  BY DEF StoreOffset, TypeOK, ThreadTypeOK, Busy, Message, InHand
<1>3. owner[p] = c /\ p \in held[c] /\ position[c][p] = m.off + 1 /\ c # None
  BY <1>1, <1>2, NoneAssumption DEF HoldsWhatItOwns, OffsetsInOrder
<1>4. /\ UNCHANGED <<owner, committed, held, position, flight, delivered, dlqTopic, clean>>
      /\ pc' = [pc EXCEPT ![c] = "emit"] /\ pc[c] = "store"
      /\ stored' = [stored EXCEPT ![c][p] = m.off + 1]
  BY <1>3 DEF StoreOffset, ResumeOffset, broker, history
<1>5. /\ cur'[c] = None
      /\ \A d \in Consumers \ {c} : cur'[d] = cur[d] /\ stored'[d] = stored[d]
  BY <1>4 DEF StoreOffset, PutDown, TypeOK, ThreadTypeOK, ClientTypeOK
<1>6. /\ stored'[c][p] = m.off + 1
      /\ \A q \in Partitions \ {p} : stored'[c][q] = stored[c][q]
  BY <1>2, <1>4 DEF TypeOK, ClientTypeOK
<1>7. Frontier(c, p)' = m.off + 1 /\ Frontier(c, p) = m.off
  BY <1>2, <1>3, <1>4, <1>5 DEF Frontier, InHand
<1>8. \A d \in Consumers : \A q \in Partitions :
        d # c \/ q # p => Frontier(d, q)' = Frontier(d, q)
  BY <1>2, <1>4, <1>5 DEF Frontier, InHand
<1>9. \A d \in Consumers : \A q \in Partitions : InHand(d, q)' => InHand(d, q)
  BY <1>5 DEF InHand
<1>10. HoldsWhatItOwns'
  <2> SUFFICES ASSUME NEW d \in Consumers, NEW q \in Partitions
               PROVE  /\ q \in held'[d] <=> owner'[q] = d
                      /\ InHand(d, q)' => owner'[q] = d
                      /\ owner'[q] = d => stored'[d][q] = Frontier(d, q)'
    BY DEF HoldsWhatItOwns
  <2>1. CASE d = c /\ q = p
    BY <1>1, <1>3, <1>4, <1>6, <1>7, <2>1
  <2>2. CASE d # c \/ q # p
    <3>1. stored'[d][q] = stored[d][q]
      BY <1>5, <1>6, <2>2
    <3> QED
      BY <1>1, <1>4, <1>8, <1>9, <2>2, <3>1 DEF HoldsWhatItOwns
  <2> QED
    BY <2>1, <2>2
<1>11. \A q \in Partitions : Edge(q)' \in Nat /\ Edge(q)' >= Edge(q)
  <2> SUFFICES ASSUME NEW q \in Partitions
               PROVE  Edge(q)' \in Nat /\ Edge(q)' >= Edge(q)
    OBVIOUS
  <2>1. CASE q = p
    BY <1>2, <1>3, <1>4, <1>7, <2>1 DEF Edge
  <2>2. CASE q # p /\ owner[q] # None
    <3>1. owner[q] \in Consumers
      BY <2>2 DEF TypeOK, BrokerTypeOK
    <3>2. Edge(q)' = Edge(q)
      BY <1>4, <1>8, <2>2, <3>1 DEF Edge, Frontier, InHand
    <3> QED
      BY <3>2, EdgeType
  <2>3. CASE q # p /\ owner[q] = None
    <3>1. Edge(q)' = Edge(q)
      BY <1>4, <2>3 DEF Edge
    <3> QED
      BY <3>1, EdgeType
  <2> QED
    BY <2>1, <2>2, <2>3
<1>12. Edge(p)' = m.off + 1
  BY <1>3, <1>4, <1>7 DEF Edge
\* The edge moves over the message that was put down.
<1>13. ASSUME NEW n \in Message, BeingStored(n)
       PROVE  BeingStored(n)' \/ n.off < Edge(n.part)'
  <2>1. CASE n = m
    BY <1>2, <1>12, <2>1
  <2>2. CASE n # m
    <3>1. PICK d \in Consumers : pc[d] \in {"flush", "store"} /\ cur[d] = n
      BY <1>13 DEF BeingStored
    <3>2. d # c /\ cur'[d] = n /\ pc'[d] \in {"flush", "store"}
      BY <1>4, <1>5, <2>2, <3>1 DEF TypeOK, ThreadTypeOK
    <3> QED
      BY <3>2 DEF BeingStored
  <2> QED
    BY <2>1, <2>2
<1>14. Queued' \subseteq Queued
  BY <1>4 DEF Queued
<1> QED
  BY <1>4, <1>10, <1>11, <1>13, <1>14, EdgesAdvance

----------------------------------------------------------------------------
(* The other steps, most of which only move a thread. *)

\* No letter and no delivery more than before.
LEMMA SameOutcomes ==
    ASSUME TypeOK, OrderlyInv, clean' => clean,
           UNCHANGED <<owner, held, position, stored, cur, delivered, dlqTopic>>,
           \A p \in Partitions : owner[p] = None => committed'[p] = committed[p],
           \A c \in Consumers : flight'[c] \subseteq flight[c],
           \A c \in Consumers : pc[c] \in {"flush", "store"}
                                    => pc'[c] \in {"flush", "store"}
    PROVE  OrderlyInv'
<1>1. /\ Settled' = Settled /\ DeadLettered' = DeadLettered
      /\ Queued' \subseteq Queued
  BY DEF Settled, DeadLettered, Queued
<1>2. clean' => OneOutcome'
  BY <1>1 DEF OrderlyInv, OneOutcome
<1> QED
  BY <1>1, <1>2, QuietOrderly

LEMMA BackgroundOrderly ==
    ASSUME TypeOK, OrderlyInv, NEW c \in Consumers, Background(c)
    PROVE  OrderlyInv'
<1> USE DEF program, broker, client, inHand, history
<1>1. CASE AutoCommit(c)
  <2>1. \A p \in Partitions : owner[p] = None => committed'[p] = committed[p]
    BY <1>1, NoneAssumption DEF AutoCommit, Commit
  <2> QED
    BY <1>1, <2>1, SameOutcomes DEF AutoCommit
<1>2. CASE EgressExpire(c)
  <2>1. \A d \in Consumers : flight'[d] \subseteq flight[d]
    BY <1>2 DEF EgressExpire, TypeOK, ClientTypeOK
  <2> QED
    BY <1>2, <2>1, SameOutcomes DEF EgressExpire
\* A letter goes from the queue to the topic.
<1>3. CASE EgressDeliver(c)
  <2>1. PICK l \in flight[c] : /\ dlqTopic' = dlqTopic \union {l}
                               /\ flight' = [flight EXCEPT ![c] = @ \ {l}]
    BY <1>3 DEF EgressDeliver
  <2>2. UNCHANGED <<owner, committed, held, position, stored, cur, pc, delivered, clean>>
    BY <1>3 DEF EgressDeliver
  <2>3. l.origin \in Queued
    BY DEF Queued
  <2>4. DeadLettered' = DeadLettered \union {l.origin}
    BY <2>1 DEF DeadLettered
  <2>5. \A d \in Consumers : flight'[d] \subseteq flight[d]
    BY <2>1 DEF TypeOK, ClientTypeOK
  <2>6. Queued' \subseteq Queued
    BY <2>5 DEF Queued
  <2>7. (Settled \union Queued)' \subseteq Settled \union Queued
    BY <2>2, <2>3, <2>4, <2>6 DEF Settled
  <2>8. clean' => OneOutcome'
    BY <2>2, <2>3, <2>4, <2>6 DEF OrderlyInv, OneOutcome
  <2> QED
    BY <2>2, <2>7, <2>8, QuietOrderly
<1> QED
  BY <1>1, <1>2, <1>3 DEF Background

LEMMA ThreadStepOrderly ==
    ASSUME TypeOK, OffsetsInOrder, OrderlyInv, NEW c \in Consumers, ThreadStep(c)
    PROVE  OrderlyInv'
<1> SUFFICES ASSUME clean' PROVE OrderlyInv'
  BY DEF OrderlyInv
<1> USE DEF outside, broker, client, inHand, history
<1>1. ASSUME NEW error \in SinkRaises, SinkEscapes(c, error)
      PROVE  OrderlyInv'
  BY <1>1 DEF SinkEscapes
<1>2. clean
  BY <1>1
  DEF ThreadStep, DecodeFails, Reject, Accept, DeliverOk, Retry, GiveUp, SinkRefuses,
      DeadLetter, Enqueue, Published, StoreOffset, EmitNot, Emit, CloseEmit,
      CloseFlush, CloseLeave, SinkEscapes
<1>3. HoldsWhatItOwns /\ NothingBeyondEdge /\ OneOutcome
  BY <1>2 DEF OrderlyInv
<1>4. CASE DecodeFails(c) \/ Reject(c) \/ GiveUp(c)
           \/ \E error \in SinkRaises : SinkRefuses(c, error)
  <2>1. /\ pc' = [pc EXCEPT ![c] = "produce"] /\ pc[c] \in {"handle", "deliver"}
        /\ UNCHANGED <<outside, cur, history>>
    BY <1>4 DEF DecodeFails, Reject, GiveUp, SinkRefuses, DeadLetter
  <2> QED
    BY <2>1, SameOutcomes DEF TypeOK, ThreadTypeOK
<1>5. CASE Accept(c) \/ Retry(c) \/ Published(c) \/ EmitNot(c) \/ Emit(c)
           \/ CloseEmit(c) \/ CloseFlush(c)
  <2>1. /\ UNCHANGED <<owner, committed, held, position, stored, cur, delivered, dlqTopic,
                       flight, clean>>
        /\ \A d \in Consumers : pc[d] \in {"flush", "store"} => pc'[d] \in {"flush", "store"}
    BY <1>5
    DEF Accept, Retry, Published, EmitNot, Emit, CloseEmit, CloseFlush, TypeOK, ThreadTypeOK
  <2> QED
    BY <2>1, SameOutcomes
\* The message in hand gains its outcome.
<1>6. CASE DeliverOk(c)
  <2>1. /\ cur[c] \in Message /\ cur[c] \notin Settled \union Queued
    BY <1>3, <1>6, InHandIsNew DEF DeliverOk
  <2>2. /\ UNCHANGED <<owner, committed, held, position, stored, cur, dlqTopic, flight,
                       clean>>
        /\ delivered' = delivered \union {cur[c]}
        /\ pc[c] = "deliver" /\ pc'[c] = "store"
        /\ \A d \in Consumers : pc[d] \in {"flush", "store"} => pc'[d] \in {"flush", "store"}
    BY <1>6 DEF DeliverOk, TypeOK, ThreadTypeOK
  <2>3. /\ DeadLettered' = DeadLettered /\ Queued' = Queued
        /\ Settled' = Settled \union {cur[c]}
    BY <2>2 DEF DeadLettered, Queued, Settled
  <2>4. OneOutcome'
    BY <1>3, <2>1, <2>2, <2>3 DEF OneOutcome, Settled
  <2>5. \A m : m = cur[c] => BeingStored(m)'
    BY <2>2 DEF BeingStored
  <2>6. \A m \in (Settled \union Queued)' :
          m \in Settled \union Queued \/ (m \in Message /\ BeingStored(m)')
    BY <2>1, <2>3, <2>5
  <2> QED
    BY <1>2, <2>2, <2>4, <2>6, QuietOrderly
<1>7. CASE Enqueue(c)
  <2>1. /\ cur[c] \in Message /\ cur[c] \notin Settled \union Queued
    BY <1>3, <1>7, InHandIsNew DEF Enqueue
  <2>2. /\ UNCHANGED <<owner, committed, held, position, stored, cur, dlqTopic, delivered,
                       clean>>
        /\ letter[c].origin = cur[c]
        /\ pc'[c] = "flush"
        /\ flight' = [flight EXCEPT ![c] = @ \union {letter[c]}]
        /\ \A d \in Consumers : pc[d] \in {"flush", "store"} => pc'[d] \in {"flush", "store"}
    BY <1>7 DEF Enqueue, TypeOK, ThreadTypeOK
  <2>3. \A d \in Consumers : \A l \in flight'[d] : l \in flight[d] \/ l = letter[c]
    BY <2>2 DEF TypeOK, ClientTypeOK
  <2>4. /\ DeadLettered' = DeadLettered /\ Settled' = Settled
        /\ Queued' \subseteq Queued \union {cur[c]}
    BY <2>2, <2>3 DEF DeadLettered, Queued, Settled
  <2>5. OneOutcome'
    BY <1>3, <2>1, <2>2, <2>4 DEF OneOutcome, Settled
  <2>6. \A m : m = cur[c] => BeingStored(m)'
    BY <2>2 DEF BeingStored
  <2>7. \A m \in (Settled \union Queued)' :
          m \in Settled \union Queued \/ (m \in Message /\ BeingStored(m)')
    BY <2>1, <2>4, <2>6
  <2> QED
    BY <1>2, <2>2, <2>5, <2>7, QuietOrderly
<1>8. CASE StoreOffset(c)
  BY <1>2, <1>8, StoreOffsetOrderly
<1>9. CASE CloseLeave(c)
  BY <1>2, <1>9, CloseLeaveOrderly
<1> QED
  BY <1>1, <1>4, <1>5, <1>6, <1>7, <1>8, <1>9 DEF ThreadStep

LEMMA ProcessOrderly ==
    ASSUME TypeOK, OrderlyInv, NEW c \in Consumers,
           Polling(c) \/ ThreadFault(c) \/ ProcessStep(c)
    PROVE  OrderlyInv'
<1> USE DEF outside, broker, client, inHand, history
<1>1. CASE Polling(c) \/ Start(c) \/ FirstSignal(c)
  <2>1. /\ UNCHANGED <<owner, committed, held, position, stored, cur, delivered, dlqTopic,
                       flight, clean>>
        /\ \A d \in Consumers : pc[d] \in {"flush", "store"} => pc'[d] \in {"flush", "store"}
    BY <1>1
    DEF Polling, PollNothing, PollTimeout, Start, FirstSignal, Signalled, TypeOK,
        ThreadTypeOK
  <2> QED
    BY <2>1, SameOutcomes
<1>2. CASE ThreadFault(c) \/ Crash(c) \/ SecondSignal(c) \/ SignalWhileClosing(c)
  <2>1. clean' = FALSE
    BY <1>2
    DEF ThreadFault, PollFatal, EnqueueRaises, EmitRaises, CloseEmitRaises, Crash, Fault,
        SecondSignal, SignalWhileClosing
  <2> QED
    BY <2>1 DEF OrderlyInv
<1> QED
  BY <1>1, <1>2 DEF ProcessStep

LEMMA NextOrderly ==
    ASSUME TypeOK, OffsetsInOrder, OrderlyInv, [Next]_vars
    PROVE  OrderlyInv'
<1>1. CASE UNCHANGED vars
  BY <1>1, SameOutcomes DEF vars, broker, program, client, inHand, history
<1>2. CASE \E p \in Partitions, k \in Kinds : Produce(p, k)
  BY <1>2, SameOutcomes DEF Produce, program, client, inHand, history
<1>3. ASSUME NEW c \in Consumers, NEW p \in Partitions, PollMessage(c, p)
      PROVE  OrderlyInv'
  <2>1. UNCHANGED clean
    BY <1>3 DEF PollMessage, history
  <2>2. CASE clean
    BY <1>3, <2>2, PollMessageOrderly
  <2>3. CASE ~clean
    BY <2>1, <2>3 DEF OrderlyInv
  <2> QED
    BY <2>2, <2>3
<1> QED
  BY <1>1, <1>2, <1>3, ThreadStepOrderly, ProcessOrderly, GroupOrderly,
     BackgroundOrderly
  DEF Next

LEMMA InitOrderly == Init => OrderlyInv
<1> SUFFICES ASSUME Init PROVE HoldsWhatItOwns /\ NothingBeyondEdge /\ OneOutcome
  BY DEF OrderlyInv
<1>1. HoldsWhatItOwns
  BY NoneAssumption DEF Init, HoldsWhatItOwns, InHand
<1>2. Settled \union Queued = {} /\ delivered = {}
  BY DEF Init, Settled, DeadLettered, Queued
<1> QED
  BY <1>1, <1>2 DEF NothingBeyondEdge, OneOutcome

----------------------------------------------------------------------------
(* What an aggregate counts. *)

\* Only a delivery adds to it, and only its own message.
LEMMA CountGrows ==
    ASSUME TypeOK, [Next]_vars, NEW c \in Consumers
    PROVE  \/ app'[c].agg = app[c].agg
           \/ app'[c].agg = <<>>
           \/ DeliverOk(c) /\ app'[c].agg = Append(app[c].agg, cur[c])
<1> USE DEF outside, program, inHand
<1>1. \A d \in Consumers : app[d] \in AppType
  BY DEF TypeOK, MemoryTypeOK
<1>2. CASE UNCHANGED app
  BY <1>2
<1>3. ASSUME NEW d \in Consumers, Gone(d)
      PROVE  app'[c].agg \in {app[c].agg, <<>>}
  <2>1. app' = [app EXCEPT ![d] = FreshApp] /\ FreshApp.agg = <<>>
    BY <1>3 DEF Gone, FreshApp
  <2> QED
    BY <2>1 DEF TypeOK, MemoryTypeOK
<1>4. ASSUME NEW d \in Consumers, NEW a, app' = [app EXCEPT ![d] = a],
             a.agg = app[d].agg
      PROVE  app'[c].agg = app[c].agg
  BY <1>4 DEF TypeOK, MemoryTypeOK
<1>5. ASSUME NEW d \in Consumers
      PROVE  /\ [app[d] EXCEPT !.consumed = @ + 1].agg = app[d].agg
             /\ [app[d] EXCEPT !.deadLettered = @ + 1].agg = app[d].agg
             /\ [app[d] EXCEPT !.letters = @ + 1].agg = app[d].agg
             /\ [app[d] EXCEPT !.sinceLast = 0].agg = app[d].agg
             /\ Snapshot(app[d]).agg = app[d].agg
  BY <1>1 DEF AppType, Snapshot
<1>6. ASSUME NEW d \in Consumers, DecodeFails(d) \/ Reject(d) \/ GiveUp(d)
                 \/ \E error \in SinkRaises : SinkRefuses(d, error)
      PROVE  app'[c].agg = app[c].agg
  <2>1. app' = [app EXCEPT ![d] = [app[d] EXCEPT !.deadLettered = @ + 1]]
    BY <1>6 DEF DecodeFails, Reject, GiveUp, SinkRefuses, DeadLetter
  <2> QED
    BY <1>4, <1>5, <2>1
<1>7. ASSUME NEW d \in Consumers, Published(d)
      PROVE  app'[c].agg = app[c].agg
  <2>1. app' = [app EXCEPT ![d] = [app[d] EXCEPT !.letters = @ + 1]]
    BY <1>7 DEF Published
  <2> QED
    BY <1>4, <1>5, <2>1
<1>8. ASSUME NEW d \in Consumers, NEW p \in Partitions, PollMessage(d, p)
      PROVE  app'[c].agg = app[c].agg
  <2>1. app' = [app EXCEPT ![d] = [app[d] EXCEPT !.consumed = @ + 1]]
    BY <1>8 DEF PollMessage
  <2> QED
    BY <1>4, <1>5, <2>1
<1>9. ASSUME NEW d \in Consumers, Emission(d)
      PROVE  app'[c].agg = app[c].agg
  <2>1. \/ app' = [app EXCEPT ![d] = Snapshot(app[d])]
        \/ app' = [app EXCEPT ![d] = [app[d] EXCEPT !.sinceLast = 0]]
    BY <1>9 DEF Emission
  <2> QED
    BY <1>4, <1>5, <2>1
<1>10. ASSUME NEW d \in Consumers, EmitRaises(d)
       PROVE  app'[c].agg = app[c].agg
  <2>1. app' = [app EXCEPT ![d] = [app[d] EXCEPT !.sinceLast = 0]]
    BY <1>10 DEF EmitRaises
  <2> QED
    BY <1>4, <1>5, <2>1
<1>11. ASSUME NEW d \in Consumers, DeliverOk(d)
       PROVE  \/ app'[c].agg = app[c].agg
              \/ DeliverOk(c) /\ app'[c].agg = Append(app[c].agg, cur[c])
  <2>1. app' = [app EXCEPT ![d] = Processed(app[d], cur[d], attempt[d])]
    BY <1>11 DEF DeliverOk
  <2>2. Processed(app[d], cur[d], attempt[d]).agg = Append(app[d].agg, cur[d])
    BY <1>1 DEF Processed, AppType
  <2> QED
    BY <1>11, <2>1, <2>2 DEF TypeOK, MemoryTypeOK
<1>12. ASSUME NEW d \in Consumers, ThreadStep(d)
       PROVE  \/ app'[c].agg \in {app[c].agg, <<>>}
              \/ DeliverOk(c) /\ app'[c].agg = Append(app[c].agg, cur[c])
  <2>1. CASE Accept(d) \/ Retry(d) \/ Enqueue(d) \/ StoreOffset(d) \/ EmitNot(d)
             \/ CloseFlush(d) \/ \E error \in SinkRaises : SinkEscapes(d, error)
    BY <1>2, <2>1
    DEF Accept, Retry, Enqueue, StoreOffset, EmitNot, CloseFlush, SinkEscapes
  <2>2. CASE Emit(d) \/ CloseEmit(d)
    BY <1>2, <1>9, <2>2 DEF Emit, CloseEmit
  <2>3. CASE CloseLeave(d)
    BY <1>3, <2>3 DEF CloseLeave
  <2> QED
    BY <1>6, <1>7, <1>11, <1>12, <2>1, <2>2, <2>3 DEF ThreadStep
<1>13. ASSUME NEW d \in Consumers, Polling(d) \/ ThreadFault(d) \/ ProcessStep(d)
       PROVE  app'[c].agg \in {app[c].agg, <<>>}
  <2>1. CASE CloseEmitRaises(d) \/ Crash(d) \/ SignalWhileClosing(d)
    BY <1>3, <2>1 DEF CloseEmitRaises, Crash, SignalWhileClosing
  <2>2. CASE Polling(d) \/ PollFatal(d) \/ EnqueueRaises(d) \/ Start(d) \/ FirstSignal(d)
             \/ SecondSignal(d)
    BY <1>2, <2>2
    DEF Polling, PollNothing, PollTimeout, PollFatal, EnqueueRaises, Start, FirstSignal,
        SecondSignal
  <2> QED
    BY <1>10, <1>13, <2>1, <2>2 DEF ThreadFault, ProcessStep
<1>14. ASSUME NEW d \in Consumers, GroupStep(d) \/ Background(d)
       PROVE  app'[c].agg = app[c].agg
  BY <1>2, <1>14
  DEF GroupStep, Assign, Revoke, Evict, LosePartitions, Background, AutoCommit,
      EgressDeliver, EgressExpire
<1>15. CASE UNCHANGED vars
  BY <1>2, <1>15 DEF vars
<1>16. CASE \E p \in Partitions, k \in Kinds : Produce(p, k)
  BY <1>2, <1>16 DEF Produce
<1> QED
  BY <1>8, <1>12, <1>13, <1>14, <1>15, <1>16 DEF Next

\* A delivery is not taken back, and a history that was disturbed stays so.
LEMMA HistoryGrows ==
    ASSUME [Next]_vars
    PROVE  delivered \subseteq delivered' /\ (clean' => clean)
<1> USE DEF outside, program, broker, client, inHand, history
<1>1. CASE UNCHANGED vars
  BY <1>1 DEF vars
<1>2. CASE \E p \in Partitions, k \in Kinds : Produce(p, k)
  BY <1>2 DEF Produce
<1>3. ASSUME NEW c \in Consumers, NEW p \in Partitions, PollMessage(c, p)
      PROVE  delivered \subseteq delivered' /\ (clean' => clean)
  BY <1>3 DEF PollMessage
<1>4. ASSUME NEW c \in Consumers, Polling(c) \/ ThreadFault(c) \/ ProcessStep(c)
      PROVE  delivered \subseteq delivered' /\ (clean' => clean)
  BY <1>4
  DEF Polling, PollNothing, PollTimeout, ThreadFault, PollFatal, EnqueueRaises,
      EmitRaises, CloseEmitRaises, ProcessStep, Start, Crash, FirstSignal,
      SecondSignal, SignalWhileClosing, Signalled, Fault
<1>5. ASSUME NEW c \in Consumers, GroupStep(c) \/ Background(c)
      PROVE  delivered \subseteq delivered' /\ (clean' => clean)
  <2>1. CASE Evict(c)
    BY <2>1 DEF Evict, Fault
  <2>2. CASE \E p \in Partitions : Assign(c, p) \/ Revoke(c, p)
    BY <2>2 DEF Assign, Revoke
  <2>3. CASE LosePartitions(c) \/ Background(c)
    BY <2>3 DEF LosePartitions, Background, AutoCommit, EgressDeliver, EgressExpire
  <2> QED
    BY <1>5, <2>1, <2>2, <2>3 DEF GroupStep
<1>6. ASSUME NEW c \in Consumers, ThreadStep(c)
      PROVE  delivered \subseteq delivered' /\ (clean' => clean)
  <2>1. CASE DecodeFails(c) \/ Reject(c) \/ Accept(c) \/ Retry(c) \/ GiveUp(c)
             \/ Enqueue(c) \/ StoreOffset(c) \/ EmitNot(c) \/ Emit(c)
             \/ CloseEmit(c) \/ CloseFlush(c) \/ CloseLeave(c)
    BY <2>1
    DEF DecodeFails, Reject, Accept, Retry, GiveUp, DeadLetter, Enqueue, StoreOffset,
        EmitNot, Emit, CloseEmit, CloseFlush, CloseLeave
  <2>2. CASE DeliverOk(c) \/ Published(c)
    BY <2>2 DEF DeliverOk, Published
  <2>3. CASE \E error \in SinkRaises : SinkRefuses(c, error) \/ SinkEscapes(c, error)
    BY <2>3 DEF SinkRefuses, SinkEscapes, DeadLetter
  <2> QED
    BY <1>6, <2>1, <2>2, <2>3 DEF ThreadStep
<1> QED
  BY <1>1, <1>2, <1>3, <1>4, <1>5, <1>6 DEF Next

LEMMA NextCounted ==
    ASSUME TypeOK, CountedDelivered, [Next]_vars
    PROVE  CountedDelivered'
<1> SUFFICES ASSUME NEW c \in Consumers, NEW i \in 1 .. Len(app'[c].agg)
             PROVE  app'[c].agg[i] \in delivered'
  BY DEF CountedDelivered
<1>1. delivered \subseteq delivered'
  BY HistoryGrows
<1>2. app[c].agg \in Seq(Message)
  BY DEF TypeOK, MemoryTypeOK, AppType
<1>3. CASE app'[c].agg = app[c].agg
  BY <1>1, <1>3 DEF CountedDelivered
<1>4. CASE app'[c].agg = <<>>
  BY <1>4
<1>5. CASE DeliverOk(c) /\ app'[c].agg = Append(app[c].agg, cur[c])
  <2>1. cur[c] \in delivered'
    BY <1>5 DEF DeliverOk
  <2>2. Len(app'[c].agg) = Len(app[c].agg) + 1 /\ Len(app[c].agg) \in Nat
    BY <1>2, <1>5
  <2>3. CASE i = Len(app[c].agg) + 1
    BY <1>2, <1>5, <2>1, <2>3
  <2>4. CASE i # Len(app[c].agg) + 1
    <3>1. i \in 1 .. Len(app[c].agg) /\ app'[c].agg[i] = app[c].agg[i]
      BY <1>2, <1>5, <2>2, <2>4
    <3> QED
      BY <1>1, <3>1 DEF CountedDelivered
  <2> QED
    BY <2>3, <2>4
<1> QED
  BY <1>3, <1>4, <1>5, CountGrows

\* The order of an aggregate: the message delivered now is behind all that its
\* process has counted of the partition.
LEMMA NextInOrder ==
    ASSUME TypeOK, OrderlyInv, CountedDelivered, CountedInOrder, [Next]_vars
    PROVE  CountedInOrder'
<1> SUFFICES ASSUME clean', NEW c \in Consumers,
                    NEW i \in 1 .. Len(app'[c].agg), NEW j \in 1 .. Len(app'[c].agg),
                    i < j, app'[c].agg[i].part = app'[c].agg[j].part
             PROVE  app'[c].agg[i].off < app'[c].agg[j].off
  BY DEF CountedInOrder
<1>1. clean
  BY HistoryGrows
<1>2. app[c].agg \in Seq(Message)
  BY DEF TypeOK, MemoryTypeOK, AppType
<1>3. CASE app'[c].agg = app[c].agg
  BY <1>1, <1>3 DEF CountedInOrder
<1>4. CASE app'[c].agg = <<>>
  BY <1>4
<1>5. CASE DeliverOk(c) /\ app'[c].agg = Append(app[c].agg, cur[c])
  <2> DEFINE a == app[c].agg
             b == app'[c].agg
  <2>1. Len(b) = Len(a) + 1 /\ Len(a) \in Nat
    BY <1>2, <1>5
  <2>2. i \in 1 .. Len(a) /\ b[i] = a[i]
    BY <1>2, <1>5, <2>1
  <2>3. CASE j # Len(a) + 1
    <3>1. j \in 1 .. Len(a) /\ b[j] = a[j]
      BY <1>2, <1>5, <2>1, <2>3
    <3> QED
      BY <1>1, <2>2, <3>1 DEF CountedInOrder
  <2>4. CASE j = Len(a) + 1
    <3>1. b[j] = cur[c]
      BY <1>2, <1>5, <2>4
    <3>2. cur[c] \in Message /\ cur[c] # None /\ pc[c] = "deliver"
      BY <1>5 DEF DeliverOk, TypeOK, ThreadTypeOK, Busy
    <3>3. a[i] \in Settled /\ a[i].part = cur[c].part
      BY <2>2, <3>1 DEF CountedDelivered, Settled
    <3>4. HoldsWhatItOwns /\ NothingBeyondEdge
      BY <1>1 DEF OrderlyInv
    <3>5. cur[c].part \in Partitions /\ InHand(c, cur[c].part)
      BY <3>2 DEF InHand, Message
    <3>6. owner[cur[c].part] = c /\ c # None
      BY <3>4, <3>5, NoneAssumption DEF HoldsWhatItOwns
    <3>7. Edge(cur[c].part) = cur[c].off
      BY <3>5, <3>6 DEF Edge, Frontier
    <3>8. ~BeingStored(a[i])
      <4> SUFFICES ASSUME NEW d \in Consumers, pc[d] \in {"flush", "store"}, cur[d] = a[i]
                   PROVE  FALSE
        BY DEF BeingStored
      <4>1. InHand(d, cur[c].part)
        BY <3>3 DEF InHand, TypeOK, ThreadTypeOK, Busy
      <4>2. d = c
        BY <3>4, <3>5, <3>6, <4>1 DEF HoldsWhatItOwns
      <4> QED
        BY <3>2, <4>2
    <3>9. a[i].off < Edge(a[i].part)
      BY <3>3, <3>4, <3>8 DEF NothingBeyondEdge
    <3> QED
      BY <2>2, <3>1, <3>3, <3>7, <3>9
  <2> QED
    BY <2>3, <2>4
<1> QED
  BY <1>3, <1>4, <1>5, CountGrows

----------------------------------------------------------------------------
(* The invariants, and what follows from them. *)

\* As long as nothing goes wrong every handover finds the group where the last
\* owner left it.
THEOREM Orderly == Spec => []OrderlyInv
<1>1. TypeOK /\ IInv /\ OrderlyInv /\ [Next]_vars => OrderlyInv'
  BY NextOrderly DEF IInv
<1> QED
  BY <1>1, InitOrderly, TypeCorrect, Invariance, PTL DEF Spec

\* Whatever an aggregate counts was delivered, with faults or without.
THEOREM OnlyDeliveredCounted == Spec => []CountedDelivered
<1>1. Init => CountedDelivered
  BY DEF Init, CountedDelivered, FreshApp
<1>2. TypeOK /\ CountedDelivered /\ [Next]_vars => CountedDelivered'
  BY NextCounted
<1> QED
  BY <1>1, <1>2, TypeCorrect, PTL DEF Spec

\* Rebalances, shutdowns and restarts alone never make a message be handled twice.
THEOREM NoReplay == Spec => []NoReplayWithoutFault
<1>1. TypeOK /\ OrderlyInv => NoReplayWithoutFault
  <2> SUFFICES ASSUME TypeOK, HoldsWhatItOwns, NothingBeyondEdge, NEW c \in Consumers,
                      pc[c] \in {"handle", "deliver", "produce"}
               PROVE  /\ cur[c] \notin Settled
                      /\ \A d \in Consumers \ {c} : cur[d] # cur[c]
    BY DEF OrderlyInv, NoReplayWithoutFault
  <2> QED
    BY InHandIsNew
<1> QED
  BY <1>1, TypeCorrect, Orderly, PTL

\* ... so that a message which the sink has accepted is not dead-lettered as well.
THEOREM OneOutcomeOnly == Spec => []OneOutcomeWithoutFault
<1>1. OrderlyInv /\ CountedDelivered => OneOutcomeWithoutFault
  BY DEF OrderlyInv, OneOutcome, CountedDelivered, OneOutcomeWithoutFault
<1> QED
  BY <1>1, Orderly, OnlyDeliveredCounted, PTL

\* ... and an aggregate counts the orders of a partition in its order, each once.
THEOREM InOrder == Spec => []CountedInOrder
<1>1. Init => CountedInOrder
  BY DEF Init, CountedInOrder, FreshApp
<1>2. TypeOK /\ OrderlyInv /\ CountedDelivered /\ CountedInOrder /\ [Next]_vars
        => CountedInOrder'
  BY NextInOrder
<1> QED
  BY <1>1, <1>2, TypeCorrect, Orderly, OnlyDeliveredCounted, PTL DEF Spec
=============================================================================
