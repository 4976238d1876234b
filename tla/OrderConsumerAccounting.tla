---------------------- MODULE OrderConsumerAccounting ----------------------
(***************************************************************************)
(* Nothing is acknowledged before its outcome is decided, for any number   *)
(* of processes and partitions and any number of faults.  The inductive    *)
(* invariant is IInv; a committed offset comes from a stored one, a stored *)
(* one from a message in hand, and that message was the next one behind    *)
(* messages already decided.                                               *)
(***************************************************************************)
EXTENDS OrderConsumerTypes

----------------------------------------------------------------------------
(* What is decided stays decided. *)

LEMMA DecidedGrows ==
    ASSUME delivered \subseteq delivered', dlqTopic \subseteq dlqTopic',
           unconfirmed \subseteq unconfirmed'
    PROVE  Decided \subseteq Decided'
BY DEF Decided, Settled, DeadLettered

----------------------------------------------------------------------------
(* The offsets: steps that leave them alone, and the pieces that move them. *)

OffsetInv == OffsetsInOrder /\ OwnerStoresAhead

LEMMA QuietOffsets ==
    ASSUME OffsetInv, UNCHANGED <<committed, owner, client, cur>>
    PROVE  OffsetInv'
BY DEF OffsetInv, OffsetsInOrder, OwnerStoresAhead, Frontier, InHand, client

\* A step that leaves offsets and hands alone, decides no less and brings no
\* thread back into the loop keeps DecidedInv.
LEMMA QuietDecided ==
    ASSUME DecidedInv, UNCHANGED <<committed, client, cur>>,
           Decided \subseteq Decided',
           \A c \in Consumers : pc[c] \in Closing => pc'[c] \in Closing,
           \A c \in Consumers : pc'[c] = "store" => cur[c] \in Decided'
    PROVE  DecidedInv'
BY DEF DecidedInv, DecidedBelow, Frontier, InHand, client

LEMMA EscapeOffsets ==
    ASSUME TypeOK, OffsetInv, NEW c \in Consumers, Escape(c),
           UNCHANGED <<committed, owner, client>>
    PROVE  OffsetInv'
<1>1. \A d \in Consumers : d # c => cur'[d] = cur[d]
  BY DEF TypeOK, ThreadTypeOK, Escape, PutDown
<1>2. cur'[c] = None
  BY DEF TypeOK, ThreadTypeOK, Escape, PutDown
<1>3. OffsetsInOrder'
  <2> SUFFICES ASSUME NEW d \in Consumers, NEW p \in held[d]
               PROVE  /\ stored[d][p] <= Frontier(d, p)'
                      /\ InHand(d, p)' => position[d][p] = cur'[d].off + 1
    BY DEF OffsetsInOrder, client
  <2>1. p \in Partitions /\ stored[d][p] \in Nat /\ position[d][p] \in Nat
    BY DEF TypeOK, ClientTypeOK
  <2>2. CASE d = c
    <3>1. InHand(c, p) => cur[c].off \in Nat
      BY DEF TypeOK, ThreadTypeOK, InHand, Message
    <3> QED
      BY <1>2, <2>1, <2>2, <3>1
      DEF OffsetInv, OffsetsInOrder, Frontier, InHand, client
  <2>3. CASE d # c
    BY <1>1, <2>3 DEF OffsetInv, OffsetsInOrder, Frontier, InHand, client
  <2> QED
    BY <2>2, <2>3
<1>4. OwnerStoresAhead'
  BY DEF OffsetInv, OwnerStoresAhead, client
<1> QED
  BY <1>3, <1>4 DEF OffsetInv

LEMMA EscapeDecided ==
    ASSUME TypeOK, DecidedInv, NEW c \in Consumers, Escape(c),
           UNCHANGED <<committed, client>>, Decided \subseteq Decided'
    PROVE  DecidedInv'
<1>1. \A d \in Consumers : d # c => cur'[d] = cur[d] /\ pc'[d] = pc[d]
  BY DEF TypeOK, ThreadTypeOK, Escape, PutDown
<1>2. pc'[c] \in Closing /\ pc'[c] # "store"
  BY DEF TypeOK, ThreadTypeOK, Escape, Closing
<1> QED
  BY <1>1, <1>2 DEF DecidedInv, DecidedBelow, Frontier, InHand, client

\* A commit moves an offset only to what the owner has stored, never back.
LEMMA CommitAdvances ==
    ASSUME TypeOK, OwnerStoresAhead, NEW c \in Consumers, NEW parts, Commit(c, parts)
    PROVE  \A p \in Partitions :
            /\ committed'[p] \in {committed[p], stored[c][p]}
            /\ committed'[p] # committed[p] => owner[p] = c
            /\ committed'[p] >= committed[p]
            /\ owner[p] = c => committed'[p] <= stored[c][p]
BY NoneAssumption
DEF TypeOK, BrokerTypeOK, ClientTypeOK, OwnerStoresAhead, Commit

\* A commit of what is held moves over decided messages only.
LEMMA CommitDecided ==
    ASSUME TypeOK, OwnerStoresAhead, DecidedInv, NEW c \in Consumers,
           NEW parts \in SUBSET held[c], Commit(c, parts)
    PROVE  \A p \in Partitions : DecidedBelow(p, committed'[p])
BY DEF TypeOK, BrokerTypeOK, ClientTypeOK, DecidedInv, DecidedBelow, Commit

LEMMA GoneOffsets ==
    ASSUME TypeOK, OffsetInv, NEW c \in Consumers, Gone(c),
           \A p \in Partitions : owner[p] # c => committed'[p] = committed[p]
    PROVE  OffsetInv'
<1>1. \A d \in Consumers : d # c =>
          /\ cur'[d] = cur[d] /\ held'[d] = held[d]
          /\ position'[d] = position[d]
          /\ stored'[d] = stored[d]
  BY DEF TypeOK, ThreadTypeOK, ClientTypeOK, Gone, PutDown
<1>2. held'[c] = {}
  BY DEF TypeOK, ClientTypeOK, Gone
<1>3. OffsetsInOrder'
  BY <1>1, <1>2 DEF OffsetInv, OffsetsInOrder, Frontier, InHand
<1>4. \A p \in Partitions : owner'[p] # None =>
        owner'[p] = owner[p] /\ owner[p] # c /\ owner[p] \in Consumers
  BY DEF TypeOK, BrokerTypeOK, Gone
<1>5. OwnerStoresAhead'
  BY <1>1, <1>4 DEF OffsetInv, OwnerStoresAhead
<1> QED
  BY <1>3, <1>5 DEF OffsetInv

LEMMA GoneDecided ==
    ASSUME TypeOK, DecidedInv, NEW c \in Consumers, Gone(c),
           Decided \subseteq Decided',
           \A p \in Partitions : DecidedBelow(p, committed'[p])
    PROVE  DecidedInv'
<1>1. \A d \in Consumers : d # c =>
          /\ cur'[d] = cur[d] /\ held'[d] = held[d]
          /\ position'[d] = position[d]
          /\ stored'[d] = stored[d]
          /\ pc'[d] = pc[d]
  BY DEF TypeOK, ThreadTypeOK, ClientTypeOK, Gone, PutDown
<1>2. held'[c] = {} /\ pc'[c] = "down"
  BY DEF TypeOK, ThreadTypeOK, ClientTypeOK, Gone
<1> QED
  BY <1>1, <1>2 DEF DecidedInv, DecidedBelow, Frontier, InHand

----------------------------------------------------------------------------
(* The steps that move offsets, one by one. *)

LEMMA GroupInv ==
    ASSUME TypeOK, OffsetInv, DecidedInv, NEW c \in Consumers, GroupStep(c)
    PROVE  OffsetInv' /\ DecidedInv'
<1>0. UNCHANGED Decided
  BY DEF GroupStep, Assign, Revoke, Evict, Fault, LosePartitions, Decided, Settled,
         DeadLettered, broker, history
<1>1. ASSUME NEW p \in Partitions, Assign(c, p)
      PROVE  OffsetInv' /\ DecidedInv'
  <2>1. ~InHand(c, p) /\ cur' = cur /\ pc' = pc /\ committed' = committed
    BY <1>1
    DEF Assign, TypeOK, ThreadTypeOK, InHand, Busy, program, inHand
  <2>2. /\ held'[c] = held[c] \union {p}
        /\ position'[c] = [position[c] EXCEPT ![p] = committed[p]]
        /\ stored'[c] = [stored[c] EXCEPT ![p] = committed[p]]
        /\ \A d \in Consumers : d # c =>
               /\ held'[d] = held[d]
               /\ position'[d] = position[d]
               /\ stored'[d] = stored[d]
    BY <1>1 DEF Assign, TypeOK, ClientTypeOK
  <2>3. position[c] \in [Partitions -> Nat] /\ stored[c] \in [Partitions -> Nat]
        /\ committed[p] \in Nat
    BY DEF TypeOK, ClientTypeOK, BrokerTypeOK
  <2>4. \A d \in Consumers : \A q \in held'[d] :
          \/ /\ d = c /\ q = p
             /\ position'[d][q] = committed[p] /\ stored'[d][q] = committed[p]
          \/ /\ q \in held[d]
             /\ position'[d][q] = position[d][q] /\ stored'[d][q] = stored[d][q]
    <3> SUFFICES ASSUME NEW d \in Consumers, NEW q \in held'[d]
                 PROVE  \/ /\ d = c /\ q = p
                           /\ position'[d][q] = committed[p]
                           /\ stored'[d][q] = committed[p]
                        \/ /\ q \in held[d]
                           /\ position'[d][q] = position[d][q]
                           /\ stored'[d][q] = stored[d][q]
      OBVIOUS
    <3>1. CASE d # c
      BY <2>2, <3>1
    <3>2. CASE d = c /\ q = p
      BY <2>2, <2>3, <3>2
    <3>3. CASE d = c /\ q # p
      <4>1. q \in held[c] /\ q \in Partitions
        BY <2>2, <3>3 DEF TypeOK, ClientTypeOK
      <4> QED
        BY <2>2, <2>3, <3>3, <4>1
    <3> QED
      BY <3>1, <3>2, <3>3
  <2>5. OffsetsInOrder'
    BY <2>1, <2>3, <2>4 DEF OffsetInv, OffsetsInOrder, Frontier, InHand
  <2>6. OwnerStoresAhead'
    BY <1>1, <2>1, <2>2, <2>3 DEF Assign, OffsetInv, OwnerStoresAhead,
       TypeOK, BrokerTypeOK
  <2>7. DecidedInv'
    BY <1>0, <2>1, <2>3, <2>4 DEF DecidedInv, DecidedBelow, Frontier, InHand
  <2> QED
    BY <2>5, <2>6, <2>7 DEF OffsetInv
<1>2. ASSUME NEW p \in Partitions, Revoke(c, p)
      PROVE  OffsetInv' /\ DecidedInv'
  <2>1. cur' = cur /\ pc' = pc
    BY <1>2 DEF Revoke, program, inHand
  <2>2. /\ held'[c] = held[c] \ {p}
        /\ \A q \in Partitions : q # p =>
               position'[c][q] = position[c][q] /\ stored'[c][q] = stored[c][q]
        /\ \A d \in Consumers : d # c =>
               /\ held'[d] = held[d]
               /\ position'[d] = position[d]
               /\ stored'[d] = stored[d]
    BY <1>2 DEF Revoke, TypeOK, ClientTypeOK
  <2>3. \A q \in Partitions : q # p => committed'[q] = committed[q]
    BY <1>2 DEF Revoke, Commit
  <2>4. \A d \in Consumers : \A q \in held'[d] :
          /\ q \in held[d]
          /\ position'[d][q] = position[d][q] /\ stored'[d][q] = stored[d][q]
    BY <2>2 DEF TypeOK, ClientTypeOK
  <2>5. /\ owner'[p] = None
        /\ \A q \in Partitions : q # p => owner'[q] = owner[q]
    BY <1>2 DEF Revoke, TypeOK, BrokerTypeOK
  <2>6. OwnerStoresAhead'
    <3> SUFFICES ASSUME NEW q \in Partitions, owner'[q] # None
                 PROVE  /\ q \in held'[owner'[q]]
                        /\ committed'[q] <= stored'[owner'[q]][q]
      BY DEF OwnerStoresAhead
    <3>1. q # p /\ owner'[q] = owner[q] /\ owner[q] \in Consumers
      BY <2>5 DEF TypeOK, BrokerTypeOK
    <3>2. q \in held[owner[q]] /\ committed[q] <= stored[owner[q]][q]
      BY <3>1 DEF OffsetInv, OwnerStoresAhead
    <3>3. CASE owner[q] = c
      BY <2>2, <2>3, <3>1, <3>2, <3>3
    <3>4. CASE owner[q] # c
      BY <2>2, <2>3, <3>1, <3>2, <3>4
    <3> QED
      BY <3>3, <3>4
  <2>7. \A q \in Partitions : DecidedBelow(q, committed'[q])
    BY <1>2, CommitDecided DEF Revoke, OffsetInv
  <2>8. OffsetsInOrder'
    BY <2>1, <2>4 DEF OffsetInv, OffsetsInOrder, Frontier, InHand
  <2>9. DecidedInv'
    BY <1>0, <2>1, <2>4, <2>7 DEF DecidedInv, DecidedBelow, Frontier, InHand
  <2> QED
    BY <2>6, <2>8, <2>9 DEF OffsetInv
<1>3. CASE Evict(c)
  <2>1. /\ cur' = cur /\ pc' = pc /\ committed' = committed
        /\ held' = held /\ position' = position /\ stored' = stored
        /\ \A p \in Partitions : owner'[p] # None => owner'[p] = owner[p]
    BY <1>3 DEF Evict, program, inHand, client
  <2> QED
    BY <1>0, <2>1
    DEF OffsetInv, OffsetsInOrder, OwnerStoresAhead, DecidedInv, DecidedBelow,
        Frontier, InHand
<1>4. CASE LosePartitions(c)
  <2>1. cur' = cur /\ pc' = pc /\ committed' = committed /\ owner' = owner
    BY <1>4 DEF LosePartitions, program, inHand, broker
  <2>2. /\ held'[c] = {p \in held[c] : owner[p] = c}
        /\ \A p \in held'[c] : /\ position'[c][p] = position[c][p]
                               /\ stored'[c][p] = stored[c][p]
        /\ \A d \in Consumers : d # c =>
               /\ held'[d] = held[d]
               /\ position'[d] = position[d]
               /\ stored'[d] = stored[d]
    BY <1>4 DEF LosePartitions, Owned, TypeOK, ClientTypeOK
  <2>3. OffsetsInOrder'
    BY <2>1, <2>2 DEF OffsetInv, OffsetsInOrder, Frontier, InHand
  <2>4. OwnerStoresAhead'
    BY <2>1, <2>2 DEF OffsetInv, OwnerStoresAhead, TypeOK, BrokerTypeOK
  <2>5. DecidedInv'
    BY <1>0, <2>1, <2>2 DEF DecidedInv, DecidedBelow, Frontier, InHand
  <2> QED
    BY <2>3, <2>4, <2>5 DEF OffsetInv
<1> QED
  BY <1>1, <1>2, <1>3, <1>4 DEF GroupStep

LEMMA BackgroundInv ==
    ASSUME TypeOK, OffsetInv, DecidedInv, NEW c \in Consumers, Background(c)
    PROVE  OffsetInv' /\ DecidedInv'
<1>1. CASE AutoCommit(c)
  <2>1. UNCHANGED <<owner, client, cur, pc, Decided>>
    BY <1>1 DEF AutoCommit, program, inHand, history, Decided, Settled, DeadLettered
  <2>2. \A p \in Partitions :
          /\ committed'[p] # committed[p] => owner[p] = c
          /\ owner[p] = c => committed'[p] <= stored[c][p]
    BY <1>1, CommitAdvances DEF AutoCommit, OffsetInv
  <2>3. OffsetsInOrder'
    BY <2>1 DEF OffsetInv, OffsetsInOrder, Frontier, InHand, client
  <2>4. OwnerStoresAhead'
    <3> SUFFICES ASSUME NEW p \in Partitions, owner[p] # None
                 PROVE  /\ p \in held[owner[p]]
                        /\ committed'[p] <= stored[owner[p]][p]
      BY <2>1 DEF OwnerStoresAhead, client
    <3>1. p \in held[owner[p]] /\ committed[p] <= stored[owner[p]][p]
      BY DEF OffsetInv, OwnerStoresAhead
    <3>2. CASE owner[p] = c
      BY <2>2, <3>1, <3>2
    <3>3. CASE owner[p] # c
      <4>1. committed'[p] = committed[p]
        BY <2>2, <3>3
      <4> QED
        BY <3>1, <4>1
    <3> QED
      BY <3>2, <3>3
  <2>5. held[c] \in SUBSET held[c]
    OBVIOUS
  <2>6. \A p \in Partitions : DecidedBelow(p, committed'[p])
    BY <1>1, <2>5, CommitDecided DEF AutoCommit, OffsetInv
  <2>7. DecidedInv'
    BY <2>1, <2>6 DEF DecidedInv, DecidedBelow, Frontier, InHand, client
  <2> QED
    BY <2>3, <2>4, <2>7 DEF OffsetInv
<1>2. CASE EgressDeliver(c) \/ EgressExpire(c)
  <2>1. UNCHANGED <<committed, owner, client, cur, pc>>
    BY <1>2 DEF EgressDeliver, EgressExpire, program, inHand, broker
  <2>2. Decided \subseteq Decided'
    BY <1>2, DecidedGrows DEF EgressDeliver, EgressExpire, broker, history
  <2>3. \A d \in Consumers : pc[d] = "store" => cur[d] \in Decided'
    BY <2>2 DEF DecidedInv
  <2> QED
    BY <2>1, <2>2, <2>3, QuietOffsets, QuietDecided
<1> QED
  BY <1>1, <1>2 DEF Background

LEMMA PollMessageInv ==
    ASSUME TypeOK, OffsetInv, DecidedInv, NEW c \in Consumers,
           NEW p \in Partitions, PollMessage(c, p)
    PROVE  OffsetInv' /\ DecidedInv'
<1> DEFINE o == position[c][p]
<1>0. UNCHANGED <<owner, committed, held, stored, Decided>>
  BY DEF PollMessage, AutoOffsetStore, Decided, Settled, DeadLettered, broker, history
<1>1. o \in Nat /\ cur[c] = None
  BY DEF PollMessage, TypeOK, ThreadTypeOK, ClientTypeOK, Busy
<1>2. /\ cur'[c] = At(p, o) /\ pc'[c] = "handle" /\ pc[c] = "poll"
      /\ position'[c] = [position[c] EXCEPT ![p] = o + 1]
      /\ \A d \in Consumers \ {c} :
            cur'[d] = cur[d] /\ pc'[d] = pc[d] /\ position'[d] = position[d]
  BY DEF PollMessage, TypeOK, ThreadTypeOK, ClientTypeOK
<1>3. At(p, o).part = p /\ At(p, o).off = o /\ At(p, o) # None
  <2>1. At(p, o) \in Message
    BY <1>1 DEF At, Message
  <2> QED
    BY <2>1, NoneAssumption DEF At
\* The frontier does not move: the offset that was next is now in hand.
<1>4. \A d \in Consumers : \A q \in held[d] : Frontier(d, q)' = Frontier(d, q)
  <2> SUFFICES ASSUME NEW d \in Consumers, NEW q \in held[d]
               PROVE  Frontier(d, q)' = Frontier(d, q)
    OBVIOUS
  <2>1. CASE d # c
    BY <1>2, <2>1 DEF Frontier, InHand
  <2>2. CASE d = c /\ q = p
    BY <1>1, <1>2, <1>3, <2>2 DEF Frontier, InHand
  <2>3. CASE d = c /\ q # p
    <3>1. q \in Partitions /\ position[c] \in [Partitions -> Nat]
      BY <2>3 DEF TypeOK, ClientTypeOK
    <3> QED
      BY <1>1, <1>2, <1>3, <2>3, <3>1 DEF Frontier, InHand
  <2> QED
    BY <2>1, <2>2, <2>3
<1>5. \A d \in Consumers : \A q \in held[d] :
        InHand(d, q)' => position'[d][q] = cur'[d].off + 1
  <2>1. position[c] \in [Partitions -> Nat]
    BY DEF TypeOK, ClientTypeOK
  <2> QED
    BY <1>2, <1>3, <2>1 DEF OffsetInv, OffsetsInOrder, InHand
<1>6. OffsetInv'
  BY <1>0, <1>4, <1>5 DEF OffsetInv, OffsetsInOrder, OwnerStoresAhead
<1>7. \A d \in Consumers :
          /\ pc[d] \in Closing => pc'[d] \in Closing
          /\ pc'[d] = "store" => pc[d] = "store" /\ cur'[d] = cur[d]
  BY <1>2 DEF Closing
<1>8. DecidedInv'
  <2>1. \A d \in Consumers : \A q \in held[d] :
          pc'[d] \notin Closing => DecidedBelow(q, Frontier(d, q)')
    BY <1>4, <1>7 DEF DecidedInv
  <2>2. \A d \in Consumers : pc'[d] = "store" => cur'[d] \in Decided
    BY <1>7 DEF DecidedInv
  <2> QED
    BY <1>0, <2>1, <2>2 DEF DecidedInv, DecidedBelow
<1> QED
  BY <1>6, <1>8

LEMMA StoreOffsetInv ==
    ASSUME TypeOK, OffsetInv, DecidedInv, NEW c \in Consumers, StoreOffset(c)
    PROVE  OffsetInv' /\ DecidedInv'
<1> DEFINE p == cur[c].part
           o == cur[c].off
<1>0. UNCHANGED <<owner, committed, held, position, Decided>>
  BY DEF StoreOffset, ResumeOffset, Decided, Settled, DeadLettered, broker, history
<1>1. /\ cur[c] \in Message /\ cur[c] # None
      /\ p \in Partitions /\ o \in Nat /\ At(p, o) = cur[c]
  BY DEF StoreOffset, ResumeOffset, TypeOK, ThreadTypeOK, Busy, Message, At
<1>2. /\ cur'[c] = None /\ pc'[c] = "emit" /\ pc[c] = "store"
      /\ \A d \in Consumers \ {c} : cur'[d] = cur[d] /\ pc'[d] = pc[d]
  BY DEF StoreOffset, ResumeOffset, PutDown, TypeOK, ThreadTypeOK
<1>3. /\ \A d \in Consumers : \A q \in Partitions :
            d # c \/ q # p => stored'[d][q] = stored[d][q]
      /\ stored'[c][p] \in {stored[c][p], o + 1}
  <2>1. stored \in [Consumers -> [Partitions -> Nat]]
    BY DEF TypeOK, ClientTypeOK
  <2>2. CASE stored' = [stored EXCEPT ![c][p] = o + 1]
    BY <1>1, <2>1, <2>2
  <2>3. CASE UNCHANGED stored
    BY <2>3
  <2> QED
    BY <2>2, <2>3 DEF StoreOffset, ResumeOffset
\* What is stored is the offset behind the message, which is the next to fetch.
<1>4. p \in held[c] => /\ position[c][p] = o + 1
                      /\ stored[c][p] <= o
                      /\ DecidedBelow(p, o + 1)
  <2> SUFFICES ASSUME p \in held[c]
               PROVE  /\ position[c][p] = o + 1 /\ stored[c][p] <= o
                      /\ DecidedBelow(p, o + 1)
    OBVIOUS
  <2>1. position[c][p] = o + 1 /\ stored[c][p] <= o
    BY <1>1 DEF OffsetInv, OffsetsInOrder, Frontier, InHand
  <2>2. DecidedBelow(p, o) /\ At(p, o) \in Decided
    BY <1>1, <1>2 DEF DecidedInv, Frontier, InHand, Closing
  <2> QED
    BY <1>1, <2>1, <2>2 DEF DecidedBelow
<1>5. \A d \in Consumers : \A q \in held[d] :
        /\ q \in Partitions /\ stored[d][q] \in Nat
        /\ d = c /\ q # p => Frontier(c, q)' = Frontier(c, q)
        /\ d = c /\ q = p => Frontier(c, q)' = o + 1
        /\ d # c => Frontier(d, q)' = Frontier(d, q)
  BY <1>0, <1>1, <1>2, <1>4 DEF Frontier, InHand, TypeOK, ClientTypeOK
<1>6. OffsetsInOrder'
  <2> SUFFICES ASSUME NEW d \in Consumers, NEW q \in held[d]
               PROVE  /\ stored'[d][q] <= Frontier(d, q)'
                      /\ InHand(d, q)' => position[d][q] = cur'[d].off + 1
    BY <1>0 DEF OffsetsInOrder
  <2>1. CASE d = c /\ q = p
    BY <1>1, <1>2, <1>3, <1>4, <1>5, <2>1 DEF InHand
  <2>2. CASE d = c /\ q # p
    BY <1>2, <1>3, <1>5, <2>2 DEF OffsetInv, OffsetsInOrder, InHand
  <2>3. CASE d # c
    BY <1>2, <1>3, <1>5, <2>3 DEF OffsetInv, OffsetsInOrder, InHand
  <2> QED
    BY <2>1, <2>2, <2>3
<1>7. OwnerStoresAhead'
  <2> SUFFICES ASSUME NEW q \in Partitions, owner[q] # None
               PROVE  /\ q \in held[owner[q]]
                      /\ committed[q] <= stored'[owner[q]][q]
    BY <1>0 DEF OwnerStoresAhead
  <2>1. /\ owner[q] \in Consumers /\ q \in held[owner[q]]
        /\ committed[q] <= stored[owner[q]][q]
        /\ committed[q] \in Nat /\ stored[owner[q]][q] \in Nat
    BY DEF OffsetInv, OwnerStoresAhead, TypeOK, BrokerTypeOK, ClientTypeOK
  <2>2. CASE owner[q] = c /\ q = p
    BY <1>1, <1>3, <1>4, <2>1, <2>2
  <2>3. CASE ~(owner[q] = c /\ q = p)
    BY <1>3, <2>1, <2>3
  <2> QED
    BY <2>2, <2>3
<1>8. DecidedInv'
  <2>1. \A d \in Consumers : \A q \in held[d] : DecidedBelow(q, stored'[d][q])
    BY <1>3, <1>4, <1>5 DEF DecidedInv
  <2>2. \A d \in Consumers : \A q \in held[d] :
          pc'[d] \notin Closing => DecidedBelow(q, Frontier(d, q)')
    BY <1>2, <1>4, <1>5 DEF DecidedInv, Closing
  <2>3. \A d \in Consumers : pc'[d] = "store" => cur'[d] \in Decided
    BY <1>2 DEF DecidedInv
  <2> QED
    BY <1>0, <2>1, <2>2, <2>3 DEF DecidedInv, DecidedBelow
<1> QED
  BY <1>6, <1>7, <1>8 DEF OffsetInv

----------------------------------------------------------------------------
(* The other steps of a thread and of a process. *)

LEMMA ThreadStepInv ==
    ASSUME TypeOK, OffsetInv, DecidedInv, NEW c \in Consumers, ThreadStep(c)
    PROVE  OffsetInv' /\ DecidedInv'
\* Most steps move only the thread, within the loop or out of it.
<1>1. ASSUME UNCHANGED <<committed, owner, client, cur>>,
             delivered \subseteq delivered', dlqTopic \subseteq dlqTopic',
             unconfirmed \subseteq unconfirmed',
             pc' = [pc EXCEPT ![c] = pc'[c]],
             pc[c] \in Closing => pc'[c] \in Closing,
             pc'[c] = "store" => cur[c] \in Decided'
      PROVE  OffsetInv' /\ DecidedInv'
  <2>1. OffsetInv'
    BY <1>1, QuietOffsets
  <2>2. Decided \subseteq Decided'
    BY <1>1, DecidedGrows
  <2>3. \A d \in Consumers : d # c => pc'[d] = pc[d]
    BY <1>1 DEF TypeOK, ThreadTypeOK
  <2>4. \A d \in Consumers :
            /\ pc[d] \in Closing => pc'[d] \in Closing
            /\ pc'[d] = "store" => cur[d] \in Decided'
    BY <1>1, <2>2, <2>3 DEF DecidedInv
  <2> QED
    BY <1>1, <2>1, <2>2, <2>4, QuietDecided
<1> USE DEF outside, broker, client, inHand, history, Looping, Busy, Closing
<1>2. CASE DecodeFails(c) \/ Reject(c) \/ GiveUp(c)
           \/ \E error \in SinkRaises : SinkRefuses(c, error)
  BY <1>1, <1>2
  DEF DecodeFails, Reject, GiveUp, SinkRefuses, DeadLetter, TypeOK, ThreadTypeOK
<1>3. CASE Accept(c) \/ Enqueue(c)
  BY <1>1, <1>3 DEF Accept, Enqueue, TypeOK, ThreadTypeOK
<1>4. CASE Retry(c)
  BY <1>1, <1>4 DEF Retry, TypeOK, ThreadTypeOK
<1>5. CASE DeliverOk(c)
  <2>1. cur[c] \in Decided'
    BY <1>5 DEF DeliverOk, Decided, Settled
  <2> QED
    BY <1>1, <1>5, <2>1 DEF DeliverOk, TypeOK, ThreadTypeOK
<1>6. ASSUME NEW error \in SinkRaises, SinkEscapes(c, error)
      PROVE  OffsetInv' /\ DecidedInv'
  <2>1. Decided \subseteq Decided'
    BY <1>6, DecidedGrows DEF SinkEscapes
  <2> QED
    BY <1>6, <2>1, EscapeOffsets, EscapeDecided DEF SinkEscapes
<1>7. CASE Published(c)
  <2>1. cur[c] \in Decided'
    BY <1>7 DEF Published, Decided, Settled, DeadLettered, TypeOK, ThreadTypeOK
  <2> QED
    BY <1>1, <1>7, <2>1 DEF Published, TypeOK, ThreadTypeOK
<1>8. CASE StoreOffset(c)
  BY <1>8, StoreOffsetInv
<1>9. CASE EmitNot(c) \/ Emit(c)
  BY <1>1, <1>9 DEF EmitNot, Emit, NextRound, TypeOK, ThreadTypeOK
<1>10. CASE CloseEmit(c) \/ CloseFlush(c)
  BY <1>1, <1>10 DEF CloseEmit, CloseFlush, TypeOK, ThreadTypeOK
<1>11. CASE CloseLeave(c)
  <2>1. \A p \in Partitions : owner[p] # c => committed'[p] = committed[p]
    BY <1>11 DEF CloseLeave, LastCommit, Commit
  <2>2. held[c] \in SUBSET held[c]
    OBVIOUS
  <2>3. \A p \in Partitions : DecidedBelow(p, committed'[p])
    BY <1>11, <2>2, CommitDecided DEF CloseLeave, LastCommit, OffsetInv
  <2>4. Decided \subseteq Decided'
    BY <1>11, DecidedGrows DEF CloseLeave
  <2> QED
    BY <1>11, <2>1, <2>3, <2>4, GoneOffsets, GoneDecided DEF CloseLeave
<1> QED
  BY <1>2, <1>3, <1>4, <1>5, <1>6, <1>7, <1>8, <1>9, <1>10, <1>11
  DEF ThreadStep

LEMMA ProcessInv ==
    ASSUME TypeOK, OffsetInv, DecidedInv, NEW c \in Consumers,
           Polling(c) \/ ThreadFault(c) \/ ProcessStep(c)
    PROVE  OffsetInv' /\ DecidedInv'
<1> USE DEF outside, program, broker, client, inHand, history
<1>1. CASE PollNothing(c) \/ PollTimeout(c) \/ Start(c) \/ FirstSignal(c)
  <2>1. UNCHANGED <<committed, owner, client, cur>>
    BY <1>1 DEF PollNothing, PollTimeout, Start, FirstSignal, Signalled
  <2>2. Decided \subseteq Decided'
    BY <1>1, DecidedGrows
    DEF PollNothing, PollTimeout, Start, FirstSignal, Signalled
  <2>3. /\ \A d \in Consumers : d # c => pc'[d] = pc[d]
        /\ pc'[c] # "store" \/ pc'[c] = pc[c]
        /\ pc[c] \in Closing => pc'[c] \in Closing
    BY <1>1
    DEF PollNothing, PollTimeout, Start, FirstSignal, NextRound, Closing, TypeOK, ThreadTypeOK
  <2> QED
    BY <2>1, <2>2, <2>3, QuietOffsets, QuietDecided DEF DecidedInv
<1>2. CASE PollFatal(c) \/ EnqueueRaises(c) \/ EmitRaises(c) \/ SecondSignal(c)
  <2>1. Escape(c) /\ UNCHANGED <<committed, owner, client>>
    BY <1>2 DEF PollFatal, EnqueueRaises, EmitRaises, SecondSignal
  <2>2. Decided \subseteq Decided'
    BY <1>2, DecidedGrows
    DEF PollFatal, EnqueueRaises, EmitRaises, SecondSignal, Signalled
  <2> QED
    BY <2>1, <2>2, EscapeOffsets, EscapeDecided
<1>3. CASE CloseEmitRaises(c) \/ Crash(c) \/ SignalWhileClosing(c)
  <2>1. Gone(c) /\ UNCHANGED committed
    BY <1>3 DEF CloseEmitRaises, Crash, SignalWhileClosing
  <2>2. Decided \subseteq Decided'
    BY <1>3, DecidedGrows DEF CloseEmitRaises, Crash, SignalWhileClosing, Signalled
  <2>3. \A p \in Partitions : DecidedBelow(p, committed'[p])
    BY <2>1 DEF DecidedInv
  <2> QED
    BY <2>1, <2>2, <2>3, GoneOffsets, GoneDecided
<1> QED
  BY <1>1, <1>2, <1>3 DEF Polling, ThreadFault, ProcessStep

----------------------------------------------------------------------------
(* Without egress faults publish never returns before the letter is there. *)

LEMMA QuietUnconfirmed ==
    ASSUME NothingUnconfirmed, UNCHANGED <<flight, unconfirmed>>,
           dlqTopic \subseteq dlqTopic',
           \A c \in Consumers :
               pc'[c] = "flush" => pc[c] = "flush" /\ letter'[c] = letter[c]
    PROVE  NothingUnconfirmed'
BY DEF NothingUnconfirmed

LEMMA GoneUnconfirmed ==
    ASSUME TypeOK, NothingUnconfirmed, NEW c \in Consumers, Gone(c),
           UNCHANGED <<unconfirmed, dlqTopic>>
    PROVE  NothingUnconfirmed'
BY DEF NothingUnconfirmed, Gone, PutDown, TypeOK, ThreadTypeOK, ClientTypeOK

LEMMA NextUnconfirmed ==
    ASSUME TypeOK, NothingUnconfirmed, [Next]_vars
    PROVE  NothingUnconfirmed'
<1> USE DEF outside, program, broker, client, inHand, history
<1>1. CASE UNCHANGED vars
  BY <1>1, QuietUnconfirmed DEF vars
<1>2. ASSUME NEW p \in Partitions, NEW k \in Kinds, Produce(p, k)
      PROVE  NothingUnconfirmed'
  BY <1>2, QuietUnconfirmed DEF Produce
<1>3. ASSUME NEW c \in Consumers, GroupStep(c)
      PROVE  NothingUnconfirmed'
  BY <1>3, QuietUnconfirmed
  DEF GroupStep, Assign, Revoke, Evict, LosePartitions
<1>4. ASSUME NEW c \in Consumers, EgressDeliver(c)
      PROVE  NothingUnconfirmed'
  BY <1>4 DEF NothingUnconfirmed, EgressDeliver, TypeOK, ClientTypeOK
<1>5. ASSUME NEW c \in Consumers, EgressExpire(c)
      PROVE  NothingUnconfirmed'
  BY <1>5 DEF NothingUnconfirmed, EgressExpire
<1>6. ASSUME NEW c \in Consumers, AutoCommit(c)
      PROVE  NothingUnconfirmed'
  BY <1>6, QuietUnconfirmed DEF AutoCommit
<1>7. ASSUME NEW c \in Consumers, NEW p \in Partitions, PollMessage(c, p)
      PROVE  NothingUnconfirmed'
  BY <1>7, QuietUnconfirmed DEF PollMessage, TypeOK, ThreadTypeOK
<1>8. ASSUME NEW c \in Consumers, Polling(c) \/ ThreadFault(c) \/ ProcessStep(c)
      PROVE  NothingUnconfirmed'
  <2>1. CASE Polling(c) \/ Start(c) \/ FirstSignal(c)
    BY <2>1, QuietUnconfirmed
    DEF Polling, PollNothing, PollTimeout, Start, FirstSignal, Signalled,
        NextRound, TypeOK, ThreadTypeOK
  <2>2. CASE PollFatal(c) \/ EnqueueRaises(c) \/ EmitRaises(c) \/ SecondSignal(c)
    BY <2>2, QuietUnconfirmed
    DEF PollFatal, EnqueueRaises, EmitRaises, SecondSignal, Signalled, Escape,
        PutDown, TypeOK, ThreadTypeOK
  <2>3. CASE CloseEmitRaises(c) \/ Crash(c) \/ SignalWhileClosing(c)
    BY <2>3, GoneUnconfirmed
    DEF CloseEmitRaises, Crash, SignalWhileClosing, Signalled
  <2> QED
    BY <1>8, <2>1, <2>2, <2>3 DEF ThreadFault, ProcessStep
<1>9. ASSUME NEW c \in Consumers, ThreadStep(c)
      PROVE  NothingUnconfirmed'
  <2>1. CASE DecodeFails(c) \/ Reject(c) \/ GiveUp(c)
             \/ \E error \in SinkRaises : SinkRefuses(c, error)
    BY <2>1, QuietUnconfirmed
    DEF DecodeFails, Reject, GiveUp, SinkRefuses, DeadLetter, TypeOK, ThreadTypeOK
  <2>2. CASE Accept(c) \/ Retry(c) \/ DeliverOk(c)
    BY <2>2, QuietUnconfirmed DEF Accept, Retry, DeliverOk, TypeOK, ThreadTypeOK
  <2>3. CASE \E error \in SinkRaises : SinkEscapes(c, error)
    BY <2>3, QuietUnconfirmed
    DEF SinkEscapes, Escape, PutDown, TypeOK, ThreadTypeOK
  <2>4. CASE Enqueue(c)
    BY <2>4 DEF NothingUnconfirmed, Enqueue, TypeOK, ThreadTypeOK, ClientTypeOK
  <2>5. CASE Published(c)
    BY <2>5
    DEF NothingUnconfirmed, Published, FlushReturns, TypeOK, ThreadTypeOK
  <2>6. CASE StoreOffset(c)
    BY <2>6, QuietUnconfirmed
    DEF StoreOffset, ResumeOffset, PutDown, TypeOK, ThreadTypeOK
  <2>7. CASE EmitNot(c) \/ Emit(c) \/ CloseEmit(c) \/ CloseFlush(c)
    BY <2>7, QuietUnconfirmed
    DEF EmitNot, Emit, CloseEmit, CloseFlush, NextRound, TypeOK, ThreadTypeOK
  <2>8. CASE CloseLeave(c)
    BY <2>8, GoneUnconfirmed DEF CloseLeave
  <2> QED
    BY <1>9, <2>1, <2>2, <2>3, <2>4, <2>5, <2>6, <2>7, <2>8 DEF ThreadStep
<1> QED
  BY <1>1, <1>2, <1>3, <1>4, <1>5, <1>6, <1>7, <1>8, <1>9 DEF Next, Background

----------------------------------------------------------------------------
(* The invariant, and what follows from it. *)

LEMMA InitIInv == Init => IInv
<1> SUFFICES ASSUME Init PROVE IInv
  OBVIOUS
<1>1. OffsetsInOrder /\ OwnerStoresAhead
  BY DEF Init, OffsetsInOrder, OwnerStoresAhead
<1>2. DecidedInv /\ NothingUnconfirmed
  BY DEF Init, DecidedInv, DecidedBelow, NothingUnconfirmed
<1> QED
  BY <1>1, <1>2 DEF IInv

LEMMA NextIInv == TypeOK /\ IInv /\ [Next]_vars => IInv'
<1> SUFFICES ASSUME TypeOK, IInv, [Next]_vars PROVE IInv'
  OBVIOUS
<1>1. OffsetInv /\ DecidedInv
  BY DEF IInv, OffsetInv
<1>2. OffsetInv' /\ DecidedInv'
  <2>1. CASE UNCHANGED vars
    BY <1>1, <2>1
    DEF OffsetInv, OffsetsInOrder, OwnerStoresAhead, DecidedInv, DecidedBelow,
        Frontier, InHand, Decided, Settled, DeadLettered, vars, broker, program,
        inHand, client, history
  <2>2. ASSUME NEW p \in Partitions, NEW k \in Kinds, Produce(p, k)
        PROVE  OffsetInv' /\ DecidedInv'
    BY <1>1, <2>2
    DEF OffsetInv, OffsetsInOrder, OwnerStoresAhead, DecidedInv, DecidedBelow,
        Frontier, InHand, Decided, Settled, DeadLettered, Produce, program,
        inHand, client, history
  <2> QED
    BY <1>1, <2>1, <2>2, PollMessageInv, ThreadStepInv, ProcessInv, GroupInv,
       BackgroundInv
    DEF Next
<1>3. NothingUnconfirmed'
  BY NextUnconfirmed DEF IInv
<1> QED
  BY <1>2, <1>3 DEF IInv, OffsetInv

\* The inductive invariant holds throughout.
THEOREM Invariance == Spec => []IInv
<1>1. Init => IInv
  BY InitIInv
<1>2. TypeOK /\ IInv /\ [Next]_vars => IInv'
  BY NextIInv
<1> QED
  BY <1>1, <1>2, TypeCorrect, PTL DEF Spec

\* Whatever crashes, is evicted, interrupted or moved: a committed offset covers
\* only messages whose outcome is decided.
THEOREM Accounting == Spec => []AckedIsAccountedFor
<1>1. IInv => AckedIsAccountedFor
  BY DEF IInv, DecidedInv, AckedIsAccountedFor
<1> QED
  BY <1>1, Invariance, PTL

\* As long as the egress producer delivers what it is given, no order is lost:
\* committed is delivered or in the dead letter topic.
THEOREM NoLoss == ASSUME ~EgressFaults PROVE Spec => []NoOrderLost
<1>1. IInv => NoOrderLost
  BY DEF IInv, DecidedInv, DecidedBelow, NothingUnconfirmed, Decided, NoOrderLost
<1> QED
  BY <1>1, Invariance, PTL

\* The owner of a partition never has its message in hand committed.
THEOREM InFlightSafe == Spec => []InFlightNotCommitted
<1>1. TypeOK /\ IInv => InFlightNotCommitted
  <2> SUFFICES ASSUME TypeOK, IInv, NEW c \in Consumers,
                      cur[c] # None, owner[cur[c].part] = c
               PROVE  committed[cur[c].part] <= cur[c].off
    BY DEF InFlightNotCommitted
  <2>1. cur[c].part \in Partitions /\ cur[c].off \in Nat
    BY DEF TypeOK, ThreadTypeOK, Message
  <2>2. /\ cur[c].part \in held[c]
        /\ committed[cur[c].part] <= stored[c][cur[c].part]
    BY <2>1, NoneAssumption DEF IInv, OwnerStoresAhead
  <2>3. stored[c][cur[c].part] <= cur[c].off
    BY <2>1, <2>2 DEF IInv, OffsetsInOrder, Frontier, InHand
  <2>4. committed[cur[c].part] \in Nat /\ stored[c][cur[c].part] \in Nat
    BY <2>1 DEF TypeOK, BrokerTypeOK, ClientTypeOK
  <2> QED
    BY <2>1, <2>2, <2>3, <2>4
<1> QED
  BY <1>1, TypeCorrect, Invariance, PTL

----------------------------------------------------------------------------
(* Steps: commits only advance, and each step is one of AtLeastOnce. *)

LEMMA CommitSteps ==
    ASSUME [Next]_vars
    PROVE  \/ UNCHANGED committed
           \/ /\ \E c \in Consumers : \E parts : Commit(c, parts)
              /\ UNCHANGED Decided
<1> USE DEF outside, broker, history
<1>1. CASE UNCHANGED vars
  BY <1>1 DEF vars
<1>2. CASE \E p \in Partitions, k \in Kinds : Produce(p, k)
  BY <1>2 DEF Produce
<1>3. ASSUME NEW c \in Consumers, NEW p \in Partitions, PollMessage(c, p)
      PROVE  UNCHANGED committed
  BY <1>3 DEF PollMessage
<1>4. ASSUME NEW c \in Consumers, Polling(c) \/ ThreadFault(c) \/ ProcessStep(c)
      PROVE  UNCHANGED committed
  BY <1>4
  DEF Polling, PollNothing, PollTimeout, ThreadFault, PollFatal, EnqueueRaises,
      EmitRaises, CloseEmitRaises, ProcessStep, Start, Crash, FirstSignal,
      SecondSignal, SignalWhileClosing
<1>5. ASSUME NEW c \in Consumers, GroupStep(c)
      PROVE  \/ UNCHANGED committed
             \/ (\E parts : Commit(c, parts)) /\ UNCHANGED Decided
  BY <1>5
  DEF GroupStep, Assign, Revoke, Evict, LosePartitions, Decided, Settled, DeadLettered
<1>6. ASSUME NEW c \in Consumers, Background(c)
      PROVE  \/ UNCHANGED committed
             \/ (\E parts : Commit(c, parts)) /\ UNCHANGED Decided
  BY <1>6
  DEF Background, AutoCommit, EgressDeliver, EgressExpire, Decided, Settled,
      DeadLettered
<1>7. ASSUME NEW c \in Consumers, ThreadStep(c), ~CloseLeave(c)
      PROVE  UNCHANGED committed
  BY <1>7
  DEF ThreadStep, DecodeFails, Reject, Accept, DeliverOk, Retry, GiveUp, SinkRefuses,
      SinkEscapes, DeadLetter, Enqueue, Published, StoreOffset, EmitNot, Emit,
      CloseEmit, CloseFlush
<1>8. ASSUME NEW c \in Consumers, CloseLeave(c)
      PROVE  (\E parts : Commit(c, parts)) /\ UNCHANGED Decided
  BY <1>8 DEF CloseLeave, LastCommit, Decided, Settled, DeadLettered
<1> QED
  BY <1>1, <1>2, <1>3, <1>4, <1>5, <1>6, <1>7, <1>8 DEF Next

\* No commit, by whichever member and however late, takes an offset back.
THEOREM Monotone == Spec => CommittedNeverRewinds
<1>1. TypeOK /\ IInv /\ [Next]_vars
        => \A p \in Partitions : committed'[p] >= committed[p]
  <2> SUFFICES ASSUME TypeOK, IInv, [Next]_vars
               PROVE  \A p \in Partitions : committed'[p] >= committed[p]
    OBVIOUS
  <2>1. CASE UNCHANGED committed
    BY <2>1 DEF TypeOK, BrokerTypeOK
  <2>2. ASSUME NEW c \in Consumers, NEW parts, Commit(c, parts)
        PROVE  \A p \in Partitions : committed'[p] >= committed[p]
    BY <2>2, CommitAdvances DEF IInv
  <2> QED
    BY <2>1, <2>2, CommitSteps
<1> QED
  BY <1>1, TypeCorrect, Invariance, PTL DEF Spec, CommittedNeverRewinds

----------------------------------------------------------------------------
(* Every step of the consumer group settles one message, acknowledges     *)
(* settled ones, or stutters: the group implements AtLeastOnce with       *)
(* settled <- Decided and acked <- committed.                             *)

\* Decided grows one message at a time, and never while something is committed.
SettlesOne ==
    /\ UNCHANGED committed
    /\ \E m \in Message : Decided' = Decided \union {m}

LEMMA DeliverySettles ==
    ASSUME TypeOK, NEW c \in Consumers, DeliverOk(c)
    PROVE  SettlesOne
<1>1. cur[c] \in Message
  BY NoneAssumption DEF DeliverOk, TypeOK, ThreadTypeOK, Busy
<1>2. Decided' = Decided \union {cur[c]} /\ UNCHANGED committed
  BY DEF DeliverOk, outside, broker, Decided, Settled, DeadLettered
<1> QED
  BY <1>1, <1>2 DEF SettlesOne

LEMMA LetterSettles ==
    ASSUME TypeOK, NEW c \in Consumers, EgressDeliver(c)
    PROVE  SettlesOne
<1>1. PICK l \in flight[c] : dlqTopic' = dlqTopic \union {l}
  BY DEF EgressDeliver
<1>2. l.origin \in Message
  BY DEF TypeOK, ClientTypeOK, Letter
<1>3. DeadLettered' = DeadLettered \union {l.origin}
  BY <1>1 DEF DeadLettered
<1>4. UNCHANGED <<committed, delivered, unconfirmed>>
  BY DEF EgressDeliver, history
<1>5. Decided' = Decided \union {l.origin}
  BY <1>3, <1>4 DEF Decided, Settled
<1> QED
  BY <1>2, <1>4, <1>5 DEF SettlesOne

LEMMA PublicationSettles ==
    ASSUME TypeOK, NEW c \in Consumers, Published(c)
    PROVE  UNCHANGED <<committed, Decided>> \/ SettlesOne
<1>1. cur[c] \in Message
  BY NoneAssumption DEF Published, TypeOK, ThreadTypeOK, Busy
<1>2. UNCHANGED <<committed, DeadLettered, delivered>>
  BY DEF Published, outside, broker, DeadLettered
<1>3. unconfirmed' = unconfirmed \/ unconfirmed' = unconfirmed \union {cur[c]}
  BY DEF Published
<1> QED
  BY <1>1, <1>2, <1>3 DEF SettlesOne, Decided, Settled

\* Only an accepted order, a delivered letter and the return of publish settle.
LEMMA SettleSteps ==
    ASSUME TypeOK, [Next]_vars
    PROVE  UNCHANGED Decided \/ SettlesOne
<1> USE DEF outside, program, broker, history, Decided, Settled, DeadLettered
<1>1. CASE UNCHANGED vars
  BY <1>1 DEF vars
<1>2. CASE \E p \in Partitions, k \in Kinds : Produce(p, k)
  BY <1>2 DEF Produce
<1>3. ASSUME NEW c \in Consumers, NEW p \in Partitions, PollMessage(c, p)
      PROVE  UNCHANGED Decided
  BY <1>3 DEF PollMessage
<1>4. ASSUME NEW c \in Consumers, Polling(c) \/ ThreadFault(c) \/ ProcessStep(c)
      PROVE  UNCHANGED Decided
  BY <1>4
  DEF Polling, PollNothing, PollTimeout, ThreadFault, PollFatal, EnqueueRaises,
      EmitRaises, CloseEmitRaises, ProcessStep, Start, Crash, FirstSignal,
      SecondSignal, SignalWhileClosing, Signalled
<1>5. ASSUME NEW c \in Consumers, GroupStep(c)
      PROVE  UNCHANGED Decided
  BY <1>5 DEF GroupStep, Assign, Revoke, Evict, LosePartitions
<1>6. ASSUME NEW c \in Consumers, Background(c)
      PROVE  UNCHANGED Decided \/ SettlesOne
  <2>1. CASE AutoCommit(c) \/ EgressExpire(c)
    BY <2>1 DEF AutoCommit, EgressExpire
  <2>2. CASE EgressDeliver(c)
    BY <2>2, LetterSettles
  <2> QED
    BY <1>6, <2>1, <2>2 DEF Background
<1>7. ASSUME NEW c \in Consumers, ThreadStep(c)
      PROVE  UNCHANGED Decided \/ SettlesOne
  <2>1. CASE DeliverOk(c)
    BY <2>1, DeliverySettles
  <2>2. CASE Published(c)
    BY <2>2, PublicationSettles
  <2>3. CASE ~DeliverOk(c) /\ ~Published(c)
    BY <1>7, <2>3
    DEF ThreadStep, DecodeFails, Reject, Accept, Retry, GiveUp, SinkRefuses,
        SinkEscapes, DeadLetter, Enqueue, StoreOffset, EmitNot, Emit, CloseEmit,
        CloseFlush, CloseLeave
  <2> QED
    BY <2>1, <2>2, <2>3
<1> QED
  BY <1>1, <1>2, <1>3, <1>4, <1>5, <1>6, <1>7 DEF Next

LEMMA StepRefines ==
    ASSUME TypeOK, IInv, TypeOK', IInv', [Next]_vars
    PROVE  ALO!Next \/ UNCHANGED <<Decided, committed>>
<1>1. CASE SettlesOne
  BY <1>1 DEF SettlesOne, Message, ALO!Next, ALO!Settle
<1>2. ASSUME NEW c \in Consumers, NEW parts, Commit(c, parts), UNCHANGED Decided
      PROVE  ALO!Next
  <2>1. \A p \in Partitions : committed'[p] >= committed[p]
    BY <1>2, CommitAdvances DEF IInv
  <2>2. committed' \in [Partitions -> Nat]
    BY DEF TypeOK, BrokerTypeOK
  <2>3. ALO!AckedIsSettled'
    BY DEF IInv, DecidedInv, DecidedBelow, At, ALO!AckedIsSettled
  <2> QED
    BY <1>2, <2>1, <2>2, <2>3 DEF ALO!Next, ALO!Acknowledge
<1>3. UNCHANGED Decided \/ SettlesOne
  BY SettleSteps
<1>4. \/ UNCHANGED committed
      \/ /\ \E c \in Consumers : \E parts : Commit(c, parts)
         /\ UNCHANGED Decided
  BY CommitSteps
<1> QED
  BY <1>1, <1>2, <1>3, <1>4

\* The group delivers every message at least once, in the sense of AtLeastOnce:
\* acknowledged offsets cover settled messages only and are never taken back.
THEOREM Refinement == Spec => ImplementsAtLeastOnce
<1>1. Init => ALO!Init
  BY DEF Init, ALO!Init, Decided, Settled, DeadLettered
<1>2. TypeOK /\ IInv /\ TypeOK' /\ IInv' /\ [Next]_vars
        => [ALO!Next]_<<Decided, committed>>
  BY StepRefines
<1> QED
  BY <1>1, <1>2, TypeCorrect, Invariance, PTL
  DEF Spec, ImplementsAtLeastOnce, ALO!Spec
=============================================================================
