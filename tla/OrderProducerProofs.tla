------------------------ MODULE OrderProducerProofs ------------------------
(***************************************************************************)
(* The producer accounts for every message it drew, for a run, a queue and *)
(* a budget of any size.                                                   *)
(***************************************************************************)
EXTENDS OrderProducerProperties, FiniteSetTheorems, TLAPS

USE ProducerBoundsAssumption

----------------------------------------------------------------------------
(* The pieces the actions share. *)

\* The total of the counters is a number.
LEMMA TotalType ==
    ASSUME counters \in [Kinds -> Nat]
    PROVE  Total \in Nat
BY DEF Total, Kinds

\* A message is counted once, whatever its kind.
LEMMA ComposeCounts ==
    ASSUME TypeOK, Compose
    PROVE  Total' = Total + 1 /\ counters' \in [Kinds -> Nat]
<1>1. PICK kind \in Kinds : counters' = [counters EXCEPT ![kind] = @ + 1]
  BY DEF Compose
<1>2. counters \in [Kinds -> Nat]
  BY DEF TypeOK
<1>3. counters' \in [Kinds -> Nat]
  BY <1>1, <1>2
<1>4. Total' = Total + 1
  BY <1>1, <1>2 DEF Total, Kinds
<1> QED
  BY <1>3, <1>4

\* A run has drawn finitely many messages so far.
LEMMA NumbersFinite ==
    ASSUME TypeOK
    PROVE  IsFiniteSet(Numbers)
<1>1. 1 \in Int /\ Total \in Int
  BY TotalType DEF TypeOK
<1> QED
  BY <1>1, FS_Interval DEF Numbers

\* The messages whose report carries an error.
Bad == {m \in Reported : [msg |-> m, ok |-> FALSE] \in reports}

\* There are as many of them as the callback counts.
LEMMA ErrorsCounted ==
    ASSUME TypeOK
    PROVE  /\ IsFiniteSet(Bad)
           /\ Cardinality(Errors(reports)) = Cardinality(Bad)
           /\ Cardinality(Bad) \in Nat
<1> DEFINE E == Errors(reports)
           f == [r \in E |-> r.msg]
<1>0. IsFiniteSet(reports) /\ E \in SUBSET reports
  BY DEF TypeOK, Errors
<1>1. IsFiniteSet(E)
  BY <1>0, FS_Subset
<1>2. \A r \in E : r = [msg |-> r.msg, ok |-> FALSE] /\ r \in reports
  BY DEF TypeOK, Report, Errors
<1>3. f \in [E -> Bad]
  <2> SUFFICES ASSUME NEW r \in E PROVE r.msg \in Bad
    OBVIOUS
  <2>1. r = [msg |-> r.msg, ok |-> FALSE] /\ r \in reports
    BY <1>2
  <2> QED
    BY <2>1 DEF Bad, Reported
<1>4. \A r, s \in E : f[r] = f[s] => r = s
  BY <1>2
<1>5. \A m \in Bad : \E r \in E : f[r] = m
  <2> SUFFICES ASSUME NEW m \in Bad PROVE \E r \in E : f[r] = m
    OBVIOUS
  <2>1. [msg |-> m, ok |-> FALSE] \in E
    BY DEF Bad, Errors
  <2> QED
    BY <2>1
<1>6. ExistsBijection(E, Bad)
  BY <1>3, <1>4, <1>5 DEF ExistsBijection, Bijection, Injection, Surjection, IsInjective
<1> QED
  BY <1>1, <1>6, FS_Bijection, FS_CardinalityType

\* What a message has a report for, it has a good or a bad report for.
LEMMA ServedApart ==
    ASSUME TypeOK, ServeReports
    PROVE  /\ confirmed' \union failed' = confirmed \union failed \union Reported
           /\ Reported' = {}
           /\ failed' = failed \union Bad
<1>1. \A m \in Reported : \/ [msg |-> m, ok |-> TRUE] \in reports
                          \/ [msg |-> m, ok |-> FALSE] \in reports
  <2> SUFFICES ASSUME NEW r \in reports
               PROVE  \/ [msg |-> r.msg, ok |-> TRUE] \in reports
                      \/ [msg |-> r.msg, ok |-> FALSE] \in reports
    BY DEF Reported
  <2>1. r = [msg |-> r.msg, ok |-> r.ok] /\ r.ok \in BOOLEAN
    BY DEF TypeOK, Report
  <2>2. CASE r.ok = TRUE
    BY <2>1, <2>2
  <2>3. CASE r.ok = FALSE
    BY <2>1, <2>3
  <2> QED
    BY <2>1, <2>2, <2>3
<1>2. failed' = failed \union Bad
  BY DEF ServeReports, Bad
<1>3. confirmed' \union failed' = confirmed \union failed \union Reported
  BY <1>1 DEF ServeReports
<1>4. Reported' = {}
  BY DEF ServeReports, Reported
<1> QED
  BY <1>2, <1>3, <1>4

\* A new report names one more message.
LEMMA ReportAdded ==
    ASSUME NEW m, NEW ok, reports' = reports \union {[msg |-> m, ok |-> ok]}
    PROVE  Reported' = Reported \union {m}
<1>1. [msg |-> m, ok |-> ok].msg = m
  OBVIOUS
<1>2. [msg |-> m, ok |-> ok] \in reports' /\ reports \subseteq reports'
  OBVIOUS
<1>3. \A r \in reports' : r \in reports \/ r.msg = m
  BY <1>1
<1> QED
  BY <1>1, <1>2, <1>3 DEF Reported

----------------------------------------------------------------------------
(* Types *)

\* The initial values have their types.
LEMMA InitType == Init => TypeOK
<1> SUFFICES ASSUME Init PROVE TypeOK
  OBVIOUS
<1>1. Total \in Nat
  BY DEF Init, Total, Kinds
<1>2. IsFiniteSet(reports)
  BY FS_EmptySet DEF Init
<1>3. budget \in Nat
  BY DEF Init
<1>4. /\ queue \union Reported \union topic \subseteq Numbers
      /\ confirmed \union failed \union refused \subseteq Numbers
  BY DEF Init, Reported
<1>5. counters \in [Kinds -> Nat]
  BY DEF Init
<1> QED
  BY <1>2, <1>3, <1>4, <1>5 DEF Init, TypeOK

\* Serving the reports keeps the types.
LEMMA ServeType ==
    ASSUME TypeOK, ServeReports, pc' \in {"loop", "flush"},
           UNCHANGED <<budget, counters, raised, shutdown, timedOut, exit, queue, topic,
                       refused, sent>>
    PROVE  TypeOK'
<1>1. failures' \in Nat
  <2>1. failures \in Nat /\ Cardinality(Errors(reports)) \in Nat
    BY ErrorsCounted DEF TypeOK
  <2> QED
    BY <2>1 DEF ServeReports
<1>2. IsFiniteSet(reports')
  BY FS_EmptySet DEF ServeReports
<1>3. Total' = Total
  BY DEF Total
<1>4. confirmed' \subseteq Numbers' /\ failed' \subseteq Numbers' /\ Reported' = {}
  BY <1>3, ServedApart DEF TypeOK, Numbers
<1>5. queue' \union topic' \union refused' \subseteq Numbers'
  BY <1>3 DEF TypeOK, Numbers
<1> QED
  BY <1>1, <1>2, <1>4, <1>5 DEF TypeOK, ServeReports

\* Every step keeps the types.
LEMMA NextType == TypeOK /\ [Next]_vars => TypeOK'
<1> SUFFICES ASSUME TypeOK, [Next]_vars PROVE TypeOK'
  OBVIOUS
<1> USE DEF memory, kafka, history
<1>0. Total \in Nat
  BY TotalType DEF TypeOK
<1>1. CASE Compose
  <2>1. Total' = Total + 1 /\ counters' \in [Kinds -> Nat]
    BY <1>1, ComposeCounts
  <2>2. Numbers \subseteq Numbers' /\ Total' > 0
    BY <1>0, <2>1 DEF Numbers
  <2>3. UNCHANGED <<queue, Reported, topic, confirmed, failed, refused>>
    BY <1>1 DEF Compose, Reported
  <2> QED
    BY <1>1, <2>1, <2>2, <2>3 DEF Compose, TypeOK
<1>2. CASE Serve \/ FlushServes
  BY <1>2, ServeType DEF Serve, FlushServes, TypeOK
<1>3. ASSUME Deliver \/ DeliveryFails
      PROVE  TypeOK'
  <2>1. PICK m \in queue : \E ok \in BOOLEAN :
            /\ queue' = queue \ {m}
            /\ topic' \in {topic, topic \union {m}}
            /\ reports' = reports \union {[msg |-> m, ok |-> ok]}
    <3>1. CASE Deliver
      BY <3>1, TRUE \in BOOLEAN DEF Deliver
    <3>2. CASE DeliveryFails
      BY <3>2, FALSE \in BOOLEAN DEF DeliveryFails
    <3> QED
      BY <1>3, <3>1, <3>2
  <2>2. PICK ok \in BOOLEAN : reports' = reports \union {[msg |-> m, ok |-> ok]}
    BY <2>1
  <2>3. m \in Numbers /\ m \in Nat \ {0}
    BY <1>0 DEF TypeOK, Numbers
  <2>4. [msg |-> m, ok |-> ok] \in Report
    BY <2>3 DEF Report
  <2>5. reports' \in SUBSET Report /\ IsFiniteSet(reports')
    BY <2>2, <2>4, FS_AddElement DEF TypeOK
  <2>6. Reported' = Reported \union {m}
    BY <2>2, ReportAdded
  <2>7. UNCHANGED <<memory, pc, shutdown, exit, history, sent>>
    BY <1>3 DEF Deliver, DeliveryFails
  <2>8. UNCHANGED <<Total, Numbers>>
    BY <2>7 DEF Total, Numbers
  <2>9. queue' \union Reported' \union topic' \subseteq Numbers'
    BY <2>1, <2>3, <2>6, <2>8 DEF TypeOK
  <2> QED
    BY <2>5, <2>7, <2>8, <2>9 DEF TypeOK
<1>4. ASSUME UNCHANGED <<Total, reports, topic, counters, failures, confirmed, failed,
                         budget>>,
             queue' \subseteq Numbers, refused' \subseteq Numbers,
             pc' \in {"loop", "serve", "flush", "report", "ended"} \/ pc' = pc,
             raised' \in BOOLEAN, shutdown' \in BOOLEAN, timedOut' \in BOOLEAN,
             exit' \in {"running", "exit0", "exit1", "exception"},
             sent' \in Nat
      PROVE  TypeOK'
  <2>1. UNCHANGED <<Numbers, Reported>>
    BY <1>4 DEF Numbers, Reported
  <2> QED
    BY <1>4, <2>1 DEF TypeOK
<1>5. pc = "produce" => Total \in Numbers
  BY <1>0 DEF TypeOK, Numbers
<1>6. CASE SerialiseRaises
  BY <1>6, <1>4, <1>5 DEF SerialiseRaises, TypeOK, Total, Raise
<1>7. CASE LoopEnds
  BY <1>7, <1>4, <1>5 DEF LoopEnds, TypeOK, Total
<1>8. CASE ProduceOk
  BY <1>8, <1>4, <1>5 DEF ProduceOk, TypeOK, Total
<1>9. CASE ProduceRaises
  BY <1>9, <1>4, <1>5 DEF ProduceRaises, TypeOK, Total, Raise
<1>10. CASE FlushEmpty
  BY <1>10, <1>4, <1>5 DEF FlushEmpty, TypeOK, Total
<1>11. CASE FlushTimesOut
  BY <1>11, <1>4, <1>5 DEF FlushTimesOut, TypeOK, Total
<1>12. CASE Finish
  BY <1>12, <1>4, <1>5 DEF Finish, TypeOK, Total, ExitCode
<1>13. CASE FirstSignal
  BY <1>13, <1>4, <1>5 DEF FirstSignal, TypeOK, Total
<1>14. CASE SecondSignal
  BY <1>14, <1>4, <1>5 DEF SecondSignal, TypeOK, Total, Raise
<1>15. CASE SignalWhileEnding
  BY <1>15, <1>4, <1>5 DEF SignalWhileEnding, TypeOK, Total
<1>16. CASE UNCHANGED vars
  BY <1>16, <1>4, <1>5 DEF vars, TypeOK, Total
<1> QED
  BY <1>1, <1>2, <1>3, <1>6, <1>7, <1>8, <1>9, <1>10, <1>11, <1>12, <1>13, <1>14,
     <1>15, <1>16
  DEF Next, ThreadStep

\* Every variable of the producer keeps its type.
THEOREM ProducerTypes == Spec => []TypeOK
BY InitType, NextType, PTL DEF Spec

----------------------------------------------------------------------------
(* The ledger *)

\* What is shown of the initial states at once.
RunInv == Ledger /\ EndInv /\ BudgetSpentExactly

\* Nothing is booked at first.
LEMMA InitLedger == Init => RunInv
<1> SUFFICES ASSUME Init PROVE RunInv
  OBVIOUS
<1>1. Total = 0 /\ HandedOver = {}
  BY DEF Init, Total, Kinds, HandedOver, Numbers
<1>2. Pending = {} /\ Reported = {}
  BY DEF Init, Pending, Reported
<1>3. Ledger
  BY <1>1, <1>2, FS_EmptySet DEF Init, Ledger
<1>4. EndInv
  BY DEF Init, EndInv
<1>5. BudgetSpentExactly
  BY <1>1 DEF Init, BudgetSpentExactly
<1> QED
  BY <1>3, <1>4, <1>5 DEF RunInv

\* A failure is counted exactly once.
LEMMA FailuresCounted ==
    ASSUME TypeOK, Ledger, ServeReports
    PROVE  failures' = Cardinality(failed')
<1>1. IsFiniteSet(failed)
  <2>1. IsFiniteSet(Numbers) /\ failed \in SUBSET Numbers
    BY NumbersFinite DEF TypeOK
  <2> QED
    BY <2>1, FS_Subset
<1>2. IsFiniteSet(Bad) /\ Cardinality(Errors(reports)) = Cardinality(Bad)
  BY ErrorsCounted
<1>3. failed \intersect Bad = {}
  BY DEF Ledger, Pending, Bad
<1>4. /\ Cardinality(failed) \in Nat
      /\ Cardinality(Bad) \in Nat
      /\ Cardinality(failed \intersect Bad) = 0
  BY <1>1, <1>2, <1>3, FS_CardinalityType, FS_EmptySet
<1>5. Cardinality(failed \union Bad)
          = Cardinality(failed) + Cardinality(Bad) - Cardinality(failed \intersect Bad)
  BY <1>1, <1>2, FS_Union
<1>6. failures' = Cardinality(failed) + Cardinality(Bad)
  BY <1>2 DEF ServeReports, Ledger
<1>7. failed' = failed \union Bad
  BY ServedApart
<1> QED
  BY <1>4, <1>5, <1>6, <1>7

\* Serving the reports moves each message from its report to confirmed or failed.
LEMMA ServeLedger ==
    ASSUME TypeOK, Ledger, EndInv, ServeReports, pc \in {"serve", "flush"},
           pc' \in {"loop", "flush"},
           UNCHANGED <<counters, raised, timedOut, exit, queue, topic, refused>>
    PROVE  Ledger' /\ EndInv'
<1>1. Pending' = queue /\ Reported' = {}
  BY ServedApart DEF Pending
<1>2. HandedOver' = HandedOver
  BY DEF HandedOver, Numbers, Total
<1>3. confirmed' \union failed' = confirmed \union failed \union Reported
  BY ServedApart
<1>4. confirmed' \intersect failed' = {}
  <2>1. \A m \in Reported : ~ ([msg |-> m, ok |-> TRUE] \in reports
                                  /\ [msg |-> m, ok |-> FALSE] \in reports)
    BY DEF EndInv
  <2>2. Reported \intersect (confirmed \union failed) = {}
    BY DEF Ledger, Pending
  <2> QED
    BY <2>1, <2>2 DEF ServeReports, Ledger
<1>5. failures' = Cardinality(failed')
  BY FailuresCounted
<1>6. Ledger'
  BY <1>1, <1>2, <1>3, <1>4, <1>5 DEF Ledger, Pending
<1>7. confirmed' \subseteq topic'
  <2>1. \A m \in Reported : [msg |-> m, ok |-> TRUE] \in reports => m \in topic
    BY DEF EndInv
  <2> QED
    BY <2>1 DEF ServeReports, EndInv
<1>8. EndInv'
  BY <1>7 DEF EndInv, ServeReports
<1> QED
  BY <1>6, <1>8

\* librdkafka moves a message from its queue to a report.
LEMMA ReportLedger ==
    ASSUME TypeOK, Ledger, EndInv, pc # "ended", NEW m \in queue, NEW ok \in BOOLEAN,
           queue' = queue \ {m},
           topic' = topic \/ topic' = topic \union {m},
           ok => topic' = topic \union {m},
           reports' = reports \union {[msg |-> m, ok |-> ok]},
           UNCHANGED <<counters, failures, raised, pc, exit, confirmed, failed, refused,
                       timedOut>>
    PROVE  Ledger' /\ EndInv'
<1>1. Reported' = Reported \union {m}
  BY ReportAdded
<1>2. Pending' = Pending
  BY <1>1 DEF Pending
<1>3. HandedOver' = HandedOver
  BY DEF HandedOver, Numbers, Total
<1>4. m \notin Reported
  BY DEF Ledger
<1>5. Ledger'
  BY <1>1, <1>2, <1>3, <1>4 DEF Ledger
<1>6. \A r \in reports : r.msg # m
  BY <1>4 DEF Reported
<1>7. \A r \in reports' : r \in reports \/ r = [msg |-> m, ok |-> ok]
  OBVIOUS
<1>8. \A r, s \in reports' : r.msg = s.msg => r = s
  BY <1>6, <1>7 DEF EndInv
<1>9. \A r \in reports' : r.ok => r.msg \in topic'
  BY <1>7 DEF EndInv
<1> QED
  BY <1>2, <1>5, <1>8, <1>9 DEF EndInv

\* Nothing the ledger books moves, and the thread does not end well with messages
\* left behind.
LEMMA StillLedger ==
    ASSUME Ledger, EndInv,
           UNCHANGED <<counters, failures, queue, reports, topic, confirmed, failed,
                       refused>>,
           (pc # "produce" /\ pc' # "produce") \/ pc' = pc,
           raised' = raised \/ raised' = TRUE,
           timedOut' = timedOut \/ timedOut' = TRUE,
           pc' \in {"report", "ended"} /\ ~timedOut' /\ ~raised' => Pending = {},
           pc' = "ended" => exit' = ExitCode',
           pc' # "ended" => exit' = "running"
    PROVE  Ledger' /\ EndInv'
<1>1. UNCHANGED <<Reported, Pending, HandedOver>>
  BY DEF Reported, Pending, HandedOver, Numbers, Total
<1>2. Ledger'
  BY <1>1 DEF Ledger
<1>3. EndInv'
  BY <1>1 DEF EndInv
<1> QED
  BY <1>2, <1>3

\* A composed message is not handed over yet.
LEMMA ComposeLedger ==
    ASSUME TypeOK, Ledger, EndInv, Compose
    PROVE  Ledger' /\ EndInv'
<1> USE DEF memory, kafka, history
<1>0. Total \in Nat /\ Total' = Total + 1
  BY TotalType, ComposeCounts DEF TypeOK
<1>1. HandedOver' = HandedOver
  BY <1>0 DEF Compose, HandedOver, Numbers
<1>2. UNCHANGED <<Pending, Reported>>
  BY DEF Compose, Pending, Reported
<1>3. Ledger'
  BY <1>1, <1>2 DEF Compose, Ledger
<1>4. EndInv'
  BY <1>2 DEF Compose, EndInv
<1> QED
  BY <1>3, <1>4

\* produce hands the composed message over or refuses it.
LEMMA ProduceLedger ==
    ASSUME TypeOK, Ledger, EndInv, pc = "produce", pc' \in {"serve", "flush"},
           \/ queue' = queue \union {Total} /\ refused' = refused
           \/ queue' = queue /\ refused' = refused \union {Total} /\ raised' = TRUE,
           raised' = raised \/ raised' = TRUE,
           UNCHANGED <<counters, failures, exit, reports, topic, confirmed, failed,
                       timedOut>>
    PROVE  Ledger' /\ EndInv'
<1>1. Total \in Numbers
  BY TotalType DEF TypeOK, Numbers
<1>2. HandedOver = Numbers \ {Total} /\ HandedOver' = Numbers /\ Reported' = Reported
  BY DEF HandedOver, Numbers, Total, Reported
<1>3. Total \notin Pending \union confirmed \union failed \union refused
  BY <1>2 DEF Ledger
<1>4. Ledger'
  BY <1>1, <1>2, <1>3 DEF Ledger, Pending
<1>5. EndInv'
  BY DEF EndInv
<1> QED
  BY <1>4, <1>5

\* No step unbalances the ledger.
LEMMA LedgerStep == TypeOK /\ Ledger /\ EndInv /\ [Next]_vars => Ledger' /\ EndInv'
<1> SUFFICES ASSUME TypeOK, Ledger, EndInv, [Next]_vars PROVE Ledger' /\ EndInv'
  OBVIOUS
<1> USE DEF memory, kafka, history
<1>1. CASE Compose
  BY <1>1, ComposeLedger
<1>2. CASE ProduceOk
  BY <1>2, ProduceLedger DEF ProduceOk
<1>3. CASE ProduceRaises
  BY <1>3, ProduceLedger DEF ProduceRaises, Raise
<1>4. CASE Serve \/ FlushServes
  BY <1>4, ServeLedger DEF Serve, FlushServes
<1>5. CASE Deliver
  <2>1. PICK m \in queue :
            /\ queue' = queue \ {m}
            /\ topic' = topic \union {m}
            /\ reports' = reports \union {[msg |-> m, ok |-> TRUE]}
    BY <1>5 DEF Deliver
  <2> QED
    BY <1>5, <2>1, ReportLedger DEF Deliver
<1>6. CASE DeliveryFails
  <2>1. PICK m \in queue :
            /\ queue' = queue \ {m}
            /\ topic' = topic \/ topic' = topic \union {m}
            /\ reports' = reports \union {[msg |-> m, ok |-> FALSE]}
    BY <1>6 DEF DeliveryFails
  <2> QED
    BY <1>6, <2>1, ReportLedger DEF DeliveryFails
<1>7. CASE SecondSignal
  <2>1. CASE pc = "produce"
    BY <1>7, <2>1, ProduceLedger DEF SecondSignal, Raise
  <2>2. CASE pc # "produce"
    <3>1. pc' = "flush" /\ exit' = exit /\ pc # "ended"
      BY <1>7 DEF SecondSignal, Raise
    <3>2. exit' = "running"
      BY <3>1 DEF EndInv
    <3> QED
      BY <1>7, <2>2, <3>1, <3>2, StillLedger DEF SecondSignal, Raise
  <2> QED
    BY <2>1, <2>2
<1>8. CASE SerialiseRaises
  BY <1>8, StillLedger DEF SerialiseRaises, Raise, EndInv
<1>9. CASE LoopEnds
  BY <1>9, StillLedger DEF LoopEnds, EndInv
<1>10. CASE FlushEmpty
  BY <1>10, StillLedger DEF FlushEmpty, EndInv
<1>11. CASE FlushTimesOut
  BY <1>11, StillLedger DEF FlushTimesOut, EndInv
<1>12. CASE Finish
  BY <1>12, StillLedger DEF Finish, EndInv, ExitCode
<1>13. CASE FirstSignal
  BY <1>13, StillLedger DEF FirstSignal, EndInv
<1>14. CASE SignalWhileEnding
  BY <1>14, StillLedger DEF SignalWhileEnding, EndInv, ExitCode
<1>15. CASE UNCHANGED vars
  BY <1>15, StillLedger DEF vars, EndInv, ExitCode
<1> QED
  BY <1>1, <1>2, <1>3, <1>4, <1>5, <1>6, <1>7, <1>8, <1>9, <1>10, <1>11, <1>12,
     <1>13, <1>14, <1>15
  DEF Next, ThreadStep

----------------------------------------------------------------------------
(* The budget *)

\* No step overruns the budget, and only a spent one ends the loop by itself.
LEMMA BudgetStep ==
    TypeOK /\ BudgetSpentExactly /\ [Next]_vars => BudgetSpentExactly'
<1> SUFFICES ASSUME TypeOK, BudgetSpentExactly, [Next]_vars PROVE BudgetSpentExactly'
  OBVIOUS
<1> USE DEF memory, kafka, history
<1>0. Total \in Nat /\ budget \in Nat
  BY TotalType DEF TypeOK
<1>1. CASE Compose
  <2>1. Total' = Total + 1 /\ (budget # 0 => Total < budget)
    BY <1>1, ComposeCounts DEF Compose, WantsMore
  <2> QED
    BY <1>0, <1>1, <2>1 DEF Compose, BudgetSpentExactly
<1>2. ASSUME UNCHANGED <<Total, budget>>,
             pc' \in {"flush", "report"} /\ ~shutdown' /\ ~raised'
                 => \/ pc \in {"flush", "report"} /\ ~shutdown /\ ~raised
                    \/ pc = "loop" /\ ~WantsMore /\ ~shutdown
      PROVE  BudgetSpentExactly'
  BY <1>0, <1>2 DEF BudgetSpentExactly, WantsMore
<1>3. CASE SerialiseRaises
  BY <1>3, <1>2 DEF SerialiseRaises, Total, Raise
<1>4. CASE LoopEnds
  BY <1>4, <1>2 DEF LoopEnds, Total
<1>5. CASE ProduceOk
  BY <1>5, <1>2 DEF ProduceOk, Total
<1>6. CASE ProduceRaises
  BY <1>6, <1>2 DEF ProduceRaises, Total, Raise
<1>7. CASE Serve
  BY <1>7, <1>2 DEF Serve, Total
<1>8. CASE FlushServes
  BY <1>8, <1>2 DEF FlushServes, Total
<1>9. CASE FlushEmpty
  BY <1>9, <1>2 DEF FlushEmpty, Total
<1>10. CASE FlushTimesOut
  BY <1>10, <1>2 DEF FlushTimesOut, Total
<1>11. CASE Finish
  BY <1>11, <1>2 DEF Finish, Total
<1>12. CASE Deliver
  BY <1>12, <1>2 DEF Deliver, Total
<1>13. CASE DeliveryFails
  BY <1>13, <1>2 DEF DeliveryFails, Total
<1>14. CASE FirstSignal
  BY <1>14, <1>2 DEF FirstSignal, Total
<1>15. CASE SecondSignal
  BY <1>15, <1>2 DEF SecondSignal, Total, Raise
<1>16. CASE SignalWhileEnding
  BY <1>16, <1>2 DEF SignalWhileEnding, Total
<1>17. CASE UNCHANGED vars
  BY <1>17, <1>2 DEF vars, Total
<1> QED
  BY <1>1, <1>3, <1>4, <1>5, <1>6, <1>7, <1>8, <1>9, <1>10, <1>11, <1>12, <1>13,
     <1>14, <1>15, <1>16, <1>17
  DEF Next, ThreadStep

----------------------------------------------------------------------------
(* What the run owes its operator *)

\* Ledger and EndInv hold together in every reachable state.
THEOREM ProducerInvariance == Spec => [](Ledger /\ EndInv)
BY ProducerTypes, InitLedger, LedgerStep, PTL DEF Spec, RunInv

\* Every message handed over is in exactly one place, and delivery_failures is the
\* number of the failed ones.
THEOREM LedgerKept == Spec => []Ledger
BY ProducerInvariance, PTL

\* max_messages is never exceeded, and a run that ends by itself has spent it.
THEOREM BudgetKept == Spec => []BudgetSpentExactly
BY ProducerTypes, InitLedger, BudgetStep, PTL DEF Spec, RunInv

\* The exit code tells the truth about a run whose flush got through.
LEMMA ExitCodeFollows == TypeOK /\ Ledger /\ EndInv => ExitCodeTruthful
<1> SUFFICES ASSUME TypeOK, Ledger, EndInv PROVE ExitCodeTruthful
  OBVIOUS
<1>0. failures = Cardinality(failed) /\ failures \in Nat
  BY DEF Ledger, TypeOK
<1>1. IsFiniteSet(failed)
  <2>1. IsFiniteSet(Numbers) /\ failed \in SUBSET Numbers
    BY NumbersFinite DEF TypeOK
  <2> QED
    BY <2>1, FS_Subset
<1>2. failures = 0 <=> failed = {}
  BY <1>0, <1>1, FS_EmptySet
<1>3. ASSUME exit = "exit0", ~timedOut
      PROVE  Numbers \subseteq topic
  <2>1. pc = "ended" /\ exit = ExitCode
    BY <1>3 DEF EndInv
  <2>2. ~raised /\ failed = {}
    BY <1>0, <1>2, <1>3, <2>1 DEF ExitCode
  <2>3. Pending = {} /\ refused = {} /\ confirmed \subseteq topic
    BY <1>3, <2>1, <2>2 DEF EndInv
  <2>4. Numbers = HandedOver
    BY <2>1 DEF HandedOver
  <2> QED
    BY <2>2, <2>3, <2>4 DEF Ledger
<1>4. ASSUME exit = "exit1"
      PROVE  failed # {}
  <2>1. pc = "ended" /\ exit = ExitCode
    BY <1>4 DEF EndInv
  <2>2. failures > 0
    BY <1>4, <2>1 DEF ExitCode
  <2> QED
    BY <1>0, <1>2, <2>2
<1> QED
  BY <1>3, <1>4 DEF ExitCodeTruthful

THEOREM ExitCodeKept == Spec => []ExitCodeTruthful
BY ProducerTypes, ProducerInvariance, ExitCodeFollows, PTL
=============================================================================
