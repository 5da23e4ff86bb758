----------------------- MODULE AllocationLedgerProofs -----------------------
(***************************************************************************)
(* Proofs about AllocationLedger for any pods, nodes, keys and retry limit. *)
(***************************************************************************)
EXTENDS AllocationLedger, TLAPS

\* Every pod has a key, and the ledger of a node is a record of entries.
LEMMA KeyIsName ==
  ASSUME NEW p \in Pods
  PROVE  workloadEntryName[p] \in Names
BY DEF Names

\* The two ways an entry is written give entries again.
LEMMA EntriesType ==
  ASSUME NEW w \in [Names -> Pods \cup {NoPod}], NEW p \in Pods
  PROVE  /\ Upsert(w, p) \in [Names -> Pods \cup {NoPod}]
         /\ Remove(w, p) \in [Names -> Pods \cup {NoPod}]
         /\ NoEntries \in [Names -> Pods \cup {NoPod}]
BY KeyIsName DEF Upsert, Remove, NoEntries

\* The objects Create and Update send, and the absent one, are ledgers.
LEMMA LedgerType ==
  /\ Absent \in Ledgers
  /\ \A w \in [Names -> Pods \cup {NoPod}] : [exists |-> TRUE, workloads |-> w] \in Ledgers
  /\ \A l \in Ledgers : l.workloads \in [Names -> Pods \cup {NoPod}]
BY DEF Absent, Ledgers, NoEntries

-----------------------------------------------------------------------------
(* Type correctness. *)

\* Every step of Reserve, Unreserve, binding and restart keeps the types, and
\* a pod has a node exactly while it is not queued.
LEMMA TypeStep == TypeOK /\ [Next]_vars => TypeOK'
<1> SUFFICES ASSUME TypeOK, [Next]_vars PROVE TypeOK'
  OBVIOUS
<1> USE LedgerAssumption, LedgerType
<1>1. ASSUME NEW p \in Pods, NEW n \in Nodes, StartReserve(p, n) PROVE TypeOK'
  BY <1>1 DEF StartReserve, Goto, TypeOK, Steps
<1>2. ASSUME NEW p \in Pods, ReserveGet(p) PROVE TypeOK'
  BY <1>2 DEF ReserveGet, Goto, TypeOK, Steps
<1>3. ASSUME NEW p \in Pods, ReserveWrite(p) PROVE TypeOK'
  <2> DEFINE object == [exists |-> TRUE, workloads |-> Upsert(copy[p].workloads, p)]
  <2>1. object \in Ledgers
    BY EntriesType DEF TypeOK
  <2>2. Put(p, node[p], object) /\ pc[p] # "Queued"
        /\ (ReserveSucceeds(p) \/ ReserveFails(p))
    BY <1>3 DEF ReserveWrite
  <2> HIDE DEF object
  <2>3. CASE ReserveSucceeds(p)
    BY <2>1, <2>2, <2>3 DEF Put, InFlight, ReserveSucceeds, EndCycle, Goto, TypeOK,
                            Steps
  <2>4. CASE ReserveFails(p)
    BY <2>1, <2>2, <2>4 DEF Put, InFlight, ReserveFails, Goto, TypeOK, Steps
  <2> QED
    BY <2>2, <2>3, <2>4
<1>4. ASSUME NEW p \in Pods, ReserveConflict(p) PROVE TypeOK'
  <2>1. pc[p] # "Queued" /\ NoEffect(p)
    BY <1>4 DEF ReserveConflict
  <2>2. CASE RetryOnConflict(p, "ReserveGet")
    BY <2>1, <2>2 DEF RetryOnConflict, NoEffect, Goto, TypeOK, Steps
  <2>3. CASE ReserveFails(p)
    BY <2>1, <2>3 DEF ReserveFails, NoEffect, Goto, TypeOK, Steps
  <2> QED
    BY <1>4, <2>2, <2>3 DEF ReserveConflict
<1>5. ASSUME NEW p \in Pods, ReserveError(p) PROVE TypeOK'
  BY <1>5 DEF ReserveError, ReserveFails, NoEffect, Goto, TypeOK, Steps
<1>6. ASSUME NEW p \in Pods, BindSucceeds(p) \/ BindFails(p) PROVE TypeOK'
  BY <1>6 DEF BindSucceeds, BindFails, Goto, TypeOK, Steps
<1>7. ASSUME NEW p \in Pods, UnreserveGet(p) PROVE TypeOK'
  BY <1>7 DEF UnreserveGet, Goto, TypeOK, Steps
<1>8. ASSUME NEW p \in Pods, UnreserveNotFound(p) PROVE TypeOK'
  BY <1>8 DEF UnreserveNotFound, UnreserveReturns, EndCycle, NoEffect, Goto,
              TypeOK, Steps
<1>9. ASSUME NEW p \in Pods, UnreserveDelete(p) PROVE TypeOK'
  BY <1>9 DEF UnreserveDelete, Put, InFlight, UnreserveReturns, EndCycle, Goto,
              TypeOK, Steps
<1>10. ASSUME NEW p \in Pods, UnreserveUpdate(p) PROVE TypeOK'
  <2> DEFINE object == [exists |-> TRUE, workloads |-> Remove(copy[p].workloads, p)]
  <2>1. object \in Ledgers
    BY EntriesType DEF TypeOK
  <2>2. Put(p, node[p], object) /\ pc[p] # "Queued"
        /\ \E failed \in BOOLEAN : UnreserveReturns(p, failed)
    BY <1>10 DEF UnreserveUpdate
  <2> HIDE DEF object
  <2> QED
    BY <2>1, <2>2 DEF Put, InFlight, UnreserveReturns, EndCycle, Goto, TypeOK, Steps
<1>11. ASSUME NEW p \in Pods, UnreserveConflict(p) PROVE TypeOK'
  <2>1. pc[p] # "Queued" /\ NoEffect(p)
    BY <1>11 DEF UnreserveConflict
  <2>2. CASE RetryOnConflict(p, "UnreserveGet")
    BY <2>1, <2>2 DEF RetryOnConflict, NoEffect, Goto, TypeOK, Steps
  <2>3. CASE UnreserveReturns(p, TRUE)
    BY <2>1, <2>3 DEF UnreserveReturns, EndCycle, NoEffect, Goto, TypeOK, Steps
  <2> QED
    BY <1>11, <2>2, <2>3 DEF UnreserveConflict, UnreserveGivesUp
<1>12. ASSUME NEW p \in Pods, UnreserveError(p) PROVE TypeOK'
  BY <1>12 DEF UnreserveError, UnreserveGivesUp, UnreserveReturns, EndCycle,
               NoEffect, Goto, TypeOK, Steps
<1>13. ASSUME NEW n \in Nodes, StatusUpdate(n) PROVE TypeOK'
  BY <1>13 DEF StatusUpdate, InFlight, TypeOK
<1>14. ASSUME NEW p \in Pods, PodDeleted(p) PROVE TypeOK'
  BY <1>14 DEF PodDeleted, Goto, TypeOK, Steps
<1>15. CASE SchedulerRestart
  BY <1>15 DEF SchedulerRestart, TypeOK, Steps
<1>16. CASE UNCHANGED vars
  BY <1>16 DEF vars, TypeOK
<1> QED
  BY <1>1, <1>2, <1>3, <1>4, <1>5, <1>6, <1>7, <1>8, <1>9, <1>10, <1>11, <1>12,
     <1>13, <1>14, <1>15, <1>16 DEF Next, SchedulerStep

\* Type correctness of the ledger protocol, for any number of pods and nodes.
THEOREM TypeCorrect == Spec => []TypeOK
<1>1. Init => TypeOK
  BY LedgerAssumption, LedgerType DEF Init, TypeOK, Steps
<1> QED
  BY <1>1, TypeStep, PTL DEF Spec

-----------------------------------------------------------------------------
(* The ledger invariant. *)

\* A copy of an object that did not exist has no entries.
AbsentCopy == \A p \in Pods : copy[p].exists \/ copy[p].workloads = NoEntries

\* The inductive invariant.  FreshCopy says what a Get-modify-write starts from,
\* AbsentCopy and NoEmptyLedger what an object that does not exist holds; with
\* them a write adds or removes the writer's own entry and no other.
LedgerInv == TypeOK /\ FreshCopy /\ NoEmptyLedger /\ AbsentCopy /\ NoStrayEntry

\* What the Update or Create of Reserve writes: the entries of the ledger as
\* they are, and the entry of p.
LEMMA ReserveWrites ==
  ASSUME LedgerInv, NEW p \in Pods, ReserveWrite(p)
  PROVE  /\ node[p] \in Nodes
         /\ copy[p].workloads = ledger[node[p]].workloads
         /\ ledger' = [ledger EXCEPT ![node[p]] =
              [exists |-> TRUE, workloads |-> Upsert(ledger[node[p]].workloads, p)]]
<1>1. node[p] \in Nodes
  BY DEF LedgerInv, TypeOK, ReserveWrite
<1>2. copy[p].workloads = ledger[node[p]].workloads
  <2>1. CASE copy[p].exists
    BY <2>1 DEF LedgerInv, FreshCopy, ReserveWrite
  <2>2. CASE ~copy[p].exists
    BY <1>1, <2>2 DEF LedgerInv, AbsentCopy, NoEmptyLedger, ReserveWrite
  <2> QED
    BY <2>1, <2>2
<1> QED
  BY <1>1, <1>2 DEF ReserveWrite, Put

\* What the Update of Unreserve writes: the entries of the ledger as they are,
\* without the entry of p.
LEMMA UnreserveWrites ==
  ASSUME LedgerInv, NEW p \in Pods, UnreserveUpdate(p)
  PROVE  /\ node[p] \in Nodes
         /\ Remove(ledger[node[p]].workloads, p) # NoEntries
         /\ ledger' = [ledger EXCEPT ![node[p]] =
              [exists |-> TRUE, workloads |-> Remove(ledger[node[p]].workloads, p)]]
<1>1. node[p] \in Nodes
  BY DEF LedgerInv, TypeOK, UnreserveUpdate
<1>2. copy[p] = ledger[node[p]]
  BY DEF LedgerInv, FreshCopy, UnreserveUpdate
<1> QED
  BY <1>1, <1>2 DEF UnreserveUpdate, Put

\* A write of p leaves every other client's copy current or marks it stale.
LEMMA PutKeepsFresh ==
  ASSUME TypeOK, FreshCopy, NEW p \in Pods, pc[p] # "Queued", NEW object,
         Put(p, node[p], object),
         NEW step \in Steps \ {"ReserveWrite", "UnreserveWrite"},
         pc' = [pc EXCEPT ![p] = step],
         node' = node \/ node' = [node EXCEPT ![p] = NoNode]
  PROVE  FreshCopy'
<1> SUFFICES ASSUME NEW q \in Pods,
                    pc'[q] \in {"ReserveWrite", "UnreserveWrite"}, q \notin stale'
             PROVE  copy'[q] = ledger'[node'[q]]
  BY DEF FreshCopy
<1>1. q # p /\ pc'[q] = pc[q] /\ node'[q] = node[q] /\ copy'[q] = copy[q]
  BY DEF TypeOK, Put
<1>2. q \notin stale /\ copy[q] = ledger[node[q]]
  BY <1>1 DEF FreshCopy, Put
<1>3. CASE node[q] = node[p]
  <2>1. object = ledger[node[p]]
    BY <1>1, <1>3 DEF Put, InFlight
  <2> QED
    BY <1>1, <1>2, <2>1 DEF Put, TypeOK
<1>4. CASE node[q] # node[p]
  BY <1>1, <1>2, <1>4 DEF Put, TypeOK
<1> QED
  BY <1>3, <1>4

\* The steps that write no ledger and read none, in one formula.
QuietStep(p) ==
  \/ ReserveConflict(p) \/ ReserveError(p) \/ BindSucceeds(p) \/ BindFails(p)
  \/ UnreserveNotFound(p) \/ UnreserveConflict(p) \/ UnreserveError(p)
  \/ PodDeleted(p) \/ \E n \in Nodes : StartReserve(p, n)

\* A quiet step ends the use of p's copy and touches no other pod's attempt.
LEMMA QuietSteps ==
  ASSUME TypeOK, NEW p \in Pods, QuietStep(p)
  PROVE  /\ ledger' = ledger
         /\ copy' = copy \/ copy' = [copy EXCEPT ![p] = Absent]
         /\ stale \ {p} \subseteq stale'
         /\ \E step \in Steps \ {"ReserveWrite", "UnreserveWrite"} :
              pc' = [pc EXCEPT ![p] = step]
         /\ \E n \in Nodes \cup {NoNode} : node' = [node EXCEPT ![p] = n]
         /\ abandoned \ {<<p, node'[p]>>} \subseteq abandoned'
<1>1. node = [node EXCEPT ![p] = node[p]] /\ node[p] \in Nodes \cup {NoNode}
  BY DEF TypeOK
<1>2. CASE ReserveConflict(p) \/ ReserveError(p)
  BY <1>1, <1>2 DEF ReserveConflict, ReserveError, RetryOnConflict, RetriesExhausted, ReserveFails,
                    NoEffect, Goto, Steps
<1>3. CASE BindSucceeds(p) \/ BindFails(p)
  BY <1>1, <1>3 DEF BindSucceeds, BindFails, Goto, Steps
<1>4. CASE UnreserveNotFound(p) \/ UnreserveError(p)
  BY <1>1, <1>4 DEF UnreserveNotFound, UnreserveError, UnreserveGivesUp,
                    UnreserveReturns, NoEffect, Goto, Steps
<1>5. CASE UnreserveConflict(p)
  BY <1>1, <1>5 DEF UnreserveConflict, RetryOnConflict, RetriesExhausted, UnreserveGivesUp,
                    UnreserveReturns, NoEffect, Goto, Steps
<1>6. CASE PodDeleted(p)
  BY <1>6 DEF PodDeleted, Goto, Steps
<1>7. ASSUME NEW n \in Nodes, StartReserve(p, n)
      PROVE  /\ node'[p] = n
             /\ abandoned \ {<<p, node'[p]>>} \subseteq abandoned'
  BY <1>7 DEF StartReserve, TypeOK
<1>8. CASE \E n \in Nodes : StartReserve(p, n)
  BY <1>7, <1>8 DEF StartReserve, Goto, Steps
<1> QED
  BY <1>2, <1>3, <1>4, <1>5, <1>6, <1>8 DEF QuietStep

\* The cases of a step, sorted by what they do to the ledgers.
LEMMA StepCases ==
  ASSUME Next
  PROVE  \/ \E p \in Pods : QuietStep(p)
         \/ \E p \in Pods : ReserveGet(p) \/ UnreserveGet(p)
         \/ \E p \in Pods : ReserveWrite(p)
         \/ \E p \in Pods : UnreserveDelete(p)
         \/ \E p \in Pods : UnreserveUpdate(p)
         \/ \E n \in Nodes : StatusUpdate(n)
         \/ SchedulerRestart
BY DEF Next, SchedulerStep, QuietStep

\* Every step keeps the copies that will be accepted current.
LEMMA FreshStep == LedgerInv /\ Next => FreshCopy'
<1> SUFFICES ASSUME LedgerInv, Next PROVE FreshCopy'
  OBVIOUS
<1> USE DEF LedgerInv
<1>1. ASSUME NEW p \in Pods, QuietStep(p) PROVE FreshCopy'
  BY <1>1, QuietSteps DEF FreshCopy, TypeOK
<1>2. ASSUME NEW p \in Pods, ReserveGet(p) \/ UnreserveGet(p) PROVE FreshCopy'
  BY <1>2 DEF ReserveGet, UnreserveGet, Goto, FreshCopy, TypeOK
<1>3. ASSUME NEW p \in Pods, ReserveWrite(p) PROVE FreshCopy'
  <2>1. \E object : Put(p, node[p], object)
    BY <1>3 DEF ReserveWrite
  <2> QED
    BY <1>3, <2>1, PutKeepsFresh DEF ReserveWrite, ReserveSucceeds, ReserveFails,
                                     Goto, Steps
<1>4. ASSUME NEW p \in Pods, UnreserveDelete(p) PROVE FreshCopy'
  BY <1>4, PutKeepsFresh DEF UnreserveDelete, UnreserveReturns, Goto, Steps
<1>5. ASSUME NEW p \in Pods, UnreserveUpdate(p) PROVE FreshCopy'
  <2>1. \E object : Put(p, node[p], object)
    BY <1>5 DEF UnreserveUpdate
  <2> QED
    BY <1>5, <2>1, PutKeepsFresh DEF UnreserveUpdate, UnreserveReturns, Goto, Steps
<1>6. ASSUME NEW n \in Nodes, StatusUpdate(n) PROVE FreshCopy'
  BY <1>6 DEF StatusUpdate, FreshCopy
<1>7. CASE SchedulerRestart
  BY <1>7 DEF SchedulerRestart, FreshCopy, TypeOK
<1> QED
  BY <1>1, <1>2, <1>3, <1>4, <1>5, <1>6, <1>7, StepCases

\* Every step leaves each ledger with entries exactly when it exists, and every
\* copy of an absent object without entries.
LEMMA ShapeStep == LedgerInv /\ Next => NoEmptyLedger' /\ AbsentCopy'
<1> SUFFICES ASSUME LedgerInv, Next PROVE NoEmptyLedger' /\ AbsentCopy'
  OBVIOUS
<1> USE DEF LedgerInv
<1>0. ~Absent.exists /\ Absent.workloads = NoEntries
  BY DEF Absent
<1>1. ASSUME NEW p \in Pods, copy' = [copy EXCEPT ![p] = Absent] \/ copy' = copy
      PROVE  AbsentCopy'
  BY <1>0, <1>1 DEF AbsentCopy, TypeOK
<1>2. ASSUME NEW p \in Pods, QuietStep(p) PROVE NoEmptyLedger' /\ AbsentCopy'
  BY <1>1, <1>2, QuietSteps DEF NoEmptyLedger
<1>3. ASSUME NEW p \in Pods, ReserveGet(p) \/ UnreserveGet(p)
      PROVE  NoEmptyLedger' /\ AbsentCopy'
  <2>1. node[p] \in Nodes
    BY <1>3 DEF ReserveGet, UnreserveGet, TypeOK
  <2> QED
    BY <1>3, <2>1 DEF ReserveGet, UnreserveGet, NoEmptyLedger, AbsentCopy, TypeOK
<1>4. ASSUME NEW p \in Pods, ReserveWrite(p) PROVE NoEmptyLedger' /\ AbsentCopy'
  <2>1. Upsert(ledger[node[p]].workloads, p)[workloadEntryName[p]] = p
    BY <1>4, ReserveWrites, KeyIsName, LedgerType DEF Upsert, TypeOK
  <2>2. Upsert(ledger[node[p]].workloads, p) # NoEntries
    BY <2>1, KeyIsName, LedgerAssumption DEF NoEntries
  <2>3. NoEmptyLedger'
    BY <1>4, <2>2, ReserveWrites DEF NoEmptyLedger, TypeOK
  <2> QED
    BY <1>1, <1>4, <2>3 DEF ReserveWrite, Put
<1>5. ASSUME NEW p \in Pods, UnreserveDelete(p) PROVE NoEmptyLedger' /\ AbsentCopy'
  BY <1>0, <1>1, <1>5 DEF UnreserveDelete, Put, NoEmptyLedger, TypeOK
<1>6. ASSUME NEW p \in Pods, UnreserveUpdate(p) PROVE NoEmptyLedger' /\ AbsentCopy'
  <2>1. NoEmptyLedger'
    BY <1>6, UnreserveWrites DEF NoEmptyLedger, TypeOK
  <2> QED
    BY <1>1, <1>6, <2>1 DEF UnreserveUpdate, Put
<1>7. ASSUME NEW n \in Nodes, StatusUpdate(n) PROVE NoEmptyLedger' /\ AbsentCopy'
  BY <1>7 DEF StatusUpdate, NoEmptyLedger, AbsentCopy
<1>8. ASSUME SchedulerRestart PROVE NoEmptyLedger' /\ AbsentCopy'
  BY <1>0, <1>8 DEF SchedulerRestart, NoEmptyLedger, AbsentCopy
<1> QED
  BY <1>2, <1>3, <1>4, <1>5, <1>6, <1>7, <1>8, StepCases

\* Every step leaves an entry only with its pod's attempt, or records that its
\* clean-up failed.
LEMMA StrayStep == LedgerInv /\ Next => NoStrayEntry'
<1> SUFFICES ASSUME LedgerInv, Next, NEW q \in Pods, NEW n \in Nodes, HasEntry(q, n)'
             PROVE  node'[q] = n \/ <<q, n>> \in abandoned'
  BY DEF NoStrayEntry
<1> USE DEF LedgerInv
<1>0. HasEntry(q, n) => node[q] = n \/ <<q, n>> \in abandoned
  BY DEF NoStrayEntry
<1>1. ASSUME NEW p \in Pods, QuietStep(p), p # q
      PROVE  node'[q] = n \/ <<q, n>> \in abandoned'
  BY <1>0, <1>1, QuietSteps DEF HasEntry, TypeOK
<1>2. ASSUME QuietStep(q) PROVE node'[q] = n \/ <<q, n>> \in abandoned'
  <2>1. HasEntry(q, n)
    BY <1>2, QuietSteps DEF HasEntry
  <2>2. CASE node'[q] = node[q]
    BY <1>0, <1>2, <2>1, <2>2, QuietSteps
  <2>3. CASE <<q, node[q]>> \in abandoned'
    BY <1>0, <1>2, <2>1, <2>3, QuietSteps
  <2>4. CASE node[q] = NoNode
    BY <1>0, <1>2, <2>1, <2>4, QuietSteps, LedgerAssumption
  <2>5. CASE UnreserveNotFound(q)
    <3>1. ~ledger[node[q]].exists /\ node[q] \in Nodes
      BY <2>5 DEF UnreserveNotFound, TypeOK
    <3>2. ledger[node[q]].workloads[workloadEntryName[q]] = NoPod
      BY <3>1, KeyIsName DEF NoEmptyLedger, NoEntries
    <3> QED
      BY <1>0, <1>2, <2>1, <3>2, QuietSteps, LedgerAssumption DEF HasEntry
  <2> QED
    BY <1>2, <2>2, <2>3, <2>4, <2>5
       DEF QuietStep, ReserveConflict, ReserveError, BindSucceeds, BindFails,
           UnreserveConflict, UnreserveError, PodDeleted, StartReserve,
           RetryOnConflict, RetriesExhausted, ReserveFails, UnreserveGivesUp, UnreserveReturns, TypeOK
<1>3. ASSUME NEW p \in Pods, ReserveGet(p) \/ UnreserveGet(p)
      PROVE  node'[q] = n \/ <<q, n>> \in abandoned'
  BY <1>0, <1>3 DEF ReserveGet, UnreserveGet, HasEntry
<1>4. ASSUME NEW p \in Pods, ReserveWrite(p)
      PROVE  node'[q] = n \/ <<q, n>> \in abandoned'
  <2>1. node' = node
    BY <1>4 DEF ReserveWrite, ReserveSucceeds, ReserveFails
  <2>2. abandoned \ {<<p, node[p]>>} \subseteq abandoned'
    BY <1>4 DEF ReserveWrite, ReserveSucceeds, ReserveFails
  <2>3. CASE q = p /\ n = node[p]
    BY <2>1, <2>3
  <2>4. CASE ~(q = p /\ n = node[p])
    <3>1. HasEntry(q, n)
      BY <1>4, <2>4, ReserveWrites, KeyIsName, LedgerType
         DEF HasEntry, Upsert, TypeOK
    <3> QED
      BY <1>0, <2>1, <2>2, <2>4, <3>1
  <2> QED
    BY <2>3, <2>4
<1>5. ASSUME NEW p \in Pods, UnreserveDelete(p)
      PROVE  node'[q] = n \/ <<q, n>> \in abandoned'
  <2>1. node' = [node EXCEPT ![p] = NoNode] /\ abandoned \subseteq abandoned'
        /\ ledger' = [ledger EXCEPT ![node[p]] = Absent]
    BY <1>5 DEF UnreserveDelete, Put, UnreserveReturns
  <2>2. n # node[p]
    BY <2>1, KeyIsName, LedgerAssumption DEF HasEntry, Absent, NoEntries, TypeOK
  <2> QED
    BY <1>0, <2>1, <2>2 DEF HasEntry, TypeOK
<1>6. ASSUME NEW p \in Pods, UnreserveUpdate(p)
      PROVE  node'[q] = n \/ <<q, n>> \in abandoned'
  <2>1. node' = [node EXCEPT ![p] = NoNode] /\ abandoned \subseteq abandoned'
    BY <1>6 DEF UnreserveUpdate, UnreserveReturns
  <2>2. HasEntry(q, n) /\ ~(q = p /\ n = node[p])
    BY <1>6, UnreserveWrites, KeyIsName, LedgerType, LedgerAssumption
       DEF HasEntry, Remove, TypeOK
  <2> QED
    BY <1>0, <2>1, <2>2 DEF TypeOK
<1>7. ASSUME NEW m \in Nodes, StatusUpdate(m)
      PROVE  node'[q] = n \/ <<q, n>> \in abandoned'
  BY <1>0, <1>7 DEF StatusUpdate, HasEntry
<1>8. ASSUME SchedulerRestart PROVE node'[q] = n \/ <<q, n>> \in abandoned'
  BY <1>0, <1>8 DEF SchedulerRestart, HasEntry
<1> QED
  BY <1>1, <1>2, <1>3, <1>4, <1>5, <1>6, <1>7, <1>8, StepCases

-----------------------------------------------------------------------------
(* Theorems. *)

\* The invariant is inductive.
THEOREM LedgerInvariant == Spec => []LedgerInv
<1>1. Init => LedgerInv
  <2> SUFFICES ASSUME Init PROVE LedgerInv
    OBVIOUS
  <2>1. TypeOK
    BY LedgerAssumption, LedgerType DEF Init, TypeOK, Steps
  <2>2. FreshCopy /\ NoEmptyLedger /\ AbsentCopy
    BY DEF Init, FreshCopy, NoEmptyLedger, AbsentCopy, Absent
  <2>3. NoStrayEntry
    BY LedgerAssumption, KeyIsName DEF Init, NoStrayEntry, HasEntry, Absent, NoEntries
  <2> QED
    BY <2>1, <2>2, <2>3 DEF LedgerInv
<1>2. LedgerInv /\ UNCHANGED vars => LedgerInv'
  BY DEF LedgerInv, vars, TypeOK, FreshCopy, NoEmptyLedger, AbsentCopy, NoStrayEntry,
         HasEntry
<1>3. LedgerInv /\ [Next]_vars => LedgerInv'
  BY <1>2, TypeStep, FreshStep, ShapeStep, StrayStep DEF LedgerInv
<1> QED
  BY <1>1, <1>3, PTL DEF Spec

\* Reserve and Unreserve write back only objects that are still current: the
\* resourceVersion check rejects every other write.
THEOREM CopiesAreFresh == Spec => []FreshCopy
BY LedgerInvariant, PTL DEF LedgerInv

\* A ledger object exists exactly as long as it has entries.
THEOREM NoLedgerIsEmpty == Spec => []NoEmptyLedger
BY LedgerInvariant, PTL DEF LedgerInv

\* An entry without an attempt of its pod on that node is left only by a failed
\* Unreserve, a scheduler restart or the end of a bound pod.
THEOREM NoEntryIsStray == Spec => []NoStrayEntry
BY LedgerInvariant, PTL DEF LedgerInv

\* When the keys of the pods differ, one pod's Reserve and Unreserve never take
\* or overwrite another pod's entry in a ledger object that is kept.
THEOREM OthersAreKept ==
  ASSUME DistinctKeys
  PROVE  Spec => OthersKept
<1> DEFINE Kept == \A q \in Pods, n \in Nodes :
             HasEntry(q, n) /\ ~HasEntry(q, n)'
               => \/ ~ledger'[n].exists
                  \/ pc[q] = "UnreserveWrite" /\ node[q] = n
<1>1. ASSUME LedgerInv, Next PROVE Kept
  <2> SUFFICES ASSUME NEW q \in Pods, NEW n \in Nodes, HasEntry(q, n),
                      ~HasEntry(q, n)', ledger'[n].exists
               PROVE  pc[q] = "UnreserveWrite" /\ node[q] = n
    OBVIOUS
  <2> USE <1>1 DEF LedgerInv
  <2>1. ASSUME ledger' = ledger PROVE FALSE
    BY <2>1 DEF HasEntry
  <2>2. ASSUME NEW p \in Pods, ReserveWrite(p) PROVE FALSE
    BY <2>2, ReserveWrites, KeyIsName, LedgerType
       DEF HasEntry, Upsert, DistinctKeys, TypeOK
  <2>3. ASSUME NEW p \in Pods, UnreserveDelete(p) PROVE FALSE
    BY <2>3 DEF UnreserveDelete, Put, Absent, HasEntry, TypeOK
  <2>4. ASSUME NEW p \in Pods, UnreserveUpdate(p)
        PROVE  pc[q] = "UnreserveWrite" /\ node[q] = n
    <3>1. p = q /\ n = node[p]
      BY <2>4, UnreserveWrites, KeyIsName, LedgerType
         DEF HasEntry, Remove, DistinctKeys, TypeOK
    <3> QED
      BY <2>4, <3>1 DEF UnreserveUpdate
  <2>5. ASSUME NEW p \in Pods, QuietStep(p) PROVE FALSE
    BY <2>1, <2>5, QuietSteps
  <2>6. (\A p \in Pods : ~ReserveGet(p) /\ ~UnreserveGet(p))
        /\ (\A m \in Nodes : ~StatusUpdate(m)) /\ ~SchedulerRestart
    BY <2>1 DEF ReserveGet, UnreserveGet, StatusUpdate, SchedulerRestart
  <2> QED
    BY <2>2, <2>3, <2>4, <2>5, <2>6, StepCases
<1>2. LedgerInv /\ [Next]_vars => [Kept]_vars
  BY <1>1
<1> QED
  BY <1>2, LedgerInvariant, PTL DEF Spec, OthersKept

-----------------------------------------------------------------------------
(* Refinement. *)

\* A quiet step lets p enter a node or leave it, or leaves it where it is.
LEMMA QuietMoves ==
  ASSUME TypeOK, NEW p \in Pods, QuietStep(p)
  PROVE  \/ node' = node
         \/ node' = [node EXCEPT ![p] = NoNode]
         \/ node[p] = NoNode /\ \E n \in Nodes : node' = [node EXCEPT ![p] = n]
<1>1. CASE ReserveConflict(p) \/ ReserveError(p) \/ BindSucceeds(p) \/ BindFails(p)
  BY <1>1 DEF ReserveConflict, ReserveError, RetryOnConflict, ReserveFails, BindSucceeds, BindFails
<1>2. CASE UnreserveNotFound(p) \/ UnreserveError(p) \/ UnreserveConflict(p)
  BY <1>2 DEF UnreserveNotFound, UnreserveError, UnreserveConflict, RetryOnConflict,
              UnreserveGivesUp, UnreserveReturns
<1>3. CASE PodDeleted(p)
  BY <1>3 DEF PodDeleted
<1>4. CASE \E n \in Nodes : StartReserve(p, n)
  BY <1>4 DEF StartReserve, TypeOK
<1> QED
  BY <1>1, <1>2, <1>3, <1>4 DEF QuietStep

\* A step that writes no ledger leaves the reservations as they are.
LEMMA SameLedgerSameHeld ==
  ASSUME ledger' = ledger PROVE Held' = Held
BY DEF Held, HasEntry

\* The write of Reserve adds p where it is, and changes nothing else.
LEMMA ReserveAdds ==
  ASSUME DistinctKeys, LedgerInv, NEW p \in Pods, ReserveWrite(p)
  PROVE  Held' = [Held EXCEPT ![node[p]] = @ \cup {p}]
<1>1. /\ node[p] \in Nodes
      /\ ledger' = [ledger EXCEPT ![node[p]] =
           [exists |-> TRUE, workloads |-> Upsert(ledger[node[p]].workloads, p)]]
  BY ReserveWrites
<1>2. ASSUME NEW q \in Pods, NEW n \in Nodes
      PROVE  HasEntry(q, n)' <=> HasEntry(q, n) \/ (q = p /\ n = node[p])
  BY <1>1, KeyIsName, LedgerType DEF HasEntry, Upsert, DistinctKeys, LedgerInv, TypeOK
<1> QED
  BY <1>1, <1>2 DEF Held

\* The Update of Unreserve takes p out, and changes nothing else.
LEMMA UpdateRemoves ==
  ASSUME DistinctKeys, LedgerInv, NEW p \in Pods, UnreserveUpdate(p)
  PROVE  Held' = [Held EXCEPT ![node[p]] = @ \ {p}]
<1>1. /\ node[p] \in Nodes
      /\ ledger' = [ledger EXCEPT ![node[p]] =
           [exists |-> TRUE, workloads |-> Remove(ledger[node[p]].workloads, p)]]
  BY UnreserveWrites
<1>2. ASSUME NEW q \in Pods, NEW n \in Nodes
      PROVE  HasEntry(q, n)' <=> HasEntry(q, n) /\ ~(q = p /\ n = node[p])
  BY <1>1, KeyIsName, LedgerType, LedgerAssumption
     DEF HasEntry, Remove, DistinctKeys, LedgerInv, TypeOK
<1> QED
  BY <1>1, <1>2 DEF Held

\* The Delete of Unreserve takes everything out that is on the node.
LEMMA DeleteClears ==
  ASSUME LedgerInv, NEW p \in Pods, UnreserveDelete(p)
  PROVE  node[p] \in Nodes /\ Held' = [Held EXCEPT ![node[p]] = {}]
<1>1. node[p] \in Nodes /\ ledger' = [ledger EXCEPT ![node[p]] = Absent]
  BY DEF UnreserveDelete, Put, LedgerInv, TypeOK
<1>2. ASSUME NEW q \in Pods, NEW n \in Nodes
      PROVE  HasEntry(q, n)' <=> HasEntry(q, n) /\ n # node[p]
  BY <1>1, KeyIsName, LedgerAssumption DEF HasEntry, Absent, NoEntries, LedgerInv, TypeOK
<1> QED
  BY <1>1, <1>2 DEF Held

\* The ledgers implement the store of reservations, for any number of pods and
\* nodes, if the keys tell the pods apart: every step of the scheduler, the
\* agents and the API server is a step of the store or changes nothing in it.
THEOREM LedgerIsStore ==
  ASSUME DistinctKeys
  PROVE  Spec => ImplementsStore
<1>1. Init => Store!Init
  <2> SUFFICES ASSUME Init PROVE Store!Init
    OBVIOUS
  <2>1. \A p \in Pods, n \in Nodes : ~HasEntry(p, n)
    BY KeyIsName, LedgerAssumption DEF Init, HasEntry, Absent, NoEntries
  <2> QED
    BY <2>1 DEF Init, Held, Store!Init
<1>2. ASSUME LedgerInv, Next PROVE Store!Next \/ UNCHANGED <<Held, node>>
  <2> USE <1>2
  <2> TypeOK
    BY DEF LedgerInv
  <2>1. ASSUME NEW p \in Pods, QuietStep(p) PROVE Store!Next \/ UNCHANGED <<Held, node>>
    <3>1. Held' = Held
      BY <2>1, QuietSteps, SameLedgerSameHeld
    <3>2. CASE node' = node
      BY <3>1, <3>2
    <3>3. CASE node' = [node EXCEPT ![p] = NoNode]
      <4>1. node' = [q \in Pods |-> IF q \in {p} THEN NoNode ELSE node[q]]
        BY <3>3 DEF TypeOK
      <4>2. Store!Leave({p})
        BY <3>1, <4>1 DEF Store!Leave
      <4> QED
        BY <4>2 DEF Store!Next
    <3>4. ASSUME NEW n \in Nodes, node[p] = NoNode, node' = [node EXCEPT ![p] = n]
          PROVE  Store!Next
      BY <3>1, <3>4 DEF Store!Next, Store!Enter
    <3> QED
      BY <2>1, <3>2, <3>3, <3>4, QuietMoves
  <2>2. ASSUME NEW p \in Pods, ReserveGet(p) \/ UnreserveGet(p) PROVE UNCHANGED <<Held, node>>
    BY <2>2, SameLedgerSameHeld DEF ReserveGet, UnreserveGet
  <2>3. ASSUME NEW p \in Pods, ReserveWrite(p) PROVE Store!Next
    <3>1. node' = node /\ node[p] \in Nodes
      BY <2>3, ReserveWrites DEF ReserveWrite, ReserveSucceeds, ReserveFails
    <3>2. Store!Reserve(p)
      BY <2>3, <3>1, ReserveAdds, LedgerAssumption DEF Store!Reserve
    <3> QED
      BY <3>2 DEF Store!Next
  <2>4. ASSUME NEW p \in Pods, UnreserveDelete(p) PROVE Store!Next
    <3>1. node' = [node EXCEPT ![p] = NoNode]
      BY <2>4 DEF UnreserveDelete, UnreserveReturns
    <3>2. Store!Clear(p)
      BY <2>4, <3>1, DeleteClears, LedgerAssumption DEF Store!Clear
    <3> QED
      BY <3>2 DEF Store!Next
  <2>5. ASSUME NEW p \in Pods, UnreserveUpdate(p) PROVE Store!Next
    <3>1. node' = [node EXCEPT ![p] = NoNode] /\ node[p] \in Nodes
      BY <2>5, UnreserveWrites DEF UnreserveUpdate, UnreserveReturns
    <3>2. Store!Withdraw(p)
      BY <2>5, <3>1, UpdateRemoves, LedgerAssumption DEF Store!Withdraw
    <3> QED
      BY <3>2 DEF Store!Next
  <2>6. ASSUME NEW n \in Nodes, StatusUpdate(n) PROVE UNCHANGED <<Held, node>>
    BY <2>6, SameLedgerSameHeld DEF StatusUpdate
  <2>7. CASE SchedulerRestart
    <3> DEFINE gone == {p \in Pods : pc[p] \notin {"Queued", "Bound"}}
    <3>1. Store!Leave(gone)
      BY <2>7, SameLedgerSameHeld DEF SchedulerRestart, Store!Leave
    <3>2. gone \in SUBSET Pods
      OBVIOUS
    <3> HIDE DEF gone
    <3> QED
      BY <3>1, <3>2 DEF Store!Next
  <2> QED
    BY <2>1, <2>2, <2>3, <2>4, <2>5, <2>6, <2>7, StepCases
<1>3. UNCHANGED vars => UNCHANGED <<Held, node>>
  BY SameLedgerSameHeld DEF vars
<1>4. LedgerInv /\ [Next]_vars => [Store!Next]_(Store!vars)
  BY <1>2, <1>3 DEF Store!vars
<1> QED
  BY <1>1, <1>4, LedgerInvariant, PTL DEF Spec, ImplementsStore, Store!Spec

=============================================================================
