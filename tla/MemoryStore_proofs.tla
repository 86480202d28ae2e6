--------------------------- MODULE MemoryStore_proofs ---------------------------
(***************************************************************************)
(* What the versioned Memory promises, for any number of builds and        *)
(* evaluations and whatever the consolidator answers: the snapshots are    *)
(* one chain, their evidence is earned, the answers of builds are true and *)
(* the advice of an evaluation is of the snapshot it has pinned.           *)
(*                                                                         *)
(* Nothing locks the store, so the argument is about what a process knows  *)
(* at each of its steps (ProcessInv, BuildInv, EvaluationInv) and about    *)
(* who has published each snapshot (SnapshotInv): a process that finds its *)
(* number free has listed exactly the snapshots below it.                  *)
(***************************************************************************)
EXTENDS MemoryStore, FiniteSetTheorems, SequenceTheorems, TLAPS

\* the numbers of the snapshots have no gap
ChainInv == \E k \in 0 .. MaxSnapshots : Listed = 1 .. k

ProcessInv ==
  \A p \in Processes :
    /\ pc[p] \in {"pool", "latest", "raced", "pin"} => parent[p] = 0
    /\ pc[p] \in {"consolidate", "answer"} => p \in Builds /\ parent[p] # 0
    /\ pc[p] = "turns" => p \in Evaluations /\ parent[p] # 0
    /\ pc[p] \in Publishing /\ parent[p] # 0 => p \in Builds
    /\ parent[p] = 0 => draft[p] = NoItems
    /\ parent[p] # 0 => parent[p] \in Listed
    /\ pc[p] \in Publishing \ {"list"} => next[p] = parent[p] + 1 /\ next[p] \in Numbers
    /\ pc[p] \in {"manifest", "rename"} =>
         staging[p] = [parent |-> parent[p], by |-> p, items |-> draft[p],
                       manifest |-> pc[p] = "rename"]
    /\ pc[p] = "load" => next[p] \in Listed /\ snapshots[next[p]].by = p

\* new is what the recorded operations of b make of old, and they are in order
Consolidated(new, old, b) ==
  /\ new = Applied(operations[b], pool[b], old)
  /\ HandledOnce(operations[b], pool[b])
  /\ \A i \in DOMAIN operations[b] :
       operations[b][i].operation \in Adding => Destination(operations[b], i, old) \in Ids

BuildInv ==
  \A b \in Builds :
    /\ \A f \in scan[b] : f.number \in DOMAIN Summaries[f.batch]
    /\ \A f \in sources[b] : f.seen = "whole"
    /\ pc[b] \in Publishing /\ parent[b] # 0 =>
         Consolidated(draft[b], snapshots[parent[b]].items, b)
    /\ answer[b] # "none" => pc[b] \in {"answer"} \cup Stopped
    /\ answer[b] = "PUBLISHED" => parent[b] + 1 \in PublishedBy(b)

\* a snapshot was published by a build that has not begun anything else since
WellPublished(n) ==
  /\ snapshots[n].manifest /\ snapshots[n].parent = n - 1
  /\ n = 1 => snapshots[n].items = NoItems
  /\ n > 1 => LET b == snapshots[n].by
              IN  /\ b \in Builds /\ parent[b] = n - 1
                  /\ pc[b] \in {"load", "answer", "done", "failed"}
                  /\ Consolidated(snapshots[n].items, snapshots[n - 1].items, b)

SnapshotInv == \A n \in Listed : WellPublished(n)

EvaluationInv ==
  \A e \in Evaluations :
    /\ Mode[e] = "frozen" => pc[e] \in {"pin", "turns"} \cup Stopped
    /\ Mode[e] = "frozen" /\ parent[e] # 0 => parent[e] = Requested[e]
    /\ parent[e] = 0 => advice[e] = NoItems
    /\ Cardinality(Present(advice[e])) <= MaxSelected
    /\ \A i \in Present(advice[e]) :
         i \in filtered[e] /\ advice[e][i] = snapshots[parent[e]].items[i]

MemoryInv == TypeOK /\ ChainInv /\ ProcessInv /\ BuildInv /\ SnapshotInv /\ EvaluationInv
-----------------------------------------------------------------------------
(* The operators of the store.                                                 *)

LEMMA MaximumOfInterval ==
  ASSUME NEW k \in Nat
  PROVE  Maximum(1 .. k) = k
<1>1. CASE k = 0
  BY <1>1 DEF Maximum
<1>2. CASE k > 0
  <2>1. k \in 1 .. k /\ \A m \in 1 .. k : m <= k
    BY <1>2
  <2>2. ASSUME NEW n \in 1 .. k, \A m \in 1 .. k : m <= n
        PROVE  n = k
    BY <2>1, <2>2
  <2> QED BY <1>2, <2>1, <2>2 DEF Maximum
<1> QED BY <1>1, <1>2

LEMMA LatestIsLast ==
  ASSUME ChainInv
  PROVE  Latest \in 0 .. MaxSnapshots /\ Listed = 1 .. Latest
<1>1. PICK k \in 0 .. MaxSnapshots : Listed = 1 .. k
  BY DEF ChainInv
<1>2. k \in Nat
  BY MemoryAssumption
<1>3. Latest = k
  BY <1>1, <1>2, MaximumOfInterval DEF Latest
<1> QED BY <1>1, <1>3

LEMMA NoItemsType == NoItems \in Items
BY DEF NoItems, Items

(* The Experiences of a pool that operations accept, and what Applied makes of *)
(* them: the evidence of every item is kept, what is added are sources of      *)
(* accepted Experiences, and each accepted one is found where it belongs.      *)
AcceptedIn(answered, experiences) ==
  {experiences[k] : k \in {j \in DOMAIN experiences :
     /\ \E i \in DOMAIN answered : j \in answered[i].indexes
     /\ \A i \in DOMAIN answered :
          j \in answered[i].indexes => answered[i].operation \in Adding}}

LEMMA AppliedIsEarned ==
  ASSUME NEW answered \in Seq(OperationRecords), NEW experiences \in Seq(Experiences),
         NEW items \in Items, HandledOnce(answered, experiences)
  PROVE  /\ Applied(answered, experiences, items) \in Items
         /\ \A id \in Ids :
              /\ items[id] \subseteq Applied(answered, experiences, items)[id]
              /\ Applied(answered, experiences, items)[id] \ items[id]
                   \subseteq {CaseOf[x] : x \in AcceptedIn(answered, experiences)}
<1>1. ASSUME NEW id \in Ids
      PROVE  EvidenceFor(answered, experiences, id, items)
               \subseteq {CaseOf[x] : x \in AcceptedIn(answered, experiences)}
  <2> SUFFICES ASSUME NEW c \in EvidenceFor(answered, experiences, id, items)
               PROVE  c \in {CaseOf[x] : x \in AcceptedIn(answered, experiences)}
    OBVIOUS
  <2>1. PICK i \in DOMAIN answered : \E k \in answered[i].indexes :
          answered[i].operation \in Adding /\ c = CaseOf[experiences[k]]
    BY DEF EvidenceFor
  <2>2. PICK k \in answered[i].indexes : c = CaseOf[experiences[k]]
    BY <2>1
  <2>3. k \in DOMAIN experiences
    BY <2>2 DEF HandledOnce
  <2>4. \A j \in DOMAIN answered : k \in answered[j].indexes => j = i
    BY <2>2 DEF HandledOnce
  <2>5. experiences[k] \in AcceptedIn(answered, experiences)
    BY <2>1, <2>2, <2>3, <2>4 DEF AcceptedIn
  <2> QED BY <2>2, <2>5
<1>2. \A x \in AcceptedIn(answered, experiences) : CaseOf[x] \in Cases
  BY MemoryAssumption DEF AcceptedIn
<1>3. \A id \in Ids : items[id] \subseteq Cases
  BY DEF Items
<1>4. \A id \in Ids : Applied(answered, experiences, items)[id]
                        = items[id] \cup EvidenceFor(answered, experiences, id, items)
  BY DEF Applied
<1>5. \A id \in Ids : items[id] \cup EvidenceFor(answered, experiences, id, items) \subseteq Cases
  BY <1>1, <1>2, <1>3
<1>6. Applied(answered, experiences, items) \in Items
  BY <1>5 DEF Applied, Items
<1> QED BY <1>1, <1>4, <1>6

LEMMA AcceptedIsFound ==
  ASSUME NEW answered, NEW experiences, NEW items, HandledOnce(answered, experiences),
         \A i \in DOMAIN answered :
           answered[i].operation \in Adding => Destination(answered, i, items) \in Ids,
         NEW k \in DOMAIN experiences
  PROVE  \E i \in DOMAIN answered :
           /\ \A j \in DOMAIN answered : k \in answered[j].indexes <=> i = j
           /\ answered[i].operation \in Adding =>
                CaseOf[experiences[k]]
                  \in Applied(answered, experiences, items)[Destination(answered, i, items)]
<1>1. PICK i \in DOMAIN answered : k \in answered[i].indexes
  BY DEF HandledOnce
<1>2. \A j \in DOMAIN answered : k \in answered[j].indexes <=> i = j
  BY <1>1 DEF HandledOnce
<1>3. ASSUME answered[i].operation \in Adding
      PROVE  CaseOf[experiences[k]]
               \in Applied(answered, experiences, items)[Destination(answered, i, items)]
  <2> DEFINE id == Destination(answered, i, items)
  <2>1. id \in Ids
    BY <1>3
  <2>2. CaseOf[experiences[k]] \in EvidenceFor(answered, experiences, id, items)
    BY <1>1, <1>3 DEF EvidenceFor
  <2> HIDE DEF id
  <2>3. CaseOf[experiences[k]] \in Applied(answered, experiences, items)[id]
    BY <2>1, <2>2 DEF Applied
  <2> QED BY <2>3 DEF id
<1> QED BY <1>1, <1>2, <1>3

LEMMA RepairedType ==
  ASSUME NEW answered \in Seq(OperationRecords)
  PROVE  Repaired(answered) \in Seq(OperationRecords)
<1> DEFINE r(i) == IF answered[i].operation \in {"ADD", "MERGE"} /\ answered[i].draft = "forbidden"
                   THEN [answered[i] EXCEPT !.operation = "REJECT"] ELSE answered[i]
<1>1. \A i \in 1 .. Len(answered) : r(i) \in OperationRecords
  <2> TAKE i \in 1 .. Len(answered)
  <2>1. answered[i] \in OperationRecords
    OBVIOUS
  <2>2. [answered[i] EXCEPT !.operation = "REJECT"] \in OperationRecords
    BY <2>1 DEF OperationRecords, Operations
  <2> QED BY <2>1, <2>2
<1>2. Repaired(answered) = [i \in 1 .. Len(answered) |-> r(i)] /\ Len(answered) \in Nat
  BY DEF Repaired
<1> HIDE DEF r
<1>3. [i \in 1 .. Len(answered) |-> r(i)] \in [1 .. Len(answered) -> OperationRecords]
  BY <1>1
<1>4. \A m \in Nat : \A f \in [1 .. m -> OperationRecords] : f \in Seq(OperationRecords)
  OBVIOUS
<1> QED BY <1>2, <1>3, <1>4

LEMMA InitMemoryInv == Init => MemoryInv
<1> SUFFICES ASSUME Init PROVE MemoryInv
  OBVIOUS
<1> USE MemoryAssumption, NoItemsType DEF Init
<1>1. Listed = {}
  BY DEF Listed
<1>2. TypeOK
  BY DEF TypeOK, Steps, Statuses
<1>3. ChainInv
  <2>1. 0 \in 0 .. MaxSnapshots /\ 1 .. 0 = {}
    OBVIOUS
  <2> QED BY <1>1, <2>1 DEF ChainInv
<1>4. ProcessInv
  BY <1>1 DEF ProcessInv, Publishing
<1>5. BuildInv /\ SnapshotInv
  BY <1>1 DEF BuildInv, SnapshotInv, WellPublished, Processes, Publishing
<1>6. EvaluationInv
  <2>1. Present(NoItems) = {} /\ Cardinality({}) = 0
    BY FS_EmptySet DEF Present, NoItems
  <2>2. \A e \in Evaluations : /\ advice[e] = NoItems /\ parent[e] = 0
                               /\ Mode[e] = "frozen" => pc[e] = "pin"
    BY DEF Processes
  <2>3. 0 <= MaxSelected
    OBVIOUS
  <2> QED BY <2>1, <2>2, <2>3 DEF EvaluationInv
<1> QED BY <1>2, <1>3, <1>4, <1>5, <1>6 DEF MemoryInv
-----------------------------------------------------------------------------
(* Steps that leave the snapshots alone.                                       *)

LEMMA SnapshotsKept ==
  ASSUME UNCHANGED snapshots, ChainInv
  PROVE  ChainInv' /\ Listed' = Listed /\ Latest' = Latest
         /\ \A b \in Builds : PublishedBy(b)' = PublishedBy(b)
<1>1. Listed' = Listed
  BY DEF Listed
<1> QED BY <1>1 DEF ChainInv, Latest, PublishedBy

(* A process stops.                                                            *)
LEMMA StopKeepsMemoryInv ==
  ASSUME MemoryInv, NEW p \in Processes, NEW s \in Stopped, pc[p] \in Steps, Goto(p, s),
         UNCHANGED <<snapshots, build, evaluation, publication>>
  PROVE  MemoryInv'
<1> USE MemoryAssumption DEF Goto, build, loading, evaluation, publication, MemoryInv
<1>1. /\ ChainInv' /\ Listed' = Listed
      /\ \A b \in Builds : PublishedBy(b)' = PublishedBy(b)
  BY SnapshotsKept
<1>2. TypeOK'
  BY DEF TypeOK
<1>3. ProcessInv'
  BY <1>1 DEF ProcessInv, Stopped, Publishing, TypeOK
<1>4. BuildInv'
  BY <1>1 DEF BuildInv, Stopped, Publishing, TypeOK, Consolidated, Processes
<1>5. SnapshotInv'
  BY <1>1 DEF SnapshotInv, WellPublished, Stopped, TypeOK, Consolidated, Processes
<1>6. EvaluationInv'
  BY <1>1 DEF EvaluationInv, Stopped, TypeOK, Processes
<1> QED BY <1>1, <1>2, <1>3, <1>4, <1>5, <1>6

(* A publication or a consolidation fails, whatever has been published by then. *)
LEMMA FailureKeepsMemoryInv ==
  ASSUME MemoryInv, NEW p \in Processes, pc[p] \in Publishing \cup {"consolidate"}, Failing(p),
         UNCHANGED <<snapshots, evaluation, parent, draft, next>>,
         staging' = staging \/ staging' = [staging EXCEPT ![p] = None]
  PROVE  MemoryInv'
<1> USE MemoryAssumption
    DEF Goto, loading, evaluation, MemoryInv, Failing, Initial, AfterFailure
<1>1. /\ ChainInv' /\ Listed' = Listed
      /\ \A b \in Builds : PublishedBy(b)' = PublishedBy(b)
  BY SnapshotsKept
<1>2. pc' = [pc EXCEPT ![p] = IF parent[p] = 0 THEN "raced" ELSE "answer"]
  OBVIOUS
<1>3. parent[p] # 0 => p \in Builds
  BY DEF ProcessInv
<1>4. answer' = IF parent[p] # 0 THEN [answer EXCEPT ![p] = "FAILED"] ELSE answer
  BY <1>3
<1>5. TypeOK'
  BY <1>2, <1>4 DEF TypeOK, Steps, Statuses
<1>6. ProcessInv'
  BY <1>1, <1>2, <1>3 DEF ProcessInv, Publishing, TypeOK
<1>7. BuildInv'
  BY <1>1, <1>2, <1>3, <1>4 DEF BuildInv, Stopped, Publishing, TypeOK, Consolidated, Processes
<1>8. SnapshotInv'
  <2> SUFFICES ASSUME NEW n \in Listed, n > 1
               PROVE  pc'[snapshots[n].by] \in {"load", "answer", "done", "failed"}
    BY <1>1 DEF SnapshotInv, WellPublished, Consolidated
  <2>1. /\ snapshots[n].by \in Builds /\ parent[snapshots[n].by] = n - 1
        /\ pc[snapshots[n].by] \in {"load", "answer", "done", "failed"}
    BY DEF SnapshotInv, WellPublished
  <2>2. n - 1 # 0
    BY DEF Listed, Numbers
  <2> QED BY <1>2, <2>1, <2>2 DEF TypeOK, Processes
<1>9. EvaluationInv'
  <2>1. ASSUME NEW e \in Evaluations, Mode[e] = "frozen"
        PROVE  e # p
    BY <2>1 DEF EvaluationInv, Publishing, Stopped
  <2> QED BY <1>2, <2>1 DEF EvaluationInv, TypeOK, Processes
<1> QED BY <1>1, <1>5, <1>6, <1>7, <1>8, <1>9

LEMMA FailuresMemoryInv ==
  ASSUME MemoryInv, NEW p \in Processes,
         ListFails(p) \/ LoadPublishedFails(p) \/ WriteFails(p)
           \/ (p \in Builds /\ ConsolidateFails(p))
  PROVE  MemoryInv'
<1> USE DEF publication, Publishing
<1>1. CASE ListFails(p)
  BY <1>1, FailureKeepsMemoryInv DEF ListFails
<1>2. CASE LoadPublishedFails(p)
  BY <1>2, FailureKeepsMemoryInv DEF LoadPublishedFails
<1>3. CASE WriteFails(p)
  BY <1>3, FailureKeepsMemoryInv DEF WriteFails
<1>4. CASE p \in Builds /\ ConsolidateFails(p)
  BY <1>4, FailureKeepsMemoryInv DEF ConsolidateFails
<1> QED BY <1>1, <1>2, <1>3, <1>4

LEMMA StopsMemoryInv ==
  ASSUME MemoryInv, NEW p \in Processes,
         \/ LoadLatestFails(p) \/ Dies(p)
         \/ p \in Builds /\ (LoadPoolFails(p) \/ WriteAnswer(p) \/ WriteAnswerFails(p))
         \/ p \in Evaluations /\ (PinFails(p) \/ EndEvaluation(p))
  PROVE  MemoryInv'
<1>1. \E s \in Stopped : Goto(p, s)
  BY DEF LoadLatestFails, Dies, LoadPoolFails, WriteAnswer, WriteAnswerFails, PinFails,
     EndEvaluation, Stopped
<1>2. pc[p] \in Steps /\ UNCHANGED <<snapshots, build, evaluation, publication>>
  BY DEF LoadLatestFails, Dies, LoadPoolFails, WriteAnswer, WriteAnswerFails, PinFails,
     EndEvaluation, Steps
<1> QED BY <1>1, <1>2, StopKeepsMemoryInv

LEMMA Manifested ==
  ASSUME NEW a, NEW b, NEW c
  PROVE  [[parent |-> a, by |-> b, items |-> c, manifest |-> FALSE] EXCEPT !.manifest = TRUE]
           = [parent |-> a, by |-> b, items |-> c, manifest |-> TRUE]
<1>1. \A t, f : [[parent |-> a, by |-> b, items |-> c, manifest |-> f] EXCEPT !.manifest = t]
                 = [parent |-> a, by |-> b, items |-> c, manifest |-> t]
  OBVIOUS
<1> QED BY <1>1, Zenon

(* The steps of a publication before its rename.                               *)
LEMMA WritingMemoryInv ==
  ASSUME MemoryInv, NEW p \in Processes,
         PublishInitial(p) \/ List(p) \/ WriteItems(p) \/ WriteManifest(p)
  PROVE  MemoryInv'
<1> USE MemoryAssumption DEF Goto, build, loading, evaluation, publication, MemoryInv
<1>1. /\ UNCHANGED <<snapshots, files, batches, scan, sources, pool, operations, parent, draft,
                     answer, filtered, advice>>
      /\ \E s \in {"list", "items", "manifest", "rename"} : pc' = [pc EXCEPT ![p] = s]
      /\ pc[p] \in {"latest", "list", "items", "manifest"}
  BY DEF PublishInitial, List, WriteItems, WriteManifest
<1>2. /\ ChainInv' /\ Listed' = Listed
      /\ \A b \in Builds : PublishedBy(b)' = PublishedBy(b)
  BY <1>1, SnapshotsKept
<1>3. TypeOK'
  <2>1. pc' \in [Processes -> Steps \cup Stopped]
    BY <1>1 DEF TypeOK, Steps, Publishing
  <2>2. next' \in [Processes -> 0 .. MaxSnapshots]
    BY LatestIsLast DEF PublishInitial, List, WriteItems, WriteManifest, TypeOK
  <2>3. staging' \in [Processes -> Snapshots \cup {None}]
    <3>1. CASE WriteItems(p)
      BY <3>1 DEF WriteItems, TypeOK, Snapshots
    <3>2. CASE WriteManifest(p)
      <4>1. staging[p] \in Snapshots
        <5>1. staging[p] = [parent |-> parent[p], by |-> p, items |-> draft[p], manifest |-> FALSE]
          BY <3>2 DEF WriteManifest, ProcessInv
        <5> QED BY <5>1 DEF TypeOK, Snapshots
      <4>2. [staging[p] EXCEPT !.manifest = TRUE] \in Snapshots
        BY <4>1 DEF Snapshots
      <4> QED BY <3>2, <4>2 DEF WriteManifest, TypeOK
    <3> QED BY <3>1, <3>2 DEF PublishInitial, List, TypeOK
  <2> QED BY <1>1, <2>1, <2>2, <2>3 DEF TypeOK
<1>4. ProcessInv'
  <2>1. CASE PublishInitial(p)
    BY <1>2, <2>1 DEF PublishInitial, ProcessInv, Publishing, TypeOK
  <2>2. CASE List(p)
    <3>1. Latest + 1 \in Numbers
      BY <2>2, LatestIsLast DEF List, Numbers
    <3> QED BY <1>2, <2>2, <3>1 DEF List, ParentIsLatest, ProcessInv, Publishing, TypeOK
  <2>3. CASE WriteItems(p)
    BY <1>2, <2>3 DEF WriteItems, ProcessInv, Publishing, TypeOK
  <2>4. CASE WriteManifest(p)
    <3>1. staging[p] = [parent |-> parent[p], by |-> p, items |-> draft[p], manifest |-> FALSE]
      BY <2>4 DEF WriteManifest, ProcessInv
    <3>2. [staging[p] EXCEPT !.manifest = TRUE]
            = [parent |-> parent[p], by |-> p, items |-> draft[p], manifest |-> TRUE]
      BY <3>1, Manifested
    <3>3. /\ staging'[p] = [staging[p] EXCEPT !.manifest = TRUE]
          /\ \A q \in Processes \ {p} : staging'[q] = staging[q]
      BY <2>4 DEF WriteManifest, TypeOK
    <3>4. /\ pc'[p] = "rename" /\ \A q \in Processes \ {p} : pc'[q] = pc[q]
          /\ UNCHANGED <<snapshots, parent, draft, next>> /\ pc[p] = "manifest"
      BY <2>4 DEF WriteManifest, TypeOK
    <3> HIDE DEF Goto
    <3>5. staging'[p] = [parent |-> parent'[p], by |-> p, items |-> draft'[p],
                         manifest |-> pc'[p] = "rename"]
      BY <3>2, <3>3, <3>4
    <3>6. ASSUME NEW q \in Processes \ {p}
          PROVE  /\ staging'[q] = staging[q] /\ pc'[q] = pc[q] /\ parent'[q] = parent[q]
                 /\ draft'[q] = draft[q] /\ next'[q] = next[q]
      BY <3>3, <3>4
    <3>7. /\ parent'[p] = 0 => draft'[p] = NoItems
          /\ parent'[p] # 0 => parent'[p] \in Listed' /\ p \in Builds
          /\ next'[p] = parent'[p] + 1 /\ next'[p] \in Numbers
      BY <1>2, <3>4 DEF ProcessInv, Publishing
    <3> HIDE DEF MemoryInv
    <3>8. \A q \in Processes : q = p \/ q \in Processes \ {p}
      OBVIOUS
    <3>9. ProcessInv
      BY DEF MemoryInv
    <3> HIDE MemoryAssumption
    <3> QED BY <1>2, <3>4, <3>5, <3>6, <3>7, <3>8, <3>9, SMTT(30) DEF ProcessInv, Publishing
  <2> QED BY <2>1, <2>2, <2>3, <2>4
<1>5. BuildInv'
  <2>1. pc[p] = "latest" => parent[p] = 0
    BY DEF ProcessInv
  <2> QED BY <1>1, <1>2, <2>1 DEF BuildInv, Stopped, Publishing, TypeOK, Consolidated, Processes
<1>6. SnapshotInv'
  BY <1>1, <1>2 DEF SnapshotInv, WellPublished, TypeOK, Consolidated, Processes
<1>7. EvaluationInv'
  BY <1>1 DEF EvaluationInv, TypeOK, Processes, Stopped
<1> QED BY <1>2, <1>3, <1>4, <1>5, <1>6, <1>7
-----------------------------------------------------------------------------
(* The rename that publishes: the number it finds free is the first one free,  *)
(* because the snapshot it was counted from is there.                          *)
LEMMA FreeNumberIsNext ==
  ASSUME MemoryInv, NEW p \in Processes, Rename(p)
  PROVE  /\ Latest + 1 \in Numbers /\ next[p] = Latest + 1 /\ parent[p] = Latest
         /\ staging[p] = [parent |-> Latest, by |-> p, items |-> draft[p], manifest |-> TRUE]
         /\ staging[p] \in Snapshots
         /\ Listed' = Listed \cup {Latest + 1}
         /\ \A n \in Listed : snapshots'[n] = snapshots[n]
         /\ snapshots'[Latest + 1] = staging[p]
<1> USE MemoryAssumption DEF Rename, MemoryInv
<1>1. Latest \in 0 .. MaxSnapshots /\ Listed = 1 .. Latest
  BY LatestIsLast
<1>2. pc[p] = "rename" /\ next[p] = parent[p] + 1 /\ next[p] \in Numbers
  BY DEF ProcessInv, Publishing
<1>3. next[p] \notin Listed
  BY <1>2 DEF Free, Listed
<1>4. parent[p] = 0 \/ parent[p] \in Listed
  BY DEF ProcessInv
<1>5. parent[p] = Latest
  BY <1>1, <1>2, <1>3, <1>4 DEF Numbers
<1>6. staging[p] = [parent |-> Latest, by |-> p, items |-> draft[p], manifest |-> TRUE]
  BY <1>2, <1>5 DEF ProcessInv
<1>7. staging[p] \in Snapshots /\ staging[p] # None
  <2>1. draft[p] \in Items
    BY DEF TypeOK
  <2>2. staging[p] \in Snapshots
    BY <1>1, <1>6, <2>1 DEF Snapshots
  <2> QED BY <2>2
<1>8. snapshots' = [snapshots EXCEPT ![Latest + 1] = staging[p]]
  BY <1>2, <1>5
<1>9. /\ snapshots'[Latest + 1] = staging[p]
      /\ \A n \in Numbers : n # Latest + 1 => snapshots'[n] = snapshots[n]
  BY <1>2, <1>5, <1>8 DEF TypeOK
<1>10. Listed' = Listed \cup {Latest + 1}
  BY <1>2, <1>5, <1>7, <1>9 DEF Listed
<1> QED BY <1>2, <1>3, <1>5, <1>6, <1>7, <1>9, <1>10 DEF Listed

LEMMA RenameMemoryInv ==
  ASSUME MemoryInv, NEW p \in Processes, Rename(p)
  PROVE  MemoryInv'
<1> USE MemoryAssumption DEF MemoryInv
<1>0. PICK n \in Numbers : n = Latest + 1
  BY FreeNumberIsNext
<1>1. /\ n \in Numbers /\ next[p] = n /\ parent[p] = n - 1
      /\ staging[p] = [parent |-> n - 1, by |-> p, items |-> draft[p], manifest |-> TRUE]
      /\ staging[p] \in Snapshots
      /\ Listed' = Listed \cup {n} /\ Listed = 1 .. n - 1 /\ n \notin Listed
      /\ \A m \in Listed : snapshots'[m] = snapshots[m]
      /\ snapshots'[n] = staging[p]
  BY <1>0, FreeNumberIsNext, LatestIsLast
<1>2. /\ snapshots' = [snapshots EXCEPT ![n] = staging[p]]
      /\ staging' = [staging EXCEPT ![p] = None]
      /\ pc' = [pc EXCEPT ![p] = "load"] /\ pc[p] = "rename"
      /\ UNCHANGED <<files, batches, scan, sources, pool, operations, parent, draft, next,
                     answer, filtered, advice>>
  BY <1>1 DEF Rename, Goto, build, loading, evaluation
<1>3. TypeOK'
  BY <1>1, <1>2 DEF TypeOK, Steps, Publishing
<1>4. ChainInv'
  <2>1. Listed' = 1 .. n /\ n \in 0 .. MaxSnapshots
    BY <1>1 DEF Numbers
  <2> QED BY <2>1 DEF ChainInv
<1>5. ProcessInv'
  <2>1. next'[p] \in Listed' /\ snapshots'[next'[p]].by = p
    BY <1>1, <1>2
  <2> QED BY <1>1, <1>2, <2>1 DEF ProcessInv, Publishing, TypeOK
<1>6. \A m \in Listed : m > 1 => snapshots[m].by # p
  BY <1>2 DEF SnapshotInv, WellPublished
<1>7. p \in Builds /\ n > 1 => Consolidated(draft[p], snapshots[n - 1].items, p)
  <2>1. n > 1 => parent[p] # 0 /\ pc[p] \in Publishing
    BY <1>1, <1>2 DEF Publishing, Numbers
  <2>2. p \in Builds /\ n > 1 => Consolidated(draft[p], snapshots[parent[p]].items, p)
    BY <2>1 DEF BuildInv
  <2> QED BY <1>1, <2>2
<1>8. BuildInv'
  <2>1. \A b \in Builds : b # p => PublishedBy(b)' = PublishedBy(b)
    BY <1>1 DEF PublishedBy
  <2>2. p \in Builds => answer[p] = "none"
    BY <1>2 DEF BuildInv, Stopped
  <2>3. \A b \in Builds : parent[b] # 0 => snapshots'[parent[b]] = snapshots[parent[b]]
    BY <1>1 DEF ProcessInv, Processes
  <2> QED BY <1>2, <2>1, <2>2, <2>3
        DEF BuildInv, Stopped, Publishing, TypeOK, Consolidated, Processes
<1>9. SnapshotInv'
  <2>1. ASSUME NEW m \in Listed
        PROVE  WellPublished(m)'
    <3>1. m > 1 => m - 1 \in Listed
      BY <1>1 DEF Numbers
    <3>2. snapshots'[m] = snapshots[m] /\ (m > 1 => snapshots'[m - 1] = snapshots[m - 1])
      BY <1>1, <3>1
    <3>3. m > 1 => snapshots[m].by \in Builds /\ pc'[snapshots[m].by] = pc[snapshots[m].by]
      BY <1>2, <1>6 DEF SnapshotInv, WellPublished, TypeOK, Processes
    <3> QED BY <1>2, <3>2, <3>3 DEF SnapshotInv, WellPublished, Consolidated
  <2>2. WellPublished(n)'
    <3>1. /\ snapshots'[n].manifest /\ snapshots'[n].parent = n - 1
          /\ snapshots'[n].items = draft[p] /\ snapshots'[n].by = p
      BY <1>1
    <3>2. /\ parent[p] = 0 => draft[p] = NoItems
          /\ parent[p] # 0 => p \in Builds /\ parent[p] \in Listed
      BY <1>2 DEF ProcessInv, Publishing
    <3>3. n \in Int
      BY <1>1 DEF Numbers
    <3>4. pc'[p] = "load"
      BY <1>2 DEF TypeOK
    <3>5. n > 1 => p \in Builds /\ snapshots'[n - 1] = snapshots[n - 1]
      BY <1>1, <3>2, <3>3
    <3>6. n = 1 => draft[p] = NoItems
      BY <1>1, <3>2, <3>3
    <3>7. n > 1 => Consolidated(draft[p], snapshots[n - 1].items, p)
      BY <1>7, <3>5
    <3>8. n > 1 => Consolidated(snapshots'[n].items, snapshots'[n - 1].items, p)
      BY <3>1, <3>5, <3>7
    <3>9. n = 1 => snapshots'[n].items = NoItems
      BY <3>1, <3>6
    <3>10. parent'[p] = n - 1 /\ pool' = pool /\ operations' = operations
      BY <1>1, <1>2
    <3>11. n > 1 => Consolidated(snapshots[n].items, snapshots[n - 1].items, snapshots[n].by)'
      BY <3>1, <3>8, <3>10 DEF Consolidated
    <3> QED BY <3>1, <3>4, <3>5, <3>9, <3>10, <3>11 DEF WellPublished
  <2>3. ASSUME NEW m \in Listed'
        PROVE  WellPublished(m)'
    <3>1. m \in Listed \/ m = n
      BY <1>1
    <3> QED BY <2>1, <2>2, <3>1 DEF WellPublished
  <2> QED BY <2>3 DEF SnapshotInv
<1>10. EvaluationInv'
  <2>1. \A e \in Evaluations : parent[e] # 0 => snapshots'[parent[e]] = snapshots[parent[e]]
    BY <1>1 DEF ProcessInv, Processes
  <2>2. Present(NoItems) = {}
    BY DEF NoItems, Present
  <2>3. \A e \in Evaluations : parent[e] = 0 => Present(advice[e]) = {}
    BY <2>2 DEF EvaluationInv
  <2> QED BY <1>2, <2>1, <2>3 DEF EvaluationInv, TypeOK, Processes, Stopped
<1> QED BY <1>3, <1>4, <1>5, <1>8, <1>9, <1>10
-----------------------------------------------------------------------------
(* A process uses a snapshot for the first time.                               *)
LEMMA UseKeepsMemoryInv ==
  ASSUME MemoryInv, NEW p \in Processes, NEW n \in Listed, Use(p, n), parent[p] = 0,
         pc[p] \in {"latest", "raced", "pin", "load"},
         p \in Evaluations /\ Mode[p] = "frozen" => n = Requested[p],
         UNCHANGED <<snapshots, build, evaluation, draft, staging, next>>
  PROVE  MemoryInv'
<1> USE MemoryAssumption DEF MemoryInv, build, loading, evaluation
<1>1. n \in Numbers /\ n # 0 /\ n \in 0 .. MaxSnapshots
  BY DEF Listed, Numbers
<1>2. PICK s \in {"consolidate", "turns", "failed"} :
        /\ pc' = [pc EXCEPT ![p] = s]
        /\ s = "consolidate" => p \in Builds
        /\ s = "turns" => p \in Evaluations
        /\ p \in Evaluations => s # "consolidate"
  <2>1. CASE p \in Builds
    BY <2>1 DEF Use, Goto
  <2>2. CASE p \notin Builds /\ p \in Evaluations /\ MayExtend(p, n)
    BY <2>2 DEF Use, Goto
  <2>3. CASE p \notin Builds /\ ~(p \in Evaluations /\ MayExtend(p, n))
    BY <2>3 DEF Use, Goto
  <2> QED BY <2>1, <2>2, <2>3
<1>3. parent' = [parent EXCEPT ![p] = n]
  BY DEF Use
<1>4. /\ ChainInv' /\ Listed' = Listed
      /\ \A b \in Builds : PublishedBy(b)' = PublishedBy(b)
  BY SnapshotsKept
<1>5. TypeOK'
  BY <1>1, <1>2, <1>3 DEF TypeOK, Steps, Stopped
<1>6. ProcessInv'
  BY <1>1, <1>2, <1>3, <1>4 DEF ProcessInv, Publishing, TypeOK
<1>7. BuildInv'
  <2>1. p \in Builds => answer[p] = "none"
    BY DEF BuildInv, Stopped
  <2> QED BY <1>2, <1>3, <1>4, <2>1 DEF BuildInv, Stopped, Publishing, TypeOK, Consolidated, Processes
<1>8. SnapshotInv'
  <2>1. ASSUME NEW m \in Listed, m > 1
        PROVE  snapshots[m].by # p /\ snapshots[m].by \in Builds
    <3>1. snapshots[m].by \in Builds /\ parent[snapshots[m].by] = m - 1
      BY <2>1 DEF SnapshotInv, WellPublished
    <3>2. m - 1 # 0
      BY <2>1 DEF Listed, Numbers
    <3> QED BY <3>1, <3>2
  <2> QED BY <1>2, <1>3, <1>4, <2>1 DEF SnapshotInv, WellPublished, TypeOK, Consolidated, Processes
<1>9. EvaluationInv'
  <2>1. Present(NoItems) = {}
    BY DEF NoItems, Present
  <2>2. p \in Evaluations => Present(advice[p]) = {}
    BY <2>1 DEF EvaluationInv
  <2> QED BY <1>1, <1>2, <1>3, <2>2 DEF EvaluationInv, TypeOK, Processes, Stopped
<1> QED BY <1>4, <1>5, <1>6, <1>7, <1>8, <1>9

LEMMA UsesMemoryInv ==
  ASSUME MemoryInv, NEW p \in Processes,
         LoadLatest(p) \/ (p \in Evaluations /\ PinFrozen(p)) \/ (LoadPublished(p) /\ Initial(p))
  PROVE  MemoryInv'
<1> USE DEF MemoryInv, build, loading, evaluation
<1>1. CASE LoadLatest(p)
  <2>1. Latest \in Listed
    BY <1>1, LatestIsLast DEF LoadLatest
  <2>2. p \in Evaluations => Mode[p] # "frozen"
    BY <1>1 DEF LoadLatest, EvaluationInv, Stopped
  <2> QED BY <1>1, <2>1, <2>2, UseKeepsMemoryInv DEF LoadLatest, ProcessInv
<1>2. CASE p \in Evaluations /\ PinFrozen(p)
  <2>1. Requested[p] \in Listed
    BY <1>2 DEF PinFrozen
  <2> QED BY <1>2, <2>1, UseKeepsMemoryInv DEF PinFrozen, ProcessInv
<1>3. CASE LoadPublished(p) /\ Initial(p)
  <2>1. pc[p] = "load" /\ next[p] \in Listed /\ parent[p] = 0
    BY <1>3 DEF LoadPublished, ProcessInv, Initial
  <2>2. p \in Evaluations => Mode[p] # "frozen"
    BY <2>1 DEF EvaluationInv, Stopped
  <2>3. Use(p, next[p]) /\ UNCHANGED <<snapshots, build, evaluation, draft, staging, next>>
    BY <1>3 DEF LoadPublished
  <2> QED BY <2>1, <2>2, <2>3, UseKeepsMemoryInv
<1> QED BY <1>1, <1>2, <1>3
-----------------------------------------------------------------------------
(* The steps of a build.                                                       *)

\* the build that finds its snapshot intact has published the successor of its parent
LEMMA PublishedMemoryInv ==
  ASSUME MemoryInv, NEW p \in Processes, LoadPublished(p), ~Initial(p)
  PROVE  MemoryInv'
<1> USE MemoryAssumption DEF MemoryInv, evaluation, loading
<1>1. /\ pc[p] = "load" /\ parent[p] # 0 /\ p \in Builds
      /\ next[p] = parent[p] + 1 /\ next[p] \in Listed /\ snapshots[next[p]].by = p
  BY DEF LoadPublished, Initial, ProcessInv, Publishing
<1>2. /\ pc' = [pc EXCEPT ![p] = "answer"] /\ answer' = [answer EXCEPT ![p] = "PUBLISHED"]
      /\ UNCHANGED <<snapshots, loading, operations, evaluation, publication>>
  BY DEF LoadPublished, Goto, publication
<1>3. /\ ChainInv' /\ Listed' = Listed
      /\ \A b \in Builds : PublishedBy(b)' = PublishedBy(b)
  BY <1>2, SnapshotsKept
<1>4. TypeOK'
  BY <1>2 DEF TypeOK, Steps, Statuses, publication
<1>5. ProcessInv'
  BY <1>1, <1>2, <1>3 DEF ProcessInv, Publishing, TypeOK, publication
<1>6. parent[p] + 1 \in PublishedBy(p)
  BY <1>1 DEF PublishedBy, TypeOK
<1>7. BuildInv'
  BY <1>2, <1>3, <1>6 DEF BuildInv, Stopped, Publishing, TypeOK, Consolidated, Processes, publication
<1>8. SnapshotInv'
  BY <1>2, <1>3 DEF SnapshotInv, WellPublished, TypeOK, Consolidated, Processes, publication
<1>9. EvaluationInv'
  <2>1. \A e \in Evaluations : e # p
    BY <1>1
  <2> QED BY <1>2, <2>1 DEF EvaluationInv, TypeOK, Processes, publication
<1> QED BY <1>3, <1>4, <1>5, <1>7, <1>8, <1>9

\* a build that collects its pool has published nothing yet
LEMMA LoadingMemoryInv ==
  ASSUME MemoryInv, NEW b \in Builds, ScanBatch(b) \/ ReadExperience(b)
  PROVE  MemoryInv'
<1> USE MemoryAssumption DEF MemoryInv, evaluation, publication
<1>1. /\ pc[b] = "pool" /\ b \in Processes
      /\ UNCHANGED <<snapshots, pc, operations, answer, evaluation, publication>>
  BY DEF ScanBatch, ReadExperience, Processes
<1>2. \A c \in Builds \ {b} : pool'[c] = pool[c] /\ sources'[c] = sources[c]
  BY DEF ScanBatch, ReadExperience, TypeOK
<1>3. /\ batches' \in [Builds -> Nat] /\ scan' \in [Builds -> SUBSET Sources]
      /\ sources' \in [Builds -> SUBSET Sources] /\ pool' \in [Builds -> Seq(Experiences)]
      /\ \A f \in sources'[b] : f.seen = "whole"
      /\ \A c \in Builds : \A f \in scan'[c] : f.number \in DOMAIN Summaries[f.batch]
  <2>1. CASE ScanBatch(b)
    <3> DEFINE e == Selected[b][batches[b] + 1]
    <3>1. batches[b] \in Nat /\ batches[b] + 1 \in 1 .. Len(Selected[b])
      BY <2>1 DEF ScanBatch, TypeOK
    <3>2. e \in Batches
      BY <3>1
    <3> HIDE DEF e
    <3>3. DOMAIN files[e] = DOMAIN Summaries[e] /\ DOMAIN Summaries[e] \subseteq Nat
      BY <3>2 DEF TypeOK
    <3>4. \A n \in DOMAIN files[e] : files[e][n] \in {"absent", "partial", "whole"}
      BY <3>2 DEF TypeOK
    <3>5. Scanned(e) \subseteq Sources
          /\ \A f \in Scanned(e) : f.number \in DOMAIN Summaries[f.batch]
      BY <3>2, <3>3, <3>4 DEF Scanned, Sources
    <3>6. /\ scan' = [scan EXCEPT ![b] = Scanned(e)] /\ batches' = [batches EXCEPT ![b] = @ + 1]
          /\ UNCHANGED <<sources, pool>>
      BY <2>1 DEF ScanBatch, e
    <3> QED BY <3>1, <3>5, <3>6 DEF TypeOK, BuildInv
  <2>2. CASE ReadExperience(b)
    <3>1. PICK f \in scan[b] :
            /\ AsScanned(f) /\ Parses(f)
            /\ scan' = [scan EXCEPT ![b] = @ \ {f}]
            /\ sources' = [sources EXCEPT ![b] = @ \cup {f}]
            /\ \/ pool' = pool
               \/ pool' = [pool EXCEPT ![b] = Append(@, Summaries[f.batch][f.number])]
      BY <2>2 DEF ReadExperience
    <3>2. f \in Sources /\ f.batch \in Batches
      BY DEF TypeOK, Sources
    <3>3. f.number \in DOMAIN Summaries[f.batch] => Summaries[f.batch][f.number] \in Experiences
      BY <3>2
    <3>4. f.seen = "whole"
      BY <3>1 DEF AsScanned, Parses
    <3>5. f.number \in DOMAIN Summaries[f.batch]
      BY DEF BuildInv
    <3>6. batches' = batches
      BY <2>2 DEF ReadExperience
    <3>7. pool' \in [Builds -> Seq(Experiences)]
      <4> DEFINE x == Summaries[f.batch][f.number]
      <4>1. x \in Experiences
        BY <3>3, <3>5
      <4> HIDE DEF x
      <4>2. pool[b] \in Seq(Experiences) /\ Append(pool[b], x) \in Seq(Experiences)
        BY <4>1 DEF TypeOK
      <4> QED BY <3>1, <4>2 DEF TypeOK, x
    <3>8. scan' \in [Builds -> SUBSET Sources] /\ sources' \in [Builds -> SUBSET Sources]
      BY <3>1, <3>2 DEF TypeOK
    <3>9. \A g \in sources'[b] : g.seen = "whole"
      BY <3>1, <3>4 DEF TypeOK, BuildInv
    <3>10. \A c \in Builds : \A g \in scan'[c] : g.number \in DOMAIN Summaries[g.batch]
      <4>1. \A c \in Builds : scan'[c] \subseteq scan[c]
        BY <3>1 DEF TypeOK
      <4> QED BY <4>1 DEF BuildInv
    <3> QED BY <3>6, <3>7, <3>8, <3>9, <3>10 DEF TypeOK
  <2> QED BY <2>1, <2>2
<1>4. ChainInv' /\ Listed' = Listed /\ \A c \in Builds : PublishedBy(c)' = PublishedBy(c)
  BY <1>1, SnapshotsKept
<1>5. TypeOK'
  BY <1>1, <1>3 DEF TypeOK
<1>6. ProcessInv' /\ EvaluationInv'
  BY <1>1, <1>4 DEF ProcessInv, EvaluationInv
<1>7. BuildInv'
  BY <1>1, <1>2, <1>3, <1>4 DEF BuildInv, Publishing, Consolidated
<1>8. SnapshotInv'
  <2>1. \A m \in Listed : m > 1 => snapshots[m].by # b
    BY <1>1 DEF SnapshotInv, WellPublished
  <2> QED BY <1>1, <1>2, <1>4, <2>1 DEF SnapshotInv, WellPublished, Consolidated
<1> QED BY <1>4, <1>5, <1>6, <1>7, <1>8

LEMMA BeginBuildMemoryInv ==
  ASSUME MemoryInv, NEW b \in Builds, BeginBuild(b)
  PROVE  MemoryInv'
<1> USE MemoryAssumption DEF MemoryInv, build, loading, evaluation, publication
<1>1. /\ pc' = [pc EXCEPT ![b] = "latest"] /\ pc[b] = "pool" /\ b \in Processes
      /\ UNCHANGED <<snapshots, build, evaluation, publication>>
  BY DEF BeginBuild, Goto, Processes
<1>2. ChainInv' /\ Listed' = Listed /\ \A c \in Builds : PublishedBy(c)' = PublishedBy(c)
  BY <1>1, SnapshotsKept
<1>3. TypeOK'
  BY <1>1 DEF TypeOK, Steps
<1>4. ProcessInv'
  BY <1>1, <1>2 DEF ProcessInv, Publishing, TypeOK
<1>5. BuildInv'
  BY <1>1, <1>2 DEF BuildInv, Stopped, Publishing, TypeOK, Consolidated, Processes
<1>6. SnapshotInv'
  <2>1. \A m \in Listed : m > 1 => snapshots[m].by # b
    BY <1>1 DEF SnapshotInv, WellPublished
  <2> QED BY <1>1, <1>2, <2>1 DEF SnapshotInv, WellPublished, TypeOK, Consolidated, Processes
<1>7. EvaluationInv'
  BY <1>1 DEF EvaluationInv, TypeOK, Processes
<1> QED BY <1>2, <1>3, <1>4, <1>5, <1>6, <1>7

LEMMA ConsolidateMemoryInv ==
  ASSUME MemoryInv, NEW b \in Builds, Consolidate(b)
  PROVE  MemoryInv'
<1> USE MemoryAssumption DEF MemoryInv, loading, evaluation
<1> DEFINE items == snapshots[parent[b]].items
<1>1. /\ pc' = [pc EXCEPT ![b] = "list"] /\ pc[b] = "consolidate" /\ b \in Processes
      /\ UNCHANGED <<snapshots, loading, answer, evaluation, parent, staging, next>>
  BY DEF Consolidate, Goto, Processes
<1>2. parent[b] # 0 /\ parent[b] \in Listed
  BY <1>1 DEF ProcessInv
<1>3. items \in Items /\ pool[b] \in Seq(Experiences)
  BY <1>2 DEF TypeOK, Listed, Snapshots
<1>4. PICK answered \in Answers :
        /\ HandledOnce(Repaired(answered), pool[b]) /\ Fits(Repaired(answered), items)
        /\ operations' = [operations EXCEPT ![b] = Repaired(answered)]
        /\ draft' = [draft EXCEPT ![b] = Applied(Repaired(answered), pool[b], items)]
  BY DEF Consolidate, Applicable
<1> DEFINE repaired == Repaired(answered)
<1> HIDE DEF items
<1>5. repaired \in Seq(OperationRecords)
  BY RepairedType
<1>6. \A i \in DOMAIN repaired :
        repaired[i].operation \in Adding => Destination(repaired, i, items) \in Ids
  <2> HIDE DEF repaired
  <2>1. Fits(repaired, items)
    BY <1>4 DEF repaired
  <2> TAKE i \in DOMAIN repaired
  <2>2. CASE repaired[i].operation = "ADD"
    BY <2>1, <2>2 DEF Fits, Additions
  <2>3. CASE repaired[i].operation # "ADD"
    <3>1. repaired[i] \in OperationRecords
      BY <1>5
    <3>2. repaired[i].target \in Ids
      BY <3>1 DEF OperationRecords
    <3> QED BY <2>3, <3>2 DEF Destination
  <2> QED BY <2>2, <2>3
<1> HIDE DEF repaired
<1>7. HandledOnce(repaired, pool[b])
      /\ operations' = [operations EXCEPT ![b] = repaired]
      /\ draft' = [draft EXCEPT ![b] = Applied(repaired, pool[b], items)]
  BY <1>4 DEF repaired
<1>8. operations'[b] = repaired /\ draft'[b] = Applied(repaired, pool[b], items)
  BY <1>1, <1>7 DEF TypeOK
<1>9. draft'[b] \in Items
  BY <1>3, <1>5, <1>7, <1>8, AppliedIsEarned
<1>10. /\ \A q \in Processes : q # b => draft'[q] = draft[q]
       /\ \A c \in Builds : c # b => operations'[c] = operations[c]
  BY <1>7 DEF TypeOK
<1>11. ChainInv' /\ Listed' = Listed /\ \A c \in Builds : PublishedBy(c)' = PublishedBy(c)
  BY <1>1, SnapshotsKept
<1>12. TypeOK'
  <2>1. draft' \in [Processes -> Items] /\ operations' \in [Builds -> Seq(OperationRecords)]
    BY <1>5, <1>7, <1>8, <1>9 DEF TypeOK
  <2> QED BY <1>1, <2>1 DEF TypeOK, Steps, Publishing
<1>13. ProcessInv'
  BY <1>1, <1>2, <1>10, <1>11 DEF ProcessInv, Publishing, TypeOK
<1>14. BuildInv'
  <2>1. answer[b] = "none"
    BY <1>1 DEF BuildInv, Stopped
  <2>2. Consolidated(draft[b], snapshots[parent[b]].items, b)'
    BY <1>1, <1>6, <1>7, <1>8 DEF Consolidated, items
  <2>3. \A c \in Builds : c # b =>
          (Consolidated(draft[c], snapshots[parent[c]].items, c)
             => Consolidated(draft[c], snapshots[parent[c]].items, c)')
    BY <1>1, <1>10 DEF Consolidated, Processes
  <2> QED BY <1>1, <1>11, <2>1, <2>2, <2>3 DEF BuildInv, Stopped, Publishing, TypeOK, Processes
<1>15. SnapshotInv'
  <2>1. \A m \in Listed : m > 1 => snapshots[m].by # b
    BY <1>1 DEF SnapshotInv, WellPublished
  <2> QED BY <1>1, <1>10, <1>11, <2>1
      DEF SnapshotInv, WellPublished, TypeOK, Consolidated, Processes
<1>16. EvaluationInv'
  BY <1>1 DEF EvaluationInv, TypeOK, Processes
<1> QED BY <1>11, <1>12, <1>13, <1>14, <1>15, <1>16

-----------------------------------------------------------------------------
(* The steps of an evaluation.                                                 *)

LEMMA PrepareAgentTurnMemoryInv ==
  ASSUME MemoryInv, NEW e \in Evaluations, PrepareAgentTurn(e)
  PROVE  MemoryInv'
<1> USE MemoryAssumption DEF MemoryInv, build, loading, publication
<1> DEFINE items == snapshots[parent[e]].items
<1>1. PICK matching \in SUBSET Present(items), raw \in SUBSET Ids :
        /\ filtered' = [filtered EXCEPT ![e] = matching]
        /\ advice' = [advice EXCEPT ![e] = Only(items, Chosen(PiSelection(raw, matching), matching))]
  BY DEF PrepareAgentTurn, FilteredCatalogs, Advised
<1> DEFINE chosen == Chosen(PiSelection(raw, matching), matching)
<1>2. pc[e] = "turns" /\ UNCHANGED <<snapshots, build, publication, pc, files>> /\ e \in Processes
  BY DEF PrepareAgentTurn, Processes
<1>3. parent[e] # 0 /\ parent[e] \in Listed
  BY <1>2 DEF ProcessInv
<1>4. items \in Items
  BY <1>3 DEF TypeOK, Listed, Snapshots
<1>5. chosen \subseteq matching /\ Cardinality(chosen) <= MaxSelected /\ chosen \subseteq Ids
  <2>1. Cardinality({}) = 0
    BY FS_EmptySet
  <2> QED BY <2>1 DEF Chosen, Present
<1> HIDE DEF chosen
<1>6. Only(items, chosen) \in Items
  BY <1>4 DEF Only, Items
<1>7. Present(Only(items, chosen)) \subseteq chosen
      /\ \A i \in Present(Only(items, chosen)) : Only(items, chosen)[i] = items[i]
  BY DEF Present, Only
<1>8. Cardinality(Present(Only(items, chosen))) <= MaxSelected
  <2>1. IsFiniteSet(Ids)
    BY FS_Interval DEF Ids
  <2>2. IsFiniteSet(chosen)
    BY <1>5, <2>1, FS_Subset
  <2>3. /\ Cardinality(Present(Only(items, chosen))) <= Cardinality(chosen)
        /\ Cardinality(Present(Only(items, chosen))) \in Nat /\ Cardinality(chosen) \in Nat
    BY <1>7, <2>2, FS_Subset, FS_CardinalityType
  <2> QED BY <1>5, <2>3
<1>9. /\ ChainInv' /\ Listed' = Listed
      /\ \A c \in Builds : PublishedBy(c)' = PublishedBy(c)
  BY <1>2, SnapshotsKept
<1>10. filtered'[e] = matching /\ advice'[e] = Only(items, chosen)
  BY <1>1 DEF TypeOK, chosen
<1>11. \A f \in Evaluations : f # e => filtered'[f] = filtered[f] /\ advice'[f] = advice[f]
  BY <1>1 DEF TypeOK
<1>12. TypeOK'
  <2>1. matching \subseteq Ids
    BY DEF Present
  <2> QED BY <1>1, <1>2, <1>6, <2>1 DEF TypeOK, chosen
<1>13. ProcessInv' /\ BuildInv' /\ SnapshotInv'
  BY <1>2, <1>9 DEF ProcessInv, BuildInv, SnapshotInv, WellPublished, Consolidated
<1>14. EvaluationInv'
  <2>1. ASSUME NEW f \in Evaluations, f # e
        PROVE  /\ filtered'[f] = filtered[f] /\ advice'[f] = advice[f]
               /\ parent'[f] = parent[f] /\ pc'[f] = pc[f] /\ snapshots' = snapshots
    BY <1>2, <1>11, <2>1
  <2>2. /\ Cardinality(Present(advice'[e])) <= MaxSelected
        /\ \A i \in Present(advice'[e]) :
             i \in filtered'[e] /\ advice'[e][i] = snapshots'[parent'[e]].items[i]
    BY <1>2, <1>5, <1>7, <1>8, <1>10
  <2>3. /\ parent'[e] # 0 /\ pc'[e] = "turns"
        /\ Mode[e] = "frozen" => parent'[e] = Requested[e]
    BY <1>2, <1>3 DEF EvaluationInv
  <2>4. ASSUME NEW f \in Evaluations, f # e
        PROVE  /\ Mode[f] = "frozen" => pc'[f] \in {"pin", "turns"} \cup Stopped
               /\ Mode[f] = "frozen" /\ parent'[f] # 0 => parent'[f] = Requested[f]
               /\ parent'[f] = 0 => advice'[f] = NoItems
               /\ Cardinality(Present(advice'[f])) <= MaxSelected
               /\ \A i \in Present(advice'[f]) :
                    i \in filtered'[f] /\ advice'[f][i] = snapshots'[parent'[f]].items[i]
    <3>1. EvaluationInv
      OBVIOUS
    <3> HIDE MemoryAssumption DEF MemoryInv
    <3> QED BY <2>1, <2>4, <3>1 DEF EvaluationInv
  <2>5. ASSUME NEW f \in Evaluations
        PROVE  /\ Mode[f] = "frozen" => pc'[f] \in {"pin", "turns"} \cup Stopped
               /\ Mode[f] = "frozen" /\ parent'[f] # 0 => parent'[f] = Requested[f]
               /\ parent'[f] = 0 => advice'[f] = NoItems
               /\ Cardinality(Present(advice'[f])) <= MaxSelected
               /\ \A i \in Present(advice'[f]) :
                    i \in filtered'[f] /\ advice'[f][i] = snapshots'[parent'[f]].items[i]
    <3>1. CASE f # e
      BY <2>4, <3>1
    <3>2. CASE f = e
      BY <2>2, <2>3, <3>2
    <3> QED BY <3>1, <3>2
  <2> HIDE DEF MemoryInv
  <2> QED BY <2>5 DEF EvaluationInv, Present
<1> QED BY <1>9, <1>12, <1>13, <1>14

LEMMA PersistingMemoryInv ==
  ASSUME MemoryInv, NEW e \in Evaluations, CreateExperience(e) \/ WriteExperience(e)
  PROVE  MemoryInv'
<1> USE MemoryAssumption DEF MemoryInv, build, loading, publication
<1>1. PICK n \in DOMAIN files[e], s \in {"partial", "whole"} : files' = [files EXCEPT ![e][n] = s]
  BY DEF CreateExperience, WriteExperience
<1>2. UNCHANGED <<snapshots, build, publication, pc, filtered, advice>>
  BY DEF CreateExperience, WriteExperience
<1>3. ChainInv' /\ Listed' = Listed /\ \A c \in Builds : PublishedBy(c)' = PublishedBy(c)
  BY <1>2, SnapshotsKept
<1>4. DOMAIN files' = Batches
      /\ \A f \in Batches : files'[f] \in [DOMAIN Summaries[f] -> {"absent", "partial", "whole"}]
  BY <1>1 DEF TypeOK
<1>5. TypeOK'
  BY <1>2, <1>4 DEF TypeOK
<1>6. ProcessInv' /\ EvaluationInv'
  BY <1>2, <1>3 DEF ProcessInv, EvaluationInv
<1>7. BuildInv' /\ SnapshotInv'
  BY <1>2, <1>3 DEF BuildInv, SnapshotInv, WellPublished, Consolidated
<1> QED BY <1>3, <1>5, <1>6, <1>7

LEMMA StutterMemoryInv == MemoryInv /\ UNCHANGED vars => MemoryInv'
<1> SUFFICES ASSUME MemoryInv, UNCHANGED vars PROVE MemoryInv'
  OBVIOUS
<1> USE DEF MemoryInv, vars
<1>1. /\ ChainInv' /\ Listed' = Listed
      /\ \A c \in Builds : PublishedBy(c)' = PublishedBy(c)
  BY SnapshotsKept
<1>2. TypeOK' /\ ProcessInv' /\ BuildInv' /\ SnapshotInv' /\ EvaluationInv'
  BY <1>1 DEF TypeOK, ProcessInv, BuildInv, SnapshotInv, WellPublished, EvaluationInv, Consolidated
<1> QED BY <1>1, <1>2

LEMMA NextMemoryInv == MemoryInv /\ [Next]_vars => MemoryInv'
<1> SUFFICES ASSUME MemoryInv, [Next]_vars PROVE MemoryInv'
  OBVIOUS
<1> USE DEF Processes
<1>1. ASSUME NEW p \in Processes, Publish(p)
      PROVE  MemoryInv'
  <2> USE <1>1, WritingMemoryInv, FailuresMemoryInv, StopsMemoryInv
  <2>1. CASE List(p) \/ WriteItems(p) \/ WriteManifest(p) \/ PublishInitial(p)
    BY <2>1
  <2>2. CASE ListFails(p) \/ LoadPublishedFails(p)
    BY <2>2
  <2>3. CASE Rename(p)
    BY <2>3, RenameMemoryInv
  <2>4. CASE LoadPublished(p)
    BY <2>4, UsesMemoryInv, PublishedMemoryInv
  <2>5. CASE LoadLatest(p)
    BY <2>5, UsesMemoryInv
  <2>6. CASE LoadLatestFails(p)
    BY <2>6
  <2> QED BY <2>1, <2>2, <2>3, <2>4, <2>5, <2>6 DEF Publish
<1>2. ASSUME NEW b \in Builds, Build(b) \/ WriteAnswerFails(b)
      PROVE  MemoryInv'
  BY <1>1, <1>2, LoadingMemoryInv, BeginBuildMemoryInv, ConsolidateMemoryInv, StopsMemoryInv,
     FailuresMemoryInv DEF Build
<1>3. ASSUME NEW e \in Evaluations, Evaluate(e)
      PROVE  MemoryInv'
  BY <1>1, <1>3, UsesMemoryInv, PrepareAgentTurnMemoryInv, PersistingMemoryInv,
     StopsMemoryInv DEF Evaluate
<1>4. ASSUME NEW p \in Processes, WriteFails(p) \/ Dies(p)
      PROVE  MemoryInv'
  BY <1>4, FailuresMemoryInv, StopsMemoryInv
<1> QED BY <1>2, <1>3, <1>4, StutterMemoryInv DEF Next

LEMMA MemoryInvariant == Spec => []MemoryInv
BY InitMemoryInv, NextMemoryInv, PTL DEF Spec
-----------------------------------------------------------------------------
(* What the invariant says of the promises of the store.                       *)

(* Every variable has its type in every reachable state: no step writes a      *)
(* number, a record or a status that the code could not hold.                  *)
THEOREM TypeCorrect == Spec => []TypeOK
<1>1. MemoryInv => TypeOK
  BY DEF MemoryInv
<1> QED BY <1>1, MemoryInvariant, PTL

(* What a build has consolidated keeps the evidence of its parent and adds     *)
(* only sources of Experiences it has accepted.                                *)
LEMMA ConsolidatedIsEarned ==
  ASSUME TypeOK, NEW b \in Builds, NEW n \in Listed, NEW new,
         Consolidated(new, snapshots[n].items, b)
  PROVE  \A i \in Ids : /\ snapshots[n].items[i] \subseteq new[i]
                        /\ new[i] \ snapshots[n].items[i] \subseteq {CaseOf[x] : x \in Accepted(b)}
<1>1. /\ operations[b] \in Seq(OperationRecords) /\ pool[b] \in Seq(Experiences)
      /\ snapshots[n].items \in Items
  BY DEF TypeOK, Listed, Snapshots
<1>2. /\ new = Applied(operations[b], pool[b], snapshots[n].items)
      /\ HandledOnce(operations[b], pool[b])
  BY DEF Consolidated
<1>3. Accepted(b) = AcceptedIn(operations[b], pool[b])
  BY DEF Accepted, AcceptedIn
<1> QED BY <1>1, <1>2, <1>3, AppliedIsEarned

(* Whatever builds and evaluations run at the same time and wherever they die, *)
(* every published snapshot is complete, names its predecessor, and adds to it *)
(* only sources of Experiences that the publishing build read whole from its   *)
(* batches and that one of its operations accepted and none rejected           *)
(* (applyMemoryConsolidation, memory-consolidator.ts).                         *)
THEOREM SnapshotsAreEarned == Spec => []EvidenceIsEarned
<1>1. MemoryInv => EvidenceIsEarned
  <2> SUFFICES ASSUME MemoryInv, NEW n \in Listed
               PROVE  /\ snapshots[n].manifest
                      /\ snapshots[n].parent = n - 1
                      /\ n > 1 =>
                           LET b == snapshots[n].by
                           IN  /\ b \in Builds
                               /\ \A f \in sources[b] : f.seen = "whole"
                               /\ \A i \in Ids : snapshots[n].items[i] \ snapshots[n - 1].items[i]
                                                   \subseteq {CaseOf[x] : x \in Accepted(b)}
    BY DEF EvidenceIsEarned
  <2>1. snapshots[n].manifest /\ snapshots[n].parent = n - 1
    BY DEF MemoryInv, SnapshotInv, WellPublished
  <2>2. ASSUME n > 1
        PROVE  LET b == snapshots[n].by
               IN  /\ b \in Builds
                   /\ \A f \in sources[b] : f.seen = "whole"
                   /\ \A i \in Ids : snapshots[n].items[i] \ snapshots[n - 1].items[i]
                                       \subseteq {CaseOf[x] : x \in Accepted(b)}
    <3> DEFINE b == snapshots[n].by
    <3>1. b \in Builds /\ Consolidated(snapshots[n].items, snapshots[n - 1].items, b)
      BY <2>2 DEF MemoryInv, SnapshotInv, WellPublished
    <3>2. \A f \in sources[b] : f.seen = "whole"
      BY <3>1 DEF MemoryInv, BuildInv
    <3>3. n - 1 \in Listed
      BY <2>2, LatestIsLast, MemoryAssumption DEF MemoryInv
    <3> HIDE DEF b
    <3>4. \A i \in Ids : snapshots[n].items[i] \ snapshots[n - 1].items[i]
                            \subseteq {CaseOf[x] : x \in Accepted(b)}
      BY <3>1, <3>3, ConsolidatedIsEarned DEF MemoryInv
    <3> QED BY <3>1, <3>2, <3>4 DEF b
  <2> QED BY <2>1, <2>2
<1> QED BY <1>1, MemoryInvariant, PTL

(* A build publishes at most one snapshot, the successor of the one it has     *)
(* consolidated, wherever it fails or dies.  When it answers PUBLISHED, its    *)
(* recorded operations account for each Experience of its pool exactly once    *)
(* and each accepted one is found in the published item that its operation     *)
(* names, in spite of every other build and evaluation (PiMemoryConsolidator   *)
(* and runMemoryBuildCommand).                                                 *)
THEOREM BuildsTellTheTruth == Spec => []AnswersAreTrue
<1>1. MemoryInv => AnswersAreTrue
  <2> SUFFICES ASSUME MemoryInv, NEW b \in Builds
               PROVE  /\ PublishedBy(b) \subseteq {parent[b] + 1}
                      /\ answer[b] = "PUBLISHED" =>
                           /\ PublishedBy(b) # {}
                           /\ \A k \in DOMAIN pool[b] : \E i \in DOMAIN operations[b] :
                                LET id == Destination(operations[b], i, snapshots[parent[b]].items)
                                IN  /\ \A j \in DOMAIN operations[b] :
                                         k \in operations[b][j].indexes <=> i = j
                                    /\ operations[b][i].operation \in Adding =>
                                         CaseOf[pool[b][k]] \in snapshots[parent[b] + 1].items[id]
    BY DEF AnswersAreTrue
  <2>1. \A n \in PublishedBy(b) : n = parent[b] + 1
    BY DEF MemoryInv, PublishedBy, SnapshotInv, WellPublished, Listed, Numbers
  <2>2. ASSUME answer[b] = "PUBLISHED", NEW k \in DOMAIN pool[b]
        PROVE  \E i \in DOMAIN operations[b] :
                 LET id == Destination(operations[b], i, snapshots[parent[b]].items)
                 IN  /\ \A j \in DOMAIN operations[b] : k \in operations[b][j].indexes <=> i = j
                     /\ operations[b][i].operation \in Adding =>
                          CaseOf[pool[b][k]] \in snapshots[parent[b] + 1].items[id]
    <3> DEFINE n == parent[b] + 1
               items == snapshots[parent[b]].items
    <3>1. n \in PublishedBy(b)
      BY <2>2 DEF MemoryInv, BuildInv
    <3>2. n \in Listed /\ n > 1 /\ snapshots[n].by = b
      BY <3>1 DEF PublishedBy
    <3>3. n - 1 = parent[b]
      BY MemoryAssumption DEF MemoryInv, TypeOK, Processes
    <3> HIDE DEF n
    <3>4. Consolidated(snapshots[n].items, snapshots[n - 1].items, b)
      BY <3>2 DEF MemoryInv, SnapshotInv, WellPublished
    <3> HIDE DEF items
    <3>5. Consolidated(snapshots[n].items, items, b)
      BY <3>3, <3>4 DEF items
    <3>6. /\ snapshots[n].items = Applied(operations[b], pool[b], items)
          /\ HandledOnce(operations[b], pool[b])
          /\ \A i \in DOMAIN operations[b] :
               operations[b][i].operation \in Adding => Destination(operations[b], i, items) \in Ids
      BY <3>5 DEF Consolidated
    <3>7. \E i \in DOMAIN operations[b] :
            /\ \A j \in DOMAIN operations[b] : k \in operations[b][j].indexes <=> i = j
            /\ operations[b][i].operation \in Adding =>
                 CaseOf[pool[b][k]]
                   \in Applied(operations[b], pool[b], items)[Destination(operations[b], i, items)]
      BY <3>6, AcceptedIsFound
    <3> QED BY <3>6, <3>7 DEF n, items
  <2>3. answer[b] = "PUBLISHED" => PublishedBy(b) # {}
    BY DEF MemoryInv, BuildInv
  <2> QED BY <2>1, <2>2, <2>3
<1> QED BY <1>1, MemoryInvariant, PTL

(* The advice in a workspace is of the snapshot the evaluation has pinned, of  *)
(* items that match this turn and never more than the limit, while other       *)
(* processes publish (prepareAgentTurn of the evaluate command).               *)
THEOREM AdviceStaysPinned == Spec => []AdviceIsPinned
<1>1. MemoryInv => AdviceIsPinned
  BY DEF MemoryInv, EvaluationInv, AdviceIsPinned
<1> QED BY <1>1, MemoryInvariant, PTL
-----------------------------------------------------------------------------
(* The store implements the chain it promises.                                 *)

LEMMA InitImplementsChain == Init => Chain!Init
<1> SUFFICES ASSUME Init PROVE Chain!Init
  OBVIOUS
<1>1. Latest = 0
  BY DEF Init, Listed, Latest, Maximum
<1> QED BY <1>1 DEF Chain!Init

LEMMA AppendToInterval ==
  ASSUME NEW S, NEW k \in Nat \ {0}, NEW c \in [1 .. k -> S], NEW x \in S
  PROVE  /\ Len(c) = k /\ c # << >>
         /\ Append(c, x) = [n \in 1 .. k + 1 |-> IF n \in 1 .. k THEN c[n] ELSE x]
<1>1. c \in Seq(S) /\ Len(c) = k
  OBVIOUS
<1>2. c # << >>
  BY <1>1
<1>3. Append(c, x) \in Seq(S) /\ Len(Append(c, x)) = k + 1
  BY <1>1
<1>4. \A n \in 1 .. k + 1 : Append(c, x)[n] = IF n \in 1 .. k THEN c[n] ELSE x
  BY <1>1
<1>5. Append(c, x) \in [1 .. k + 1 -> S]
  <2>1. \A s \in Seq(S) : s \in [1 .. Len(s) -> S]
    OBVIOUS
  <2> QED BY <1>3, <2>1
<1> QED BY <1>1, <1>2, <1>4, <1>5

\* a rename extends the chain, from an empty one when it is the first
LEMMA RenameImplementsChain ==
  ASSUME MemoryInv, NEW p \in Processes, Rename(p)
  PROVE  Chain!Next
<1> DEFINE chain == [n \in 1 .. Latest |-> snapshots[n].items]
<1>1. PICK k \in Nat : k = Latest
  BY LatestIsLast, MemoryAssumption DEF MemoryInv
<1>2. Listed = 1 .. k /\ k + 1 \in Numbers
  BY <1>1, FreeNumberIsNext, LatestIsLast DEF MemoryInv
<1>3. /\ staging[p] = [parent |-> k, by |-> p, items |-> draft[p], manifest |-> TRUE]
      /\ parent[p] = k
      /\ \A n \in 1 .. k : snapshots'[n] = snapshots[n]
      /\ snapshots'[k + 1] = staging[p]
      /\ Listed' = 1 .. k \cup {k + 1}
  BY <1>1, <1>2, FreeNumberIsNext
<1>4. Latest' = k + 1
  <2>1. Listed' = 1 .. k + 1
    BY <1>3
  <2>2. Maximum(1 .. k + 1) = k + 1
    BY MaximumOfInterval
  <2>3. Latest' = Maximum(Listed')
    BY DEF Latest, Maximum
  <2> QED BY <2>1, <2>2, <2>3
<1>5. snapshots'[k + 1].items = draft[p] /\ draft[p] \in Items
  BY <1>3 DEF MemoryInv, TypeOK
<1>6. chain = [n \in 1 .. k |-> snapshots[n].items]
  BY <1>1
<1>7. chain' = [n \in 1 .. k + 1 |-> snapshots'[n].items]
  BY <1>4
<1>8. CASE k = 0
  <2>1. draft[p] = NoItems
    BY <1>3, <1>8 DEF MemoryInv, ProcessInv
  <2>2. chain' = [n \in 1 .. 1 |-> NoItems]
    BY <1>5, <1>7, <1>8, <2>1
  <2>3. [n \in 1 .. 1 |-> NoItems] = <<NoItems>>
    OBVIOUS
  <2>4. chain = << >>
    BY <1>6, <1>8
  <2>5. Chain!NoItems = NoItems
    BY DEF Chain!NoItems, NoItems
  <2> QED BY <2>2, <2>3, <2>4, <2>5 DEF Chain!Next, Chain!Begin
<1>9. CASE k # 0
  <2>1. pc[p] = "rename" /\ p \in Builds
    BY <1>3, <1>9 DEF Rename, MemoryInv, ProcessInv, Publishing
  <2>2. \A i \in Ids : snapshots[k].items[i] \subseteq draft[p][i]
    <3>1. Consolidated(draft[p], snapshots[k].items, p)
      BY <1>3, <1>9, <2>1 DEF MemoryInv, BuildInv, Publishing
    <3>2. k \in Listed
      BY <1>2, <1>9
    <3>3. TypeOK
      BY DEF MemoryInv
    <3> HIDE DEF chain
    <3> QED BY <2>1, <3>1, <3>2, <3>3, ConsolidatedIsEarned
  <2> HIDE DEF chain
  <2>3. chain \in [1 .. k -> Items] /\ chain[k] = snapshots[k].items
    <3>1. \A n \in 1 .. k : snapshots[n].items \in Items
      BY <1>2 DEF MemoryInv, TypeOK, Listed, Snapshots
    <3> QED BY <1>6, <1>9, <3>1
  <2>4. Len(chain) = k /\ chain # << >>
        /\ Append(chain, draft[p]) = [n \in 1 .. k + 1 |-> IF n \in 1 .. k THEN chain[n] ELSE draft[p]]
    BY <1>5, <1>9, <2>3, AppendToInterval
  <2>5. chain' = Append(chain, draft[p])
    <3>1. \A n \in 1 .. k + 1 :
            snapshots'[n].items = IF n \in 1 .. k THEN chain[n] ELSE draft[p]
      BY <1>3, <1>5, <1>6
    <3> QED BY <1>7, <2>4, <3>1
  <2>6. Chain!Extends(draft[p], chain[Len(chain)])
    BY <2>2, <2>3, <2>4 DEF Chain!Extends
  <2>7. draft[p] \in Chain!Items
    BY <1>5 DEF Chain!Items, Items
  <2> QED BY <2>4, <2>5, <2>6, <2>7 DEF Chain!Next, Chain!Extend, chain
<1> QED BY <1>8, <1>9

LEMMA StepImplementsChain ==
  ASSUME MemoryInv, [Next]_vars
  PROVE  Chain!Next \/ UNCHANGED [n \in 1 .. Latest |-> snapshots[n].items]
<1>1. (\E p \in Processes : Rename(p)) \/ UNCHANGED snapshots
  BY DEF Next, Build, Evaluate, Publish, Processes, vars, List, ListFails, WriteItems,
     WriteManifest, LoadPublished, LoadPublishedFails, LoadLatest, LoadLatestFails,
     PublishInitial, ScanBatch, ReadExperience, BeginBuild, LoadPoolFails, Consolidate,
     ConsolidateFails, WriteAnswer, WriteAnswerFails, PinFrozen, PinFails, PrepareAgentTurn,
     CreateExperience, WriteExperience, EndEvaluation, WriteFails, Dies
<1>2. UNCHANGED snapshots => UNCHANGED Latest
  BY SnapshotsKept DEF MemoryInv
<1> QED BY <1>1, <1>2, RenameImplementsChain

(* Read and written without any lock, by processes that race and die, the      *)
(* store is one chain: it begins with the empty snapshot, each further one     *)
(* extends the latest and loses no evidence, and none is replaced              *)
(* (publishSnapshot and ensureInitialSnapshot, memory.ts).                     *)
THEOREM StoreImplementsChain == Spec => ImplementsChain
<1>1. MemoryInv /\ [Next]_vars => [Chain!Next]_([n \in 1 .. Latest |-> snapshots[n].items])
  BY StepImplementsChain
<1> QED BY <1>1, InitImplementsChain, MemoryInvariant, PTL DEF Spec, ImplementsChain, Chain!Spec
=============================================================================
