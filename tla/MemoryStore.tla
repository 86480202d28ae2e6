------------------------------ MODULE MemoryStore ------------------------------
(***************************************************************************)
(* The versioned Memory (core-loop/src/memory.ts) and the processes that   *)
(* share it:                                                               *)
(*  - memory-build (rtl-core-loop/src/memory-build-command.ts): it pools   *)
(*    the Experiences of finished batches, asks the consolidator of Pi     *)
(*    what to make of them and publishes the next snapshot;                *)
(*  - evaluate (rtl-core-loop/src/index.ts) with Memory frozen or          *)
(*    read_write: it pins a snapshot, gives the Agent advice selected from *)
(*    it before every turn and, in read_write mode, persists Experiences.  *)
(*                                                                         *)
(* Nothing locks the store.  A snapshot is written to a staging directory, *)
(* validated and renamed; its number is one more than the highest that was *)
(* listed.  Every read and write may fail, whether files are damaged or    *)
(* not, and a process may die at any moment.  The file of an Experience is *)
(* written in place: a build may find it half written.                     *)
(*                                                                         *)
(* An item is the set of cases its evidence names; its text is left out.   *)
(* The indexes of Experiences begin with 1 here, with 0 in the code.       *)
(***************************************************************************)
EXTENDS Integers, Sequences, FiniteSets

CONSTANTS
  Builds,        \* calls of runMemoryBuildCommand
  Evaluations,   \* calls of evaluate, one batch each
  Batches,       \* these, and batches of earlier evaluations
  Cases,         \* [dataset, split, case_id] of an Experience
  Experiences,   \* Experience records, up to their digest
  CaseOf,        \* per Experience: its source
  Summaries,     \* per batch: the Experiences its cases end with, in their order
  Selected,      \* per build: --experience-batches, in their order
  Mode,          \* per evaluation: "frozen" or "read_write"
  Requested,     \* per evaluation: --memory-snapshot, 0 when absent
  Answers,       \* what the consolidator of Pi may write to result.json
  MaxAdditions,  \* ADD operations of one answer (5 in the code)
  MaxSelected,   \* MAXIMUM_SELECTED_MEMORIES
  MaxSnapshots,  \* bound: numbers of snapshots
  MaxItems,      \* bound: numbers of items
  None

Numbers == 1..MaxSnapshots
Ids == 1..MaxItems
Processes == Builds \cup Evaluations

Items == [Ids -> SUBSET Cases]
NoItems == [i \in Ids |-> {}]
Present(items) == {i \in Ids : items[i] # {}}

Snapshots == [parent : 0..MaxSnapshots, by : Processes, items : Items, manifest : BOOLEAN]

Adding == {"ADD", "MERGE", "REINFORCE"}
Operations == Adding \cup {"REJECT", "CONFLICT"}
Drafts == {"clean", "forbidden", "malformed"}
OperationRecords ==
  [operation : Operations, target : Ids, indexes : SUBSET Nat, draft : Drafts]

\* a file of a batch, by the number of its case, as a scan has seen it
Sources == [batch : Batches, number : Nat, seen : {"partial", "whole"}]

ASSUME MemoryAssumption ==
  /\ Builds \cap Evaluations = {} /\ Evaluations \subseteq Batches
  /\ CaseOf \in [Experiences -> Cases]
  /\ Summaries \in [Batches -> Seq(Experiences)]
  /\ Selected \in [Builds -> Seq(Batches)]
  /\ Mode \in [Evaluations -> {"frozen", "read_write"}]
  /\ Requested \in [Evaluations -> 0..MaxSnapshots]
  /\ Answers \subseteq Seq(OperationRecords)
  /\ MaxSnapshots \in Nat /\ MaxItems \in Nat
  /\ MaxAdditions \in Nat /\ MaxSelected \in Nat
  /\ None \notin Snapshots
-----------------------------------------------------------------------------
VARIABLES
  snapshots,   \* memory/snapshots: what there is under each number
  files,       \* memory/experiences: per batch, the file of each case
  pc,          \* step of each process
  batches,     \* number of selected batches a build has scanned
  scan,        \* files of the last one it has yet to read
  sources,     \* sources in its experience-pool-manifest.json
  pool,        \* its Experiences, each once
  operations,  \* what the consolidator answered, repaired, as in result.json
  parent,      \* number of the snapshot a process has loaded, 0 for none
  draft,       \* items of the snapshot a process is about to publish
  staging,     \* its .memory-staging directory, None when there is none
  next,        \* number it will publish under
  answer,      \* status of a build, its result.json
  filtered,    \* items that match the query of the current turn
  advice       \* context/relevant-rtl-memory.md: the evidence of each item in it

vars == <<snapshots, files, pc, batches, scan, sources, pool, operations, parent, draft,
          staging, next, answer, filtered, advice>>
loading == <<batches, scan, sources, pool>>
build == <<loading, operations, answer>>
evaluation == <<files, filtered, advice>>
publication == <<parent, draft, staging, next>>

Statuses == {"none", "FAILED", "PUBLISHED"}
Publishing == {"list", "items", "manifest", "rename", "load"}
Steps == {"pool", "latest", "raced", "consolidate", "answer", "pin", "turns"} \cup Publishing
Stopped == {"done", "failed"}

Listed == {n \in Numbers : snapshots[n] # None}
Maximum(S) == IF S = {} THEN 0 ELSE CHOOSE n \in S : \A m \in S : m <= n
Latest == Maximum(Listed)

Init ==
  /\ snapshots = [n \in Numbers |-> None]
  /\ files = [e \in Batches |->
       [n \in DOMAIN Summaries[e] |-> IF e \in Evaluations THEN "absent" ELSE "whole"]]
  /\ pc = [p \in Processes |-> IF p \in Builds THEN "pool"
                               ELSE IF Mode[p] = "frozen" THEN "pin" ELSE "latest"]
  /\ batches = [b \in Builds |-> 0]
  /\ scan = [b \in Builds |-> {}] /\ sources = [b \in Builds |-> {}]
  /\ pool = [b \in Builds |-> <<>>] /\ operations = [b \in Builds |-> <<>>]
  /\ parent = [p \in Processes |-> 0]
  /\ draft = [p \in Processes |-> NoItems]
  /\ staging = [p \in Processes |-> None]
  /\ next = [p \in Processes |-> 0]
  /\ answer = [b \in Builds |-> "none"]
  /\ filtered = [e \in Evaluations |-> {}]
  /\ advice = [e \in Evaluations |-> NoItems]

Goto(p, step) == pc' = [pc EXCEPT ![p] = step]
-----------------------------------------------------------------------------
(* What the callers of ensureInitialSnapshot do with its answer.               *)

\* read-write Memory can only extend the latest snapshot
MayExtend(e, n) == Mode[e] = "frozen" \/ Requested[e] \in {0, n}

Use(p, n) ==
  /\ parent' = [parent EXCEPT ![p] = n]
  /\ Goto(p, CASE p \in Builds -> "consolidate"
               [] p \in Evaluations /\ MayExtend(p, n) -> "turns"
               [] OTHER -> "failed")
-----------------------------------------------------------------------------
(* publishSnapshot: the initial one, without parent, or that of a build.       *)

Initial(p) == parent[p] = 0

\* an initial publication that fails looks again, a build answers that it failed
AfterFailure(p) == IF Initial(p) THEN "raced" ELSE "answer"

Failing(p) ==
  /\ Goto(p, AfterFailure(p))
  /\ answer' = IF p \in Builds /\ ~Initial(p) THEN [answer EXCEPT ![p] = "FAILED"] ELSE answer
  /\ UNCHANGED <<loading, operations>>

ParentIsLatestUnchecked(p) == TRUE
ParentIsLatest(p) == parent[p] = Latest

List(p) ==
  /\ pc[p] = "list"
  /\ ParentIsLatest(p)
  /\ Latest < MaxSnapshots
  /\ next' = [next EXCEPT ![p] = Latest + 1]
  /\ Goto(p, "items")
  /\ UNCHANGED <<snapshots, build, evaluation, parent, draft, staging>>

\* somebody has published meanwhile, or the snapshots cannot be listed
ListFails(p) ==
  /\ pc[p] = "list"
  /\ Failing(p)
  /\ UNCHANGED <<snapshots, evaluation, publication>>

WriteItems(p) ==
  /\ pc[p] = "items"
  /\ staging' = [staging EXCEPT ![p] =
       [parent |-> parent[p], by |-> p, items |-> draft[p], manifest |-> FALSE]]
  /\ Goto(p, "manifest")
  /\ UNCHANGED <<snapshots, build, evaluation, parent, draft, next>>

WriteManifest(p) ==
  /\ pc[p] = "manifest"
  /\ staging' = [staging EXCEPT ![p].manifest = TRUE]
  /\ Goto(p, "rename")
  /\ UNCHANGED <<snapshots, build, evaluation, parent, draft, next>>

\* rename does not replace a directory that has files
Free(n) == snapshots[n] = None

Rename(p) ==
  /\ pc[p] = "rename"
  /\ Free(next[p])
  /\ snapshots' = [snapshots EXCEPT ![next[p]] = staging[p]]
  /\ staging' = [staging EXCEPT ![p] = None]
  /\ Goto(p, "load")
  /\ UNCHANGED <<build, evaluation, parent, draft, next>>

\* an initial snapshot is what ensureInitialSnapshot answers; a build has published
LoadPublished(p) ==
  /\ pc[p] = "load"
  /\ IF Initial(p)
     THEN Use(p, next[p]) /\ answer' = answer
     ELSE Goto(p, "answer") /\ answer' = [answer EXCEPT ![p] = "PUBLISHED"] /\ parent' = parent
  /\ UNCHANGED <<snapshots, loading, operations, evaluation, draft, staging, next>>

\* it is published and stays, and the publication fails
LoadPublishedFails(p) ==
  /\ pc[p] = "load"
  /\ Failing(p)
  /\ UNCHANGED <<snapshots, evaluation, publication>>

\* what was written is not valid, the number is taken: the staging directory is removed
WriteFails(p) ==
  /\ pc[p] \in {"items", "manifest", "rename"}
  /\ staging' = [staging EXCEPT ![p] = None]
  /\ Failing(p)
  /\ UNCHANGED <<snapshots, evaluation, parent, draft, next>>
-----------------------------------------------------------------------------
(* ensureInitialSnapshot                                                       *)

LoadLatest(p) ==
  /\ pc[p] \in {"latest", "raced"}
  /\ Latest # 0
  /\ Use(p, Latest)
  /\ UNCHANGED <<snapshots, build, evaluation, draft, staging, next>>

\* it cannot be read, or after a failure there still is none
LoadLatestFails(p) ==
  /\ pc[p] \in {"latest", "raced"}
  /\ Goto(p, "failed")
  /\ UNCHANGED <<snapshots, build, evaluation, publication>>

PublishInitial(p) ==
  /\ pc[p] = "latest"
  /\ Latest = 0
  /\ Goto(p, "list")
  /\ UNCHANGED <<snapshots, build, evaluation, publication>>
-----------------------------------------------------------------------------
(* memory-build *)

Scanned(e) ==
  {[batch |-> e, number |-> n, seen |-> files[e][n]] :
     n \in {m \in DOMAIN files[e] : files[e][m] # "absent"}}

ScanBatch(b) ==
  /\ pc[b] = "pool"
  /\ scan[b] = {}
  /\ batches[b] < Len(Selected[b])
  /\ LET e == Selected[b][batches[b] + 1]
     IN  Scanned(e) # {} /\ scan' = [scan EXCEPT ![b] = Scanned(e)]
  /\ batches' = [batches EXCEPT ![b] = @ + 1]
  /\ UNCHANGED <<snapshots, pc, sources, pool, operations, answer, evaluation, publication>>

\* what is read must have the digest of the scan, and be an Experience
AsScannedUnchecked(f) == TRUE
AsScanned(f) == files[f.batch][f.number] = f.seen
Parses(f) == files[f.batch][f.number] = "whole"

\* in the order of their numbers; the same Experience gets another source
ReadExperience(b) ==
  /\ pc[b] = "pool"
  /\ \E f \in scan[b] :
       /\ \A g \in scan[b] : f.number <= g.number
       /\ AsScanned(f) /\ Parses(f)
       /\ scan' = [scan EXCEPT ![b] = @ \ {f}]
       /\ sources' = [sources EXCEPT ![b] = @ \cup {f}]
       /\ LET x == Summaries[f.batch][f.number]
          IN  pool' = IF \E k \in DOMAIN pool[b] : pool[b][k] = x THEN pool
                      ELSE [pool EXCEPT ![b] = Append(@, x)]
  /\ UNCHANGED <<snapshots, pc, batches, operations, answer, evaluation, publication>>

\* its directory is created and the manifest of its pool written
BeginBuild(b) ==
  /\ pc[b] = "pool"
  /\ scan[b] = {} /\ batches[b] = Len(Selected[b])
  /\ Goto(b, "latest")
  /\ UNCHANGED <<snapshots, build, evaluation, publication>>

\* a batch without Experience, a file half written or changed, no directory for the build
LoadPoolFails(b) ==
  /\ pc[b] = "pool"
  /\ Goto(b, "failed")
  /\ UNCHANGED <<snapshots, build, evaluation, publication>>

\* a draft that must not be remembered is rejected instead
Repaired(answered) ==
  [i \in DOMAIN answered |->
     IF answered[i].operation \in {"ADD", "MERGE"} /\ answered[i].draft = "forbidden"
     THEN [answered[i] EXCEPT !.operation = "REJECT"] ELSE answered[i]]

Additions(answered) == {i \in DOMAIN answered : answered[i].operation = "ADD"}
Targeting(answered) ==
  {i \in DOMAIN answered : answered[i].operation \in {"MERGE", "REINFORCE", "CONFLICT"}}

\* the item an operation is about: additions are numbered from the highest number on
Destination(answered, i, items) ==
  IF answered[i].operation = "ADD"
  THEN Maximum(Present(items)) + Cardinality({j \in Additions(answered) : j <= i})
  ELSE answered[i].target

\* the indexes of all operations are those of the pool, none twice
HandledOnce(answered, experiences) ==
  /\ UNION {answered[i].indexes : i \in DOMAIN answered} = DOMAIN experiences
  /\ \A i, j \in DOMAIN answered : i # j => answered[i].indexes \cap answered[j].indexes = {}

Applicable(answered, experiences, items) ==
  /\ HandledOnce(answered, experiences)
  /\ \A i \in DOMAIN answered : answered[i].indexes \subseteq DOMAIN experiences
  /\ \A i \in Targeting(answered) :
       /\ \A j \in Targeting(answered) \ {i} : answered[j].target # answered[i].target
       /\ \/ answered[i].target \in Present(items)
          \/ \E j \in Additions(answered) :
               j < i /\ Destination(answered, j, items) = answered[i].target
  /\ \A i \in DOMAIN answered :
       answered[i].operation \in {"ADD", "MERGE"} => answered[i].draft # "malformed"

\* applyMemoryConsolidation: evidence is merged, nothing is taken away
EvidenceFor(answered, experiences, id, items) ==
  {CaseOf[experiences[k]] : k \in UNION {answered[i].indexes : i \in {j \in DOMAIN answered :
     answered[j].operation \in Adding /\ Destination(answered, j, items) = id}}}

Replaced(answered, experiences, items) ==
  [id \in Ids |-> IF EvidenceFor(answered, experiences, id, items) = {} THEN items[id]
                  ELSE EvidenceFor(answered, experiences, id, items)]
Applied(answered, experiences, items) ==
  [id \in Ids |-> items[id] \cup EvidenceFor(answered, experiences, id, items)]

\* PiMemoryConsolidator: what it returns is what the schema of result.json allows
Readable(answered) ==
  /\ Cardinality(Additions(answered)) <= MaxAdditions
  /\ \A i \in DOMAIN answered : answered[i].indexes # {}

Fits(answered, items) ==
  \A i \in Additions(answered) : Destination(answered, i, items) \in Ids

Consolidate(b) ==
  /\ pc[b] = "consolidate"
  /\ \E answered \in Answers :
       LET items == snapshots[parent[b]].items
           repaired == Repaired(answered)
       IN  /\ Readable(answered)
           /\ Fits(repaired, items)
           /\ Applicable(repaired, pool[b], items)
           /\ operations' = [operations EXCEPT ![b] = repaired]
           /\ draft' = [draft EXCEPT ![b] = Applied(repaired, pool[b], items)]
  /\ Goto(b, "list")
  /\ UNCHANGED <<snapshots, loading, answer, evaluation, parent, staging, next>>

\* no answer, one that breaks its rules, inputs not read, configuration changed
ConsolidateFails(b) ==
  /\ pc[b] = "consolidate"
  /\ Failing(b)
  /\ UNCHANGED <<snapshots, evaluation, publication>>

WriteAnswer(b) ==
  /\ pc[b] = "answer"
  /\ Goto(b, "done")
  /\ UNCHANGED <<snapshots, build, evaluation, publication>>

\* result.json cannot be written: the command fails, whatever it has published
WriteAnswerFails(b) ==
  /\ pc[b] = "answer"
  /\ Goto(b, "failed")
  /\ UNCHANGED <<snapshots, build, evaluation, publication>>
-----------------------------------------------------------------------------
(* evaluate *)

PinFrozen(e) ==
  /\ pc[e] = "pin"
  /\ Requested[e] \in Listed
  /\ Use(e, Requested[e])
  /\ UNCHANGED <<snapshots, build, evaluation, draft, staging, next>>

PinFails(e) ==
  /\ pc[e] = "pin"
  /\ Goto(e, "failed")
  /\ UNCHANGED <<snapshots, build, evaluation, publication>>

\* filterMemoryCatalog: which entries match depends on metadata left out here
FilteredCatalogs(items) == SUBSET Present(items)

\* PiMemorySelector: an answer about an item outside the filtered catalog is refused
PiSelection(raw, matching) == IF raw \subseteq matching THEN raw ELSE {}

\* selectMemoryBestEffort trusts no selector: all of its answer counts, or nothing
Chosen(raw, matching) ==
  IF raw \subseteq matching /\ Cardinality(raw) <= MaxSelected THEN raw ELSE {}

Only(items, ids) == [i \in Ids |-> IF i \in ids THEN items[i] ELSE {}]

\* the file of the previous turn is replaced, or removed when nothing was selected
AdvisedUnlessEmpty(e, ids) ==
  IF ids = {} THEN advice[e] ELSE Only(snapshots[parent[e]].items, ids)
Advised(e, ids) == Only(snapshots[parent[e]].items, ids)

PrepareAgentTurn(e) ==
  /\ pc[e] = "turns"
  /\ \E matching \in FilteredCatalogs(snapshots[parent[e]].items), raw \in SUBSET Ids :
       /\ filtered' = [filtered EXCEPT ![e] = matching]
       /\ advice' = [advice EXCEPT ![e] = Advised(e, Chosen(PiSelection(raw, matching), matching))]
  /\ UNCHANGED <<snapshots, pc, build, publication, files>>

\* the completion hook of a case creates its file and writes it, one case after the other
CreateExperience(e) ==
  /\ pc[e] = "turns"
  /\ Mode[e] = "read_write"
  /\ \E n \in DOMAIN files[e] :
       /\ \A m \in DOMAIN files[e] : IF m < n THEN files[e][m] # "partial"
                                                 ELSE files[e][m] = "absent"
       /\ files' = [files EXCEPT ![e][n] = "partial"]
  /\ UNCHANGED <<snapshots, pc, build, publication, filtered, advice>>

WriteExperience(e) ==
  /\ pc[e] = "turns"
  /\ \E n \in DOMAIN files[e] :
       files[e][n] = "partial" /\ files' = [files EXCEPT ![e][n] = "whole"]
  /\ UNCHANGED <<snapshots, pc, build, publication, filtered, advice>>

\* after a hook has failed no other one is called: its file may stay as it is
EndEvaluation(e) ==
  /\ pc[e] = "turns"
  /\ Goto(e, "done")
  /\ UNCHANGED <<snapshots, build, evaluation, publication>>
-----------------------------------------------------------------------------
Dies(p) ==
  /\ pc[p] \in Steps
  /\ Goto(p, "failed")
  /\ UNCHANGED <<snapshots, build, evaluation, publication>>

-----------------------------------------------------------------------------
Publish(p) ==
  \/ List(p) \/ ListFails(p) \/ WriteItems(p) \/ WriteManifest(p)
  \/ Rename(p) \/ LoadPublished(p) \/ LoadPublishedFails(p)
  \/ LoadLatest(p) \/ LoadLatestFails(p) \/ PublishInitial(p)

Build(b) ==
  \/ Publish(b)
  \/ ScanBatch(b) \/ ReadExperience(b) \/ BeginBuild(b) \/ LoadPoolFails(b)
  \/ Consolidate(b) \/ ConsolidateFails(b) \/ WriteAnswer(b)

Evaluate(e) ==
  \/ Publish(e) \/ PinFrozen(e) \/ PinFails(e)
  \/ PrepareAgentTurn(e) \/ CreateExperience(e) \/ WriteExperience(e) \/ EndEvaluation(e)

Next ==
  \/ \E b \in Builds : Build(b) \/ WriteAnswerFails(b)
  \/ \E e \in Evaluations : Evaluate(e)
  \/ \E p \in Processes : WriteFails(p) \/ Dies(p)

Spec == Init /\ [][Next]_vars
-----------------------------------------------------------------------------
(* Properties. *)

TypeOK ==
  /\ snapshots \in [Numbers -> Snapshots \cup {None}]
  /\ DOMAIN files = Batches
  /\ \A e \in Batches : files[e] \in [DOMAIN Summaries[e] -> {"absent", "partial", "whole"}]
  /\ pc \in [Processes -> Steps \cup Stopped]
  /\ batches \in [Builds -> Nat]
  /\ scan \in [Builds -> SUBSET Sources] /\ sources \in [Builds -> SUBSET Sources]
  /\ pool \in [Builds -> Seq(Experiences)]
  /\ operations \in [Builds -> Seq(OperationRecords)]
  /\ parent \in [Processes -> 0..MaxSnapshots]
  /\ draft \in [Processes -> Items]
  /\ staging \in [Processes -> Snapshots \cup {None}]
  /\ next \in [Processes -> 0..MaxSnapshots]
  /\ answer \in [Builds -> Statuses]
  /\ filtered \in [Evaluations -> SUBSET Ids]
  /\ advice \in [Evaluations -> Items]

(* The snapshots are one chain, whoever publishes at the same time: numbers    *)
(* have no gap, each snapshot extends the one before and keeps every evidence  *)
(* of every item, none is ever replaced (memory.ts:509).                       *)
Chain == INSTANCE MemoryChain WITH chain <- [n \in 1..Latest |-> snapshots[n].items]
ImplementsChain == Chain!Spec

(* Evidence is earned: what a snapshot adds to its parent are sources of       *)
(* Experiences that an operation of the build that published it accepted and   *)
(* none rejected or contested; a file its manifest names was whole when the    *)
(* digest in the manifest was taken, though its batch may still have been      *)
(* written; and the snapshot is complete (experience-batch-loader.ts:101).     *)
Accepted(b) ==
  {pool[b][k] : k \in {j \in DOMAIN pool[b] :
     /\ \E i \in DOMAIN operations[b] : j \in operations[b][i].indexes
     /\ \A i \in DOMAIN operations[b] :
          j \in operations[b][i].indexes => operations[b][i].operation \in Adding}}

EvidenceIsEarned ==
  \A n \in Listed :
    /\ snapshots[n].manifest
    /\ snapshots[n].parent = n - 1
    /\ n > 1 =>
         LET b == snapshots[n].by
         IN  /\ b \in Builds
             /\ \A f \in sources[b] : f.seen = "whole"
             /\ \A i \in Ids : snapshots[n].items[i] \ snapshots[n - 1].items[i]
                                 \subseteq {CaseOf[x] : x \in Accepted(b)}

PublishedBy(b) == {n \in Listed : snapshots[n].by = b /\ n > 1}

(* Whatever a build answers, and wherever it dies, it publishes at most one    *)
(* snapshot, the successor of the one it consolidated. When it answers         *)
(* PUBLISHED there is one, result.json accounts for every Experience of the    *)
(* pool in exactly one operation, and the case of each accepted one can be     *)
(* found in the very item its operation is about. (A build that answers FAILED *)
(* may have published as well: memory.ts:562.)                                 *)
AnswersAreTrue ==
  \A b \in Builds :
    /\ PublishedBy(b) \subseteq {parent[b] + 1}
    /\ answer[b] = "PUBLISHED" =>
         /\ PublishedBy(b) # {}
         /\ \A k \in DOMAIN pool[b] : \E i \in DOMAIN operations[b] :
              LET id == Destination(operations[b], i, snapshots[parent[b]].items)
              IN  /\ \A j \in DOMAIN operations[b] : k \in operations[b][j].indexes <=> i = j
                  /\ operations[b][i].operation \in Adding =>
                       CaseOf[pool[b][k]] \in snapshots[parent[b] + 1].items[id]

(* The advice of a turn is of the snapshot the profile of the batch names, not *)
(* of a later one, and only items this turn's query matches: no advice of an   *)
(* earlier turn stays in the workspace (index.ts:1180).                        *)
AdviceIsPinned ==
  \A e \in Evaluations :
    /\ Mode[e] = "frozen" /\ parent[e] # 0 => parent[e] = Requested[e]
    /\ Cardinality(Present(advice[e])) <= MaxSelected
    /\ \A i \in Present(advice[e]) :
         i \in filtered[e] /\ advice[e][i] = snapshots[parent[e]].items[i]
=============================================================================
