----------------------------- MODULE RunPublication -----------------------------
(***************************************************************************)
(* Creation of runs: createCoreLoopRun (core-loop/src/materialize.ts) with *)
(* the staging of a fixture, the choice of a directory name and the        *)
(* publication of the run by one rename.                                   *)
(*                                                                         *)
(* Several calls, of one process or of several, share the runs root: runs  *)
(* started in the same second ask for the same names.  Whoever else can    *)
(* write there, and to the staging directories, may do so at any moment;   *)
(* every operation of the file system may fail, and a process may die.     *)
(***************************************************************************)
EXTENDS Integers, Sequences, FiniteSets

CONSTANTS
  Calls,         \* the calls of createCoreLoopRun
  Names,         \* names of directories below the runs root, up to letter case
  Candidates,    \* per call: the names its factory answers, the last one for ever
  MaxCollisions, \* MAX_RUN_DIRECTORY_COLLISIONS
  Contents,      \* what a provider may stage, spec and RTL
  Files, Empty,  \* what else there may be under a name: with content, an empty directory
  Nothing

EvidenceFiles == 3   \* request, fixture and baseline manifest

Steps == {"stage", "scan", "look", "copy", "verify", "evidence", "rename", "clean"}
Finished == {"published", "warned", "failed", "dead"}

Runs == [by : Calls, content : Contents, files : 0..EvidenceFiles]
Foreign == {Files, Empty}

ASSUME PublicationAssumption ==
  /\ \A c \in Calls : Candidates[c] \in Seq(Names) /\ Candidates[c] # << >>
  /\ MaxCollisions \in Nat
  /\ Nothing \notin Contents \cup Foreign
  /\ Files # Empty
  /\ \A r \in Runs : r \notin Foreign \cup {Nothing}
-----------------------------------------------------------------------------
VARIABLES
  root,      \* what there is under each name below the runs root
  step,      \* step of each call
  staging,   \* content of its staging directory, None when there is none
  expected,  \* content the digests of its fixture were computed of
  temporary, \* its .run-staging directory, as a run, None when there is none
  index,     \* its collisionIndex
  attempted  \* names it found taken

publication == <<root, step, staging, expected, temporary, index, attempted>>

NameAt(c, i) ==
  IF i < Len(Candidates[c]) THEN Candidates[c][i + 1] ELSE Candidates[c][Len(Candidates[c])]
Name(c) == NameAt(c, index[c])

PublicationInit ==
  /\ root = [n \in Names |-> Nothing]
  /\ step = [c \in Calls |-> "stage"]
  /\ staging = [c \in Calls |-> Nothing]
  /\ expected = [c \in Calls |-> Nothing]
  /\ temporary = [c \in Calls |-> Nothing]
  /\ index = [c \in Calls |-> 0]
  /\ attempted = [c \in Calls |-> {}]

Goto(c, next) == step' = [step EXCEPT ![c] = next]
-----------------------------------------------------------------------------
(* prepareFixture *)

Stage(c) ==
  /\ step[c] = "stage"
  /\ \E content \in Contents : staging' = [staging EXCEPT ![c] = content]
  /\ Goto(c, "scan")
  /\ UNCHANGED <<root, expected, temporary, index, attempted>>

\* the files are scanned, checked and digested
Scan(c) ==
  /\ step[c] = "scan"
  /\ expected' = [expected EXCEPT ![c] = staging[c]]
  /\ Goto(c, "look")
  /\ UNCHANGED <<root, staging, temporary, index, attempted>>
-----------------------------------------------------------------------------
(* publishRun *)

MayAdvance(c) ==
  /\ index[c] + 1 <= MaxCollisions
  /\ NameAt(c, index[c] + 1) \notin attempted[c] \cup {Name(c)}

AdvanceInPlace(c) == index' = index /\ attempted' = [attempted EXCEPT ![c] = @ \cup {Name(c)}]
NextName(c) ==
  /\ index' = [index EXCEPT ![c] = @ + 1]
  /\ attempted' = [attempted EXCEPT ![c] = @ \cup {Name(c)}]

Look(c) ==
  /\ step[c] = "look"
  /\ root[Name(c)] = Nothing
  /\ Goto(c, "copy")
  /\ UNCHANGED <<root, staging, expected, temporary, index, attempted>>

\* an lstat that fails is taken for a free name: the rename will tell
LookFails(c) ==
  /\ step[c] = "look"
  /\ Goto(c, "copy")
  /\ UNCHANGED <<root, staging, expected, temporary, index, attempted>>

LookFurther(c) ==
  /\ step[c] = "look"
  /\ root[Name(c)] # Nothing
  /\ MayAdvance(c)
  /\ NextName(c)
  /\ UNCHANGED <<root, step, staging, expected, temporary>>

\* the files are copied from where they were staged, not from memory
Copy(c) ==
  /\ step[c] = "copy"
  /\ temporary' = [temporary EXCEPT ![c] = [by |-> c, content |-> staging[c], files |-> 0]]
  /\ Goto(c, "verify")
  /\ UNCHANGED <<root, staging, expected, index, attempted>>

VerifiedUnchecked(c) == TRUE
Verified(c) == temporary[c].content = expected[c]

Verify(c) ==
  /\ step[c] = "verify"
  /\ Verified(c)
  /\ Goto(c, "evidence")
  /\ UNCHANGED <<root, staging, expected, temporary, index, attempted>>

WriteEvidence(c) ==
  /\ step[c] = "evidence"
  /\ temporary' = [temporary EXCEPT ![c].files = @ + 1]
  /\ Goto(c, IF temporary'[c].files = EvidenceFiles THEN "rename" ELSE "evidence")
  /\ UNCHANGED <<root, staging, expected, index, attempted>>

\* a directory is never renamed onto one with files; onto an empty one it may be
Replaceable(n) == root[n] \in {Nothing, Empty}

Rename(c) ==
  /\ step[c] = "rename"
  /\ Replaceable(Name(c))
  /\ root' = [root EXCEPT ![Name(c)] = temporary[c]]
  /\ temporary' = [temporary EXCEPT ![c] = Nothing]
  /\ Goto(c, "clean")
  /\ UNCHANGED <<staging, expected, index, attempted>>

\* somebody was faster
RenameElsewhere(c) ==
  /\ step[c] = "rename"
  /\ root[Name(c)] # Nothing
  /\ MayAdvance(c)
  /\ NextName(c)
  /\ UNCHANGED <<root, step, staging, expected, temporary>>

(* The temporary run and the staging directory are removed, if they can be.    *)
GiveUp(c) ==
  /\ Goto(c, "failed")
  /\ \E gone \in SUBSET {"temporary", "staging"} :
       /\ temporary' = IF "temporary" \in gone THEN [temporary EXCEPT ![c] = Nothing] ELSE temporary
       /\ staging' = IF "staging" \in gone THEN [staging EXCEPT ![c] = Nothing] ELSE staging
  /\ UNCHANGED <<root, expected, index, attempted>>

\* no name is left, or the content changed
Refuse(c) ==
  /\ \/ step[c] \in {"look", "rename"} /\ root[Name(c)] # Nothing /\ ~MayAdvance(c)
     \/ step[c] = "verify" /\ ~Verified(c)
  /\ GiveUp(c)

\* the provider, a check of what it staged or an operation of the file system
Fails(c) ==
  /\ step[c] \in Steps \ {"clean"}
  /\ GiveUp(c)
-----------------------------------------------------------------------------
(* createCoreLoopRun, after the publication *)

Clean(c) ==
  /\ step[c] = "clean"
  /\ staging' = [staging EXCEPT ![c] = Nothing]
  /\ Goto(c, "published")
  /\ UNCHANGED <<root, expected, temporary, index, attempted>>

FailureOfCleanup == "failed"
WarningOfCleanup == "warned"
CleanFails(c) ==
  /\ step[c] = "clean"
  /\ Goto(c, WarningOfCleanup)
  /\ UNCHANGED <<root, staging, expected, temporary, index, attempted>>
-----------------------------------------------------------------------------
(* The rest of the world. *)

Dies(c) ==
  /\ step[c] \in Steps
  /\ Goto(c, "dead")
  /\ UNCHANGED <<root, staging, expected, temporary, index, attempted>>

StagingChanges(c) ==
  /\ step[c] \in Steps
  /\ staging[c] # Nothing
  /\ \E content \in Contents \ {staging[c]} : staging' = [staging EXCEPT ![c] = content]
  /\ UNCHANGED <<root, step, expected, temporary, index, attempted>>

OtherCreates(n) ==
  /\ root[n] = Nothing
  /\ \E directory \in Foreign : root' = [root EXCEPT ![n] = directory]
  /\ UNCHANGED <<step, staging, expected, temporary, index, attempted>>

OtherRemoves(n) ==
  /\ root[n] \in Foreign
  /\ root' = [root EXCEPT ![n] = Nothing]
  /\ UNCHANGED <<step, staging, expected, temporary, index, attempted>>
-----------------------------------------------------------------------------
Create(c) ==
  \/ Stage(c) \/ Scan(c) \/ Look(c) \/ LookFurther(c) \/ Copy(c) \/ Verify(c)
  \/ WriteEvidence(c) \/ Rename(c) \/ RenameElsewhere(c) \/ Refuse(c) \/ Clean(c)

PublicationNext ==
  \/ \E c \in Calls :
       \/ Create(c) \/ LookFails(c) \/ Fails(c) \/ CleanFails(c) \/ Dies(c)
       \/ StagingChanges(c)
  \/ \E n \in Names : OtherCreates(n) \/ OtherRemoves(n)

\* every operation of the file system returns; that one fails is never needed
PublicationSpec ==
  /\ PublicationInit /\ [][PublicationNext]_publication
  /\ \A c \in Calls : WF_publication(Create(c))
-----------------------------------------------------------------------------
(* Properties. *)

PublicationTypeOK ==
  /\ root \in [Names -> Runs \cup Foreign \cup {Nothing}]
  /\ step \in [Calls -> Steps \cup Finished]
  /\ staging \in [Calls -> Contents \cup {Nothing}]
  /\ expected \in [Calls -> Contents \cup {Nothing}]
  /\ temporary \in [Calls -> Runs \cup {Nothing}]
  /\ index \in [Calls -> 0..MaxCollisions]
  /\ attempted \in [Calls -> SUBSET Names]

RunsOf(c) == {n \in Names : root[n] \in Runs /\ root[n].by = c}

(* Whatever is found below the runs root is whole, at every moment and after   *)
(* every crash: all evidence is there and its workspace is the content the     *)
(* digests of its fixture were computed of, whoever wrote to the staging       *)
(* directory in the meantime (materialize.ts:401).                             *)
PublishedIsWhole ==
  \A c \in Calls : \A n \in RunsOf(c) :
    root[n].files = EvidenceFiles /\ root[n].content = expected[c]

(* A publication is definitive: a call that published has exactly one run, the *)
(* one it answers with, nobody replaces it, and a call that failed has none    *)
(* (docs/tasks/R01-core-loop-contract-and-fixtures.md:208).                    *)
SuccessIsDefinitive ==
  \A c \in Calls :
    /\ step[c] \in {"clean", "published", "warned"} => RunsOf(c) = {Name(c)}
    /\ step[c] \in (Steps \ {"clean"}) \cup {"failed"} => RunsOf(c) = {}

(* Every call ends, published or failed, however the others race for names.    *)
EveryCallEnds == \A c \in Calls : <>(step[c] \in Finished)
=============================================================================
