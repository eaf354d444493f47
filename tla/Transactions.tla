---------------------------- MODULE Transactions ----------------------------
(***************************************************************************)
(* The filesystem transaction runner of the orchestrator                   *)
(* (packages/orchestrator-core/src/transactions.js): one transaction is    *)
(* applied step by step, each step backing up its target, replacing it and *)
(* writing the journal, and may then be rolled back from that journal, any *)
(* number of times.  The process may stop at any point, by an exception or *)
(* by being killed, and leave the target of the step it was at half done.  *)
(*                                                                         *)
(* The disk is a function from paths to nodes.  Only the tree below the    *)
(* targets matters, so a file is its content and a half-written file       *)
(* counts as gone.  The rollback list holds entries in the order of the    *)
(* steps, so it is the set of the numbers of its steps.                    *)
(***************************************************************************)
EXTENDS Naturals, Sequences

CONSTANTS
  Path,    \* the paths the transaction may touch, and those beneath them
  Above,   \* Above[p]: the directories p lies in
  Node,    \* what a path may hold
  Absent,  \* nothing
  Dir,     \* a directory
  Trees,   \* the disks a transaction may find
  Plan     \* the steps: kind, target and the tree the target becomes

N == Len(Plan)
Steps == 1..N
Target(i) == Plan[i].target

\* A target and everything in it.
Under(t) == {p \in Path : p = t \/ t \in Above[p]}

\* What exists lies in directories that exist.
Closed(d) == \A p \in Path : \A q \in Above[p] : d[p] # Absent => d[q] # Absent

\* The tree a step puts at t is there, and so is every directory in it.
Whole(tree, t) ==
  tree[t] # Absent /\ \A p \in Under(t) : \A q \in Above[p] \cap Under(t) : tree[p] # Absent => tree[q] # Absent

\* "verify" stands for the three verifications and the health snapshots.
Kinds == {"verify", "ensure", "copy", "write"}
ASSUME PathsAssumption ==
  /\ Above \in [Path -> SUBSET Path]
  /\ \A p \in Path : p \notin Above[p] /\ \A q \in Above[p] : Above[q] \subseteq Above[p]
  /\ \A p \in Path : \A q, r \in Above[p] : q = r \/ q \in Above[r] \/ r \in Above[q]
ASSUME NodeAssumption == Absent \in Node /\ Dir \in Node /\ Absent # Dir
ASSUME TreesAssumption == Trees \subseteq [Path -> Node] /\ \A d \in Trees : Closed(d)
\* Every builder of steps names paths of its own: no two steps replace the
\* same target (the backup of the first would be overwritten).
ASSUME PlanAssumption ==
  /\ Plan \in Seq([kind : Kinds, target : Path, tree : [Path -> Node]])
  /\ \A i, j \in Steps : Plan[i].kind # "verify" /\ Plan[j].kind # "verify" /\ Target(i) = Target(j) => i = j
  /\ \A i \in Steps : Plan[i].kind # "verify" => Whole(Plan[i].tree, Target(i))

VARIABLES
  disk,
  backup,   \* backup[t]: the copy of t in the backup root; none if its root is Absent
  journal,  \* the rollback list in the journal file
  written,  \* the journal file exists
  entries,  \* the rollback list in memory
  phase,    \* what the process does, or how the last one ended
  at, pc,   \* the step being applied and how far it is
  ready,    \* the steps that are ready in the plan
  undo,     \* the steps still to be undone by the running rollback
  before    \* history: the disk the transaction found

vars == <<disk, backup, journal, written, entries, phase, at, pc, ready, undo, before>>

Ended == {"applied", "failed", "crashed", "halted", "rolled-back"}

TypeOK ==
  /\ disk \in [Path -> Node] /\ before \in [Path -> Node]
  /\ backup \in [Path -> [Path -> Node]]
  /\ journal \subseteq Steps /\ entries \subseteq Steps /\ ready \subseteq Steps
  /\ written \in BOOLEAN
  /\ phase \in {"applying", "rolling"} \cup Ended
  /\ at \in 1..(N + 1) /\ pc \in {"work", "replace", "log"}
  /\ undo \in 0..N

----------------------------------------------------------------------------
(* Effects on the disk.                                                    *)

\* mkdir -p of the parents, then the tree in place of whatever t was.
Put(d, t, tree) ==
  [p \in Path |-> IF p \in Under(t) THEN tree[p]
                  ELSE IF p \in Above[t] /\ d[p] = Absent THEN Dir ELSE d[p]]

Erase(d, t) == [p \in Path |-> IF p \in Under(t) THEN Absent ELSE d[p]]

\* A replacement that stops half way: some of the old removed, or all of it
\* removed and some of the new in place.
Torn(d, t, tree) ==
  {[p \in Path |-> IF p \in gone THEN Absent ELSE d[p]] : gone \in SUBSET Under(t)}
  \cup {[p \in Path |-> IF p \in done THEN tree[p] ELSE IF p \in Under(t) THEN Absent
                        ELSE Put(d, t, tree)[p]] : done \in SUBSET Under(t)}

EmptyDir(t) == [p \in Path |-> IF p = t THEN Dir ELSE Absent]

MutantCopied(d, t) == [p \in Path |-> IF p = t THEN d[p] ELSE Absent]
\* backupExisting: nothing is copied if there is nothing.
Copied(d, t) == [p \in Path |-> IF p \in Under(t) THEN d[p] ELSE Absent]

----------------------------------------------------------------------------
Init ==
  /\ disk \in Trees /\ before = disk
  /\ ready \in SUBSET Steps
  /\ backup = [t \in Path |-> [p \in Path |-> Absent]]
  /\ journal = {} /\ written = FALSE /\ entries = {}
  /\ phase = "applying" /\ at = 1 /\ pc = "work" /\ undo = 0

Doing(kinds) == phase = "applying" /\ at <= N /\ at \in ready /\ Plan[at].kind \in kinds

\* A step that is blocked or skipped in the plan is passed over, whatever the
\* status of the transaction.
Skip ==
  /\ phase = "applying" /\ at <= N /\ at \notin ready
  /\ at' = at + 1
  /\ UNCHANGED <<disk, backup, journal, written, entries, phase, pc, ready, undo, before>>

Verify ==
  /\ Doing({"verify"}) /\ pc = "work"
  /\ pc' = "log"
  /\ UNCHANGED <<disk, backup, journal, written, entries, phase, at, ready, undo, before>>

\* Only a directory that was made is recorded.
Ensure ==
  /\ Doing({"ensure"}) /\ pc = "work"
  /\ LET t == Target(at) IN
     IF disk[t] = Absent
     THEN disk' = Put(disk, t, EmptyDir(t)) /\ entries' = entries \cup {at}
     ELSE UNCHANGED <<disk, entries>>
  /\ pc' = "log"
  /\ UNCHANGED <<backup, journal, written, phase, at, ready, undo, before>>

BackUp ==
  /\ Doing({"copy", "write"}) /\ pc = "work"
  /\ backup' = [backup EXCEPT ![Target(at)] = Copied(disk, Target(at))]
  /\ pc' = "replace"
  /\ UNCHANGED <<disk, journal, written, entries, phase, at, ready, undo, before>>

Replace ==
  /\ Doing({"copy", "write"}) /\ pc = "replace"
  /\ disk' = Put(disk, Target(at), Plan[at].tree)
  /\ entries' = entries \cup {at}
  /\ pc' = "log"
  /\ UNCHANGED <<backup, journal, written, phase, at, ready, undo, before>>

MutantRecord == journal' = entries \ {at} /\ written' = TRUE
\* writeTransactionJournal replaces the file by a rename.
Record == journal' = entries /\ written' = TRUE

Log ==
  /\ Doing(Kinds) /\ pc = "log"
  /\ Record
  /\ at' = at + 1 /\ pc' = "work"
  /\ UNCHANGED <<disk, backup, entries, phase, ready, undo, before>>

Finish ==
  /\ phase = "applying" /\ at = N + 1
  /\ Record
  /\ phase' = "applied"
  /\ UNCHANGED <<disk, backup, entries, at, pc, ready, undo, before>>

\* What the step's work may have left behind when it stops in the middle.
HalfDone == IF pc = "replace" THEN Torn(disk, Target(at), Plan[at].tree) ELSE {disk}

\* The step, or the journal write after it, throws: the loop ends and the
\* journal is written once more.
Fail ==
  /\ Doing(Kinds)
  /\ disk' \in HalfDone
  /\ Record
  /\ phase' = "failed"
  /\ UNCHANGED <<backup, entries, at, pc, ready, undo, before>>

\* The process is killed, or that last write throws as well.
Crash ==
  /\ phase = "applying"
  /\ disk' \in IF at \in Steps THEN HalfDone ELSE {disk}
  /\ phase' = "crashed" /\ entries' = {}
  /\ UNCHANGED <<backup, journal, written, at, pc, ready, undo, before>>

----------------------------------------------------------------------------
(* Rollback.                                                               *)

\* decorateRollbackStep: a directory is restored from a directory, a file
\* from a file; what has no backup was created and is removed.
Undoable(i) ==
  LET root == backup[Target(i)][Target(i)] IN
  root # Absent => (root = Dir <=> Plan[i].kind = "copy")

BeginRollback ==
  /\ phase \in Ended /\ written
  /\ \A i \in journal : Undoable(i)
  /\ phase' = "rolling" /\ undo' = N
  /\ UNCHANGED <<disk, backup, journal, written, entries, at, pc, ready, before>>

Undone(d, i) ==
  LET t == Target(i) IN
  IF backup[t][t] # Absent THEN Put(d, t, backup[t]) ELSE Erase(d, t)

MutantTurn == IF undo = 0 THEN undo ELSE N + 1 - undo
\* The rollback list is reversed: the last step is undone first.
Turn == undo

UndoStep ==
  /\ phase = "rolling" /\ undo > 0
  /\ disk' = IF Turn \in journal THEN Undone(disk, Turn) ELSE disk
  /\ undo' = undo - 1
  /\ UNCHANGED <<backup, journal, written, entries, phase, at, pc, ready, before>>

\* The rollback throws or its process is killed.
UndoHalts ==
  /\ phase = "rolling"
  /\ disk' \in IF undo > 0 /\ Turn \in journal THEN Torn(disk, Target(Turn), backup[Target(Turn)])
               ELSE {disk}
  /\ phase' = "halted"
  /\ UNCHANGED <<backup, journal, written, entries, at, pc, ready, undo, before>>

UndoDone ==
  /\ phase = "rolling" /\ undo = 0
  /\ phase' = "rolled-back"
  /\ UNCHANGED <<disk, backup, journal, written, entries, at, pc, ready, undo, before>>

Next ==
  \/ Skip \/ Verify \/ Ensure \/ BackUp \/ Replace \/ Log \/ Finish \/ Fail \/ Crash
  \/ BeginRollback \/ UndoStep \/ UndoHalts \/ UndoDone

Spec == Init /\ [][Next]_vars

----------------------------------------------------------------------------
(* Properties.                                                             *)

\* As good as before: a directory made on the way to a target is left.
Same(was, is) == is = was \/ (was = Absent /\ is = Dir)

\* The step the process was at when it last worked on the disk.
InFlight(p) == at \in Steps /\ pc # "work" /\ Plan[at].kind # "verify" /\ p \in Under(Target(at))

Covered(i, p) == p \in Under(Target(i))

\* What a rollback can undo is never behind the disk by more than the step in
\* flight: every path that is not as it was lies below a target the journal
\* lists or below the target of that one step (the journal write inside the
\* loop of executeOperationTransaction), at every moment of apply and rollback.
JournalCovers ==
  \A p \in Path : Same(before[p], disk[p]) \/ InFlight(p) \/ \E i \in journal : Covered(i, p)

\* The backup of a step keeps the original of every path that no earlier
\* recorded step had replaced, through failures and repeated rollbacks
\* (backupExisting runs before the target is touched; rollbacks back up
\* elsewhere).
BackupsKeepOriginals ==
  \A i \in journal : \A p \in Under(Target(i)) :
    (\A j \in journal : j < i => ~Covered(j, p)) => Same(before[p], backup[Target(i)][p])

\* A rollback that reports success has put back every path, however the
\* transaction ended, whatever targets lie inside one another, and however
\* often the rollback itself stopped half way before; only the target of a
\* step that was cut off before it was journaled is left out.
RollbackRestores ==
  phase = "rolled-back" =>
    \A p \in Path : (InFlight(p) /\ at \notin journal) \/ Same(before[p], disk[p])

\* cli/test/transaction.test.js:46: an update "verifies release evidence
\* before component staging".  A step that replaces something is applied only
\* after every verification that stands before it.
VerifiedBeforeStaging ==
  \A i \in journal : \A j \in 1..(i - 1) : Plan[j].kind = "verify" => j \in ready

============================================================================
