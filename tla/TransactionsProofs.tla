------------------------- MODULE TransactionsProofs -------------------------
(***************************************************************************)
(* What is proved of the transaction runner, for every tree of paths, plan *)
(* and disk: its journal is never behind the disk by more than one step,   *)
(* its backups keep the originals, and a rollback that succeeds has put    *)
(* everything back but the target of a step cut off before it was          *)
(* journaled.                                                              *)
(***************************************************************************)
EXTENDS Transactions, TLAPS

\* The steps with a rollback entry, and the one whose backup is just taken.
Kept == journal \cup (IF phase = "applying"
                      THEN entries \cup (IF pc = "replace" THEN {at} ELSE {}) ELSE {})

\* The step counter only moves forward, and the journal is behind the list in
\* memory by the current step at most.
InOrder ==
  /\ pc = "replace" => at \in Steps /\ Plan[at].kind \in {"copy", "write"}
  /\ pc = "log" => at \in Steps
  /\ \A i \in Kept : Plan[i].kind # "verify"
  /\ phase = "applying" =>
       /\ pc # "work" => at \in ready
       /\ journal \subseteq entries /\ entries \ journal \subseteq {at}
       /\ pc # "log" => journal = entries /\ at \notin entries
       /\ \A i \in entries : i <= at

\* While steps are applied, what differs from before has an entry.
DiskListed ==
  phase = "applying" => \A p \in Path : Same(before[p], disk[p]) \/ \E i \in entries : Covered(i, p)

\* Backups are whole, and only kept steps have one.
BackupsWhole ==
  /\ \A t \in Path : backup[t][t] = Absent => \A p \in Under(t) : backup[t][p] = Absent
  /\ phase = "applying" =>
       \A t \in Path : (\A i \in Kept : Target(i) # t) => \A p \in Path : backup[t][p] = Absent

BackupsOriginal ==
  \A i \in Kept : \A p \in Under(Target(i)) :
    (\A j \in Kept : j < i => ~Covered(j, p)) => Same(before[p], backup[Target(i)][p])

\* What the rollback has passed is as it was.
Restoring ==
  phase = "rolling" => \A p \in Path :
    (\A i \in journal : i <= undo => ~Covered(i, p)) =>
      Same(before[p], disk[p]) \/ (InFlight(p) /\ at \notin journal)

IInv ==
  /\ TypeOK /\ InOrder /\ DiskListed /\ BackupsWhole /\ BackupsOriginal
  /\ (phase = "applying" => Closed(disk))
  /\ JournalCovers /\ Restoring /\ RollbackRestores

----------------------------------------------------------------------------
(* The effects on the disk.                                                *)

LEMMA UnderPath == \A t : Under(t) \subseteq Path
BY DEF Under

LEMMA PutTyped ==
  ASSUME NEW d \in [Path -> Node], NEW t, NEW tree \in [Path -> Node]
  PROVE  Put(d, t, tree) \in [Path -> Node]
BY NodeAssumption DEF Put

LEMMA EraseTyped ==
  ASSUME NEW d \in [Path -> Node], NEW t
  PROVE  Erase(d, t) \in [Path -> Node]
BY NodeAssumption DEF Erase

LEMMA TornTyped ==
  ASSUME NEW d \in [Path -> Node], NEW t, NEW tree \in [Path -> Node], NEW e \in Torn(d, t, tree)
  PROVE  e \in [Path -> Node]
BY NodeAssumption, PutTyped DEF Torn

\* Outside the target nothing gets worse.
LEMMA PutOutside ==
  ASSUME NEW d, NEW t, NEW tree, NEW p \in Path, p \notin Under(t), NEW was, Same(was, d[p])
  PROVE  Same(was, Put(d, t, tree)[p])
BY DEF Put, Same

LEMMA EraseOutside ==
  ASSUME NEW d, NEW t, NEW p \in Path, p \notin Under(t), NEW was, Same(was, d[p])
  PROVE  Same(was, Erase(d, t)[p])
BY DEF Erase

LEMMA TornOutside ==
  ASSUME NEW d, NEW t, NEW tree, NEW p \in Path, p \notin Under(t), NEW was, Same(was, d[p]),
         NEW e \in Torn(d, t, tree)
  PROVE  Same(was, e[p])
<1>1. CASE \E gone \in SUBSET Under(t) : e = [q \in Path |-> IF q \in gone THEN Absent ELSE d[q]]
  BY <1>1
<1>2. CASE \E done \in SUBSET Under(t) :
             e = [q \in Path |-> IF q \in done THEN tree[q] ELSE IF q \in Under(t) THEN Absent
                                 ELSE Put(d, t, tree)[q]]
  BY <1>2, PutOutside
<1>3. QED BY <1>1, <1>2 DEF Torn

\* A replacement keeps the disk whole.
LEMMA PutClosed ==
  ASSUME NEW d, Closed(d), NEW t \in Path, NEW tree, Whole(tree, t)
  PROVE  Closed(Put(d, t, tree))
<1> SUFFICES ASSUME NEW p \in Path, NEW q \in Above[p], Put(d, t, tree)[p] # Absent
             PROVE  Put(d, t, tree)[q] # Absent
  BY DEF Closed
<1>0. q \in Path
  BY PathsAssumption
<1>1. CASE p \in Under(t)
  <2>1. CASE q \in Under(t)
    BY <1>0, <1>1, <2>1 DEF Put, Whole
  <2>2. CASE q \notin Under(t)
    <3>1. q \in Above[t]
      BY <1>0, <1>1, <2>2, PathsAssumption DEF Under
    <3>2. QED BY <1>0, <2>2, <3>1, NodeAssumption DEF Put
  <2>3. QED BY <2>1, <2>2
<1>2. CASE p \notin Under(t)
  <2>1. q \notin Under(t)
    BY <1>0, <1>2, PathsAssumption DEF Under
  <2>2. CASE p \in Above[t]
    <3>1. q \in Above[t]
      BY <2>2, PathsAssumption
    <3>2. QED BY <1>0, <2>1, <3>1, NodeAssumption DEF Put
  <2>3. CASE p \notin Above[t]
    <3>1. d[p] # Absent
      BY <1>2, <2>3 DEF Put
    <3>2. d[q] # Absent
      BY <3>1, <1>0 DEF Closed
    <3>3. QED BY <1>0, <2>1, <3>2, NodeAssumption DEF Put
  <2>4. QED BY <2>2, <2>3
<1>3. QED BY <1>1, <1>2

LEMMA EmptyDirTree ==
  ASSUME NEW t \in Path
  PROVE  EmptyDir(t) \in [Path -> Node] /\ Whole(EmptyDir(t), t)
BY NodeAssumption, PathsAssumption DEF EmptyDir, Whole, Under

\* Steps.
LEMMA PlanTypes ==
  ASSUME NEW i \in Steps
  PROVE  /\ N \in Nat /\ i \in 1..N
         /\ Plan[i].kind \in Kinds /\ Target(i) \in Path /\ Plan[i].tree \in [Path -> Node]
         /\ Plan[i].kind # "verify" => Whole(Plan[i].tree, Target(i))
<1> DEFINE R == [kind : Kinds, target : Path, tree : [Path -> Node]]
<1>1. Plan \in Seq(R)
  BY PlanAssumption
<1>2. N \in Nat /\ i \in 1..N
  BY <1>1 DEF Steps, N
<1>3. Plan[i] \in R
  <2> HIDE DEF R
  <2>1. QED BY <1>1, <1>2 DEF N
<1>4. Plan[i].kind # "verify" => Whole(Plan[i].tree, Target(i))
  BY PlanAssumption
<1>5. QED BY <1>2, <1>3, <1>4 DEF Target

LEMMA TargetsDiffer ==
  ASSUME NEW i \in Steps, NEW j \in Steps, Plan[i].kind # "verify", Plan[j].kind # "verify",
         Target(i) = Target(j)
  PROVE  i = j
BY PlanAssumption

----------------------------------------------------------------------------
(* Before the first step.                                                  *)

LEMMA InitIInv == Init => IInv
<1> SUFFICES ASSUME Init PROVE IInv
  OBVIOUS
<1>0. N \in Nat
  BY PlanAssumption DEF N
<1>1. disk \in [Path -> Node] /\ Closed(disk)
  BY TreesAssumption DEF Init
<1>2. TypeOK
  <2>1. backup \in [Path -> [Path -> Node]]
    BY NodeAssumption DEF Init
  <2>2. at \in 1..(N + 1) /\ undo \in 0..N
    BY <1>0 DEF Init
  <2>3. QED BY <1>1, <2>1, <2>2 DEF Init, TypeOK
<1>3. Kept = {}
  BY DEF Init, Kept
<1>4. InOrder
  BY <1>3 DEF Init, InOrder
<1>5. \A p \in Path : Same(before[p], disk[p])
  BY DEF Init, Same
<1>6. BackupsWhole
  BY UnderPath DEF Init, BackupsWhole
<1>7. BackupsOriginal
  BY <1>3 DEF BackupsOriginal
<1>8. QED BY <1>1, <1>2, <1>4, <1>5, <1>6, <1>7 DEF Init, IInv, DiskListed, JournalCovers, Restoring, RollbackRestores

----------------------------------------------------------------------------
(* While steps are applied the journal covers what the list covers, but for *)
(* the step in flight.                                                      *)

LEMMA ListToJournal ==
  ASSUME InOrder', DiskListed', phase' = "applying"
  PROVE  JournalCovers'
<1> SUFFICES ASSUME NEW p \in Path, ~Same(before'[p], disk'[p])
             PROVE  InFlight(p)' \/ \E i \in journal' : Covered(i, p)
  BY DEF JournalCovers
<1>1. PICK i \in entries' : Covered(i, p)
  BY DEF DiskListed
<1>2. CASE i \in journal'
  BY <1>1, <1>2
<1>3. CASE i \notin journal'
  <2>1. i = at' /\ pc' = "log"
    BY <1>3 DEF InOrder
  <2>2. Plan[i].kind # "verify" /\ at' \in Steps
    BY <2>1 DEF InOrder, Kept
  <2>3. QED BY <1>1, <2>1, <2>2 DEF InFlight, Covered
<1>4. QED BY <1>2, <1>3

LEMMA ApplyingIInv ==
  ASSUME TypeOK', phase' = "applying", InOrder', DiskListed', BackupsWhole', BackupsOriginal', Closed(disk')
  PROVE  IInv'
BY ListToJournal DEF IInv, Restoring, RollbackRestores

LEMMA EndedIInv ==
  ASSUME TypeOK', phase' \in {"applied", "failed", "crashed", "halted"},
         InOrder', BackupsWhole', BackupsOriginal', JournalCovers'
  PROVE  IInv'
BY DEF IInv, DiskListed, Restoring, RollbackRestores

\* Dropping the last of the kept steps does no harm to the others.
LEMMA KeptShrinks ==
  ASSUME BackupsOriginal, UNCHANGED <<backup, before>>, Kept' \subseteq Kept,
         \A i \in Kept', j \in Kept : j < i => j \in Kept'
  PROVE  BackupsOriginal'
BY DEF BackupsOriginal

LEMMA StepTyped == TypeOK /\ [Next]_vars => TypeOK'
<1> SUFFICES ASSUME TypeOK, [Next]_vars PROVE TypeOK'
  OBVIOUS
<1>0. N \in Nat
  BY PlanAssumption DEF N
<1> USE <1>0
<1>a. ASSUME at \in Steps, NEW e \in HalfDone PROVE e \in [Path -> Node]
  BY <1>a, PlanTypes, TornTyped DEF HalfDone, TypeOK
<1>1. CASE Skip
  BY <1>1 DEF Skip, TypeOK
<1>2. CASE Verify
  BY <1>2 DEF Verify, TypeOK
<1>3. CASE Ensure
  <2>1. at \in Steps
    BY <1>3 DEF Ensure, Doing, TypeOK, Steps
  <2>2. Put(disk, Target(at), EmptyDir(Target(at))) \in [Path -> Node]
    BY <2>1, PlanTypes, PutTyped, EmptyDirTree DEF TypeOK
  <2>3. disk' \in [Path -> Node] /\ entries' \subseteq Steps
    BY <1>3, <2>1, <2>2 DEF Ensure, TypeOK
  <2>4. QED BY <1>3, <2>3 DEF Ensure, TypeOK
<1>4. CASE BackUp
  <2>1. Copied(disk, Target(at)) \in [Path -> Node]
    BY NodeAssumption DEF Copied, TypeOK
  <2>2. backup' \in [Path -> [Path -> Node]]
    BY <1>4, <2>1 DEF BackUp, TypeOK
  <2>3. QED BY <1>4, <2>2 DEF BackUp, TypeOK
<1>5. CASE Replace
  <2>1. at \in Steps
    BY <1>5 DEF Replace, Doing, TypeOK, Steps
  <2>2. disk' \in [Path -> Node]
    BY <1>5, <2>1, PlanTypes, PutTyped DEF Replace, TypeOK
  <2>3. QED BY <1>5, <2>1, <2>2 DEF Replace, TypeOK
<1>6. CASE Log
  BY <1>6 DEF Log, Record, Doing, TypeOK
<1>7. CASE Finish
  BY <1>7 DEF Finish, Record, TypeOK, Ended
<1>8. CASE Fail
  <2>1. at \in Steps
    BY <1>8 DEF Fail, Doing, TypeOK, Steps
  <2>2. disk' \in [Path -> Node]
    BY <1>8, <1>a, <2>1 DEF Fail
  <2>3. QED BY <1>8, <2>2 DEF Fail, Record, TypeOK, Ended
<1>9. CASE Crash
  <2>1. disk' \in [Path -> Node]
    BY <1>9, <1>a DEF Crash, TypeOK
  <2>2. QED BY <1>9, <2>1 DEF Crash, TypeOK, Ended
<1>10. CASE BeginRollback
  BY <1>10 DEF BeginRollback, TypeOK
<1>11. CASE UndoStep
  <2>1. ASSUME undo \in journal PROVE Undone(disk, undo) \in [Path -> Node]
    BY <2>1, PlanTypes, PutTyped, EraseTyped DEF Undone, TypeOK
  <2>2. disk' \in [Path -> Node]
    BY <1>11, <2>1 DEF UndoStep, Turn, TypeOK
  <2>3. QED BY <1>11, <2>2 DEF UndoStep, TypeOK
<1>12. CASE UndoHalts
  <2>1. ASSUME undo \in journal, NEW e \in Torn(disk, Target(undo), backup[Target(undo)])
        PROVE  e \in [Path -> Node]
    BY <2>1, PlanTypes, TornTyped DEF TypeOK
  <2>2. disk' \in [Path -> Node]
    BY <1>12, <2>1 DEF UndoHalts, Turn, TypeOK
  <2>3. QED BY <1>12, <2>2 DEF UndoHalts, TypeOK, Ended
<1>13. CASE UndoDone
  BY <1>13 DEF UndoDone, TypeOK, Ended
<1>14. CASE UNCHANGED vars
  BY <1>14 DEF vars, TypeOK
<1>15. QED
  BY <1>1, <1>2, <1>3, <1>4, <1>5, <1>6, <1>7, <1>8, <1>9, <1>10, <1>11, <1>12, <1>13, <1>14 DEF Next

----------------------------------------------------------------------------
(* Every step keeps the invariant: first the steps of apply.               *)

\* The facts the steps of apply share.
LEMMA Applying ==
  ASSUME IInv, phase = "applying"
  PROVE  /\ N \in Nat /\ at \in 1..(N + 1)
         /\ at <= N => at \in Steps
         /\ entries \subseteq Kept /\ Kept \subseteq entries \cup {at}
         /\ \A i \in entries : i \in Steps /\ i <= at
         /\ \A i \in Kept : i \in Nat /\ i <= at
BY PlanAssumption DEF IInv, TypeOK, InOrder, Kept, Steps, N

LEMMA SkipIInv == IInv /\ TypeOK' /\ Skip => IInv'
<1> SUFFICES ASSUME IInv, TypeOK', Skip PROVE IInv'
  OBVIOUS
<1>1. phase = "applying" /\ phase' = "applying" /\ pc = "work" /\ pc' = "work" /\ at' = at + 1
  BY DEF Skip, IInv, InOrder
<1>2. Kept' = Kept /\ Kept = entries /\ journal = entries
  BY <1>1 DEF Skip, Kept, IInv, InOrder
<1>3. InOrder'
  <2>1. \A i \in entries : i <= at' /\ i # at'
    BY <1>1, Applying DEF Steps
  <2>2. QED BY <1>1, <1>2, <2>1 DEF Skip, IInv, InOrder
<1>4. DiskListed' /\ Closed(disk')
  BY <1>1 DEF Skip, IInv, DiskListed
<1>5. BackupsWhole'
  BY <1>1, <1>2 DEF Skip, IInv, BackupsWhole
<1>6. BackupsOriginal'
  BY <1>2, KeptShrinks DEF Skip, IInv
<1>7. QED BY <1>1, <1>3, <1>4, <1>5, <1>6, ApplyingIInv

LEMMA VerifyIInv == IInv /\ TypeOK' /\ Verify => IInv'
<1> SUFFICES ASSUME IInv, TypeOK', Verify PROVE IInv'
  OBVIOUS
<1>1. phase = "applying" /\ phase' = "applying" /\ pc = "work" /\ pc' = "log" /\ at' = at /\ at \in Steps /\ at \in ready
  BY Applying DEF Verify, Doing
<1>2. Kept' = Kept /\ Kept = entries /\ journal = entries
  BY <1>1 DEF Verify, Kept, IInv, InOrder
<1>3. InOrder'
  BY <1>1, <1>2 DEF Verify, IInv, InOrder
<1>4. DiskListed' /\ Closed(disk')
  BY <1>1 DEF Verify, IInv, DiskListed
<1>5. BackupsWhole'
  BY <1>1, <1>2 DEF Verify, IInv, BackupsWhole
<1>6. BackupsOriginal'
  BY <1>2, KeptShrinks DEF Verify, IInv
<1>7. QED BY <1>1, <1>3, <1>4, <1>5, <1>6, ApplyingIInv

LEMMA EnsureIInv == IInv /\ TypeOK' /\ Ensure => IInv'
<1> SUFFICES ASSUME IInv, TypeOK', Ensure PROVE IInv'
  OBVIOUS
<1> DEFINE t == Target(at)
<1>1. /\ phase = "applying" /\ phase' = "applying" /\ pc = "work" /\ pc' = "log" /\ at' = at
      /\ at \in Steps /\ at \in ready /\ Plan[at].kind = "ensure"
      /\ UNCHANGED <<backup, journal, before, ready>>
  BY Applying DEF Ensure, Doing
<1>2. Kept = entries /\ journal = entries /\ at \notin entries
  BY <1>1 DEF Kept, IInv, InOrder
<1>3. t \in Path
  BY <1>1, PlanTypes
<1>4. CASE disk[t] # Absent
  <2>1. UNCHANGED <<disk, entries>>
    BY <1>4 DEF Ensure
  <2>2. Kept' = Kept
    BY <1>1, <1>2, <2>1 DEF Kept
  <2>3. InOrder'
    BY <1>1, <1>2, <2>1, <2>2 DEF IInv, InOrder
  <2>4. DiskListed' /\ Closed(disk')
    BY <1>1, <2>1 DEF IInv, DiskListed
  <2>5. BackupsWhole'
    BY <1>1, <2>2 DEF IInv, BackupsWhole
  <2>6. BackupsOriginal'
    BY <1>1, <2>2, KeptShrinks DEF IInv
  <2>7. QED BY <1>1, <2>3, <2>4, <2>5, <2>6, ApplyingIInv
<1>5. CASE disk[t] = Absent
  <2>1. disk' = Put(disk, t, EmptyDir(t)) /\ entries' = entries \cup {at}
    BY <1>5 DEF Ensure
  <2>2. Kept' = Kept \cup {at}
    BY <1>1, <1>2, <2>1 DEF Kept
  <2>3. InOrder'
    <3>1. \A i \in entries' : i <= at
      BY <1>1, <2>1, Applying DEF Steps
    <3>2. \A i \in Kept' : Plan[i].kind # "verify"
      BY <1>1, <2>2 DEF IInv, InOrder
    <3>3. QED BY <1>1, <1>2, <2>1, <3>1, <3>2 DEF IInv, InOrder
  <2>4. DiskListed'
    <3> SUFFICES ASSUME NEW p \in Path PROVE Same(before[p], disk'[p]) \/ \E i \in entries' : Covered(i, p)
      BY <1>1 DEF DiskListed
    <3>1. CASE p \in Under(t)
      BY <2>1, <3>1 DEF Covered
    <3>2. CASE p \notin Under(t)
      BY <1>1, <2>1, <3>2, PutOutside DEF IInv, DiskListed
    <3>3. QED BY <3>1, <3>2
  <2>5. Closed(disk')
    BY <1>1, <1>3, <2>1, PutClosed, EmptyDirTree DEF IInv
  <2>6. \A i \in Kept : Target(i) # t
    BY <1>1, <1>2, Applying, TargetsDiffer DEF IInv, InOrder
  <2>7. \A p \in Path : backup[t][p] = Absent
    BY <1>1, <1>3, <2>6 DEF IInv, BackupsWhole
  <2>8. BackupsWhole'
    BY <1>1, <2>2 DEF IInv, BackupsWhole
  <2>9. BackupsOriginal'
    <3> SUFFICES ASSUME NEW i \in Kept', NEW p \in Under(Target(i)),
                        \A j \in Kept' : j < i => ~Covered(j, p)
                 PROVE  Same(before[p], backup[Target(i)][p])
      BY <1>1 DEF BackupsOriginal
    <3>1. CASE i \in Kept
      BY <2>2, <3>1 DEF IInv, BackupsOriginal
    <3>2. CASE i = at
      <4>1. p \in Path
        BY UnderPath
      <4>2. \A j \in entries : ~Covered(j, p)
        BY <1>1, <1>2, <2>2, <3>2, Applying DEF Steps
      <4>3. Same(before[p], disk[p])
        BY <1>1, <4>1, <4>2 DEF IInv, DiskListed
      <4>4. disk[p] = Absent
        BY <1>1, <1>3, <1>5, <3>2, <4>1 DEF Under, Closed, IInv
      <4>5. QED BY <2>7, <3>2, <4>1, <4>3, <4>4
    <3>3. QED BY <2>2, <3>1, <3>2
  <2>10. QED BY <1>1, <2>3, <2>4, <2>5, <2>8, <2>9, ApplyingIInv
<1>6. QED BY <1>4, <1>5

LEMMA BackUpIInv == IInv /\ TypeOK' /\ BackUp => IInv'
<1> SUFFICES ASSUME IInv, TypeOK', BackUp PROVE IInv'
  OBVIOUS
<1> DEFINE t == Target(at)
<1>1. /\ phase = "applying" /\ phase' = "applying" /\ pc = "work" /\ pc' = "replace" /\ at' = at
      /\ at \in Steps /\ at \in ready /\ Plan[at].kind \in {"copy", "write"}
      /\ UNCHANGED <<disk, entries, journal, before, ready>>
      /\ backup' = [backup EXCEPT ![t] = Copied(disk, t)]
  BY Applying DEF BackUp, Doing
<1>2. Kept = entries /\ journal = entries /\ at \notin entries
  BY <1>1 DEF Kept, IInv, InOrder
<1>3. t \in Path
  BY <1>1, PlanTypes
<1>4. Kept' = Kept \cup {at}
  BY <1>1, <1>2 DEF Kept
<1>5. InOrder'
  <2>1. \A i \in Kept' : Plan[i].kind # "verify"
    BY <1>1, <1>4 DEF IInv, InOrder
  <2>2. QED BY <1>1, <1>2, <2>1 DEF IInv, InOrder
<1>6. DiskListed' /\ Closed(disk')
  BY <1>1 DEF IInv, DiskListed
<1>7. \A i \in Kept : Target(i) # t
  BY <1>1, <1>2, Applying, TargetsDiffer DEF IInv, InOrder
<1>8. backup'[t] = Copied(disk, t) /\ \A u \in Path : u # t => backup'[u] = backup[u]
  BY <1>1, <1>3 DEF IInv, TypeOK
<1>9. BackupsWhole'
  <2>1. ASSUME Copied(disk, t)[t] = Absent, NEW p \in Under(t) PROVE Copied(disk, t)[p] = Absent
    <3>1. p \in Path /\ t \in Under(t)
      BY <1>3 DEF Under
    <3>2. disk[t] = Absent
      BY <1>3, <2>1, <3>1 DEF Copied
    <3>3. disk[p] = Absent
      BY <1>1, <2>1, <3>1, <3>2 DEF Under, Closed, IInv
    <3>4. QED BY <3>1, <3>3 DEF Copied
  <2>2. ASSUME NEW u \in Path, backup'[u][u] = Absent, NEW p \in Under(u) PROVE backup'[u][p] = Absent
    BY <1>8, <2>1, <2>2 DEF IInv, BackupsWhole
  <2>3. ASSUME NEW u \in Path, \A i \in Kept' : Target(i) # u, NEW p \in Path PROVE backup'[u][p] = Absent
    BY <1>1, <1>4, <1>8, <2>3 DEF IInv, BackupsWhole
  <2>4. QED BY <2>2, <2>3 DEF BackupsWhole
<1>10. BackupsOriginal'
  <2> SUFFICES ASSUME NEW i \in Kept', NEW p \in Under(Target(i)),
                      \A j \in Kept' : j < i => ~Covered(j, p)
               PROVE  Same(before[p], backup'[Target(i)][p])
    BY <1>1 DEF BackupsOriginal
  <2>1. CASE i \in Kept
    <3>1. Target(i) \in Path
      BY <1>1, <1>2, <2>1, Applying, PlanTypes
    <3>2. backup'[Target(i)] = backup[Target(i)]
      BY <1>7, <1>8, <2>1, <3>1
    <3>3. QED BY <1>4, <2>1, <3>2 DEF IInv, BackupsOriginal
  <2>2. CASE i = at
    <3>1. p \in Path
      BY UnderPath
    <3>2. \A j \in entries : ~Covered(j, p)
      BY <1>1, <1>2, <1>4, <2>2, Applying DEF Steps
    <3>3. Same(before[p], disk[p])
      BY <1>1, <3>1, <3>2 DEF IInv, DiskListed
    <3>4. QED BY <1>8, <2>2, <3>1, <3>3 DEF Copied
  <2>3. QED BY <1>4, <2>1, <2>2
<1>11. QED BY <1>1, <1>5, <1>6, <1>9, <1>10, ApplyingIInv

LEMMA ReplaceIInv == IInv /\ TypeOK' /\ Replace => IInv'
<1> SUFFICES ASSUME IInv, TypeOK', Replace PROVE IInv'
  OBVIOUS
<1> DEFINE t == Target(at)
<1>1. /\ phase = "applying" /\ phase' = "applying" /\ pc = "replace" /\ pc' = "log" /\ at' = at
      /\ at \in Steps /\ at \in ready /\ Plan[at].kind \in {"copy", "write"}
      /\ UNCHANGED <<backup, journal, before, ready>>
      /\ disk' = Put(disk, t, Plan[at].tree) /\ entries' = entries \cup {at}
  BY Applying DEF Replace, Doing
<1>2. Kept' = Kept /\ journal = entries
  BY <1>1 DEF Kept, IInv, InOrder
<1>3. t \in Path /\ Whole(Plan[at].tree, t)
  BY <1>1, PlanTypes
<1>4. InOrder'
  <2>1. \A i \in entries' : i <= at
    BY <1>1, Applying DEF Steps
  <2>2. QED BY <1>1, <1>2, <2>1 DEF IInv, InOrder
<1>5. DiskListed'
  <2> SUFFICES ASSUME NEW p \in Path PROVE Same(before[p], disk'[p]) \/ \E i \in entries' : Covered(i, p)
    BY <1>1 DEF DiskListed
  <2>1. CASE p \in Under(t)
    BY <1>1, <2>1 DEF Covered
  <2>2. CASE p \notin Under(t)
    BY <1>1, <2>2, PutOutside DEF IInv, DiskListed
  <2>3. QED BY <2>1, <2>2
<1>6. Closed(disk')
  BY <1>1, <1>3, PutClosed DEF IInv
<1>7. BackupsWhole'
  BY <1>1, <1>2 DEF IInv, BackupsWhole
<1>8. BackupsOriginal'
  BY <1>1, <1>2, KeptShrinks DEF IInv
<1>9. QED BY <1>1, <1>4, <1>5, <1>6, <1>7, <1>8, ApplyingIInv

LEMMA LogIInv == IInv /\ TypeOK' /\ Log => IInv'
<1> SUFFICES ASSUME IInv, TypeOK', Log PROVE IInv'
  OBVIOUS
<1>1. /\ phase = "applying" /\ phase' = "applying" /\ pc = "log" /\ pc' = "work" /\ at' = at + 1
      /\ at \in Steps /\ journal' = entries
      /\ UNCHANGED <<disk, backup, entries, before>>
  BY Applying DEF Log, Doing, Record
<1>2. Kept' = Kept /\ Kept = entries
  BY <1>1 DEF Kept, IInv, InOrder
<1>3. InOrder'
  <2>1. \A i \in entries : i <= at' /\ i # at'
    BY <1>1, Applying DEF Steps
  <2>2. QED BY <1>1, <1>2, <2>1 DEF IInv, InOrder
<1>4. DiskListed' /\ Closed(disk')
  BY <1>1 DEF IInv, DiskListed
<1>5. BackupsWhole'
  BY <1>1, <1>2 DEF IInv, BackupsWhole
<1>6. BackupsOriginal'
  BY <1>1, <1>2, KeptShrinks DEF IInv
<1>7. QED BY <1>1, <1>3, <1>4, <1>5, <1>6, ApplyingIInv

LEMMA FinishIInv == IInv /\ TypeOK' /\ Finish => IInv'
<1> SUFFICES ASSUME IInv, TypeOK', Finish PROVE IInv'
  OBVIOUS
<1>1. /\ phase = "applying" /\ phase' = "applied" /\ at = N + 1 /\ journal' = entries
      /\ UNCHANGED <<disk, backup, entries, at, pc, before>>
  BY DEF Finish, Record
<1>2. pc = "work"
  BY <1>1, Applying DEF Steps, IInv, InOrder, TypeOK
<1>3. Kept' = Kept /\ journal = entries
  BY <1>1, <1>2 DEF Kept, IInv, InOrder
<1>4. InOrder'
  BY <1>1, <1>2, <1>3 DEF IInv, InOrder
<1>5. BackupsWhole'
  BY <1>1, <1>3 DEF IInv, BackupsWhole
<1>6. BackupsOriginal'
  BY <1>1, <1>3, KeptShrinks DEF IInv
<1>7. JournalCovers'
  BY <1>1, <1>3 DEF IInv, JournalCovers, InFlight
<1>8. QED BY <1>1, <1>4, <1>5, <1>6, <1>7, EndedIInv

\* A step cut off half way disturbs its own target only.
LEMMA HalfDoneOutside ==
  ASSUME NEW e \in HalfDone, NEW p \in Path, pc = "replace" => p \notin Under(Target(at)), NEW was, Same(was, disk[p])
  PROVE  Same(was, e[p])
BY TornOutside DEF HalfDone

LEMMA FailIInv == IInv /\ TypeOK' /\ Fail => IInv'
<1> SUFFICES ASSUME IInv, TypeOK', Fail PROVE IInv'
  OBVIOUS
<1>1. /\ phase = "applying" /\ phase' = "failed" /\ at \in Steps /\ journal' = entries
      /\ disk' \in HalfDone /\ UNCHANGED <<backup, entries, at, pc, before>>
  BY Applying DEF Fail, Record, Doing
<1>2. Kept' = entries
  BY <1>1 DEF Kept
<1>3. InOrder'
  BY <1>1, <1>2, Applying DEF IInv, InOrder
<1>4. BackupsWhole'
  BY <1>1 DEF IInv, BackupsWhole
<1>5. BackupsOriginal'
  <2>1. \A i \in entries, j \in Kept : j < i => j \in entries
    BY <1>1, Applying DEF Steps
  <2>2. QED BY <1>1, <1>2, <2>1, Applying, KeptShrinks DEF IInv
<1>6. JournalCovers'
  <2> SUFFICES ASSUME NEW p \in Path
               PROVE  Same(before[p], disk'[p]) \/ InFlight(p)' \/ \E i \in journal' : Covered(i, p)
    BY <1>1 DEF JournalCovers
  <2>1. CASE pc = "replace" /\ p \in Under(Target(at))
    BY <1>1, <2>1 DEF InFlight, IInv, InOrder
  <2>2. CASE ~(pc = "replace" /\ p \in Under(Target(at)))
    BY <1>1, <2>2, HalfDoneOutside DEF IInv, DiskListed
  <2>3. QED BY <2>1, <2>2
<1>7. QED BY <1>1, <1>3, <1>4, <1>5, <1>6, EndedIInv

LEMMA CrashIInv == IInv /\ TypeOK' /\ Crash => IInv'
<1> SUFFICES ASSUME IInv, TypeOK', Crash PROVE IInv'
  OBVIOUS
<1>1. /\ phase = "applying" /\ phase' = "crashed"
      /\ disk' \in HalfDone \cup {disk} /\ UNCHANGED <<backup, journal, at, pc, before>>
  BY DEF Crash, HalfDone
<1>2. Kept' = journal
  BY <1>1 DEF Kept
<1>3. InOrder'
  BY <1>1, <1>2 DEF IInv, InOrder, Kept
<1>4. BackupsWhole'
  BY <1>1 DEF IInv, BackupsWhole
<1>5. BackupsOriginal'
  <2>1. journal \subseteq Kept
    BY DEF Kept
  <2>2. \A i \in journal, j \in Kept : j < i => j \in journal
    <3> SUFFICES ASSUME NEW i \in journal, NEW j \in Kept, j < i PROVE j \in journal
      OBVIOUS
    <3>1. i <= at /\ j # at
      BY <1>1, <2>1, Applying DEF Steps
    <3>2. j \in entries
      BY <1>1, <3>1, Applying
    <3>3. QED BY <1>1, <3>1, <3>2 DEF IInv, InOrder
  <2>3. QED BY <1>1, <1>2, <2>1, <2>2, KeptShrinks DEF IInv
<1>6. JournalCovers'
  <2> SUFFICES ASSUME NEW p \in Path
               PROVE  Same(before[p], disk'[p]) \/ InFlight(p)' \/ \E i \in journal' : Covered(i, p)
    BY <1>1 DEF JournalCovers
  <2>1. CASE pc = "replace" /\ p \in Under(Target(at))
    BY <1>1, <2>1 DEF InFlight, IInv, InOrder
  <2>2. CASE ~(pc = "replace" /\ p \in Under(Target(at)))
    <3>1. CASE Same(before[p], disk[p])
      BY <1>1, <2>2, <3>1, HalfDoneOutside
    <3>2. CASE InFlight(p) \/ \E i \in journal : Covered(i, p)
      BY <1>1, <3>2 DEF InFlight
    <3>3. QED BY <3>1, <3>2 DEF IInv, JournalCovers
  <2>3. QED BY <2>1, <2>2
<1>7. QED BY <1>1, <1>3, <1>4, <1>5, <1>6, EndedIInv

----------------------------------------------------------------------------
(* The steps of rollback.                                                  *)

\* What does not depend on the disk carries over once nothing is applied.
LEMMA RollbackFrame ==
  ASSUME IInv, phase # "applying", phase' # "applying", UNCHANGED <<backup, journal, at, pc, before>>
  PROVE  InOrder' /\ BackupsWhole' /\ BackupsOriginal' /\ DiskListed' /\ \A p : InFlight(p)' <=> InFlight(p)
<1>1. Kept' = Kept
  BY DEF Kept
<1>2. InOrder'
  BY <1>1 DEF IInv, InOrder
<1>3. BackupsWhole'
  BY DEF IInv, BackupsWhole
<1>4. BackupsOriginal'
  BY <1>1, KeptShrinks DEF IInv
<1>5. QED BY <1>2, <1>3, <1>4 DEF DiskListed, InFlight

LEMMA BeginIInv == IInv /\ TypeOK' /\ BeginRollback => IInv'
<1> SUFFICES ASSUME IInv, TypeOK', BeginRollback PROVE IInv'
  OBVIOUS
<1>1. /\ phase # "applying" /\ phase' = "rolling" /\ undo' = N
      /\ UNCHANGED <<disk, backup, journal, at, pc, before>>
  BY DEF BeginRollback, Ended
<1>2. InOrder' /\ BackupsWhole' /\ BackupsOriginal' /\ DiskListed' /\ \A p : InFlight(p)' <=> InFlight(p)
  BY <1>1, RollbackFrame
<1>3. JournalCovers'
  BY <1>1, <1>2 DEF IInv, JournalCovers
<1>4. Restoring'
  <2> SUFFICES ASSUME NEW p \in Path, \A i \in journal : i <= N => ~Covered(i, p)
               PROVE  Same(before[p], disk[p]) \/ (InFlight(p) /\ at \notin journal)
    BY <1>1, <1>2 DEF Restoring
  <2>1. \A i \in journal : ~Covered(i, p)
    BY PlanTypes DEF IInv, TypeOK, Steps
  <2>2. QED BY <2>1 DEF IInv, JournalCovers, InFlight, Covered
<1>5. QED BY <1>1, <1>2, <1>3, <1>4 DEF IInv, RollbackRestores

LEMMA UndoStepIInv == IInv /\ TypeOK' /\ UndoStep => IInv'
<1> SUFFICES ASSUME IInv, TypeOK', UndoStep PROVE IInv'
  OBVIOUS
<1> DEFINE t == Target(undo)
<1>1. /\ phase = "rolling" /\ phase' = "rolling" /\ undo > 0 /\ undo' = undo - 1 /\ undo \in Nat
      /\ UNCHANGED <<backup, journal, at, pc, before>>
      /\ disk' = IF undo \in journal THEN Undone(disk, undo) ELSE disk
  BY PlanAssumption DEF UndoStep, Turn, IInv, TypeOK, N
<1>2. InOrder' /\ BackupsWhole' /\ BackupsOriginal' /\ DiskListed' /\ \A p : InFlight(p)' <=> InFlight(p)
  BY <1>1, RollbackFrame
<1>3. ASSUME NEW p \in Path, undo \in journal => ~Covered(undo, p), Same(before[p], disk[p])
      PROVE  Same(before[p], disk'[p])
  BY <1>1, <1>3, PutOutside, EraseOutside DEF Undone, Covered
<1>4. JournalCovers'
  BY <1>1, <1>2, <1>3 DEF IInv, JournalCovers
<1>5. Restoring'
  <2> SUFFICES ASSUME NEW p \in Path, \A i \in journal : i <= undo - 1 => ~Covered(i, p)
               PROVE  Same(before[p], disk'[p]) \/ (InFlight(p) /\ at \notin journal)
    BY <1>1, <1>2 DEF Restoring
  <2>0. \A i \in journal : i \in Nat
    BY DEF IInv, TypeOK, Steps
  <2>1. CASE undo \in journal /\ Covered(undo, p)
    <3>1. \A j \in journal : j < undo => ~Covered(j, p)
      BY <1>1, <2>0
    <3>2. p \in Under(t) /\ t \in Path /\ Kept = journal
      BY <1>1, <2>1, PlanTypes DEF Covered, Kept, IInv, TypeOK
    <3>3. Same(before[p], backup[t][p])
      BY <2>1, <3>1, <3>2 DEF IInv, BackupsOriginal
    <3>4. CASE backup[t][t] # Absent
      BY <1>1, <2>1, <3>2, <3>3, <3>4 DEF Undone, Put
    <3>5. CASE backup[t][t] = Absent
      <4>1. backup[t][p] = Absent
        BY <3>2, <3>5 DEF IInv, BackupsWhole
      <4>2. QED BY <1>1, <2>1, <3>2, <3>3, <3>5, <4>1 DEF Undone, Erase
    <3>6. QED BY <3>4, <3>5
  <2>2. CASE ~(undo \in journal /\ Covered(undo, p))
    <3>1. \A i \in journal : i <= undo => ~Covered(i, p)
      BY <1>1, <2>0, <2>2
    <3>2. QED BY <1>1, <1>3, <2>2, <3>1 DEF IInv, Restoring
  <2>3. QED BY <2>1, <2>2
<1>6. QED BY <1>1, <1>2, <1>4, <1>5 DEF IInv, RollbackRestores

LEMMA UndoHaltsIInv == IInv /\ TypeOK' /\ UndoHalts => IInv'
<1> SUFFICES ASSUME IInv, TypeOK', UndoHalts PROVE IInv'
  OBVIOUS
<1>1. /\ phase = "rolling" /\ phase' = "halted" /\ UNCHANGED <<backup, journal, at, pc, before>>
      /\ disk' \in IF undo > 0 /\ undo \in journal THEN Torn(disk, Target(undo), backup[Target(undo)]) ELSE {disk}
  BY DEF UndoHalts, Turn
<1>2. InOrder' /\ BackupsWhole' /\ BackupsOriginal' /\ \A p : InFlight(p)' <=> InFlight(p)
  BY <1>1, RollbackFrame
<1>3. ASSUME NEW p \in Path, undo \in journal => ~Covered(undo, p), Same(before[p], disk[p])
      PROVE  Same(before[p], disk'[p])
  BY <1>1, <1>3, TornOutside DEF Covered
<1>4. JournalCovers'
  BY <1>1, <1>2, <1>3 DEF IInv, JournalCovers
<1>5. QED BY <1>1, <1>2, <1>4, EndedIInv

LEMMA UndoDoneIInv == IInv /\ TypeOK' /\ UndoDone => IInv'
<1> SUFFICES ASSUME IInv, TypeOK', UndoDone PROVE IInv'
  OBVIOUS
<1>1. /\ phase = "rolling" /\ phase' = "rolled-back" /\ undo = 0
      /\ UNCHANGED <<disk, backup, journal, at, pc, before>>
  BY DEF UndoDone
<1>2. InOrder' /\ BackupsWhole' /\ BackupsOriginal' /\ DiskListed' /\ \A p : InFlight(p)' <=> InFlight(p)
  BY <1>1, RollbackFrame
<1>3. JournalCovers'
  BY <1>1, <1>2 DEF IInv, JournalCovers
<1>4. RollbackRestores'
  <2>1. \A i \in journal : ~(i <= undo)
    BY <1>1 DEF IInv, TypeOK, Steps
  <2>2. QED BY <1>1, <1>2, <2>1 DEF IInv, Restoring, RollbackRestores
<1>5. QED BY <1>1, <1>2, <1>3, <1>4 DEF IInv, Restoring

LEMMA StutterIInv == IInv /\ TypeOK' /\ UNCHANGED vars => IInv'
<1> SUFFICES ASSUME IInv, TypeOK', UNCHANGED vars PROVE IInv'
  OBVIOUS
<1>1. Kept' = Kept /\ \A p : InFlight(p)' <=> InFlight(p)
  BY DEF vars, Kept, InFlight
<1>2. InOrder' /\ BackupsWhole' /\ BackupsOriginal' /\ DiskListed'
  BY <1>1, KeptShrinks DEF vars, IInv, InOrder, BackupsWhole, DiskListed
<1>3. JournalCovers' /\ Restoring' /\ RollbackRestores'
  BY <1>1 DEF vars, IInv, JournalCovers, Restoring, RollbackRestores
<1>4. QED BY <1>2, <1>3 DEF IInv, vars

----------------------------------------------------------------------------
(* The theorems.                                                           *)

LEMMA SpecIInv == Spec => []IInv
<1>1. IInv /\ [Next]_vars => IInv'
  <2> SUFFICES ASSUME IInv, [Next]_vars PROVE IInv'
    OBVIOUS
  <2>1. TypeOK'
    BY StepTyped DEF IInv
  <2>2. QED
    BY <2>1, SkipIInv, VerifyIInv, EnsureIInv, BackUpIInv, ReplaceIInv, LogIInv, FinishIInv, FailIInv,
       CrashIInv, BeginIInv, UndoStepIInv, UndoHaltsIInv, UndoDoneIInv, StutterIInv DEF Next
<1>2. QED BY <1>1, InitIInv, PTL DEF Spec

\* The fields of the runner keep their shape: the journal lists steps of the
\* plan, whatever the disk and wherever the process stops.
THEOREM TransactionsTypeCorrect == Spec => []TypeOK
<1>1. IInv => TypeOK
  BY DEF IInv
<1>2. QED BY <1>1, SpecIInv, PTL

\* The journal is never behind the disk by more than the step in flight: the
\* guardrail journal-every-applied-step, at every moment.
THEOREM JournalCoversHolds == Spec => []JournalCovers
<1>1. IInv => JournalCovers
  BY DEF IInv
<1>2. QED BY <1>1, SpecIInv, PTL

\* Backups keep the originals through failures, crashes and rollbacks: the
\* guardrails backup-before-overwrite and restore-only-from-transaction-backups.
THEOREM BackupsKeepOriginalsHolds == Spec => []BackupsKeepOriginals
<1>1. IInv => BackupsKeepOriginals
  <2> SUFFICES ASSUME IInv, NEW i \in journal, NEW p \in Under(Target(i)),
                      \A j \in journal : j < i => ~Covered(j, p)
               PROVE  Same(before[p], backup[Target(i)][p])
    BY DEF BackupsKeepOriginals
  <2>1. i \in Kept
    BY DEF Kept
  <2>2. \A j \in Kept : j < i => j \in journal
    <3> SUFFICES ASSUME phase = "applying", NEW j \in Kept, j < i PROVE j \in journal
      BY DEF Kept
    <3>1. i <= at /\ j # at
      BY <2>1, Applying DEF Steps
    <3>2. j \in entries
      BY <3>1, Applying
    <3>3. QED BY <3>1, <3>2 DEF IInv, InOrder
  <2>3. QED BY <2>1, <2>2 DEF IInv, BackupsOriginal
<1>2. QED BY <1>1, SpecIInv, PTL

\* A rollback that reports success has restored the disk, however the
\* transaction ended and however often a rollback stopped half way before.
THEOREM RollbackRestoresHolds == Spec => []RollbackRestores
<1>1. IInv => RollbackRestores
  BY DEF IInv
<1>2. QED BY <1>1, SpecIInv, PTL

=============================================================================
