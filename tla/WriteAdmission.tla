---------------------------- MODULE WriteAdmission ----------------------------
(***************************************************************************)
(* The bounded queue of Omegga's writes towards UE4SS (ue4ssAdmission.ts). *)
(* Writes run one at a time, started by a microtask; reserved (exempt)     *)
(* health writes have budgets of their own and overtake the regular ones;  *)
(* a write whose deadline passed in the queue is rejected, never run.  The *)
(* write itself is asynchronous and of unknown outcome; metrics are left   *)
(* out.  A job that is settled may be submitted again.                     *)
(***************************************************************************)
EXTENDS Integers, SequencesExt

CONSTANTS
  Jobs,
  Exempt,      \* the reserved jobs
  Bytes,       \* job -> its serialized size
  MaxDepth,    \* maxDepth, and exemptMaxDepth at TRUE
  MaxBytes,    \* maxBytes, and exemptMaxBytes at TRUE
  Enabled,     \* FALSE rolls the limits and the expiry back
  None

ASSUME JobAssumption == Exempt \subseteq Jobs /\ Bytes \in [Jobs -> Nat] /\ None \notin Jobs
ASSUME LimitAssumption ==
  MaxDepth \in [BOOLEAN -> Nat] /\ MaxBytes \in [BOOLEAN -> Nat] /\ Enabled \in BOOLEAN

VARIABLES
  queue,       \* #queue
  active,      \* #active, or None
  scheduled,   \* #scheduled: a microtask is queued
  status,      \* job -> "new", "queued", "running" or how its promise settled
  late         \* the queued jobs whose deadline has passed

vars == <<queue, active, scheduled, status, late>>

Outcomes == {"refused", "cancelled", "expired", "completed", "failed"}

Init ==
  /\ queue = <<>> /\ active = None /\ scheduled = FALSE
  /\ status = [j \in Jobs |-> "new"] /\ late = {}

-----------------------------------------------------------------------------

\* Seeded fault: the running write is not charged.
MutantPendingJobs == queue

PendingJobs == IF active = None THEN queue ELSE <<active>> \o queue

\* What the jobs of a sequence add up to.
Total(jobs, size) ==
  LET sum[n \in 0..Len(jobs)] == IF n = 0 THEN 0 ELSE sum[n - 1] + size[jobs[n]]
  IN  sum[Len(jobs)]

\* The sizes that count for one kind of jobs: the reserved ones, or the others.
OfKind(reserved, size) == [j \in Jobs |-> IF (j \in Exempt) = reserved THEN size[j] ELSE 0]

One == [j \in Jobs |-> 1]

Fits(j) ==
  LET kind == j \in Exempt IN
  Enabled => /\ Total(PendingJobs, OfKind(kind, One)) < MaxDepth[kind]
             /\ Total(PendingJobs, OfKind(kind, Bytes)) + Bytes[j] <= MaxBytes[kind]

\* Seeded fault: a wakeup does not wait for the running write.
MutantWakes(running, jobs) == jobs # <<>>

\* scheduleNext queues a microtask for these jobs, none being queued yet.
Wakes(running, jobs) == running = None /\ jobs # <<>>

\* enqueue: refused over the limits, else queued, however late already.
Enqueue(j) ==
  /\ status[j] \notin {"queued", "running"}
  /\ IF Fits(j)
       THEN /\ queue' = Append(queue, j)
            /\ status' = [status EXCEPT ![j] = "queued"]
            /\ scheduled' = (scheduled \/ Wakes(active, queue'))
       ELSE status' = [status EXCEPT ![j] = "refused"] /\ UNCHANGED <<queue, scheduled>>
  /\ UNCHANGED <<active, late>>

DeadlinePasses(j) ==
  /\ status[j] = "queued" /\ j \notin late
  /\ late' = late \cup {j}
  /\ UNCHANGED <<queue, active, scheduled, status>>

\* clear, on a start and a stop of the server; the running write goes on.
Clear ==
  /\ status' = [j \in Jobs |-> IF j \in ToSet(queue) THEN "cancelled" ELSE status[j]]
  /\ queue' = <<>> /\ late' = {}
  /\ UNCHANGED <<active, scheduled>>

ReservedAt == {i \in 1..Len(queue) : queue[i] \in Exempt}

\* Seeded fault: the newest reserved job goes first.
MutantNextAt == IF ReservedAt = {} THEN 1 ELSE CHOOSE i \in ReservedAt : \A k \in ReservedAt : k <= i

\* The oldest reserved job, else the oldest.
NextAt == IF ReservedAt = {} THEN 1 ELSE CHOOSE i \in ReservedAt : \A k \in ReservedAt : i <= k

\* Seeded fault: the head is taken out, whichever job was chosen.
MutantRest(i) == Tail(queue)

Rest(i) == RemoveAt(queue, i)

\* Seeded fault: the queue is not looked at again after an expired job.
MutantAfterExpiry(rest) == FALSE

AfterExpiry(rest) == Wakes(None, rest)

\* The microtask, up to the await of a started write; an expired one is
\* rejected at once, and the queue looked at again.
Microtask ==
  /\ scheduled
  /\ IF queue = <<>>
       THEN scheduled' = FALSE /\ UNCHANGED <<queue, active, status, late>>
       ELSE LET j == queue[NextAt] IN
            /\ queue' = Rest(NextAt)
            /\ late' = late \ {j}
            /\ IF Enabled /\ j \in late
                 THEN /\ status' = [status EXCEPT ![j] = "expired"]
                      /\ scheduled' = AfterExpiry(queue')
                      /\ active' = None
                 ELSE /\ status' = [status EXCEPT ![j] = "running"]
                      /\ scheduled' = FALSE
                      /\ active' = j

\* The awaited write resolves or throws.
Finish ==
  /\ active # None
  /\ \E outcome \in {"completed", "failed"} : status' = [status EXCEPT ![active] = outcome]
  /\ active' = None
  /\ scheduled' = (scheduled \/ Wakes(None, queue))
  /\ UNCHANGED <<queue, late>>

Next ==
  \/ \E j \in Jobs : Enqueue(j) \/ DeadlinePasses(j)
  \/ Clear
  \/ Microtask
  \/ Finish

Spec == Init /\ [][Next]_vars

\* Node runs queued microtasks; every write ends, by an answer or a timeout.
FairSpec == Spec /\ WF_vars(Microtask) /\ WF_vars(Finish)

-----------------------------------------------------------------------------
(* Properties.                                                              *)

\* Every variable has the shape of the queue's fields.
TypeOK ==
  /\ queue \in Seq(Jobs) /\ active \in Jobs \cup {None} /\ scheduled \in BOOLEAN
  /\ status \in [Jobs -> {"new", "queued", "running"} \cup Outcomes]
  /\ late \subseteq ToSet(queue)

\* One write at a time, whatever enqueues, clears or expires around it: a job
\* runs exactly while it is the active one, and is queued exactly once or not
\* at all, so that its promise settles once.
OneWriter ==
  /\ {j \in Jobs : status[j] = "running"} = {active} \ {None}
  /\ {j \in Jobs : status[j] = "queued"} = ToSet(queue)
  /\ \A i, k \in 1..Len(queue) : queue[i] = queue[k] => i = k

\* Queued jobs always have somebody to start them: the queued microtask or the
\* end of the running write, and never both.
NoLostWakeup ==
  /\ queue # <<>> => active # None \/ scheduled
  /\ ~(active # None /\ scheduled)

\* Pending reserved and regular jobs stay within their own budgets of jobs and
\* of bytes, the running one included.
WithinBudgets ==
  Enabled => \A kind \in BOOLEAN :
    LET held(size) == Total(queue, OfKind(kind, size))
                      + IF active = None THEN 0 ELSE OfKind(kind, size)[active]
    IN  held(One) <= MaxDepth[kind] /\ held(Bytes) <= MaxBytes[kind]

\* Every reserved job leaves the queue whatever regular load there is, and every
\* regular one too unless reserved jobs keep coming.
Served ==
  /\ \A j \in Exempt : (status[j] = "queued") ~> (status[j] # "queued")
  /\ \/ []<>(ReservedAt # {})
     \/ \A j \in Jobs : (status[j] = "queued") ~> (status[j] # "queued")
=============================================================================
