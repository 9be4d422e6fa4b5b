---------------------------- MODULE JobScheduler ----------------------------
(***************************************************************************)
(* Scheduled jobs: services/job_service.py, the worker loop of cli.py and  *)
(* POST /jobs/{id}/run.  Workers share scheduled_jobs; each claims the     *)
(* first due job that is not locked, or whose lock is fifteen minutes old, *)
(* counts its attempt from job_runs, runs the handler outside the database *)
(* and reports.  run_now takes a job whether it is locked or not, and      *)
(* _finish frees the lock whoever holds it.                                *)
(***************************************************************************)
EXTENDS Naturals, SequencesExt

CONSTANTS
    Jobs,               \* names of jobs
    Loops,              \* worker processes
    Requests,           \* requests to run a job now
    NoJob, NoWorker,
    MaxRetries,         \* max_retries
    MaxCrashes,         \* bound: deaths of a worker
    MaxRegistrations    \* bound: calls of register

ASSUME JSAssumption ==
    /\ NoJob \notin Jobs /\ NoWorker \notin Loops \cup Requests
    /\ MaxRetries \in Nat \ {0}
    /\ MaxCrashes \in Nat /\ MaxRegistrations \in Nat

VARIABLES
    job,            \* scheduled_jobs
    queue,          \* the jobs whose next_run_at has come, in that order
    lastRun,        \* the newest row of job_runs for each job
    worker,         \* what each worker is doing
    failures,       \* history: failed runs in a row since success or registration
    orderly,        \* history: no handler outlasted its lock, none was run by hand
    crashes, registrations

vars == <<job, queue, lastRun, worker, failures, orderly, crashes, registrations>>

Workers == Loops \cup Requests

\* lock: locked_at is NULL, recent, or fifteen minutes old.
JobRows == [known : BOOLEAN, enabled : BOOLEAN, lock : {"free", "held", "stale"}]
RunRows == [by : Workers \cup {NoWorker},
            status : {"none", "running", "succeeded", "failed"}, attempt : Nat]
WorkerStates == [pc : {"idle", "claimed", "counted", "running"},
                 j : Jobs \cup {NoJob}, attempt : Nat]

IdleWorker == [pc |-> "idle", j |-> NoJob, attempt |-> 0]
Due(j) == \E i \in DOMAIN queue : queue[i] = j
WorksOn(w, j) == worker[w].pc # "idle" /\ worker[w].j = j

Init ==
    /\ job = [j \in Jobs |-> [known |-> FALSE, enabled |-> FALSE, lock |-> "free"]]
    /\ queue = <<>>
    /\ lastRun = [j \in Jobs |-> [by |-> NoWorker, status |-> "none", attempt |-> 0]]
    /\ worker = [w \in Workers |-> IdleWorker]
    /\ failures = [j \in Jobs |-> 0]
    /\ orderly = TRUE
    /\ crashes = 0 /\ registrations = 0

-----------------------------------------------------------------------------
\* register: a new job is due at once; one that is there is enabled again,
\* and keeps its schedule and its lock.
Register(j) ==
    /\ registrations < MaxRegistrations
    /\ registrations' = registrations + 1
    /\ job' = [job EXCEPT ![j].known = TRUE, ![j].enabled = TRUE]
    /\ queue' = IF job[j].known THEN queue ELSE Append(queue, j)
    /\ failures' = [failures EXCEPT ![j] = 0]
    /\ UNCHANGED <<lastRun, worker, orderly, crashes>>

\* Mutants of Claimable: a lock is ignored; an old lock is never broken.
MutClaimableLocked(j) == job[j].enabled
MutClaimableFree(j) == job[j].enabled /\ job[j].lock = "free"

Claimable(j) == job[j].enabled /\ job[j].lock # "held"

Take(w, j) ==
    /\ job' = [job EXCEPT ![j].lock = "held"]
    /\ worker' = [worker EXCEPT ![w] = [pc |-> "claimed", j |-> j, attempt |-> 0]]
    /\ UNCHANGED <<queue, lastRun, failures, crashes, registrations>>

\* _claim_next: the first in order of next_run_at.
ClaimNext(w) ==
    /\ w \in Loops
    /\ worker[w].pc = "idle"
    /\ \E i \in DOMAIN queue, j \in Jobs :
          /\ queue[i] = j /\ Claimable(j)
          /\ \A k \in 1..(i - 1) : ~Claimable(queue[k])
          /\ Take(w, j)
    /\ UNCHANGED orderly

RunNow(w, j) ==
    /\ w \in Requests
    /\ worker[w].pc = "idle"
    /\ job[j].enabled
    /\ Take(w, j)
    /\ orderly' = FALSE

\* Mutants of NextAttempt: failures are not counted; they are counted down.
MutNextAttempt(j) == 1
MutNextAttemptDown(j) == IF lastRun[j].status = "failed" THEN lastRun[j].attempt - 1 ELSE 1

\* _next_attempt: one more than the newest run's if that failed, and one if
\* it succeeded, is still running, or was cut off.
NextAttempt(j) == IF lastRun[j].status = "failed" THEN lastRun[j].attempt + 1 ELSE 1

CountAttempt(w) ==
    /\ worker[w].pc = "claimed"
    /\ worker' = [worker EXCEPT ![w].pc = "counted",
                                ![w].attempt = NextAttempt(worker[w].j)]
    /\ UNCHANGED <<job, queue, lastRun, failures, orderly, crashes, registrations>>

\* The row of job_runs is inserted and the handler starts.
StartRun(w) ==
    /\ worker[w].pc = "counted"
    /\ lastRun' = [lastRun EXCEPT ![worker[w].j] =
                      [by |-> w, status |-> "running", attempt |-> worker[w].attempt]]
    /\ worker' = [worker EXCEPT ![w].pc = "running"]
    /\ UNCHANGED <<job, queue, failures, orderly, crashes, registrations>>

Exhausted(w) == worker[w].attempt >= MaxRetries

\* The queue without the job, which has at most one place in it.
Rescheduled(j) ==
    IF Due(j) THEN RemoveAt(queue, CHOOSE i \in DOMAIN queue : queue[i] = j) ELSE queue

\* _finish, with the handler's outcome: the run's row is closed, the job is
\* scheduled again and unlocked, and disabled after the last retry.
FinishRun(w, ok) ==
    LET j == worker[w].j IN
    /\ worker[w].pc = "running"
    /\ lastRun' = IF lastRun[j].by = w
                  THEN [lastRun EXCEPT ![j].status = IF ok THEN "succeeded" ELSE "failed"]
                  ELSE lastRun
    /\ job' = [job EXCEPT ![j].lock = "free",
                          ![j].enabled = @ /\ (ok \/ ~Exhausted(w))]
    /\ queue' = Rescheduled(j)
    /\ worker' = [worker EXCEPT ![w] = IdleWorker]
    /\ failures' = [failures EXCEPT ![j] =
                       IF ok THEN 0 ELSE IF @ < MaxRetries THEN @ + 1 ELSE @]
    /\ UNCHANGED <<orderly, crashes, registrations>>

-----------------------------------------------------------------------------
(* Time and faults *)

\* schedule_seconds, or the backoff after a failure, have passed.
ComesDue(j) ==
    /\ job[j].known /\ ~Due(j)
    /\ queue' = Append(queue, j)
    /\ UNCHANGED <<job, lastRun, worker, failures, orderly, crashes, registrations>>

LockExpires(j) ==
    /\ job[j].lock = "held"
    /\ job' = [job EXCEPT ![j].lock = "stale"]
    /\ orderly' = (orderly /\ \A w \in Workers : ~WorksOn(w, j))
    /\ UNCHANGED <<queue, lastRun, worker, failures, crashes, registrations>>

\* The worker dies and is started again; its lock and its run's row stay.
Crash(w) ==
    /\ crashes < MaxCrashes
    /\ worker[w].pc # "idle"
    /\ crashes' = crashes + 1
    /\ worker' = [worker EXCEPT ![w] = IdleWorker]
    /\ UNCHANGED <<job, queue, lastRun, failures, orderly, registrations>>

-----------------------------------------------------------------------------
WorkerStep(w) ==
    ClaimNext(w) \/ CountAttempt(w) \/ StartRun(w) \/ \E ok \in BOOLEAN : FinishRun(w, ok)

Next ==
    \/ \E j \in Jobs : Register(j) \/ ComesDue(j) \/ LockExpires(j)
    \/ \E w \in Workers : WorkerStep(w) \/ Crash(w)
    \/ \E w \in Workers, j \in Jobs : RunNow(w, j)

Spec == Init /\ [][Next]_vars

(* The worker loop polls for ever, handlers return, and time passes.       *)
(* Nothing obliges anyone to register or to run a job by hand.             *)
Fairness ==
    /\ \A w \in Workers : WF_vars(WorkerStep(w))
    /\ \A j \in Jobs : WF_vars(LockExpires(j)) /\ WF_vars(ComesDue(j))

FairSpec == Spec /\ Fairness

-----------------------------------------------------------------------------
(* Properties *)

\* The type invariant.
TypeOK ==
    /\ job \in [Jobs -> JobRows]
    /\ queue \in Seq(Jobs)
    /\ lastRun \in [Jobs -> RunRows]
    /\ worker \in [Workers -> WorkerStates]
    /\ failures \in [Jobs -> 0..MaxRetries] /\ orderly \in BOOLEAN
    /\ crashes \in 0..MaxCrashes /\ registrations \in 0..MaxRegistrations

\* The job system is serialized: no two workers work on one job at a time,
\* while handlers keep to their fifteen minutes and nobody calls run_now.
NoOverlap ==
    orderly => \A v, w \in Workers, j \in Jobs : WorksOn(v, j) /\ WorksOn(w, j) => v = w

\* The lock of a job a worker is at work on is neither free nor taken for a
\* dead worker's, which is what keeps the others away.
LockedWhileWorking ==
    orderly => \A w \in Workers, j \in Jobs : WorksOn(w, j) => job[j].lock = "held"

\* A job that keeps failing is disabled by its last retry, while its failures
\* are reported: a worker that died leaves a run that is not counted, and a
\* run by hand and a worker's may take the same number.
DisabledAtRetryLimit ==
    crashes = 0 /\ orderly => \A j \in Jobs : failures[j] >= MaxRetries => ~job[j].enabled

\* Rows are well formed and no job is kept on past its last retry.
RetriesAreBounded == TypeOK /\ DisabledAtRetryLimit

\* A job whose time has come is run or disabled in the end, although workers
\* die, locks go stale under slow handlers and operators run jobs by hand.
DueJobsRun ==
    \A j \in Jobs : Due(j) /\ job[j].enabled ~> ~Due(j) \/ ~job[j].enabled
=============================================================================
