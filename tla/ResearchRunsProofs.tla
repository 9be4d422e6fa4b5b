------------------------- MODULE ResearchRunsProofs -------------------------
(***************************************************************************)
(* Proofs about what the research side runs, for any number of jobs,       *)
(* workers, runs, processes, signals, deaths and prices and for any        *)
(* policy: scheduled jobs (JobScheduler), the life of a backtest           *)
(* (BacktestRuns) and what happens inside one (ResearchWorkflow).          *)
(***************************************************************************)
EXTENDS JobScheduler, BacktestRuns, ResearchWorkflow, SumTheorems

-----------------------------------------------------------------------------
(***************************************************************************)
(* When the job system is serialized: as long as every handler returns     *)
(* within fifteen minutes and nobody runs a job by hand.                   *)
(***************************************************************************)
Types ==
    /\ job \in [Jobs -> JobRows]
    /\ lastRun \in [Jobs -> RunRows]
    /\ worker \in [Workers -> WorkerStates]

HasJob == \A w \in Workers : worker[w].pc # "idle" => worker[w].j \in Jobs

(* One worker to a job, and behind a lock that is neither free nor stale. *)
Alone == \A v, w \in Workers, j \in Jobs : WorksOn(v, j) /\ WorksOn(w, j) => v = w
Held == \A w \in Workers, j \in Jobs : WorksOn(w, j) => job[j].lock = "held"

(* The inductive invariant is orderly => LockInv: every orderly step keeps  *)
(* LockInv, and once orderly is lost it never comes back.                  *)
LockInv == Types /\ HasJob /\ Alone /\ Held

(* Nothing is locked and nobody works in the beginning. *)
LEMMA LockInit == Init => LockInv
  BY DEF Init, LockInv, Types, HasJob, Alone, Held, WorksOn,
         JobRows, RunRows, WorkerStates, IdleWorker

(* The attempt a worker counts is a number. *)
LEMMA AttemptType == ASSUME Types, NEW j \in Jobs PROVE NextAttempt(j) \in Nat
  BY DEF Types, RunRows, NextAttempt

(* A step that changes no lock and makes nobody work on anything else keeps *)
(* the invariant.                                                          *)
LEMMA Frame ==
    ASSUME LockInv, Types', HasJob',
           \A w \in Workers, j \in Jobs : WorksOn(w, j)' => WorksOn(w, j),
           \A w \in Workers, j \in Jobs :
              WorksOn(w, j)' => job'[j].lock = job[j].lock
    PROVE  LockInv'
  BY DEF LockInv, Alone, Held

(* Registration touches no lock and no worker. *)
LEMMA RegisterKeeps ==
    ASSUME LockInv, NEW j \in Jobs, Register(j)
    PROVE  LockInv'
<1>1. worker' = worker /\ lastRun' = lastRun
  BY DEF Register
<1>2. /\ job' \in [Jobs -> JobRows]
      /\ \A k \in Jobs : job'[k].lock = job[k].lock
  BY DEF Register, LockInv, Types, JobRows
<1>3. Types' /\ HasJob'
  BY <1>1, <1>2 DEF LockInv, Types, HasJob
<1>. QED
  BY <1>1, <1>2, <1>3, Frame DEF WorksOn

(* A worker takes a job whose lock is not held, on which nobody works then. *)
LEMMA ClaimKeeps ==
    ASSUME LockInv, NEW w \in Workers, ClaimNext(w)
    PROVE  LockInv'
<1>1. PICK j \in Jobs : Claimable(j) /\ Take(w, j)
  BY DEF ClaimNext
<1>2. \A v \in Workers : ~WorksOn(v, j)
  BY <1>1 DEF LockInv, Held, Claimable
<1>3. worker[w].pc = "idle"
  BY DEF ClaimNext
<1>4. /\ job' \in [Jobs -> JobRows]
      /\ job'[j].lock = "held"
      /\ \A k \in Jobs : k # j => job'[k] = job[k]
  BY <1>1 DEF Take, LockInv, Types, JobRows
<1>5. /\ worker' \in [Workers -> WorkerStates]
      /\ worker'[w].pc = "claimed" /\ worker'[w].j = j
      /\ \A v \in Workers : v # w => worker'[v] = worker[v]
  BY <1>1 DEF Take, LockInv, Types, WorkerStates
<1>6. Types' /\ HasJob'
  BY <1>1, <1>4, <1>5 DEF Take, LockInv, Types, HasJob
<1>7. \A v \in Workers, k \in Jobs :
         WorksOn(v, k)' => (v = w /\ k = j) \/ (v # w /\ k # j /\ WorksOn(v, k))
  BY <1>2, <1>5 DEF WorksOn
<1>8. Alone'
  BY <1>7 DEF LockInv, Alone
<1>9. Held'
  BY <1>4, <1>7 DEF LockInv, Held
<1>. QED
  BY <1>6, <1>8, <1>9 DEF LockInv

(* The worker goes on with the job it has. *)
LEMMA ProgressKeeps ==
    ASSUME LockInv, NEW w \in Workers, CountAttempt(w) \/ StartRun(w)
    PROVE  LockInv'
<1>1. worker[w].j \in Jobs /\ worker[w].pc # "idle" /\ worker[w].attempt \in Nat
  BY DEF CountAttempt, StartRun, LockInv, HasJob, Types, WorkerStates
<1>2. job' = job
  BY DEF CountAttempt, StartRun
<1>3. NextAttempt(worker[w].j) \in Nat
  BY <1>1, AttemptType DEF LockInv
<1>4. lastRun' \in [Jobs -> RunRows]
  BY <1>1 DEF CountAttempt, StartRun, LockInv, Types, RunRows, Workers
<1>5. /\ worker' \in [Workers -> WorkerStates]
      /\ worker'[w].pc # "idle" /\ worker'[w].j = worker[w].j
      /\ \A v \in Workers : v # w => worker'[v] = worker[v]
  BY <1>1, <1>3 DEF CountAttempt, StartRun, LockInv, Types, WorkerStates
<1>6. Types' /\ HasJob'
  BY <1>1, <1>2, <1>4, <1>5 DEF LockInv, Types, HasJob
<1>7. \A v \in Workers, k \in Jobs : WorksOn(v, k)' => WorksOn(v, k)
  BY <1>1, <1>5 DEF WorksOn
<1>. QED
  BY <1>2, <1>6, <1>7, Frame

(* A worker that leaves its job, by finishing it or by dying, and touches   *)
(* no other job's lock.                                                    *)
LEMMA LeaveKeeps ==
    ASSUME LockInv, NEW w \in Workers, worker[w].pc # "idle",
           worker' = [worker EXCEPT ![w] = IdleWorker],
           job' \in [Jobs -> JobRows], lastRun' \in [Jobs -> RunRows],
           \A k \in Jobs : k # worker[w].j => job'[k].lock = job[k].lock
    PROVE  LockInv'
<1>1. /\ worker' \in [Workers -> WorkerStates]
      /\ worker'[w].pc = "idle"
      /\ \A v \in Workers : v # w => worker'[v] = worker[v]
  BY DEF LockInv, Types, WorkerStates, IdleWorker
<1>2. Types' /\ HasJob'
  BY <1>1 DEF LockInv, Types, HasJob
<1>3. \A v \in Workers, k \in Jobs : WorksOn(v, k)' => v # w /\ WorksOn(v, k)
  BY <1>1 DEF WorksOn
<1>4. \A v \in Workers, k \in Jobs : WorksOn(v, k)' => k # worker[w].j
  BY <1>3 DEF LockInv, Alone, WorksOn
<1>. QED
  BY <1>2, <1>3, <1>4, Frame

(* _finish unlocks the job, on which only the finishing worker works. *)
LEMMA FinishKeeps ==
    ASSUME LockInv, NEW w \in Workers, NEW ok \in BOOLEAN, FinishRun(w, ok)
    PROVE  LockInv'
<1> DEFINE j == worker[w].j
           st == IF ok THEN "succeeded" ELSE "failed"
           on == job[j].enabled /\ (ok \/ ~Exhausted(w))
<1>1. j \in Jobs /\ worker[w].pc # "idle"
  BY DEF FinishRun, LockInv, HasJob
<1>2. lastRun' \in [Jobs -> RunRows]
  <2>1. st \in {"succeeded", "failed"}
    OBVIOUS
  <2>2. lastRun' = IF lastRun[j].by = w
                   THEN [lastRun EXCEPT ![j].status = st] ELSE lastRun
    BY DEF FinishRun
  <2>. HIDE DEF st
  <2>. QED
    BY <1>1, <2>1, <2>2 DEF LockInv, Types, RunRows
<1>3. /\ job' \in [Jobs -> JobRows]
      /\ \A k \in Jobs : k # j => job'[k] = job[k]
  <2>1. on \in BOOLEAN
    BY <1>1 DEF LockInv, Types, JobRows
  <2>2. job' = [job EXCEPT ![j] = [job[j] EXCEPT !.lock = "free", !.enabled = on]]
    BY <1>1 DEF FinishRun, LockInv, Types
  <2>. HIDE DEF on
  <2>3. [job[j] EXCEPT !.lock = "free", !.enabled = on] \in JobRows
    BY <1>1, <2>1 DEF LockInv, Types, JobRows
  <2>. QED
    BY <1>1, <2>2, <2>3 DEF LockInv, Types
<1>. QED
  BY <1>1, <1>2, <1>3, LeaveKeeps DEF FinishRun

(* The worker dies; the lock stays. *)
LEMMA CrashKeeps ==
    ASSUME LockInv, NEW w \in Workers, Crash(w)
    PROVE  LockInv'
  BY LeaveKeeps DEF Crash, LockInv, Types

(* A lock goes stale in an orderly way only when nobody works on the job. *)
LEMMA ExpiryKeeps ==
    ASSUME LockInv, NEW j \in Jobs, LockExpires(j), orderly'
    PROVE  LockInv'
<1>1. worker' = worker /\ lastRun' = lastRun
  BY DEF LockExpires
<1>2. /\ job' \in [Jobs -> JobRows]
      /\ \A k \in Jobs : k # j => job'[k] = job[k]
  BY DEF LockExpires, LockInv, Types, JobRows
<1>3. \A w \in Workers : ~WorksOn(w, j)
  BY DEF LockExpires
<1>4. Types' /\ HasJob'
  BY <1>1, <1>2 DEF LockInv, Types, HasJob
<1>5. \A w \in Workers, k \in Jobs : WorksOn(w, k)' => WorksOn(w, k) /\ k # j
  BY <1>1, <1>3 DEF WorksOn
<1>. QED
  BY <1>2, <1>4, <1>5, Frame

(* What has become disorderly stays so. *)
LEMMA OrderlyOnce == [Next]_vars /\ orderly' => orderly
  BY DEF Next, vars, Register, ComesDue, LockExpires, WorkerStep, ClaimNext,
         CountAttempt, StartRun, FinishRun, Crash, RunNow

(* The induction step, action by action. *)
LEMMA NextKeeps ==
    (orderly => LockInv) /\ [Next]_vars => (orderly' => LockInv')
<1> SUFFICES ASSUME LockInv, [Next]_vars, orderly'
             PROVE  LockInv'
  BY OrderlyOnce
<1>1. ASSUME NEW j \in Jobs, ComesDue(j) PROVE LockInv'
  BY <1>1 DEF ComesDue, LockInv, Types, HasJob, Alone, Held, WorksOn
<1>2. ASSUME NEW w \in Workers, WorkerStep(w) \/ Crash(w) PROVE LockInv'
  BY <1>2, ClaimKeeps, ProgressKeeps, FinishKeeps, CrashKeeps DEF WorkerStep
<1>3. ASSUME NEW w \in Workers, NEW j \in Jobs, RunNow(w, j) PROVE LockInv'
  BY <1>3 DEF RunNow
<1>4. CASE UNCHANGED vars
  BY <1>4 DEF vars, LockInv, Types, HasJob, Alone, Held, WorksOn
<1>. QED
  BY <1>1, <1>2, <1>3, <1>4, RegisterKeeps, ExpiryKeeps DEF Next

(* The job system of job_service is serialized, whatever dies and however   *)
(* often jobs are registered anew, as long as no handler outlasts its lock *)
(* and nobody calls run_now.                                               *)
THEOREM Serialized == Spec => [](NoOverlap /\ LockedWhileWorking)
<1>1. Init => (orderly => LockInv)
  BY LockInit
<1>2. (orderly => LockInv) /\ [Next]_vars => (orderly => LockInv)'
  BY NextKeeps
<1>3. (orderly => LockInv) => NoOverlap /\ LockedWhileWorking
  BY DEF LockInv, Alone, Held, NoOverlap, LockedWhileWorking
<1>. QED
  BY <1>1, <1>2, <1>3, PTL DEF Spec

-----------------------------------------------------------------------------
(***************************************************************************)
(* Retries are bounded, as long as no worker dies and nobody runs a job by *)
(* hand.                                                                   *)
(***************************************************************************)
\* The types hold whatever happens, and whoever works has a job.
TypesInv == TypeOK /\ HasJob

\* The numbers agree, while no worker dies and nobody runs a job by hand: a job's
\* newest run carries at least as many attempts as it failed in a row, whoever is at
\* work on it one more, and a run that is open is the worker's that works on it.
Counted(j) ==
    /\ failures[j] >= MaxRetries => ~job[j].enabled
    /\ lastRun[j].status \in {"none", "succeeded"} => failures[j] = 0
    /\ lastRun[j].status = "failed" => lastRun[j].attempt >= failures[j]
    /\ lastRun[j].status = "running" => \E w \in Workers : worker[w].pc = "running" /\ worker[w].j = j
    /\ \A w \in Workers : worker[w].j = j =>
          /\ worker[w].pc \in {"counted", "running"} => worker[w].attempt > failures[j]
          /\ worker[w].pc = "running" => /\ lastRun[j].by = w /\ lastRun[j].status = "running"
                                         /\ lastRun[j].attempt = worker[w].attempt

Counting == \A j \in Jobs : Counted(j)

\* The inductive invariant.
RetryInv == TypesInv /\ (orderly => LockInv) /\ (crashes = 0 /\ orderly => Counting)

\* Nobody works in the beginning, and nothing has failed.
LEMMA RetryInit == Init => RetryInv
<1> SUFFICES ASSUME Init PROVE RetryInv
  OBVIOUS
<1>1. TypesInv
  BY JSAssumption DEF Init, TypesInv, TypeOK, HasJob, JobRows, RunRows, WorkerStates, IdleWorker
<1>2. Counting
  <2>1. \A w \in Workers : worker[w].pc = "idle"
    BY DEF Init, IdleWorker
  <2>2. \A j \in Jobs : lastRun[j].status = "none" /\ failures[j] = 0
    BY DEF Init
  <2> QED
    BY <2>1, <2>2, JSAssumption DEF Counting, Counted
<1> QED
  BY <1>1, <1>2, LockInit DEF RetryInv

\* A queue from which one place is taken is a queue of jobs.
LEMMA QueueLeft ==
    ASSUME queue \in Seq(Jobs), NEW j
    PROVE  Rescheduled(j) \in Seq(Jobs)
<1> DEFINE i == CHOOSE k \in DOMAIN queue : queue[k] = j
<1>1. CASE ~Due(j)
  BY <1>1 DEF Rescheduled
<1>2. CASE Due(j)
  <2>1. i \in DOMAIN queue
    BY <1>2 DEF Due
  <2>2. i \in 1..Len(queue) /\ Len(queue) \in Nat
    BY <2>1
  <2> HIDE DEF i
  <2>3. RemoveAt(queue, i) \in Seq(Jobs)
    BY <2>2 DEF RemoveAt
  <2> QED
    BY <1>2, <2>3 DEF Rescheduled, i
<1> QED
  BY <1>1, <1>2

\* Registering changes the row of one job.
LEMMA RegisterCounts ==
    ASSUME RetryInv, NEW j \in Jobs, Register(j)
    PROVE  TypesInv' /\ (crashes' = 0 /\ orderly' => Counting')
<1>1. TypesInv
  BY DEF RetryInv
<1>2. UNCHANGED <<lastRun, worker, orderly, crashes>>
  BY DEF Register
<1>3. /\ job' \in [Jobs -> JobRows] /\ \A k \in Jobs : k # j => job'[k] = job[k]
  BY <1>1 DEF Register, TypesInv, TypeOK, JobRows
<1>4. queue' \in Seq(Jobs)
  BY <1>1 DEF Register, TypesInv, TypeOK
<1>5. /\ failures' \in [Jobs -> 0..MaxRetries] /\ failures'[j] = 0
      /\ \A k \in Jobs : k # j => failures'[k] = failures[k]
  BY <1>1, JSAssumption DEF Register, TypesInv, TypeOK
<1>6. registrations' \in 0..MaxRegistrations
  BY <1>1, JSAssumption DEF Register, TypesInv, TypeOK
<1>7. TypesInv'
  BY <1>1, <1>2, <1>3, <1>4, <1>5, <1>6 DEF TypesInv, TypeOK, HasJob
<1>8. ASSUME Counting PROVE Counting'
  <2>1. ASSUME NEW k \in Jobs PROVE Counted(k)'
    <3>1. Counted(k)
      BY <1>8 DEF Counting
    <3>2. CASE k # j
      BY <1>2, <1>3, <1>5, <3>1, <3>2 DEF Counted
    <3>3. CASE k = j
      <4>1. failures'[k] = 0 /\ ~(failures'[k] >= MaxRetries) /\ failures[k] \in Nat
        BY <1>1, <1>5, <3>3, JSAssumption DEF TypesInv, TypeOK
      <4>2. lastRun[k].attempt \in Nat /\ \A w \in Workers : worker[w].attempt \in Nat
        BY <1>1 DEF TypesInv, TypeOK, RunRows, WorkerStates
      <4> QED
        BY <1>2, <3>1, <4>1, <4>2 DEF Counted
    <3> QED
      BY <3>2, <3>3
  <2> QED
    BY <2>1 DEF Counting
<1> QED
  BY <1>2, <1>7, <1>8 DEF RetryInv

\* Claiming a job, in turn or by hand.
LEMMA TakeCounts ==
    ASSUME RetryInv, NEW w \in Workers, NEW j \in Jobs, Take(w, j), orderly' \in BOOLEAN, orderly' => orderly,
           worker[w].pc = "idle"
    PROVE  TypesInv' /\ (crashes' = 0 /\ orderly' => Counting')
<1>1. TypesInv
  BY DEF RetryInv
<1>2. UNCHANGED <<queue, lastRun, failures, crashes, registrations>>
  BY DEF Take
<1>3. /\ job' \in [Jobs -> JobRows] /\ \A k \in Jobs : job'[k].enabled = job[k].enabled
  BY <1>1 DEF Take, TypesInv, TypeOK, JobRows
<1>4. /\ worker' \in [Workers -> WorkerStates] /\ worker'[w].pc = "claimed" /\ worker'[w].j = j
      /\ \A v \in Workers : v # w => worker'[v] = worker[v]
  BY <1>1 DEF Take, TypesInv, TypeOK, WorkerStates
<1>5. TypesInv'
  BY <1>1, <1>2, <1>3, <1>4 DEF TypesInv, TypeOK, HasJob
<1>6. ASSUME Counting PROVE Counting'
  <2>1. ASSUME NEW k \in Jobs PROVE Counted(k)'
    <3>1. Counted(k)
      BY <1>6 DEF Counting
    <3> QED
      BY <1>2, <1>3, <1>4, <3>1 DEF Counted
  <2> QED
    BY <2>1 DEF Counting
<1> QED
  BY <1>2, <1>5, <1>6 DEF RetryInv

\* A worker that claimed a job is alone with it: the job's newest run is closed, and
\* the next attempt is one more than it failed.
LEMMA CountAttemptCounts ==
    ASSUME RetryInv, NEW w \in Workers, CountAttempt(w)
    PROVE  TypesInv' /\ (crashes' = 0 /\ orderly' => Counting')
<1> DEFINE j == worker[w].j
<1>1. TypesInv /\ j \in Jobs /\ worker[w].pc = "claimed"
  BY DEF RetryInv, TypesInv, HasJob, CountAttempt
<1>2. UNCHANGED <<job, queue, lastRun, failures, orderly, crashes, registrations>>
  BY DEF CountAttempt
<1>3. NextAttempt(j) \in Nat
  BY <1>1 DEF TypesInv, TypeOK, RunRows, NextAttempt
<1>4. /\ worker' \in [Workers -> WorkerStates]
      /\ worker'[w].pc = "counted" /\ worker'[w].j = j /\ worker'[w].attempt = NextAttempt(j)
      /\ \A v \in Workers : v # w => worker'[v] = worker[v]
  BY <1>1, <1>3 DEF CountAttempt, TypesInv, TypeOK, WorkerStates
<1>5. TypesInv'
  BY <1>1, <1>2, <1>4 DEF TypesInv, TypeOK, HasJob
<1>6. ASSUME Counting, LockInv PROVE Counting'
  <2>1. ASSUME NEW k \in Jobs PROVE Counted(k)'
    <3>1. Counted(k)
      BY <1>6 DEF Counting
    <3>2. CASE k # j
      BY <1>1, <1>2, <1>4, <3>1, <3>2 DEF Counted
    <3>3. CASE k = j
      <4>1. lastRun[k].status # "running"
        <5>1. ASSUME NEW v \in Workers, worker[v].pc = "running", worker[v].j = k PROVE FALSE
          <6>1. WorksOn(v, k) /\ WorksOn(w, k)
            BY <1>1, <3>3, <5>1 DEF WorksOn
          <6> QED
            BY <1>1, <1>6, <5>1, <6>1 DEF LockInv, Alone
        <5> QED
          BY <3>1, <5>1 DEF Counted
      <4>2. lastRun[k].attempt \in Nat /\ failures[k] \in Nat
            /\ lastRun[k].status \in {"none", "running", "succeeded", "failed"}
        BY <1>1 DEF TypesInv, TypeOK, RunRows
      <4>3. NextAttempt(k) > failures[k]
        BY <3>1, <4>1, <4>2 DEF Counted, NextAttempt
      <4> QED
        BY <1>2, <1>4, <3>1, <3>3, <4>1, <4>3 DEF Counted
    <3> QED
      BY <3>2, <3>3
  <2> QED
    BY <2>1 DEF Counting
<1> QED
  BY <1>2, <1>5, <1>6 DEF RetryInv

\* The run's row is the worker's.
LEMMA StartRunCounts ==
    ASSUME RetryInv, NEW w \in Workers, StartRun(w)
    PROVE  TypesInv' /\ (crashes' = 0 /\ orderly' => Counting')
<1> DEFINE j == worker[w].j
           row == [by |-> w, status |-> "running", attempt |-> worker[w].attempt]
<1>1. TypesInv /\ j \in Jobs /\ worker[w].pc = "counted" /\ worker[w].attempt \in Nat
  BY DEF RetryInv, TypesInv, TypeOK, WorkerStates, HasJob, StartRun
<1>2. UNCHANGED <<job, queue, failures, orderly, crashes, registrations>>
  BY DEF StartRun
<1>3. row \in RunRows /\ row.by = w /\ row.status = "running" /\ row.attempt = worker[w].attempt
  BY <1>1 DEF RunRows
<1>4. lastRun' = [lastRun EXCEPT ![j] = row]
  BY DEF StartRun
<1> HIDE DEF row
<1>5. lastRun' \in [Jobs -> RunRows] /\ lastRun'[j] = row /\ \A k \in Jobs : k # j => lastRun'[k] = lastRun[k]
  BY <1>1, <1>3, <1>4 DEF TypesInv, TypeOK
<1>6. /\ worker' \in [Workers -> WorkerStates]
      /\ worker'[w].pc = "running" /\ worker'[w].j = j /\ worker'[w].attempt = worker[w].attempt
      /\ \A v \in Workers : v # w => worker'[v] = worker[v]
  BY <1>1 DEF StartRun, TypesInv, TypeOK, WorkerStates
<1>7. TypesInv'
  BY <1>1, <1>2, <1>5, <1>6 DEF TypesInv, TypeOK, HasJob
<1>8. ASSUME Counting, LockInv PROVE Counting'
  <2>1. ASSUME NEW k \in Jobs PROVE Counted(k)'
    <3>1. Counted(k)
      BY <1>8 DEF Counting
    <3>2. CASE k # j
      <4>1. \A v \in Workers : worker[v].pc = "running" /\ worker[v].j = k => worker'[v] = worker[v]
        BY <1>6, <3>2
      <4>2. \A v \in Workers : worker'[v].j = k => worker'[v] = worker[v]
        BY <1>6, <3>2
      <4>3. lastRun'[k] = lastRun[k]
        BY <1>5, <3>2
      <4> QED
        BY <1>2, <3>1, <4>1, <4>2, <4>3 DEF Counted
    <3>3. CASE k = j
      <4>1. \A v \in Workers : v # w => ~(worker[v].j = k /\ worker[v].pc # "idle")
        BY <1>1, <1>8, <3>3 DEF LockInv, Alone, WorksOn
      <4>2. \A v \in Workers : v # w => ~(worker'[v].j = k /\ worker'[v].pc # "idle")
        BY <1>6, <4>1
      <4>3. worker'[w].attempt > failures'[k] /\ (failures'[k] >= MaxRetries => ~job'[k].enabled)
        BY <1>1, <1>2, <1>6, <3>1, <3>3 DEF Counted
      <4> QED
        BY <1>3, <1>5, <1>6, <3>3, <4>2, <4>3 DEF Counted
    <3> QED
      BY <3>2, <3>3
  <2> QED
    BY <2>1 DEF Counting
<1> QED
  BY <1>2, <1>7, <1>8 DEF RetryInv

\* A failure that is the last one allowed disables the job.
LEMMA FinishRunCounts ==
    ASSUME RetryInv, NEW w \in Workers, NEW ok \in BOOLEAN, FinishRun(w, ok)
    PROVE  TypesInv' /\ (crashes' = 0 /\ orderly' => Counting')
<1> DEFINE j == worker[w].j
           st == IF ok THEN "succeeded" ELSE "failed"
           on == job[j].enabled /\ (ok \/ ~Exhausted(w))
           more == IF ok THEN 0 ELSE IF failures[j] < MaxRetries THEN failures[j] + 1 ELSE failures[j]
<1>1. TypesInv /\ j \in Jobs /\ worker[w].pc = "running"
  BY DEF RetryInv, TypesInv, HasJob, FinishRun
<1>2. UNCHANGED <<orderly, crashes, registrations>> /\ queue' = Rescheduled(j)
  BY DEF FinishRun
<1>3. queue' \in Seq(Jobs)
  BY <1>1, <1>2, QueueLeft DEF TypesInv, TypeOK
<1>4. /\ lastRun' \in [Jobs -> RunRows]
      /\ \A k \in Jobs : k # j => lastRun'[k] = lastRun[k]
      /\ lastRun[j].by = w => lastRun'[j].status = st /\ lastRun'[j].attempt = lastRun[j].attempt
  <2>1. st \in {"succeeded", "failed"}
    OBVIOUS
  <2>2. lastRun' = IF lastRun[j].by = w
                   THEN [lastRun EXCEPT ![j].status = st] ELSE lastRun
    BY DEF FinishRun
  <2>. HIDE DEF st
  <2>. QED
    BY <1>1, <2>1, <2>2 DEF TypesInv, TypeOK, RunRows
<1>5. /\ job' \in [Jobs -> JobRows]
      /\ job'[j].enabled = on
      /\ \A k \in Jobs : k # j => job'[k] = job[k]
  <2>1. on \in BOOLEAN
    BY <1>1 DEF TypesInv, TypeOK, JobRows
  <2>2. job' = [job EXCEPT ![j] = [job[j] EXCEPT !.lock = "free", !.enabled = on]]
    BY <1>1 DEF FinishRun, TypesInv, TypeOK
  <2>. HIDE DEF on
  <2>3. /\ [job[j] EXCEPT !.lock = "free", !.enabled = on] \in JobRows
        /\ [job[j] EXCEPT !.lock = "free", !.enabled = on].enabled = on
    <3>1. job[j] \in JobRows
      BY <1>1 DEF TypesInv, TypeOK
    <3> DEFINE row == [job[j] EXCEPT !.lock = "free", !.enabled = on]
    <3>2. row.enabled = on /\ row \in JobRows
      BY <2>1, <3>1 DEF JobRows
    <3> QED
      BY <3>2
  <2>. QED
    BY <1>1, <2>2, <2>3 DEF TypesInv, TypeOK
<1>6. /\ failures' \in [Jobs -> 0..MaxRetries] /\ failures'[j] = more /\ more \in 0..MaxRetries
      /\ \A k \in Jobs : k # j => failures'[k] = failures[k]
  <2>1. failures[j] \in 0..MaxRetries /\ MaxRetries \in Nat
    BY <1>1, JSAssumption DEF TypesInv, TypeOK
  <2>2. more \in 0..MaxRetries
    BY <2>1
  <2>3. failures' = [failures EXCEPT ![j] = more]
    BY DEF FinishRun
  <2> HIDE DEF more
  <2> QED
    BY <1>1, <2>2, <2>3 DEF TypesInv, TypeOK
<1>7. /\ worker' \in [Workers -> WorkerStates]
      /\ worker'[w].pc = "idle"
      /\ \A v \in Workers : v # w => worker'[v] = worker[v]
  BY <1>1 DEF FinishRun, TypesInv, TypeOK, WorkerStates, IdleWorker
<1>8. TypesInv'
  BY <1>1, <1>2, <1>3, <1>4, <1>5, <1>6, <1>7 DEF TypesInv, TypeOK, HasJob
<1>9. ASSUME Counting, LockInv PROVE Counting'
  <2>1. ASSUME NEW k \in Jobs PROVE Counted(k)'
    <3>1. Counted(k) /\ Counted(j)
      BY <1>1, <1>9 DEF Counting
    <3>2. CASE k # j
      <4>1. \A v \in Workers : worker[v].pc = "running" /\ worker[v].j = k => worker'[v] = worker[v]
        BY <1>7, <3>2
      <4>2. \A v \in Workers : worker'[v].pc # "idle" => worker'[v] = worker[v]
        BY <1>7
      <4>3. lastRun'[k] = lastRun[k] /\ job'[k] = job[k] /\ failures'[k] = failures[k]
        BY <1>4, <1>5, <1>6, <3>2
      <4> QED
        BY <3>1, <4>1, <4>2, <4>3 DEF Counted
    <3>3. CASE k = j
      <4>1. \A v \in Workers : v # w => ~(worker[v].j = k /\ worker[v].pc # "idle")
        BY <1>1, <1>9, <3>3 DEF LockInv, Alone, WorksOn
      <4>2. \A v \in Workers : ~(worker'[v].j = k /\ worker'[v].pc # "idle")
        BY <1>7, <4>1
      <4>3. lastRun[j].by = w /\ lastRun[j].status = "running" /\ worker[w].attempt > failures[j]
            /\ lastRun[j].attempt = worker[w].attempt
        BY <1>1, <3>1 DEF Counted
      <4>4. failures[j] \in 0..MaxRetries /\ MaxRetries \in Nat \ {0} /\ worker[w].attempt \in Nat /\ lastRun[j].attempt \in Nat
        BY <1>1, JSAssumption DEF TypesInv, TypeOK, WorkerStates, RunRows
      <4>5. /\ lastRun'[j].status = st /\ lastRun'[j].attempt = worker[w].attempt
        BY <1>4, <4>3
      <4>6. CASE ok
        <5>1. lastRun'[j].status = "succeeded" /\ failures'[j] = 0
          BY <1>6, <4>5, <4>6
        <5> QED
          BY <3>3, <4>2, <4>4, <5>1 DEF Counted
      <4>7. CASE ~ok
        <5>1. lastRun'[j].status = "failed"
          BY <4>5, <4>7
        <5>2. failures'[j] <= worker[w].attempt
          BY <1>6, <4>3, <4>4, <4>7
        <5>3. failures'[j] >= MaxRetries => ~job'[j].enabled
          <6>1. failures'[j] \in Nat
            BY <1>1, <1>6, JSAssumption
          <6>2. failures'[j] >= MaxRetries => worker[w].attempt >= MaxRetries
            BY <4>4, <5>2, <6>1
          <6> QED
            BY <1>5, <4>7, <6>2 DEF Exhausted
        <5> QED
          BY <3>3, <4>2, <4>4, <4>5, <5>1, <5>2, <5>3, <1>6 DEF Counted
      <4> QED
        BY <4>6, <4>7
    <3> QED
      BY <3>2, <3>3
  <2> QED
    BY <2>1 DEF Counting
<1> QED
  BY <1>2, <1>8, <1>9 DEF RetryInv

\* Between two of the steps above: a job comes due, a lock goes stale, a worker dies.
LEMMA OtherStepsCount ==
    ASSUME RetryInv,
           \/ \E j \in Jobs : ComesDue(j) \/ LockExpires(j)
           \/ \E w \in Workers : Crash(w)
           \/ UNCHANGED vars
    PROVE  TypesInv' /\ (crashes' = 0 /\ orderly' => Counting')
<1>1. TypesInv
  BY DEF RetryInv
<1>2. ASSUME NEW j \in Jobs, ComesDue(j)
      PROVE  TypesInv' /\ (crashes' = 0 /\ orderly' => Counting')
  BY <1>1, <1>2 DEF ComesDue, RetryInv, TypesInv, TypeOK, HasJob, Counting, Counted
<1>3. ASSUME NEW j \in Jobs, LockExpires(j)
      PROVE  TypesInv' /\ (crashes' = 0 /\ orderly' => Counting')
  <2>1. UNCHANGED <<queue, lastRun, worker, failures, crashes, registrations>>
        /\ orderly' \in BOOLEAN /\ (orderly' => orderly)
    BY <1>1, <1>3 DEF LockExpires, TypesInv, TypeOK
  <2>2. job' \in [Jobs -> JobRows] /\ \A k \in Jobs : job'[k].enabled = job[k].enabled
    BY <1>1, <1>3 DEF LockExpires, TypesInv, TypeOK, JobRows
  <2>3. TypesInv'
    BY <1>1, <2>1, <2>2 DEF TypesInv, TypeOK, HasJob
  <2>4. Counting => Counting'
    BY <2>1, <2>2 DEF Counting, Counted
  <2> QED
    BY <2>1, <2>3, <2>4 DEF RetryInv
<1>4. ASSUME NEW w \in Workers, Crash(w)
      PROVE  TypesInv' /\ (crashes' = 0 /\ orderly' => Counting')
  <2>1. UNCHANGED <<job, queue, lastRun, failures, orderly, registrations>>
        /\ crashes' = crashes + 1 /\ crashes < MaxCrashes /\ worker' = [worker EXCEPT ![w] = IdleWorker]
    BY <1>4 DEF Crash
  <2>2. crashes' \in 0..MaxCrashes /\ crashes' # 0
    BY <1>1, <2>1, JSAssumption DEF TypesInv, TypeOK
  <2>3. /\ worker' \in [Workers -> WorkerStates] /\ worker'[w].pc = "idle"
        /\ \A v \in Workers : v # w => worker'[v] = worker[v]
    BY <1>1, <2>1 DEF TypesInv, TypeOK, WorkerStates, IdleWorker
  <2> QED
    BY <1>1, <2>1, <2>2, <2>3 DEF TypesInv, TypeOK, HasJob
<1>5. CASE UNCHANGED vars
  <2>1. TypesInv'
    BY <1>1, <1>5 DEF vars, TypesInv, TypeOK, HasJob
  <2>2. Counting => Counting'
    BY <1>5 DEF vars, Counting, Counted
  <2> QED
    BY <1>5, <2>1, <2>2 DEF vars, RetryInv
<1> QED
  BY <1>2, <1>3, <1>4, <1>5

\* Every step keeps the inductive invariant.
LEMMA RetryNext == RetryInv /\ [Next]_vars => RetryInv'
<1> SUFFICES ASSUME RetryInv, [Next]_vars PROVE RetryInv'
  OBVIOUS
<1>1. orderly' => LockInv'
  BY NextKeeps DEF RetryInv
<1>2. TypesInv' /\ (crashes' = 0 /\ orderly' => Counting')
  <2>1. ASSUME NEW w \in Workers, ClaimNext(w)
        PROVE  TypesInv' /\ (crashes' = 0 /\ orderly' => Counting')
    <3>1. PICK j \in Jobs : Take(w, j)
      BY <2>1 DEF ClaimNext
    <3>2. worker[w].pc = "idle" /\ orderly' = orderly /\ orderly \in BOOLEAN
      BY <2>1 DEF ClaimNext, RetryInv, TypesInv, TypeOK
    <3> QED
      BY <3>1, <3>2, TakeCounts
  <2>2. ASSUME NEW w \in Workers, NEW j \in Jobs, RunNow(w, j)
        PROVE  TypesInv' /\ (crashes' = 0 /\ orderly' => Counting')
    <3>1. worker[w].pc = "idle" /\ Take(w, j) /\ orderly' = FALSE
      BY <2>2 DEF RunNow
    <3> QED
      BY <3>1, TakeCounts
  <2>3. ASSUME NEW w \in Workers, WorkerStep(w)
        PROVE  TypesInv' /\ (crashes' = 0 /\ orderly' => Counting')
    BY <2>1, <2>3, CountAttemptCounts, StartRunCounts, FinishRunCounts DEF WorkerStep
  <2> QED
    BY <2>2, <2>3, RegisterCounts, OtherStepsCount DEF Next
<1> QED
  BY <1>1, <1>2 DEF RetryInv

\* Rows are well formed and a job that fails MaxRetries times in a row is disabled by its
\* last retry, however its runs interleave with those of other jobs, its registrations
\* and the locks: while no worker dies and nobody runs a job by hand.
THEOREM BoundedRetries == Spec => []RetriesAreBounded
<1>1. RetryInv => RetriesAreBounded
  BY DEF RetryInv, TypesInv, Counting, Counted, RetriesAreBounded, DisabledAtRetryLimit
<1> QED
  BY <1>1, RetryInit, RetryNext, PTL DEF Spec

-----------------------------------------------------------------------------
(***************************************************************************)
(* The life of a backtest.                                                 *)
(***************************************************************************)
\* A summary is there before a row is closed as completed.
SummaryFirst ==
    \A r \in Runs : stage[r] = "completing" \/ status[r] = "completed" => hasSummary[r]

SummaryInv == RunsTypeOK /\ SummaryFirst

\* With one process: a backtest at work has a running row and a live process,
\* and until a block raises a running row is one at work whenever the API is up.
OwnedByAPI ==
    \A r \in Runs :
        /\ stage[r] \in Active => status[r] = "running" /\ API \in up
        /\ stage[r] \in Active => owner[r] = API
        /\ API \in up /\ faults = 0 /\ status[r] = "running" => stage[r] \in Active
        /\ stage[r] = "idle" => status[r] = "none"

LifeInv == RunsTypeOK /\ OwnedByAPI

-----------------------------------------------------------------------------
\* Nothing has begun in the beginning.
LEMMA InitKeeps == RunsInit => SummaryInv /\ LifeInv
  BY BRAssumption DEF RunsInit, SummaryInv, LifeInv, RunsTypeOK, SummaryFirst, OwnedByAPI,
         Statuses, Stages, Active

(* Every step keeps the types. *)
LEMMA TypesKept == RunsTypeOK /\ [RunsNext]_runsVars => RunsTypeOK'
<1> SUFFICES ASSUME RunsTypeOK, [RunsNext]_runsVars PROVE RunsTypeOK'
  OBVIOUS
<1> USE BRAssumption DEF RunsTypeOK, Statuses, Stages
<1>1. ASSUME NEW r \in Runs, NEW p \in Processes, StartBacktest(r, p) PROVE RunsTypeOK'
  BY <1>1 DEF StartBacktest
<1>2. ASSUME NEW r \in Runs, StoreManifest(r) \/ ManifestRaises(r) PROVE RunsTypeOK'
  BY <1>2 DEF StoreManifest, ManifestRaises
<1>3. ASSUME NEW r \in Runs, StoreSummary(r) \/ WorkRaises(r) PROVE RunsTypeOK'
  BY <1>3 DEF StoreSummary, WorkRaises
<1>4. ASSUME NEW r \in Runs, FinishBacktest(r) \/ FinishRaises(r) PROVE RunsTypeOK'
  BY <1>4 DEF FinishBacktest, FinishRaises, Outcome
<1>5. ASSUME NEW p \in Processes, Die(p) PROVE RunsTypeOK'
  BY <1>5 DEF Die
<1>6. ASSUME NEW p \in Processes, Restart(p) PROVE RunsTypeOK'
  BY <1>6 DEF Restart, Reconciled
<1>7. CASE UNCHANGED runsVars
  BY <1>7 DEF runsVars
<1>. QED
  BY <1>1, <1>2, <1>3, <1>4, <1>5, <1>6, <1>7 DEF RunsNext, RunStep

(* Summaries are never taken back, and only a stored one leads to          *)
(* "completing", the only way to "completed".                              *)
LEMMA SummaryKept == SummaryInv /\ [RunsNext]_runsVars => SummaryInv'
<1> SUFFICES ASSUME SummaryInv, [RunsNext]_runsVars PROVE SummaryFirst'
  BY TypesKept DEF SummaryInv
<1> USE DEF SummaryInv, RunsTypeOK, SummaryFirst, Statuses, Stages
<1>1. ASSUME NEW r \in Runs, NEW p \in Processes, StartBacktest(r, p) PROVE SummaryFirst'
  BY <1>1 DEF StartBacktest
<1>2. ASSUME NEW r \in Runs, StoreManifest(r) \/ ManifestRaises(r) PROVE SummaryFirst'
  BY <1>2 DEF StoreManifest, ManifestRaises
<1>3. ASSUME NEW r \in Runs, StoreSummary(r) \/ WorkRaises(r) PROVE SummaryFirst'
  BY <1>3 DEF StoreSummary, WorkRaises
<1>4. ASSUME NEW r \in Runs, FinishBacktest(r) \/ FinishRaises(r) PROVE SummaryFirst'
  BY <1>4 DEF FinishBacktest, FinishRaises, Outcome
<1>5. ASSUME NEW p \in Processes, Die(p) PROVE SummaryFirst'
  BY <1>5 DEF Die
<1>6. ASSUME NEW p \in Processes, Restart(p) PROVE SummaryFirst'
  BY <1>6 DEF Restart, Reconciled
<1>7. CASE UNCHANGED runsVars
  BY <1>7 DEF runsVars
<1>. QED
  BY <1>1, <1>2, <1>3, <1>4, <1>5, <1>6, <1>7 DEF RunsNext, RunStep

(* With one process, a backtest at work dies with the API, so the rows that *)
(* reconciliation closes are nobody's.                                     *)
LEMMA LifeKept ==
    ASSUME Processes = {API}
    PROVE  LifeInv /\ [RunsNext]_runsVars => LifeInv'
<1> SUFFICES ASSUME LifeInv, [RunsNext]_runsVars PROVE OwnedByAPI'
  BY TypesKept DEF LifeInv
<1> USE DEF LifeInv, RunsTypeOK, OwnedByAPI, Statuses, Stages, Active
<1>1. ASSUME NEW r \in Runs, NEW p \in Processes, StartBacktest(r, p) PROVE OwnedByAPI'
  BY <1>1 DEF StartBacktest
<1>2. ASSUME NEW r \in Runs, StoreManifest(r) \/ ManifestRaises(r) PROVE OwnedByAPI'
  BY <1>2 DEF StoreManifest, ManifestRaises
<1>3. ASSUME NEW r \in Runs, StoreSummary(r) \/ WorkRaises(r) PROVE OwnedByAPI'
  BY <1>3 DEF StoreSummary, WorkRaises
<1>4. ASSUME NEW r \in Runs, FinishBacktest(r) \/ FinishRaises(r) PROVE OwnedByAPI'
  BY <1>4 DEF FinishBacktest, FinishRaises, Outcome
<1>5. ASSUME NEW p \in Processes, Die(p) PROVE OwnedByAPI'
  BY <1>5 DEF Die
<1>6. ASSUME NEW p \in Processes, Restart(p) PROVE OwnedByAPI'
  BY <1>6 DEF Restart, Reconciled
<1>7. CASE UNCHANGED runsVars
  BY <1>7 DEF runsVars
<1>. QED
  BY <1>1, <1>2, <1>3, <1>4, <1>5, <1>6, <1>7 DEF RunsNext, RunStep

(* One step of a lone API leaves every final status as it is: whoever       *)
(* finishes a run finds its row running, and so does reconciliation.       *)
LEMMA StepKeepsFinal ==
    ASSUME Processes = {API}, LifeInv, [RunsNext]_runsVars,
           NEW r \in Runs, status[r] \in Final
    PROVE  status'[r] = status[r]
<1> USE DEF LifeInv, RunsTypeOK, OwnedByAPI, Statuses, Final, Active
<1>1. ASSUME NEW s \in Runs, NEW p \in Processes, StartBacktest(s, p)
      PROVE  status'[r] = status[r]
  BY <1>1 DEF StartBacktest
<1>2. ASSUME NEW s \in Runs, FinishBacktest(s) PROVE status'[r] = status[r]
  BY <1>2 DEF FinishBacktest
<1>3. ASSUME NEW p \in Processes, Restart(p) PROVE status'[r] = status[r]
  BY <1>3 DEF Restart, Reconciled
<1>. QED
  BY <1>1, <1>2, <1>3 DEF RunsNext, RunStep, StoreManifest, ManifestRaises,
     StoreSummary, WorkRaises, FinishRaises, Die, runsVars

-----------------------------------------------------------------------------
(* A run BacktestService reports as completed has its summary, for any     *)
(* number of runs, processes, deaths and blocks that raise.                *)
THEOREM CompletedRunsReported == RunsSpec => []CompletedHasSummary
<1>1. SummaryInv => CompletedHasSummary
  BY DEF SummaryInv, SummaryFirst, CompletedHasSummary
<1>. QED
  BY <1>1, InitKeeps, SummaryKept, PTL DEF RunsSpec

(* What the rows of strategy_runs say is so, if the API alone runs          *)
(* backtests: the types, a summary for every completed run and, until a    *)
(* block raises, a thread for every running one.                           *)
THEOREM RowsAreTrue ==
    ASSUME Processes = {API}
    PROVE  RunsSpec => []RunsAreAccounted
<1>1. LifeInv /\ [RunsNext]_runsVars => LifeInv'
  BY LifeKept
<1>2. SummaryInv /\ LifeInv => RunsAreAccounted
  BY DEF SummaryInv, SummaryFirst, LifeInv, OwnedByAPI, RunsAreAccounted, CompletedHasSummary, RunningIsAlive
<1>. QED
  BY <1>1, <1>2, InitKeeps, SummaryKept, PTL DEF RunsSpec

(* As long as the API alone runs backtests, _finish_run and                *)
(* reconcile_interrupted_runs never rewrite a run that is over.            *)
THEOREM RunsStayClosed ==
    ASSUME Processes = {API}
    PROVE  RunsSpec => FinalForEver
<1>1. LifeInv /\ [RunsNext]_runsVars => LifeInv'
  BY LifeKept
<1>2. LifeInv /\ [RunsNext]_runsVars =>
        [\A r \in Runs : status[r] \in Final => status'[r] = status[r]]_runsVars
  BY StepKeepsFinal
<1>. QED
  BY <1>1, <1>2, InitKeeps, PTL DEF RunsSpec, FinalForEver

-----------------------------------------------------------------------------
(***************************************************************************)
(* Inside a backtest: the types, and what is at hand at each place.        *)
(***************************************************************************)
\* The places where a signal is at hand, and where its order is.
AtHand == {"risk", "order", "created", "submit", "submitted", "fill", "filling", "filled"}
AtOrder == {"created", "submit", "submitted", "fill", "filling", "filled"}

\* What is at hand at each place.
Placed ==
    /\ pc \in AtHand => sig.type \in {"entry", "exit"} /\ sig.price \in Prices
    /\ pc \in {"order", "created"} => approved > 0
    /\ pc \in AtOrder => Len(orders) > 0

TypedInv == WorkflowTypeOK /\ Placed

Fillings == [price : Nat, fees : Nat, pnl : Int]
Verdicts == [yes : Nat, no : Nat]
Summaries == [trades : Int, pnl : Int, fees : Nat, signals : Nat, yes : Nat, no : Nat]

\* Products of naturals, and of integers, are what they are products of.
LEMMA Products == \A a, b \in Nat : a * b \in Nat
OBVIOUS

\* Products of integers.
LEMMA IntProducts == \A a, b \in Int : a * b \in Int
OBVIOUS

\* What is sized is a number.
LEMMA SizedIsNat ==
    ASSUME sig.price \in Nat \ {0}
    PROVE  Sized \in Nat
<1>1. \A m, n \in Nat : Least(m, n) \in Nat
  BY DEF Least
<1>2. /\ MaxQuantity \in Nat /\ MaxOrderValue \in Nat /\ MaxLossPerTrade \in Nat /\ StopPct \in Nat
      /\ RequestedQuantity \in Nat
  BY RWAssumption
<1>3. \A a \in Nat, b \in Nat \ {0} : a \div b \in Nat
  OBVIOUS
<1>4. LossPerShare100 \in Nat
  BY <1>2, Products DEF LossPerShare100
<1>5. MaxOrderValue \div sig.price \in Nat
  BY <1>2, <1>3
<1>6. (IF LossPerShare100 > 0 THEN (100 * MaxLossPerTrade) \div LossPerShare100 ELSE 0) \in Nat
  <2>1. 100 * MaxLossPerTrade \in Nat
    BY <1>2
  <2> QED
    BY <1>3, <1>4, <2>1
<1>7. Least(RequestedQuantity, MaxQuantity) \in Nat
  BY <1>1, <1>2
<1> QED
  BY <1>1, <1>5, <1>6, <1>7 DEF Sized

\* Nothing is stored in the beginning.
LEMMA TypedInit == WorkflowInit => TypedInv
<1> SUFFICES ASSUME WorkflowInit PROVE TypedInv
  OBVIOUS
<1>1. /\ NoSignal \in SignalRows /\ EmptyLedger \in LedgerRows /\ NoFill \in Fillings /\ NoSummary \in Summaries
      /\ [yes |-> 0, no |-> 0] \in Verdicts
  BY DEF NoSignal, SignalRows, EmptyLedger, LedgerRows, NoFill, Fillings, NoSummary, Summaries, Verdicts
<1>2. 0 \in 0..MaxSignals
  BY RWAssumption
<1>3. WorkflowTypeOK
  BY <1>1, <1>2 DEF WorkflowInit, WorkflowTypeOK, PCs, Fillings, Summaries, Verdicts
<1> QED
  BY <1>3 DEF WorkflowInit, TypedInv, Placed, AtHand, AtOrder

\* Each step keeps the types: a signal is stored,
LEMMA StoreSignalTyped ==
    ASSUME TypedInv, NEW p \in Prices, NEW type \in {"entry", "exit"}, NEW side \in {"long", "short"},
           NEW fit \in BOOLEAN, StoreSignal(type, side, p, fit)
    PROVE  TypedInv'
<1>1. /\ sig' = [type |-> type, side |-> side, price |-> p, fit |-> fit] /\ pc' = "risk" /\ seen' = seen + 1
      /\ seen < MaxSignals
      /\ UNCHANGED <<config, approved, verdicts, orders, trail, ledger, fill, fills, summary>>
  BY DEF StoreSignal
<1>2. sig' \in SignalRows /\ sig'.type = type /\ sig'.price = p
  BY <1>1 DEF SignalRows
<1>3. seen' \in 0..MaxSignals
  BY <1>1, RWAssumption DEF TypedInv, WorkflowTypeOK
<1>4. WorkflowTypeOK'
  BY <1>1, <1>2, <1>3 DEF TypedInv, WorkflowTypeOK, PCs
<1> QED
  BY <1>1, <1>2, <1>4 DEF TypedInv, Placed, AtHand, AtOrder

\* it is judged, and what goes on to an order is more than nothing,
LEMMA EvaluateTyped ==
    ASSUME TypedInv, Evaluate
    PROVE  TypedInv'
<1>1. /\ pc = "risk" /\ UNCHANGED <<config, sig, seen, orders, trail, ledger, fill, fills, summary>>
      /\ sig.type \in {"entry", "exit"} /\ sig.price \in Prices
  BY DEF Evaluate, TypedInv, Placed, AtHand
<1>2. verdicts \in Verdicts /\ ledger.qty \in Nat
  BY DEF TypedInv, WorkflowTypeOK, Verdicts, LedgerRows
<1>3. Sized \in Nat
  BY <1>1, SizedIsNat, RWAssumption
<1>4. CASE Refused
  <2>1. verdicts' = [verdicts EXCEPT !.no = @ + 1] /\ approved' = 0 /\ pc' = "signal"
    BY <1>4 DEF Evaluate
  <2>2. verdicts' \in Verdicts
    BY <1>2, <2>1 DEF Verdicts
  <2>3. WorkflowTypeOK'
    BY <1>1, <2>1, <2>2 DEF TypedInv, WorkflowTypeOK, PCs, Verdicts
  <2> QED
    BY <2>1, <2>3 DEF TypedInv, Placed, AtHand, AtOrder
<1>5. CASE ~Refused
  <2>1. /\ verdicts' = [verdicts EXCEPT !.yes = @ + 1] /\ approved' = GrantedQuantity
        /\ pc' = IF sig.type = "exit" /\ ledger.qty = 0 THEN "signal" ELSE "order"
    BY <1>5 DEF Evaluate
  <2>2. verdicts' \in Verdicts
    BY <1>2, <2>1 DEF Verdicts
  <2>3. approved' \in Nat
    BY <1>2, <1>3, <2>1 DEF GrantedQuantity
  <2>4. pc' \in {"signal", "order"}
    BY <2>1
  <2>5. WorkflowTypeOK'
    BY <1>1, <2>2, <2>3, <2>4 DEF TypedInv, WorkflowTypeOK, PCs, Verdicts
  <2>6. pc' = "order" => approved' > 0
    <3>1. CASE sig.type = "exit"
      BY <1>2, <2>1, <3>1 DEF GrantedQuantity
    <3>2. CASE sig.type = "entry"
      <4>1. Sized # 0
        BY <1>5, <3>2 DEF Refused, EntryRefused
      <4> QED
        BY <1>3, <2>1, <3>2, <4>1 DEF GrantedQuantity
    <3> QED
      BY <1>1, <3>1, <3>2
  <2> QED
    BY <1>1, <2>4, <2>5, <2>6 DEF TypedInv, Placed, AtHand, AtOrder
<1> QED
  BY <1>4, <1>5

\* its order is stored.
LEMMA CreateOrderTyped ==
    ASSUME TypedInv, CreateOrder
    PROVE  TypedInv'
<1> DEFINE o == [type |-> sig.type, side |-> OrderSide, qty |-> approved, price |-> sig.price,
                 status |-> IF config.mode = "semi_auto" THEN "pending_approval" ELSE "created"]
<1>1. /\ pc = "order" /\ pc' = "created" /\ orders' = Append(orders, o) /\ trail' = Append(trail, <<>>)
      /\ UNCHANGED <<config, sig, seen, approved, verdicts, ledger, fill, fills, summary>>
  BY DEF CreateOrder
<1>2. sig.type \in {"entry", "exit"} /\ sig.price \in Prices /\ approved \in Nat \ {0}
  BY <1>1 DEF TypedInv, WorkflowTypeOK, Placed, AtHand
<1>3. OrderSide \in {"BUY", "SELL"}
  BY DEF OrderSide
<1>4. o \in OrderRows
  BY <1>2, <1>3 DEF OrderRows, OrderStatuses
<1> HIDE DEF o
<1>5. /\ orders' \in Seq(OrderRows) /\ trail' \in Seq(Seq(OrderStatuses)) /\ Len(orders') = Len(orders) + 1
      /\ Len(trail') = Len(trail) + 1 /\ Len(orders) \in Nat /\ Len(trail) = Len(orders)
  BY <1>1, <1>4 DEF TypedInv, WorkflowTypeOK
<1>6. WorkflowTypeOK'
  BY <1>1, <1>5 DEF TypedInv, WorkflowTypeOK, PCs
<1> QED
  BY <1>1, <1>2, <1>5, <1>6 DEF TypedInv, Placed, AtHand, AtOrder

\* The latest order gets another status, or another event.
LEMMA MoveTyped ==
    ASSUME TypedInv, pc \in AtOrder, NEW to \in OrderStatuses, orders' = Move(to)
    PROVE  /\ orders' \in Seq(OrderRows) /\ Len(orders') = Len(orders) /\ Len(orders) \in Nat
           /\ Latest \in DOMAIN orders /\ DOMAIN orders = 1..Len(orders)
           /\ orders'[Latest].status = to
           /\ \A i \in DOMAIN orders : /\ orders'[i].type = orders[i].type /\ orders'[i].side = orders[i].side
                                       /\ orders'[i].qty = orders[i].qty /\ orders'[i].price = orders[i].price
                                       /\ i # Latest => orders'[i].status = orders[i].status
<1>1. orders \in Seq(OrderRows) /\ Len(orders) > 0 /\ Len(orders) \in Nat /\ DOMAIN orders = 1..Len(orders)
  BY DEF TypedInv, WorkflowTypeOK, Placed
<1> DEFINE o == [orders[Latest] EXCEPT !.status = to]
<1>2. Latest \in DOMAIN orders /\ orders[Latest] \in OrderRows
  BY <1>1 DEF Latest
<1>3. /\ o \in OrderRows /\ o.status = to /\ o.type = orders[Latest].type /\ o.side = orders[Latest].side
      /\ o.qty = orders[Latest].qty /\ o.price = orders[Latest].price
  BY <1>2 DEF OrderRows
<1>4. orders' = [orders EXCEPT ![Latest] = o]
  BY DEF Move
<1> HIDE DEF o
<1>5. /\ orders' \in Seq(OrderRows) /\ Len(orders') = Len(orders) /\ orders'[Latest] = o
      /\ \A i \in DOMAIN orders : i # Latest => orders'[i] = orders[i]
  BY <1>1, <1>2, <1>3, <1>4
<1> QED
  BY <1>1, <1>2, <1>3, <1>5

\* The latest order gets one more event.
LEMMA RecordTyped ==
    ASSUME TypedInv, pc \in AtOrder, trail' = Record
    PROVE  /\ trail' \in Seq(Seq(OrderStatuses)) /\ Len(trail') = Len(trail)
           /\ Latest \in DOMAIN orders /\ DOMAIN orders = DOMAIN trail
           /\ trail'[Latest] = Append(trail[Latest], orders[Latest].status)
           /\ \A i \in DOMAIN orders : i # Latest => trail'[i] = trail[i]
           /\ trail'[Latest] \in Seq(OrderStatuses) /\ Len(trail'[Latest]) = Len(trail[Latest]) + 1
           /\ \A i \in 1..Len(trail[Latest]) : trail'[Latest][i] = trail[Latest][i]
           /\ trail'[Latest][Len(trail[Latest]) + 1] = orders[Latest].status
<1>1. /\ orders \in Seq(OrderRows) /\ Len(orders) > 0 /\ Len(orders) \in Nat /\ DOMAIN orders = 1..Len(orders)
      /\ trail \in Seq(Seq(OrderStatuses)) /\ Len(trail) = Len(orders) /\ DOMAIN trail = DOMAIN orders
  BY DEF TypedInv, WorkflowTypeOK, Placed
<1>2. Latest \in DOMAIN orders /\ orders[Latest] \in OrderRows /\ trail[Latest] \in Seq(OrderStatuses)
  BY <1>1 DEF Latest
<1> DEFINE t == Append(trail[Latest], orders[Latest].status)
<1>0. \A u \in Seq(OrderStatuses), x \in OrderStatuses :
         /\ Append(u, x) \in Seq(OrderStatuses) /\ Len(Append(u, x)) = Len(u) + 1
         /\ Append(u, x)[Len(u) + 1] = x
         /\ \A i \in 1..Len(u) : Append(u, x)[i] = u[i]
  OBVIOUS
<1>3. /\ t \in Seq(OrderStatuses) /\ Len(t) = Len(trail[Latest]) + 1
      /\ t[Len(trail[Latest]) + 1] = orders[Latest].status
      /\ \A i \in 1..Len(trail[Latest]) : t[i] = trail[Latest][i]
  BY <1>0, <1>2 DEF OrderRows
<1>4. trail' = [trail EXCEPT ![Latest] = t]
  BY DEF Record
<1> HIDE DEF t
<1>5. /\ trail' \in Seq(Seq(OrderStatuses)) /\ Len(trail') = Len(trail) /\ trail'[Latest] = t
      /\ \A i \in DOMAIN orders : i # Latest => trail'[i] = trail[i]
  BY <1>1, <1>2, <1>3, <1>4
<1>6. trail'[Latest] = Append(trail[Latest], orders[Latest].status)
  BY <1>5 DEF t
<1> QED
  BY <1>1, <1>2, <1>3, <1>5, <1>6

\* What the ledger answers.
LEMMA ProcessedTyped ==
    ASSUME TypedInv, pc = "created"
    PROVE  /\ FillPrice \in Nat
           /\ Processed(approved).ledger \in LedgerRows
           /\ Processed(approved).fill \in Fillings
           /\ sig.type = "entry" =>
                 /\ Processed(approved).ledger.qty = approved /\ Processed(approved).ledger.side = sig.side
                 /\ Processed(approved).ledger.closed = ledger.closed
           /\ sig.type = "exit" =>
                 /\ Processed(approved).ledger.qty = 0
                 /\ Len(Processed(approved).ledger.closed) = Len(ledger.closed) + 1
           /\ Processed(approved).ledger.pnl = ledger.pnl + Processed(approved).fill.pnl
           /\ Processed(approved).ledger.fees = ledger.fees + Processed(approved).fill.fees
<1>1. /\ sig.type \in {"entry", "exit"} /\ sig.price \in Prices /\ approved \in Nat /\ ledger \in LedgerRows
      /\ sig \in SignalRows
  BY DEF TypedInv, WorkflowTypeOK, Placed, AtHand
<1>2. /\ ledger.qty \in Nat /\ ledger.side \in {"long", "short"} /\ ledger.entry \in Nat /\ ledger.entryFee \in Nat
      /\ ledger.pnl \in Int /\ ledger.fees \in Nat /\ ledger.closed \in Seq(Int)
  BY <1>1 DEF LedgerRows
<1>3. FillPrice \in Nat
  <2>1. sig.price \in Nat /\ Slip \in Nat /\ Slip <= sig.price
    BY <1>1, RWAssumption
  <2> QED
    BY <2>1 DEF FillPrice
<1>4. ActiveSide \in {"long", "short"} /\ (sig.type = "entry" => ActiveSide = sig.side)
  BY <1>1, <1>2 DEF ActiveSide, SignalRows
<1> DEFINE fee == FillPrice * approved * FeePct
<1>5. fee \in Nat
  <2>1. FeePct \in Nat /\ FillPrice * approved \in Nat
    BY <1>1, <1>3, Products, RWAssumption
  <2> QED
    BY <2>1, Products
<1>6. CASE sig.type = "entry"
  <2> DEFINE l == [ledger EXCEPT !.qty = approved, !.side = ActiveSide, !.entry = FillPrice, !.entryFee = fee,
                                 !.fees = ledger.fees + fee, !.pnl = ledger.pnl - fee]
             f == [price |-> FillPrice, fees |-> fee, pnl |-> -fee]
  <2>1. Processed(approved) = [ledger |-> l, fill |-> f]
    BY <1>6 DEF Processed, Entered
  <2> HIDE DEF fee
  <2>2. /\ l \in LedgerRows /\ l.qty = approved /\ l.side = ActiveSide /\ l.closed = ledger.closed
        /\ l.pnl = ledger.pnl - fee /\ l.fees = ledger.fees + fee
    <3>1. ledger.fees + fee \in Nat /\ ledger.pnl - fee \in Int
      BY <1>2, <1>5
    <3>2. PICK fs \in Nat, p \in Int : fs = ledger.fees + fee /\ p = ledger.pnl - fee
      BY <3>1
    <3>3. l = [ledger EXCEPT !.qty = approved, !.side = ActiveSide, !.entry = FillPrice, !.entryFee = fee,
                             !.fees = fs, !.pnl = p]
      BY <3>2
    <3> HIDE DEF l
    <3>4. l \in LedgerRows /\ l.qty = approved /\ l.side = ActiveSide /\ l.closed = ledger.closed /\ l.pnl = p /\ l.fees = fs
      BY <1>1, <1>3, <1>4, <1>5, <3>3 DEF LedgerRows
    <3> QED
      BY <3>2, <3>4
  <2>3. f \in Fillings /\ f.fees = fee /\ f.pnl = -fee
    BY <1>3, <1>5 DEF Fillings
  <2> HIDE DEF l, f
  <2>4. Processed(approved).ledger = l /\ Processed(approved).fill = f
    BY <2>1
  <2>5. l.pnl = ledger.pnl + f.pnl
    BY <1>2, <1>5, <2>2, <2>3
  <2> QED
    BY <1>3, <1>4, <1>6, <2>2, <2>3, <2>4, <2>5
<1>7. CASE sig.type = "exit"
  <2> DEFINE gross == 100 * (FillPrice - ledger.entry) * ledger.qty
                      * (IF ledger.side = "long" THEN 1 ELSE -1)
             l == [EmptyLedger EXCEPT !.pnl = ledger.pnl + gross - fee, !.fees = ledger.fees + fee,
                                      !.closed = Append(ledger.closed, gross - ledger.entryFee - fee)]
             f == [price |-> FillPrice, fees |-> fee, pnl |-> gross - fee]
  <2>1. Processed(approved) = [ledger |-> l, fill |-> f]
    BY <1>7 DEF Processed, Exited
  <2>2. gross \in Int
    <3>1. 100 * (FillPrice - ledger.entry) \in Int
      BY <1>2, <1>3
    <3>2. 100 * (FillPrice - ledger.entry) * ledger.qty \in Int
      BY <1>2, <3>1, IntProducts
    <3>3. (IF ledger.side = "long" THEN 1 ELSE -1) \in Int
      OBVIOUS
    <3> QED
      BY <3>2, <3>3, IntProducts
  <2> HIDE DEF fee, gross
  <2>3. /\ Append(ledger.closed, gross - ledger.entryFee - fee) \in Seq(Int)
        /\ Len(Append(ledger.closed, gross - ledger.entryFee - fee)) = Len(ledger.closed) + 1
    BY <1>2, <1>5, <2>2
  <2>4. /\ l \in LedgerRows /\ l.qty = 0 /\ l.pnl = ledger.pnl + gross - fee /\ l.fees = ledger.fees + fee
        /\ l.closed = Append(ledger.closed, gross - ledger.entryFee - fee)
    <3>1. ledger.fees + fee \in Nat /\ ledger.pnl + gross - fee \in Int
      BY <1>2, <1>5, <2>2
    <3>2. PICK fs \in Nat, p \in Int, c \in Seq(Int) :
             /\ fs = ledger.fees + fee /\ p = ledger.pnl + gross - fee
             /\ c = Append(ledger.closed, gross - ledger.entryFee - fee)
      BY <2>3, <3>1
    <3>3. l = [EmptyLedger EXCEPT !.pnl = p, !.fees = fs, !.closed = c]
      BY <3>2
    <3> HIDE DEF l
    <3>4. l \in LedgerRows /\ l.qty = 0 /\ l.pnl = p /\ l.fees = fs /\ l.closed = c
      BY <3>3 DEF LedgerRows, EmptyLedger
    <3> QED
      BY <3>2, <3>4
  <2>5. f \in Fillings /\ f.fees = fee /\ f.pnl = gross - fee
    BY <1>3, <1>5, <2>2 DEF Fillings
  <2> HIDE DEF l, f
  <2>6. Processed(approved).ledger = l /\ Processed(approved).fill = f
    BY <2>1
  <2>7. l.pnl = ledger.pnl + f.pnl
    BY <1>2, <1>5, <2>2, <2>4, <2>5
  <2> QED
    BY <1>3, <1>7, <2>3, <2>4, <2>5, <2>6, <2>7
<1> QED
  BY <1>1, <1>6, <1>7

\* The order is opened, and the ledger may answer.
LEMMA OpenOrderTyped ==
    ASSUME TypedInv, OpenOrder
    PROVE  TypedInv'
<1>1. /\ pc = "created" /\ trail' = Record
      /\ UNCHANGED <<config, sig, seen, approved, verdicts, orders, fills, summary>>
      /\ \/ pc' = "signal" /\ UNCHANGED <<ledger, fill>>
         \/ pc' = "submit" /\ ledger' = Processed(approved).ledger /\ fill' = Processed(approved).fill
  BY DEF OpenOrder
<1>2. trail' \in Seq(Seq(OrderStatuses)) /\ Len(trail') = Len(trail)
  BY <1>1, RecordTyped DEF AtOrder
<1>3. ledger' \in LedgerRows /\ fill' \in Fillings
  BY <1>1, ProcessedTyped DEF TypedInv, WorkflowTypeOK, Fillings
<1>4. pc' \in {"signal", "submit"}
  BY <1>1
<1>5. WorkflowTypeOK'
  BY <1>1, <1>2, <1>3, <1>4 DEF TypedInv, WorkflowTypeOK, PCs, Fillings
<1> QED
  BY <1>1, <1>4, <1>5 DEF TypedInv, Placed, AtHand, AtOrder

\* The steps of a fill that write the order and its events.
LEMMA FillStepsTyped ==
    ASSUME TypedInv, Submit \/ RecordSubmit \/ FillOrder \/ RecordFill
    PROVE  TypedInv'
<1>1. /\ pc \in AtOrder /\ pc \in AtHand /\ pc \in {"submit", "submitted", "filling", "filled"}
      /\ pc' \in {"submitted", "fill", "filled", "signal"}
      /\ UNCHANGED <<config, sig, seen, approved, verdicts, ledger, fill, fills, summary>>
  BY DEF Submit, RecordSubmit, FillOrder, RecordFill, AtOrder, AtHand
<1>2. \/ orders' = Move("submitted") /\ UNCHANGED trail
      \/ orders' = Move("filled") /\ UNCHANGED trail
      \/ trail' = Record /\ UNCHANGED orders
  BY DEF Submit, RecordSubmit, FillOrder, RecordFill
<1>3. /\ orders' \in Seq(OrderRows) /\ Len(orders') = Len(orders)
      /\ trail' \in Seq(Seq(OrderStatuses)) /\ Len(trail') = Len(trail)
  <2>1. "submitted" \in OrderStatuses /\ "filled" \in OrderStatuses
    BY DEF OrderStatuses
  <2>2. orders \in Seq(OrderRows) /\ trail \in Seq(Seq(OrderStatuses))
    BY DEF TypedInv, WorkflowTypeOK
  <2>3. CASE orders' = Move("submitted") /\ UNCHANGED trail
    BY <1>1, <2>1, <2>2, <2>3, MoveTyped
  <2>4. CASE orders' = Move("filled") /\ UNCHANGED trail
    BY <1>1, <2>1, <2>2, <2>4, MoveTyped
  <2>5. CASE trail' = Record /\ UNCHANGED orders
    BY <1>1, <2>2, <2>5, RecordTyped
  <2> QED
    BY <1>2, <2>3, <2>4, <2>5
<1>4. WorkflowTypeOK'
  BY <1>1, <1>3 DEF TypedInv, WorkflowTypeOK, PCs
<1> QED
  BY <1>1, <1>3, <1>4 DEF TypedInv, Placed, AtHand, AtOrder

\* The fill that is stored is the latest order's.
LEMMA InsertFillTyped ==
    ASSUME TypedInv, InsertFill
    PROVE  /\ TypedInv'
           /\ fills \in Seq(FillRows) /\ fills' \in Seq(FillRows) /\ Len(fills) \in Nat
           /\ Len(fills') = Len(fills) + 1
           /\ Latest \in DOMAIN orders /\ orders[Latest] \in OrderRows
           /\ \A i \in 1..Len(fills) : fills'[i] = fills[i]
           /\ LET f == fills'[Len(fills) + 1]
              IN /\ f.order = Latest /\ f.type = sig.type /\ f.side = orders[Latest].side
                 /\ f.qty = orders[Latest].qty /\ f.fees = fill.fees /\ f.pnl = fill.pnl
<1> DEFINE f == [order |-> Latest, type |-> sig.type, side |-> orders[Latest].side, qty |-> orders[Latest].qty,
                 price |-> fill.price, fees |-> fill.fees, pnl |-> fill.pnl]
<1>1. /\ pc = "fill" /\ pc' = "filling" /\ fills' = Append(fills, f)
      /\ UNCHANGED <<config, sig, seen, approved, verdicts, orders, trail, ledger, fill, summary>>
  BY DEF InsertFill
<1>2. /\ orders \in Seq(OrderRows) /\ Len(orders) \in Nat /\ Len(orders) > 0 /\ fill \in Fillings
      /\ sig.type \in {"entry", "exit"} /\ fills \in Seq(FillRows)
  BY <1>1 DEF TypedInv, WorkflowTypeOK, Placed, AtHand, AtOrder, Fillings
<1>3. Latest \in Nat \ {0} /\ orders[Latest] \in OrderRows /\ Latest \in DOMAIN orders
  BY <1>2 DEF Latest
<1>4. /\ f \in FillRows /\ f.order = Latest /\ f.type = sig.type /\ f.side = orders[Latest].side
      /\ f.qty = orders[Latest].qty /\ f.fees = fill.fees /\ f.pnl = fill.pnl
  BY <1>2, <1>3 DEF OrderRows, FillRows, Fillings
<1> HIDE DEF f
<1>5. /\ fills' \in Seq(FillRows) /\ Len(fills) \in Nat /\ Len(fills') = Len(fills) + 1
      /\ \A i \in 1..Len(fills) : fills'[i] = fills[i]
      /\ fills'[Len(fills) + 1] = f
  BY <1>1, <1>2, <1>4
<1>6. WorkflowTypeOK'
  BY <1>1, <1>5 DEF TypedInv, WorkflowTypeOK, PCs
<1>7. TypedInv'
  BY <1>1, <1>6 DEF TypedInv, Placed, AtHand, AtOrder
<1> QED
  BY <1>2, <1>3, <1>4, <1>5, <1>7

\* The run ends, or nothing happens.
LEMMA EndTyped ==
    ASSUME TypedInv, StorePerformance \/ Stop \/ UNCHANGED workflowVars
    PROVE  TypedInv'
<1>1. CASE StorePerformance
  <2> DEFINE row == [trades |-> Len(ledger.closed), pnl |-> ledger.pnl, fees |-> ledger.fees,
                     signals |-> seen, yes |-> verdicts.yes, no |-> verdicts.no]
  <2>1. /\ pc' = "done" /\ summary' = row
        /\ UNCHANGED <<config, sig, seen, approved, verdicts, orders, trail, ledger, fill, fills>>
    BY <1>1 DEF StorePerformance
  <2>2. /\ ledger.closed \in Seq(Int) /\ ledger.pnl \in Int /\ ledger.fees \in Nat /\ seen \in Nat
        /\ verdicts.yes \in Nat /\ verdicts.no \in Nat
    BY DEF TypedInv, WorkflowTypeOK, LedgerRows
  <2>3. row \in Summaries
    BY <2>2 DEF Summaries
  <2> HIDE DEF row
  <2>4. WorkflowTypeOK'
    BY <2>1, <2>3 DEF TypedInv, WorkflowTypeOK, PCs, Summaries
  <2> QED
    BY <2>1, <2>4 DEF TypedInv, Placed, AtHand, AtOrder
<1>2. CASE Stop
  <2>1. /\ pc' = "stopped"
        /\ UNCHANGED <<config, sig, seen, approved, verdicts, orders, trail, ledger, fill, fills, summary>>
    BY <1>2 DEF Stop
  <2>2. WorkflowTypeOK'
    BY <2>1 DEF TypedInv, WorkflowTypeOK, PCs
  <2> QED
    BY <2>1, <2>2 DEF TypedInv, Placed, AtHand, AtOrder
<1>3. CASE UNCHANGED workflowVars
  BY <1>3 DEF workflowVars, TypedInv, WorkflowTypeOK, Placed
<1> QED
  BY <1>1, <1>2, <1>3

\* Every step keeps the types.
LEMMA TypedNext == TypedInv /\ [WorkflowNext]_workflowVars => TypedInv'
<1> SUFFICES ASSUME TypedInv, [WorkflowNext]_workflowVars PROVE TypedInv'
  OBVIOUS
<1>1. ASSUME NEW p \in Prices, NEW side \in {"long", "short"}, NEW fit \in BOOLEAN, StoreSignal("entry", side, p, fit)
      PROVE  TypedInv'
  BY <1>1, StoreSignalTyped
<1>2. ASSUME NEW p \in Prices, StoreSignal("exit", "long", p, TRUE)
      PROVE  TypedInv'
  BY <1>2, StoreSignalTyped
<1> QED
  BY <1>1, <1>2, EvaluateTyped, CreateOrderTyped, OpenOrderTyped, FillStepsTyped, InsertFillTyped, EndTyped
  DEF WorkflowNext

-----------------------------------------------------------------------------
(***************************************************************************)
(* An order, its fill and its events.                                      *)
(***************************************************************************)
-----------------------------------------------------------------------------
\* An order, its fill and its events. What of the latest order is under way is told by
\* the place; every other order has its whole path.
Path(i) == IF orders[i].status = "filled" THEN <<"created", "submitted", "filled">> ELSE <<orders[i].status>>
Settled(i) == i < Latest \/ pc \in {"signal", "risk", "order", "done"}
Made(i) == {k \in DOMAIN fills : fills[k].order = i}

FillRefs ==
    /\ \A k \in DOMAIN fills : /\ fills[k].order \in DOMAIN orders
                               /\ fills[k].qty = orders[fills[k].order].qty
                               /\ orders[fills[k].order].status \in {"submitted", "filled"}
    /\ \A k, l \in DOMAIN fills : fills[k].order = fills[l].order => k = l
    /\ \A i \in DOMAIN orders : orders[i].status = "filled" => \E k \in DOMAIN fills : fills[k].order = i

UnderWay ==
    /\ pc \in {"created", "submit", "submitted", "fill"} => \A k \in DOMAIN fills : fills[k].order # Latest
    /\ pc = "created" => trail[Latest] = <<>> /\ (orders[Latest].status = "pending_approval" <=> config.mode = "semi_auto")
                         /\ orders[Latest].status \in {"created", "pending_approval"}
    /\ pc = "submit" => trail[Latest] = <<"created">> /\ orders[Latest].status = "created"
    /\ pc = "submitted" => trail[Latest] = <<"created">> /\ orders[Latest].status = "submitted"
    /\ pc \in {"fill", "filling"} => trail[Latest] = <<"created", "submitted">> /\ orders[Latest].status = "submitted"
    /\ pc = "filling" => \E k \in DOMAIN fills : fills[k].order = Latest
    /\ pc = "filled" => trail[Latest] = <<"created", "submitted">> /\ orders[Latest].status = "filled"

StoryInv == FillRefs /\ UnderWay /\ \A i \in DOMAIN orders : Settled(i) => trail[i] = Path(i)

\* The invariant tells the story that the property asks for.
LEMMA StoryTold == StoryInv => OrdersTellTheirStory
<1> SUFFICES ASSUME StoryInv PROVE OrdersTellTheirStory
  OBVIOUS
<1> SUFFICES ASSUME NEW i \in DOMAIN orders
             PROVE  /\ \A k, l \in Made(i) : k = l /\ fills[k].qty = orders[i].qty
                    /\ orders[i].status = "filled" => Made(i) # {}
                    /\ Made(i) # {} => orders[i].status \in {"submitted", "filled"}
                    /\ i < Latest \/ pc \in {"signal", "done"} =>
                          trail[i] = CASE orders[i].status = "filled" -> <<"created", "submitted", "filled">>
                                       [] OTHER -> <<orders[i].status>>
  BY DEF OrdersTellTheirStory, Made
<1>1. \A k, l \in Made(i) : k = l /\ fills[k].qty = orders[i].qty
  BY DEF StoryInv, FillRefs, Made
<1>2. orders[i].status = "filled" => Made(i) # {}
  BY DEF StoryInv, FillRefs, Made
<1>3. Made(i) # {} => orders[i].status \in {"submitted", "filled"}
  BY DEF StoryInv, FillRefs, Made
<1>4. i < Latest \/ pc \in {"signal", "done"} => trail[i] = Path(i)
  BY DEF StoryInv, Settled
<1>5. Path(i) = CASE orders[i].status = "filled" -> <<"created", "submitted", "filled">>
                  [] OTHER -> <<orders[i].status>>
  BY DEF Path
<1> QED
  BY <1>1, <1>2, <1>3, <1>4, <1>5

\* Without orders there is nothing to tell.
LEMMA StoryInit == WorkflowInit => StoryInv
BY DEF WorkflowInit, StoryInv, FillRefs, UnderWay

\* Steps that write neither orders nor fills nor events, between places where every
\* order is settled, or to where nothing more is promised.
LEMMA StoryStill ==
    ASSUME TypedInv, StoryInv, UNCHANGED <<config, orders, trail, fills>>,
           \/ pc \in {"signal", "risk", "order", "done"} /\ pc' \in {"signal", "risk", "order", "done"}
           \/ pc' = "stopped"
           \/ pc' = pc
    PROVE  StoryInv'
<1>1. FillRefs'
  BY DEF StoryInv, FillRefs
<1>2. UnderWay'
  BY DEF StoryInv, UnderWay, Latest
<1>3. ASSUME NEW i \in DOMAIN orders', Settled(i)' PROVE trail'[i] = Path(i)'
  BY <1>3 DEF StoryInv, Settled, Path, Latest
<1> QED
  BY <1>1, <1>2, <1>3 DEF StoryInv

\* A new order has no event and no fill.
LEMMA CreateOrderStory ==
    ASSUME TypedInv, StoryInv, CreateOrder
    PROVE  StoryInv'
<1> DEFINE st == IF config.mode = "semi_auto" THEN "pending_approval" ELSE "created"
           o == [type |-> sig.type, side |-> OrderSide, qty |-> approved, price |-> sig.price, status |-> st]
           n == Len(orders)
<1>1. /\ pc = "order" /\ pc' = "created" /\ orders' = Append(orders, o) /\ trail' = Append(trail, <<>>)
      /\ UNCHANGED <<config, fills>>
  BY DEF CreateOrder
<1>2. /\ orders \in Seq(OrderRows) /\ trail \in Seq(Seq(OrderStatuses)) /\ Len(trail) = n /\ n \in Nat
      /\ DOMAIN orders = 1..n
  BY DEF TypedInv, WorkflowTypeOK
<1>3. o.status = st
  OBVIOUS
<1> HIDE DEF o
<1>4. /\ DOMAIN orders' = 1..(n + 1) /\ orders'[n + 1] = o /\ \A i \in 1..n : orders'[i] = orders[i]
      /\ trail'[n + 1] = <<>> /\ \A i \in 1..n : trail'[i] = trail[i]
      /\ Latest' = n + 1
  BY <1>1, <1>2 DEF Latest
<1>5. \A i \in DOMAIN orders' : i \in 1..n \/ i = n + 1
  BY <1>2, <1>4
<1>6. \A k \in DOMAIN fills : fills[k].order \in 1..n
  BY <1>2 DEF StoryInv, FillRefs
<1>7. FillRefs'
  <2>1. \A k \in DOMAIN fills' : /\ fills'[k].order \in DOMAIN orders'
                                 /\ fills'[k].qty = orders'[fills'[k].order].qty
                                 /\ orders'[fills'[k].order].status \in {"submitted", "filled"}
    BY <1>1, <1>2, <1>4, <1>6 DEF StoryInv, FillRefs
  <2>2. \A i \in DOMAIN orders' : orders'[i].status = "filled" => \E k \in DOMAIN fills' : fills'[k].order = i
    BY <1>1, <1>2, <1>3, <1>4, <1>5 DEF StoryInv, FillRefs
  <2> QED
    BY <1>1, <2>1, <2>2 DEF StoryInv, FillRefs
<1>8. UnderWay'
  <2>1. \A k \in DOMAIN fills' : fills'[k].order # Latest'
    BY <1>1, <1>2, <1>4, <1>6
  <2> QED
    BY <1>1, <1>3, <1>4, <2>1 DEF UnderWay
<1>9. ASSUME NEW i \in DOMAIN orders', Settled(i)' PROVE trail'[i] = Path(i)'
  <2>1. i \in 1..n
    BY <1>1, <1>2, <1>4, <1>5, <1>9 DEF Settled
  <2> QED
    BY <1>1, <1>2, <1>4, <2>1 DEF StoryInv, Settled, Path
<1> QED
  BY <1>7, <1>8, <1>9 DEF StoryInv

\* The first event of an order.
LEMMA OpenOrderStory ==
    ASSUME TypedInv, StoryInv, OpenOrder
    PROVE  StoryInv'
<1>1. /\ pc = "created" /\ trail' = Record /\ UNCHANGED <<config, orders, fills>>
      /\ pc' \in {"signal", "submit"} /\ (pc' = "submit" => config.mode # "semi_auto")
  BY DEF OpenOrder
<1>2. /\ Latest \in DOMAIN orders /\ DOMAIN orders = DOMAIN trail
      /\ trail'[Latest] = Append(trail[Latest], orders[Latest].status)
      /\ \A i \in DOMAIN orders : i # Latest => trail'[i] = trail[i]
  BY <1>1, RecordTyped DEF AtOrder
<1>3. /\ Len(orders) \in Nat /\ DOMAIN orders = 1..Len(orders)
  BY DEF TypedInv, WorkflowTypeOK
<1>4. /\ trail[Latest] = <<>> /\ orders[Latest].status \in {"created", "pending_approval"}
      /\ (orders[Latest].status = "pending_approval" <=> config.mode = "semi_auto")
      /\ \A k \in DOMAIN fills : fills[k].order # Latest
  BY <1>1 DEF StoryInv, UnderWay
<1>5. trail'[Latest] = <<orders[Latest].status>> /\ Latest' = Latest
  BY <1>1, <1>2, <1>4 DEF Latest
<1>6. FillRefs'
  BY <1>1 DEF StoryInv, FillRefs
<1>7. UnderWay'
  BY <1>1, <1>4, <1>5 DEF UnderWay
<1>8. ASSUME NEW i \in DOMAIN orders', Settled(i)' PROVE trail'[i] = Path(i)'
  <2>1. CASE i = Latest
    BY <1>1, <1>4, <1>5, <2>1 DEF Path
  <2>2. CASE i # Latest
    <3>1. i < Latest
      BY <1>1, <1>3, <2>2 DEF Latest
    <3> QED
      BY <1>1, <1>2, <2>2, <3>1 DEF StoryInv, Settled, Path
  <2> QED
    BY <2>1, <2>2
<1> QED
  BY <1>6, <1>7, <1>8 DEF StoryInv

\* An order moves on; its event follows.
LEMMA MovesStory ==
    ASSUME TypedInv, StoryInv, Submit \/ FillOrder
    PROVE  StoryInv'
<1>1. PICK to \in {"submitted", "filled"} :
         /\ orders' = Move(to) /\ UNCHANGED <<config, trail, fills>>
         /\ to = "submitted" => pc = "submit" /\ pc' = "submitted"
         /\ to = "filled" => pc = "filling" /\ pc' = "filled"
  BY DEF Submit, FillOrder
<1>2. to \in OrderStatuses /\ pc \in AtOrder
  BY <1>1 DEF OrderStatuses, AtOrder
<1>3. /\ Len(orders') = Len(orders) /\ Len(orders) \in Nat
      /\ Latest \in DOMAIN orders /\ DOMAIN orders = 1..Len(orders) /\ DOMAIN orders' = 1..Len(orders)
      /\ orders'[Latest].status = to /\ Latest' = Latest
      /\ \A i \in DOMAIN orders : /\ orders'[i].qty = orders[i].qty
                                  /\ i # Latest => orders'[i].status = orders[i].status
  BY <1>1, <1>2, MoveTyped DEF Latest
<1>4. FillRefs'
  <2>1. \A k \in DOMAIN fills : fills[k].order \in DOMAIN orders /\ fills[k].qty = orders[fills[k].order].qty
                                /\ orders[fills[k].order].status \in {"submitted", "filled"}
    BY DEF StoryInv, FillRefs
  <2>2. ASSUME NEW i \in DOMAIN orders, orders'[i].status = "filled" PROVE \E k \in DOMAIN fills : fills[k].order = i
    <3>1. CASE i # Latest
      BY <1>3, <2>2, <3>1 DEF StoryInv, FillRefs
    <3>2. CASE i = Latest
      BY <1>1, <1>3, <2>2, <3>2 DEF StoryInv, UnderWay
    <3> QED
      BY <3>1, <3>2
  <2>3. \A k \in DOMAIN fills : orders'[fills[k].order].status \in {"submitted", "filled"}
    BY <1>1, <1>3, <2>1
  <2> QED
    BY <1>1, <1>3, <2>1, <2>2, <2>3 DEF StoryInv, FillRefs
<1>5. UnderWay'
  <2>1. CASE to = "submitted"
    BY <1>1, <1>3, <2>1 DEF StoryInv, UnderWay
  <2>2. CASE to = "filled"
    BY <1>1, <1>3, <2>2 DEF StoryInv, UnderWay
  <2> QED
    BY <1>1, <2>1, <2>2
<1>6. ASSUME NEW i \in DOMAIN orders', Settled(i)' PROVE trail'[i] = Path(i)'
  <2>1. i < Latest /\ i \in DOMAIN orders /\ i # Latest
    BY <1>1, <1>3, <1>6 DEF Settled, Latest
  <2> QED
    BY <1>1, <1>3, <2>1 DEF StoryInv, Settled, Path
<1> QED
  BY <1>4, <1>5, <1>6 DEF StoryInv

\* The event of a move: the path is complete again, or as far as it goes.
LEMMA RecordsStory ==
    ASSUME TypedInv, StoryInv, RecordSubmit \/ RecordFill
    PROVE  StoryInv'
<1>1. /\ trail' = Record /\ UNCHANGED <<config, orders, fills>>
      /\ \/ pc = "submitted" /\ pc' = "fill"
         \/ pc = "filled" /\ pc' = "signal"
  BY DEF RecordSubmit, RecordFill
<1>2. /\ Latest \in DOMAIN orders /\ DOMAIN orders = DOMAIN trail
      /\ trail'[Latest] = Append(trail[Latest], orders[Latest].status)
      /\ \A i \in DOMAIN orders : i # Latest => trail'[i] = trail[i]
  BY <1>1, RecordTyped DEF AtOrder
<1>0. LET old == trail[Latest]
          new == trail'[Latest]
      IN /\ new \in Seq(OrderStatuses) /\ Len(new) = Len(old) + 1 /\ new[Len(old) + 1] = orders[Latest].status
         /\ \A i \in 1..Len(old) : new[i] = old[i]
  BY <1>1, RecordTyped DEF AtOrder
<1>3. Len(orders) \in Nat /\ DOMAIN orders = 1..Len(orders) /\ Latest' = Latest
  BY <1>1 DEF TypedInv, WorkflowTypeOK, Latest
<1>4. FillRefs'
  BY <1>1 DEF StoryInv, FillRefs
<1>5. /\ pc = "submitted" => trail'[Latest] = <<"created", "submitted">>
      /\ pc = "filled" => trail'[Latest] = <<"created", "submitted", "filled">>
  <2>1. ASSUME pc = "submitted" PROVE trail'[Latest] = <<"created", "submitted">>
    <3>1. trail[Latest] = <<"created">> /\ orders[Latest].status = "submitted"
      BY <2>1 DEF StoryInv, UnderWay
    <3>2. PICK old, new : old = trail[Latest] /\ new = trail'[Latest]
      OBVIOUS
    <3>3. Len(old) = 1 /\ old[1] = "created"
      BY <3>1, <3>2
    <3>4. new \in Seq(OrderStatuses) /\ Len(new) = 2 /\ new[1] = "created" /\ new[2] = "submitted"
      BY <1>0, <3>1, <3>2, <3>3
    <3> QED
      BY <3>2, <3>4
  <2>2. ASSUME pc = "filled" PROVE trail'[Latest] = <<"created", "submitted", "filled">>
    <3>1. trail[Latest] = <<"created", "submitted">> /\ orders[Latest].status = "filled"
      BY <2>2 DEF StoryInv, UnderWay
    <3>2. PICK old, new : old = trail[Latest] /\ new = trail'[Latest]
      OBVIOUS
    <3>3. Len(old) = 2 /\ old[1] = "created" /\ old[2] = "submitted"
      BY <3>1, <3>2
    <3>4. /\ new \in Seq(OrderStatuses) /\ Len(new) = 3
          /\ new[1] = "created" /\ new[2] = "submitted" /\ new[3] = "filled"
      BY <1>0, <3>1, <3>2, <3>3
    <3> QED
      BY <3>2, <3>4
  <2> QED
    BY <2>1, <2>2
<1>6. UnderWay'
  BY <1>1, <1>3, <1>5 DEF StoryInv, UnderWay
<1>7. ASSUME NEW i \in DOMAIN orders', Settled(i)' PROVE trail'[i] = Path(i)'
  <2>1. CASE i = Latest
    <3>1. pc = "filled"
      BY <1>1, <1>3, <1>7, <2>1 DEF Settled
    <3> QED
      BY <1>1, <1>5, <2>1, <3>1 DEF StoryInv, UnderWay, Path
  <2>2. CASE i # Latest
    <3>1. i < Latest
      BY <1>1, <1>3, <2>2 DEF Latest
    <3> QED
      BY <1>1, <1>2, <2>2, <3>1 DEF StoryInv, Settled, Path
  <2> QED
    BY <2>1, <2>2
<1> QED
  BY <1>4, <1>6, <1>7 DEF StoryInv

\* The one fill of an order, while it is submitted.
LEMMA InsertFillStory ==
    ASSUME TypedInv, StoryInv, InsertFill
    PROVE  StoryInv'
<1> DEFINE n == Len(fills)
<1>1. pc = "fill" /\ pc' = "filling" /\ UNCHANGED <<config, orders, trail>>
  BY DEF InsertFill
<1>2. /\ fills \in Seq(FillRows) /\ fills' \in Seq(FillRows) /\ n \in Nat /\ Len(fills') = n + 1
      /\ Latest \in DOMAIN orders
      /\ \A i \in 1..n : fills'[i] = fills[i]
      /\ fills'[n + 1].order = Latest /\ fills'[n + 1].qty = orders[Latest].qty
  BY InsertFillTyped
<1>3. /\ DOMAIN fills = 1..n /\ DOMAIN fills' = 1..(n + 1) /\ Latest' = Latest
      /\ \A k \in DOMAIN fills' : k \in 1..n \/ k = n + 1
  BY <1>1, <1>2 DEF Latest
<1>4. orders[Latest].status = "submitted" /\ \A k \in DOMAIN fills : fills[k].order # Latest
  BY <1>1 DEF StoryInv, UnderWay
<1>5. FillRefs'
  <2>1. ASSUME NEW k \in DOMAIN fills'
        PROVE  /\ fills'[k].order \in DOMAIN orders /\ fills'[k].qty = orders[fills'[k].order].qty
               /\ orders[fills'[k].order].status \in {"submitted", "filled"}
    <3>1. CASE k \in 1..n
      BY <1>2, <1>3, <3>1 DEF StoryInv, FillRefs
    <3>2. CASE k = n + 1
      BY <1>2, <1>4, <3>2
    <3> QED
      BY <1>3, <3>1, <3>2
  <2>2. \A k, l \in DOMAIN fills' : fills'[k].order = fills'[l].order => k = l
    BY <1>2, <1>3, <1>4 DEF StoryInv, FillRefs
  <2>3. \A i \in DOMAIN orders : orders[i].status = "filled" => \E k \in DOMAIN fills' : fills'[k].order = i
    <3>1. \A k \in DOMAIN fills : k \in DOMAIN fills' /\ fills'[k] = fills[k]
      BY <1>2, <1>3
    <3> QED
      BY <3>1 DEF StoryInv, FillRefs
  <2> QED
    BY <1>1, <2>1, <2>2, <2>3 DEF FillRefs
<1>6. UnderWay'
  <2>1. \E k \in DOMAIN fills' : fills'[k].order = Latest
    BY <1>2, <1>3
  <2> QED
    BY <1>1, <1>3, <2>1 DEF StoryInv, UnderWay
<1>7. ASSUME NEW i \in DOMAIN orders', Settled(i)' PROVE trail'[i] = Path(i)'
  BY <1>1, <1>3, <1>7 DEF StoryInv, Settled, Path
<1> QED
  BY <1>5, <1>6, <1>7 DEF StoryInv

\* Every step keeps the story.
LEMMA StoryNext == TypedInv /\ StoryInv /\ [WorkflowNext]_workflowVars => StoryInv'
<1> SUFFICES ASSUME TypedInv, StoryInv, [WorkflowNext]_workflowVars PROVE StoryInv'
  OBVIOUS
<1>1. ASSUME NEW p \in Prices, NEW type \in {"entry", "exit"}, NEW side \in {"long", "short"}, NEW fit \in BOOLEAN,
             StoreSignal(type, side, p, fit)
      PROVE  StoryInv'
  BY <1>1, StoryStill DEF StoreSignal
<1>2. CASE Evaluate
  <2>1. pc = "risk" /\ pc' \in {"signal", "order"} /\ UNCHANGED <<config, orders, trail, fills>>
    BY <1>2 DEF Evaluate
  <2> QED
    BY <2>1, StoryStill
<1>3. CASE StorePerformance
  BY <1>3, StoryStill DEF StorePerformance
<1>4. CASE Stop
  BY <1>4, StoryStill DEF Stop
<1>5. CASE UNCHANGED workflowVars
  BY <1>5, StoryStill DEF workflowVars
<1>6. ASSUME NEW p \in Prices,
             \/ \E side \in {"long", "short"}, fit \in BOOLEAN : StoreSignal("entry", side, p, fit)
             \/ StoreSignal("exit", "long", p, TRUE)
      PROVE  StoryInv'
  BY <1>1, <1>6
<1> QED
  BY <1>2, <1>3, <1>4, <1>5, <1>6, CreateOrderStory, OpenOrderStory, MovesStory, RecordsStory, InsertFillStory
  DEF WorkflowNext

-----------------------------------------------------------------------------
(***************************************************************************)
(* The policy.                                                             *)
(***************************************************************************)
-----------------------------------------------------------------------------
\* The policy: what an order is granted, and that no position is opened past the
\* loss limit.  The decision is made before the order exists, so the invariant carries it
\* along the places in between.
WithinPolicy(q, p) ==
    q <= MaxQuantity /\ q * p <= MaxOrderValue /\ q * p * StopPct <= 100 * MaxLossPerTrade

PolicyInv ==
    /\ OrdersWithinPolicy
    /\ pc = "order" /\ sig.type = "entry" => WithinPolicy(approved, sig.price)
    /\ NoEntryAfterLossLimit
    /\ pc \in {"order", "created", "submit", "submitted", "fill"} /\ sig.type = "entry" =>
          RealizedLoss < 100 * MaxDailyLoss

\* A sequence with one more element sums to one element more.
LEMMA SumOfOneMore ==
    ASSUME NEW n \in Nat, NEW w, NEW v, DOMAIN w = 1..n, DOMAIN v = 1..(n + 1),
           \A i \in 1..n : w[i] \in Int /\ v[i] = w[i], v[n + 1] \in Int
    PROVE  SumFunction(w) \in Int /\ SumFunction(v) = SumFunction(w) + v[n + 1]
<1>1. IsFiniteSet(1..n) /\ IsFiniteSet(1..(n + 1))
  BY FS_Interval
<1>2. /\ \A i \in 1..(n + 1) : v[i] \in Int
      /\ n + 1 \in 1..(n + 1) /\ (1..(n + 1)) \ {n + 1} = 1..n
  OBVIOUS
<1>3. SumFunctionOnSet(v, 1..(n + 1)) = v[n + 1] + SumFunctionOnSet(v, (1..(n + 1)) \ {n + 1})
  BY <1>1, <1>2, SumTakes
<1>4. SumFunctionOnSet(v, 1..n) = SumFunctionOnSet(w, 1..n) /\ SumFunctionOnSet(w, 1..n) \in Int
  BY <1>1, SumAgrees, SumIsInt
<1>5. SumFunctionOnSet(v, 1..(n + 1)) = v[n + 1] + SumFunctionOnSet(w, 1..n)
  BY <1>2, <1>3, <1>4
<1>6. SumFunction(v) = SumFunctionOnSet(v, 1..(n + 1)) /\ SumFunction(w) = SumFunctionOnSet(w, 1..n)
  BY DEF SumFunction
<1> QED
  BY <1>4, <1>5, <1>6

\* The fields of stored fills.
LEMMA FillsTyped ==
    ASSUME NEW fs \in Seq(FillRows)
    PROVE  /\ Len(fs) \in Nat /\ DOMAIN fs = 1..Len(fs)
           /\ \A i \in 1..Len(fs) : /\ fs[i] \in FillRows /\ fs[i].pnl \in Int /\ fs[i].fees \in Nat
                                     /\ fs[i].qty \in Nat \ {0} /\ fs[i].side \in {"BUY", "SELL"}
                                     /\ fs[i].type \in {"entry", "exit"}
<1>1. Len(fs) \in Nat /\ DOMAIN fs = 1..Len(fs) /\ \A i \in 1..Len(fs) : fs[i] \in FillRows
  OBVIOUS
<1>2. \A f \in FillRows : /\ f.pnl \in Int /\ f.fees \in Nat /\ f.qty \in Nat \ {0} /\ f.side \in {"BUY", "SELL"}
                           /\ f.type \in {"entry", "exit"}
  BY DEF FillRows
<1> QED
  BY <1>1, <1>2

\* What an entry is cut to is within every bound of the policy.
LEMMA SizedWithinPolicy ==
    ASSUME sig.price \in Nat \ {0}
    PROVE  WithinPolicy(Sized, sig.price)
<1> DEFINE p == sig.price
           stop == IF LossPerShare100 > 0 THEN (100 * MaxLossPerTrade) \div LossPerShare100 ELSE 0
           room == MaxOrderValue \div p
<1>1. /\ MaxQuantity \in Nat /\ MaxOrderValue \in Nat /\ MaxLossPerTrade \in Nat /\ StopPct \in Nat
      /\ RequestedQuantity \in Nat /\ 100 * MaxLossPerTrade \in Nat
  BY RWAssumption
<1>2. \A m, n \in Nat : Least(m, n) \in Nat /\ Least(m, n) <= m /\ Least(m, n) <= n
  BY DEF Least
<1>3. \A a \in Nat, b \in Nat \ {0} : a \div b \in Nat /\ (a \div b) * b <= a
  OBVIOUS
<1>4. \A x, y, z \in Nat : x <= y => x * z <= y * z
  OBVIOUS
<1>5. p \in Nat \ {0} /\ LossPerShare100 \in Nat /\ LossPerShare100 = p * StopPct
  BY <1>1, Products DEF LossPerShare100
<1> HIDE DEF p
<1>6. room \in Nat /\ room * p <= MaxOrderValue
  BY <1>1, <1>3, <1>5
<1> HIDE DEF room
<1>7. stop \in Nat /\ stop * LossPerShare100 <= 100 * MaxLossPerTrade
  <2>1. CASE LossPerShare100 > 0
    BY <1>1, <1>3, <1>5, <2>1
  <2>2. CASE ~(LossPerShare100 > 0)
    BY <1>1, <1>5, <2>2
  <2> QED
    BY <2>1, <2>2
<1> HIDE DEF stop
<1>8. Sized = Least(Least(RequestedQuantity, MaxQuantity), Least(room, stop))
  BY DEF Sized, room, stop, p
<1>9. PICK a \in Nat, b \in Nat : /\ a = Least(RequestedQuantity, MaxQuantity) /\ b = Least(room, stop)
                                  /\ a <= MaxQuantity /\ b <= room /\ b <= stop
  BY <1>1, <1>2, <1>6, <1>7
<1>10. PICK q \in Nat : q = Sized /\ q <= MaxQuantity /\ q <= room /\ q <= stop
  <2>1. Sized = Least(a, b)
    BY <1>8, <1>9
  <2>2. Least(a, b) \in Nat /\ Least(a, b) <= a /\ Least(a, b) <= b
    BY <1>2
  <2> QED
    BY <1>1, <1>6, <1>7, <1>9, <2>1, <2>2
<1>11. q * p \in Nat /\ q * p <= MaxOrderValue
  <2>1. q * p <= room * p
    BY <1>4, <1>5, <1>6, <1>10
  <2> QED
    BY <1>1, <1>5, <1>6, <2>1, Products
<1>12. q * p * StopPct <= 100 * MaxLossPerTrade
  <2>1. q * LossPerShare100 <= stop * LossPerShare100
    BY <1>4, <1>5, <1>7, <1>10
  <2>2. q * LossPerShare100 = q * p * StopPct
    <3>1. \A x, y, z \in Nat : x * (y * z) = x * y * z
      OBVIOUS
    <3> QED
      BY <1>1, <1>5, <3>1
  <2>3. q * LossPerShare100 \in Nat /\ stop * LossPerShare100 \in Nat
    BY <1>5, <1>7, Products
  <2> QED
    BY <1>1, <1>7, <2>1, <2>2, <2>3
<1>13. Sized <= MaxQuantity /\ Sized * p <= MaxOrderValue /\ Sized * p * StopPct <= 100 * MaxLossPerTrade
  BY <1>10, <1>11, <1>12
<1> QED
  BY <1>13 DEF WithinPolicy, p

\* Without orders and fills every limit is kept.
LEMMA PolicyInit == WorkflowInit => PolicyInv
BY DEF WorkflowInit, PolicyInv, OrdersWithinPolicy, NoEntryAfterLossLimit

\* The limits hold as long as orders and fills are what they were.
LEMMA PolicyStill ==
    ASSUME PolicyInv, UNCHANGED <<orders, fills>>
    PROVE  OrdersWithinPolicy' /\ NoEntryAfterLossLimit' /\ RealizedLoss' = RealizedLoss
<1>1. Losses' = Losses
  BY DEF Losses
<1>2. OrdersWithinPolicy'
  BY DEF PolicyInv, OrdersWithinPolicy
<1>3. NoEntryAfterLossLimit'
  BY <1>1 DEF PolicyInv, NoEntryAfterLossLimit
<1> QED
  BY <1>1, <1>2, <1>3 DEF RealizedLoss

\* What is granted keeps to the policy, and nothing is granted past the loss limit.
LEMMA EvaluatePolicy ==
    ASSUME TypedInv, PolicyInv, Evaluate
    PROVE  PolicyInv'
<1>1. /\ pc = "risk" /\ UNCHANGED <<sig, orders, fills>> /\ pc' \in {"signal", "order"}
      /\ pc' = "order" => ~Refused /\ approved' = GrantedQuantity
      /\ sig.type \in {"entry", "exit"} /\ sig.price \in Nat \ {0}
  BY RWAssumption DEF Evaluate, TypedInv, Placed, AtHand
<1>2. WithinPolicy(Sized, sig.price)
  BY <1>1, SizedWithinPolicy
<1>3. ASSUME pc' = "order", sig.type = "entry"
      PROVE  approved' = Sized /\ RealizedLoss < 100 * MaxDailyLoss
  <2>1. ~(RealizedLoss >= 100 * MaxDailyLoss)
    BY <1>1, <1>3 DEF Refused, EntryRefused
  <2>2. RealizedLoss \in Int /\ 100 * MaxDailyLoss \in Int
    <3>1. fills \in Seq(FillRows)
      BY DEF TypedInv, WorkflowTypeOK
    <3>2. \A i \in DOMAIN fills : fills[i].pnl \in Int
      BY <3>1, FillsTyped
    <3>3. DOMAIN Losses = DOMAIN fills /\ \A i \in DOMAIN fills : Losses[i] \in Int
      BY <3>2 DEF Losses
    <3>4. IsFiniteSet(DOMAIN fills)
      <4>1. Len(fills) \in Nat /\ DOMAIN fills = 1..Len(fills)
        BY <3>1
      <4> QED
        BY <4>1, FS_Interval
    <3>5. SumFunctionOnSet(Losses, DOMAIN fills) \in Int
      BY <3>3, <3>4, SumIsInt
    <3> QED
      BY <3>3, <3>5, RWAssumption DEF RealizedLoss, SumFunction
  <2> QED
    BY <1>1, <1>3, <2>1, <2>2 DEF GrantedQuantity
<1>4. OrdersWithinPolicy' /\ NoEntryAfterLossLimit' /\ RealizedLoss' = RealizedLoss
  BY <1>1, PolicyStill
<1>5. pc' = "order" /\ sig'.type = "entry" => WithinPolicy(approved', sig'.price)
  BY <1>1, <1>2, <1>3
<1>6. /\ WithinPolicy(approved, sig.price)' <=> WithinPolicy(approved', sig'.price)
  BY DEF WithinPolicy
<1> QED
  BY <1>1, <1>3, <1>4, <1>5, <1>6 DEF PolicyInv

\* An order is what was granted.
LEMMA CreateOrderPolicy ==
    ASSUME TypedInv, PolicyInv, CreateOrder
    PROVE  PolicyInv'
<1> DEFINE o == [type |-> sig.type, side |-> OrderSide, qty |-> approved, price |-> sig.price,
                 status |-> IF config.mode = "semi_auto" THEN "pending_approval" ELSE "created"]
           n == Len(orders)
<1>1. pc = "order" /\ pc' = "created" /\ orders' = Append(orders, o) /\ UNCHANGED <<sig, fills>>
  BY DEF CreateOrder
<1>2. orders \in Seq(OrderRows) /\ n \in Nat /\ DOMAIN orders = 1..n
  BY DEF TypedInv, WorkflowTypeOK
<1>3. o.type = sig.type /\ o.qty = approved /\ o.price = sig.price
  OBVIOUS
<1> HIDE DEF o
<1>4. DOMAIN orders' = 1..(n + 1) /\ orders'[n + 1] = o /\ \A i \in 1..n : orders'[i] = orders[i]
  BY <1>1, <1>2
<1>5. OrdersWithinPolicy'
  <2>1. ASSUME NEW i \in DOMAIN orders', orders'[i].type = "entry"
        PROVE  WithinPolicy(orders'[i].qty, orders'[i].price)
    <3>1. CASE i = n + 1
      BY <1>1, <1>3, <1>4, <2>1, <3>1 DEF PolicyInv
    <3>2. CASE i \in 1..n
      BY <1>2, <1>4, <2>1, <3>2 DEF PolicyInv, OrdersWithinPolicy, WithinPolicy
    <3> QED
      BY <1>2, <1>4, <3>1, <3>2
  <2> QED
    BY <2>1 DEF OrdersWithinPolicy, WithinPolicy
<1>6. Losses' = Losses
  BY <1>1 DEF Losses
<1>7. NoEntryAfterLossLimit' /\ RealizedLoss' = RealizedLoss
  BY <1>1, <1>6 DEF PolicyInv, NoEntryAfterLossLimit, RealizedLoss
<1> QED
  BY <1>1, <1>5, <1>7 DEF PolicyInv

\* A move changes the status of an order alone.
LEMMA MovesPolicy ==
    ASSUME TypedInv, PolicyInv, Submit \/ FillOrder
    PROVE  PolicyInv'
<1>1. PICK to \in {"submitted", "filled"} :
         /\ orders' = Move(to) /\ UNCHANGED <<sig, fills>> /\ pc \in AtOrder
         /\ \/ pc = "submit" /\ pc' = "submitted"
            \/ pc' = "filled"
  BY DEF Submit, FillOrder, AtOrder
<1>2. /\ DOMAIN orders' = DOMAIN orders
      /\ \A i \in DOMAIN orders : orders'[i].type = orders[i].type /\ orders'[i].qty = orders[i].qty
                                  /\ orders'[i].price = orders[i].price
  <2>1. to \in OrderStatuses
    BY DEF OrderStatuses
  <2>2. orders' \in Seq(OrderRows) /\ Len(orders') = Len(orders) /\ orders \in Seq(OrderRows)
    BY <1>1, <2>1, MoveTyped DEF TypedInv, WorkflowTypeOK
  <2>3. DOMAIN orders' = DOMAIN orders
    BY <2>2
  <2> QED
    BY <1>1, <2>1, <2>3, MoveTyped
<1>3. OrdersWithinPolicy'
  BY <1>2 DEF PolicyInv, OrdersWithinPolicy
<1>4. Losses' = Losses
  BY <1>1 DEF Losses
<1>5. NoEntryAfterLossLimit' /\ RealizedLoss' = RealizedLoss
  BY <1>1, <1>4 DEF PolicyInv, NoEntryAfterLossLimit, RealizedLoss
<1> QED
  BY <1>1, <1>3, <1>5 DEF PolicyInv

\* The fill that is stored was decided on before the limit was reached: no fill came in between.
LEMMA InsertFillPolicy ==
    ASSUME TypedInv, PolicyInv, InsertFill
    PROVE  PolicyInv'
<1> DEFINE n == Len(fills)
<1>1. pc = "fill" /\ pc' = "filling" /\ UNCHANGED <<sig, orders>>
  BY DEF InsertFill
<1>2. /\ fills \in Seq(FillRows) /\ fills' \in Seq(FillRows) /\ n \in Nat /\ Len(fills') = n + 1
      /\ \A i \in 1..n : fills'[i] = fills[i]
      /\ fills'[n + 1].type = sig.type
  BY InsertFillTyped
<1>3. DOMAIN fills = 1..n /\ DOMAIN fills' = 1..(n + 1)
  BY <1>2
<1>4. \A i \in 1..n : Losses'[i] = Losses[i] /\ Losses[i] \in Int
  <2>1. \A i \in 1..n : fills[i].pnl \in Int
    BY <1>2, FillsTyped
  <2> QED
    BY <1>2, <1>3, <2>1 DEF Losses
<1>5. \A m \in 0..n : SumFunctionOnSet(Losses', 1..m) = SumFunctionOnSet(Losses, 1..m)
  <2> TAKE m \in 0..n
  <2>0. m \in Nat /\ \A i \in 1..m : i \in 1..n
    BY <1>2
  <2>1. IsFiniteSet(1..m) /\ \A i \in 1..m : Losses'[i] = Losses[i] /\ Losses[i] \in Int
    BY <1>4, <2>0, FS_Interval
  <2> QED
    BY <2>1, SumAgrees
<1>6. SumFunctionOnSet(Losses, 1..n) = RealizedLoss
  BY <1>3 DEF RealizedLoss, SumFunction, Losses
<1>7. ASSUME NEW i \in DOMAIN fills', fills'[i].type = "entry"
      PROVE  SumFunctionOnSet(Losses', 1..(i - 1)) < 100 * MaxDailyLoss
  <2>1. CASE i = n + 1
    <3>1. sig.type = "entry" /\ RealizedLoss < 100 * MaxDailyLoss
      BY <1>1, <1>2, <1>7, <2>1 DEF PolicyInv
    <3>2. n \in 0..n /\ i - 1 = n
      BY <1>2, <2>1
    <3>3. SumFunctionOnSet(Losses', 1..(i - 1)) = RealizedLoss
      BY <1>5, <1>6, <3>2
    <3> QED
      BY <3>1, <3>3
  <2>2. CASE i \in 1..n
    <3>1. i \in DOMAIN fills /\ fills[i].type = "entry" /\ i - 1 \in 0..n
      BY <1>2, <1>3, <1>7, <2>2
    <3>2. SumFunctionOnSet(Losses, 1..(i - 1)) < 100 * MaxDailyLoss
      BY <3>1 DEF PolicyInv, NoEntryAfterLossLimit
    <3> QED
      BY <1>5, <3>1, <3>2
  <2> QED
    BY <1>2, <1>3, <2>1, <2>2
<1>8. NoEntryAfterLossLimit'
  BY <1>7 DEF NoEntryAfterLossLimit
<1>9. OrdersWithinPolicy'
  BY <1>1 DEF PolicyInv, OrdersWithinPolicy
<1> QED
  BY <1>1, <1>8, <1>9 DEF PolicyInv

\* Every step keeps to the policy.
LEMMA PolicyNext == TypedInv /\ PolicyInv /\ [WorkflowNext]_workflowVars => PolicyInv'
<1> SUFFICES ASSUME TypedInv, PolicyInv, [WorkflowNext]_workflowVars PROVE PolicyInv'
  OBVIOUS
<1>1. ASSUME NEW p \in Prices, NEW type \in {"entry", "exit"}, NEW side \in {"long", "short"}, NEW fit \in BOOLEAN,
             StoreSignal(type, side, p, fit)
      PROVE  PolicyInv'
  <2>1. pc' = "risk" /\ UNCHANGED <<orders, fills>>
    BY <1>1 DEF StoreSignal
  <2> QED
    BY <2>1, PolicyStill DEF PolicyInv
<1>2. CASE OpenOrder \/ RecordSubmit \/ RecordFill \/ StorePerformance \/ Stop
  <2>1. /\ UNCHANGED <<sig, orders, fills>>
        /\ \/ pc = "created" /\ pc' = "submit"
           \/ pc = "submitted" /\ pc' = "fill"
           \/ pc' \in {"signal", "done", "stopped"}
    BY <1>2 DEF OpenOrder, RecordSubmit, RecordFill, StorePerformance, Stop
  <2> QED
    BY <2>1, PolicyStill DEF PolicyInv
<1>3. CASE UNCHANGED workflowVars
  <2>1. UNCHANGED <<pc, sig, approved, orders, fills>>
    BY <1>3 DEF workflowVars
  <2>2. WithinPolicy(approved, sig.price)' = WithinPolicy(approved, sig.price)
    BY <2>1 DEF WithinPolicy
  <2> QED
    BY <2>1, <2>2, PolicyStill DEF PolicyInv
<1>4. ASSUME NEW p \in Prices,
             \/ \E side \in {"long", "short"}, fit \in BOOLEAN : StoreSignal("entry", side, p, fit)
             \/ StoreSignal("exit", "long", p, TRUE)
      PROVE  PolicyInv'
  BY <1>1, <1>4
<1> QED
  BY <1>2, <1>3, <1>4, EvaluatePolicy, CreateOrderPolicy, MovesPolicy, InsertFillPolicy DEF WorkflowNext

\* Orders keep to the policy and to the loss limit, and their rows, fills and events tell
\* one story wherever the run stopped, for any number of signals and any policy.
THEOREM KeptPolicy == WorkflowSpec => []OrdersKeepToPolicy
<1> DEFINE Inv == TypedInv /\ StoryInv /\ PolicyInv
<1>1. WorkflowInit => Inv
  BY TypedInit, StoryInit, PolicyInit
<1>2. Inv /\ [WorkflowNext]_workflowVars => Inv'
  BY TypedNext, StoryNext, PolicyNext
<1>3. Inv => OrdersKeepToPolicy
  BY StoryTold DEF OrdersKeepToPolicy, PolicyInv
<1> QED
  BY <1>1, <1>2, <1>3, PTL DEF WorkflowSpec

-----------------------------------------------------------------------------
(***************************************************************************)
(* The money.                                                              *)
(***************************************************************************)
-----------------------------------------------------------------------------
\* The money: the ledger is the fills so far and the one in flight, which it has answered
\* and which is not stored yet.
Live == pc \notin {"done", "stopped"}
InFlight == pc \in {"submit", "submitted", "fill"}
LastFill == fills[Len(fills)]
Opens(side) == IF side = "short" THEN "SELL" ELSE "BUY"
Closes(side) == IF side = "short" THEN "BUY" ELSE "SELL"
Position == Signed(Opens(ledger.side), ledger.qty)
Open == IF ledger.qty > 0 THEN 1 ELSE 0

\* Every signal but the one being judged has its decision.
Judged == Live => verdicts.yes + verdicts.no + (IF pc = "risk" THEN 1 ELSE 0) = seen

\* The ledger's totals, its closed trades and its position.
Booked ==
    Live => /\ ledger.pnl = Pnl + (IF InFlight THEN fill.pnl ELSE 0)
            /\ ledger.fees = Fees + (IF InFlight THEN fill.fees ELSE 0)
            /\ 2 * Len(ledger.closed) + Open = Len(fills) + (IF InFlight THEN 1 ELSE 0)
            /\ Position = Shares + (IF InFlight THEN Signed(orders[Latest].side, orders[Latest].qty) ELSE 0)

\* The fill a position rests on.
Entry(qty, side) == Len(fills) > 0 /\ LastFill.type = "entry" /\ LastFill.qty = qty /\ LastFill.side = side

\* An open position rests on the last fill, unless its entry is in flight.
RestsOnEntry ==
    /\ Live /\ ~InFlight /\ ledger.qty > 0 => Entry(ledger.qty, Opens(ledger.side))
    /\ InFlight /\ sig.type = "entry" =>
          ledger.qty = orders[Latest].qty /\ orders[Latest].side = Opens(ledger.side)
    /\ InFlight /\ sig.type = "exit" =>
          /\ ledger.qty = 0
          /\ \E side \in {"long", "short"} :
                Entry(orders[Latest].qty, Opens(side)) /\ orders[Latest].side = Closes(side)

\* An order is what was granted, and an exit is the whole position.
Granted ==
    /\ pc \in {"order", "created"} /\ sig.type = "exit" => approved = ledger.qty
    /\ pc = "created" =>
          /\ orders[Latest].qty = approved
          /\ orders[Latest].side = IF sig.type = "entry" THEN Opens(sig.side) ELSE Closes(ledger.side)

Untold == pc # "done" => summary = NoSummary

MoneyInv == RoundTrips /\ Judged /\ Booked /\ RestsOnEntry /\ Granted /\ Untold /\ SummaryExplained

\* The totals of the fills are numbers, and one more fill adds what it says.
LEMMA TotalsAreNumbers ==
    ASSUME TypedInv
    PROVE  Pnl \in Int /\ Fees \in Int /\ Shares \in Int /\ Len(fills) \in Nat
<1> DEFINE n == Len(fills)
<1>1. /\ n \in Nat /\ DOMAIN fills = 1..n
      /\ \A i \in 1..n : /\ fills[i].pnl \in Int /\ fills[i].fees \in Nat
                         /\ Signed(fills[i].side, fills[i].qty) \in Int
  <2>1. fills \in Seq(FillRows)
    BY DEF TypedInv, WorkflowTypeOK
  <2> QED
    BY <2>1, FillsTyped DEF Signed
<1>2. IsFiniteSet(1..n)
  BY <1>1, FS_Interval
<1>3. \A w : DOMAIN w = 1..n /\ (\A i \in 1..n : w[i] \in Int) => SumFunction(w) \in Int
  BY <1>2, SumIsInt DEF SumFunction
<1> HIDE DEF n
<1>4. Pnl \in Int
  BY <1>1, <1>3 DEF Pnl
<1>5. Fees \in Int
  BY <1>1, <1>3 DEF Fees
<1>6. Shares \in Int
  BY <1>1, <1>3 DEF Shares
<1> QED
  BY <1>1, <1>4, <1>5, <1>6 DEF n

\* One more fill adds what it says.
LEMMA TotalsGrow ==
    ASSUME TypedInv, InsertFill
    PROVE  /\ Pnl' = Pnl + fill.pnl /\ Fees' = Fees + fill.fees
           /\ Shares' = Shares + Signed(orders[Latest].side, orders[Latest].qty)
           /\ Pnl' \in Int /\ Fees' \in Int /\ Shares' \in Int
<1> DEFINE n == Len(fills)
           m == n + 1
<1>1. /\ fills \in Seq(FillRows) /\ fills' \in Seq(FillRows) /\ n \in Nat /\ Len(fills') = n + 1
      /\ \A i \in 1..n : fills'[i] = fills[i]
      /\ fills'[m].fees = fill.fees /\ fills'[m].pnl = fill.pnl
      /\ fills'[m].side = orders[Latest].side /\ fills'[m].qty = orders[Latest].qty
  BY InsertFillTyped
<1>2. /\ DOMAIN fills = 1..n /\ DOMAIN fills' = 1..m /\ m \in 1..m
      /\ \A i \in 1..n : /\ fills[i].pnl \in Int /\ fills[i].fees \in Int
                         /\ Signed(fills[i].side, fills[i].qty) \in Int
      /\ \A i \in 1..m : /\ fills'[i].pnl \in Int /\ fills'[i].fees \in Int
                         /\ Signed(fills'[i].side, fills'[i].qty) \in Int
  BY <1>1, FillsTyped DEF Signed
<1>3. \A w, v : /\ DOMAIN w = 1..n /\ DOMAIN v = 1..m /\ v[m] \in Int
                /\ \A i \in 1..n : w[i] \in Int /\ v[i] = w[i]
                => SumFunction(w) \in Int /\ SumFunction(v) = SumFunction(w) + v[m]
  BY <1>1, SumOfOneMore
<1>4. /\ Pnl \in Int /\ Pnl' = Pnl + fill.pnl
  <2> DEFINE w == [i \in DOMAIN fills |-> fills[i].pnl]
             v == [i \in DOMAIN fills' |-> fills'[i].pnl]
  <2>1. /\ DOMAIN w = 1..n /\ DOMAIN v = 1..m /\ v[m] \in Int /\ v[m] = fill.pnl
        /\ \A i \in 1..n : w[i] \in Int /\ v[i] = w[i]
    BY <1>1, <1>2
  <2>2. Pnl = SumFunction(w) /\ Pnl' = SumFunction(v)
    BY DEF Pnl
  <2> HIDE DEF w, v, m, n
  <2> QED
    BY <1>3, <2>1, <2>2
<1>5. /\ Fees \in Int /\ Fees' = Fees + fill.fees
  <2> DEFINE w == [i \in DOMAIN fills |-> fills[i].fees]
             v == [i \in DOMAIN fills' |-> fills'[i].fees]
  <2>1. /\ DOMAIN w = 1..n /\ DOMAIN v = 1..m /\ v[m] \in Int /\ v[m] = fill.fees
        /\ \A i \in 1..n : w[i] \in Int /\ v[i] = w[i]
    BY <1>1, <1>2
  <2>2. Fees = SumFunction(w) /\ Fees' = SumFunction(v)
    BY DEF Fees
  <2> HIDE DEF w, v, m, n
  <2> QED
    BY <1>3, <2>1, <2>2
<1>6. /\ Shares \in Int /\ Shares' = Shares + Signed(orders[Latest].side, orders[Latest].qty)
  <2> DEFINE w == [i \in DOMAIN fills |-> Signed(fills[i].side, fills[i].qty)]
             v == [i \in DOMAIN fills' |-> Signed(fills'[i].side, fills'[i].qty)]
  <2>1. /\ DOMAIN w = 1..n /\ DOMAIN v = 1..m /\ v[m] \in Int
        /\ v[m] = Signed(orders[Latest].side, orders[Latest].qty)
        /\ \A i \in 1..n : w[i] \in Int /\ v[i] = w[i]
    BY <1>1, <1>2
  <2>2. Shares = SumFunction(w) /\ Shares' = SumFunction(v)
    BY DEF Shares, Signed
  <2> HIDE DEF w, v, m, n
  <2> QED
    BY <1>3, <2>1, <2>2
<1>7. fill.pnl \in Int /\ fill.fees \in Int /\ Signed(orders[Latest].side, orders[Latest].qty) \in Int
  BY <1>1, <1>2
<1> QED
  BY <1>4, <1>5, <1>6, <1>7

\* Nothing is booked in the beginning.
LEMMA MoneyInit == WorkflowInit => MoneyInv
<1> SUFFICES ASSUME WorkflowInit PROVE MoneyInv
  OBVIOUS
<1>1. /\ fills = <<>> /\ summary = NoSummary /\ pc = "signal" /\ seen = 0 /\ ledger = EmptyLedger
      /\ verdicts = [yes |-> 0, no |-> 0]
  BY DEF WorkflowInit
<1>2. Len(fills) = 0 /\ DOMAIN fills = {}
  BY <1>1
<1>3. Pnl = 0 /\ Fees = 0 /\ Shares = 0
  <2>1. \A w : DOMAIN w = {} => SumFunction(w) = 0
    BY SumOfNone DEF SumFunction
  <2>2. /\ DOMAIN [i \in DOMAIN fills |-> fills[i].pnl] = {} /\ DOMAIN [i \in DOMAIN fills |-> fills[i].fees] = {}
        /\ DOMAIN [i \in DOMAIN fills |-> Signed(fills[i].side, fills[i].qty)] = {}
    BY <1>2
  <2> QED
    BY <2>1, <2>2, Zenon DEF Pnl, Fees, Shares
<1>4. /\ ledger.qty = 0 /\ ledger.pnl = 0 /\ ledger.fees = 0 /\ ledger.side = "long" /\ Len(ledger.closed) = 0
  BY <1>1 DEF EmptyLedger
<1>5. Position = 0 /\ Open = 0
  BY <1>4 DEF Position, Open, Signed, Opens
<1>6. RoundTrips
  BY <1>2 DEF RoundTrips
<1>7. Judged
  BY <1>1 DEF Judged
<1>8. Booked
  BY <1>1, <1>2, <1>3, <1>4, <1>5 DEF Booked, InFlight
<1>9. RestsOnEntry /\ Granted /\ Untold /\ SummaryExplained
  BY <1>1, <1>4 DEF RestsOnEntry, Granted, Untold, SummaryExplained, InFlight
<1> QED
  BY <1>6, <1>7, <1>8, <1>9 DEF MoneyInv

\* Signed quantities: one side undoes the other.
LEMMA SignedQuantities ==
    \A q \in Nat : \A side \in {"long", "short"} :
        /\ Signed(Opens(side), q) \in Int /\ Signed(Closes(side), q) \in Int
        /\ Signed(Opens(side), q) + Signed(Closes(side), q) = 0
        /\ Signed(Opens(side), q) = 0 <=> q = 0
<1> TAKE q \in Nat
<1> TAKE side \in {"long", "short"}
<1>1. CASE side = "long"
  BY <1>1 DEF Signed, Opens, Closes
<1>2. CASE side = "short"
  BY <1>2 DEF Signed, Opens, Closes
<1> QED
  BY <1>1, <1>2

\* The totals of the fills, while the fills are what they were.
LEMMA FillsStill ==
    ASSUME UNCHANGED fills
    PROVE  Pnl' = Pnl /\ Fees' = Fees /\ Shares' = Shares /\ (RoundTrips => RoundTrips')
BY DEF Pnl, Fees, Shares, RoundTrips

\* The same where no order is at hand before or after.
LEMMA MoneyStill ==
    ASSUME MoneyInv, UNCHANGED <<ledger, fill, fills, summary>>, Judged',
           ~InFlight, ~InFlight', pc # "done", pc' \notin {"done", "order", "created"},
           pc \notin {"done", "stopped"}
    PROVE  MoneyInv'
<1>1. Pnl' = Pnl /\ Fees' = Fees /\ Shares' = Shares /\ RoundTrips'
  BY FillsStill DEF MoneyInv
<1>2. Position' = Position /\ Open' = Open /\ LastFill' = LastFill
  BY DEF Position, Open, LastFill
<1>3. Booked'
  BY <1>1, <1>2 DEF MoneyInv, Booked, Live
<1>4. RestsOnEntry'
  BY <1>2 DEF MoneyInv, RestsOnEntry, Entry, Live
<1>5. Granted' /\ Untold' /\ SummaryExplained'
  BY <1>1 DEF MoneyInv, Granted, Untold, SummaryExplained
<1> QED
  BY <1>1, <1>3, <1>4, <1>5 DEF MoneyInv

\* A signal that waits for its decision.
LEMMA StoreSignalMoney ==
    ASSUME TypedInv, MoneyInv, NEW p \in Prices, NEW type \in {"entry", "exit"}, NEW side \in {"long", "short"},
           NEW fit \in BOOLEAN, StoreSignal(type, side, p, fit)
    PROVE  MoneyInv'
<1>1. pc = "signal" /\ pc' = "risk" /\ seen' = seen + 1 /\ UNCHANGED <<verdicts, ledger, fill, fills, summary>>
  BY DEF StoreSignal
<1>2. verdicts.yes \in Nat /\ verdicts.no \in Nat /\ seen \in Nat
  BY DEF TypedInv, WorkflowTypeOK
<1>3. Judged'
  BY <1>1, <1>2 DEF MoneyInv, Judged, Live
<1> QED
  BY <1>1, <1>3, MoneyStill DEF InFlight

\* A decision is counted; an exit is granted the whole position.
LEMMA EvaluateMoney ==
    ASSUME TypedInv, MoneyInv, Evaluate
    PROVE  MoneyInv'
<1>1. /\ pc = "risk" /\ pc' \in {"signal", "order"} /\ UNCHANGED <<sig, seen, ledger, fill, fills, summary>>
      /\ pc' = "order" /\ sig.type = "exit" => approved' = ledger.qty
  BY DEF Evaluate, GrantedQuantity
<1>2. verdicts \in [yes : Nat, no : Nat] /\ seen \in Nat
  BY DEF TypedInv, WorkflowTypeOK
<1>3. verdicts'.yes + verdicts'.no = verdicts.yes + verdicts.no + 1
  <2>1. CASE Refused
    <3>1. verdicts' = [verdicts EXCEPT !.no = @ + 1]
      BY <2>1 DEF Evaluate
    <3>2. verdicts'.no = verdicts.no + 1 /\ verdicts'.yes = verdicts.yes
      BY <1>2, <3>1
    <3> QED
      BY <1>2, <3>2
  <2>2. CASE ~Refused
    <3>1. verdicts' = [verdicts EXCEPT !.yes = @ + 1]
      BY <2>2 DEF Evaluate
    <3>2. verdicts'.yes = verdicts.yes + 1 /\ verdicts'.no = verdicts.no
      BY <1>2, <3>1
    <3> QED
      BY <1>2, <3>2
  <2> QED
    BY <2>1, <2>2
<1>4. verdicts'.yes + verdicts'.no = seen
  <2>1. verdicts.yes + verdicts.no + 1 = seen
    BY <1>1 DEF MoneyInv, Judged, Live
  <2> QED
    BY <1>3, <2>1
<1>5. Judged'
  BY <1>1, <1>2, <1>4 DEF Judged
<1>6. Pnl' = Pnl /\ Fees' = Fees /\ Shares' = Shares /\ RoundTrips'
  BY <1>1, FillsStill DEF MoneyInv
<1>7. Position' = Position /\ Open' = Open /\ LastFill' = LastFill
  BY <1>1 DEF Position, Open, LastFill
<1>8. Booked'
  BY <1>1, <1>6, <1>7 DEF MoneyInv, Booked, Live, InFlight
<1>9. RestsOnEntry'
  BY <1>1, <1>7 DEF MoneyInv, RestsOnEntry, Entry, Live, InFlight
<1>10. Granted' /\ Untold' /\ SummaryExplained'
  BY <1>1, <1>6 DEF MoneyInv, Granted, Untold, SummaryExplained
<1> QED
  BY <1>5, <1>6, <1>8, <1>9, <1>10 DEF MoneyInv

\* An order on the side the signal asks for.
LEMMA CreateOrderMoney ==
    ASSUME TypedInv, MoneyInv, CreateOrder
    PROVE  MoneyInv'
<1> DEFINE o == [type |-> sig.type, side |-> OrderSide, qty |-> approved, price |-> sig.price,
                 status |-> IF config.mode = "semi_auto" THEN "pending_approval" ELSE "created"]
           n == Len(orders)
<1>1. /\ pc = "order" /\ pc' = "created" /\ orders' = Append(orders, o)
      /\ UNCHANGED <<sig, seen, approved, verdicts, ledger, fill, fills, summary>>
  BY DEF CreateOrder
<1>2. orders \in Seq(OrderRows) /\ n \in Nat
  BY DEF TypedInv, WorkflowTypeOK
<1>3. o.qty = approved /\ o.side = OrderSide
  OBVIOUS
<1> HIDE DEF o
<1>4. orders'[Latest'] = o
  BY <1>1, <1>2 DEF Latest
<1>5. OrderSide = IF sig.type = "entry" THEN Opens(sig.side) ELSE Closes(ledger.side)
  BY DEF OrderSide, Opens, Closes
<1>6. Pnl' = Pnl /\ Fees' = Fees /\ Shares' = Shares /\ RoundTrips'
  BY <1>1, FillsStill DEF MoneyInv
<1>7. Position' = Position /\ Open' = Open /\ LastFill' = LastFill /\ ~InFlight /\ ~InFlight' /\ Live /\ Live'
  BY <1>1 DEF Position, Open, LastFill, InFlight, Live
<1>8. Booked'
  BY <1>1, <1>6, <1>7 DEF MoneyInv, Booked
<1>9. RestsOnEntry'
  BY <1>1, <1>7 DEF MoneyInv, RestsOnEntry, Entry
<1>10. Granted'
  <2>1. sig.type = "exit" => approved = ledger.qty
    BY <1>1 DEF MoneyInv, Granted
  <2> QED
    BY <1>1, <1>3, <1>4, <1>5, <2>1 DEF Granted, Opens, Closes
<1>11. Judged' /\ Untold' /\ SummaryExplained'
  BY <1>1, <1>6 DEF MoneyInv, Judged, Untold, SummaryExplained, Live
<1> QED
  BY <1>6, <1>8, <1>9, <1>10, <1>11 DEF MoneyInv

-----------------------------------------------------------------------------
\* The ledger answers, and its fill is in flight.
LEMMA OpenOrderMoney ==
    ASSUME TypedInv, MoneyInv, OpenOrder
    PROVE  MoneyInv'
<1>1. /\ pc = "created" /\ UNCHANGED <<sig, seen, approved, verdicts, orders, fills, summary>>
      /\ pc' \in {"signal", "submit"}
      /\ pc' = "signal" => UNCHANGED <<ledger, fill>>
      /\ pc' = "submit" => /\ Processable
                           /\ ledger' = Processed(approved).ledger /\ fill' = Processed(approved).fill
  BY DEF OpenOrder
<1>2. Judged' /\ Untold'
  BY <1>1 DEF MoneyInv, Judged, Untold, Live
<1>3. CASE pc' = "signal"
  BY <1>1, <1>2, <1>3, MoneyStill DEF InFlight
<1>4. CASE pc' = "submit"
  <2>1. /\ Pnl' = Pnl /\ Fees' = Fees /\ Shares' = Shares /\ RoundTrips' /\ LastFill' = LastFill /\ Latest' = Latest
        /\ ~InFlight /\ InFlight' /\ Live /\ Live'
    BY <1>1, <1>4, FillsStill DEF MoneyInv, LastFill, Latest, InFlight, Live
  <2>2. /\ ledger.pnl = Pnl /\ ledger.fees = Fees
        /\ 2 * Len(ledger.closed) + Open = Len(fills)
        /\ Position = Shares
    <3>1. ledger.pnl = Pnl + 0 /\ ledger.fees = Fees + 0 /\ Position = Shares + 0
          /\ 2 * Len(ledger.closed) + Open = Len(fills) + 0
      BY <2>1 DEF MoneyInv, Booked
    <3>2. Pnl \in Int /\ Fees \in Int /\ Shares \in Int /\ Len(fills) \in Nat
      BY TotalsAreNumbers
    <3>3. \A x \in Int : x + 0 = x
      OBVIOUS
    <3> QED
      BY <3>1, <3>2, <3>3
  <2>3. /\ sig.type \in {"entry", "exit"} /\ approved \in Nat \ {0} /\ ledger.qty \in Nat
        /\ ledger.side \in {"long", "short"} /\ sig.side \in {"long", "short"}
        /\ Len(ledger.closed) \in Nat
    BY <1>1 DEF TypedInv, WorkflowTypeOK, Placed, AtHand, SignalRows, LedgerRows
  <2>4. /\ ledger'.pnl = ledger.pnl + fill'.pnl /\ ledger'.fees = ledger.fees + fill'.fees
    BY <1>1, <1>4, ProcessedTyped
  <2>5. /\ orders'[Latest'].qty = approved
        /\ orders'[Latest'].side = IF sig.type = "entry" THEN Opens(sig.side) ELSE Closes(ledger.side)
    BY <1>1, <2>1 DEF MoneyInv, Granted
  <2>6. CASE sig.type = "entry"
    <3>1. /\ ledger'.qty = approved /\ ledger'.side = sig.side /\ ledger'.closed = ledger.closed
          /\ ledger.qty = 0
      BY <1>1, <1>4, <2>6, ProcessedTyped DEF Processable
    <3>2. Position' = Signed(Opens(sig.side), approved) /\ Position = 0 /\ Position' \in Int /\ Open = 0 /\ Open' = 1
      <4>1. Position' = Signed(Opens(sig.side), approved)
        BY <3>1 DEF Position
      <4>2. Position = 0 /\ Position' \in Int
        BY <2>3, <3>1, <4>1, SignedQuantities DEF Position
      <4> QED
        BY <2>3, <3>1, <4>1, <4>2 DEF Open
    <3>3. Booked'
      <4>1. Shares' = 0 /\ Signed(orders'[Latest'].side, orders'[Latest'].qty) = Position'
        BY <2>1, <2>2, <2>5, <2>6, <3>2
      <4>2. \A x \in Int : x = 0 + x
        OBVIOUS
      <4>3. Position' = Shares' + Signed(orders'[Latest'].side, orders'[Latest'].qty)
        BY <3>2, <4>1, <4>2
      <4>4. 2 * Len(ledger'.closed) + Open' = Len(fills) + 1
        BY <2>2, <2>3, <3>1, <3>2
      <4> QED
        BY <1>1, <2>1, <2>2, <2>4, <4>3, <4>4 DEF Booked, Signed
    <3>4. RestsOnEntry'
      BY <1>1, <2>1, <2>5, <2>6, <3>1 DEF RestsOnEntry, Opens
    <3> QED
      BY <1>1, <1>2, <1>4, <2>1, <3>3, <3>4 DEF MoneyInv, Granted, SummaryExplained
  <2>7. CASE sig.type = "exit"
    <3>1. /\ ledger'.qty = 0 /\ Len(ledger'.closed) = Len(ledger.closed) + 1
          /\ ledger.qty > 0 /\ approved = ledger.qty
      <4>1. sig.type # "entry" /\ ledger.qty # 0
        BY <1>1, <1>4, <2>7 DEF Processable
      <4> QED
        BY <1>1, <1>4, <2>3, <2>7, <4>1, ProcessedTyped DEF MoneyInv, Granted
    <3>2. /\ orders'[Latest'].qty = ledger.qty /\ orders'[Latest'].side = Closes(ledger.side)
      BY <2>5, <2>7, <3>1
    <3>3. /\ Position' = 0 /\ Position + Signed(Closes(ledger.side), ledger.qty) = 0 /\ Open = 1 /\ Open' = 0
      <4>1. ledger'.side \in {"long", "short"}
        BY <1>1, <1>4, ProcessedTyped DEF LedgerRows
      <4>2. Position' = Signed(Opens(ledger'.side), ledger'.qty) /\ Position = Signed(Opens(ledger.side), ledger.qty)
        BY DEF Position
      <4>3. Signed(Opens(ledger'.side), 0) = 0
        BY <4>1, SignedQuantities
      <4>4. Signed(Opens(ledger.side), ledger.qty) + Signed(Closes(ledger.side), ledger.qty) = 0
        BY <2>3, SignedQuantities
      <4>5. Open = 1 /\ Open' = 0
        BY <2>3, <3>1 DEF Open
      <4> QED
        BY <3>1, <4>2, <4>3, <4>4, <4>5
    <3>4. Booked'
      <4>1. Shares' = Position
        BY <2>1, <2>2
      <4>2. Position' = Shares' + Signed(orders'[Latest'].side, orders'[Latest'].qty)
        BY <3>2, <3>3, <4>1
      <4>4. 2 * Len(ledger'.closed) + Open' = Len(fills) + 1
        BY <2>2, <2>3, <3>1, <3>3
      <4> QED
        BY <1>1, <2>1, <2>2, <2>4, <4>2, <4>4 DEF Booked, Signed
    <3>5. RestsOnEntry'
      <4>1. Entry(ledger.qty, Opens(ledger.side))
        BY <2>1, <3>1 DEF MoneyInv, RestsOnEntry
      <4>2. \E side \in {"long", "short"} :
               /\ Len(fills) > 0 /\ LastFill.type = "entry" /\ LastFill.qty = ledger.qty /\ LastFill.side = Opens(side)
               /\ orders'[Latest'].side = Closes(side)
        BY <2>3, <3>2, <4>1 DEF Entry
      <4>3. PICK side \in {"long", "short"} :
               /\ Len(fills) > 0 /\ LastFill.type = "entry" /\ LastFill.qty = ledger.qty /\ LastFill.side = Opens(side)
               /\ orders'[Latest'].side = Closes(side)
        BY <4>2
      <4>4. /\ Len(fills') > 0 /\ LastFill'.type = "entry" /\ LastFill'.qty = orders'[Latest'].qty /\ LastFill'.side = Opens(side)
        BY <1>1, <2>1, <3>2, <4>3
      <4> QED
        BY <1>1, <2>1, <2>7, <3>1, <4>3, <4>4 DEF RestsOnEntry, Entry, Opens, Closes
    <3> QED
      BY <1>1, <1>2, <1>4, <2>1, <3>4, <3>5 DEF MoneyInv, Granted, SummaryExplained
  <2> QED
    BY <2>3, <2>6, <2>7
<1> QED
  BY <1>1, <1>3, <1>4

\* Steps on the order at hand that leave the ledger and the fills alone.
LEMMA OrderStepsMoney ==
    ASSUME TypedInv, MoneyInv, Submit \/ RecordSubmit \/ FillOrder \/ RecordFill
    PROVE  MoneyInv'
<1>1. /\ UNCHANGED <<sig, seen, verdicts, ledger, fill, fills, summary>>
      /\ \/ pc = "submit" /\ pc' = "submitted" /\ orders' = Move("submitted")
         \/ pc = "submitted" /\ pc' = "fill" /\ UNCHANGED orders
         \/ pc = "filling" /\ pc' = "filled"
         \/ pc = "filled" /\ pc' = "signal"
  BY DEF Submit, RecordSubmit, FillOrder, RecordFill
<1>2. Judged'
  BY <1>1 DEF MoneyInv, Judged, Live
<1>3. CASE pc \in {"filling", "filled"}
  BY <1>1, <1>2, <1>3, MoneyStill DEF InFlight
<1>4. CASE pc \in {"submit", "submitted"}
  <2>1. orders'[Latest'].qty = orders[Latest].qty /\ orders'[Latest'].side = orders[Latest].side
    <3>1. CASE pc = "submit"
      <4>1. "submitted" \in OrderStatuses /\ pc \in AtOrder /\ orders' = Move("submitted")
        BY <1>1, <3>1 DEF OrderStatuses, AtOrder
      <4> QED
        BY <4>1, MoveTyped DEF Latest
    <3>2. CASE pc = "submitted"
      BY <1>1, <3>2 DEF Latest
    <3> QED
      BY <1>4, <3>1, <3>2
  <2>2. /\ Pnl' = Pnl /\ Fees' = Fees /\ Shares' = Shares /\ RoundTrips' /\ LastFill' = LastFill /\ Position' = Position /\ Open' = Open
        /\ InFlight /\ InFlight' /\ Live /\ Live'
    BY <1>1, <1>4, FillsStill DEF MoneyInv, LastFill, Position, Open, InFlight, Live
  <2>3. Booked'
    BY <1>1, <2>1, <2>2 DEF MoneyInv, Booked, Signed
  <2>4. RestsOnEntry'
    BY <1>1, <2>1, <2>2 DEF MoneyInv, RestsOnEntry, Entry, Opens, Closes
  <2>5. Granted' /\ Untold' /\ SummaryExplained'
    BY <1>1, <1>4, <2>2 DEF MoneyInv, Granted, Untold, SummaryExplained
  <2> QED
    BY <1>2, <2>2, <2>3, <2>4, <2>5 DEF MoneyInv
<1> QED
  BY <1>1, <1>3, <1>4

\* The fill arrives: what was in flight is stored.
LEMMA InsertFillMoney ==
    ASSUME TypedInv, MoneyInv, InsertFill
    PROVE  MoneyInv'
<1> DEFINE n == Len(fills)
           o == orders[Latest]
           f == fills'[n + 1]
           c == Len(ledger.closed)
<1>1. /\ pc = "fill" /\ pc' = "filling"
      /\ UNCHANGED <<config, sig, seen, approved, verdicts, orders, trail, ledger, fill, summary>>
  BY DEF InsertFill
<1>2. /\ fills \in Seq(FillRows) /\ fills' \in Seq(FillRows) /\ n \in Nat /\ Len(fills') = n + 1
      /\ o \in OrderRows /\ \A i \in 1..n : fills'[i] = fills[i]
      /\ f.type = sig.type /\ f.side = o.side /\ f.qty = o.qty
  BY InsertFillTyped
<1>3. DOMAIN fills = 1..n /\ DOMAIN fills' = 1..(n + 1) /\ LastFill' = f /\ Latest' = Latest /\ Position' = Position /\ Open' = Open
  BY <1>1, <1>2 DEF LastFill, Latest, Position, Open
<1>4. o.qty \in Nat \ {0} /\ sig.type \in {"entry", "exit"} /\ ledger.qty \in Nat /\ c \in Nat
  <2>1. o.qty \in Nat \ {0}
    BY <1>2 DEF OrderRows
  <2>2. sig.type \in {"entry", "exit"}
    BY <1>1 DEF TypedInv, Placed, AtHand
  <2> QED
    BY <2>1, <2>2 DEF TypedInv, WorkflowTypeOK, LedgerRows
<1>5. InFlight /\ Live /\ ~InFlight' /\ Live'
  BY <1>1 DEF InFlight, Live
<1>6. 2 * c + Open = n + 1
  BY <1>5 DEF MoneyInv, Booked
<1>7. sig.type = "entry" => n + 1 = 2 * c + 1 /\ ledger.qty = o.qty /\ o.side = Opens(ledger.side)
  <2>1. sig.type = "entry" => ledger.qty = o.qty /\ o.side = Opens(ledger.side)
    BY <1>5 DEF MoneyInv, RestsOnEntry
  <2>2. ledger.qty > 0 => 2 * c + 1 = n + 1
    BY <1>6 DEF Open
  <2> HIDE DEF c, n, o
  <2> QED
    BY <1>4, <2>1, <2>2
<1>8. sig.type = "exit" =>
         /\ n + 1 = 2 * c /\ ledger.qty = 0 /\ n > 0 /\ fills[n].qty = o.qty /\ fills[n].side # o.side
  <2>1. sig.type = "exit" => /\ ledger.qty = 0
                             /\ \E side \in {"long", "short"} :
                                   n > 0 /\ LastFill.qty = o.qty /\ LastFill.side = Opens(side) /\ o.side = Closes(side)
    BY <1>5 DEF MoneyInv, RestsOnEntry, Entry
  <2>2. \A side : Opens(side) # Closes(side)
    BY DEF Opens, Closes
  <2>3. ledger.qty = 0 => 2 * c + 0 = n + 1
    BY <1>6 DEF Open
  <2>4. c \in Nat /\ n \in Nat
    BY <1>2, <1>4
  <2>5. LastFill = fills[n]
    BY DEF LastFill
  <2> HIDE DEF c, n, o
  <2> QED
    BY <2>1, <2>2, <2>3, <2>4, <2>5
<1>9. \A m \in Nat : (2 * m) % 2 = 0 /\ (2 * m + 1) % 2 = 1
  OBVIOUS
<1>10. RoundTrips'
  <2>1. ASSUME NEW i \in DOMAIN fills'
        PROVE  IF i % 2 = 1 THEN fills'[i].type = "entry"
               ELSE fills'[i].type = "exit" /\ fills'[i].qty = fills'[i-1].qty /\ fills'[i].side # fills'[i-1].side
    <3>1. CASE i \in 1..n
      <4>1. i % 2 # 1 => i - 1 \in 1..n
        BY <1>2, <3>1
      <4>2. /\ fills'[i] = fills[i] /\ (i % 2 # 1 => fills'[i - 1] = fills[i - 1])
        BY <1>2, <3>1, <4>1
      <4>3. IF i % 2 = 1 THEN fills[i].type = "entry"
            ELSE fills[i].type = "exit" /\ fills[i].qty = fills[i-1].qty /\ fills[i].side # fills[i-1].side
        BY <1>3, <3>1 DEF MoneyInv, RoundTrips
      <4> QED
        BY <4>2, <4>3
    <3>2. CASE i = n + 1
      <4>1. CASE sig.type = "entry"
        <5>1. i % 2 = 1
          BY <1>4, <1>7, <1>9, <3>2, <4>1
        <5> QED
          BY <1>2, <3>2, <4>1, <5>1
      <4>2. CASE sig.type = "exit"
        <5>1. i % 2 = 0 /\ i - 1 = n /\ n \in 1..n
          BY <1>2, <1>4, <1>8, <1>9, <3>2, <4>2
        <5>2. fills'[i - 1] = fills[n] /\ fills'[i] = f
          BY <1>2, <3>2, <5>1
        <5> HIDE DEF f, o
        <5> QED
          BY <1>2, <1>8, <4>2, <5>1, <5>2
      <4> QED
        BY <1>4, <4>1, <4>2
    <3> QED
      BY <1>2, <1>3, <3>1, <3>2
  <2> QED
    BY <2>1 DEF RoundTrips
<1>11. Booked'
  <2>1. Pnl' = Pnl + fill.pnl /\ Fees' = Fees + fill.fees /\ Shares' = Shares + Signed(o.side, o.qty)
    BY TotalsGrow
  <2>2. /\ ledger.pnl = Pnl + fill.pnl /\ ledger.fees = Fees + fill.fees /\ Position = Shares + Signed(o.side, o.qty)
    BY <1>5 DEF MoneyInv, Booked
  <2>3. Pnl' \in Int /\ Fees' \in Int /\ Shares' \in Int
    BY <1>2, TotalsGrow
  <2>4. ledger'.pnl = Pnl' + 0 /\ ledger'.fees = Fees' + 0 /\ Position' = Shares' + 0
    <3>1. \A x \in Int : x + 0 = x
      OBVIOUS
    <3>2. ledger'.pnl = Pnl' /\ ledger'.fees = Fees' /\ Position' = Shares'
      BY <1>1, <1>3, <2>1, <2>2
    <3> QED
      BY <2>3, <3>1, <3>2
  <2>5. 2 * Len(ledger'.closed) + Open' = Len(fills') + 0
    BY <1>1, <1>2, <1>3, <1>6
  <2> QED
    BY <1>5, <2>4, <2>5 DEF Booked
<1>12. RestsOnEntry'
  <2>1. ledger.qty > 0 => sig.type = "entry"
    BY <1>4, <1>8
  <2>2. ledger.qty > 0 => /\ Len(fills') > 0 /\ LastFill'.type = "entry" /\ LastFill'.qty = ledger.qty
                          /\ LastFill'.side = Opens(ledger.side)
    BY <1>2, <1>3, <1>7, <2>1
  <2> QED
    BY <1>1, <1>5, <2>2 DEF RestsOnEntry, Entry, Opens
<1>13. Judged' /\ Granted' /\ Untold' /\ SummaryExplained'
  BY <1>1 DEF MoneyInv, Judged, Granted, Untold, SummaryExplained, Live
<1> QED
  BY <1>10, <1>11, <1>12, <1>13 DEF MoneyInv

\* The summary is what the ledger adds up to, and so what the fills do.
LEMMA StorePerformanceMoney ==
    ASSUME TypedInv, MoneyInv, StorePerformance
    PROVE  MoneyInv'
<1> DEFINE row == [trades |-> Len(ledger.closed), pnl |-> ledger.pnl, fees |-> ledger.fees,
                   signals |-> seen, yes |-> verdicts.yes, no |-> verdicts.no]
<1>1. /\ pc = "signal" /\ pc' = "done" /\ summary' = row
      /\ UNCHANGED <<sig, seen, verdicts, orders, ledger, fill, fills>>
  BY DEF StorePerformance
<1>2. /\ row.trades = Len(ledger.closed) /\ row.pnl = ledger.pnl /\ row.fees = ledger.fees /\ row.signals = seen
      /\ row.yes = verdicts.yes /\ row.no = verdicts.no
  OBVIOUS
<1> HIDE DEF row
<1>3. Pnl' = Pnl /\ Fees' = Fees /\ Shares' = Shares /\ RoundTrips' /\ ~InFlight /\ Live
  BY <1>1, FillsStill DEF MoneyInv, InFlight, Live
<1>4. Pnl \in Int /\ Fees \in Int /\ Shares \in Int /\ Len(fills) \in Nat
  BY TotalsAreNumbers
<1>5. /\ ledger.pnl = Pnl /\ ledger.fees = Fees /\ Position = Shares
      /\ 2 * Len(ledger.closed) + Open = Len(fills)
  <2>1. /\ ledger.pnl = Pnl + 0 /\ ledger.fees = Fees + 0 /\ Position = Shares + 0
        /\ 2 * Len(ledger.closed) + Open = Len(fills) + 0
    BY <1>3 DEF MoneyInv, Booked
  <2>2. \A x \in Int : x + 0 = x
    OBVIOUS
  <2> QED
    BY <1>4, <2>1, <2>2
<1>6. ledger.qty \in Nat /\ Len(ledger.closed) \in Nat /\ verdicts.yes \in Nat /\ verdicts.no \in Nat /\ seen \in Nat
  BY DEF TypedInv, WorkflowTypeOK, LedgerRows
<1>7. (Shares = 0 <=> ledger.qty = 0) /\ Open = IF Shares = 0 THEN 0 ELSE 1
  <2>1. ledger.side \in {"long", "short"}
    BY DEF TypedInv, WorkflowTypeOK, LedgerRows
  <2>2. Shares = 0 <=> ledger.qty = 0
    BY <1>5, <1>6, <2>1, SignedQuantities DEF Position
  <2> QED
    BY <1>6, <2>2 DEF Open
<1>8. 2 * Len(ledger.closed) = Len(fills) - (IF Shares = 0 THEN 0 ELSE 1)
  <2>1. \A c, n \in Nat, h \in {0, 1} : 2 * c + h = n => 2 * c = n - h
    OBVIOUS
  <2>2. Open \in {0, 1}
    BY DEF Open
  <2>3. 2 * Len(ledger.closed) = Len(fills) - Open
    BY <1>4, <1>5, <1>6, <2>1, <2>2
  <2> QED
    BY <1>7, <2>3
<1>9. verdicts.yes + verdicts.no = seen
  <2>1. verdicts.yes + verdicts.no + 0 = seen
    BY <1>1, <1>3 DEF MoneyInv, Judged
  <2> QED
    BY <1>6, <2>1
<1>10. SummaryExplained'
  BY <1>1, <1>2, <1>3, <1>5, <1>8, <1>9 DEF SummaryExplained
<1>11. Judged' /\ Booked' /\ RestsOnEntry' /\ Granted' /\ Untold'
  BY <1>1 DEF Judged, Booked, RestsOnEntry, Granted, Untold, Live, InFlight
<1> QED
  BY <1>3, <1>10, <1>11 DEF MoneyInv

\* The run stops, or nothing happens.
LEMMA EndsMoney ==
    ASSUME TypedInv, MoneyInv, Stop \/ UNCHANGED workflowVars
    PROVE  MoneyInv'
<1>1. CASE Stop
  <2>1. /\ pc # "done" /\ pc' = "stopped" /\ UNCHANGED <<ledger, fill, fills, summary>>
    BY <1>1 DEF Stop
  <2>2. Pnl' = Pnl /\ Fees' = Fees /\ Shares' = Shares /\ RoundTrips'
    BY <2>1, FillsStill DEF MoneyInv
  <2>3. Untold' /\ SummaryExplained'
    BY <2>1, <2>2 DEF MoneyInv, Untold, SummaryExplained
  <2>4. Judged' /\ Booked' /\ RestsOnEntry' /\ Granted'
    BY <2>1 DEF Judged, Booked, RestsOnEntry, Granted, Live, InFlight
  <2> QED
    BY <2>2, <2>3, <2>4 DEF MoneyInv
<1>2. CASE UNCHANGED workflowVars
  <2>1. UNCHANGED <<pc, sig, seen, approved, verdicts, orders, ledger, fill, fills, summary>>
    BY <1>2 DEF workflowVars
  <2>2. /\ Pnl' = Pnl /\ Fees' = Fees /\ Shares' = Shares /\ RoundTrips' /\ LastFill' = LastFill /\ Position' = Position /\ Open' = Open
        /\ Latest' = Latest
    BY <2>1, FillsStill DEF MoneyInv, LastFill, Position, Open, Latest
  <2>3. Judged' /\ Granted' /\ Untold' /\ SummaryExplained'
    BY <2>1, <2>2 DEF MoneyInv, Judged, Granted, Untold, SummaryExplained, Live, Opens, Closes
  <2>4. Booked'
    BY <2>1, <2>2 DEF MoneyInv, Booked, Live, InFlight, Signed
  <2>5. RestsOnEntry'
    BY <2>1, <2>2 DEF MoneyInv, RestsOnEntry, Entry, Live, InFlight, Opens, Closes
  <2> QED
    BY <2>2, <2>3, <2>4, <2>5 DEF MoneyInv
<1> QED
  BY <1>1, <1>2

\* Every step keeps the books.
LEMMA MoneyNext == TypedInv /\ MoneyInv /\ [WorkflowNext]_workflowVars => MoneyInv'
<1> SUFFICES ASSUME TypedInv, MoneyInv, [WorkflowNext]_workflowVars PROVE MoneyInv'
  OBVIOUS
<1>1. ASSUME NEW p \in Prices,
             \/ \E side \in {"long", "short"}, fit \in BOOLEAN : StoreSignal("entry", side, p, fit)
             \/ StoreSignal("exit", "long", p, TRUE)
      PROVE  MoneyInv'
  BY <1>1, StoreSignalMoney
<1> QED
  BY <1>1, EvaluateMoney, CreateOrderMoney, OpenOrderMoney, OrderStepsMoney, InsertFillMoney, StorePerformanceMoney,
     EndsMoney DEF WorkflowNext

\* The fills of a run are round trips, and the summary it leaves is what they add up to, for
\* any number of signals and any policy.
THEOREM ToldByTheFills == WorkflowSpec => []SummaryTellsTheFills
<1> DEFINE Inv == TypedInv /\ MoneyInv
<1>1. WorkflowInit => Inv
  BY TypedInit, MoneyInit
<1>2. Inv /\ [WorkflowNext]_workflowVars => Inv'
  BY TypedNext, MoneyNext
<1>3. Inv => SummaryTellsTheFills
  BY DEF SummaryTellsTheFills, TypedInv, MoneyInv
<1> QED
  BY <1>1, <1>2, <1>3, PTL DEF WorkflowSpec
=============================================================================
