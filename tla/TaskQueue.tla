----------------------------- MODULE TaskQueue -----------------------------
(***************************************************************************)
(* The durable task queue: services/task_service.py and its worker loop in *)
(* cli.py.  Several worker processes share the work_tasks table; each      *)
(* claims a task in one transaction, runs its handler outside the database *)
(* and records the outcome in another connection.  A worker may die at any *)
(* point; a lock older than fifteen minutes is taken for a dead worker's,  *)
(* although the worker may only be slow.  A process of the worker loop     *)
(* draws its own id; a request POST /tasks/run-due works under the name of *)
(* its caller, so two requests of one person share an id.                  *)
(***************************************************************************)
EXTENDS Naturals, FiniteSets

CONSTANTS
    Tasks,      \* task ids
    Workers,    \* worker processes and requests that run due tasks
    Ids,        \* worker ids
    IdOf,       \* the worker_id each of them passes
    NoTask,     \* an idle worker's task
    NoWorker,   \* locked_by IS NULL
    Limits      \* values of max_attempts callers ask for

ASSUME TQAssumption ==
    /\ IsFiniteSet(Tasks)
    /\ NoTask \notin Tasks
    /\ IdOf \in [Workers -> Ids]
    /\ NoWorker \notin Ids
    /\ Limits \subseteq 1..10

\* What holds of the processes of the worker loop, and not of requests.
UniqueIds == \A v, w \in Workers : IdOf[v] = IdOf[w] => v = w

VARIABLES
    task,       \* work_tasks
    worker      \* what each worker process is doing

vars == <<task, worker>>

Status == {"absent", "queued", "running", "retry", "succeeded", "failed"}

\* due: next_attempt_at has come; stale: locked_at is 15 minutes old; owner:
\* locked_by; by: the attempt whose result is stored; born: created_at.
TaskRows == [status : Status, attempt : Nat, max : Nat, due : BOOLEAN,
             owner : Ids \cup {NoWorker}, stale : BOOLEAN,
             by : Nat, born : Nat]
WorkerStates == [pc : {"idle", "claimed", "running"}, t : Tasks \cup {NoTask},
                 attempt : Nat]

NoTaskRow == [status |-> "absent", attempt |-> 0, max |-> 0, due |-> FALSE,
              owner |-> NoWorker, stale |-> FALSE, by |-> 0, born |-> 0]
IdleWorker == [pc |-> "idle", t |-> NoTask, attempt |-> 0]

Settled == {"succeeded", "failed"}
Submitted == {t \in Tasks : task[t].status # "absent"}

Init ==
    /\ task = [t \in Tasks |-> NoTaskRow]
    /\ worker = [w \in Workers |-> IdleWorker]

-----------------------------------------------------------------------------
(* submit.  A repeated idempotency key returns the stored task in the same *)
(* connection, so the insert of a new task is the only effect.             *)
Submit(t, max) ==
    /\ task[t].status = "absent"
    /\ task' = [task EXCEPT ![t] =
          [NoTaskRow EXCEPT !.status = "queued", !.max = max, !.due = TRUE,
                            !.born = Cardinality(Submitted)]]
    /\ UNCHANGED worker

Stale(row) == row.status = "running" /\ row.stale

\* Mutants of Swept: a stale final attempt is retried like any other; a
\* stale task is left alone.
MutSweptRetries(row) ==
    IF Stale(row)
    THEN [row EXCEPT !.status = "retry", !.owner = NoWorker, !.stale = FALSE]
    ELSE row
MutSweptNever(row) == row

\* The two UPDATEs at the head of _claim.
Swept(row) ==
    IF Stale(row)
    THEN [row EXCEPT
            !.status = IF row.attempt >= row.max THEN "failed" ELSE "retry",
            !.owner = NoWorker, !.stale = FALSE]
    ELSE row

Claimable(row) ==
    /\ row.status \in {"queued", "retry"}
    /\ row.due
    /\ row.attempt < row.max
    /\ row.owner = NoWorker

\* Mutant of Taken: attempts are counted down.
MutTakenDown(row, w) ==
    [row EXCEPT !.status = "running", !.owner = IdOf[w], !.stale = FALSE,
                !.attempt = @ - 1]

Taken(row, w) ==
    [row EXCEPT !.status = "running", !.owner = IdOf[w], !.stale = FALSE,
                !.attempt = @ + 1]

\* _claim: one transaction.  The oldest claimable task is taken.
Claim(w) ==
    LET swept == [t \in Tasks |-> Swept(task[t])]
        ready == {t \in Tasks : Claimable(swept[t])}
    IN  /\ worker[w].pc = "idle"
        /\ \/ /\ ready = {}
              /\ task' = swept
              /\ UNCHANGED worker
           \/ \E t \in ready :
                /\ \A u \in ready : swept[t].born <= swept[u].born
                /\ task' = [swept EXCEPT ![t] = Taken(@, w)]
                /\ worker' = [worker EXCEPT ![w] =
                                 [pc |-> "claimed", t |-> t, attempt |-> 0]]

\* get, in a connection of its own, and the start of the handler: the
\* attempt the worker goes by is the one it reads here.
StartHandler(w) ==
    LET t == worker[w].t IN
    /\ worker[w].pc = "claimed"
    /\ worker' = [worker EXCEPT ![w].pc = "running", ![w].attempt = task[t].attempt]
    /\ UNCHANGED task

\* Mutant of Owns: the UPDATE names the task only.
MutOwns(w) == TRUE

\* WHERE task_id = ? AND locked_by = ?
Owns(w) == task[worker[w].t].owner = IdOf[w]

\* The handler returned.
Succeed(w) ==
    LET t == worker[w].t IN
    /\ worker[w].pc = "running"
    /\ task' = IF Owns(w)
               THEN [task EXCEPT ![t].status = "succeeded", ![t].owner = NoWorker,
                                 ![t].stale = FALSE, ![t].by = worker[w].attempt]
               ELSE task
    /\ worker' = [worker EXCEPT ![w] = IdleWorker]

Final(w) == worker[w].attempt >= task[worker[w].t].max

\* The handler raised: retry after min(300, 2^attempt) seconds, or give up.
Fail(w) ==
    LET t == worker[w].t IN
    /\ worker[w].pc = "running"
    /\ task' = IF Owns(w)
               THEN [task EXCEPT ![t].status = IF Final(w) THEN "failed" ELSE "retry",
                                 ![t].owner = NoWorker, ![t].stale = FALSE,
                                 ![t].due = FALSE]
               ELSE task
    /\ worker' = [worker EXCEPT ![w] = IdleWorker]

-----------------------------------------------------------------------------
(* Time and faults *)

BackoffElapses(t) ==
    /\ task[t].status = "retry" /\ ~task[t].due
    /\ task' = [task EXCEPT ![t].due = TRUE]
    /\ UNCHANGED worker

LockExpires(t) ==
    /\ task[t].status = "running" /\ ~task[t].stale
    /\ task' = [task EXCEPT ![t].stale = TRUE]
    /\ UNCHANGED worker

\* The process dies with a task in hand, whose lock stays, and is started
\* again.  The new one draws a fresh id; that it keeps its id here makes no
\* difference, since a worker asks for the lock of the task it claimed last.
Crash(w) ==
    /\ worker[w].pc # "idle"
    /\ worker' = [worker EXCEPT ![w] = IdleWorker]
    /\ UNCHANGED task

-----------------------------------------------------------------------------
WorkerStep(w) == Claim(w) \/ StartHandler(w) \/ Succeed(w) \/ Fail(w)

Next ==
    \/ \E t \in Tasks, max \in Limits : Submit(t, max)
    \/ \E w \in Workers : WorkerStep(w) \/ Crash(w)
    \/ \E t \in Tasks : BackoffElapses(t) \/ LockExpires(t)

Spec == Init /\ [][Next]_vars

(* The worker loop of cli.py polls for ever, its handlers return, and time *)
(* passes; nothing obliges a handler to succeed or a process to survive.   *)
Fairness ==
    /\ \A w \in Workers : WF_vars(WorkerStep(w))
    /\ \A t \in Tasks : WF_vars(BackoffElapses(t)) /\ WF_vars(LockExpires(t))

FairSpec == Spec /\ Fairness

-----------------------------------------------------------------------------
(* Properties *)

\* The type invariant of the table and the workers.
TypeOK ==
    /\ task \in [Tasks -> TaskRows]
    /\ worker \in [Workers -> WorkerStates]

\* A settled task is never reopened or overwritten, however late a worker
\* that lost its lock comes back with an outcome.
SettledIsFinal ==
    [][\A t \in Tasks : task[t].status \in Settled => task'[t] = task[t]]_vars

\* The stored result is that of the last attempt: a worker that was taken
\* for dead and replaced cannot slip its own result in.
ResultOfLastAttempt ==
    \A t \in Tasks : task[t].status = "succeeded" => task[t].by = task[t].attempt

\* A task is given up exactly when its attempts are used up: never earlier,
\* never left waiting in retry with no attempt to come, and never, whatever
\* crashes or is taken for dead, with more attempts than its submitter allowed.
GivenUpAtLimit ==
    \A t \in Tasks :
        /\ task[t].attempt <= task[t].max
        /\ task[t].status = "failed" => task[t].attempt = task[t].max
        /\ task[t].status \in {"queued", "retry"} => task[t].attempt < task[t].max

\* Attempts are accounted for: what is stored, given up or waiting agrees with
\* the attempts the rows count, and the rows have the columns the code writes.
AttemptsAreAccounted == TypeOK /\ ResultOfLastAttempt /\ GivenUpAtLimit

\* Every submitted task is settled in the end, whatever crashes.
EverySubmissionSettles ==
    \A t \in Tasks : task[t].status # "absent" ~> task[t].status \in Settled

-----------------------------------------------------------------------------
(* The inductive invariant behind the proofs of TaskQueueProofs *)

RowOK(t) ==
    /\ task[t].attempt <= task[t].max
    /\ task[t].owner # NoWorker <=> task[t].status = "running"
    /\ task[t].status = "running" => task[t].attempt >= 1
    /\ task[t].status = "failed" => task[t].attempt = task[t].max
    /\ task[t].status \in {"queued", "retry"} => task[t].attempt < task[t].max
    /\ task[t].status = "succeeded" => task[t].by = task[t].attempt

\* The attempt a worker has read is the row's as long as it owns the row.
WorkerOK(w) ==
    /\ worker[w].pc # "idle" => worker[w].t \in Tasks
    /\ worker[w].pc = "running" /\ Owns(w)
          => worker[w].attempt = task[worker[w].t].attempt

QueueInv ==
    /\ TypeOK
    /\ \A t \in Tasks : RowOK(t)
    /\ \A w \in Workers : WorkerOK(w)
=============================================================================
