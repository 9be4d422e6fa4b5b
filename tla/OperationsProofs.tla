-------------------------- MODULE OperationsProofs --------------------------
(***************************************************************************)
(* Proofs about what keeps the platform running, for any number of         *)
(* workers, tasks, tokens, chats and backups: the task queue (TaskQueue),  *)
(* who may do what (OperationAccess), purges (Retention) and backups       *)
(* (BackupArchive). Each has an inductive invariant of its own.            *)
(***************************************************************************)
EXTENDS TaskQueue, Retention, BackupArchive, SumTheorems

-----------------------------------------------------------------------------
(***************************************************************************)
(* The task queue, with worker ids of their own. QueueInv is inductive;    *)
(* what a step may do to a settled task follows from it.                   *)
(***************************************************************************)
(* The sweep at the head of _claim keeps a row in order, touches no settled *)
(* row, and takes locks away without giving any.                           *)
LEMMA SweptFacts ==
    ASSUME NEW t \in Tasks, task[t] \in TaskRows, RowOK(t),
           NEW r, r = Swept(task[t])
    PROVE  /\ r \in TaskRows
           /\ r.attempt = task[t].attempt /\ r.max = task[t].max /\ r.by = task[t].by
           /\ r.attempt <= r.max
           /\ r.owner # NoWorker <=> r.status = "running"
           /\ r.status = "running" => r.attempt >= 1
           /\ r.status = "failed" => r.attempt = r.max
           /\ r.status \in {"queued", "retry"} => r.attempt < r.max
           /\ r.status = "succeeded" => r.by = r.attempt
           /\ task[t].status \in Settled => r = task[t]
           /\ r.owner = task[t].owner \/ r.owner = NoWorker
<1>1. CASE ~Stale(task[t])
  BY <1>1 DEF Swept, RowOK
<1>2. CASE Stale(task[t])
  <2> DEFINE st == IF task[t].attempt >= task[t].max THEN "failed" ELSE "retry"
  <2>1. r = [task[t] EXCEPT !.status = st, !.owner = NoWorker, !.stale = FALSE]
    BY <1>2 DEF Swept
  <2>2. /\ r \in TaskRows /\ r.status = st /\ r.owner = NoWorker
        /\ r.attempt = task[t].attempt /\ r.max = task[t].max /\ r.by = task[t].by
    BY <2>1 DEF TaskRows, Status
  <2>3. task[t].attempt \in Nat /\ task[t].max \in Nat
    BY DEF TaskRows
  <2>4. task[t].status \notin Settled
    BY <1>2 DEF Stale, Settled
  <2>. QED
    BY <2>2, <2>3, <2>4 DEF RowOK
<1>. QED
  BY <1>1, <1>2

(* A step that changes one row to a good one, keeps its owner or frees it, *)
(* and leaves the other workers alone.                                     *)
LEMMA RowFrame ==
    ASSUME QueueInv, NEW t \in Tasks, NEW row \in TaskRows,
           task' = [task EXCEPT ![t] = row],
           row.attempt <= row.max,
           row.owner # NoWorker <=> row.status = "running",
           row.status = "running" => row.attempt >= 1,
           row.status = "failed" => row.attempt = row.max,
           row.status \in {"queued", "retry"} => row.attempt < row.max,
           row.status = "succeeded" => row.by = row.attempt
    PROVE  /\ task' \in [Tasks -> TaskRows]
           /\ \A u \in Tasks : RowOK(u)'
           /\ task'[t] = row
           /\ \A u \in Tasks : u # t => task'[u] = task[u]
<1>1. /\ task' \in [Tasks -> TaskRows]
      /\ task'[t] = row
      /\ \A u \in Tasks : u # t => task'[u] = task[u]
  BY DEF QueueInv, TypeOK
<1>2. ASSUME NEW u \in Tasks PROVE RowOK(u)'
  <2>1. CASE u = t
    BY <1>1, <2>1 DEF RowOK
  <2>2. CASE u # t
    BY <1>1, <2>2 DEF RowOK, QueueInv
  <2>. QED
    BY <2>1, <2>2
<1>. QED
  BY <1>1, <1>2

(* submit adds a fresh row nobody owns. *)
LEMMA SubmitKeeps ==
    ASSUME QueueInv, NEW t \in Tasks, NEW max \in Limits,
           Submit(t, max)
    PROVE  QueueInv'
<1> DEFINE row == [NoTaskRow EXCEPT !.status = "queued", !.max = max, !.due = TRUE,
                                    !.born = Cardinality(Submitted)]
<1>1. Cardinality(Submitted) \in Nat
  BY TQAssumption, FS_Subset, FS_CardinalityType DEF Submitted
<1>2. max \in Nat /\ max >= 1
  BY TQAssumption
<1>3. /\ row \in TaskRows /\ row.status = "queued" /\ row.attempt = 0
      /\ row.max = max /\ row.owner = NoWorker
  BY <1>1, <1>2 DEF NoTaskRow, TaskRows, Status
<1>4. task' = [task EXCEPT ![t] = row] /\ worker' = worker
  BY DEF Submit
<1>. HIDE DEF row
<1>a. /\ row.attempt <= row.max /\ row.attempt < row.max
      /\ row.owner # NoWorker <=> row.status = "running"
  BY <1>2, <1>3
<1>5. /\ task' \in [Tasks -> TaskRows]
      /\ \A u \in Tasks : RowOK(u)'
      /\ task'[t] = row
      /\ \A u \in Tasks : u # t => task'[u] = task[u]
  BY <1>3, <1>4, <1>a, RowFrame
<1>6. ASSUME NEW w \in Workers PROVE WorkerOK(w)'
  BY <1>3, <1>4, <1>5, TQAssumption DEF QueueInv, WorkerOK, Owns
<1>. QED
  BY <1>4, <1>5, <1>6 DEF QueueInv, TypeOK

(* The row a claim writes. *)
LEMMA TakenFacts ==
    ASSUME NEW r \in TaskRows, NEW w \in Workers
    PROVE  /\ Taken(r, w) \in TaskRows
           /\ Taken(r, w).status = "running" /\ Taken(r, w).owner = IdOf[w]
           /\ Taken(r, w).attempt = r.attempt + 1 /\ Taken(r, w).max = r.max
<1> DEFINE n == r.attempt + 1
<1>1. n \in Nat
  BY DEF TaskRows
<1>2. Taken(r, w) = [r EXCEPT !.status = "running", !.owner = IdOf[w], !.stale = FALSE,
                              !.attempt = n]
  BY DEF Taken, TaskRows
<1>0. IdOf[w] \in Ids
  BY TQAssumption
<1>. HIDE DEF n
<1>3. /\ Taken(r, w) \in TaskRows
      /\ Taken(r, w).status = "running" /\ Taken(r, w).owner = IdOf[w]
      /\ Taken(r, w).attempt = n /\ Taken(r, w).max = r.max
  BY <1>0, <1>1, <1>2 DEF TaskRows, Status
<1>. QED
  BY <1>3 DEF n

(* _claim: the table is swept, and one ready row, if any, is taken. *)
LEMMA ClaimKeeps ==
    ASSUME QueueInv, UniqueIds, NEW w \in Workers, Claim(w)
    PROVE  QueueInv'
<1> DEFINE swept == [t \in Tasks |-> Swept(task[t])]
           ready == {t \in Tasks : Claimable(swept[t])}
<1>1. \A t \in Tasks :
         LET r == swept[t] IN
           /\ r \in TaskRows
           /\ r.attempt = task[t].attempt /\ r.max = task[t].max /\ r.by = task[t].by
           /\ r.attempt <= r.max
           /\ r.owner # NoWorker <=> r.status = "running"
           /\ r.status = "running" => r.attempt >= 1
           /\ r.status = "failed" => r.attempt = r.max
           /\ r.status \in {"queued", "retry"} => r.attempt < r.max
           /\ r.status = "succeeded" => r.by = r.attempt
           /\ r.owner = task[t].owner \/ r.owner = NoWorker
  BY SweptFacts DEF QueueInv, TypeOK
<1>2. worker[w].pc = "idle"
  BY DEF Claim
<1>3. swept \in [Tasks -> TaskRows]
  BY <1>1
<1>5. CASE task' = swept /\ worker' = worker
  <2>1. \A t \in Tasks : RowOK(t)'
    BY <1>1, <1>5 DEF RowOK
  <2>2. \A v \in Workers : WorkerOK(v)'
    <3> SUFFICES ASSUME NEW v \in Workers PROVE WorkerOK(v)'
      OBVIOUS
    <3>1. \A t \in Tasks : task'[t].owner = IdOf[v] => task[t].owner = IdOf[v]
      BY <1>1, <1>5, TQAssumption
    <3>2. \A t \in Tasks : task'[t].attempt = task[t].attempt
      BY <1>1, <1>5
    <3>. QED
      BY <1>5, <3>1, <3>2 DEF QueueInv, WorkerOK, Owns
  <2>. QED
    BY <1>2, <1>3, <1>5, <2>1, <2>2 DEF QueueInv, TypeOK
<1>6. ASSUME NEW t \in ready,
             task' = [swept EXCEPT ![t] = Taken(@, w)],
             worker' = [worker EXCEPT ![w] = [pc |-> "claimed", t |-> t, attempt |-> 0]]
      PROVE  QueueInv'
  <2> DEFINE row == Taken(swept[t], w)
  <2>1. /\ t \in Tasks /\ swept[t].attempt < swept[t].max
        /\ swept[t] \in TaskRows
    BY <1>1, <1>6 DEF Claimable
  <2>2. /\ row \in TaskRows /\ row.status = "running" /\ row.owner = IdOf[w]
        /\ row.attempt = swept[t].attempt + 1 /\ row.max = swept[t].max
    <3> HIDE DEF swept
    <3>. QED
      BY <2>1, TakenFacts
  <2>3. /\ task' \in [Tasks -> TaskRows] /\ task'[t] = row
        /\ \A u \in Tasks : u # t => task'[u] = swept[u]
    <3> HIDE DEF swept
    <3>1. task' = [swept EXCEPT ![t] = row]
      BY <1>6
    <3> HIDE DEF row
    <3>. QED
      BY <1>3, <2>1, <2>2, <3>1
  <2>4. ASSUME NEW u \in Tasks PROVE RowOK(u)'
    <3> HIDE DEF swept, row
    <3>1. CASE u = t
      <4>1. /\ swept[t].attempt \in Nat /\ swept[t].max \in Nat
            /\ row.attempt <= row.max /\ row.attempt >= 1
        BY <2>1, <2>2 DEF TaskRows
      <4>. QED
        BY <2>2, <2>3, <3>1, <4>1, TQAssumption DEF RowOK
    <3>2. CASE u # t
      BY <1>1, <2>3, <3>2 DEF RowOK
    <3>. QED
      BY <3>1, <3>2
  <2>5. /\ worker' \in [Workers -> WorkerStates]
        /\ worker'[w] = [pc |-> "claimed", t |-> t, attempt |-> 0]
        /\ \A v \in Workers : v # w => worker'[v] = worker[v]
    BY <1>6, <2>1 DEF QueueInv, TypeOK, WorkerStates
  <2>6. ASSUME NEW v \in Workers PROVE WorkerOK(v)'
    <3> HIDE DEF swept, row
    <3>1. \A u \in Tasks : u # t /\ task'[u].owner = IdOf[v]
                => task[u].owner = IdOf[v] /\ task'[u].attempt = task[u].attempt
      BY <1>1, <2>3, TQAssumption
    <3>2. CASE v = w
      BY <2>1, <2>5, <3>2 DEF WorkerOK
    <3>3. CASE v # w
      <4>1. \A u \in Tasks : task'[u].owner = IdOf[v] => u # t
        BY <2>2, <2>3, <3>3 DEF UniqueIds
      <4>. QED
        BY <2>5, <3>1, <3>3, <4>1 DEF QueueInv, WorkerOK, Owns
    <3>. QED
      BY <3>2, <3>3
  <2>. QED
    BY <1>2, <2>3, <2>4, <2>5, <2>6 DEF QueueInv, TypeOK
<1>. QED
  BY <1>5, <1>6 DEF Claim

(* The worker reads the row it claimed. *)
LEMMA StartHandlerKeeps ==
    ASSUME QueueInv, NEW w \in Workers, StartHandler(w)
    PROVE  QueueInv'
<1> DEFINE t == worker[w].t
<1>1. /\ t \in Tasks /\ task' = task
      /\ task[t].attempt \in Nat
  BY DEF StartHandler, QueueInv, WorkerOK, TypeOK, TaskRows
<1>2. /\ worker' \in [Workers -> WorkerStates]
      /\ worker'[w].pc = "running" /\ worker'[w].t = t
      /\ worker'[w].attempt = task[t].attempt
      /\ \A v \in Workers : v # w => worker'[v] = worker[v]
  BY <1>1 DEF StartHandler, QueueInv, TypeOK, WorkerStates
<1>4. \A u \in Tasks : RowOK(u)'
  BY <1>1 DEF QueueInv, RowOK
<1>5. ASSUME NEW v \in Workers PROVE WorkerOK(v)'
  <2>1. CASE v = w
    BY <1>1, <1>2, <2>1 DEF QueueInv, WorkerOK
  <2>2. CASE v # w
    BY <1>1, <1>2, <2>2 DEF QueueInv, WorkerOK, Owns
  <2>. QED
    BY <2>1, <2>2
<1>. QED
  BY <1>1, <1>2, <1>4, <1>5 DEF QueueInv, TypeOK

(* A worker records an outcome: on the row it owns, or on none. *)
LEMMA OutcomeKeeps ==
    ASSUME QueueInv, NEW w \in Workers, worker[w].pc = "running",
           NEW t \in Tasks, t = worker[w].t,
           worker' = [worker EXCEPT ![w] = IdleWorker],
           NEW row \in TaskRows,
           task' = IF Owns(w) THEN [task EXCEPT ![t] = row] ELSE task,
           row.owner = NoWorker, row.status # "running",
           row.attempt = task[t].attempt, row.max = task[t].max,
           Owns(w) => /\ row.status = "failed" => row.attempt = row.max
                      /\ row.status \in {"queued", "retry"} => row.attempt < row.max
                      /\ row.status = "succeeded" => row.by = row.attempt
    PROVE  QueueInv'
<1>1. /\ worker' \in [Workers -> WorkerStates] /\ worker'[w] = IdleWorker
      /\ \A v \in Workers : v # w => worker'[v] = worker[v]
  BY DEF QueueInv, TypeOK, WorkerStates, IdleWorker
<1>2. CASE ~Owns(w)
  <2>1. ASSUME NEW v \in Workers PROVE WorkerOK(v)'
    BY <1>1, <1>2, <2>1 DEF WorkerOK, Owns, IdleWorker, QueueInv
  <2>. QED
    BY <1>1, <1>2, <2>1 DEF QueueInv, TypeOK, RowOK
<1>3. CASE Owns(w)
  <2>1. row.attempt <= row.max
    BY DEF QueueInv, RowOK
  <2>2. /\ task' \in [Tasks -> TaskRows]
        /\ \A u \in Tasks : RowOK(u)'
        /\ task'[t] = row
        /\ \A u \in Tasks : u # t => task'[u] = task[u]
    BY <1>3, <2>1, RowFrame
  <2>3. ASSUME NEW v \in Workers PROVE WorkerOK(v)'
    <3>1. \A u \in Tasks : task'[u].owner = IdOf[v] => u # t
      BY <2>2, TQAssumption
    <3>2. CASE v = w
      BY <1>1, <3>2 DEF WorkerOK, IdleWorker
    <3>3. CASE v # w
      BY <1>1, <2>2, <3>1, <3>3 DEF WorkerOK, Owns, QueueInv
    <3>. QED
      BY <3>2, <3>3
  <2>. QED
    BY <1>1, <2>2, <2>3 DEF QueueInv, TypeOK
<1>. QED
  BY <1>2, <1>3

(* The handler returned. *)
LEMMA SucceedKeeps ==
    ASSUME QueueInv, NEW w \in Workers, Succeed(w)
    PROVE  QueueInv'
<1> DEFINE t == worker[w].t
           row == [task[t] EXCEPT !.status = "succeeded", !.owner = NoWorker,
                                  !.stale = FALSE, !.by = worker[w].attempt]
<1>1. t \in Tasks /\ worker[w].attempt \in Nat /\ task[t] \in TaskRows
  BY DEF Succeed, QueueInv, WorkerOK, TypeOK, WorkerStates
<1>2. /\ row \in TaskRows /\ row.status = "succeeded" /\ row.owner = NoWorker
      /\ row.attempt = task[t].attempt /\ row.max = task[t].max
      /\ row.by = worker[w].attempt
  BY <1>1 DEF TaskRows, Status
<1>3. task' = IF Owns(w) THEN [task EXCEPT ![t] = row] ELSE task
  BY <1>1 DEF Succeed, QueueInv, TypeOK
<1>4. Owns(w) => worker[w].attempt = task[t].attempt
  BY <1>1 DEF Succeed, QueueInv, WorkerOK, Owns
<1>. HIDE DEF row
<1>. QED
  BY <1>1, <1>2, <1>3, <1>4, OutcomeKeeps DEF Succeed

(* The handler raised. *)
LEMMA FailKeeps ==
    ASSUME QueueInv, NEW w \in Workers, Fail(w)
    PROVE  QueueInv'
<1> DEFINE t == worker[w].t
           st == IF Final(w) THEN "failed" ELSE "retry"
           row == [task[t] EXCEPT !.status = st, !.owner = NoWorker,
                                  !.stale = FALSE, !.due = FALSE]
<1>1. /\ t \in Tasks /\ worker[w].attempt \in Nat /\ task[t] \in TaskRows
      /\ task[t].attempt \in Nat /\ task[t].max \in Nat
  BY DEF Fail, QueueInv, WorkerOK, TypeOK, WorkerStates, TaskRows
<1>2. /\ row \in TaskRows /\ row.status = st /\ row.owner = NoWorker
      /\ row.attempt = task[t].attempt /\ row.max = task[t].max
  BY <1>1 DEF TaskRows, Status
<1>3. task' = IF Owns(w) THEN [task EXCEPT ![t] = row] ELSE task
  BY <1>1 DEF Fail, QueueInv, TypeOK
<1>4. Owns(w) => /\ worker[w].attempt = task[t].attempt
                 /\ task[t].attempt <= task[t].max
  BY <1>1 DEF Fail, QueueInv, WorkerOK, RowOK, Owns
<1>5. Owns(w) => /\ st = "failed" => task[t].attempt = task[t].max
                 /\ st = "retry" => task[t].attempt < task[t].max
  BY <1>1, <1>4 DEF Final
<1>6. st \in {"failed", "retry"}
  OBVIOUS
<1>. HIDE DEF row, st
<1>. QED
  BY <1>1, <1>2, <1>3, <1>5, <1>6, OutcomeKeeps DEF Fail

(* Time passes for a row: nothing the invariant looks at. *)
LEMMA TimeKeeps ==
    ASSUME QueueInv, NEW t \in Tasks, BackoffElapses(t) \/ LockExpires(t)
    PROVE  QueueInv'
<1>1. PICK row : /\ row = [task[t] EXCEPT !.due = TRUE] \/ row = [task[t] EXCEPT !.stale = TRUE]
                 /\ task' = [task EXCEPT ![t] = row]
  BY DEF BackoffElapses, LockExpires
<1>2. /\ row \in TaskRows /\ row.status = task[t].status
      /\ row.owner = task[t].owner /\ row.attempt = task[t].attempt
      /\ row.max = task[t].max /\ row.by = task[t].by
  BY <1>1 DEF QueueInv, TypeOK, TaskRows
<1>3. worker' = worker
  BY DEF BackoffElapses, LockExpires
<1>4. /\ task' \in [Tasks -> TaskRows]
      /\ \A u \in Tasks : RowOK(u)'
      /\ task'[t] = row
      /\ \A u \in Tasks : u # t => task'[u] = task[u]
  <2>1. RowOK(t)
    BY DEF QueueInv
  <2>. QED
    BY <1>1, <1>2, <2>1, RowFrame DEF RowOK
<1>5. \A w \in Workers : WorkerOK(w)'
  BY <1>2, <1>3, <1>4 DEF QueueInv, WorkerOK, Owns
<1>. QED
  BY <1>3, <1>4, <1>5 DEF QueueInv, TypeOK

(* A worker dies with a task in hand; the table stays as it is. *)
LEMMA CrashKeeps ==
    ASSUME QueueInv, NEW w \in Workers, Crash(w)
    PROVE  QueueInv'
<1>1. /\ worker' \in [Workers -> WorkerStates] /\ worker'[w] = IdleWorker
      /\ \A v \in Workers : v # w => worker'[v] = worker[v]
  BY DEF Crash, QueueInv, TypeOK, WorkerStates, IdleWorker
<1>2. task' = task
  BY DEF Crash
<1>3. ASSUME NEW v \in Workers PROVE WorkerOK(v)'
  BY <1>1, <1>2, <1>3 DEF QueueInv, WorkerOK, Owns, IdleWorker
<1>. QED
  BY <1>1, <1>2, <1>3 DEF QueueInv, TypeOK, RowOK

(* The initial states satisfy the invariant. *)
LEMMA InitInv == Init => QueueInv
  BY TQAssumption DEF Init, QueueInv, TypeOK, TaskRows, WorkerStates, NoTaskRow,
     IdleWorker, Status, RowOK, WorkerOK

(* The induction step, action by action. *)
LEMMA NextKeeps == UniqueIds /\ QueueInv /\ [Next]_vars => QueueInv'
<1> SUFFICES ASSUME UniqueIds, QueueInv, [Next]_vars PROVE QueueInv'
  OBVIOUS
<1>1. CASE UNCHANGED vars
  BY <1>1 DEF vars, QueueInv, TypeOK, RowOK, WorkerOK, Owns
<1>2. CASE \E t \in Tasks, max \in Limits : Submit(t, max)
  BY <1>2, SubmitKeeps
<1>3. ASSUME NEW w \in Workers, WorkerStep(w) \/ Crash(w)
      PROVE  QueueInv'
  BY <1>3, ClaimKeeps, StartHandlerKeeps, SucceedKeeps, FailKeeps, CrashKeeps DEF WorkerStep
<1>4. ASSUME NEW t \in Tasks, BackoffElapses(t) \/ LockExpires(t)
      PROVE  QueueInv'
  BY <1>4, TimeKeeps
<1>. QED
  BY <1>1, <1>2, <1>3, <1>4 DEF Next

(* The table and the workers always agree as QueueInv says. *)
THEOREM QueueInvariance == ASSUME UniqueIds PROVE Spec => []QueueInv
<1>1. QueueInv /\ [Next]_vars => QueueInv'
  BY NextKeeps
<1>. QED
  BY <1>1, InitInv, PTL DEF Spec

(* A worker taken for dead and replaced cannot slip its result in: the     *)
(* stored result is the last attempt's.                                    *)
THEOREM LastAttemptWins == ASSUME UniqueIds PROVE Spec => []ResultOfLastAttempt
<1>1. QueueInv => ResultOfLastAttempt
  BY DEF QueueInv, RowOK, ResultOfLastAttempt
<1>. QED
  BY <1>1, QueueInvariance, PTL

(* A task is given up when its attempts are used up and not before, and no *)
(* task waits for an attempt it does not have.                             *)
THEOREM GiveUp == ASSUME UniqueIds PROVE Spec => []GivenUpAtLimit
<1>1. QueueInv => GivenUpAtLimit
  BY DEF QueueInv, RowOK, GivenUpAtLimit
<1>. QED
  BY <1>1, QueueInvariance, PTL

(* What the rows say of the attempts is so, for any number of tasks and    *)
(* workers of which any may die at any point.                              *)
THEOREM AttemptsAccounted == ASSUME UniqueIds PROVE Spec => []AttemptsAreAccounted
<1>1. QueueInv => TypeOK
  BY DEF QueueInv
<1>. QED
  BY <1>1, QueueInvariance, LastAttemptWins, GiveUp, PTL DEF AttemptsAreAccounted

(* A settled task is never reopened nor overwritten.  Every action but the *)
(* owner's outcome leaves it alone, and it has no owner.                   *)
THEOREM SettledForEver == ASSUME UniqueIds PROVE Spec => SettledIsFinal
<1>1. QueueInv /\ [Next]_vars =>
        [\A t \in Tasks : task[t].status \in Settled => task'[t] = task[t]]_vars
  <2> SUFFICES ASSUME QueueInv, [Next]_vars, NEW t \in Tasks,
                      task[t].status \in Settled
               PROVE  task'[t] = task[t]
    OBVIOUS
  <2>1. task[t].owner = NoWorker
    BY DEF QueueInv, RowOK, Settled
  <2>2. task \in [Tasks -> TaskRows]
    BY DEF QueueInv, TypeOK
  <2>3. CASE UNCHANGED vars
    BY <2>3 DEF vars
  <2>4. CASE \E u \in Tasks, max \in Limits : Submit(u, max)
    BY <2>2, <2>4 DEF Submit, Settled
  <2>5. ASSUME NEW w \in Workers, Claim(w)
        PROVE  task'[t] = task[t]
    <3> DEFINE swept == [u \in Tasks |-> Swept(task[u])]
    <3>1. swept[t] = task[t]
      BY DEF Swept, Stale, Settled
    <3>2. ~Claimable(swept[t])
      BY <3>1 DEF Claimable, Settled
    <3>3. task' = swept \/ \E u \in Tasks :
             Claimable(swept[u]) /\ task' = [swept EXCEPT ![u] = Taken(@, w)]
      BY <2>5 DEF Claim
    <3>. HIDE DEF swept
    <3>4. \A u \in Tasks : u # t => [swept EXCEPT ![u] = Taken(@, w)][t] = swept[t]
      BY DEF swept
    <3>. QED
      BY <3>1, <3>2, <3>3, <3>4
  <2>6. ASSUME NEW w \in Workers, Succeed(w) \/ Fail(w)
        PROVE  task'[t] = task[t]
    <3>1. Owns(w) => worker[w].t # t
      BY <2>1, TQAssumption DEF Owns
    <3>2. worker[w].t \in Tasks
      BY <2>6 DEF Succeed, Fail, QueueInv, WorkerOK
    <3>. QED
      BY <2>2, <2>6, <3>1, <3>2 DEF Succeed, Fail
  <2>7. ASSUME NEW w \in Workers, StartHandler(w) \/ Crash(w)
        PROVE  task'[t] = task[t]
    BY <2>1, <2>7, TQAssumption DEF StartHandler, Crash
  <2>8. ASSUME NEW u \in Tasks, BackoffElapses(u) \/ LockExpires(u)
        PROVE  task'[t] = task[t]
    BY <2>2, <2>8 DEF BackoffElapses, LockExpires, Settled
  <2>. QED
    BY <2>3, <2>4, <2>5, <2>6, <2>7, <2>8 DEF Next, WorkerStep
<1>. QED
  BY <1>1, QueueInvariance, PTL DEF Spec, SettledIsFinal

-----------------------------------------------------------------------------
(***************************************************************************)
(* The tables of endpoints and tools, read once: what takes a researcher,  *)
(* an approver or an admin is offered to nobody below.                     *)
(***************************************************************************)
ViewerEffects == {"knowledge", "watches", "notes"}
ResearcherEffects == {"intents", "portfolios", "datasets", "specs", "runs", "reports", "contests", "lists", "news"}
ApproverEffects == {"approval", "risk", "allOrders", "operations"}

ResearcherNames == {
    "prepare_direct_order", "prepare_sandbox_order_intent", "prepare_live_order_intent",
    "reconcile_sandbox_intent", "POST intents", "POST direct-order", "POST submit", "POST reconcile",
    "POST cancel", "POST portfolios", "POST risk-check", "POST release", "import_openalgo_history",
    "POST backfill/run", "POST ohlcv", "POST openalgo-history", "POST features", "POST derive-features",
    "POST statements", "create_custom_strategy_spec", "update_custom_strategy_spec", "POST specs",
    "POST specs/compile", "PUT specs", "DELETE specs", "run_backtest", "run_custom_strategy_spec",
    "run_robustness_experiment", "POST backtests", "POST backtest/run", "POST specs/backtest",
    "POST robustness", "POST robustness/submit", "create_run_report", "create_research_brief",
    "POST reports", "POST robustness/reports", "POST briefs", "POST contests", "POST close",
    "POST seasons", "POST enroll", "POST tick", "POST rescore", "POST sweep", "POST acknowledge",
    "POST digest", "POST authored", "add_watchlist_symbol", "remove_watchlist_symbol",
    "create_price_alert", "POST screens", "get_market_news", "POST market-news/fetch"}
ApproverNames == {
    "approve_pending_order", "POST decision", "POST trading-control", "POST fills", "square_off_all",
    "cancel_all_orders", "POST emergency", "POST backups", "GET verify", "POST preview", "POST evaluate",
    "POST acknowledge-alert", "POST jobs/run", "POST tasks/run-due", "POST evaluations/run", "POST retrieval/run"}
AdminNames == {"POST execute", "POST storage-plan", "POST storage-export"}

\* A group that offers no role what takes a higher one.
Proper(group) ==
    /\ \A x \in group["viewer"] : x \notin ResearcherNames /\ x \notin ApproverNames /\ x \notin AdminNames
    /\ \A x \in group["researcher"] : x \notin ApproverNames /\ x \notin AdminNames
    /\ \A x \in group["approver"] : x \notin AdminNames

\* An operation with an effect is among the names of the role that the effect takes.
LEMMA WhoAsks ==
    /\ \A e \in ResearcherEffects : \A x \in Changes[e] : x \in ResearcherNames
    /\ \A e \in ApproverEffects : \A x \in Changes[e] : x \in ApproverNames
    /\ \A x \in Changes["purge"] : x \in AdminNames
<1>1. \A x \in Changes["intents"] : x \in ResearcherNames
  BY DEF Changes, ResearcherNames
<1>2. \A x \in Changes["portfolios"] : x \in ResearcherNames
  BY DEF Changes, ResearcherNames
<1>3. \A x \in Changes["datasets"] : x \in ResearcherNames
  BY DEF Changes, ResearcherNames
<1>4. \A x \in Changes["specs"] : x \in ResearcherNames
  BY DEF Changes, ResearcherNames
<1>5. \A x \in Changes["runs"] : x \in ResearcherNames
  BY DEF Changes, ResearcherNames
<1>6. \A x \in Changes["reports"] : x \in ResearcherNames
  BY DEF Changes, ResearcherNames
<1>7. \A x \in Changes["contests"] : x \in ResearcherNames
  BY DEF Changes, ResearcherNames
<1>8. \A x \in Changes["lists"] : x \in ResearcherNames
  BY DEF Changes, ResearcherNames
<1>9. \A x \in Changes["news"] : x \in ResearcherNames
  BY DEF Changes, ResearcherNames
<1>10. \A x \in Changes["approval"] : x \in ApproverNames
  BY DEF Changes, ApproverNames
<1>11. \A x \in Changes["risk"] : x \in ApproverNames
  BY DEF Changes, ApproverNames
<1>12. \A x \in Changes["allOrders"] : x \in ApproverNames
  BY DEF Changes, ApproverNames
<1>13. \A x \in Changes["operations"] : x \in ApproverNames
  BY DEF Changes, ApproverNames
<1>14. \A x \in Changes["purge"] : x \in AdminNames
  BY DEF Changes, AdminNames
<1> QED
  BY <1>1, <1>2, <1>3, <1>4, <1>5, <1>6, <1>7, <1>8, <1>9, <1>10, <1>11, <1>12, <1>13, <1>14 DEF ResearcherEffects, ApproverEffects

\* The table that every group fills in is empty.
LEMMA NobodyYet == \A r \in Roles : NobodyElse[r] = {} /\ DOMAIN NobodyElse = Roles
BY DEF NobodyElse

\* The order of the roles.
LEMMA RanksInOrder ==
    /\ Roles = {"viewer", "researcher", "approver", "admin"}
    /\ \A r \in Roles : Ranks[r] \in 0..3
    /\ Ranks["viewer"] = 0 /\ Ranks["researcher"] = 1 /\ Ranks["approver"] = 2 /\ Ranks["admin"] = 3
BY DEF Roles, Ranks

\* The endpoints, a router at a time.
LEMMA ProperRoutes == \A group \in Endpoints : Proper(group)
<1>1. Proper(AgentRoutes)
  <2>1. \A x \in AgentRoutes["viewer"] : x \notin ResearcherNames /\ x \notin ApproverNames /\ x \notin AdminNames
    BY NobodyYet, RanksInOrder, ZenonT(120) DEF AgentRoutes, ResearcherNames, ApproverNames, AdminNames
  <2>2. \A x \in AgentRoutes["researcher"] : x \notin ApproverNames /\ x \notin AdminNames
    BY NobodyYet, RanksInOrder, ZenonT(120) DEF AgentRoutes, ApproverNames, AdminNames
  <2>3. \A x \in AgentRoutes["approver"] : x \notin AdminNames
    BY NobodyYet, RanksInOrder, ZenonT(120) DEF AgentRoutes, AdminNames
  <2> QED
    BY <2>1, <2>2, <2>3 DEF Proper
<1>2. Proper(ContestRoutes)
  <2>1. \A x \in ContestRoutes["viewer"] : x \notin ResearcherNames /\ x \notin ApproverNames /\ x \notin AdminNames
    BY NobodyYet, RanksInOrder, ZenonT(120) DEF ContestRoutes, ResearcherNames, ApproverNames, AdminNames
  <2>2. \A x \in ContestRoutes["researcher"] : x \notin ApproverNames /\ x \notin AdminNames
    BY NobodyYet, RanksInOrder, ZenonT(120) DEF ContestRoutes, ApproverNames, AdminNames
  <2>3. \A x \in ContestRoutes["approver"] : x \notin AdminNames
    BY NobodyYet, RanksInOrder, ZenonT(120) DEF ContestRoutes, AdminNames
  <2> QED
    BY <2>1, <2>2, <2>3 DEF Proper
<1>3. Proper(WatchRoutes)
  <2>1. \A x \in WatchRoutes["viewer"] : x \notin ResearcherNames /\ x \notin ApproverNames /\ x \notin AdminNames
    BY NobodyYet, RanksInOrder, ZenonT(120) DEF WatchRoutes, ResearcherNames, ApproverNames, AdminNames
  <2>2. \A x \in WatchRoutes["researcher"] : x \notin ApproverNames /\ x \notin AdminNames
    BY NobodyYet, RanksInOrder, ZenonT(120) DEF WatchRoutes, ApproverNames, AdminNames
  <2>3. \A x \in WatchRoutes["approver"] : x \notin AdminNames
    BY NobodyYet, RanksInOrder, ZenonT(120) DEF WatchRoutes, AdminNames
  <2> QED
    BY <2>1, <2>2, <2>3 DEF Proper
<1>4. Proper(IntentRoutes)
  <2>1. \A x \in IntentRoutes["viewer"] : x \notin ResearcherNames /\ x \notin ApproverNames /\ x \notin AdminNames
    BY NobodyYet, RanksInOrder, ZenonT(120) DEF IntentRoutes, ResearcherNames, ApproverNames, AdminNames
  <2>2. \A x \in IntentRoutes["researcher"] : x \notin ApproverNames /\ x \notin AdminNames
    BY NobodyYet, RanksInOrder, ZenonT(120) DEF IntentRoutes, ApproverNames, AdminNames
  <2>3. \A x \in IntentRoutes["approver"] : x \notin AdminNames
    BY NobodyYet, RanksInOrder, ZenonT(120) DEF IntentRoutes, AdminNames
  <2> QED
    BY <2>1, <2>2, <2>3 DEF Proper
<1>5. Proper(PortfolioRoutes)
  <2>1. \A x \in PortfolioRoutes["viewer"] : x \notin ResearcherNames /\ x \notin ApproverNames /\ x \notin AdminNames
    BY NobodyYet, RanksInOrder, ZenonT(120) DEF PortfolioRoutes, ResearcherNames, ApproverNames, AdminNames
  <2>2. \A x \in PortfolioRoutes["researcher"] : x \notin ApproverNames /\ x \notin AdminNames
    BY NobodyYet, RanksInOrder, ZenonT(120) DEF PortfolioRoutes, ApproverNames, AdminNames
  <2>3. \A x \in PortfolioRoutes["approver"] : x \notin AdminNames
    BY NobodyYet, RanksInOrder, ZenonT(120) DEF PortfolioRoutes, AdminNames
  <2> QED
    BY <2>1, <2>2, <2>3 DEF Proper
<1>6. Proper(KnowledgeRoutes)
  <2>1. \A x \in KnowledgeRoutes["viewer"] : x \notin ResearcherNames /\ x \notin ApproverNames /\ x \notin AdminNames
    BY NobodyYet, RanksInOrder, ZenonT(120) DEF KnowledgeRoutes, ResearcherNames, ApproverNames, AdminNames
  <2>2. \A x \in KnowledgeRoutes["researcher"] : x \notin ApproverNames /\ x \notin AdminNames
    BY NobodyYet, RanksInOrder, ZenonT(120) DEF KnowledgeRoutes, ApproverNames, AdminNames
  <2>3. \A x \in KnowledgeRoutes["approver"] : x \notin AdminNames
    BY NobodyYet, RanksInOrder, ZenonT(120) DEF KnowledgeRoutes, AdminNames
  <2> QED
    BY <2>1, <2>2, <2>3 DEF Proper
<1>7. Proper(DatasetRoutes)
  <2>1. \A x \in DatasetRoutes["viewer"] : x \notin ResearcherNames /\ x \notin ApproverNames /\ x \notin AdminNames
    BY NobodyYet, RanksInOrder, ZenonT(120) DEF DatasetRoutes, ResearcherNames, ApproverNames, AdminNames
  <2>2. \A x \in DatasetRoutes["researcher"] : x \notin ApproverNames /\ x \notin AdminNames
    BY NobodyYet, RanksInOrder, ZenonT(120) DEF DatasetRoutes, ApproverNames, AdminNames
  <2>3. \A x \in DatasetRoutes["approver"] : x \notin AdminNames
    BY NobodyYet, RanksInOrder, ZenonT(120) DEF DatasetRoutes, AdminNames
  <2> QED
    BY <2>1, <2>2, <2>3 DEF Proper
<1>8. Proper(ImportRoutes)
  <2>1. \A x \in ImportRoutes["viewer"] : x \notin ResearcherNames /\ x \notin ApproverNames /\ x \notin AdminNames
    BY NobodyYet, RanksInOrder, ZenonT(120) DEF ImportRoutes, ResearcherNames, ApproverNames, AdminNames
  <2>2. \A x \in ImportRoutes["researcher"] : x \notin ApproverNames /\ x \notin AdminNames
    BY NobodyYet, RanksInOrder, ZenonT(120) DEF ImportRoutes, ApproverNames, AdminNames
  <2>3. \A x \in ImportRoutes["approver"] : x \notin AdminNames
    BY NobodyYet, RanksInOrder, ZenonT(120) DEF ImportRoutes, AdminNames
  <2> QED
    BY <2>1, <2>2, <2>3 DEF Proper
<1>9. Proper(NewsRoutes)
  <2>1. \A x \in NewsRoutes["viewer"] : x \notin ResearcherNames /\ x \notin ApproverNames /\ x \notin AdminNames
    BY NobodyYet, RanksInOrder, ZenonT(120) DEF NewsRoutes, ResearcherNames, ApproverNames, AdminNames
  <2>2. \A x \in NewsRoutes["researcher"] : x \notin ApproverNames /\ x \notin AdminNames
    BY NobodyYet, RanksInOrder, ZenonT(120) DEF NewsRoutes, ApproverNames, AdminNames
  <2>3. \A x \in NewsRoutes["approver"] : x \notin AdminNames
    BY NobodyYet, RanksInOrder, ZenonT(120) DEF NewsRoutes, AdminNames
  <2> QED
    BY <2>1, <2>2, <2>3 DEF Proper
<1>10. Proper(BackupRoutes)
  <2>1. \A x \in BackupRoutes["viewer"] : x \notin ResearcherNames /\ x \notin ApproverNames /\ x \notin AdminNames
    BY NobodyYet, RanksInOrder, ZenonT(120) DEF BackupRoutes, ResearcherNames, ApproverNames, AdminNames
  <2>2. \A x \in BackupRoutes["researcher"] : x \notin ApproverNames /\ x \notin AdminNames
    BY NobodyYet, RanksInOrder, ZenonT(120) DEF BackupRoutes, ApproverNames, AdminNames
  <2>3. \A x \in BackupRoutes["approver"] : x \notin AdminNames
    BY NobodyYet, RanksInOrder, ZenonT(120) DEF BackupRoutes, AdminNames
  <2> QED
    BY <2>1, <2>2, <2>3 DEF Proper
<1>11. Proper(OperationsRoutes)
  <2>1. \A x \in OperationsRoutes["viewer"] : x \notin ResearcherNames /\ x \notin ApproverNames /\ x \notin AdminNames
    BY NobodyYet, RanksInOrder, ZenonT(120) DEF OperationsRoutes, ResearcherNames, ApproverNames, AdminNames
  <2>2. \A x \in OperationsRoutes["researcher"] : x \notin ApproverNames /\ x \notin AdminNames
    BY NobodyYet, RanksInOrder, ZenonT(120) DEF OperationsRoutes, ApproverNames, AdminNames
  <2>3. \A x \in OperationsRoutes["approver"] : x \notin AdminNames
    BY NobodyYet, RanksInOrder, ZenonT(120) DEF OperationsRoutes, AdminNames
  <2> QED
    BY <2>1, <2>2, <2>3 DEF Proper
<1>12. Proper(DashboardRoutes)
  <2>1. \A x \in DashboardRoutes["viewer"] : x \notin ResearcherNames /\ x \notin ApproverNames /\ x \notin AdminNames
    BY NobodyYet, RanksInOrder, ZenonT(120) DEF DashboardRoutes, ResearcherNames, ApproverNames, AdminNames
  <2>2. \A x \in DashboardRoutes["researcher"] : x \notin ApproverNames /\ x \notin AdminNames
    BY NobodyYet, RanksInOrder, ZenonT(120) DEF DashboardRoutes, ApproverNames, AdminNames
  <2>3. \A x \in DashboardRoutes["approver"] : x \notin AdminNames
    BY NobodyYet, RanksInOrder, ZenonT(120) DEF DashboardRoutes, AdminNames
  <2> QED
    BY <2>1, <2>2, <2>3 DEF Proper
<1>13. Proper(BriefRoutes)
  <2>1. \A x \in BriefRoutes["viewer"] : x \notin ResearcherNames /\ x \notin ApproverNames /\ x \notin AdminNames
    BY NobodyYet, RanksInOrder, ZenonT(120) DEF BriefRoutes, ResearcherNames, ApproverNames, AdminNames
  <2>2. \A x \in BriefRoutes["researcher"] : x \notin ApproverNames /\ x \notin AdminNames
    BY NobodyYet, RanksInOrder, ZenonT(120) DEF BriefRoutes, ApproverNames, AdminNames
  <2>3. \A x \in BriefRoutes["approver"] : x \notin AdminNames
    BY NobodyYet, RanksInOrder, ZenonT(120) DEF BriefRoutes, AdminNames
  <2> QED
    BY <2>1, <2>2, <2>3 DEF Proper
<1>14. Proper(SpecRoutes)
  <2>1. \A x \in SpecRoutes["viewer"] : x \notin ResearcherNames /\ x \notin ApproverNames /\ x \notin AdminNames
    BY NobodyYet, RanksInOrder, ZenonT(120) DEF SpecRoutes, ResearcherNames, ApproverNames, AdminNames
  <2>2. \A x \in SpecRoutes["researcher"] : x \notin ApproverNames /\ x \notin AdminNames
    BY NobodyYet, RanksInOrder, ZenonT(120) DEF SpecRoutes, ApproverNames, AdminNames
  <2>3. \A x \in SpecRoutes["approver"] : x \notin AdminNames
    BY NobodyYet, RanksInOrder, ZenonT(120) DEF SpecRoutes, AdminNames
  <2> QED
    BY <2>1, <2>2, <2>3 DEF Proper
<1>15. Proper(RunRoutes)
  <2>1. \A x \in RunRoutes["viewer"] : x \notin ResearcherNames /\ x \notin ApproverNames /\ x \notin AdminNames
    BY NobodyYet, RanksInOrder, ZenonT(120) DEF RunRoutes, ResearcherNames, ApproverNames, AdminNames
  <2>2. \A x \in RunRoutes["researcher"] : x \notin ApproverNames /\ x \notin AdminNames
    BY NobodyYet, RanksInOrder, ZenonT(120) DEF RunRoutes, ApproverNames, AdminNames
  <2>3. \A x \in RunRoutes["approver"] : x \notin AdminNames
    BY NobodyYet, RanksInOrder, ZenonT(120) DEF RunRoutes, AdminNames
  <2> QED
    BY <2>1, <2>2, <2>3 DEF Proper
<1>16. Proper(ReportRoutes)
  <2>1. \A x \in ReportRoutes["viewer"] : x \notin ResearcherNames /\ x \notin ApproverNames /\ x \notin AdminNames
    BY NobodyYet, RanksInOrder, ZenonT(120) DEF ReportRoutes, ResearcherNames, ApproverNames, AdminNames
  <2>2. \A x \in ReportRoutes["researcher"] : x \notin ApproverNames /\ x \notin AdminNames
    BY NobodyYet, RanksInOrder, ZenonT(120) DEF ReportRoutes, ApproverNames, AdminNames
  <2>3. \A x \in ReportRoutes["approver"] : x \notin AdminNames
    BY NobodyYet, RanksInOrder, ZenonT(120) DEF ReportRoutes, AdminNames
  <2> QED
    BY <2>1, <2>2, <2>3 DEF Proper
<1> QED
  BY <1>1, <1>2, <1>3, <1>4, <1>5, <1>6, <1>7, <1>8, <1>9, <1>10, <1>11, <1>12, <1>13, <1>14, <1>15, <1>16 DEF Endpoints

\* The tools, a catalogue module at a time.
LEMMA ProperTools == \A group \in Catalogue : Proper(group)
<1>1. Proper(BrokerTools)
  <2>1. \A x \in BrokerTools["viewer"] : x \notin ResearcherNames /\ x \notin ApproverNames /\ x \notin AdminNames
    BY NobodyYet, RanksInOrder, ZenonT(120) DEF BrokerTools, ResearcherNames, ApproverNames, AdminNames
  <2>2. \A x \in BrokerTools["researcher"] : x \notin ApproverNames /\ x \notin AdminNames
    BY NobodyYet, RanksInOrder, ZenonT(120) DEF BrokerTools, ApproverNames, AdminNames
  <2>3. \A x \in BrokerTools["approver"] : x \notin AdminNames
    BY NobodyYet, RanksInOrder, ZenonT(120) DEF BrokerTools, AdminNames
  <2> QED
    BY <2>1, <2>2, <2>3 DEF Proper
<1>2. Proper(QuoteTools)
  <2>1. \A x \in QuoteTools["viewer"] : x \notin ResearcherNames /\ x \notin ApproverNames /\ x \notin AdminNames
    BY NobodyYet, RanksInOrder, ZenonT(120) DEF QuoteTools, ResearcherNames, ApproverNames, AdminNames
  <2>2. \A x \in QuoteTools["researcher"] : x \notin ApproverNames /\ x \notin AdminNames
    BY NobodyYet, RanksInOrder, ZenonT(120) DEF QuoteTools, ApproverNames, AdminNames
  <2>3. \A x \in QuoteTools["approver"] : x \notin AdminNames
    BY NobodyYet, RanksInOrder, ZenonT(120) DEF QuoteTools, AdminNames
  <2> QED
    BY <2>1, <2>2, <2>3 DEF Proper
<1>3. Proper(OrderTools)
  <2>1. \A x \in OrderTools["viewer"] : x \notin ResearcherNames /\ x \notin ApproverNames /\ x \notin AdminNames
    BY NobodyYet, RanksInOrder, ZenonT(120) DEF OrderTools, ResearcherNames, ApproverNames, AdminNames
  <2>2. \A x \in OrderTools["researcher"] : x \notin ApproverNames /\ x \notin AdminNames
    BY NobodyYet, RanksInOrder, ZenonT(120) DEF OrderTools, ApproverNames, AdminNames
  <2>3. \A x \in OrderTools["approver"] : x \notin AdminNames
    BY NobodyYet, RanksInOrder, ZenonT(120) DEF OrderTools, AdminNames
  <2> QED
    BY <2>1, <2>2, <2>3 DEF Proper
<1>4. Proper(DataTools)
  <2>1. \A x \in DataTools["viewer"] : x \notin ResearcherNames /\ x \notin ApproverNames /\ x \notin AdminNames
    BY NobodyYet, RanksInOrder, ZenonT(120) DEF DataTools, ResearcherNames, ApproverNames, AdminNames
  <2>2. \A x \in DataTools["researcher"] : x \notin ApproverNames /\ x \notin AdminNames
    BY NobodyYet, RanksInOrder, ZenonT(120) DEF DataTools, ApproverNames, AdminNames
  <2>3. \A x \in DataTools["approver"] : x \notin AdminNames
    BY NobodyYet, RanksInOrder, ZenonT(120) DEF DataTools, AdminNames
  <2> QED
    BY <2>1, <2>2, <2>3 DEF Proper
<1>5. Proper(KnowledgeTools)
  <2>1. \A x \in KnowledgeTools["viewer"] : x \notin ResearcherNames /\ x \notin ApproverNames /\ x \notin AdminNames
    BY NobodyYet, RanksInOrder, ZenonT(120) DEF KnowledgeTools, ResearcherNames, ApproverNames, AdminNames
  <2>2. \A x \in KnowledgeTools["researcher"] : x \notin ApproverNames /\ x \notin AdminNames
    BY NobodyYet, RanksInOrder, ZenonT(120) DEF KnowledgeTools, ApproverNames, AdminNames
  <2>3. \A x \in KnowledgeTools["approver"] : x \notin AdminNames
    BY NobodyYet, RanksInOrder, ZenonT(120) DEF KnowledgeTools, AdminNames
  <2> QED
    BY <2>1, <2>2, <2>3 DEF Proper
<1>6. Proper(MarketTools)
  <2>1. \A x \in MarketTools["viewer"] : x \notin ResearcherNames /\ x \notin ApproverNames /\ x \notin AdminNames
    BY NobodyYet, RanksInOrder, ZenonT(120) DEF MarketTools, ResearcherNames, ApproverNames, AdminNames
  <2>2. \A x \in MarketTools["researcher"] : x \notin ApproverNames /\ x \notin AdminNames
    BY NobodyYet, RanksInOrder, ZenonT(120) DEF MarketTools, ApproverNames, AdminNames
  <2>3. \A x \in MarketTools["approver"] : x \notin AdminNames
    BY NobodyYet, RanksInOrder, ZenonT(120) DEF MarketTools, AdminNames
  <2> QED
    BY <2>1, <2>2, <2>3 DEF Proper
<1>7. Proper(InstrumentTools)
  <2>1. \A x \in InstrumentTools["viewer"] : x \notin ResearcherNames /\ x \notin ApproverNames /\ x \notin AdminNames
    BY NobodyYet, RanksInOrder, ZenonT(120) DEF InstrumentTools, ResearcherNames, ApproverNames, AdminNames
  <2>2. \A x \in InstrumentTools["researcher"] : x \notin ApproverNames /\ x \notin AdminNames
    BY NobodyYet, RanksInOrder, ZenonT(120) DEF InstrumentTools, ApproverNames, AdminNames
  <2>3. \A x \in InstrumentTools["approver"] : x \notin AdminNames
    BY NobodyYet, RanksInOrder, ZenonT(120) DEF InstrumentTools, AdminNames
  <2> QED
    BY <2>1, <2>2, <2>3 DEF Proper
<1>8. Proper(WatchTools)
  <2>1. \A x \in WatchTools["viewer"] : x \notin ResearcherNames /\ x \notin ApproverNames /\ x \notin AdminNames
    BY NobodyYet, RanksInOrder, ZenonT(120) DEF WatchTools, ResearcherNames, ApproverNames, AdminNames
  <2>2. \A x \in WatchTools["researcher"] : x \notin ApproverNames /\ x \notin AdminNames
    BY NobodyYet, RanksInOrder, ZenonT(120) DEF WatchTools, ApproverNames, AdminNames
  <2>3. \A x \in WatchTools["approver"] : x \notin AdminNames
    BY NobodyYet, RanksInOrder, ZenonT(120) DEF WatchTools, AdminNames
  <2> QED
    BY <2>1, <2>2, <2>3 DEF Proper
<1>9. Proper(PlatformTools)
  <2>1. \A x \in PlatformTools["viewer"] : x \notin ResearcherNames /\ x \notin ApproverNames /\ x \notin AdminNames
    BY NobodyYet, RanksInOrder, ZenonT(120) DEF PlatformTools, ResearcherNames, ApproverNames, AdminNames
  <2>2. \A x \in PlatformTools["researcher"] : x \notin ApproverNames /\ x \notin AdminNames
    BY NobodyYet, RanksInOrder, ZenonT(120) DEF PlatformTools, ApproverNames, AdminNames
  <2>3. \A x \in PlatformTools["approver"] : x \notin AdminNames
    BY NobodyYet, RanksInOrder, ZenonT(120) DEF PlatformTools, AdminNames
  <2> QED
    BY <2>1, <2>2, <2>3 DEF Proper
<1>10. Proper(ResearchTools)
  <2>1. \A x \in ResearchTools["viewer"] : x \notin ResearcherNames /\ x \notin ApproverNames /\ x \notin AdminNames
    BY NobodyYet, RanksInOrder, ZenonT(120) DEF ResearchTools, ResearcherNames, ApproverNames, AdminNames
  <2>2. \A x \in ResearchTools["researcher"] : x \notin ApproverNames /\ x \notin AdminNames
    BY NobodyYet, RanksInOrder, ZenonT(120) DEF ResearchTools, ApproverNames, AdminNames
  <2>3. \A x \in ResearchTools["approver"] : x \notin AdminNames
    BY NobodyYet, RanksInOrder, ZenonT(120) DEF ResearchTools, AdminNames
  <2> QED
    BY <2>1, <2>2, <2>3 DEF Proper
<1>11. Proper(MemoryTools)
  <2>1. \A x \in MemoryTools["viewer"] : x \notin ResearcherNames /\ x \notin ApproverNames /\ x \notin AdminNames
    BY NobodyYet, RanksInOrder, ZenonT(120) DEF MemoryTools, ResearcherNames, ApproverNames, AdminNames
  <2>2. \A x \in MemoryTools["researcher"] : x \notin ApproverNames /\ x \notin AdminNames
    BY NobodyYet, RanksInOrder, ZenonT(120) DEF MemoryTools, ApproverNames, AdminNames
  <2>3. \A x \in MemoryTools["approver"] : x \notin AdminNames
    BY NobodyYet, RanksInOrder, ZenonT(120) DEF MemoryTools, AdminNames
  <2> QED
    BY <2>1, <2>2, <2>3 DEF Proper
<1>12. Proper(StrategyTools)
  <2>1. \A x \in StrategyTools["viewer"] : x \notin ResearcherNames /\ x \notin ApproverNames /\ x \notin AdminNames
    BY NobodyYet, RanksInOrder, ZenonT(120) DEF StrategyTools, ResearcherNames, ApproverNames, AdminNames
  <2>2. \A x \in StrategyTools["researcher"] : x \notin ApproverNames /\ x \notin AdminNames
    BY NobodyYet, RanksInOrder, ZenonT(120) DEF StrategyTools, ApproverNames, AdminNames
  <2>3. \A x \in StrategyTools["approver"] : x \notin AdminNames
    BY NobodyYet, RanksInOrder, ZenonT(120) DEF StrategyTools, AdminNames
  <2> QED
    BY <2>1, <2>2, <2>3 DEF Proper
<1>13. Proper(SpecTools)
  <2>1. \A x \in SpecTools["viewer"] : x \notin ResearcherNames /\ x \notin ApproverNames /\ x \notin AdminNames
    BY NobodyYet, RanksInOrder, ZenonT(120) DEF SpecTools, ResearcherNames, ApproverNames, AdminNames
  <2>2. \A x \in SpecTools["researcher"] : x \notin ApproverNames /\ x \notin AdminNames
    BY NobodyYet, RanksInOrder, ZenonT(120) DEF SpecTools, ApproverNames, AdminNames
  <2>3. \A x \in SpecTools["approver"] : x \notin AdminNames
    BY NobodyYet, RanksInOrder, ZenonT(120) DEF SpecTools, AdminNames
  <2> QED
    BY <2>1, <2>2, <2>3 DEF Proper
<1>14. Proper(BacktestTools)
  <2>1. \A x \in BacktestTools["viewer"] : x \notin ResearcherNames /\ x \notin ApproverNames /\ x \notin AdminNames
    BY NobodyYet, RanksInOrder, ZenonT(120) DEF BacktestTools, ResearcherNames, ApproverNames, AdminNames
  <2>2. \A x \in BacktestTools["researcher"] : x \notin ApproverNames /\ x \notin AdminNames
    BY NobodyYet, RanksInOrder, ZenonT(120) DEF BacktestTools, ApproverNames, AdminNames
  <2>3. \A x \in BacktestTools["approver"] : x \notin AdminNames
    BY NobodyYet, RanksInOrder, ZenonT(120) DEF BacktestTools, AdminNames
  <2> QED
    BY <2>1, <2>2, <2>3 DEF Proper
<1>15. Proper(RunTools)
  <2>1. \A x \in RunTools["viewer"] : x \notin ResearcherNames /\ x \notin ApproverNames /\ x \notin AdminNames
    BY NobodyYet, RanksInOrder, ZenonT(120) DEF RunTools, ResearcherNames, ApproverNames, AdminNames
  <2>2. \A x \in RunTools["researcher"] : x \notin ApproverNames /\ x \notin AdminNames
    BY NobodyYet, RanksInOrder, ZenonT(120) DEF RunTools, ApproverNames, AdminNames
  <2>3. \A x \in RunTools["approver"] : x \notin AdminNames
    BY NobodyYet, RanksInOrder, ZenonT(120) DEF RunTools, AdminNames
  <2> QED
    BY <2>1, <2>2, <2>3 DEF Proper
<1> QED
  BY <1>1, <1>2, <1>3, <1>4, <1>5, <1>6, <1>7, <1>8, <1>9, <1>10, <1>11, <1>12, <1>13, <1>14, <1>15 DEF Catalogue

\* Every effect is of the one role that it takes.
LEMMA WhatTakesWhat ==
    /\ DOMAIN Changes = ViewerEffects \cup ResearcherEffects \cup ApproverEffects \cup {"purge"}
    /\ \A e \in ViewerEffects : Takes(e) = "viewer"
    /\ \A e \in ResearcherEffects : Takes(e) = "researcher"
    /\ \A e \in ApproverEffects : Takes(e) = "approver"
    /\ Takes("purge") = "admin"
<1>1. DOMAIN Changes = ViewerEffects \cup ResearcherEffects \cup ApproverEffects \cup {"purge"}
  BY DEF Changes, ViewerEffects, ResearcherEffects, ApproverEffects
<1>2. ASSUME NEW e \in ViewerEffects PROVE Takes(e) = "viewer"
  BY DEF Takes, ViewerEffects
<1>3. ASSUME NEW e \in ResearcherEffects PROVE Takes(e) = "researcher"
  BY DEF Takes, ResearcherEffects
<1>4. ASSUME NEW e \in ApproverEffects PROVE Takes(e) = "approver"
  BY DEF Takes, ApproverEffects
<1>5. Takes("purge") = "admin"
  BY DEF Takes
<1> QED
  BY <1>1, <1>2, <1>3, <1>4, <1>5

\* A name in a proper group asks for the rank of every effect it has.
LEMMA GroupsAskEnough ==
    ASSUME NEW group, Proper(group), NEW r \in Roles, NEW name \in group[r], NEW e \in ChangedBy(name)
    PROVE  AtLeast(r, Takes(e))
<1>1. e \in DOMAIN Changes /\ name \in Changes[e]
  BY DEF ChangedBy
<1>2. CASE e \in ViewerEffects
  <2>1. Ranks[r] >= 0
    BY RanksInOrder
  <2> QED
    BY <1>2, <2>1, RanksInOrder, WhatTakesWhat DEF AtLeast
<1>3. CASE e \in ResearcherEffects
  <2>1. name \in ResearcherNames
    BY <1>1, <1>3, WhoAsks
  <2>2. r \in {"researcher", "approver", "admin"}
    BY <2>1, RanksInOrder DEF Proper
  <2> QED
    BY <1>3, <2>2, RanksInOrder, WhatTakesWhat DEF AtLeast
<1>4. CASE e \in ApproverEffects
  <2>1. name \in ApproverNames
    BY <1>1, <1>4, WhoAsks
  <2>2. r \in {"approver", "admin"}
    BY <2>1, RanksInOrder DEF Proper
  <2> QED
    BY <1>4, <2>2, RanksInOrder, WhatTakesWhat DEF AtLeast
<1>5. CASE e = "purge"
  <2>1. name \in AdminNames
    BY <1>1, <1>5, WhoAsks
  <2>2. r = "admin"
    BY <2>1, RanksInOrder DEF Proper
  <2> QED
    BY <1>5, <2>2, RanksInOrder, WhatTakesWhat DEF AtLeast
<1> QED
  BY <1>1, <1>2, <1>3, <1>4, <1>5, WhatTakesWhat

\* Every effect takes a role.
LEMMA TakesARole == \A e \in DOMAIN Changes : Takes(e) \in Roles
BY WhatTakesWhat, RanksInOrder

\* Whatever a role is permitted, at whichever door, changes what is its own to change.
LEMMA PermittedIsOwn ==
    ASSUME NEW door, NEW name, NEW role \in Roles, Permitted(door, name, role), NEW e \in ChangedBy(name)
    PROVE  AtLeast(role, Takes(e))
<1>1. \E group : \E r \in Roles : Proper(group) /\ AtLeast(role, r) /\ name \in group[r]
  BY ProperRoutes, ProperTools DEF Permitted, RoutesUpTo, ToolsUpTo
<1>2. PICK group : \E r \in Roles : Proper(group) /\ AtLeast(role, r) /\ name \in group[r]
  BY <1>1
<1>3. PICK r \in Roles : Proper(group) /\ AtLeast(role, r) /\ name \in group[r]
  BY <1>2
<1>4. AtLeast(r, Takes(e))
  BY <1>3, GroupsAskEnough
<1>5. Takes(e) \in Roles
  BY TakesARole DEF ChangedBy
<1>6. Ranks[role] \in 0..3 /\ Ranks[r] \in 0..3 /\ Ranks[Takes(e)] \in 0..3
  BY <1>5, RanksInOrder
<1>7. Ranks[role] >= Ranks[r] /\ Ranks[r] >= Ranks[Takes(e)]
  BY <1>3, <1>4 DEF AtLeast
<1> QED
  BY <1>6, <1>7 DEF AtLeast

(***************************************************************************)
(* The inductive invariant: an answer was permitted to the role the caller *)
(* was given, and the role came from the door or from a session.           *)
(***************************************************************************)
RequestRows == [pc : {"free", "authenticate", "handle", "done"}, door : Doors,
                name : AllTools \cup AllRoutes \cup {"none"}, token : AuthTokens \cup {NoToken},
                role : Roles, outcome : {"none", "done", "refused"}]

Answered(q) == q.pc = "handle" \/ q.outcome = "done"

RequestIsFair(q) ==
    /\ q.outcome = "done" => q.pc = "done" /\ Permitted(q.door, q.name, q.role)
    /\ Answered(q) /\ q.door = "stdio" => q.role = "researcher"
    /\ Answered(q) /\ AuthRequired /\ q.door # "stdio" => q.token # NoToken

AccessInv ==
    /\ AccessTypeOK
    /\ RequestIsFair(request)
    /\ \A t \in loggedOut : authSessions[t].revoked

\* No request and no session to begin with.
LEMMA AccessInvInit == AccessInit => AccessInv
<1> SUFFICES ASSUME AccessInit PROVE AccessInv
  OBVIOUS
<1>1. NoRequest \in RequestRows /\ RequestIsFair(NoRequest)
  BY RanksInOrder DEF NoRequest, RequestRows, RequestIsFair, Answered, Doors
<1>2. NoSession \in [user : Users \cup {NoUser}, expired : BOOLEAN, revoked : BOOLEAN]
  BY DEF NoSession
<1> HIDE DEF NoRequest, NoSession
<1> QED
  BY <1>1, <1>2 DEF AccessInit, AccessInv, AccessTypeOK, RequestRows

SessionRows == [user : Users \cup {NoUser}, expired : BOOLEAN, revoked : BOOLEAN]

\* Steps of the sessions leave the request alone and never revive a token.
LEMMA SessionsKeep ==
    ASSUME AccessInv, SessionStep
    PROVE  AccessInv'
<1>0. authSessions \in [AuthTokens -> SessionRows] /\ request \in RequestRows /\ loggedOut \subseteq AuthTokens
  BY DEF AccessInv, AccessTypeOK, SessionRows, RequestRows
<1>1. request' = request
  BY DEF SessionStep, Login, SessionExpires, Logout
<1>2. /\ authSessions' \in [AuthTokens -> SessionRows]
      /\ \A t \in AuthTokens : authSessions[t].revoked => authSessions'[t].revoked
  BY <1>0 DEF SessionStep, Login, SessionExpires, Logout, SessionRows
<1>3. /\ loggedOut' \subseteq AuthTokens
      /\ \A t \in loggedOut' : authSessions'[t].revoked
  BY <1>0 DEF SessionStep, Login, SessionExpires, Logout, SessionRows, AccessInv
<1> QED
  BY <1>0, <1>1, <1>2, <1>3 DEF AccessInv, AccessTypeOK, SessionRows, RequestRows, RequestIsFair, Answered, Permitted

\* A request keeps its invariant at each of its steps, and touches no session.
LEMMA RequestsKeep ==
    ASSUME AccessInv, RequestStep
    PROVE  AccessInv'
<1>0. /\ authSessions \in [AuthTokens -> SessionRows] /\ request \in RequestRows /\ loggedOut \subseteq AuthTokens
      /\ \A t \in loggedOut : authSessions[t].revoked
      /\ RequestIsFair(request)
  BY DEF AccessInv, AccessTypeOK, SessionRows, RequestRows
<1>1. authSessions' = authSessions /\ loggedOut' = loggedOut
  BY DEF RequestStep, Arrive, Authenticate, Handle, Respond
<1>2. ASSUME NEW t \in AuthTokens \cup {NoToken}, NEW name \in AllTools \cup AllRoutes,
             NEW door \in {"route", "mcp", "chat", "stdio"}, Arrive(door, name, t)
      PROVE  request' \in RequestRows /\ RequestIsFair(request')
  <2> DEFINE q == [NoRequest EXCEPT !.pc = "authenticate", !.door = door, !.name = name, !.token = t]
  <2>1. request' = q
    BY <1>2 DEF Arrive
  <2>2. q \in RequestRows /\ q.pc = "authenticate" /\ q.outcome = "none"
    BY RanksInOrder DEF NoRequest, RequestRows, Doors
  <2> HIDE DEF q
  <2> QED
    BY <2>1, <2>2 DEF RequestIsFair, Answered
<1>3. ASSUME Authenticate
      PROVE  request' \in RequestRows /\ RequestIsFair(request')
  <2>1. request.pc = "authenticate" /\ request.outcome # "done"
    BY <1>0, <1>3 DEF Authenticate, RequestIsFair
  <2>2. \/ \E role \in Roles : /\ Handles(role)
                               /\ request.door = "stdio" => role = "researcher"
                               /\ AuthRequired /\ request.door # "stdio" => request.token # NoToken
        \/ Finish("refused")
    <3>1. CASE request.door = "stdio"
      BY <1>3, <3>1, RanksInOrder DEF Authenticate
    <3>2. CASE request.door # "stdio" /\ ~AuthRequired
      BY <1>3, <3>2, RanksInOrder DEF Authenticate
    <3>3. CASE request.door # "stdio" /\ AuthRequired
      <4>1. IF request.token # NoToken /\ Honoured(request.token)
            THEN LET user == authSessions[request.token].user
                 IN user # NoUser /\ Handles(UserRole[user])
            ELSE Finish("refused")
        BY <1>3, <3>3 DEF Authenticate
      <4>2. CASE request.token # NoToken /\ Honoured(request.token)
        <5>1. request.token \in AuthTokens
          BY <1>0, <4>2 DEF RequestRows
        <5>2. authSessions[request.token].user \in Users
          BY <1>0, <4>1, <4>2, <5>1 DEF SessionRows
        <5>3. UserRole[authSessions[request.token].user] \in Roles
          BY <5>2, AccessAssumption
        <5> QED
          BY <3>3, <4>1, <4>2, <5>3
      <4> QED
        BY <4>1, <4>2
    <3> QED
      BY <3>1, <3>2, <3>3
  <2>3. CASE Finish("refused")
    <3> DEFINE q == [request EXCEPT !.pc = "done", !.outcome = "refused"]
    <3>1. request' = q
      BY <2>3 DEF Finish
    <3>2. q \in RequestRows /\ q.outcome = "refused" /\ q.pc = "done"
      BY <1>0 DEF RequestRows
    <3> HIDE DEF q
    <3> QED
      BY <3>1, <3>2 DEF RequestIsFair, Answered
  <2>4. ASSUME NEW role \in Roles, Handles(role),
               request.door = "stdio" => role = "researcher",
               AuthRequired /\ request.door # "stdio" => request.token # NoToken
        PROVE  request' \in RequestRows /\ RequestIsFair(request')
    <3> DEFINE q == [request EXCEPT !.pc = "handle", !.role = role]
    <3>1. request' = q
      BY <2>4 DEF Handles
    <3>2. /\ q \in RequestRows /\ q.role = role /\ q.pc = "handle"
          /\ q.door = request.door /\ q.token = request.token /\ q.outcome = request.outcome
      BY <1>0 DEF RequestRows
    <3> HIDE DEF q
    <3> QED
      BY <2>1, <2>4, <3>1, <3>2 DEF RequestIsFair, Answered
  <2> QED
    BY <2>2, <2>3, <2>4
<1>4. ASSUME Handle
      PROVE  request' \in RequestRows /\ RequestIsFair(request')
  <2>1. PICK outcome \in {"done", "refused"} :
           /\ Finish(outcome)
           /\ outcome = "done" => Permitted(request.door, request.name, request.role)
    BY <1>4 DEF Handle
  <2> DEFINE q == [request EXCEPT !.pc = "done", !.outcome = outcome]
  <2>2. request' = q
    BY <2>1 DEF Finish
  <2>3. /\ q \in RequestRows /\ q.role = request.role /\ q.pc = "done"
        /\ q.door = request.door /\ q.token = request.token /\ q.outcome = outcome /\ q.name = request.name
    BY <1>0 DEF RequestRows
  <2>4. request.pc = "handle"
    BY <1>4 DEF Handle
  <2> HIDE DEF q
  <2> QED
    BY <1>0, <2>1, <2>2, <2>3, <2>4 DEF RequestIsFair, Answered
<1>5. ASSUME Respond
      PROVE  request' \in RequestRows /\ RequestIsFair(request')
  <2>1. NoRequest \in RequestRows /\ RequestIsFair(NoRequest)
    BY RanksInOrder DEF NoRequest, RequestRows, RequestIsFair, Answered, Doors
  <2> HIDE DEF NoRequest
  <2> QED
    BY <1>5, <2>1 DEF Respond
<1>6. request' \in RequestRows /\ RequestIsFair(request')
  BY <1>2, <1>3, <1>4, <1>5 DEF RequestStep
<1> QED
  BY <1>0, <1>1, <1>6 DEF AccessInv, AccessTypeOK, SessionRows, RequestRows

\* So every step keeps it.
LEMMA AccessInvNext == AccessInv /\ [AccessNext]_accessVars => AccessInv'
<1> SUFFICES ASSUME AccessInv, [AccessNext]_accessVars PROVE AccessInv'
  OBVIOUS
<1>1. CASE UNCHANGED accessVars
  BY <1>1 DEF AccessInv, AccessTypeOK, accessVars
<1> QED
  BY <1>1, SessionsKeep, RequestsKeep DEF AccessNext

\* What the runs check is part of it, or follows from the tables.
LEMMA AccessInvGivesGuard == AccessInv => AccessIsGuarded
<1> SUFFICES ASSUME AccessInv PROVE AccessIsGuarded
  OBVIOUS
<1>1. AccessTypeOK /\ RequestIsFair(request) /\ request.role \in Roles
  BY DEF AccessInv, AccessTypeOK
<1>2. EveryDoorAsksTheSame
  BY <1>1, PermittedIsOwn DEF EveryDoorAsksTheSame, RequestIsFair, Answered
<1>3. StdioStaysBelowApproval
  <2> SUFFICES ASSUME request.door = "stdio", request.outcome = "done", NEW e \in ChangedBy(request.name)
               PROVE  e \notin {"approval", "risk", "allOrders", "purge", "operations"}
    BY DEF StdioStaysBelowApproval
  <2>1. request.role = "researcher" /\ AtLeast(request.role, Takes(e))
    BY <1>1, <1>2 DEF RequestIsFair, Answered, EveryDoorAsksTheSame
  <2>2. Takes(e) \notin {"approver", "admin"}
    BY <2>1, RanksInOrder DEF AtLeast
  <2> QED
    BY <2>2, WhatTakesWhat DEF ApproverEffects
<1> QED
  BY <1>1, <1>2, <1>3 DEF AccessIsGuarded

\* AccessIsGuarded: by whichever door a request comes, what it changes was the caller's
\* to change (auth_service.py, tools/registry.py, mcp_server.py), for any accounts, roles and tokens.
THEOREM GuardedAccess == AccessSpec => []AccessIsGuarded
BY AccessInvInit, AccessInvNext, AccessInvGivesGuard, PTL DEF AccessSpec

\* DeadTokensStayDead: no request gets past sign-in on a token whose logout has returned
\* or whose session has expired (auth_service.py).
THEOREM TokensStayDead == AccessSpec => DeadTokensStayDead
<1>1. ASSUME AccessInv, AccessNext, request.pc = "authenticate", request'.pc = "handle",
             request.door # "stdio", AuthRequired
      PROVE  request.token \notin loggedOut /\ ~authSessions[request.token].expired
  <2>1. /\ authSessions \in [AuthTokens -> SessionRows] /\ request \in RequestRows
        /\ \A t \in loggedOut : authSessions[t].revoked
    BY <1>1 DEF AccessInv, AccessTypeOK, SessionRows, RequestRows
  <2>2. request' # request
    BY <1>1
  <2>3. Authenticate
    <3>1. ASSUME NEW door, NEW name, NEW t, Arrive(door, name, t) PROVE FALSE
      BY <1>1, <3>1 DEF Arrive
    <3>2. ~Handle /\ ~Respond
      BY <1>1 DEF Handle, Respond
    <3>3. ~SessionStep
      BY <2>2 DEF SessionStep, Login, SessionExpires, Logout
    <3> QED
      BY <1>1, <3>1, <3>2, <3>3 DEF AccessNext, RequestStep
  <2>4. request.token # NoToken /\ Honoured(request.token)
    <3>1. CASE ~(request.token # NoToken /\ Honoured(request.token))
      <4>1. Finish("refused")
        BY <1>1, <2>3, <3>1 DEF Authenticate
      <4>2. request'.pc = "done"
        BY <2>1, <4>1 DEF Finish, RequestRows
      <4> QED
        BY <1>1, <4>2
    <3> QED
      BY <3>1
  <2> QED
    BY <2>1, <2>4 DEF Honoured
<1>2. AccessInv /\ [AccessNext]_accessVars
        => [(request.pc = "authenticate" /\ request'.pc = "handle" /\ request.door # "stdio" /\ AuthRequired)
              => request.token \notin loggedOut /\ ~authSessions[request.token].expired]_accessVars
  BY <1>1 DEF accessVars
<1> QED
  BY <1>2, AccessInvInit, AccessInvNext, PTL DEF AccessSpec, DeadTokensStayDead

-----------------------------------------------------------------------------
(***************************************************************************)
(* Retention. Between two purges the tables stay within their bounds and   *)
(* every run is on record; what a purge takes is old, and as much as it    *)
(* reports.                                                                *)
(***************************************************************************)
\* What holds of the rows between two purges, beyond their types: a chat that is
\* in use is there, one that is not has no messages, a table is within its bound,
\* every run of a policy is on record with what it deleted.
ChatsInv ==
    \A c \in Chats : /\ chatting[c] => chats[c].there
                     /\ ~chats[c].there => chats[c].messages = 0

RowsWithinBound == \A p \in SimplePolicies : rows[p].open + rows[p].over <= MaxMessages

Runs == [mode : {"preview", "execute"}, deleted : [Counted -> Nat]]
RunsOnRecord == retentionRuns \in Seq(Runs) /\ Len(retentionRuns) <= MaxRuns

RetentionInv ==
    /\ PurgesAreClean /\ ChatsInv /\ RowsWithinBound /\ RunsOnRecord

-----------------------------------------------------------------------------
\* What a purge takes: dead tokens, chats nobody is in, rows that are there, of
\* the policies that ask for it only rows that are over.
LEMMA TakenIsOld ==
    ASSUME RetentionInv, NEW selected \in SUBSET Policies, NEW age \in Ages
    PROVE  LET b == Beyond(age, selected)
           IN  /\ b.tokens \in SUBSET DeadTokens /\ b.inactive \in SUBSET InactiveChats
               /\ \A p \in SimplePolicies :
                     /\ b.rows[p].open \in Nat /\ b.rows[p].over \in Nat
                     /\ b.rows[p].open <= rows[p].open /\ b.rows[p].over <= rows[p].over
                     /\ p \in Statused => b.rows[p].open = 0
<1> DEFINE b == Beyond(age, selected)
<1>1. b.tokens \in SUBSET DeadTokens /\ b.inactive \in SUBSET InactiveChats
  BY DEF Beyond, Ages
<1>2. ASSUME NEW p \in SimplePolicies
      PROVE  /\ b.rows[p].open \in Nat /\ b.rows[p].over \in Nat
             /\ b.rows[p].open <= rows[p].open /\ b.rows[p].over <= rows[p].over
             /\ p \in Statused => b.rows[p].open = 0
  <2>1. rows[p].open \in Nat /\ rows[p].over \in Nat
    BY RetentionAssumption DEF RetentionInv, PurgesAreClean, RetentionTypeOK
  <2>2. /\ age.rows[p].open \in Nat /\ age.rows[p].over \in Nat
        /\ age.rows[p].open <= Purgeable(p).open /\ age.rows[p].over <= Purgeable(p).over
    BY RetentionAssumption DEF Ages
  <2>3. /\ Purgeable(p).over = rows[p].over
        /\ Purgeable(p).open = IF p \in Statused THEN 0 ELSE rows[p].open
    BY DEF Purgeable
  <2>4. b.rows[p] = IF p \in selected THEN age.rows[p] ELSE [open |-> 0, over |-> 0]
    BY DEF Beyond
  <2>5. CASE p \in selected
    BY <2>1, <2>2, <2>3, <2>4, <2>5
  <2>6. CASE p \notin selected
    BY <2>1, <2>4, <2>6
  <2> QED
    BY <2>5, <2>6
<1> QED
  BY <1>1, <1>2

LEMMA CountsAreNaturals ==
    ASSUME RetentionInv, NEW selected \in SUBSET Policies, NEW age \in Ages
    PROVE  Counts(Beyond(age, selected)) \in [Counted -> Nat]
<1> DEFINE b == Beyond(age, selected)
<1>1. /\ b.tokens \in SUBSET DeadTokens /\ b.inactive \in SUBSET InactiveChats
      /\ \A p \in SimplePolicies : b.rows[p].open \in Nat /\ b.rows[p].over \in Nat
  BY TakenIsOld
<1>2. Cardinality(b.tokens) \in Nat
  <2>1. b.tokens \subseteq AuthTokens
    BY <1>1 DEF DeadTokens
  <2> QED
    BY <2>1, AccessAssumption, FS_Subset, FS_CardinalityType
<1>3. b.inactive \subseteq Chats /\ IsFiniteSet(b.inactive)
  BY <1>1, RetentionAssumption, FS_Subset DEF InactiveChats
<1>4. Cardinality(b.inactive) \in Nat
  BY <1>3, FS_CardinalityType
<1>5. MessagesOf(b.inactive) \in Nat
  <2> DEFINE w == [c \in Chats |-> chats[c].messages]
  <2>1. \A c \in b.inactive : w[c] \in Nat
    BY <1>3, RetentionAssumption DEF RetentionInv, PurgesAreClean, RetentionTypeOK
  <2> HIDE DEF w
  <2>2. SumFunctionOnSet(w, b.inactive) \in Nat
    BY <1>3, <2>1, SumIsNat
  <2> QED
    BY <2>2 DEF MessagesOf, w
<1> HIDE DEF b
<1>6. ASSUME NEW c \in Counted
      PROVE  Counts(b)[c] \in Nat
  <2>1. CASE c = "expired_auth_sessions"
    BY <1>2, <2>1 DEF Counts
  <2>2. CASE c = "chat_sessions"
    BY <1>4, <2>2 DEF Counts
  <2>3. CASE c = "chat_messages"
    BY <1>5, <2>3 DEF Counts
  <2>4. CASE c \notin {"expired_auth_sessions", "chat_sessions", "chat_messages"}
    <3>1. c \in SimplePolicies
      BY <2>4 DEF Counted, SimplePolicies
    <3>2. Counts(b)[c] = b.rows[c].open + b.rows[c].over
      BY <2>4 DEF Counts
    <3> QED
      BY <1>1, <3>1, <3>2 DEF b
  <2> QED
    BY <2>1, <2>2, <2>3, <2>4
<1> QED
  BY <1>6 DEF Counts, b

Deleted(runs, c) == SumFunction([n \in DOMAIN runs |-> runs[n].deleted[c]])

\* One more run on record adds what it deleted to the sum of what was deleted.
LEMMA DeletedSoFar ==
    ASSUME NEW runs \in Seq(Runs), NEW run \in Runs, NEW c \in Counted
    PROVE  Deleted(Append(runs, run), c) = Deleted(runs, c) + run.deleted[c]
<1> DEFINE v == [n \in DOMAIN Append(runs, run) |-> Append(runs, run)[n].deleted[c]]
           w == [n \in DOMAIN runs |-> runs[n].deleted[c]]
           L == Len(runs)
<1>1. L \in Nat /\ DOMAIN runs = 1..L /\ DOMAIN Append(runs, run) = 1..(L + 1)
  OBVIOUS
<1>2. \A n \in 1..L : Append(runs, run)[n] = runs[n] /\ runs[n] \in Runs
  OBVIOUS
<1>3. Append(runs, run)[L + 1] = run
  OBVIOUS
<1>4. /\ DOMAIN v = 1..(L + 1) /\ DOMAIN w = 1..L
      /\ \A n \in 1..L : v[n] = w[n] /\ w[n] \in Int
      /\ v[L + 1] = run.deleted[c] /\ v[L + 1] \in Int
  BY <1>1, <1>2, <1>3 DEF Runs
<1>5. IsFiniteSet(1..L) /\ IsFiniteSet(1..(L + 1))
  BY <1>1, FS_Interval
<1> HIDE DEF v, w, L
<1>6. \A n \in 1..(L + 1) : v[n] \in Int
  BY <1>1, <1>4
<1>7. (1..(L + 1)) \ {L + 1} = 1..L /\ L + 1 \in 1..(L + 1)
  BY <1>1
<1>8. SumFunctionOnSet(v, 1..(L + 1)) = v[L + 1] + SumFunctionOnSet(v, 1..L)
  <2>1. SumFunctionOnSet(v, 1..(L + 1)) = v[L + 1] + SumFunctionOnSet(v, (1..(L + 1)) \ {L + 1})
    BY <1>5, <1>6, <1>7, SumTakes
  <2> QED
    BY <1>7, <2>1
<1>9. SumFunctionOnSet(v, 1..L) = SumFunctionOnSet(w, 1..L) /\ SumFunctionOnSet(w, 1..L) \in Int
  BY <1>4, <1>5, SumAgrees, SumIsInt
<1>10. SumFunction(v) = SumFunction(w) + run.deleted[c]
  BY <1>4, <1>8, <1>9 DEF SumFunction
<1> QED
  BY <1>10 DEF v, w, Deleted

Purges(runs) == Cardinality({n \in DOMAIN runs : runs[n].mode = "execute"})

LEMMA PurgesSoFar ==
    ASSUME NEW runs \in Seq(Runs), NEW run \in Runs
    PROVE  /\ Purges(runs) \in Nat /\ Purges(runs) <= Len(runs)
           /\ Purges(Append(runs, run)) = Purges(runs) + (IF run.mode = "execute" THEN 1 ELSE 0)
<1> DEFINE L == Len(runs)
           Of(rs) == {n \in DOMAIN rs : rs[n].mode = "execute"}
<1>1. L \in Nat /\ DOMAIN runs = 1..L /\ DOMAIN Append(runs, run) = 1..(L + 1)
  OBVIOUS
<1>2. /\ \A n \in 1..L : Append(runs, run)[n] = runs[n]
      /\ Append(runs, run)[L + 1] = run
  OBVIOUS
<1>3. Of(Append(runs, run)) = IF run.mode = "execute" THEN Of(runs) \cup {L + 1} ELSE Of(runs)
  BY <1>1, <1>2
<1>4. Of(runs) \subseteq 1..L /\ L + 1 \notin Of(runs)
  BY <1>1
<1>5. IsFiniteSet(1..L) /\ Cardinality(1..L) = L
  BY <1>1, FS_Interval
<1> HIDE DEF L, Of
<1>6. /\ IsFiniteSet(Of(runs)) /\ Cardinality(Of(runs)) \in Nat /\ Cardinality(Of(runs)) <= L
  BY <1>4, <1>5, FS_Subset, FS_CardinalityType
<1>7. Cardinality(Of(runs) \cup {L + 1}) = Cardinality(Of(runs)) + 1
  BY <1>4, <1>6, FS_AddElement
<1>8. Cardinality(Of(Append(runs, run))) = Cardinality(Of(runs)) + (IF run.mode = "execute" THEN 1 ELSE 0)
  BY <1>3, <1>6, <1>7
<1> QED
  BY <1>6, <1>8 DEF L, Of, Purges

-----------------------------------------------------------------------------
LEMMA SessionsTyped ==
    ASSUME AccessTypeOK, SessionStep
    PROVE  AccessTypeOK'
<1> DEFINE Row == [user : Users \cup {NoUser}, expired : BOOLEAN, revoked : BOOLEAN]
<1>0. authSessions \in [AuthTokens -> Row]
  BY DEF AccessTypeOK
<1>1. authSessions' \in [AuthTokens -> Row] /\ loggedOut' \subseteq AuthTokens /\ UNCHANGED request
  <2>1. CASE \E user \in Users, t \in AuthTokens : Login(user, t)
    <3>1. PICK user \in Users, t \in AuthTokens : Login(user, t)
      BY <2>1
    <3>2. [authSessions[t] EXCEPT !.user = user] \in Row
      BY <1>0
    <3> QED
      BY <1>0, <3>1, <3>2 DEF Login, AccessTypeOK
  <2>2. ASSUME NEW t \in AuthTokens, SessionExpires(t) \/ Logout(t)
        PROVE  authSessions' \in [AuthTokens -> Row] /\ loggedOut' \subseteq AuthTokens /\ UNCHANGED request
    <3>0. authSessions[t] \in Row
      BY <1>0
    <3>1. [authSessions[t] EXCEPT !.expired = TRUE] \in Row
      BY <3>0
    <3>2. [authSessions[t] EXCEPT !.revoked = TRUE] \in Row
      BY <3>0
    <3>3. /\ \/ authSessions' = [authSessions EXCEPT ![t] = [authSessions[t] EXCEPT !.expired = TRUE]]
             \/ authSessions' = [authSessions EXCEPT ![t] = [authSessions[t] EXCEPT !.revoked = TRUE]]
          /\ loggedOut' = loggedOut \/ loggedOut' = loggedOut \cup {t}
          /\ UNCHANGED request
      BY <2>2 DEF SessionExpires, Logout
    <3> HIDE DEF Row
    <3> QED
      BY <1>0, <3>1, <3>2, <3>3 DEF AccessTypeOK
  <2> QED
    BY <2>1, <2>2 DEF SessionStep
<1> QED
  BY <1>1 DEF AccessTypeOK

LEMMA PurgeKeeps ==
    ASSUME RetentionInv, NEW selected \in SUBSET Policies, NEW age \in Ages, Execute(selected, age)
    PROVE  RetentionInv'
<1> DEFINE b == Beyond(age, selected)
           run == [mode |-> "execute", deleted |-> Counts(b)]
<1>0. /\ b.tokens \subseteq AuthTokens /\ b.inactive \subseteq Chats
      /\ \A c \in b.inactive : ~chatting[c]
      /\ \A p \in SimplePolicies :
            /\ b.rows[p].open \in Nat /\ b.rows[p].over \in Nat
            /\ b.rows[p].open <= rows[p].open /\ b.rows[p].over <= rows[p].over
  BY TakenIsOld DEF DeadTokens, InactiveChats
<1>1. Counts(b) \in [Counted -> Nat]
  BY CountsAreNaturals
<1>2. /\ Len(retentionRuns) < MaxRuns
      /\ authSessions' = [t \in AuthTokens |-> IF t \in b.tokens THEN NoSession ELSE authSessions[t]]
      /\ chats' = [c \in Chats |-> IF c \in b.inactive THEN [there |-> FALSE, messages |-> 0] ELSE chats[c]]
      /\ rows' = [p \in SimplePolicies |->
                     [open |-> rows[p].open - b.rows[p].open, over |-> rows[p].over - b.rows[p].over]]
      /\ retentionRuns' = Append(retentionRuns, run)
      /\ purgeAudits' = purgeAudits + 1
      /\ loggedOut' = loggedOut \cup b.tokens
      /\ UNCHANGED <<request, chatting, preview, plan>>
  BY DEF Execute
<1>3. gone' = [c \in Counted |-> gone[c] + Counts(b)[c]]
  BY DEF Execute, Counts
<1> HIDE DEF b, run
<1>4. /\ AccessTypeOK /\ chats \in [Chats -> [there : BOOLEAN, messages : 0..MaxMessages]]
      /\ rows \in [SimplePolicies -> [open : 0..MaxMessages, over : 0..MaxMessages]]
      /\ purgeAudits \in 0..MaxRuns /\ gone \in [Counted -> Nat]
      /\ retentionRuns \in Seq(Runs) /\ Len(retentionRuns) \in Nat /\ MaxMessages \in Nat /\ MaxRuns \in Nat
  BY RetentionAssumption DEF RetentionInv, PurgesAreClean, RetentionTypeOK, RunsOnRecord
<1>5. run \in Runs /\ run.mode = "execute" /\ run.deleted = Counts(b)
  BY <1>1 DEF run, Runs
<1>6. retentionRuns' \in Seq(Runs) /\ Len(retentionRuns') <= MaxRuns
  BY <1>2, <1>4, <1>5
<1>7. RunsOnRecord'
  BY <1>6 DEF RunsOnRecord
<1>8. AccessTypeOK'
  BY <1>0, <1>2, <1>4 DEF AccessTypeOK, NoSession
<1>9. chats' \in [Chats -> [there : BOOLEAN, messages : 0..MaxMessages]]
  BY <1>2, <1>4
<1>10. /\ rows' \in [SimplePolicies -> [open : 0..MaxMessages, over : 0..MaxMessages]]
       /\ RowsWithinBound'
  <2>1. ASSUME NEW p \in SimplePolicies
        PROVE  /\ rows'[p] \in [open : 0..MaxMessages, over : 0..MaxMessages]
               /\ rows'[p].open + rows'[p].over <= MaxMessages
    <3>1. rows'[p] = [open |-> rows[p].open - b.rows[p].open, over |-> rows[p].over - b.rows[p].over]
      BY <1>2
    <3>2. /\ rows[p].open \in 0..MaxMessages /\ rows[p].over \in 0..MaxMessages
          /\ rows[p].open + rows[p].over <= MaxMessages
      BY <1>4 DEF RetentionInv, RowsWithinBound
    <3> QED
      BY <1>0, <1>4, <3>1, <3>2
  <2> QED
    BY <1>2, <2>1 DEF RowsWithinBound
<1>11. ChatsInv'
  BY <1>0, <1>2, <1>4 DEF RetentionInv, ChatsInv
<1>12. NoOrphanMessages'
  <2>1. Orphans' = {}
    BY <1>11, <1>9, <1>4 DEF Orphans, ChatsInv
  <2> QED
    BY <1>2, <2>1 DEF RetentionInv, PurgesAreClean, NoOrphanMessages
<1>13. PurgesAreAccounted'
  <2>1. ASSUME NEW c \in Counted
        PROVE  gone'[c] = Deleted(retentionRuns', c)
    <3>1. gone[c] = Deleted(retentionRuns, c)
      BY DEF RetentionInv, PurgesAreClean, PurgesAreAccounted, Deleted
    <3>2. gone'[c] = gone[c] + run.deleted[c]
      BY <1>3, <1>5
    <3> QED
      BY <1>2, <1>4, <1>5, <3>1, <3>2, DeletedSoFar
  <2>2. purgeAudits' = Purges(retentionRuns')
    <3>1. purgeAudits = Purges(retentionRuns)
      BY DEF RetentionInv, PurgesAreClean, PurgesAreAccounted, Purges
    <3> QED
      BY <1>2, <1>4, <1>5, <3>1, PurgesSoFar
  <2> QED
    BY <2>1, <2>2 DEF PurgesAreAccounted, Purges, Deleted
<1>14. purgeAudits' \in 0..MaxRuns
  <2>1. purgeAudits <= Len(retentionRuns)
    <3>1. purgeAudits = Purges(retentionRuns)
      BY DEF RetentionInv, PurgesAreClean, PurgesAreAccounted, Purges
    <3> QED
      BY <1>4, <1>5, <3>1, PurgesSoFar
  <2> QED
    BY <1>2, <1>4, <2>1
<1>15. RetentionTypeOK'
  <2>1. \A n \in DOMAIN retentionRuns' : retentionRuns'[n].mode \in {"preview", "execute"}
    <3>1. \A n \in DOMAIN retentionRuns' : retentionRuns'[n] \in Runs
      BY <1>6
    <3> QED
      BY <3>1 DEF Runs
  <2>2. gone' \in [Counted -> Nat]
    BY <1>1, <1>3, <1>4
  <2> QED
    BY <1>2, <1>8, <1>9, <1>10, <1>14, <2>1, <2>2 DEF RetentionTypeOK, RetentionInv, PurgesAreClean
<1> QED
  BY <1>7, <1>10, <1>11, <1>12, <1>13, <1>15 DEF RetentionInv, PurgesAreClean

\* A chat, a table, a preview or a plan moves on; the records stay.
LEMMA RecordsStand ==
    ASSUME RetentionInv, UNCHANGED <<retentionRuns, purgeAudits, gone>>
    PROVE  /\ PurgesAreAccounted' /\ RunsOnRecord'
           /\ (\A n \in DOMAIN retentionRuns : retentionRuns[n].mode \in {"preview", "execute"})'
           /\ purgeAudits' \in 0..MaxRuns /\ gone' \in [Counted -> Nat]
BY DEF RetentionInv, PurgesAreClean, RetentionTypeOK, PurgesAreAccounted, RunsOnRecord

LEMMA ChatsKeep ==
    ASSUME RetentionInv, NEW c \in Chats, TouchChat(c) \/ AppendToChat(c) \/ LeaveChat(c)
    PROVE  RetentionInv'
<1> DEFINE Chat == [there : BOOLEAN, messages : 0..MaxMessages]
<1>0. /\ chats \in [Chats -> Chat] /\ chatting \in [Chats -> BOOLEAN] /\ MaxMessages \in Nat
      /\ \A d \in Chats : (chatting[d] => chats[d].there) /\ (~chats[d].there => chats[d].messages = 0)
  BY RetentionAssumption DEF RetentionInv, PurgesAreClean, RetentionTypeOK, ChatsInv
<1>1. UNCHANGED <<accessVars, rows, retentionRuns, purgeAudits, preview, plan, gone>>
  BY DEF TouchChat, AppendToChat, LeaveChat
<1>2. /\ chats' \in [Chats -> Chat] /\ chatting' \in [Chats -> BOOLEAN]
      /\ \A d \in Chats : (chatting'[d] => chats'[d].there) /\ (~chats'[d].there => chats'[d].messages = 0)
  <2>1. CASE TouchChat(c)
    <3>1. [chats[c] EXCEPT !.there = TRUE] \in Chat
      BY <1>0
    <3> QED
      BY <1>0, <2>1, <3>1 DEF TouchChat
  <2>2. CASE AppendToChat(c)
    <3>1. [chats[c] EXCEPT !.messages = @ + 1] \in Chat
      BY <1>0, <2>2 DEF AppendToChat
    <3> QED
      BY <1>0, <2>2, <3>1 DEF AppendToChat
  <2>3. CASE LeaveChat(c)
    BY <1>0, <2>3 DEF LeaveChat
  <2> QED
    BY <2>1, <2>2, <2>3
<1>3. Orphans' = {}
  BY <1>2 DEF Orphans
<1>4. AccessTypeOK' /\ RowsWithinBound'
  BY <1>1 DEF RetentionInv, PurgesAreClean, RetentionTypeOK, AccessTypeOK, accessVars, RowsWithinBound
<1>5. RetentionTypeOK'
  BY <1>1, <1>2, <1>4, RecordsStand DEF RetentionInv, PurgesAreClean, RetentionTypeOK
<1> QED
  BY <1>1, <1>2, <1>3, <1>4, <1>5, RecordsStand
  DEF RetentionInv, PurgesAreClean, NoOrphanMessages, ChatsInv

LEMMA RowsKeep ==
    ASSUME RetentionInv, NEW p \in SimplePolicies, RowOpens(p) \/ RowFinishes(p)
    PROVE  RetentionInv'
<1> DEFINE Table == [open : 0..MaxMessages, over : 0..MaxMessages]
<1>0. rows \in [SimplePolicies -> Table] /\ MaxMessages \in Nat /\ rows[p].open + rows[p].over <= MaxMessages
  BY RetentionAssumption DEF RetentionInv, PurgesAreClean, RetentionTypeOK, RowsWithinBound
<1>1. UNCHANGED <<accessVars, chats, chatting, retentionRuns, purgeAudits, preview, plan, gone>>
  BY DEF RowOpens, RowFinishes
<1>2. PICK t \in Table : rows' = [rows EXCEPT ![p] = t] /\ t.open + t.over <= MaxMessages
  <2>1. CASE RowOpens(p)
    <3> DEFINE t == [rows[p] EXCEPT !.open = @ + 1]
    <3>1. t \in Table /\ t.open + t.over <= MaxMessages
      BY <1>0, <2>1 DEF RowOpens
    <3>2. rows' = [rows EXCEPT ![p] = t]
      BY <2>1 DEF RowOpens
    <3> QED
      BY <3>1, <3>2
  <2>2. CASE RowFinishes(p)
    <3> DEFINE t == [open |-> rows[p].open - 1, over |-> rows[p].over + 1]
    <3>1. t \in Table /\ t.open + t.over <= MaxMessages
      BY <1>0, <2>2 DEF RowFinishes
    <3>2. rows' = [rows EXCEPT ![p] = t]
      BY <2>2 DEF RowFinishes
    <3> QED
      BY <3>1, <3>2
  <2> QED
    BY <2>1, <2>2
<1>3. rows' \in [SimplePolicies -> Table] /\ RowsWithinBound'
  BY <1>0, <1>2 DEF RetentionInv, RowsWithinBound
<1>4. AccessTypeOK' /\ ChatsInv' /\ NoOrphanMessages'
  BY <1>1 DEF RetentionInv, PurgesAreClean, RetentionTypeOK, AccessTypeOK, accessVars, ChatsInv, NoOrphanMessages, Orphans
<1>5. RetentionTypeOK'
  BY <1>1, <1>3, <1>4, RecordsStand DEF RetentionInv, PurgesAreClean, RetentionTypeOK
<1> QED
  BY <1>1, <1>3, <1>4, <1>5, RecordsStand DEF RetentionInv, PurgesAreClean

LEMMA PreviewsKeep ==
    ASSUME RetentionInv, RecordPreview
    PROVE  RetentionInv'
<1> DEFINE run == [mode |-> "preview", deleted |-> Nothing]
<1>1. /\ Len(retentionRuns) < MaxRuns /\ preview' = "idle" /\ retentionRuns' = Append(retentionRuns, run)
      /\ UNCHANGED <<accessVars, chats, chatting, rows, purgeAudits, plan, gone>>
  BY DEF RecordPreview
<1>2. run \in Runs /\ run.mode = "preview" /\ \A c \in Counted : run.deleted[c] = 0
  BY DEF Runs, Nothing
<1> HIDE DEF run
<1>3. /\ retentionRuns \in Seq(Runs) /\ Len(retentionRuns) \in Nat /\ MaxRuns \in Nat /\ gone \in [Counted -> Nat]
  BY RetentionAssumption DEF RetentionInv, PurgesAreClean, RetentionTypeOK, RunsOnRecord
<1>4. retentionRuns' \in Seq(Runs) /\ Len(retentionRuns') <= MaxRuns
  BY <1>1, <1>2, <1>3
<1>5. \A n \in DOMAIN retentionRuns' : retentionRuns'[n].mode \in {"preview", "execute"}
  <2>1. \A n \in DOMAIN retentionRuns' : retentionRuns'[n] \in Runs
    BY <1>4
  <2> QED
    BY <2>1 DEF Runs
<1>6. PurgesAreAccounted'
  <2>1. \A c \in Counted : gone[c] = Deleted(retentionRuns, c) /\ purgeAudits = Purges(retentionRuns)
    BY DEF RetentionInv, PurgesAreClean, PurgesAreAccounted, Deleted, Purges
  <2>2. purgeAudits = Purges(retentionRuns)
    BY DEF RetentionInv, PurgesAreClean, PurgesAreAccounted, Purges
  <2>3. \A c \in Counted : gone'[c] = Deleted(retentionRuns', c)
    BY <1>1, <1>2, <1>3, <2>1, DeletedSoFar
  <2>4. purgeAudits' = Purges(retentionRuns')
    BY <1>1, <1>2, <1>3, <2>2, PurgesSoFar
  <2> QED
    BY <2>3, <2>4 DEF PurgesAreAccounted, Deleted, Purges
<1>7. AccessTypeOK' /\ ChatsInv' /\ NoOrphanMessages' /\ RowsWithinBound'
  BY <1>1 DEF RetentionInv, PurgesAreClean, RetentionTypeOK, AccessTypeOK, accessVars, ChatsInv, NoOrphanMessages,
              Orphans, RowsWithinBound
<1>8. RetentionTypeOK'
  BY <1>1, <1>5, <1>7 DEF RetentionInv, PurgesAreClean, RetentionTypeOK
<1> QED
  BY <1>4, <1>6, <1>7, <1>8 DEF RetentionInv, PurgesAreClean, RunsOnRecord

LEMMA QuietStepsKeep ==
    ASSUME RetentionInv, \/ StartPreview \/ ReadSchema \/ WritePlan \/ SignInStep \/ UNCHANGED retentionVars
    PROVE  RetentionInv'
<1>1. AccessTypeOK'
  <2>1. CASE SignInStep
    BY <2>1, SessionsTyped DEF SignInStep, RetentionInv, PurgesAreClean, RetentionTypeOK
  <2>2. CASE UNCHANGED accessVars
    BY <2>2 DEF RetentionInv, PurgesAreClean, RetentionTypeOK, AccessTypeOK, accessVars
  <2> QED
    BY <2>1, <2>2 DEF StartPreview, ReadSchema, WritePlan, retentionVars
<1>2. UNCHANGED <<chats, chatting, rows, retentionRuns, purgeAudits, gone>>
  BY DEF StartPreview, ReadSchema, WritePlan, SignInStep, retentionVars
<1>3. /\ preview' \in {"idle", "record"} /\ plan' \in {"idle", "orphans", "written", "refused"}
      /\ plan' # "refused"
  BY DEF StartPreview, ReadSchema, WritePlan, SignInStep, retentionVars,
         RetentionInv, PurgesAreClean, RetentionTypeOK, NoOrphanMessages
<1>4. ChatsInv' /\ RowsWithinBound' /\ NoOrphanMessages'
  BY <1>2, <1>3 DEF RetentionInv, PurgesAreClean, ChatsInv, RowsWithinBound, NoOrphanMessages, Orphans
<1>5. RetentionTypeOK'
  BY <1>1, <1>2, <1>3, RecordsStand DEF RetentionInv, PurgesAreClean, RetentionTypeOK
<1> QED
  BY <1>2, <1>4, <1>5, RecordsStand DEF RetentionInv, PurgesAreClean

LEMMA RetentionInvariant == RetentionSpec => []RetentionInv
<1>1. RetentionInit => RetentionInv
  <2> SUFFICES ASSUME RetentionInit PROVE RetentionInv
    OBVIOUS
  <2>1. AccessTypeOK
    <3>1. NoRequest.role \in Roles
      BY DEF NoRequest, Roles, Ranks
    <3> QED
      BY <3>1 DEF RetentionInit, AccessInit, AccessTypeOK, NoSession, NoRequest, Doors
  <2>2. RetentionTypeOK
    BY <2>1, RetentionAssumption DEF RetentionInit, RetentionTypeOK, Nothing
  <2>3. PurgesAreAccounted
    <3>1. \A w : DOMAIN w = {} => SumFunction(w) = 0
      BY SumOfNone DEF SumFunction
    <3>2. DOMAIN retentionRuns = {}
      BY DEF RetentionInit
    <3>3. \A c \in Counted : SumFunction([n \in DOMAIN retentionRuns |-> retentionRuns[n].deleted[c]]) = 0
      BY <3>1, <3>2
    <3>4. {n \in DOMAIN retentionRuns : retentionRuns[n].mode = "execute"} = {}
      BY <3>2
    <3> QED
      BY <3>3, <3>4, FS_EmptySet DEF RetentionInit, PurgesAreAccounted, Nothing
  <2>4. NoOrphanMessages /\ ChatsInv /\ RowsWithinBound /\ RunsOnRecord
    BY RetentionAssumption
    DEF RetentionInit, NoOrphanMessages, Orphans, ChatsInv, RowsWithinBound, RunsOnRecord
  <2> QED
    BY <2>2, <2>3, <2>4 DEF RetentionInv, PurgesAreClean
<1>2. RetentionInv /\ [RetentionNext]_retentionVars => RetentionInv'
  BY ChatsKeep, RowsKeep, PreviewsKeep, PurgeKeeps, QuietStepsKeep DEF RetentionNext, RetentionStep
<1> QED
  BY <1>1, <1>2, PTL DEF RetentionSpec

\* Purging leaves no loose ends and no unexplained gaps, with any number of chats,
\* policies, rows and purges: no message without its chat, no migration plan
\* refused for one, and every table's losses add up to what the runs say.
THEOREM CleanPurges == RetentionSpec => []PurgesAreClean
BY RetentionInvariant, PTL DEF RetentionInv

\* The purge spares what is in use: a session that still opens doors, a chat with
\* a request under way, a tool call or task that is not over.
THEOREM SparingPurges == RetentionSpec => PurgeSparesTheLiving
<1> DEFINE Spares ==
      Len(retentionRuns') > Len(retentionRuns) =>
          /\ \A t \in AuthTokens : Honoured(t) => Honoured(t)'
          /\ \A c \in Chats : chatting[c] => chats'[c] = chats[c]
          /\ \A p \in SimplePolicies \cap Statused : rows'[p].open = rows[p].open
<1>1. ASSUME RetentionInv, [RetentionNext]_retentionVars
      PROVE  Spares
  <2>0. \A p \in SimplePolicies : rows[p].open \in Nat
    BY <1>1, RetentionAssumption DEF RetentionInv, PurgesAreClean, RetentionTypeOK
  <2>1. ASSUME NEW selected \in SUBSET Policies, NEW age \in Ages, Execute(selected, age)
        PROVE  Spares
    <3> DEFINE b == Beyond(age, selected)
    <3>1. /\ b.tokens \in SUBSET DeadTokens /\ b.inactive \in SUBSET InactiveChats
          /\ \A p \in SimplePolicies \cap Statused : b.rows[p].open = 0
      BY <1>1, TakenIsOld
    <3>2. /\ authSessions' = [t \in AuthTokens |-> IF t \in b.tokens THEN NoSession ELSE authSessions[t]]
          /\ chats' = [c \in Chats |-> IF c \in b.inactive THEN [there |-> FALSE, messages |-> 0] ELSE chats[c]]
          /\ rows' = [p \in SimplePolicies |->
                         [open |-> rows[p].open - b.rows[p].open, over |-> rows[p].over - b.rows[p].over]]
      BY <2>1 DEF Execute
    <3> HIDE DEF b
    <3>3. \A t \in AuthTokens : Honoured(t) => Honoured(t)'
      BY <3>1, <3>2 DEF DeadTokens, Honoured
    <3>4. \A c \in Chats : chatting[c] => chats'[c] = chats[c]
      BY <3>1, <3>2 DEF InactiveChats
    <3>5. \A p \in SimplePolicies \cap Statused : rows'[p].open = rows[p].open
      BY <2>0, <3>1, <3>2
    <3> QED
      BY <3>3, <3>4, <3>5
  <2>2. CASE RecordPreview
    <3>1. UNCHANGED <<accessVars, chats, rows>>
      BY <2>2 DEF RecordPreview
    <3> QED
      BY <3>1 DEF accessVars, Honoured
  <2>3. CASE UNCHANGED retentionRuns
    <3>1. ~(Len(retentionRuns') > Len(retentionRuns))
      BY <1>1, <2>3 DEF RetentionInv, RunsOnRecord
    <3> QED
      BY <3>1
  <2> QED
    BY <1>1, <2>1, <2>2, <2>3
    DEF RetentionNext, RetentionStep, TouchChat, AppendToChat, LeaveChat, RowOpens, RowFinishes, StartPreview,
        ReadSchema, WritePlan, SignInStep, retentionVars
<1> QED
  BY <1>1, RetentionInvariant, PTL DEF RetentionSpec, PurgeSparesTheLiving

-----------------------------------------------------------------------------
(***************************************************************************)
(* Backups.  What is on disk is what was exported; a request carries what  *)
(* the next step of it relies on.                                          *)
(***************************************************************************)
Kept(b) == archives[b].file \in {"whole", "damaged"}

\* An archive that was written in full is the export, with its counts.
ArchivesAreExports ==
    \A b \in Backups : Kept(b) =>
        archives[b].holds = exported[b] /\ archives[b].counts = TableCounts(exported[b])

\* The operator that creates b.
Creates(o, b) == operators[o].pc \in {"archive", "write"} /\ operators[o].backup = b

CreatorsInv ==
    \A o \in Operators, b \in Backups : Creates(o, b) =>
        /\ operators[o].holds = exported[b] /\ operators[o].counts = TableCounts(exported[b])
        /\ ~Kept(b)
        /\ \A p \in Operators : Creates(p, b) => p = o

\* Past its check a request relies on a backup that stays, past its record on a
\* verification, and before it replaces the target on a hidden file of its own.
RequestsInv ==
    \A o \in Operators :
        LET op == operators[o] b == op.backup
        IN /\ op.pc = "record" => Kept(b) /\ op.counts = TableCounts(exported[b])
           /\ op.pc \in {"import", "count", "replace"} => <<b, TableCounts(exported[b])>> \in verifications
           /\ op.pc = "replace" => op.hidden.file = "whole" /\ op.hidden.holds = exported[b]

\* A request under way is about some backup.
Addressed == \A o \in Operators : operators[o].pc # "idle" => operators[o].backup \in Backups

RowsInv == \A v \in verifications : Kept(v[1]) /\ v[2] = TableCounts(exported[v[1]])

BackupInv ==
    /\ BackupTypeOK /\ Addressed /\ ArchivesAreExports /\ CreatorsInv /\ RequestsInv /\ RowsInv
    /\ RestoredIsSnapshot

-----------------------------------------------------------------------------
LEMMA NothingYet ==
    /\ Empty \in Contents /\ NoArchive \in Archives /\ NoFile \in Files
    /\ NoOperation \in Operations /\ NoOperation.pc = "idle" /\ NoArchive.file = "none" /\ NoFile.file = "none"
BY DEF Empty, Contents, NoArchive, Archives, NoFile, Files, NoOperation, Operations

\* An operator that goes on leaves the others where they are.
LEMMA GoesOn ==
    ASSUME BackupTypeOK, NEW o \in Operators, NEW q \in Operations, Go(o, q)
    PROVE  /\ operators' \in [Operators -> Operations]
           /\ operators'[o] = q
           /\ \A p \in Operators : p # o => operators'[p] = operators[p]
BY DEF BackupTypeOK, Go

\* The archives a step leaves alone stay what they are to the requests.
LEMMA ExportKeeps ==
    ASSUME BackupInv, NEW o \in Operators, NEW b \in Backups, Export(o, b)
    PROVE  BackupInv'
<1>0. BackupTypeOK /\ content \in Contents /\ archives \in [Backups -> Archives]
  BY DEF BackupInv, BackupTypeOK
<1>1. TableCounts(content) \in Nat
  BY <1>0 DEF TableCounts, Contents
<1> DEFINE q == [NoOperation EXCEPT !.op = "create", !.pc = "archive", !.backup = b,
                                    !.holds = content, !.counts = TableCounts(content)]
<1>2. q \in Operations /\ q.pc = "archive" /\ q.backup = b /\ q.holds = content /\ q.counts = TableCounts(content)
  BY <1>0, <1>1, NothingYet DEF NoOperation, Operations
<1>3. Go(o, q) /\ ~Kept(b) /\ \A p \in Operators : operators[p].backup # b
  BY DEF Export, Fresh, Kept
<1> HIDE DEF q
<1>4. /\ operators' \in [Operators -> Operations] /\ operators'[o] = q
      /\ \A p \in Operators : p # o => operators'[p] = operators[p]
  BY <1>0, <1>2, <1>3, GoesOn
<1>5. /\ exported' = [exported EXCEPT ![b] = content]
      /\ UNCHANGED <<content, archives, verifications, target, damages>>
  BY DEF Export
<1>6. BackupTypeOK'
  BY <1>0, <1>4, <1>5 DEF BackupTypeOK
<1>7. exported'[b] = content /\ \A c \in Backups : c # b => exported'[c] = exported[c]
  BY <1>0, <1>5 DEF BackupTypeOK
<1>8. Addressed'
  BY <1>2, <1>4 DEF BackupInv, Addressed
<1>9. ArchivesAreExports'
  BY <1>3, <1>5, <1>7 DEF BackupInv, ArchivesAreExports, Kept
<1>10. CreatorsInv'
  BY <1>2, <1>3, <1>4, <1>5, <1>7 DEF BackupInv, CreatorsInv, Creates, Kept
<1>11. RequestsInv'
  BY <1>2, <1>3, <1>4, <1>5, <1>7 DEF BackupInv, RequestsInv, Addressed, Kept
<1>12. RowsInv'
  BY <1>0, <1>3, <1>5, <1>7 DEF BackupInv, RowsInv, Kept, BackupTypeOK
<1>13. RestoredIsSnapshot'
  <2>1. ASSUME NEW c \in Backups, <<c, TableCounts(exported[c])>> \in verifications
        PROVE  c # b
    BY <1>3, <2>1 DEF BackupInv, RowsInv, Kept
  <2>2. \A c \in Backups : <<c, TableCounts(exported[c])>> \in verifications =>
            exported'[c] = exported[c] /\ TableCounts(exported'[c]) = TableCounts(exported[c])
    BY <1>7, <2>1
  <2>3. target' = target /\ verifications' = verifications
    BY <1>5
  <2> QED
    BY <2>2, <2>3 DEF BackupInv, RestoredIsSnapshot
<1> QED
  BY <1>6, <1>8, <1>9, <1>10, <1>11, <1>12, <1>13 DEF BackupInv

LEMMA OpenKeeps ==
    ASSUME BackupInv, NEW o \in Operators, OpenArchive(o)
    PROVE  BackupInv'
<1> DEFINE r == operators[o]
           a == archives[r.backup]
<1>0. /\ BackupTypeOK /\ content \in Contents /\ archives \in [Backups -> Archives]
      /\ target \in Files /\ damages \in 0..MaxDamages
      /\ r \in Operations /\ r.counts \in Nat /\ r.holds \in Contents /\ r.hidden \in Files
      /\ r.pc # "idle" => r.backup \in Backups /\ a \in Archives /\ a.holds \in Contents /\ TableCounts(a.holds) \in Nat
  BY DEF BackupInv, BackupTypeOK, Operations, Addressed, Archives, TableCounts, Contents
<1> DEFINE q == [r EXCEPT !.pc = "write"]
<1>1. Go(o, q) /\ r.pc = "archive"
  BY DEF OpenArchive, At
<1>2. q \in Operations /\ q.pc = "write" /\ q.backup = r.backup /\ q.holds = r.holds /\ q.counts = r.counts
  BY <1>0 DEF Operations
<1> HIDE DEF q
<1>4. /\ operators' \in [Operators -> Operations] /\ operators'[o] = q
      /\ \A p \in Operators : p # o => operators'[p] = operators[p]
  BY <1>0, <1>1, <1>2, GoesOn
<1>5. UNCHANGED <<content, verifications, target, exported, damages>>
      /\ archives' = [archives EXCEPT ![r.backup] = [NoArchive EXCEPT !.file = "partial"]]
  BY DEF OpenArchive
<1>6. /\ archives' \in [Backups -> Archives] /\ archives'[r.backup].file = "partial"
      /\ \A b \in Backups : b # r.backup => archives'[b] = archives[b]
      /\ ~Kept(r.backup)
  BY <1>0, <1>1, <1>5, NothingYet DEF NoArchive, Archives, BackupInv, CreatorsInv, Creates
<1>7. BackupTypeOK'
  BY <1>0, <1>1, <1>2, <1>4, <1>5, <1>6 DEF BackupTypeOK
<1>8. Addressed'
  BY <1>0, <1>1, <1>2, <1>4, <1>5, <1>6 DEF BackupInv, Addressed
<1>9. ArchivesAreExports'
  BY <1>0, <1>1, <1>2, <1>4, <1>5, <1>6 DEF BackupInv, ArchivesAreExports, Kept, CreatorsInv, Creates
<1>10. CreatorsInv'
  BY <1>0, <1>1, <1>2, <1>4, <1>5, <1>6 DEF BackupInv, CreatorsInv, Creates, Kept, RequestsInv
<1>11. RequestsInv'
  BY <1>0, <1>1, <1>2, <1>4, <1>5, <1>6 DEF BackupInv, RequestsInv, Addressed, Kept, CreatorsInv, Creates
<1>12. RowsInv'
  BY <1>0, <1>1, <1>2, <1>4, <1>5, <1>6 DEF BackupInv, RowsInv, Kept, BackupTypeOK, RequestsInv, CreatorsInv, Creates
<1>13. RestoredIsSnapshot'
  BY <1>0, <1>1, <1>2, <1>4, <1>5, <1>6 DEF BackupInv, RestoredIsSnapshot, RequestsInv
<1> QED
  BY <1>7, <1>8, <1>9, <1>10, <1>11, <1>12, <1>13 DEF BackupInv

LEMMA WriteWholeKeeps ==
    ASSUME BackupInv, NEW o \in Operators, At(o, "write"), Go(o, [operators[o] EXCEPT !.pc = "check"]),
           archives' = [archives EXCEPT ![operators[o].backup] = [file |-> "whole", holds |-> operators[o].holds,
                                                       counts |-> ManifestCounts(operators[o])]],
           UNCHANGED <<content, verifications, target, exported, damages>>
    PROVE  BackupInv'
<1> DEFINE r == operators[o]
           a == archives[r.backup]
<1>0. /\ BackupTypeOK /\ content \in Contents /\ archives \in [Backups -> Archives]
      /\ target \in Files /\ damages \in 0..MaxDamages
      /\ r \in Operations /\ r.counts \in Nat /\ r.holds \in Contents /\ r.hidden \in Files
      /\ r.pc # "idle" => r.backup \in Backups /\ a \in Archives /\ a.holds \in Contents /\ TableCounts(a.holds) \in Nat
  BY DEF BackupInv, BackupTypeOK, Operations, Addressed, Archives, TableCounts, Contents
<1> DEFINE q == [r EXCEPT !.pc = "check"]
<1>1. Go(o, q) /\ r.pc = "write"
  BY DEF At
<1>2. q \in Operations /\ q.pc = "check" /\ q.backup = r.backup
  BY <1>0 DEF Operations
<1> HIDE DEF q
<1>4. /\ operators' \in [Operators -> Operations] /\ operators'[o] = q
      /\ \A p \in Operators : p # o => operators'[p] = operators[p]
  BY <1>0, <1>1, <1>2, GoesOn
<1>5. UNCHANGED <<content, verifications, target, exported, damages>>
  BY DEF At
<1>6. /\ archives' \in [Backups -> Archives] /\ archives'[r.backup].file = "whole"
      /\ archives'[r.backup].holds = exported[r.backup] /\ archives'[r.backup].counts = TableCounts(exported[r.backup])
      /\ \A b \in Backups : b # r.backup => archives'[b] = archives[b]
      /\ ~Kept(r.backup) /\ \A p \in Operators : Creates(p, r.backup) => p = o
  BY <1>0, <1>1, <1>5 DEF ManifestCounts, Archives, BackupInv, CreatorsInv, Creates
<1>7. BackupTypeOK'
  BY <1>0, <1>1, <1>2, <1>4, <1>5, <1>6 DEF BackupTypeOK
<1>8. Addressed'
  BY <1>0, <1>1, <1>2, <1>4, <1>5, <1>6 DEF BackupInv, Addressed
<1>9. ArchivesAreExports'
  BY <1>0, <1>1, <1>2, <1>4, <1>5, <1>6 DEF BackupInv, ArchivesAreExports, Kept, CreatorsInv, Creates
<1>10. CreatorsInv'
  BY <1>0, <1>1, <1>2, <1>4, <1>5, <1>6 DEF BackupInv, CreatorsInv, Creates, Kept, RequestsInv
<1>11. RequestsInv'
  BY <1>0, <1>1, <1>2, <1>4, <1>5, <1>6 DEF BackupInv, RequestsInv, Addressed, Kept, CreatorsInv, Creates
<1>12. RowsInv'
  BY <1>0, <1>1, <1>2, <1>4, <1>5, <1>6 DEF BackupInv, RowsInv, Kept, BackupTypeOK, RequestsInv, CreatorsInv, Creates
<1>13. RestoredIsSnapshot'
  BY <1>0, <1>1, <1>2, <1>4, <1>5, <1>6 DEF BackupInv, RestoredIsSnapshot, RequestsInv
<1> QED
  BY <1>7, <1>8, <1>9, <1>10, <1>11, <1>12, <1>13 DEF BackupInv

LEMMA WriteRaisedKeeps ==
    ASSUME BackupInv, NEW o \in Operators, At(o, "write"), Go(o, NoOperation),
           archives' = [archives EXCEPT ![operators[o].backup] = NoArchive], damages' \in 0..MaxDamages,
           UNCHANGED <<content, verifications, target, exported>>
    PROVE  BackupInv'
<1> DEFINE r == operators[o]
           a == archives[r.backup]
<1>0. /\ BackupTypeOK /\ content \in Contents /\ archives \in [Backups -> Archives]
      /\ target \in Files /\ damages \in 0..MaxDamages
      /\ r \in Operations /\ r.counts \in Nat /\ r.holds \in Contents /\ r.hidden \in Files
      /\ r.pc # "idle" => r.backup \in Backups /\ a \in Archives /\ a.holds \in Contents /\ TableCounts(a.holds) \in Nat
  BY DEF BackupInv, BackupTypeOK, Operations, Addressed, Archives, TableCounts, Contents
<1> DEFINE q == NoOperation
<1>1. Go(o, q) /\ r.pc = "write"
  BY DEF At
<1>2. q \in Operations /\ q.pc = "idle"
  BY NothingYet
<1> HIDE DEF q
<1>4. /\ operators' \in [Operators -> Operations] /\ operators'[o] = q
      /\ \A p \in Operators : p # o => operators'[p] = operators[p]
  BY <1>0, <1>1, <1>2, GoesOn
<1>5. UNCHANGED <<content, verifications, target, exported>> /\ damages' \in 0..MaxDamages
  BY DEF At
<1>6. /\ archives' \in [Backups -> Archives] /\ archives'[r.backup].file = "none"
      /\ \A b \in Backups : b # r.backup => archives'[b] = archives[b]
      /\ ~Kept(r.backup)
  BY <1>0, <1>1, <1>5, NothingYet DEF BackupInv, CreatorsInv, Creates
<1>7. BackupTypeOK'
  BY <1>0, <1>1, <1>2, <1>4, <1>5, <1>6 DEF BackupTypeOK
<1>8. Addressed'
  BY <1>0, <1>1, <1>2, <1>4, <1>5, <1>6 DEF BackupInv, Addressed
<1>9. ArchivesAreExports'
  BY <1>0, <1>1, <1>2, <1>4, <1>5, <1>6 DEF BackupInv, ArchivesAreExports, Kept, CreatorsInv, Creates
<1>10. CreatorsInv'
  BY <1>0, <1>1, <1>2, <1>4, <1>5, <1>6 DEF BackupInv, CreatorsInv, Creates, Kept, RequestsInv
<1>11. RequestsInv'
  BY <1>0, <1>1, <1>2, <1>4, <1>5, <1>6 DEF BackupInv, RequestsInv, Addressed, Kept, CreatorsInv, Creates
<1>12. RowsInv'
  BY <1>0, <1>1, <1>2, <1>4, <1>5, <1>6 DEF BackupInv, RowsInv, Kept, BackupTypeOK, RequestsInv, CreatorsInv, Creates
<1>13. RestoredIsSnapshot'
  BY <1>0, <1>1, <1>2, <1>4, <1>5, <1>6 DEF BackupInv, RestoredIsSnapshot, RequestsInv
<1> QED
  BY <1>7, <1>8, <1>9, <1>10, <1>11, <1>12, <1>13 DEF BackupInv

\* What a request past its export needs to go on: nothing of another request.
LEMMA RequestMoves ==
    ASSUME BackupInv, NEW o \in Operators, NEW q \in Operations, Go(o, q),
           UNCHANGED <<archives, exported>>, verifications \subseteq verifications',
           content' \in Contents, target' \in Files, damages' \in 0..MaxDamages,
           verifications' \subseteq Backups \X Nat, RowsInv', RestoredIsSnapshot',
           q.pc # "idle" => q.backup \in Backups,
           q.pc \notin {"archive", "write"},
           q.pc = "record" => Kept(q.backup) /\ q.counts = TableCounts(exported[q.backup]),
           q.pc \in {"import", "count", "replace"} => <<q.backup, TableCounts(exported[q.backup])>> \in verifications',
           q.pc = "replace" => q.hidden.file = "whole" /\ q.hidden.holds = exported[q.backup]
    PROVE  BackupInv'
<1>1. /\ operators' \in [Operators -> Operations] /\ operators'[o] = q
      /\ \A p \in Operators : p # o => operators'[p] = operators[p]
  BY GoesOn DEF BackupInv
<1>2. BackupTypeOK'
  BY <1>1 DEF BackupInv, BackupTypeOK
<1>3. Addressed'
  BY <1>1 DEF BackupInv, Addressed
<1>4. ArchivesAreExports'
  BY DEF BackupInv, ArchivesAreExports, Kept
<1>5. CreatorsInv'
  BY <1>1 DEF BackupInv, CreatorsInv, Creates, Kept
<1>6. RequestsInv'
  BY <1>1 DEF BackupInv, RequestsInv, Kept
<1> QED
  BY <1>2, <1>3, <1>4, <1>5, <1>6 DEF BackupInv

\* Moves that write nothing but the request.
LEMMA QuietMoves ==
    ASSUME BackupInv, NEW o \in Operators, NEW q \in Operations, Go(o, q),
           UNCHANGED <<content, archives, verifications, target, exported>>, damages' \in 0..MaxDamages,
           q.pc # "idle" => q.backup \in Backups,
           q.pc \notin {"archive", "write"},
           q.pc = "record" => Kept(q.backup) /\ q.counts = TableCounts(exported[q.backup]),
           q.pc \in {"import", "count", "replace"} => <<q.backup, TableCounts(exported[q.backup])>> \in verifications,
           q.pc = "replace" => q.hidden.file = "whole" /\ q.hidden.holds = exported[q.backup]
    PROVE  BackupInv'
<1>1. /\ content' \in Contents /\ target' \in Files /\ verifications' \subseteq Backups \X Nat
  BY DEF BackupInv, BackupTypeOK
<1>2. RowsInv'
  BY DEF BackupInv, RowsInv, Kept
<1>3. RestoredIsSnapshot'
  BY DEF BackupInv, RestoredIsSnapshot
<1> QED
  BY <1>1, <1>2, <1>3, RequestMoves

\* What the types say of a request and of the archive it is about.
LEMMA RequestTypes ==
    ASSUME BackupInv, NEW o \in Operators, operators[o].pc # "idle"
    PROVE  /\ operators[o] \in Operations /\ operators[o].backup \in Backups
           /\ operators[o].counts \in Nat /\ operators[o].hidden \in Files
           /\ archives[operators[o].backup].holds \in Contents
           /\ TableCounts(archives[operators[o].backup].holds) \in Nat
           /\ content \in Contents /\ damages \in 0..MaxDamages
BY DEF BackupInv, BackupTypeOK, Operations, Addressed, Archives, TableCounts, Contents

LEMMA LookKeeps ==
    ASSUME BackupInv, NEW o \in Operators, NEW b \in Backups, VerifyRequest(o, b) \/ RestoreRequest(o, b)
    PROVE  BackupInv'
<1> DEFINE q(op) == [NoOperation EXCEPT !.op = op, !.pc = "check", !.backup = b]
<1>1. damages' \in 0..MaxDamages /\ UNCHANGED <<content, archives, verifications, target, exported>>
  BY DEF VerifyRequest, RestoreRequest, BackupInv, BackupTypeOK
<1>2. ASSUME NEW op \in {"verify", "restore"}
      PROVE  q(op) \in Operations /\ q(op).pc = "check" /\ q(op).backup = b
  BY NothingYet DEF NoOperation, Operations
<1>3. Go(o, q("verify")) \/ Go(o, q("restore"))
  BY DEF VerifyRequest, RestoreRequest
<1> HIDE DEF q
<1> QED
  BY <1>1, <1>2, <1>3, QuietMoves

\* A request is over, or its process is.
LEMMA LeavesKeeps ==
    ASSUME BackupInv, NEW o \in Operators, Go(o, NoOperation),
           UNCHANGED <<content, archives, verifications, target, exported>>, damages' \in 0..MaxDamages
    PROVE  BackupInv'
BY NothingYet, QuietMoves

LEMMA CheckKeeps ==
    ASSUME BackupInv, NEW o \in Operators, Check(o), damages' \in 0..MaxDamages
    PROVE  BackupInv'
<1> DEFINE r == operators[o]
           a == archives[r.backup]
           q == [r EXCEPT !.pc = "record", !.counts = TableCounts(a.holds)]
<1>1. r.pc # "idle"
  BY DEF Check, At
<1>2. CASE Verifiable(a)
  <2>1. q \in Operations /\ q.pc = "record" /\ q.backup = r.backup /\ q.counts = TableCounts(a.holds)
    BY <1>1, RequestTypes DEF Operations
  <2>2. Kept(r.backup) /\ TableCounts(a.holds) = TableCounts(exported[r.backup])
    BY <1>1, <1>2, RequestTypes DEF Verifiable, Kept, BackupInv, ArchivesAreExports
  <2>3. Go(o, q) /\ UNCHANGED <<content, archives, verifications, target, exported>>
    BY <1>2 DEF Check
  <2> HIDE DEF q
  <2> QED
    BY <1>1, <2>1, <2>2, <2>3, RequestTypes, QuietMoves
<1> QED
  BY <1>2, LeavesKeeps DEF Check

LEMMA RecordKeeps ==
    ASSUME BackupInv, NEW o \in Operators, RecordVerification(o)
    PROVE  BackupInv'
<1> DEFINE r == operators[o]
           q == IF r.op = "restore" THEN [r EXCEPT !.pc = "import"] ELSE NoOperation
<1>1. Go(o, q) /\ r.pc = "record" /\ UNCHANGED <<archives, target, exported, damages>>
  BY DEF RecordVerification, At
<1>2. /\ r \in Operations /\ r.backup \in Backups /\ r.counts \in Nat /\ content \in Contents
  BY <1>1, RequestTypes
<1>3. Kept(r.backup) /\ r.counts = TableCounts(exported[r.backup])
  BY <1>1 DEF BackupInv, RequestsInv
<1>4. q \in Operations /\ q.pc \in {"idle", "import"} /\ (q.pc = "import" => q.backup = r.backup)
  BY <1>2, NothingYet DEF Operations
<1>5. verifications' = verifications \cup {<<r.backup, r.counts>>}
  BY DEF RecordVerification
<1>6. content' \in Contents
  BY <1>2 DEF RecordVerification, Contents
<1>7. verifications' \subseteq Backups \X Nat /\ target' \in Files /\ damages' \in 0..MaxDamages
  BY <1>1, <1>2, <1>5 DEF BackupInv, BackupTypeOK
<1>8. RowsInv'
  BY <1>1, <1>3, <1>5 DEF BackupInv, RowsInv, Kept
<1>9. RestoredIsSnapshot'
  BY <1>1, <1>5 DEF BackupInv, RestoredIsSnapshot
<1> HIDE DEF q
<1> QED
  BY <1>1, <1>2, <1>3, <1>4, <1>5, <1>6, <1>7, <1>8, <1>9, RequestMoves

LEMMA ImportKeeps ==
    ASSUME BackupInv, NEW o \in Operators, ImportHidden(o), damages' \in 0..MaxDamages
    PROVE  BackupInv'
<1> DEFINE r == operators[o]
           q == [r EXCEPT !.pc = "count", !.hidden = [file |-> "partial", holds |-> Empty]]
<1>1. r.pc = "import" /\ <<r.backup, TableCounts(exported[r.backup])>> \in verifications
  BY DEF ImportHidden, At, BackupInv, RequestsInv
<1>2. UNCHANGED <<content, archives, verifications, target, exported>> /\ (Go(o, q) \/ Go(o, NoOperation))
  BY DEF ImportHidden, Importing
<1>3. q \in Operations /\ q.pc = "count" /\ q.backup = r.backup
  BY <1>1, RequestTypes, NothingYet DEF Operations, Files
<1> HIDE DEF q
<1> QED
  BY <1>1, <1>2, <1>3, RequestTypes, QuietMoves, LeavesKeeps

LEMMA CountKeeps ==
    ASSUME BackupInv, NEW o \in Operators, CountHidden(o), damages' \in 0..MaxDamages
    PROVE  BackupInv'
<1> DEFINE r == operators[o]
           a == archives[r.backup]
           q == [r EXCEPT !.pc = "replace", !.hidden = [file |-> "whole", holds |-> a.holds]]
<1>1. r.pc = "count" /\ <<r.backup, TableCounts(exported[r.backup])>> \in verifications
  BY DEF CountHidden, At, BackupInv, RequestsInv
<1>2. UNCHANGED <<content, archives, verifications, target, exported>>
  BY DEF CountHidden
<1>3. CASE Go(o, q) /\ a.file = "whole"
  <2>1. q \in Operations /\ q.pc = "replace" /\ q.backup = r.backup /\ q.hidden.file = "whole" /\ q.hidden.holds = a.holds
    BY <1>1, RequestTypes DEF Operations, Files
  <2>2. a.holds = exported[r.backup]
    BY <1>1, <1>3, RequestTypes DEF BackupInv, ArchivesAreExports, Kept
  <2> HIDE DEF q
  <2> QED
    BY <1>1, <1>2, <1>3, <2>1, <2>2, RequestTypes, QuietMoves
<1> QED
  BY <1>2, <1>3, LeavesKeeps DEF CountHidden

LEMMA ReplaceKeeps ==
    ASSUME BackupInv, NEW o \in Operators, ReplaceTarget(o)
    PROVE  BackupInv'
<1> DEFINE r == operators[o]
<1>1. r.pc = "replace" /\ target' = r.hidden /\ Go(o, NoOperation)
  BY DEF ReplaceTarget, At
<1>2. UNCHANGED <<content, archives, verifications, exported, damages>>
  BY DEF ReplaceTarget
<1>3. RestoredIsSnapshot'
  BY <1>1, <1>2, RequestTypes DEF RestoredIsSnapshot, BackupInv, RequestsInv
<1>4. RowsInv'
  BY <1>2 DEF BackupInv, RowsInv, Kept
<1>5. /\ target' \in Files /\ content' \in Contents /\ damages' \in 0..MaxDamages
      /\ verifications' \subseteq Backups \X Nat
  BY <1>1, <1>2, RequestTypes DEF BackupInv, BackupTypeOK
<1> QED
  BY <1>1, <1>2, <1>3, <1>4, <1>5, NothingYet, RequestMoves

\* Backups can be relied on: whatever is exported, verified and restored side by
\* side, and wherever a request dies or an archive rots, a restored file is a
\* whole export, a verification row tells the counts of one, and no archive that
\* was written in full is refused.
THEOREM ReliableBackups == BackupSpec => []BackupsAreReliable
<1>1. BackupInit => BackupInv
  BY NothingYet, BackupAssumption
  DEF BackupInit, BackupInv, BackupTypeOK, Addressed, ArchivesAreExports, Kept, CreatorsInv, Creates,
      RequestsInv, RowsInv, RestoredIsSnapshot
<1>2. ASSUME BackupInv, [BackupNext]_backupVars
      PROVE  BackupInv'
  <2>0. damages \in 0..MaxDamages /\ MaxDamages \in Nat /\ content \in Contents /\ archives \in [Backups -> Archives]
    BY <1>2, BackupAssumption DEF BackupInv, BackupTypeOK
  <2>1. CASE WriteDatabase
    <3>1. content' \in Contents
      BY <2>0, <2>1 DEF WriteDatabase, Contents
    <3>2. UNCHANGED <<archives, verifications, target, operators, exported, damages>>
      BY <2>1 DEF WriteDatabase
    <3>3. BackupTypeOK'
      BY <1>2, <3>1, <3>2 DEF BackupInv, BackupTypeOK
    <3> QED
      BY <1>2, <3>2, <3>3
      DEF BackupInv, Addressed, ArchivesAreExports, Kept, CreatorsInv, Creates,
          RequestsInv, RowsInv, RestoredIsSnapshot, TableCounts
  <2>2. ASSUME NEW b \in Backups, ArchiveRots(b)
        PROVE  BackupInv'
    <3>1. /\ archives' = [archives EXCEPT ![b].file = "damaged"] /\ Kept(b)
          /\ UNCHANGED <<content, verifications, target, operators, exported>>
      BY <2>2 DEF ArchiveRots, Kept
    <3>2. /\ archives' \in [Backups -> Archives] /\ archives'[b].file = "damaged"
          /\ archives'[b].holds = archives[b].holds /\ archives'[b].counts = archives[b].counts
          /\ \A c \in Backups : c # b => archives'[c] = archives[c]
      BY <2>0, <3>1 DEF Archives
    <3>3. damages' \in 0..MaxDamages
      BY <2>0, <2>2 DEF ArchiveRots
    <3>4. BackupTypeOK'
      BY <1>2, <3>1, <3>2, <3>3 DEF BackupInv, BackupTypeOK
    <3>5. \A c \in Backups : (Kept(c) <=> Kept(c)')
      BY <3>1, <3>2 DEF Kept
    <3>6. ArchivesAreExports'
      BY <1>2, <3>1, <3>2, <3>5 DEF BackupInv, ArchivesAreExports, TableCounts
    <3>7. CreatorsInv' /\ Addressed' /\ RequestsInv'
      BY <1>2, <3>1, <3>5 DEF BackupInv, CreatorsInv, Creates, Addressed, RequestsInv, TableCounts
    <3>8. RowsInv'
      BY <1>2, <3>1, <3>5 DEF BackupInv, BackupTypeOK, RowsInv, TableCounts
    <3>9. RestoredIsSnapshot'
      BY <1>2, <3>1 DEF BackupInv, RestoredIsSnapshot, TableCounts
    <3> QED
      BY <3>4, <3>6, <3>7, <3>8, <3>9 DEF BackupInv
  <2>3. ASSUME NEW o \in Operators, BackupStep(o)
        PROVE  BackupInv'
    <3>0. damages' = damages => damages' \in 0..MaxDamages
      BY <2>0
    <3>1. ASSUME NEW b \in Backups, Export(o, b) \/ VerifyRequest(o, b) \/ RestoreRequest(o, b)
          PROVE  BackupInv'
      BY <1>2, <3>1, ExportKeeps, LookKeeps
    <3>2. CASE OpenArchive(o) \/ RecordVerification(o) \/ ReplaceTarget(o)
      BY <1>2, <3>2, OpenKeeps, RecordKeeps, ReplaceKeeps
    <3>3. CASE WriteArchive(o)
      <4>1. damages < MaxDamages /\ damages' = damages + 1 => damages' \in 0..MaxDamages
        BY <2>0
      <4> QED
        BY <1>2, <3>3, <4>1, WriteWholeKeeps, WriteRaisedKeeps DEF WriteArchive
    <3>4. CASE Check(o) \/ ImportHidden(o) \/ CountHidden(o)
      BY <1>2, <3>0, <3>4, CheckKeeps, ImportKeeps, CountKeeps DEF Check, ImportHidden, CountHidden
    <3>5. CASE OperatorDies(o)
      <4>1. damages' \in 0..MaxDamages
        BY <2>0, <3>5 DEF OperatorDies
      <4> QED
        BY <1>2, <3>5, <4>1, LeavesKeeps DEF OperatorDies
    <3> QED
      BY <2>3, <3>1, <3>2, <3>3, <3>4, <3>5 DEF BackupStep
  <2>4. CASE UNCHANGED backupVars
    BY <1>2, <2>4
    DEF backupVars, BackupInv, BackupTypeOK, Addressed, ArchivesAreExports, Kept, CreatorsInv, Creates,
        RequestsInv, RowsInv, RestoredIsSnapshot, TableCounts
  <2> QED
    BY <1>2, <2>1, <2>2, <2>3, <2>4 DEF BackupNext
<1>3. BackupInv => BackupsAreReliable
  BY DEF BackupInv, BackupsAreReliable, VerificationsAreTrue, RowsInv, ArchivesAreExports, Kept, Verifiable
<1> QED
  BY <1>1, <1>2, <1>3, PTL DEF BackupSpec
=============================================================================
