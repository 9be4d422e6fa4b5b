------------------------------ MODULE MCTasks ------------------------------
(***************************************************************************)
(* The task queue, and what keeps the database in order: retention and the *)
(* backups.  Their models share no state: a behaviour is of the part it    *)
(* starts in, and where no task is submitted the fairness of the queue     *)
(* asks nothing.                                                           *)
(***************************************************************************)
EXTENDS TaskQueue, Retention, BackupArchive, TLC

CONSTANTS t1, t2, w1, w2

VARIABLE part

\* Worker loops, each with an id of its own.
OwnIds == [w \in Workers |-> w]

OneAdmin == [u \in Users |-> "admin"]

AllInit ==
    /\ part \in {"tasks", "retention", "backups"}
    /\ Init /\ RetentionInit /\ BackupInit

AllNext ==
    /\ UNCHANGED part
    /\ \/ /\ part = "tasks" /\ Next
          /\ UNCHANGED <<retentionVars, backupVars>>
       \/ /\ part = "retention" /\ RetentionNext
          /\ UNCHANGED <<vars, backupVars>>
       \/ /\ part = "backups" /\ BackupNext
          /\ UNCHANGED <<vars, retentionVars>>

AllSpec ==
    /\ AllInit /\ [][AllNext]_<<part, vars, retentionVars, backupVars>>
    /\ Fairness
=============================================================================
