--------------------------- MODULE BackupArchive ---------------------------
(***************************************************************************)
(* services/backup_service.py: a backup is an export of the database,      *)
(* written to an archive that is then verified by importing it; a restore  *)
(* imports it once more into a hidden file that takes the target's name.   *)
(* Operators (the API, the command line, the scheduled verification) work  *)
(* beside writers of the database; files may rot and processes may die.    *)
(***************************************************************************)
EXTENDS Naturals, FiniteSets

CONSTANTS
    Backups,        \* backup ids
    Operators,      \* requests that create, verify or restore
    NoBackup,
    MaxWrites,      \* bound: writes of other services
    MaxRows,        \* bound: no request is made of a database with more rows
    MaxDamages      \* bound: files that rot and processes that die

ASSUME BackupAssumption == MaxDamages \in Nat

VARIABLES
    content,        \* the active database
    archives,       \* the files of the backup directory
    verifications,  \* rows of backup_verifications: <<backup, table counts>>
    target,         \* the file a restore was asked to produce
    operators,      \* the requests under way
    exported,       \* history: what the database held when it was exported
    damages

backupVars == <<content, archives, verifications, target, operators, exported, damages>>

\* A write adds a row or changes one; the manifest only counts rows.
Contents == [rows : Nat, edits : Nat]
Empty == [rows |-> 0, edits |-> 0]
TableCounts(c) == c.rows

\* An archive: how much of it is on disk, what it was exported from, and the
\* counts in its manifest.
NoArchive == [file |-> "none", holds |-> Empty, counts |-> 0]
Archives == [file : {"none", "partial", "whole", "damaged"}, holds : Contents, counts : Nat]

NoFile == [file |-> "none", holds |-> Empty]
Files == [file : {"none", "partial", "whole"}, holds : Contents]

\* A request: what it is to do, its next step, the backup, what it has exported
\* or counted, and the hidden file of a restore.
NoOperation == [op |-> "none", pc |-> "idle", backup |-> NoBackup,
                holds |-> Empty, counts |-> 0, hidden |-> NoFile]
Operations == [op : {"none", "create", "verify", "restore"},
               pc : {"idle", "archive", "write", "check", "record", "import", "count", "replace"},
               backup : Backups \cup {NoBackup}, holds : Contents, counts : Nat, hidden : Files]

BackupTypeOK ==
    /\ content \in Contents
    /\ archives \in [Backups -> Archives]
    /\ verifications \subseteq Backups \X Nat
    /\ target \in Files
    /\ operators \in [Operators -> Operations]
    /\ exported \in [Backups -> Contents]
    /\ damages \in 0..MaxDamages

BackupInit ==
    /\ content = Empty
    /\ archives = [b \in Backups |-> NoArchive]
    /\ verifications = {}
    /\ target = NoFile
    /\ operators = [o \in Operators |-> NoOperation]
    /\ exported = [b \in Backups |-> Empty]
    /\ damages = 0

At(o, pc) == operators[o].pc = pc
\* A free operator may ask for something, as often as the bound allows.
Asks(o) == At(o, "idle") /\ content.rows < MaxRows
Go(o, op) == operators' = [operators EXCEPT ![o] = op]
Fresh(b) == archives[b].file = "none" /\ \A o \in Operators : operators[o].backup # b

(***************************************************************************)
(* Other services write, one block at a time.                              *)
(***************************************************************************)
WriteDatabase ==
    /\ content.rows + content.edits < MaxWrites
    /\ \/ content' = [content EXCEPT !.rows = @ + 1]
       \/ content' = [content EXCEPT !.edits = @ + 1]
    /\ UNCHANGED <<archives, verifications, target, operators, exported, damages>>

(***************************************************************************)
(* create.  Counts and files come from one connection, so nobody writes    *)
(* between them.                                                           *)
(***************************************************************************)
Export(o, b) ==
    /\ Asks(o) /\ Fresh(b)
    /\ Go(o, [NoOperation EXCEPT !.op = "create", !.pc = "archive", !.backup = b,
                                 !.holds = content, !.counts = TableCounts(content)])
    /\ exported' = [exported EXCEPT ![b] = content]
    /\ UNCHANGED <<content, archives, verifications, target, damages>>

\* The archive is opened under its final name.
OpenArchive(o) ==
    /\ At(o, "archive")
    /\ archives' = [archives EXCEPT ![operators[o].backup] = [NoArchive EXCEPT !.file = "partial"]]
    /\ Go(o, [operators[o] EXCEPT !.pc = "write"])
    /\ UNCHANGED <<content, verifications, target, exported, damages>>

MutManifestCounts(op) == TableCounts(content)

\* The counts that go into the manifest are those taken with the export.
ManifestCounts(op) == op.counts

\* The files and the manifest are in it, or writing raised and it is removed.
WriteArchive(o) ==
    /\ At(o, "write")
    /\ LET op == operators[o]
       IN \/ /\ archives' = [archives EXCEPT ![op.backup] =
                                [file |-> "whole", holds |-> op.holds, counts |-> ManifestCounts(op)]]
             /\ Go(o, [op EXCEPT !.pc = "check"])
             /\ UNCHANGED damages
          \/ /\ damages < MaxDamages /\ damages' = damages + 1
             /\ archives' = [archives EXCEPT ![op.backup] = NoArchive]
             /\ Go(o, NoOperation)
    /\ UNCHANGED <<content, verifications, target, exported>>

(***************************************************************************)
(* verify, also at the end of create and at the head of restore.           *)
(***************************************************************************)
MutVerifiable(a) == a.file = "whole"

\* The archive opens, its files are those of its manifest, and importing them
\* gives as many rows as it says.
Verifiable(a) == a.file = "whole" /\ TableCounts(a.holds) = a.counts

VerifyRequest(o, b) ==
    /\ Asks(o)
    /\ Go(o, [NoOperation EXCEPT !.op = "verify", !.pc = "check", !.backup = b])
    /\ UNCHANGED <<content, archives, verifications, target, exported, damages>>

Check(o) ==
    /\ At(o, "check")
    /\ LET op == operators[o] a == archives[op.backup]
       IN Go(o, IF Verifiable(a)
                THEN [op EXCEPT !.pc = "record", !.counts = TableCounts(a.holds)]
                ELSE NoOperation)
    /\ UNCHANGED <<content, archives, verifications, target, exported, damages>>

\* The row is itself a write of the database.
RecordVerification(o) ==
    /\ At(o, "record")
    /\ verifications' = verifications \cup {<<operators[o].backup, operators[o].counts>>}
    /\ content' = [content EXCEPT !.rows = @ + 1]
    /\ Go(o, IF operators[o].op = "restore"
             THEN [operators[o] EXCEPT !.pc = "import"] ELSE NoOperation)
    /\ UNCHANGED <<archives, target, exported, damages>>

(***************************************************************************)
(* restore: the target must not be there when it starts.                   *)
(***************************************************************************)
RestoreRequest(o, b) ==
    /\ Asks(o)
    /\ target.file = "none"
    /\ Go(o, [NoOperation EXCEPT !.op = "restore", !.pc = "check", !.backup = b])
    /\ UNCHANGED <<content, archives, verifications, target, exported, damages>>

MutImporting(o, file) ==
    /\ Go(o, [operators[o] EXCEPT !.pc = "count", !.hidden = file])
    /\ target' = file

\* Where the import goes while it is under way.
Importing(o, file) ==
    /\ Go(o, [operators[o] EXCEPT !.pc = "count", !.hidden = file])
    /\ UNCHANGED target

\* The archive is extracted again, this time without looking at its checksums:
\* only a file that no longer opens is noticed here.
ImportHidden(o) ==
    /\ At(o, "import")
    /\ IF archives[operators[o].backup].file = "whole"
       THEN Importing(o, [file |-> "partial", holds |-> Empty])
       ELSE Go(o, NoOperation) /\ UNCHANGED target
    /\ UNCHANGED <<content, archives, verifications, exported, damages>>

CountHidden(o) ==
    /\ At(o, "count")
    /\ LET a == archives[operators[o].backup]
       IN Go(o, IF a.file = "whole" /\ TableCounts(a.holds) = a.counts
                THEN [operators[o] EXCEPT !.pc = "replace",
                                          !.hidden = [file |-> "whole", holds |-> a.holds]]
                ELSE NoOperation)
    /\ UNCHANGED <<content, archives, verifications, target, exported, damages>>

\* os.replace: one step, whatever is there by then.
ReplaceTarget(o) ==
    /\ At(o, "replace")
    /\ target' = operators[o].hidden
    /\ Go(o, NoOperation)
    /\ UNCHANGED <<content, archives, verifications, exported, damages>>

(***************************************************************************)
(* A process dies and its requests with it; an archive rots.               *)
(***************************************************************************)
OperatorDies(o) ==
    /\ ~At(o, "idle")
    /\ damages < MaxDamages /\ damages' = damages + 1
    /\ Go(o, NoOperation)
    /\ UNCHANGED <<content, archives, verifications, target, exported>>

ArchiveRots(b) ==
    /\ archives[b].file = "whole"
    /\ damages < MaxDamages /\ damages' = damages + 1
    /\ archives' = [archives EXCEPT ![b].file = "damaged"]
    /\ UNCHANGED <<content, verifications, target, operators, exported>>

BackupStep(o) ==
    \/ \E b \in Backups : Export(o, b) \/ VerifyRequest(o, b) \/ RestoreRequest(o, b)
    \/ OpenArchive(o) \/ WriteArchive(o) \/ Check(o) \/ RecordVerification(o)
    \/ ImportHidden(o) \/ CountHidden(o) \/ ReplaceTarget(o)
    \/ OperatorDies(o)

BackupNext ==
    \/ WriteDatabase
    \/ \E o \in Operators : BackupStep(o)
    \/ \E b \in Backups : ArchiveRots(b)

BackupSpec == BackupInit /\ [][BackupNext]_backupVars

(***************************************************************************)
(* Properties                                                              *)
(***************************************************************************)
\* A restored file is, as a whole, what the database held at one moment: never a
\* mixture of before and after a write, and never the beginning of a file,
\* wherever the restore dies and whatever becomes of the archive meanwhile.
RestoredIsSnapshot ==
    target.file # "none" =>
        /\ target.file = "whole"
        /\ \E b \in Backups : target.holds = exported[b] /\ <<b, TableCounts(exported[b])>> \in verifications

\* A verification row speaks of a backup that was exported, with the counts the
\* database had then; and a backup that was written whole and has not rotted is
\* never refused, however much was written beside its export.
VerificationsAreTrue ==
    /\ \A v \in verifications : archives[v[1]].file \in {"whole", "damaged"} /\ v[2] = TableCounts(exported[v[1]])
    /\ \A b \in Backups : archives[b].file = "whole" => Verifiable(archives[b])

\* Backups can be relied on: their rows, their verifications and what is
\* restored from them.
BackupsAreReliable == BackupTypeOK /\ RestoredIsSnapshot /\ VerificationsAreTrue
=============================================================================
