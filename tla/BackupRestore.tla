---------------------------- MODULE BackupRestore ----------------------------
(***************************************************************************)
(* Backup, deletion and restore of the database files of a desktop         *)
(* (kaspa-gateway-db/src/backup_restore.rs and the settings commands that  *)
(* call it).  A database file is the number of the write that made it.     *)
(*                                                                         *)
(* DB_OPERATION_LOCK serialises these operations with each other.  It does *)
(* not keep writers out: imports, migrations and the settings commands     *)
(* open every one of the databases without it.                             *)
(***************************************************************************)
EXTENDS Integers, Sequences, FiniteSets, Functions, SequencesExt

CONSTANTS
  Files,        \* the database files, in the order of DATABASES
  MaxWrites,    \* bound on the writes of all databases
  MaxBackups    \* bound on the backup directories

DBs == ToSet(Files)

ASSUME FilesAssumption ==
  /\ Files \in Seq(STRING) /\ Files # <<>> /\ IsInjective(Files)
  /\ MaxWrites \in Nat /\ MaxBackups \in Nat

VARIABLES
  live,      \* the content of each database file
  written,   \* the number of writes so far
  backups,   \* the backup directories, oldest first
  op,        \* the operation that holds the lock
  pending,   \* deletions that have their backup and wait for the lock again
  kept       \* what the user had when the last restore began, and the writes by then

vars == <<live, written, backups, op, pending, kept>>

-----------------------------------------------------------------------------
\* In the order of the directory names, by which latest_backup sorts.
Labels == <<"kgw-db-backup", "kgw-pre-delete-backup", "kgw-pre-restore-backup">>

Foreign == -1                       \* put into a backup by somebody else
Contents == [DBs -> Foreign..MaxWrites]
Nothing == [f \in DBs |-> Foreign]

Idle == [pc |-> "idle", kind |-> "none", target |-> "none", at |-> 1,
         copy |-> Nothing,                     \* the snapshot being made
         selected |-> 0, pinned |-> Nothing, then |-> "none",
         safety |-> 0, clean |-> TRUE,         \* no recovery step has failed
         result |-> "none",
         base |-> 0, seen |-> {}]

OpType ==
  [pc : {"idle", "copy", "pin", "check", "validate", "apply",
         "verify", "recover", "reverify", "done"},
   kind : {"none", "backup", "delete", "restore"},
   target : DBs \union {"none"}, at : 0..Len(Files) + 1,
   copy : Contents, selected : 0..MaxBackups, pinned : Contents,
   then : {"none", "validate", "apply", "success"}, safety : 0..MaxBackups,
   clean : BOOLEAN,
   result : {"none", "failed", "made", "restored", "recovered", "unrecovered"},
   base : 0..MaxWrites, seen : SUBSET Contents]

TypeOK ==
  /\ live \in Contents /\ written \in 0..MaxWrites
  /\ backups \in Seq([label : ToSet(Labels), content : Contents])
  /\ Len(backups) <= MaxBackups
  /\ op \in OpType
  /\ op.safety \in {0} \union DOMAIN backups
  /\ op.pc \in {"apply", "verify", "recover", "reverify"} => op.safety # 0
  /\ pending \subseteq DBs
  /\ kept \in [content : Contents, at : 0..MaxWrites]

Init ==
  /\ live = [f \in DBs |-> 0] /\ written = 0
  /\ backups = <<>> /\ op = Idle /\ pending = {}
  /\ kept = [content |-> live, at |-> written]

Current == Files[op.at]
AllDone == op.at > Len(Files)
NextFile == [op EXCEPT !.at = @ + 1]
Goes(pc) == [op EXCEPT !.pc = pc, !.at = 1]
Ends(result) == [op EXCEPT !.pc = "done", !.result = result]

\* Variant: only a failing replacement is taken back, not a failing verification.
AbortApplying == IF op.pc = "apply" THEN [op EXCEPT !.pc = "recover"] ELSE Ends("failed")

\* An error; what a restore has applied is taken back.
Abort == IF op.pc \in {"apply", "verify"} \/ op.then = "success"
         THEN [op EXCEPT !.pc = "recover",
                         !.at = IF op.pc = "apply" THEN @ ELSE Len(Files)]
         ELSE Ends("failed")

\* The content is, file by file, what the user had or a write made since.
HasKept(content) ==
  \A f \in DBs : content[f] = kept.content[f] \/ content[f] > kept.at

-----------------------------------------------------------------------------
(* Writers.                                                                *)

\* A writer that takes the lock does so while no operation has it; the others need not.
Write(f) ==
  /\ written < MaxWrites
  /\ written' = written + 1
  /\ live' = [live EXCEPT ![f] = written + 1]
  /\ UNCHANGED <<backups, op, pending, kept>>

\* Somebody changes files of a backup the user made.
Tamper(i, S) ==
  /\ backups[i].label = "kgw-db-backup"
  /\ \A f \in DBs : backups[i].content[f] # Foreign
  /\ backups' = [backups EXCEPT ![i] = [@ EXCEPT !.content =
                   [f \in DBs |-> IF f \in S THEN Foreign ELSE backups[i].content[f]]]]
  /\ op' = IF op.selected = i
           THEN [op EXCEPT !.seen = @ \union {backups'[i].content}] ELSE op
  /\ UNCHANGED <<live, written, pending, kept>>

\* The process ends; work directories are left behind, backups stay.
Crash ==
  /\ op.pc # "idle" \/ pending # {}
  /\ op' = Idle /\ pending' = {}
  /\ UNCHANGED <<live, written, backups, kept>>

-----------------------------------------------------------------------------
(* backup_inner: copy every file, verify the copy, publish by a rename.    *)

BackupBegin ==
  /\ op.pc = "idle" /\ Len(backups) < MaxBackups
  /\ op' = [Idle EXCEPT !.pc = "copy", !.kind = "backup", !.base = written]
  /\ UNCHANGED <<live, written, backups, pending, kept>>

\* kgw_settings_database_delete: a backup first.
DeleteBegin(f) ==
  /\ op.pc = "idle" /\ Len(backups) < MaxBackups /\ f \notin pending
  /\ op' = [Idle EXCEPT !.pc = "copy", !.kind = "delete", !.target = f,
                        !.base = written]
  /\ UNCHANGED <<live, written, backups, pending, kept>>

CopyFile ==
  /\ op.pc = "copy" /\ ~AllDone
  /\ op' = [NextFile EXCEPT !.copy = [@ EXCEPT ![Current] = live[Current]]]
  /\ UNCHANGED <<live, written, backups, pending, kept>>

Label == CASE op.kind = "backup" -> "kgw-db-backup"
           [] op.kind = "delete" -> "kgw-pre-delete-backup"
           [] op.kind = "restore" -> "kgw-pre-restore-backup"

\* The rename; then a deletion leaves the lock and a restore goes on, unless the
\* work directory cannot be removed: an error although the backup is there.
Publish ==
  /\ op.pc = "copy" /\ AllDone
  /\ backups' = Append(backups, [label |-> Label, content |-> op.copy])
  /\ \/ op' = Abort
     \/ op' = IF op.kind = "restore"
              THEN [Goes("check") EXCEPT !.then = "apply", !.safety = Len(backups')]
              ELSE Ends("made")
  /\ UNCHANGED <<live, written, pending, kept>>

\* What the user deletes is no longer what the user had.
Deleted(f) ==
  /\ live' = [live EXCEPT ![f] = 0]
  /\ kept' = IF HasKept(live) THEN [content |-> live', at |-> written] ELSE kept
  /\ pending' = pending \ {f}
  /\ UNCHANGED <<written, backups, op>>

\* Variant: the deletion does not take the lock again.
DeleteFileUnlocked(f) == f \in pending /\ Deleted(f)

\* delete_and_reinitialize_database, under the lock again.
DeleteFile(f) == op.pc = "idle" /\ f \in pending /\ Deleted(f)

-----------------------------------------------------------------------------
(* restore_with_hook.                                                      *)

Rank(i) == CHOOSE k \in DOMAIN Labels : Labels[k] = backups[i].label

\* The last directory in the order of the names, label first, stamp second.
Latest ==
  CHOOSE i \in DOMAIN backups : \A j \in DOMAIN backups :
    Rank(j) < Rank(i) \/ (Rank(j) = Rank(i) /\ j <= i)

RestoreBegin ==
  /\ op.pc = "idle" /\ backups # <<>> /\ Len(backups) < MaxBackups
  /\ op' = [Idle EXCEPT !.pc = "pin", !.kind = "restore", !.selected = Latest,
                        !.base = written, !.seen = {backups[Latest].content}]
  /\ kept' = [content |-> live, at |-> written]
  /\ UNCHANGED <<live, written, backups, pending>>

Selected == backups[op.selected].content

\* PinnedBackup::capture copies the selected files one by one.
PinFile ==
  /\ op.pc = "pin" /\ ~AllDone
  /\ op' = [NextFile EXCEPT !.pinned = [@ EXCEPT ![Current] = Selected[Current]]]
  /\ UNCHANGED <<live, written, backups, pending, kept>>

PinDone ==
  /\ op.pc = "pin" /\ AllDone
  /\ op' = [Goes("check") EXCEPT !.then = "validate"]
  /\ UNCHANGED <<live, written, backups, pending, kept>>

\* Variant: the pinned copy is trusted.
CheckNothing ==
  /\ op.pc = "check"
  /\ op' = IF op.then = "success" THEN Ends("restored") ELSE Goes(op.then)
  /\ UNCHANGED <<live, written, backups, pending, kept>>

\* PinnedBackup::unchanged, file by file: after the capture, after the safety
\* backup and at the end.
CheckFile ==
  /\ op.pc = "check"
  /\ op' = IF AllDone
           THEN IF op.then = "success" THEN Ends("restored") ELSE Goes(op.then)
           ELSE IF op.pinned[Current] = Selected[Current] THEN NextFile ELSE Abort
  /\ UNCHANGED <<live, written, backups, pending, kept>>

\* Variant: the safety backup is made after the first database is replaced.
ValidateAndApplyFirst ==
  /\ op.pc = "validate"
  /\ op' = Goes("copy")
  /\ live' = [live EXCEPT ![Files[2]] = op.pinned[Files[2]]]
  /\ UNCHANGED <<written, backups, pending, kept>>

\* Variant: no safety backup is made.
ValidateAndApply ==
  /\ op.pc = "validate"
  /\ op' = Goes("apply")
  /\ UNCHANGED <<live, written, backups, pending, kept>>

\* Every file of the pinned backup opens and has the current schema, else
\* StepFails.
Validate ==
  /\ op.pc = "validate"
  /\ op' = Goes("copy")
  /\ UNCHANGED <<live, written, backups, pending, kept>>

\* One database is replaced in one transaction.
ApplyFile ==
  /\ op.pc = "apply" /\ ~AllDone
  /\ live' = [live EXCEPT ![Current] = op.pinned[Current]]
  /\ op' = NextFile
  /\ UNCHANGED <<written, backups, pending, kept>>

ApplyDone ==
  /\ op.pc = "apply" /\ AllDone
  /\ op' = Goes("verify")
  /\ UNCHANGED <<live, written, backups, pending, kept>>

\* Everything is compared with the pinned copy once more.
VerifyFile ==
  /\ op.pc = "verify"
  /\ op' = IF AllDone THEN [Goes("check") EXCEPT !.then = "success"]
           ELSE IF live[Current] = op.pinned[Current] THEN NextFile ELSE Abort
  /\ UNCHANGED <<live, written, backups, pending, kept>>

\* A step of any operation fails: nothing is published, a replacement is rolled
\* back, and a restore that has begun to apply recovers.
StepFails ==
  /\ op.pc \in {"copy", "pin", "check", "validate", "apply", "verify"}
  /\ op.pc = "apply" => ~AllDone
  /\ op' = Abort
  /\ UNCHANGED <<live, written, backups, pending, kept>>

Safety == backups[op.safety].content

\* From the last attempted file back to the first, each from the safety backup;
\* one that fails does not keep the others from being tried.
RecoverFile ==
  /\ op.pc = "recover"
  /\ \/ /\ op.at = 0 /\ op' = Goes("reverify") /\ UNCHANGED live
     \/ /\ op.at > 0
        /\ op' = [op EXCEPT !.at = @ - 1]
        /\ live' = [live EXCEPT ![Current] = Safety[Current]]
     \/ /\ op.at > 0
        /\ op' = [op EXCEPT !.at = @ - 1, !.clean = FALSE]
        /\ UNCHANGED live
  /\ UNCHANGED <<written, backups, pending, kept>>

\* All files are compared with the safety backup.
ReverifyFile ==
  /\ op.pc = "reverify"
  /\ op' = IF AllDone THEN Ends(IF op.clean THEN "recovered" ELSE "unrecovered")
           ELSE [NextFile EXCEPT !.clean = @ /\ live[Current] = Safety[Current]]
  /\ UNCHANGED <<live, written, backups, pending, kept>>

\* The lock is left; a deletion that has its backup waits for it again.
Finish ==
  /\ op.pc = "done"
  /\ pending' = IF op.kind = "delete" /\ op.result = "made"
                THEN pending \union {op.target} ELSE pending
  /\ op' = Idle
  /\ UNCHANGED <<live, written, backups, kept>>

-----------------------------------------------------------------------------
Next ==
  \/ \E f \in DBs : Write(f) \/ DeleteBegin(f) \/ DeleteFile(f)
  \/ \E i \in DOMAIN backups, S \in (SUBSET DBs) \ {{}} : Tamper(i, S)
  \/ Crash \/ StepFails
  \/ BackupBegin \/ CopyFile \/ Publish
  \/ RestoreBegin \/ PinFile \/ PinDone \/ CheckFile \/ Validate
  \/ ApplyFile \/ ApplyDone \/ VerifyFile \/ RecoverFile \/ ReverifyFile
  \/ Finish

Spec == Init /\ [][Next]_vars

-----------------------------------------------------------------------------
(* Properties.                                                             *)

\* What the user had when a restore began is live or in a backup, all files in one place,
\* at every moment: while files are replaced one by one, when a recovery fails, and when
\* the process dies between any two of them.  A file may be newer: it was written since.
OriginalRecoverable == HasKept(live) \/ \E i \in DOMAIN backups : HasKept(backups[i].content)

\* A restore that reports success put back one state of the selected backup, all
\* files of the same moment; a file differs only if it was written meanwhile.
RestoredIsOneSnapshot ==
  op.pc = "done" /\ op.result = "restored" =>
    /\ op.pinned \in op.seen
    /\ \A f \in DBs : live[f] = op.pinned[f] \/ live[f] > op.base

\* A restore that fails and does not say RECOVERY FAILED left every file as it was,
\* unless somebody has written it since the restore began.
FailedRestoreChangesNothing ==
  op.pc = "done" /\ op.kind = "restore" /\ op.result \in {"failed", "recovered"} =>
    \A f \in DBs : live[f] = kept.content[f] \/ live[f] > op.base

\* The files of a published backup are of one moment, the present, but for those that
\* were written since it began: no deletion or restore gets between the copies.
PublishedIsCurrent ==
  [][Len(backups') > Len(backups) =>
       \A f \in DBs : \/ backups'[Len(backups')].content[f] = live[f]
                      \/ live[f] > op.base]_vars

\* What is restored is the newest backup there was.
LatestIsRestored ==
  op.pc = "done" /\ op.result = "restored" => op.selected = op.safety - 1
=============================================================================
