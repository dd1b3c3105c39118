------------------------- MODULE BackupRestoreProofs -------------------------
(***************************************************************************)
(* Theorems of BackupRestore, for any files and any number of writes and   *)
(* backups: what the user had when a restore began is never lost, a        *)
(* restore that fails and can say so changes nothing, and a backup is of   *)
(* one moment, but for what is written meanwhile: no writer is kept out.   *)
(* Which backup is restored is decided by its name.                        *)
(***************************************************************************)
EXTENDS BackupRestore, NaturalOrder, SequenceTheorems

Replacing == {"apply", "verify", "recover", "reverify"}
Protected == op.then \in {"apply", "success"}

\* Which step an operation is at says what it is and what it has made.
PhaseInv ==
  /\ IF op.pc = "idle" THEN ~Protected /\ op.kind = "none" ELSE op.kind # "none"
  /\ op.kind = "delete" => op.target \in DBs
  /\ op.pc \in {"pin", "check", "validate"} \union Replacing => op.kind = "restore"
  /\ op.kind = "restore" => op.selected \in DOMAIN backups
  /\ op.pc = "pin" => op.then = "none"
  /\ op.pc = "copy" => op.then = IF op.kind = "restore" THEN "validate" ELSE "none"
  /\ op.pc = "validate" => op.then = "validate"
  /\ op.pc = "check" => op.then # "none"
  /\ op.pc \in Replacing => Protected
  /\ Protected <=> op.safety # 0
  /\ IF op.pc = "recover" THEN op.at <= Len(Files) ELSE op.at # 0
  /\ op.pc \notin {"idle", "done"} /\ op.safety = 0 => Len(backups) < MaxBackups

\* Nothing has been replaced yet.
Untouched ==
  \/ op.pc \in {"pin", "validate", "copy"}
  \/ op.pc = "check" /\ op.then # "success"

KeptLive == op.kind = "restore" /\ Untouched => HasKept(live)

\* What is written from now on is newer than the operation and than what the user had.
NewerInv ==
  /\ op.base <= written /\ kept.at <= written
  /\ op.kind = "restore" => kept.at = op.base

\* The safety backup is what the user had, and nobody changes it.
SafetyInv ==
  op.safety # 0 =>
    /\ backups[op.safety].label = "kgw-pre-restore-backup"
    /\ HasKept(backups[op.safety].content)

\* What has been copied is still what is live, unless it was written since; in a
\* restore it is what the user had.
CopyInv ==
  op.pc = "copy" =>
    \A k \in DOMAIN Files : k < op.at =>
      /\ live[Files[k]] = op.copy[Files[k]] \/ live[Files[k]] > op.base
      /\ op.kind = "restore" => \/ op.copy[Files[k]] = kept.content[Files[k]]
                                \/ op.copy[Files[k]] > kept.at

\* What has been compared after a recovery is what the user had.
ReverifyInv ==
  op.pc = "reverify" /\ op.clean =>
    \A k \in DOMAIN Files : k < op.at =>
      live[Files[k]] = Safety[Files[k]] \/ live[Files[k]] > op.base

\* What the user had is live or in a backup that nobody changes.
KeptSafe ==
  \/ HasKept(live)
  \/ \E i \in DOMAIN backups :
       backups[i].label # "kgw-db-backup" /\ HasKept(backups[i].content)

IInv ==
  /\ TypeOK /\ PhaseInv /\ NewerInv /\ KeptLive /\ SafetyInv /\ CopyInv /\ ReverifyInv
  /\ KeptSafe /\ FailedRestoreChangesNothing

-----------------------------------------------------------------------------
(* Files and contents.                                                     *)

\* The files are those in the list, in its order.
LEMMA FileFacts ==
  /\ Len(Files) \in Nat /\ DOMAIN Files = 1..Len(Files)
  /\ \A k \in 1..Len(Files) : Files[k] \in DBs
  /\ \A f \in DBs : \E k \in 1..Len(Files) : Files[k] = f
<1>1. Files \in Seq(STRING)
  BY FilesAssumption
<1>2. Len(Files) \in Nat /\ DOMAIN Files = 1..Len(Files)
  BY <1>1
<1> QED BY <1>2 DEF DBs, ToSet

\* A pass over all files has seen each of them.
LEMMA PassComplete ==
  ASSUME NEW S, NEW n \in Nat, n > Len(Files),
         \A k \in DOMAIN Files : k < n => Files[k] \in S
  PROVE  DBs \subseteq S
<1>1. ASSUME NEW f \in DBs PROVE f \in S
  <2>1. PICK k \in 1..Len(Files) : Files[k] = f
    BY FileFacts
  <2> QED BY <2>1, FileFacts
<1> QED BY <1>1

\* A file of one content may be put into another.
LEMMA ContentFacts ==
  ASSUME NEW c \in Contents, NEW d \in Contents, NEW f \in DBs
  PROVE  [c EXCEPT ![f] = d[f]] \in Contents
BY DEF Contents

\* What the types say about the operation under way.
LEMMA OpFacts ==
  ASSUME TypeOK
  PROVE  /\ op \in OpType /\ op.at \in Nat /\ op.safety \in Nat /\ op.selected \in Nat
         /\ op.copy \in Contents /\ op.pinned \in Contents /\ live \in Contents
         /\ ~AllDone /\ op.at # 0 => op.at \in 1..Len(Files) /\ Current \in DBs
         /\ Len(backups) \in Nat /\ DOMAIN backups = 1..Len(backups)
         /\ \A i \in DOMAIN backups : /\ backups[i].label \in ToSet(Labels)
                                      /\ backups[i].content \in Contents
         /\ op.base \in Nat /\ written \in Nat /\ kept.at \in Nat
         /\ kept.content \in Contents
<1>1. op \in OpType /\ live \in Contents
  BY DEF TypeOK
<1>2. /\ op.at \in 0..Len(Files) + 1 /\ op.copy \in Contents /\ op.pinned \in Contents
      /\ op.safety \in 0..MaxBackups /\ op.selected \in 0..MaxBackups
  BY <1>1 DEF OpType
<1>3. op.at \in Nat /\ op.safety \in Nat /\ op.selected \in Nat
  BY <1>2, FileFacts, FilesAssumption
<1>4. ~AllDone /\ op.at # 0 => op.at \in 1..Len(Files) /\ Current \in DBs
  BY <1>3, FileFacts DEF AllDone, Current
<1>5. backups \in Seq([label : ToSet(Labels), content : Contents])
  BY DEF TypeOK
<1>6. Len(backups) \in Nat /\ DOMAIN backups = 1..Len(backups)
  BY <1>5
<1>7. \A i \in DOMAIN backups : backups[i] \in [label : ToSet(Labels), content : Contents]
  BY <1>5, <1>6, ElementOfSeq
<1>8. op.base \in Nat /\ written \in Nat /\ kept.at \in Nat /\ kept.content \in Contents
  BY <1>1, FilesAssumption DEF OpType, TypeOK
<1> QED BY <1>1, <1>2, <1>3, <1>4, <1>6, <1>7, <1>8

\* A step of the operation that changes no file and no backup.
LEMMA OpStep ==
  ASSUME IInv, op' \in OpType, UNCHANGED <<live, written, backups, kept>>,
         pending' \subseteq DBs, op'.safety \in {0, op.safety},
         \/ op'.kind = op.kind /\ op'.base = op.base
         \/ op'.kind # "restore" /\ op'.base \in {0, written},
         PhaseInv', KeptLive', CopyInv', ReverifyInv', FailedRestoreChangesNothing'
  PROVE  IInv'
<1>1. TypeOK'
  BY DEF IInv, TypeOK, PhaseInv, Replacing
<1>2. SafetyInv' /\ KeptSafe'
  BY DEF IInv, SafetyInv, KeptSafe, HasKept
<1>3. NewerInv'
  BY OpFacts DEF IInv, NewerInv
<1> QED BY <1>1, <1>2, <1>3 DEF IInv

\* No operation is under way.
LEMMA IdleFacts ==
  /\ Idle \in OpType
  /\ Idle.pc = "idle" /\ Idle.kind = "none" /\ Idle.then = "none" /\ Idle.safety = 0
  /\ Idle.at = 1 /\ Idle.target = "none" /\ Idle.result = "none" /\ Idle.base = 0
<1>1. Nothing \in Contents
  BY FilesAssumption DEF Nothing, Contents, Foreign
<1>2. 1 \in 0..Len(Files) + 1 /\ 0 \in 0..MaxBackups /\ 0 \in 0..MaxWrites
  BY FileFacts, FilesAssumption
<1> QED BY <1>1, <1>2 DEF Idle, OpType

\* Nothing is under way, and what the user has is live.
LEMMA InitEstablishes == Init => IInv
<1> SUFFICES ASSUME Init PROVE IInv
  OBVIOUS
<1> USE DEF Init
<1>1. TypeOK
  <2>1. live \in Contents
    BY FilesAssumption DEF Contents, Foreign
  <2>2. kept \in [content : Contents, at : 0..MaxWrites]
    BY <2>1, FilesAssumption
  <2>3. written \in 0..MaxWrites /\ Len(backups) <= MaxBackups
        /\ backups \in Seq([label : ToSet(Labels), content : Contents])
    BY FilesAssumption
  <2> QED BY <2>1, <2>2, <2>3, IdleFacts DEF TypeOK
<1>2. PhaseInv
  BY IdleFacts DEF PhaseInv, Replacing, Protected
<1> QED
  BY <1>1, <1>2, IdleFacts DEF IInv, NewerInv, KeptLive, Untouched, SafetyInv, CopyInv,
     ReverifyInv, KeptSafe, HasKept, FailedRestoreChangesNothing

-----------------------------------------------------------------------------
(* One lemma per action.                                                   *)

\* A backup or a deletion begins with nothing copied.
LEMMA BackupBeginPreserves ==
  ASSUME IInv, BackupBegin \/ \E f \in DBs : DeleteBegin(f)
  PROVE  IInv'
<1>1. Len(backups) < MaxBackups /\ UNCHANGED <<live, written, backups, pending, kept>>
  BY DEF BackupBegin, DeleteBegin
<1>2. /\ op'.pc = "copy" /\ op'.then = "none" /\ op'.safety = 0 /\ op'.at = 1
      /\ op'.kind \in {"backup", "delete"} /\ (op'.kind = "delete" => op'.target \in DBs)
      /\ op'.base = written
  <2>1. CASE BackupBegin
    BY <2>1 DEF BackupBegin, Idle
  <2>2. CASE \E f \in DBs : DeleteBegin(f)
    <3>1. PICK f \in DBs : op' = [Idle EXCEPT !.pc = "copy", !.kind = "delete", !.target = f,
                                     !.base = written]
      BY <2>2 DEF DeleteBegin
    <3> QED BY <3>1 DEF Idle
  <2> QED BY <2>1, <2>2
<1>3. op' \in OpType
  <2>1. ASSUME NEW o \in OpType, NEW t \in DBs \union {"none"}, NEW b \in 0..MaxWrites
        PROVE  [o EXCEPT !.pc = "copy", !.kind = "delete", !.target = t, !.base = b]
                 \in OpType
    BY DEF OpType
  <2>2. ASSUME NEW o \in OpType, NEW b \in 0..MaxWrites
        PROVE  [o EXCEPT !.pc = "copy", !.kind = "backup", !.base = b] \in OpType
    BY DEF OpType
  <2>3. Idle \in OpType /\ written \in 0..MaxWrites
    BY IdleFacts DEF IInv, TypeOK
  <2>4. CASE BackupBegin
    BY <2>2, <2>3, <2>4 DEF BackupBegin
  <2>5. CASE \E f \in DBs : DeleteBegin(f)
    <3>1. PICK f \in DBs : op' = [Idle EXCEPT !.pc = "copy", !.kind = "delete", !.target = f,
                                     !.base = written]
      BY <2>5 DEF DeleteBegin
    <3>2. f \in DBs \union {"none"}
      OBVIOUS
    <3> HIDE DEF Idle, OpType
    <3> QED BY <2>1, <2>3, <3>1, <3>2
  <2> QED BY <2>4, <2>5
<1>4. PhaseInv'
  BY <1>1, <1>2 DEF PhaseInv, Replacing, Protected
<1>5. CopyInv' /\ KeptLive' /\ ReverifyInv' /\ FailedRestoreChangesNothing'
  BY <1>2, FileFacts DEF CopyInv, KeptLive, Untouched, ReverifyInv, FailedRestoreChangesNothing
<1>6. pending' \subseteq DBs
  BY <1>1 DEF IInv, TypeOK
<1> QED BY <1>1, <1>2, <1>3, <1>4, <1>5, <1>6, OpStep

\* One more file is copied as it is now.
LEMMA CopyFilePreserves ==
  ASSUME IInv, CopyFile
  PROVE  IInv'
<1> DEFINE copy == [op.copy EXCEPT ![Current] = live[Current]]
<1>1. /\ op.pc = "copy" /\ ~AllDone /\ UNCHANGED <<live, written, backups, pending, kept>>
      /\ op' = [[op EXCEPT !.at = @ + 1] EXCEPT !.copy = [@ EXCEPT ![Current] = live[Current]]]
  BY Zenon DEF CopyFile, NextFile
<1>2. /\ op \in OpType /\ op.at \in Nat /\ op.at # 0 /\ op.at \in 1..Len(Files)
      /\ Current \in DBs /\ op.copy \in Contents /\ live \in Contents
  BY <1>1, OpFacts DEF IInv, PhaseInv
<1>3. copy \in Contents
  BY <1>2, ContentFacts
<1>4. op' = [op EXCEPT !.at = op.at + 1, !.copy = copy]
  BY <1>1, <1>2 DEF OpType
<1> HIDE DEF copy
<1>5. op' \in OpType
  <2>1. op.at + 1 \in 0..Len(Files) + 1
    BY <1>2, FileFacts
  <2> QED BY <1>2, <1>3, <1>4, <2>1 DEF OpType
<1>6. /\ op'.pc = "copy" /\ op'.at = op.at + 1 /\ op'.copy = copy /\ op'.kind = op.kind
      /\ op'.then = op.then /\ op'.safety = op.safety /\ op'.target = op.target
      /\ op'.selected = op.selected /\ op'.base = op.base
  BY <1>1, <1>2, <1>4 DEF OpType
<1>7. PhaseInv'
  BY <1>1, <1>2, <1>6 DEF IInv, PhaseInv, Replacing, Protected
<1>8. KeptLive' /\ ReverifyInv' /\ FailedRestoreChangesNothing'
  BY <1>1, <1>6 DEF IInv, KeptLive, Untouched, HasKept, ReverifyInv, FailedRestoreChangesNothing
<1>9. CopyInv'
  <2>1. SUFFICES ASSUME NEW k \in DOMAIN Files, k < op.at + 1
                 PROVE  /\ live[Files[k]] = copy[Files[k]] \/ live[Files[k]] > op.base
                        /\ op.kind = "restore" => \/ copy[Files[k]] = kept.content[Files[k]]
                                                  \/ copy[Files[k]] > kept.at
    BY <1>1, <1>6 DEF CopyInv
  <2>2. k \in 1..Len(Files) /\ Files[k] \in DBs
    BY FileFacts
  <2>3. CASE Files[k] = Current
    <3>1. copy[Files[k]] = live[Files[k]]
      BY <1>2, <2>3 DEF copy, Contents
    <3>2. op.kind = "restore" => HasKept(live)
      BY <1>1 DEF IInv, KeptLive, Untouched
    <3> QED BY <2>2, <3>1, <3>2 DEF HasKept
  <2>4. CASE Files[k] # Current
    <3>1. k < op.at
      BY <1>2, <2>1, <2>2, <2>4, FileFacts DEF Current
    <3>2. copy[Files[k]] = op.copy[Files[k]]
      BY <1>2, <2>2, <2>4 DEF copy, Contents
    <3> QED BY <1>1, <2>1, <3>1, <3>2 DEF IInv, CopyInv
  <2> QED BY <2>3, <2>4
<1>10. pending' \subseteq DBs
  BY <1>1 DEF IInv, TypeOK
<1> QED BY <1>1, <1>5, <1>6, <1>7, <1>8, <1>9, <1>10, OpStep

\* The selected files are copied to the pinned backup, and it is checked next.
LEMMA PinPreserves ==
  ASSUME IInv, PinFile \/ PinDone
  PROVE  IInv'
<1>1. op.pc = "pin" /\ UNCHANGED <<live, written, backups, pending, kept>>
  BY DEF PinFile, PinDone
<1>2. /\ op \in OpType /\ op.at \in Nat /\ op.at # 0 /\ op.pinned \in Contents
      /\ op.selected \in DOMAIN backups /\ op.kind = "restore"
  BY <1>1, OpFacts DEF IInv, PhaseInv
<1>3. pending' \subseteq DBs
  BY <1>1 DEF IInv, TypeOK
<1>4. CASE PinFile
  <2> DEFINE pinned == [op.pinned EXCEPT ![Current] = Selected[Current]]
  <2>1. /\ ~AllDone
        /\ op' = [[op EXCEPT !.at = @ + 1] EXCEPT
                    !.pinned = [@ EXCEPT ![Current] = Selected[Current]]]
    BY <1>4, Zenon DEF PinFile, NextFile
  <2>2. op.at \in 1..Len(Files) /\ Current \in DBs /\ Selected \in Contents
    BY <1>2, <2>1, OpFacts DEF IInv, Selected
  <2>3. pinned \in Contents
    BY <1>2, <2>2, ContentFacts
  <2>4. op' = [op EXCEPT !.at = op.at + 1, !.pinned = pinned]
    BY <1>2, <2>1 DEF OpType
  <2> HIDE DEF pinned
  <2>5. op' \in OpType
    <3>1. op.at + 1 \in 0..Len(Files) + 1
      BY <2>2, FileFacts
    <3> QED BY <1>2, <2>3, <2>4, <3>1 DEF OpType
  <2>6. /\ op'.pc = "pin" /\ op'.at = op.at + 1 /\ op'.kind = op.kind
        /\ op'.then = op.then /\ op'.safety = op.safety /\ op'.target = op.target
        /\ op'.selected = op.selected /\ op'.base = op.base
    BY <1>1, <1>2, <2>4 DEF OpType
  <2>7. PhaseInv'
    BY <1>1, <1>2, <2>6 DEF IInv, PhaseInv, Replacing, Protected
  <2>8. KeptLive' /\ CopyInv' /\ ReverifyInv' /\ FailedRestoreChangesNothing'
    BY <1>1, <2>6 DEF IInv, KeptLive, Untouched, HasKept, CopyInv, ReverifyInv,
       FailedRestoreChangesNothing
  <2> QED BY <1>1, <1>3, <2>5, <2>6, <2>7, <2>8, OpStep
<1>5. CASE PinDone
  <2>1. op' = [[op EXCEPT !.pc = "check", !.at = 1] EXCEPT !.then = "validate"]
    BY <1>5, Zenon DEF PinDone, Goes
  <2>2. op' \in OpType
    <3>1. 1 \in 0..Len(Files) + 1
      BY FileFacts
    <3> QED BY <1>2, <2>1, <3>1 DEF OpType
  <2>3. /\ op'.pc = "check" /\ op'.at = 1 /\ op'.kind = op.kind
        /\ op'.then = "validate" /\ op'.safety = op.safety /\ op'.target = op.target
        /\ op'.selected = op.selected /\ op'.base = op.base
    BY <1>2, <2>1 DEF OpType
  <2>4. PhaseInv'
    BY <1>1, <1>2, <2>3 DEF IInv, PhaseInv, Replacing, Protected
  <2>5. KeptLive' /\ CopyInv' /\ ReverifyInv' /\ FailedRestoreChangesNothing'
    BY <1>1, <2>3 DEF IInv, KeptLive, Untouched, HasKept, CopyInv, ReverifyInv,
       FailedRestoreChangesNothing
  <2> QED BY <1>1, <1>3, <2>2, <2>3, <2>4, <2>5, OpStep
<1> QED BY <1>4, <1>5

\* An error before the first replacement leaves everything as it was; one after it
\* is taken back.
LEMMA AbortPreserves ==
  ASSUME IInv, op' = Abort, op.pc \notin {"idle", "done", "recover", "reverify"},
         op.pc = "apply" => ~AllDone, UNCHANGED <<live, written, backups, pending, kept>>
  PROVE  IInv'
<1>1. op \in OpType /\ op.at \in Nat /\ op.at # 0 /\ op.pc # "idle"
  BY OpFacts DEF IInv, PhaseInv
<1>2. pending' \subseteq DBs
  BY DEF IInv, TypeOK
<1>3. CASE op.pc \in {"apply", "verify"} \/ op.then = "success"
  <2> DEFINE at == IF op.pc = "apply" THEN op.at ELSE Len(Files)
  <2>1. op' = [op EXCEPT !.pc = "recover", !.at = at]
    BY <1>3 DEF Abort
  <2>2. at \in 0..Len(Files)
    BY <1>1, FileFacts DEF AllDone
  <2> HIDE DEF at
  <2>3. op' \in OpType
    <3>1. at \in 0..Len(Files) + 1
      BY <2>2, FileFacts
    <3> QED BY <1>1, <2>1, <3>1 DEF OpType
  <2>4. /\ op'.pc = "recover" /\ op'.at = at /\ op'.kind = op.kind
        /\ op'.then = op.then /\ op'.safety = op.safety /\ op'.target = op.target
        /\ op'.selected = op.selected /\ op'.base = op.base
    BY <1>1, <2>1 DEF OpType
  <2>5. op.then # "success" => op.pc \in Replacing
    BY <1>3 DEF Replacing
  <2>6. Protected /\ op.pc \notin {"pin", "copy", "validate"}
    BY <1>3, <2>5 DEF IInv, PhaseInv, Protected
  <2>7. op.kind = "restore"
    BY <1>1, <1>3, <2>6 DEF IInv, PhaseInv, Replacing, OpType
  <2>8. PhaseInv'
    BY <1>1, <2>2, <2>4, <2>6, <2>7, FileFacts DEF IInv, PhaseInv, Replacing, Protected
  <2>9. KeptLive' /\ CopyInv' /\ ReverifyInv' /\ FailedRestoreChangesNothing'
    BY <2>4 DEF KeptLive, Untouched, CopyInv, ReverifyInv, FailedRestoreChangesNothing
  <2> QED BY <1>2, <2>3, <2>4, <2>8, <2>9, OpStep
<1>4. CASE ~(op.pc \in {"apply", "verify"} \/ op.then = "success")
  <2>1. op' = [op EXCEPT !.pc = "done", !.result = "failed"]
    BY <1>4 DEF Abort, Ends
  <2>2. op' \in OpType
    <3>1. ASSUME NEW o \in OpType
          PROVE  [o EXCEPT !.pc = "done", !.result = "failed"] \in OpType
      BY DEF OpType
    <3> QED BY <1>1, <2>1, <3>1
  <2>3. /\ op'.pc = "done" /\ op'.at = op.at /\ op'.kind = op.kind /\ op'.result = "failed"
        /\ op'.then = op.then /\ op'.safety = op.safety /\ op'.target = op.target
        /\ op'.selected = op.selected /\ op'.base = op.base
    BY <1>1, <2>1 DEF OpType
  <2>4. PhaseInv'
    BY <1>1, <2>3 DEF IInv, PhaseInv, Replacing, Protected
  <2>5. KeptLive' /\ CopyInv' /\ ReverifyInv'
    BY <2>3 DEF KeptLive, Untouched, CopyInv, ReverifyInv
  <2>6. Untouched
    BY <1>1, <1>4 DEF Untouched, OpType
  <2>7. FailedRestoreChangesNothing'
    BY <2>3, <2>6 DEF IInv, KeptLive, HasKept, NewerInv, FailedRestoreChangesNothing
  <2> QED BY <1>2, <2>2, <2>3, <2>4, <2>5, <2>7, OpStep
<1> QED BY <1>3, <1>4

\* A check that finds no difference goes on, or a restore reports success.
LEMMA CheckFilePreserves ==
  ASSUME IInv, CheckFile
  PROVE  IInv'
<1>1. op.pc = "check" /\ UNCHANGED <<live, written, backups, pending, kept>>
  BY DEF CheckFile
<1>2. /\ op \in OpType /\ op.at \in Nat /\ op.at # 0 /\ op.kind = "restore"
      /\ op.then \in {"validate", "apply", "success"}
  BY <1>1, OpFacts DEF IInv, PhaseInv, OpType
<1>3. pending' \subseteq DBs
  BY <1>1 DEF IInv, TypeOK
<1>4. CASE op' = Abort
  BY <1>1, <1>4, AbortPreserves
<1>5. CASE ~AllDone /\ op' = NextFile
  <2>1. op' = [op EXCEPT !.at = op.at + 1] /\ op.at + 1 \in 0..Len(Files) + 1
    BY <1>2, <1>5, OpFacts, FileFacts DEF NextFile, IInv
  <2>2. op' \in OpType
    BY <1>2, <2>1 DEF OpType
  <2>3. /\ op'.pc = "check" /\ op'.at = op.at + 1 /\ op'.kind = op.kind
        /\ op'.then = op.then /\ op'.safety = op.safety /\ op'.target = op.target
        /\ op'.selected = op.selected /\ op'.base = op.base
    BY <1>1, <1>2, <2>1 DEF OpType
  <2>4. PhaseInv'
    BY <1>1, <1>2, <2>3 DEF IInv, PhaseInv, Replacing, Protected
  <2>5. KeptLive' /\ CopyInv' /\ ReverifyInv' /\ FailedRestoreChangesNothing'
    BY <1>1, <2>3 DEF IInv, KeptLive, Untouched, HasKept, CopyInv, ReverifyInv,
       FailedRestoreChangesNothing
  <2> QED BY <1>1, <1>3, <2>2, <2>3, <2>4, <2>5, OpStep
<1>6. CASE op.then = "success" /\ op' = Ends("restored")
  <2>1. op' = [op EXCEPT !.pc = "done", !.result = "restored"]
    BY <1>6 DEF Ends
  <2>2. op' \in OpType
    BY <1>2, <2>1 DEF OpType
  <2>3. /\ op'.pc = "done" /\ op'.at = op.at /\ op'.kind = op.kind /\ op'.result = "restored"
        /\ op'.then = op.then /\ op'.safety = op.safety /\ op'.target = op.target
        /\ op'.selected = op.selected /\ op'.base = op.base
    BY <1>2, <2>1 DEF OpType
  <2>4. PhaseInv'
    BY <1>1, <1>2, <2>3 DEF IInv, PhaseInv, Replacing, Protected
  <2>5. KeptLive' /\ CopyInv' /\ ReverifyInv' /\ FailedRestoreChangesNothing'
    BY <2>3 DEF KeptLive, Untouched, CopyInv, ReverifyInv, FailedRestoreChangesNothing
  <2> QED BY <1>1, <1>3, <2>2, <2>3, <2>4, <2>5, OpStep
<1>7. CASE op.then \in {"validate", "apply"} /\ op' = Goes(op.then)
  <2>1. op' = [op EXCEPT !.pc = op.then, !.at = 1]
    BY <1>7 DEF Goes
  <2>2. op' \in OpType
    <3>1. 1 \in 0..Len(Files) + 1
      BY FileFacts
    <3> QED BY <1>2, <1>7, <2>1, <3>1 DEF OpType
  <2>3. /\ op'.pc = op.then /\ op'.at = 1 /\ op'.kind = op.kind
        /\ op'.then = op.then /\ op'.safety = op.safety /\ op'.target = op.target
        /\ op'.selected = op.selected /\ op'.base = op.base
    BY <1>2, <2>1 DEF OpType
  <2>4. PhaseInv'
    BY <1>1, <1>2, <1>7, <2>3 DEF IInv, PhaseInv, Replacing, Protected
  <2>5. KeptLive' /\ CopyInv' /\ ReverifyInv' /\ FailedRestoreChangesNothing'
    BY <1>1, <1>7, <2>3 DEF IInv, KeptLive, Untouched, HasKept, CopyInv, ReverifyInv,
       FailedRestoreChangesNothing
  <2> QED BY <1>1, <1>3, <2>2, <2>3, <2>4, <2>5, OpStep
<1> QED BY <1>2, <1>4, <1>5, <1>6, <1>7 DEF CheckFile

\* Between two passes over the files nothing changes.
LEMMA PassPreserves ==
  ASSUME IInv, Validate \/ ApplyDone
  PROVE  IInv'
<1>1. PICK pc \in {"copy", "verify"} :
        /\ op' = [op EXCEPT !.pc = pc, !.at = 1]
        /\ op.pc = IF pc = "copy" THEN "validate" ELSE "apply"
  BY DEF Validate, ApplyDone, Goes
<1>2. UNCHANGED <<live, written, backups, pending, kept>>
  BY DEF Validate, ApplyDone
<1>3. op \in OpType /\ pending' \subseteq DBs
  BY <1>2 DEF IInv, TypeOK
<1>4. op' \in OpType
  <2>1. 1 \in 0..Len(Files) + 1
    BY FileFacts
  <2> QED BY <1>1, <1>3, <2>1 DEF OpType
<1>5. /\ op'.pc = pc /\ op'.at = 1 /\ op'.kind = op.kind
      /\ op'.then = op.then /\ op'.safety = op.safety /\ op'.target = op.target
      /\ op'.selected = op.selected /\ op'.base = op.base
  BY <1>1, <1>3 DEF OpType
<1>6. PhaseInv'
  BY <1>1, <1>2, <1>5 DEF IInv, PhaseInv, Replacing, Protected
<1>7. KeptLive' /\ CopyInv' /\ ReverifyInv' /\ FailedRestoreChangesNothing'
  BY <1>1, <1>2, <1>5, FileFacts DEF IInv, KeptLive, Untouched, HasKept, CopyInv, ReverifyInv,
     FailedRestoreChangesNothing
<1> QED BY <1>2, <1>3, <1>4, <1>5, <1>6, <1>7, OpStep

\* What was replaced is compared with the pinned copy.
LEMMA VerifyFilePreserves ==
  ASSUME IInv, VerifyFile
  PROVE  IInv'
<1>1. op.pc = "verify" /\ UNCHANGED <<live, written, backups, pending, kept>>
  BY DEF VerifyFile
<1>2. op \in OpType /\ op.at \in Nat /\ op.at # 0 /\ op.kind = "restore"
  BY <1>1, OpFacts DEF IInv, PhaseInv, Replacing
<1>3. pending' \subseteq DBs
  BY <1>1 DEF IInv, TypeOK
<1>4. CASE op' = Abort
  BY <1>1, <1>4, AbortPreserves
<1>5. CASE ~AllDone /\ op' = NextFile
  <2>1. op' = [op EXCEPT !.at = op.at + 1] /\ op.at + 1 \in 0..Len(Files) + 1
    BY <1>2, <1>5, OpFacts, FileFacts DEF NextFile, IInv
  <2>2. op' \in OpType
    BY <1>2, <2>1 DEF OpType
  <2>3. /\ op'.pc = "verify" /\ op'.at = op.at + 1 /\ op'.kind = op.kind
        /\ op'.then = op.then /\ op'.safety = op.safety /\ op'.target = op.target
        /\ op'.selected = op.selected /\ op'.base = op.base
    BY <1>1, <1>2, <2>1 DEF OpType
  <2>4. PhaseInv'
    BY <1>1, <1>2, <2>3 DEF IInv, PhaseInv, Replacing, Protected
  <2>5. KeptLive' /\ CopyInv' /\ ReverifyInv' /\ FailedRestoreChangesNothing'
    BY <2>3 DEF KeptLive, Untouched, CopyInv, ReverifyInv, FailedRestoreChangesNothing
  <2> QED BY <1>1, <1>3, <2>2, <2>3, <2>4, <2>5, OpStep
<1>6. CASE AllDone /\ op' = [Goes("check") EXCEPT !.then = "success"]
  <2>1. op' = [[op EXCEPT !.pc = "check", !.at = 1] EXCEPT !.then = "success"]
    BY <1>6, Zenon DEF Goes
  <2>2. op' \in OpType
    <3>1. 1 \in 0..Len(Files) + 1
      BY FileFacts
    <3> QED BY <1>2, <2>1, <3>1 DEF OpType
  <2>3. /\ op'.pc = "check" /\ op'.at = 1 /\ op'.kind = op.kind
        /\ op'.then = "success" /\ op'.safety = op.safety /\ op'.target = op.target
        /\ op'.selected = op.selected /\ op'.base = op.base
    BY <1>2, <2>1 DEF OpType
  <2>4. PhaseInv'
    BY <1>1, <1>2, <2>3 DEF IInv, PhaseInv, Replacing, Protected
  <2>5. KeptLive' /\ CopyInv' /\ ReverifyInv' /\ FailedRestoreChangesNothing'
    BY <2>3 DEF KeptLive, Untouched, CopyInv, ReverifyInv, FailedRestoreChangesNothing
  <2> QED BY <1>1, <1>3, <2>2, <2>3, <2>4, <2>5, OpStep
<1> QED BY <1>4, <1>5, <1>6 DEF VerifyFile

\* After a clean recovery everything is compared with the safety backup.
LEMMA ReverifyFilePreserves ==
  ASSUME IInv, ReverifyFile
  PROVE  IInv'
<1>1. op.pc = "reverify" /\ UNCHANGED <<live, written, backups, pending, kept>>
  BY DEF ReverifyFile
<1>2. /\ op \in OpType /\ op.at \in Nat /\ op.at # 0 /\ op.kind = "restore"
      /\ op.clean \in BOOLEAN
  BY <1>1, OpFacts DEF IInv, PhaseInv, Replacing, OpType
<1>3. pending' \subseteq DBs /\ op.safety # 0
  BY <1>1 DEF IInv, TypeOK
<1>4. CASE AllDone /\ op' = Ends(IF op.clean THEN "recovered" ELSE "unrecovered")
  <2> DEFINE result == IF op.clean THEN "recovered" ELSE "unrecovered"
  <2>1. op' = [op EXCEPT !.pc = "done", !.result = result] /\ result \in {"recovered", "unrecovered"}
    BY <1>4 DEF Ends
  <2>2. result = "recovered" => op.clean
    OBVIOUS
  <2> HIDE DEF result
  <2>3. op' \in OpType
    BY <1>2, <2>1 DEF OpType
  <2>4. /\ op'.pc = "done" /\ op'.at = op.at /\ op'.kind = op.kind /\ op'.result = result
        /\ op'.then = op.then /\ op'.safety = op.safety /\ op'.target = op.target
        /\ op'.selected = op.selected /\ op'.base = op.base
    BY <1>2, <2>1 DEF OpType
  <2>5. PhaseInv'
    BY <1>1, <1>2, <2>4 DEF IInv, PhaseInv, Replacing, Protected
  <2>6. KeptLive' /\ CopyInv' /\ ReverifyInv'
    BY <2>4 DEF KeptLive, Untouched, CopyInv, ReverifyInv
  <2>7. result = "recovered" => \A f \in DBs : live[f] = kept.content[f] \/ live[f] > op.base
    <3> DEFINE S == {f \in DBs : live[f] = Safety[f] \/ live[f] > op.base}
    <3>1. op.at > Len(Files)
      BY <1>4 DEF AllDone
    <3>2. SUFFICES ASSUME op.clean
                   PROVE  \A f \in DBs : live[f] = kept.content[f] \/ live[f] > op.base
      BY <2>2
    <3>3. \A k \in DOMAIN Files : k < op.at => Files[k] \in S
      BY <1>1, <3>2, FileFacts DEF IInv, ReverifyInv
    <3>4. DBs \subseteq S
      <4> HIDE DEF S
      <4> QED BY <1>2, <3>1, <3>3, PassComplete
    <3>5. HasKept(Safety) /\ kept.at = op.base
      BY <1>2, <1>3 DEF IInv, SafetyInv, Safety, NewerInv
    <3> QED BY <3>4, <3>5 DEF HasKept
  <2>8. FailedRestoreChangesNothing'
    BY <1>1, <2>1, <2>4, <2>7 DEF FailedRestoreChangesNothing
  <2> QED BY <1>1, <1>3, <2>3, <2>4, <2>5, <2>6, <2>8, OpStep
<1>5. CASE ~AllDone /\ op' = [NextFile EXCEPT !.clean = @ /\ live[Current] = Safety[Current]]
  <2> DEFINE clean == op.clean /\ live[Current] = Safety[Current]
  <2>1. op' = [[op EXCEPT !.at = @ + 1] EXCEPT !.clean = @ /\ live[Current] = Safety[Current]]
    BY <1>5, Zenon DEF NextFile
  <2>2. op.at + 1 \in 0..Len(Files) + 1
    BY <1>2, <1>5, OpFacts, FileFacts DEF IInv
  <2>3. clean \in BOOLEAN
    BY <1>2, Zenon
  <2>4. op' = [[op EXCEPT !.at = op.at + 1] EXCEPT !.clean = clean]
    BY <1>2, <2>1 DEF OpType
  <2>5. clean => op.clean /\ live[Current] = Safety[Current]
    BY <1>2, Zenon
  <2> HIDE DEF clean
  <2>6. op' \in OpType
    BY <1>2, <2>2, <2>3, <2>4 DEF OpType
  <2>7. /\ op'.pc = "reverify" /\ op'.at = op.at + 1 /\ op'.kind = op.kind
        /\ op'.then = op.then /\ op'.safety = op.safety /\ op'.target = op.target
        /\ op'.selected = op.selected /\ op'.base = op.base
    BY <1>1, <1>2, <2>4 DEF OpType
  <2>8. op'.clean = clean
    BY <1>2, <2>4 DEF OpType
  <2>9. PhaseInv'
    BY <1>1, <1>2, <2>7 DEF IInv, PhaseInv, Replacing, Protected
  <2>10. KeptLive' /\ CopyInv' /\ FailedRestoreChangesNothing'
    BY <2>7 DEF KeptLive, Untouched, CopyInv, FailedRestoreChangesNothing
  <2>11. ReverifyInv'
    <3>1. SUFFICES ASSUME clean, NEW k \in DOMAIN Files, k < op.at + 1
                   PROVE  live[Files[k]] = Safety[Files[k]] \/ live[Files[k]] > op.base
      BY <1>1, <2>7, <2>8 DEF ReverifyInv, Safety
    <3>2. CASE k = op.at
      BY <2>5, <3>1, <3>2 DEF Current
    <3>3. CASE k # op.at
      <4>1. k < op.at
        BY <1>2, <3>1, <3>3, FileFacts
      <4> QED BY <1>1, <2>5, <3>1, <4>1 DEF IInv, ReverifyInv
    <3> QED BY <3>2, <3>3
  <2> QED BY <1>1, <1>3, <2>6, <2>7, <2>9, <2>10, <2>11, OpStep
<1> QED BY <1>4, <1>5 DEF ReverifyFile

\* An operation that is over leaves its result to the user.
LEMMA ToIdlePreserves ==
  ASSUME IInv, Crash \/ Finish
  PROVE  IInv'
<1>1. op' = Idle /\ UNCHANGED <<live, written, backups, kept>>
  BY DEF Crash, Finish
<1>2. pending' \subseteq DBs
  BY DEF Crash, Finish, IInv, TypeOK, PhaseInv
<1>3. PhaseInv'
  BY <1>1, IdleFacts DEF PhaseInv, Replacing, Protected
<1>4. KeptLive' /\ CopyInv' /\ ReverifyInv' /\ FailedRestoreChangesNothing'
  BY <1>1, IdleFacts DEF KeptLive, Untouched, CopyInv, ReverifyInv, FailedRestoreChangesNothing
<1> QED BY <1>1, <1>2, <1>3, <1>4, IdleFacts, OpStep

\* A step of a restore that changes a file has the safety backup.
LEMMA ReplaceStep ==
  ASSUME IInv, op.pc \in {"apply", "recover"}, op' \in OpType, live' \in Contents,
         UNCHANGED <<written, backups, pending, kept>>, PhaseInv',
         op'.pc \in {"apply", "recover", "reverify"}, op'.safety = op.safety,
         op'.kind = op.kind, op'.base = op.base,
         op'.pc = "reverify" => op'.at = 1
  PROVE  IInv'
<1>1. op.safety # 0 /\ op.safety \in DOMAIN backups
  BY DEF IInv, TypeOK
<1>2. TypeOK'
  BY DEF IInv, TypeOK
<1>3. KeptLive' /\ CopyInv' /\ ReverifyInv' /\ FailedRestoreChangesNothing'
  BY FileFacts DEF KeptLive, Untouched, CopyInv, ReverifyInv, FailedRestoreChangesNothing
<1>4. SafetyInv' /\ KeptSafe' /\ NewerInv'
  BY <1>1 DEF IInv, SafetyInv, KeptSafe, HasKept, NewerInv
<1> QED BY <1>2, <1>3, <1>4 DEF IInv

\* A database is replaced when the safety backup exists.
LEMMA ApplyFilePreserves ==
  ASSUME IInv, ApplyFile
  PROVE  IInv'
<1>1. /\ op.pc = "apply" /\ ~AllDone /\ live' = [live EXCEPT ![Current] = op.pinned[Current]]
      /\ op' = [op EXCEPT !.at = @ + 1] /\ UNCHANGED <<written, backups, pending, kept>>
  BY DEF ApplyFile, NextFile
<1>2. /\ op \in OpType /\ op.at \in Nat /\ op.at # 0 /\ op.at \in 1..Len(Files)
      /\ Current \in DBs /\ op.pinned \in Contents /\ live \in Contents
  BY <1>1, OpFacts DEF IInv, PhaseInv
<1>3. live' \in Contents
  BY <1>1, <1>2, ContentFacts
<1>4. op' = [op EXCEPT !.at = op.at + 1] /\ op.at + 1 \in 0..Len(Files) + 1
  BY <1>1, <1>2, FileFacts
<1>5. op' \in OpType
  BY <1>2, <1>4 DEF OpType
<1>6. /\ op'.pc = "apply" /\ op'.at = op.at + 1 /\ op'.kind = op.kind
      /\ op'.then = op.then /\ op'.safety = op.safety /\ op'.target = op.target
      /\ op'.selected = op.selected /\ op'.base = op.base
  BY <1>1, <1>2, <1>4 DEF OpType
<1>7. PhaseInv'
  BY <1>1, <1>2, <1>6 DEF IInv, PhaseInv, Replacing, Protected
<1> QED BY <1>1, <1>3, <1>5, <1>6, <1>7, ReplaceStep

\* A recovery goes back over the files, from the safety backup.
LEMMA RecoverFilePreserves ==
  ASSUME IInv, RecoverFile
  PROVE  IInv'
<1>1. op.pc = "recover" /\ UNCHANGED <<written, backups, pending, kept>>
  BY DEF RecoverFile
<1>2. /\ op \in OpType /\ op.at \in Nat /\ op.at <= Len(Files) /\ live \in Contents
      /\ op.safety \in DOMAIN backups /\ Safety \in Contents
  BY <1>1, OpFacts DEF IInv, PhaseInv, TypeOK, Safety
<1>3. CASE op.at = 0 /\ op' = Goes("reverify") /\ UNCHANGED live
  <2>1. op' = [op EXCEPT !.pc = "reverify", !.at = 1]
    BY <1>3 DEF Goes
  <2>2. op' \in OpType
    <3>1. 1 \in 0..Len(Files) + 1
      BY FileFacts
    <3> QED BY <1>2, <2>1, <3>1 DEF OpType
  <2>3. /\ op'.pc = "reverify" /\ op'.at = 1 /\ op'.kind = op.kind
        /\ op'.then = op.then /\ op'.safety = op.safety /\ op'.target = op.target
        /\ op'.selected = op.selected /\ op'.base = op.base
    BY <1>2, <2>1 DEF OpType
  <2>4. PhaseInv'
    BY <1>1, <1>2, <2>3 DEF IInv, PhaseInv, Replacing, Protected
  <2> QED BY <1>1, <1>2, <1>3, <2>2, <2>3, <2>4, ReplaceStep
<1>4. CASE op.at > 0 /\ op'.pc = "recover" /\ op'.at = op.at - 1
  <2>1. op' = [op EXCEPT !.at = op.at - 1] \/ op' = [op EXCEPT !.at = op.at - 1, !.clean = FALSE]
    BY <1>2, <1>4 DEF RecoverFile
  <2>2. op.at - 1 \in 0..Len(Files) + 1 /\ op.at - 1 <= Len(Files)
    BY <1>2, <1>4, FileFacts
  <2>3. op' \in OpType
    <3>1. ASSUME NEW at \in 0..Len(Files) + 1
          PROVE  [op EXCEPT !.at = at] \in OpType /\ [op EXCEPT !.at = at, !.clean = FALSE] \in OpType
      BY <1>2 DEF OpType
    <3>2. op.at - 1 \in 0..Len(Files) + 1
      BY <2>2
    <3> QED BY <2>1, <3>1, <3>2
  <2>4. /\ op'.pc = "recover" /\ op'.at = op.at - 1 /\ op'.kind = op.kind
        /\ op'.then = op.then /\ op'.safety = op.safety /\ op'.target = op.target
        /\ op'.selected = op.selected /\ op'.base = op.base
    BY <1>1, <1>2, <2>1 DEF OpType
  <2>5. PhaseInv'
    BY <1>1, <1>2, <2>2, <2>4 DEF IInv, PhaseInv, Replacing, Protected
  <2>6. live' \in Contents
    <3>1. Current \in DBs
      BY <1>2, <1>4, FileFacts DEF Current
    <3>2. live' = live \/ live' = [live EXCEPT ![Current] = Safety[Current]]
      BY <1>4 DEF RecoverFile
    <3> QED BY <1>2, <3>1, <3>2, ContentFacts
  <2> QED BY <1>1, <2>3, <2>4, <2>5, <2>6, ReplaceStep
<1>5. op.at > 0 => op'.pc = "recover" /\ op'.at = op.at - 1
  <2>1. SUFFICES ASSUME op.at > 0, op' = [op EXCEPT !.at = @ - 1]
                          \/ op' = [op EXCEPT !.at = @ - 1, !.clean = FALSE]
                 PROVE  op'.pc = "recover" /\ op'.at = op.at - 1
    BY <1>2 DEF RecoverFile
  <2> QED BY <1>1, <1>2, <2>1 DEF OpType
<1> QED BY <1>2, <1>3, <1>4, <1>5 DEF RecoverFile

\* A write is newer than whatever has begun, and may come at any time.
LEMMA WritePreserves ==
  ASSUME IInv, NEW f \in DBs, Write(f)
  PROVE  IInv'
<1>1. /\ live' = [live EXCEPT ![f] = written + 1] /\ written' = written + 1
      /\ written < MaxWrites /\ UNCHANGED <<backups, op, pending, kept>>
  BY DEF Write
<1>2. /\ live \in Contents /\ written \in 0..MaxWrites /\ written \in Nat
      /\ op.base \in Nat /\ kept.at \in Nat /\ op.base <= written /\ kept.at <= written
  BY OpFacts DEF IInv, TypeOK, NewerInv
<1>3. written + 1 \in 0..MaxWrites /\ written + 1 \in Foreign..MaxWrites
  BY <1>1, <1>2, FilesAssumption DEF Foreign
<1>4. live' \in Contents
  BY <1>1, <1>2, <1>3 DEF Contents
<1>5. \A g \in DBs : live'[g] = live[g] \/ (live'[g] > op.base /\ live'[g] > kept.at)
  BY <1>1, <1>2 DEF Contents
<1>6. TypeOK'
  BY <1>1, <1>3, <1>4 DEF IInv, TypeOK
<1>7. PhaseInv' /\ NewerInv'
  BY <1>1, <1>2 DEF IInv, PhaseInv, Replacing, Protected, NewerInv
<1>8. HasKept(live) => HasKept(live)'
  BY <1>1, <1>5 DEF HasKept
<1>9. KeptLive' /\ SafetyInv' /\ KeptSafe'
  BY <1>1, <1>8 DEF IInv, KeptLive, Untouched, SafetyInv, KeptSafe, HasKept
<1>10. CopyInv' /\ ReverifyInv'
  BY <1>1, <1>5, FileFacts DEF IInv, CopyInv, ReverifyInv, Safety
<1>11. FailedRestoreChangesNothing'
  BY <1>1, <1>5 DEF IInv, FailedRestoreChangesNothing
<1> QED BY <1>6, <1>7, <1>9, <1>10, <1>11 DEF IInv

\* A deletion waits for the lock; what is left is what the user has.
LEMMA DeleteFilePreserves ==
  ASSUME IInv, NEW f \in DBs, DeleteFile(f)
  PROVE  IInv'
<1>1. /\ live' = [live EXCEPT ![f] = 0] /\ op.pc = "idle"
      /\ kept' = IF HasKept(live) THEN [content |-> live', at |-> written] ELSE kept
      /\ pending' \subseteq pending /\ UNCHANGED <<written, backups, op>>
  BY DEF DeleteFile, Deleted
<1>2. live \in Contents /\ written \in 0..MaxWrites /\ written \in Nat
      /\ kept \in [content : Contents, at : 0..MaxWrites] /\ pending \subseteq DBs
  BY OpFacts DEF IInv, TypeOK
<1>3. 0 \in Foreign..MaxWrites
  BY FilesAssumption DEF Foreign
<1>4. live' \in Contents
  BY <1>1, <1>2, <1>3 DEF Contents
<1>5. kept' \in [content : Contents, at : 0..MaxWrites]
  BY <1>1, <1>2, <1>4
<1>6. TypeOK'
  BY <1>1, <1>2, <1>4, <1>5 DEF IInv, TypeOK
<1>7. PhaseInv' /\ op.kind = "none" /\ op.safety = 0
  BY <1>1 DEF IInv, PhaseInv, Replacing, Protected
<1>8. NewerInv'
  BY <1>1, <1>2, <1>7 DEF IInv, NewerInv
<1>9. KeptSafe'
  <2>1. CASE HasKept(live)
    <3>1. kept'.content = live'
      BY <1>1, <2>1
    <3> QED BY <3>1 DEF KeptSafe, HasKept
  <2>2. CASE ~HasKept(live)
    BY <1>1, <2>2 DEF IInv, KeptSafe, HasKept
  <2> QED BY <2>1, <2>2
<1>10. (KeptLive /\ SafetyInv /\ CopyInv /\ ReverifyInv /\ FailedRestoreChangesNothing)'
  BY <1>1, <1>7 DEF KeptLive, SafetyInv, CopyInv, ReverifyInv, FailedRestoreChangesNothing
<1> QED BY <1>6, <1>7, <1>8, <1>9, <1>10 DEF IInv

\* Only a backup the user made is changed by somebody else.
LEMMA TamperPreserves ==
  ASSUME IInv, NEW i \in DOMAIN backups, NEW S \in SUBSET DBs, Tamper(i, S)
  PROVE  IInv'
<1> DEFINE content == [f \in DBs |-> IF f \in S THEN Foreign ELSE backups[i].content[f]]
           B == [label : ToSet(Labels), content : Contents]
<1>1. /\ backups' = [backups EXCEPT ![i] = [@ EXCEPT !.content = content]]
      /\ backups[i].label = "kgw-db-backup"
      /\ op' = op \/ op' = [op EXCEPT !.seen = @ \union {backups'[i].content}]
      /\ UNCHANGED <<live, written, pending, kept>>
  BY DEF Tamper
<1>2. backups \in Seq(B) /\ Len(backups) \in Nat /\ DOMAIN backups = 1..Len(backups)
      /\ op \in OpType /\ \A j \in DOMAIN backups : backups[j] \in B
  BY OpFacts, ElementOfSeq DEF IInv, TypeOK
<1>3. content \in Contents
  <2>1. backups[i].content \in Contents
    BY <1>2
  <2>2. Foreign \in Foreign..MaxWrites
    BY FilesAssumption DEF Foreign
  <2> QED BY <2>1, <2>2 DEF Contents
<1> DEFINE new == [backups[i] EXCEPT !.content = content]
<1> HIDE DEF content
<1>4. new \in B /\ new.label = backups[i].label /\ new.content = content
  BY <1>2, <1>3
<1>5. backups' = [backups EXCEPT ![i] = new]
  BY <1>1
<1> HIDE DEF new
<1>6. backups' \in Seq(B) /\ Len(backups') = Len(backups)
  <2> HIDE DEF B
  <2> QED BY <1>2, <1>4, <1>5, ExceptSeq
<1>7. DOMAIN backups' = DOMAIN backups /\ backups'[i] = new
      /\ \A j \in DOMAIN backups : j # i => backups'[j] = backups[j]
  BY <1>5
<1>8. op' \in OpType
  <2>1. backups'[i].content \in Contents
    BY <1>3, <1>4, <1>7
  <2> QED BY <1>1, <1>2, <2>1 DEF OpType
<1>9. /\ op'.pc = op.pc /\ op'.at = op.at /\ op'.kind = op.kind /\ op'.then = op.then
      /\ op'.safety = op.safety /\ op'.target = op.target /\ op'.selected = op.selected
      /\ op'.copy = op.copy /\ op'.clean = op.clean /\ op'.result = op.result
      /\ op'.base = op.base
  BY <1>1, <1>2 DEF OpType
<1>10. TypeOK'
  BY <1>1, <1>6, <1>7, <1>8, <1>9 DEF IInv, TypeOK
<1>11. (PhaseInv /\ NewerInv /\ KeptLive /\ CopyInv /\ FailedRestoreChangesNothing)'
  BY <1>1, <1>6, <1>7, <1>9 DEF IInv, PhaseInv, Replacing, Protected, NewerInv, KeptLive,
     Untouched, HasKept, CopyInv, FailedRestoreChangesNothing
<1>12. op.safety # 0 => op.safety \in DOMAIN backups /\ backups'[op.safety] = backups[op.safety]
  BY <1>1, <1>7 DEF IInv, TypeOK, SafetyInv
<1>13. SafetyInv' /\ ReverifyInv'
  <2>1. SafetyInv'
    BY <1>1, <1>9, <1>12 DEF IInv, SafetyInv, HasKept
  <2>2. op.pc = "reverify" => op.safety # 0
    BY DEF IInv, TypeOK
  <2>3. op.pc = "reverify" => Safety' = Safety
    BY <1>9, <1>12, <2>2 DEF Safety
  <2>4. ReverifyInv'
    BY <1>1, <1>9, <2>3 DEF IInv, ReverifyInv
  <2> QED BY <2>1, <2>4
<1>14. KeptSafe'
  BY <1>1, <1>7 DEF IInv, KeptSafe, HasKept
<1> QED BY <1>10, <1>11, <1>13, <1>14 DEF IInv

\* The copy that is published is what is live, but for newer writes, and what the user
\* had when a restore began.
LEMMA PublishFacts ==
  ASSUME IInv, Publish
  PROVE  /\ \A f \in DBs : live[f] = op.copy[f] \/ live[f] > op.base
         /\ op.kind = "restore" => HasKept(op.copy)
         /\ UNCHANGED <<live, written, pending, kept>>
         /\ op.kind # "none" /\ op.safety = 0 /\ op.pc = "copy" /\ op \in OpType
         /\ backups' \in Seq([label : ToSet(Labels), content : Contents])
         /\ Len(backups) \in Nat /\ Len(backups') = Len(backups) + 1
         /\ Len(backups') <= MaxBackups
         /\ DOMAIN backups = 1..Len(backups) /\ DOMAIN backups' = 1..Len(backups')
         /\ \A i \in DOMAIN backups : backups'[i] = backups[i]
         /\ backups'[Len(backups')] = [label |-> Label, content |-> op.copy]
<1>1. /\ op.pc = "copy" /\ AllDone /\ UNCHANGED <<live, written, pending, kept>>
      /\ backups' = Append(backups, [label |-> Label, content |-> op.copy])
  BY DEF Publish
<1>2. /\ op \in OpType /\ op.at \in Nat /\ op.kind # "none" /\ op.safety = 0
      /\ Len(backups) \in Nat /\ Len(backups) < MaxBackups /\ op.copy \in Contents
      /\ DOMAIN backups = 1..Len(backups)
  BY <1>1, OpFacts DEF IInv, PhaseInv, Protected
<1>3. /\ \A f \in DBs : live[f] = op.copy[f] \/ live[f] > op.base
      /\ op.kind = "restore" => HasKept(op.copy)
  <2> DEFINE S == {f \in DBs :
                     /\ live[f] = op.copy[f] \/ live[f] > op.base
                     /\ op.kind = "restore" => \/ op.copy[f] = kept.content[f]
                                               \/ op.copy[f] > kept.at}
  <2>1. op.at > Len(Files)
    BY <1>1 DEF AllDone
  <2>2. \A k \in DOMAIN Files : k < op.at => Files[k] \in S
    BY <1>1, FileFacts DEF IInv, CopyInv
  <2>3. DBs \subseteq S
    <3> HIDE DEF S
    <3> QED BY <1>2, <2>1, <2>2, PassComplete
  <2> QED BY <2>3 DEF HasKept
<1> DEFINE B == [label : ToSet(Labels), content : Contents]
           new == [label |-> Label, content |-> op.copy]
<1>4. backups \in Seq(B) /\ new \in B
  <2>1. Label \in ToSet(Labels)
    <3>1. op.kind \in {"backup", "delete", "restore"}
      BY <1>2 DEF OpType
    <3> QED BY <3>1 DEF Label, Labels, ToSet
  <2> QED BY <1>2, <2>1 DEF IInv, TypeOK
<1>5. /\ backups' \in Seq(B) /\ Len(backups') = Len(backups) + 1
      /\ \A i \in 1..Len(backups) : backups'[i] = backups[i]
      /\ backups'[Len(backups) + 1] = new
  <2> HIDE DEF B, new
  <2> QED BY <1>1, <1>4, AppendProperties DEF new
<1>6. Len(backups') <= MaxBackups
  BY <1>2, <1>5, FilesAssumption
<1>7. DOMAIN backups' = 1..Len(backups')
  <2> HIDE DEF B
  <2> QED BY <1>5
<1> QED BY <1>1, <1>2, <1>3, <1>5, <1>6, <1>7

\* A published copy of what is live may become the safety backup.
LEMMA PublishPreserves ==
  ASSUME IInv, Publish
  PROVE  IInv'
<1>1. /\ op.kind = "restore" => HasKept(op.copy)
      /\ UNCHANGED <<live, written, pending, kept>>
      /\ op.kind # "none" /\ op.safety = 0 /\ op.pc = "copy" /\ op \in OpType
      /\ backups' \in Seq([label : ToSet(Labels), content : Contents])
      /\ Len(backups) \in Nat /\ Len(backups') = Len(backups) + 1
      /\ Len(backups') <= MaxBackups
      /\ DOMAIN backups = 1..Len(backups) /\ DOMAIN backups' = 1..Len(backups')
      /\ \A i \in DOMAIN backups : backups'[i] = backups[i]
      /\ backups'[Len(backups')] = [label |-> Label, content |-> op.copy]
  BY PublishFacts
<1>2. KeptSafe'
  BY <1>1 DEF IInv, KeptSafe, HasKept
<1>3. op.then \in {"none", "validate"} /\ op.at # 0 /\ op.at \in 0..Len(Files) + 1
  BY <1>1 DEF IInv, PhaseInv, OpType
<1>4. CASE \E r \in {"failed", "made"} :
             /\ op' = [op EXCEPT !.pc = "done", !.result = r]
             /\ op.kind = "restore" => r = "failed"
  <2>1. PICK r \in {"failed", "made"} : op' = [op EXCEPT !.pc = "done", !.result = r]
    BY <1>4
  <2>2. /\ op'.pc = "done" /\ op'.at = op.at /\ op'.kind = op.kind
        /\ op'.then = op.then /\ op'.safety = op.safety /\ op'.target = op.target
        /\ op'.selected = op.selected /\ op'.base = op.base
    BY <1>1, <2>1 DEF OpType
  <2>3. op' \in OpType
    <3>1. op \in OpType /\ r \in {"failed", "made"}
      BY <1>1
    <3> QED BY <2>1, <3>1 DEF OpType
  <2>4. PhaseInv'
    BY <1>1, <1>3, <2>2 DEF IInv, PhaseInv, Replacing, Protected
  <2>5. TypeOK'
    BY <1>1, <2>2, <2>3 DEF IInv, TypeOK
  <2>6. KeptLive' /\ SafetyInv' /\ CopyInv' /\ ReverifyInv'
    BY <1>1, <2>2 DEF KeptLive, Untouched, SafetyInv, CopyInv, ReverifyInv
  <2>7. FailedRestoreChangesNothing' /\ NewerInv'
    BY <1>1, <2>2 DEF IInv, KeptLive, Untouched, HasKept, NewerInv,
       FailedRestoreChangesNothing
  <2> QED BY <1>2, <2>4, <2>5, <2>6, <2>7 DEF IInv
<1>5. CASE /\ op.kind = "restore"
           /\ op' = [Goes("check") EXCEPT !.then = "apply", !.safety = Len(backups')]
  <2>1. op' = [[op EXCEPT !.pc = "check", !.at = 1] EXCEPT
                  !.then = "apply", !.safety = Len(backups')]
    BY <1>5, Zenon DEF Goes
  <2>2. 1 \in 0..Len(Files) + 1 /\ Len(backups') \in 0..MaxBackups /\ Len(backups') # 0
        /\ Len(backups') \in DOMAIN backups'
    BY <1>1, FileFacts, FilesAssumption
  <2>3. op' \in OpType
    <3>1. ASSUME NEW o \in OpType, NEW at \in 0..Len(Files) + 1
          PROVE  [o EXCEPT !.pc = "check", !.at = at] \in OpType
      BY DEF OpType
    <3>2. ASSUME NEW o \in OpType, NEW n \in 0..MaxBackups
          PROVE  [o EXCEPT !.then = "apply", !.safety = n] \in OpType
      BY DEF OpType
    <3>3. 1 \in 0..Len(Files) + 1 /\ Len(backups') \in 0..MaxBackups /\ op \in OpType
      BY <1>1, <2>2
    <3> HIDE DEF OpType
    <3> QED BY <2>1, <3>1, <3>2, <3>3
  <2>4. /\ op'.pc = "check" /\ op'.at = 1 /\ op'.kind = op.kind /\ op'.then = "apply"
        /\ op'.safety = Len(backups') /\ op'.target = op.target /\ op'.selected = op.selected /\ op'.base = op.base
    BY <1>1, <2>1 DEF OpType
  <2>5. PhaseInv'
    BY <1>1, <1>5, <2>2, <2>4 DEF IInv, PhaseInv, Replacing, Protected
  <2>6. TypeOK'
    BY <1>1, <2>2, <2>3, <2>4 DEF IInv, TypeOK
  <2>7. HasKept(live) /\ HasKept(op.copy)
    BY <1>1, <1>5 DEF IInv, KeptLive, Untouched
  <2>8. /\ KeptLive' /\ CopyInv' /\ ReverifyInv' /\ FailedRestoreChangesNothing'
        /\ NewerInv'
    BY <1>1, <2>4, <2>7 DEF IInv, KeptLive, HasKept, CopyInv, ReverifyInv, NewerInv,
       FailedRestoreChangesNothing
  <2>9. SafetyInv'
    <3>1. Label = "kgw-pre-restore-backup"
      BY <1>5 DEF Label
    <3> QED BY <1>1, <2>4, <2>7, <3>1 DEF SafetyInv, HasKept
  <2> QED BY <1>2, <2>5, <2>6, <2>8, <2>9 DEF IInv
<1>6. Abort = [op EXCEPT !.pc = "done", !.result = "failed"]
  BY <1>1, <1>3 DEF Abort, Ends
<1> QED BY <1>4, <1>5, <1>6 DEF Publish, Ends

\* There is a last directory in the order of the names.
LEMMA LatestExists ==
  ASSUME TypeOK, backups # <<>>
  PROVE  /\ Latest \in DOMAIN backups
         /\ \A j \in DOMAIN backups :
              Rank(j) < Rank(Latest) \/ (Rank(j) = Rank(Latest) /\ j <= Latest)
<1>1. Len(backups) \in Nat /\ DOMAIN backups = 1..Len(backups) /\ 1 \in DOMAIN backups
  <2>1. Len(backups) \in Nat /\ DOMAIN backups = 1..Len(backups)
    BY OpFacts
  <2> QED BY <2>1 DEF TypeOK
<1>2. \A i \in DOMAIN backups : Rank(i) \in 1..3
  <2>1. DOMAIN Labels = 1..3
    BY DEF Labels
  <2>2. \A i \in DOMAIN backups : \E k \in DOMAIN Labels : Labels[k] = backups[i].label
    BY OpFacts DEF ToSet
  <2> QED BY <2>1, <2>2 DEF Rank
<1> DEFINE Ranks == {Rank(i) : i \in DOMAIN backups}
<1>3. PICK r \in Ranks : \A q \in Ranks : q <= r
  <2>1. Ranks \in SUBSET (0..3) /\ Ranks # {}
    BY <1>1, <1>2
  <2> HIDE DEF Ranks
  <2> QED BY <2>1, GreatestNatural
<1> DEFINE Top == {i \in DOMAIN backups : Rank(i) = r}
<1>4. PICK i \in Top : \A j \in Top : j <= i
  <2>1. Top \in SUBSET (0..Len(backups)) /\ Top # {}
    BY <1>1, <1>3
  <2> HIDE DEF Top
  <2> QED BY <1>1, <2>1, GreatestNatural
<1>5. \A j \in DOMAIN backups : Rank(j) < Rank(i) \/ (Rank(j) = Rank(i) /\ j <= i)
  <2>1. TAKE j \in DOMAIN backups
  <2>2. Rank(j) <= r /\ Rank(j) \in 1..3 /\ r \in 1..3 /\ Rank(i) = r
    BY <1>2, <1>3, <1>4
  <2> QED BY <1>4, <2>2
<1> QED BY <1>4, <1>5 DEF Latest

\* A restore begins with what the user has.
LEMMA RestoreBeginPreserves ==
  ASSUME IInv, RestoreBegin
  PROVE  IInv'
<1> DEFINE selected == Latest
           seen == {backups[Latest].content}
<1>1. /\ op' = [Idle EXCEPT !.pc = "pin", !.kind = "restore", !.selected = selected,
                            !.base = written, !.seen = seen]
      /\ kept' = [content |-> live, at |-> written] /\ Len(backups) < MaxBackups
      /\ UNCHANGED <<live, written, backups, pending>>
  BY DEF RestoreBegin
<1>2. selected \in DOMAIN backups
  BY LatestExists DEF IInv, RestoreBegin
<1>3. selected \in 0..MaxBackups /\ seen \subseteq Contents /\ written \in 0..MaxWrites
  <2>1. /\ Len(backups) \in Nat /\ DOMAIN backups = 1..Len(backups)
        /\ backups[selected].content \in Contents
    BY <1>2, OpFacts DEF IInv
  <2> QED BY <1>1, <1>2, <2>1, FilesAssumption DEF IInv, TypeOK
<1> HIDE DEF selected, seen
<1>4. op' \in OpType
  BY <1>1, <1>3, IdleFacts DEF OpType
<1>5. /\ op'.pc = "pin" /\ op'.kind = "restore" /\ op'.selected = selected /\ op'.at = 1
      /\ op'.then = "none" /\ op'.safety = 0 /\ op'.target = "none" /\ op'.base = written
  BY <1>1 DEF Idle
<1>6. PhaseInv'
  BY <1>1, <1>2, <1>5 DEF PhaseInv, Replacing, Protected
<1>7. TypeOK'
  <2>1. kept' \in [content : Contents, at : 0..MaxWrites]
    BY <1>1, <1>3 DEF IInv, TypeOK
  <2> QED BY <1>1, <1>4, <1>5, <2>1 DEF IInv, TypeOK
<1>8. (NewerInv /\ KeptLive /\ SafetyInv /\ CopyInv /\ ReverifyInv /\ KeptSafe)'
  <2>1. kept'.content = live' /\ kept'.at = written /\ written \in Nat
    BY <1>1, OpFacts DEF IInv
  <2> QED BY <1>1, <1>5, <2>1 DEF NewerInv, KeptLive, SafetyInv, CopyInv, ReverifyInv,
                                   KeptSafe, HasKept
<1>9. FailedRestoreChangesNothing'
  BY <1>5 DEF FailedRestoreChangesNothing
<1> QED BY <1>6, <1>7, <1>8, <1>9 DEF IInv

-----------------------------------------------------------------------------
\* Every step keeps the invariant.
LEMMA NextPreserves == IInv /\ [Next]_vars => IInv'
<1> SUFFICES ASSUME IInv, [Next]_vars PROVE IInv'
  OBVIOUS
<1>1. ASSUME NEW f \in DBs, Write(f) \/ DeleteFile(f) PROVE IInv'
  BY <1>1, WritePreserves, DeleteFilePreserves
<1>2. CASE BackupBegin \/ \E f \in DBs : DeleteBegin(f)
  BY <1>2, BackupBeginPreserves
<1>3. ASSUME NEW i \in DOMAIN backups, NEW S \in (SUBSET DBs) \ {{}}, Tamper(i, S) PROVE IInv'
  BY <1>3, TamperPreserves
<1>4. CASE StepFails
  BY <1>4, AbortPreserves DEF StepFails
<1>5. CASE Crash \/ Finish
  BY <1>5, ToIdlePreserves
<1>6. CASE CopyFile
  BY <1>6, CopyFilePreserves
<1>7. CASE Publish
  BY <1>7, PublishPreserves
<1>8. CASE RestoreBegin
  BY <1>8, RestoreBeginPreserves
<1>9. CASE PinFile \/ PinDone
  BY <1>9, PinPreserves
<1>10. CASE CheckFile
  BY <1>10, CheckFilePreserves
<1>11. CASE Validate \/ ApplyDone
  BY <1>11, PassPreserves
<1>12. CASE ApplyFile
  BY <1>12, ApplyFilePreserves
<1>13. CASE VerifyFile
  BY <1>13, VerifyFilePreserves
<1>14. CASE RecoverFile
  BY <1>14, RecoverFilePreserves
<1>15. CASE ReverifyFile
  BY <1>15, ReverifyFilePreserves
<1>16. CASE UNCHANGED vars
  <2>1. (TypeOK /\ PhaseInv /\ NewerInv)'
    BY <1>16 DEF vars, IInv, TypeOK, PhaseInv, Replacing, Protected, NewerInv
  <2>2. (KeptLive /\ SafetyInv /\ KeptSafe)'
    BY <1>16 DEF vars, IInv, KeptLive, Untouched, SafetyInv, KeptSafe, HasKept
  <2>3. (CopyInv /\ ReverifyInv /\ FailedRestoreChangesNothing)'
    BY <1>16 DEF vars, IInv, CopyInv, ReverifyInv, Safety, FailedRestoreChangesNothing
  <2> QED BY <2>1, <2>2, <2>3 DEF IInv
<1> QED
  BY <1>1, <1>2, <1>3, <1>4, <1>5, <1>6, <1>7, <1>8, <1>9, <1>10, <1>11, <1>12, <1>13,
     <1>14, <1>15, <1>16 DEF Next

\* The invariant holds of every behaviour.
LEMMA Inductive == Spec => []IInv
BY InitEstablishes, NextPreserves, PTL DEF Spec

-----------------------------------------------------------------------------
\* Every variable keeps its type; what replaces a file has a safety backup.
THEOREM TypeCorrect == Spec => []TypeOK
<1>1. IInv => TypeOK
  BY DEF IInv
<1> QED BY <1>1, Inductive, PTL

\* What the user had when a restore began is live or in a backup, all files in one
\* place, at every moment, whoever writes meanwhile (restore_with_hook).
THEOREM OriginalRecoverableHolds == Spec => []OriginalRecoverable
<1>1. IInv => OriginalRecoverable
  BY DEF IInv, KeptSafe, OriginalRecoverable
<1> QED BY <1>1, Inductive, PTL

\* A restore that fails and does not say RECOVERY FAILED left every file as it was,
\* unless it was written since (restore_with_hook).
THEOREM FailedRestoreChangesNothingHolds == Spec => []FailedRestoreChangesNothing
<1>1. IInv => FailedRestoreChangesNothing
  BY DEF IInv
<1> QED BY <1>1, Inductive, PTL

\* The files of a published backup are of one moment, but for those that were written
\* while it was made (backup_inner).
THEOREM PublishedIsCurrentHolds == Spec => PublishedIsCurrent
<1> DEFINE Published ==
      Len(backups') > Len(backups) =>
        \A f \in DBs : \/ backups'[Len(backups')].content[f] = live[f]
                       \/ live[f] > op.base
<1>1. IInv /\ [Next]_vars => [Published]_vars
  <2> SUFFICES ASSUME IInv, [Next]_vars, Len(backups') > Len(backups)
               PROVE  \A f \in DBs : \/ backups'[Len(backups')].content[f] = live[f]
                                     \/ live[f] > op.base
    OBVIOUS
  <2>1. Len(backups) \in Nat
    BY OpFacts DEF IInv
  <2>2. CASE Publish
    <3>1. /\ \A f \in DBs : live[f] = op.copy[f] \/ live[f] > op.base
          /\ backups'[Len(backups')] = [label |-> Label, content |-> op.copy]
      BY <2>2, PublishFacts
    <3> QED BY <3>1
  <2>3. backups' # backups
    BY <2>1
  <2>4. ASSUME NEW i \in DOMAIN backups, NEW S, Tamper(i, S) PROVE FALSE
    <3> DEFINE new == [backups[i] EXCEPT !.content =
                          [f \in DBs |-> IF f \in S THEN Foreign ELSE backups[i].content[f]]]
    <3>1. backups' = [backups EXCEPT ![i] = new]
      BY <2>4 DEF Tamper
    <3>2. backups \in Seq([label : ToSet(Labels), content : Contents])
      BY DEF IInv, TypeOK
    <3> HIDE DEF new
    <3>3. Len(backups') = Len(backups)
      BY <3>1, <3>2
    <3> QED BY <2>1, <3>3
  <2>5. \/ Publish \/ backups' = backups
        \/ \E i \in DOMAIN backups, S \in (SUBSET DBs) \ {{}} : Tamper(i, S)
    BY DEF Next, vars, Write, DeleteBegin, DeleteFile, Deleted, Crash, StepFails, BackupBegin,
       CopyFile, RestoreBegin, PinFile, PinDone, CheckFile, Validate, ApplyFile,
       ApplyDone, VerifyFile, RecoverFile, ReverifyFile, Finish
  <2> QED BY <2>2, <2>3, <2>4, <2>5
<1> QED BY <1>1, Inductive, PTL DEF Spec, PublishedIsCurrent

-----------------------------------------------------------------------------
(* A restore is of one moment.                                             *)

\* The selected backup has not been changed since it was selected.
Steady == op.seen = {Selected}

\* A file that is as it was pinned, or that was written since.
Restored(f) == live[f] = op.pinned[f] \/ live[f] > op.base

\* What the selected backup has been is recorded; somebody else changes it once.
SelectedInv ==
  op.kind = "restore" => Selected \in op.seen /\ (Steady \/ \E f \in DBs : Selected[f] = Foreign)

\* What has been captured of a backup that nobody changed is the backup.
PinnedInv ==
  op.kind = "restore" /\ Steady =>
    /\ op.pc = "pin" => \A k \in DOMAIN Files : k < op.at => op.pinned[Files[k]] = Selected[Files[k]]
    /\ op.pc \in {"check", "validate", "copy", "apply", "verify"} => op.pinned = Selected

\* The last check: the pinned copy is a state the backup has been in, or that is
\* not known yet of the files that are left.
LastCheckInv ==
  op.pc = "check" /\ op.then = "success" =>
    \/ op.pinned \in op.seen
    \/ \A k \in DOMAIN Files : k < op.at => op.pinned[Files[k]] = Selected[Files[k]]

VerifiedInv ==
  /\ op.pc = "verify" => \A k \in DOMAIN Files : k < op.at => Restored(Files[k])
  /\ op.pc = "check" /\ op.then = "success" => \A f \in DBs : Restored(f)

SnapInv ==
  SelectedInv /\ PinnedInv /\ LastCheckInv /\ VerifiedInv /\ RestoredIsOneSnapshot

Capturing == {"check", "validate", "copy", "apply", "verify"}

\* A step that promises nothing about the pinned copy that was not known before.
LEMMA SnapStep ==
  ASSUME IInv, SnapInv, op.kind = "restore" => Selected' = Selected,
         op'.kind = op.kind, op'.selected = op.selected, op'.pinned = op.pinned,
         op'.seen = op.seen, op'.base = op.base,
         op'.pc # "pin", op'.pc \in Capturing => op.pc \in Capturing,
         op'.pc = "verify" => op'.at = 1,
         ~(op'.pc = "check" /\ op'.then = "success"),
         ~(op'.pc = "done" /\ op'.result = "restored")
  PROVE  SnapInv'
<1>1. SelectedInv'
  BY DEF SnapInv, SelectedInv, Steady
<1>2. PinnedInv'
  BY DEF SnapInv, PinnedInv, Steady, Capturing
<1>3. LastCheckInv' /\ VerifiedInv' /\ RestoredIsOneSnapshot'
  BY FileFacts DEF LastCheckInv, VerifiedInv, RestoredIsOneSnapshot
<1> QED BY <1>1, <1>2, <1>3 DEF SnapInv

\* Outside a restore there is nothing to show.
LEMMA SnapNone ==
  ASSUME op'.kind # "restore", op'.pc \in {"idle", "copy"}
  PROVE  SnapInv'
BY DEF SnapInv, SelectedInv, PinnedInv, LastCheckInv, VerifiedInv, RestoredIsOneSnapshot

\* An error ends in the state of a restore that failed, or that is taken back.
LEMMA AbortSnap ==
  ASSUME IInv, SnapInv, op' = Abort, UNCHANGED <<live, written>>,
         op.kind = "restore" => Selected' = Selected
  PROVE  SnapInv'
<1>1. op \in OpType
  BY DEF IInv, TypeOK
<1>2. PICK at : \/ op' = [op EXCEPT !.pc = "recover", !.at = at]
                \/ op' = [op EXCEPT !.pc = "done", !.result = "failed"]
  BY DEF Abort, Ends
<1>3. /\ op'.kind = op.kind /\ op'.selected = op.selected /\ op'.pinned = op.pinned
      /\ op'.seen = op.seen /\ op'.base = op.base
      /\ op'.pc = "recover" \/ (op'.pc = "done" /\ op'.result = "failed")
  BY <1>1, <1>2 DEF OpType
<1> QED BY <1>3, SnapStep DEF Capturing

\* Copies, replacements and recovery do not touch the pinned copy.
LEMMA QuietSnap ==
  ASSUME IInv, SnapInv,
         \/ CopyFile \/ Validate \/ ApplyFile \/ ApplyDone \/ RecoverFile \/ ReverifyFile
  PROVE  SnapInv'
<1>1. op \in OpType /\ written' = written /\ backups' = backups
  BY DEF IInv, TypeOK, CopyFile, Validate, ApplyFile, ApplyDone, RecoverFile, ReverifyFile
<1>2. /\ op'.kind = op.kind /\ op'.selected = op.selected /\ op'.pinned = op.pinned
      /\ op'.seen = op.seen /\ op'.base = op.base
  BY <1>1 DEF OpType, NextFile, Goes, Ends, CopyFile, Validate, ApplyFile, ApplyDone,
     RecoverFile, ReverifyFile
<1>3. /\ op'.pc \in {"copy", "apply", "verify", "recover", "reverify", "done"}
      /\ op'.pc \in Capturing => op.pc \in Capturing
      /\ op'.pc = "verify" => op'.at = 1
      /\ op'.pc = "done" => op'.result \in {"recovered", "unrecovered"}
  <2>1. CASE CopyFile \/ ApplyFile
    BY <1>1, <2>1 DEF OpType, NextFile, Capturing, CopyFile, ApplyFile
  <2>2. CASE Validate \/ ApplyDone
    BY <1>1, <2>2 DEF OpType, Goes, Capturing, Validate, ApplyDone
  <2>3. CASE RecoverFile
    BY <1>1, <2>3 DEF OpType, Goes, Capturing, RecoverFile
  <2>4. CASE ReverifyFile
    BY <1>1, <2>4 DEF OpType, NextFile, Ends, Capturing, ReverifyFile
  <2> QED BY <2>1, <2>2, <2>3, <2>4
<1> QED BY <1>1, <1>2, <1>3, SnapStep DEF Selected

\* A new directory is not the selected one.
LEMMA PublishSnap ==
  ASSUME IInv, SnapInv, Publish
  PROVE  SnapInv'
<1>1. /\ op.pc = "copy" /\ op \in OpType /\ UNCHANGED <<live, written>>
      /\ \A i \in DOMAIN backups : backups'[i] = backups[i]
  BY PublishFacts
<1>2. op.kind = "restore" => Selected = backups'[op.selected].content
  BY <1>1 DEF IInv, PhaseInv, Selected
<1>3. CASE op' = [[op EXCEPT !.pc = "check", !.at = 1] EXCEPT
                    !.then = "apply", !.safety = Len(backups')]
  <2>1. /\ op'.kind = op.kind /\ op'.selected = op.selected /\ op'.pinned = op.pinned
        /\ op'.seen = op.seen /\ op'.base = op.base /\ op'.pc = "check" /\ op'.then = "apply"
    BY <1>1, <1>3 DEF OpType
  <2>2. op.kind = "restore" => Selected' = Selected
    BY <1>2, <2>1 DEF Selected
  <2> QED BY <1>1, <2>1, <2>2, SnapStep DEF Capturing
<1>4. CASE op' = [op EXCEPT !.pc = "done", !.result = "made"]
  <2>1. /\ op'.kind = op.kind /\ op'.selected = op.selected /\ op'.pinned = op.pinned
        /\ op'.seen = op.seen /\ op'.base = op.base /\ op'.pc = "done" /\ op'.result = "made"
    BY <1>1, <1>4 DEF OpType
  <2>2. op.kind = "restore" => Selected' = Selected
    BY <1>2, <2>1 DEF Selected
  <2> QED BY <1>1, <2>1, <2>2, SnapStep DEF Capturing
<1>5. CASE op' = Abort
  <2>1. op'.selected = op.selected
    BY <1>1, <1>5 DEF Abort, Ends, OpType
  <2>2. op.kind = "restore" => Selected' = Selected
    BY <1>2, <2>1 DEF Selected
  <2> QED BY <1>1, <1>5, <2>2, AbortSnap
<1> QED BY <1>3, <1>4, <1>5, Zenon DEF Publish, Goes, Ends

\* A restore begins with the state of the backup it selects.
LEMMA RestoreBeginSnap ==
  ASSUME IInv, RestoreBegin
  PROVE  SnapInv'
<1> DEFINE selected == Latest
           seen == {backups[Latest].content}
<1>1. /\ op' = [Idle EXCEPT !.pc = "pin", !.kind = "restore", !.selected = selected,
                            !.base = written, !.seen = seen]
      /\ UNCHANGED <<written, backups>> /\ seen = {backups[selected].content}
  BY DEF RestoreBegin
<1> HIDE DEF selected, seen
<1>2. /\ op'.pc = "pin" /\ op'.selected = selected /\ op'.at = 1 /\ op'.base = written
      /\ op'.seen = seen
  BY <1>1 DEF Idle
<1>3. Steady' /\ Selected' \in op'.seen
  BY <1>1, <1>2, FilesAssumption DEF IInv, TypeOK, Steady, Selected
<1> QED
  BY <1>2, <1>3, FileFacts DEF SnapInv, SelectedInv, PinnedInv, LastCheckInv, VerifiedInv,
     RestoredIsOneSnapshot

\* A content is its files.
LEMMA SameContent ==
  ASSUME NEW c \in Contents, NEW d \in Contents, NEW n \in Nat, n > Len(Files),
         \A k \in DOMAIN Files : k < n => c[Files[k]] = d[Files[k]]
  PROVE  c = d
<1>1. ASSUME NEW f \in DBs PROVE c[f] = d[f]
  <2>1. PICK k \in 1..Len(Files) : Files[k] = f
    BY FileFacts
  <2> QED BY <2>1, FileFacts
<1> QED BY <1>1 DEF Contents

\* What is captured of a backup is that backup, file by file.
LEMMA PinSnap ==
  ASSUME IInv, SnapInv, PinFile \/ PinDone
  PROVE  SnapInv'
<1>1. op.pc = "pin" /\ UNCHANGED <<live, written, backups>>
  BY DEF PinFile, PinDone
<1>2. /\ op \in OpType /\ op.at \in Nat /\ op.at # 0 /\ op.pinned \in Contents
      /\ op.kind = "restore" /\ Selected \in Contents
  BY <1>1, OpFacts DEF IInv, PhaseInv, Selected
<1>3. CASE PinFile
  <2> DEFINE pinned == [op.pinned EXCEPT ![Current] = Selected[Current]]
  <2>1. ~AllDone /\ op' = [op EXCEPT !.at = op.at + 1, !.pinned = pinned]
    <3>1. /\ ~AllDone
          /\ op' = [[op EXCEPT !.at = @ + 1] EXCEPT
                      !.pinned = [@ EXCEPT ![Current] = Selected[Current]]]
      BY <1>3, Zenon DEF PinFile, NextFile
    <3> QED BY <1>2, <3>1 DEF OpType
  <2>2. op.at \in 1..Len(Files) /\ Current \in DBs
    BY <1>2, <2>1, OpFacts DEF IInv
  <2>3. /\ pinned[Current] = Selected[Current]
        /\ \A f \in DBs : f # Current => pinned[f] = op.pinned[f]
    BY <1>2, <2>2 DEF Contents
  <2> HIDE DEF pinned
  <2>4. /\ op'.pc = "pin" /\ op'.at = op.at + 1 /\ op'.kind = op.kind
        /\ op'.pinned = pinned /\ op'.selected = op.selected /\ op'.seen = op.seen
        /\ op'.base = op.base
    BY <1>1, <1>2, <2>1 DEF OpType
  <2>5. Selected' = Selected /\ Steady' = Steady
    BY <1>1, <2>4 DEF Selected, Steady
  <2>6. PinnedInv'
    <3>1. SUFFICES ASSUME Steady, NEW k \in DOMAIN Files, k < op.at + 1
                   PROVE  pinned[Files[k]] = Selected[Files[k]]
      BY <2>4, <2>5 DEF PinnedInv
    <3>2. k \in 1..Len(Files) /\ Files[k] \in DBs
      BY FileFacts
    <3>3. CASE Files[k] = Current
      BY <2>3, <3>3
    <3>4. CASE Files[k] # Current
      <4>1. k < op.at
        BY <1>2, <3>1, <3>2, <3>4, FileFacts DEF Current
      <4>2. op.pinned[Files[k]] = Selected[Files[k]]
        BY <1>1, <1>2, <3>1, <4>1 DEF SnapInv, PinnedInv
      <4> QED BY <2>3, <3>2, <3>4, <4>2
    <3> QED BY <3>3, <3>4
  <2> QED
    BY <1>1, <2>4, <2>5, <2>6 DEF SnapInv, SelectedInv, LastCheckInv, VerifiedInv,
       RestoredIsOneSnapshot
<1>4. CASE PinDone
  <2>1. op' = [[op EXCEPT !.pc = "check", !.at = 1] EXCEPT !.then = "validate"] /\ AllDone
    BY <1>4, Zenon DEF PinDone, Goes
  <2>2. /\ op'.pc = "check" /\ op'.then = "validate" /\ op'.kind = op.kind
        /\ op'.pinned = op.pinned /\ op'.selected = op.selected /\ op'.seen = op.seen
        /\ op'.base = op.base
    BY <1>2, <2>1 DEF OpType
  <2>3. Selected' = Selected /\ Steady' = Steady
    BY <1>1, <2>2 DEF Selected, Steady
  <2>4. ASSUME Steady PROVE op.pinned = Selected
    <3>1. \A k \in DOMAIN Files : k < op.at => op.pinned[Files[k]] = Selected[Files[k]]
      BY <1>1, <1>2, <2>4 DEF SnapInv, PinnedInv
    <3>2. op.at > Len(Files)
      BY <2>1 DEF AllDone
    <3> QED BY <1>2, <3>1, <3>2, SameContent
  <2>5. PinnedInv'
    BY <2>2, <2>3, <2>4 DEF PinnedInv
  <2> QED
    BY <1>1, <2>2, <2>3, <2>5 DEF SnapInv, SelectedInv, LastCheckInv, VerifiedInv,
       RestoredIsOneSnapshot
<1> QED BY <1>3, <1>4

\* A last check that has passed all files has found one state of the backup.
LEMMA CheckSnap ==
  ASSUME IInv, SnapInv, CheckFile
  PROVE  SnapInv'
<1>1. op.pc = "check" /\ UNCHANGED <<live, written, backups>>
  BY DEF CheckFile
<1>2. /\ op \in OpType /\ op.at \in Nat /\ op.at # 0 /\ op.pinned \in Contents
      /\ op.kind = "restore" /\ op.then \in {"validate", "apply", "success"}
      /\ Selected \in Contents
  BY <1>1, OpFacts DEF IInv, PhaseInv, OpType, Selected
<1>3. CASE op' = Abort
  <2>1. op'.selected = op.selected
    BY <1>2, <1>3 DEF Abort, Ends, OpType
  <2> QED BY <1>1, <1>3, <2>1, AbortSnap DEF Selected
<1>4. CASE op.then \in {"validate", "apply"} /\ op' = Goes(op.then)
  <2>1. op' = [op EXCEPT !.pc = op.then, !.at = 1]
    BY <1>4 DEF Goes
  <2>2. /\ op'.pc = op.then /\ op'.kind = op.kind
        /\ op'.pinned = op.pinned /\ op'.selected = op.selected /\ op'.seen = op.seen
        /\ op'.base = op.base
    BY <1>2, <2>1 DEF OpType
  <2>3. Selected' = Selected
    BY <1>1, <2>2 DEF Selected
  <2> QED BY <1>1, <1>4, <2>2, <2>3, SnapStep DEF Capturing
<1>5. CASE ~AllDone /\ op.pinned[Current] = Selected[Current] /\ op' = NextFile
  <2>1. op' = [op EXCEPT !.at = op.at + 1]
    BY <1>5 DEF NextFile
  <2>2. /\ op'.pc = "check" /\ op'.then = op.then /\ op'.at = op.at + 1 /\ op'.kind = op.kind
        /\ op'.pinned = op.pinned /\ op'.selected = op.selected /\ op'.seen = op.seen
        /\ op'.base = op.base
    BY <1>1, <1>2, <2>1 DEF OpType
  <2>3. Selected' = Selected /\ Steady' = Steady
    BY <1>1, <2>2 DEF Selected, Steady
  <2>4. (SelectedInv /\ PinnedInv /\ VerifiedInv /\ RestoredIsOneSnapshot)'
    BY <1>1, <2>2, <2>3 DEF SnapInv, SelectedInv, PinnedInv, VerifiedInv, Restored,
       RestoredIsOneSnapshot
  <2>5. LastCheckInv'
    <3>1. SUFFICES ASSUME op.then = "success", op.pinned \notin op.seen,
                          NEW k \in DOMAIN Files, k < op.at + 1
                   PROVE  op.pinned[Files[k]] = Selected[Files[k]]
      BY <2>2, <2>3 DEF LastCheckInv
    <3>2. CASE k = op.at
      BY <1>5, <3>2 DEF Current
    <3>3. CASE k # op.at
      <4>1. k < op.at
        BY <1>2, <3>1, <3>3, FileFacts
      <4> QED BY <1>1, <3>1, <4>1 DEF SnapInv, LastCheckInv
    <3> QED BY <3>2, <3>3
  <2> QED BY <1>1, <2>2, <2>4, <2>5 DEF SnapInv
<1>6. CASE AllDone /\ op.then = "success" /\ op' = Ends("restored")
  <2>1. op' = [op EXCEPT !.pc = "done", !.result = "restored"]
    BY <1>6 DEF Ends
  <2>2. /\ op'.pc = "done" /\ op'.kind = op.kind
        /\ op'.pinned = op.pinned /\ op'.selected = op.selected /\ op'.seen = op.seen
        /\ op'.base = op.base
    BY <1>1, <1>2, <2>1 DEF OpType
  <2>3. Selected' = Selected /\ Steady' = Steady
    BY <1>1, <2>2 DEF Selected, Steady
  <2>4. op.pinned \in op.seen
    <3>1. SUFFICES ASSUME \A k \in DOMAIN Files :
                            k < op.at => op.pinned[Files[k]] = Selected[Files[k]]
                   PROVE  op.pinned \in op.seen
      BY <1>1, <1>6 DEF SnapInv, LastCheckInv
    <3>2. op.at > Len(Files)
      BY <1>6 DEF AllDone
    <3>3. op.pinned = Selected
      BY <1>2, <3>1, <3>2, SameContent
    <3> QED BY <1>2, <3>3 DEF SnapInv, SelectedInv
  <2>5. \A f \in DBs : Restored(f)
    BY <1>1, <1>6 DEF SnapInv, VerifiedInv
  <2>6. RestoredIsOneSnapshot'
    BY <1>1, <2>2, <2>4, <2>5 DEF RestoredIsOneSnapshot, Restored
  <2> QED
    BY <1>1, <2>2, <2>3, <2>6 DEF SnapInv, SelectedInv, PinnedInv, LastCheckInv, VerifiedInv
<1> QED BY <1>2, <1>3, <1>4, <1>5, <1>6 DEF CheckFile

\* What has been replaced is what was pinned.
LEMMA VerifySnap ==
  ASSUME IInv, SnapInv, VerifyFile
  PROVE  SnapInv'
<1>1. op.pc = "verify" /\ UNCHANGED <<live, written, backups>>
  BY DEF VerifyFile
<1>2. op \in OpType /\ op.at \in Nat /\ op.kind = "restore"
  BY <1>1, OpFacts DEF IInv, PhaseInv, Replacing
<1>3. CASE op' = Abort
  <2>1. op'.selected = op.selected
    BY <1>2, <1>3 DEF Abort, Ends, OpType
  <2> QED BY <1>1, <1>3, <2>1, AbortSnap DEF Selected
<1>4. CASE ~AllDone /\ live[Current] = op.pinned[Current] /\ op' = NextFile
  <2>1. op' = [op EXCEPT !.at = op.at + 1]
    BY <1>4 DEF NextFile
  <2>2. /\ op'.pc = "verify" /\ op'.at = op.at + 1 /\ op'.kind = op.kind
        /\ op'.pinned = op.pinned /\ op'.selected = op.selected /\ op'.seen = op.seen
        /\ op'.base = op.base
    BY <1>1, <1>2, <2>1 DEF OpType
  <2>3. Selected' = Selected /\ Steady' = Steady
    BY <1>1, <2>2 DEF Selected, Steady
  <2>4. (SelectedInv /\ PinnedInv /\ LastCheckInv /\ RestoredIsOneSnapshot)'
    BY <1>1, <2>2, <2>3 DEF SnapInv, SelectedInv, PinnedInv, LastCheckInv,
       RestoredIsOneSnapshot
  <2>5. VerifiedInv'
    <3>1. SUFFICES ASSUME NEW k \in DOMAIN Files, k < op.at + 1
                   PROVE  Restored(Files[k])
      BY <1>1, <2>2 DEF VerifiedInv, Restored
    <3>2. CASE k = op.at
      BY <1>4, <3>2 DEF Current, Restored
    <3>3. CASE k # op.at
      <4>1. k < op.at
        BY <1>2, <3>1, <3>3, FileFacts
      <4> QED BY <1>1, <4>1 DEF SnapInv, VerifiedInv
    <3> QED BY <3>2, <3>3
  <2> QED BY <1>1, <2>2, <2>4, <2>5 DEF SnapInv
<1>5. CASE AllDone /\ op' = [Goes("check") EXCEPT !.then = "success"]
  <2>1. op' = [[op EXCEPT !.pc = "check", !.at = 1] EXCEPT !.then = "success"]
    BY <1>5, Zenon DEF Goes
  <2>2. /\ op'.pc = "check" /\ op'.then = "success" /\ op'.at = 1 /\ op'.kind = op.kind
        /\ op'.pinned = op.pinned /\ op'.selected = op.selected /\ op'.seen = op.seen
        /\ op'.base = op.base
    BY <1>1, <1>2, <2>1 DEF OpType
  <2>3. Selected' = Selected /\ Steady' = Steady
    BY <1>1, <2>2 DEF Selected, Steady
  <2>4. \A f \in DBs : Restored(f)
    <3>1. TAKE f \in DBs
    <3>2. PICK k \in 1..Len(Files) : Files[k] = f
      BY FileFacts
    <3>3. k \in DOMAIN Files /\ k < op.at
      BY <1>2, <1>5, FileFacts DEF AllDone
    <3> QED BY <1>1, <3>2, <3>3 DEF SnapInv, VerifiedInv
  <2>5. VerifiedInv'
    BY <1>1, <2>2, <2>4 DEF VerifiedInv, Restored
  <2>6. (SelectedInv /\ PinnedInv /\ LastCheckInv /\ RestoredIsOneSnapshot)'
    BY <1>1, <2>2, <2>3, FileFacts DEF SnapInv, SelectedInv, PinnedInv, LastCheckInv,
       RestoredIsOneSnapshot
  <2> QED BY <1>1, <2>2, <2>5, <2>6 DEF SnapInv
<1> QED BY <1>3, <1>4, <1>5 DEF VerifyFile

\* A write during a restore is newer than the restore.
LEMMA WritersSnap ==
  ASSUME IInv, SnapInv, NEW f \in DBs, Write(f) \/ DeleteFile(f)
  PROVE  SnapInv'
<1>1. UNCHANGED <<op, backups>>
  BY DEF Write, DeleteFile, Deleted
<1>2. live \in Contents /\ written \in Nat /\ op.base \in Nat /\ op.base <= written
  BY OpFacts DEF IInv, NewerInv
<1>3. (SelectedInv /\ PinnedInv /\ LastCheckInv)'
  BY <1>1 DEF SnapInv, SelectedInv, PinnedInv, LastCheckInv, Selected, Steady
<1>4. CASE op.pc = "idle"
  BY <1>1, <1>3, <1>4 DEF SnapInv, VerifiedInv, RestoredIsOneSnapshot
<1>5. CASE op.pc # "idle"
  <2>1. live' = [live EXCEPT ![f] = written + 1]
    BY <1>5 DEF Write, DeleteFile
  <2>2. live'[f] > op.base /\ \A g \in DBs : g # f => live'[g] = live[g]
    BY <1>2, <2>1 DEF Contents
  <2>3. \A g \in DBs : Restored(g) => Restored(g)'
    BY <1>1, <2>1, <2>2 DEF Restored
  <2>4. VerifiedInv'
    BY <1>1, <2>3, FileFacts DEF SnapInv, VerifiedInv
  <2>5. RestoredIsOneSnapshot'
    BY <1>1, <2>1, <2>2 DEF SnapInv, RestoredIsOneSnapshot
  <2> QED BY <1>1, <1>3, <2>4, <2>5 DEF SnapInv
<1> QED BY <1>4, <1>5

\* Somebody who changes the selected backup gives it another state, which no copy
\* of the first one is.
LEMMA TamperSnap ==
  ASSUME IInv, SnapInv, NEW i \in DOMAIN backups, NEW S \in (SUBSET DBs) \ {{}}, Tamper(i, S)
  PROVE  SnapInv'
<1> DEFINE content == [f \in DBs |-> IF f \in S THEN Foreign ELSE backups[i].content[f]]
<1>1. /\ backups' = [backups EXCEPT ![i] = [@ EXCEPT !.content = content]]
      /\ \A f \in DBs : backups[i].content[f] # Foreign
      /\ op' = IF op.selected = i
               THEN [op EXCEPT !.seen = @ \union {backups'[i].content}] ELSE op
      /\ UNCHANGED <<live, written>>
  BY DEF Tamper
<1>2. op \in OpType /\ backups[i] \in [label : ToSet(Labels), content : Contents]
      /\ Len(backups) \in Nat /\ DOMAIN backups = 1..Len(backups)
  BY OpFacts, ElementOfSeq DEF IInv, TypeOK
<1>3. \E f \in DBs : content[f] = Foreign
  OBVIOUS
<1> HIDE DEF content
<1>4. /\ backups'[i].content = content
      /\ \A j \in DOMAIN backups : j # i => backups'[j] = backups[j]
  BY <1>1, <1>2
<1>5. /\ op'.pc = op.pc /\ op'.at = op.at /\ op'.kind = op.kind /\ op'.then = op.then
      /\ op'.selected = op.selected /\ op'.pinned = op.pinned /\ op'.base = op.base
      /\ op'.result = op.result
      /\ op'.seen = IF op.selected = i THEN op.seen \union {content} ELSE op.seen
  BY <1>1, <1>2, <1>4 DEF OpType
<1>6. VerifiedInv' /\ RestoredIsOneSnapshot'
  BY <1>1, <1>5 DEF SnapInv, VerifiedInv, Restored, RestoredIsOneSnapshot
<1>7. op.pc \in {"check", "pin"} => op.kind = "restore"
  BY DEF IInv, PhaseInv
<1>8. CASE op.kind # "restore"
  BY <1>5, <1>6, <1>7, <1>8 DEF SnapInv, SelectedInv, PinnedInv, LastCheckInv
<1>9. CASE op.kind = "restore" /\ op.selected # i
  <2>1. op.selected \in DOMAIN backups
    BY <1>9 DEF IInv, PhaseInv
  <2>2. Selected' = Selected /\ Steady' = Steady
    BY <1>4, <1>5, <1>9, <2>1 DEF Selected, Steady
  <2> QED
    BY <1>5, <1>6, <1>9, <2>2 DEF SnapInv, SelectedInv, PinnedInv, LastCheckInv
<1>10. CASE op.kind = "restore" /\ op.selected = i
  <2>1. Selected' = content /\ Selected = backups[i].content
    BY <1>4, <1>5, <1>10 DEF Selected
  <2>2. Steady
    BY <1>1, <1>10, <2>1 DEF SnapInv, SelectedInv
  <2>3. op'.seen = {Selected, content} /\ content # Selected
    BY <1>1, <1>3, <1>5, <1>10, <2>1, <2>2 DEF Steady
  <2>4. ~Steady'
    BY <2>1, <2>3 DEF Steady
  <2>5. SelectedInv' /\ PinnedInv'
    BY <1>3, <2>1, <2>3, <2>4 DEF SelectedInv, PinnedInv
  <2>6. LastCheckInv'
    BY <1>5, <1>10, <2>2, <2>3 DEF SnapInv, PinnedInv, LastCheckInv
  <2> QED BY <1>5, <1>6, <2>5, <2>6 DEF SnapInv
<1> QED BY <1>8, <1>9, <1>10

\* Every step keeps what is known of the pinned copy.
LEMMA SnapPreserved == IInv /\ IInv' /\ SnapInv /\ [Next]_vars => SnapInv'
<1> SUFFICES ASSUME IInv, IInv', SnapInv, [Next]_vars PROVE SnapInv'
  OBVIOUS
<1>1. ASSUME NEW f \in DBs, Write(f) \/ DeleteFile(f) PROVE SnapInv'
  BY <1>1, WritersSnap
<1>2. CASE BackupBegin \/ \E f \in DBs : DeleteBegin(f)
  <2>1. op'.kind # "restore" /\ op'.pc = "copy"
    BY <1>2 DEF BackupBegin, DeleteBegin, Idle
  <2> QED BY <2>1, SnapNone
<1>3. ASSUME NEW i \in DOMAIN backups, NEW S \in (SUBSET DBs) \ {{}}, Tamper(i, S) PROVE SnapInv'
  BY <1>3, TamperSnap
<1>4. CASE StepFails
  <2>1. op' = Abort /\ UNCHANGED <<live, written, backups>> /\ op \in OpType
    BY <1>4 DEF StepFails, IInv, TypeOK
  <2>2. op'.selected = op.selected
    BY <2>1 DEF Abort, Ends, OpType
  <2> QED BY <2>1, <2>2, AbortSnap DEF Selected
<1>5. CASE Crash \/ Finish
  <2>1. op'.kind # "restore" /\ op'.pc = "idle"
    BY <1>5 DEF Crash, Finish, Idle
  <2> QED BY <2>1, SnapNone
<1>6. CASE \/ CopyFile \/ Validate \/ ApplyFile \/ ApplyDone \/ RecoverFile \/ ReverifyFile
  BY <1>6, QuietSnap
<1>7. CASE Publish
  BY <1>7, PublishSnap
<1>8. CASE RestoreBegin
  BY <1>8, RestoreBeginSnap
<1>9. CASE PinFile \/ PinDone
  BY <1>9, PinSnap
<1>10. CASE CheckFile
  BY <1>10, CheckSnap
<1>11. CASE VerifyFile
  BY <1>11, VerifySnap
<1>12. CASE UNCHANGED vars
  BY <1>12 DEF vars, SnapInv, SelectedInv, PinnedInv, LastCheckInv, VerifiedInv, Restored,
     Selected, Steady, RestoredIsOneSnapshot
<1> QED
  BY <1>1, <1>2, <1>3, <1>4, <1>5, <1>6, <1>7, <1>8, <1>9, <1>10, <1>11, <1>12 DEF Next

\* A restore that reports success put back one state of the selected backup, all
\* files of the same moment (PinnedBackup, restore_with_hook).
THEOREM RestoredIsOneSnapshotHolds == Spec => []RestoredIsOneSnapshot
<1>1. Init => SnapInv
  BY FilesAssumption DEF Init, SnapInv, SelectedInv, PinnedInv,
     LastCheckInv, VerifiedInv, RestoredIsOneSnapshot, Idle
<1>2. SnapInv => RestoredIsOneSnapshot
  BY DEF SnapInv
<1> QED BY <1>1, <1>2, SnapPreserved, Inductive, PTL DEF Spec
-----------------------------------------------------------------------------
(* Which backup is restored.                                               *)

\* The directories there were when the restore selected one.
Earlier == 1..(IF op.safety = 0 THEN Len(backups) ELSE op.safety - 1)

\* The selected one is the last of them, label first and age second.
ChosenByName ==
  /\ op.selected \in Earlier
  /\ \A j \in Earlier :
       Rank(j) < Rank(op.selected) \/ (Rank(j) = Rank(op.selected) /\ j <= op.selected)

ChoiceInv ==
  /\ op.kind = "restore" /\ (op.pc # "done" \/ op.safety # 0) => ChosenByName
  /\ op.pc = "done" /\ op.result = "restored" => op.kind = "restore" /\ op.safety # 0

\* The names in their order are the directories in the order of their age, as far
\* as the newest one is concerned.
NewestIsLastName ==
  op.kind = "restore" /\ op.safety # 0 =>
    \A j \in 1..(op.safety - 1) : Rank(j) <= Rank(op.safety - 1)

\* Ranks are places among the labels.
LEMMA RankFacts ==
  ASSUME TypeOK
  PROVE  \A i \in DOMAIN backups : Rank(i) \in 1..3
<1>1. DOMAIN Labels = 1..3
  BY DEF Labels
<1>2. \A i \in DOMAIN backups : \E k \in DOMAIN Labels : Labels[k] = backups[i].label
  BY OpFacts DEF ToSet
<1> QED BY <1>1, <1>2 DEF Rank

\* A step that leaves the selection, the directories there were and their labels.
LEMMA SameChoice ==
  ASSUME ChoiceInv, op'.kind = op.kind, op'.selected = op.selected, Earlier' = Earlier,
         \A j \in Earlier : backups'[j].label = backups[j].label,
         (op'.pc = "done" /\ op'.safety = 0) \/ op.pc # "done" \/ op.safety # 0,
         op'.pc = "done" /\ op'.result = "restored" => op'.kind = "restore" /\ op'.safety # 0
  PROVE  ChoiceInv'
<1>1. SUFFICES ASSUME op.kind = "restore", op.pc # "done" \/ op.safety # 0
               PROVE  ChosenByName'
  BY DEF ChoiceInv
<1>2. ChosenByName
  BY <1>1 DEF ChoiceInv
<1>3. op'.selected \in Earlier'
  BY <1>2 DEF ChosenByName
<1>4. ASSUME NEW j \in Earlier PROVE Rank(j)' = Rank(j)
  BY <1>4 DEF Rank
<1>5. Rank(op.selected)' = Rank(op.selected)
  <2>1. backups'[op'.selected].label = backups[op.selected].label
    BY <1>2 DEF ChosenByName
  <2> QED BY <2>1 DEF Rank
<1>6. ASSUME NEW j \in Earlier'
      PROVE  \/ Rank(j)' < Rank(op.selected)'
             \/ Rank(j)' = Rank(op.selected)' /\ j <= op'.selected
  BY <1>2, <1>4, <1>5, <1>6 DEF ChosenByName
<1> QED BY <1>3, <1>6 DEF ChosenByName

\* A step of an operation that goes on, or ends without having restored.
LEMMA GoesOn ==
  ASSUME IInv, ChoiceInv,
         op'.kind = op.kind, op'.selected = op.selected, op'.safety = op.safety,
         backups' = backups, op.pc # "done", op'.pc = "done" => op'.result # "restored"
  PROVE  ChoiceInv'
BY SameChoice DEF Earlier

\* No operation, or none that restores.
LEMMA NoChoice ==
  ASSUME op'.kind # "restore", op'.pc # "done"
  PROVE  ChoiceInv'
BY DEF ChoiceInv

\* An error keeps the selection.
LEMMA AbortFacts ==
  ASSUME IInv, op' = Abort
  PROVE  /\ op'.kind = op.kind /\ op'.selected = op.selected /\ op'.safety = op.safety
         /\ op'.pc = "recover" \/ (op'.pc = "done" /\ op'.result = "failed")
<1>1. op \in OpType
  BY DEF IInv, TypeOK
<1>2. PICK at : \/ op' = [op EXCEPT !.pc = "recover", !.at = at]
                \/ op' = [op EXCEPT !.pc = "done", !.result = "failed"]
  BY DEF Abort, Ends
<1> QED BY <1>1, <1>2 DEF OpType

\* The safety backup is the directory after those that were there.
LEMMA PublishChoice ==
  ASSUME IInv, IInv', ChoiceInv, Publish
  PROVE  ChoiceInv'
<1>1. /\ op.pc = "copy" /\ op.safety = 0 /\ op \in OpType
      /\ Len(backups) \in Nat /\ Len(backups') = Len(backups) + 1
      /\ DOMAIN backups = 1..Len(backups)
      /\ \A i \in DOMAIN backups : backups'[i] = backups[i]
  BY PublishFacts
<1>2. CASE /\ op.kind = "restore"
           /\ op' = [[op EXCEPT !.pc = "check", !.at = 1] EXCEPT
                       !.then = "apply", !.safety = Len(backups')]
  <2>1. /\ op'.kind = op.kind /\ op'.selected = op.selected /\ op'.pc = "check"
        /\ op'.safety = Len(backups')
    <3>1. op \in OpType
      BY <1>1
    <3> QED BY <1>2, <3>1 DEF OpType
  <2>2. Earlier' = Earlier /\ Earlier = DOMAIN backups
    <3>1. op'.safety # 0 /\ op'.safety - 1 = Len(backups) /\ op.safety = 0
      BY <1>1, <2>1
    <3>2. Earlier = 1..Len(backups)
      BY <3>1 DEF Earlier
    <3>3. Earlier' = 1..Len(backups)
      BY <3>1 DEF Earlier
    <3> QED BY <1>1, <3>2, <3>3
  <2> QED BY <1>1, <2>1, <2>2, SameChoice
<1>3. CASE op.kind # "restore" /\ op' = [op EXCEPT !.pc = "done", !.result = "made"]
  <2>1. op'.kind = op.kind /\ op'.result = "made"
    BY <1>1, <1>3 DEF OpType
  <2> QED BY <1>3, <2>1 DEF ChoiceInv
<1>4. CASE op' = Abort
  <2>1. /\ op'.safety = 0
        /\ op'.pc = "recover" \/ (op'.pc = "done" /\ op'.result = "failed")
    BY <1>1, <1>4, AbortFacts
  <2>2. op'.pc # "recover"
    BY <2>1 DEF IInv, TypeOK
  <2> QED BY <2>1, <2>2 DEF ChoiceInv
<1> QED BY <1>2, <1>3, <1>4, Zenon DEF Publish, Goes, Ends

\* latest_backup sorts the names.
LEMMA RestoreBeginChoice ==
  ASSUME IInv, RestoreBegin
  PROVE  ChoiceInv'
<1> DEFINE selected == Latest
           seen == {backups[Latest].content}
<1>1. /\ op' = [Idle EXCEPT !.pc = "pin", !.kind = "restore", !.selected = selected,
                            !.base = written, !.seen = seen]
      /\ backups' = backups /\ backups # <<>>
  BY DEF RestoreBegin
<1>2. /\ selected \in DOMAIN backups /\ DOMAIN backups = 1..Len(backups)
      /\ \A j \in DOMAIN backups :
           Rank(j) < Rank(selected) \/ (Rank(j) = Rank(selected) /\ j <= selected)
  BY <1>1, LatestExists, OpFacts DEF IInv
<1> HIDE DEF selected, seen
<1>3. op'.pc = "pin" /\ op'.selected = selected /\ op'.safety = 0
  BY <1>1 DEF Idle
<1>4. Earlier' = DOMAIN backups
  BY <1>1, <1>2, <1>3 DEF Earlier
<1>5. ASSUME NEW i PROVE Rank(i)' = Rank(i)
  BY <1>1 DEF Rank
<1>6. Rank(op.selected)' = Rank(selected)
  BY <1>1, <1>3 DEF Rank
<1>7. ASSUME NEW j \in Earlier'
      PROVE  \/ Rank(j)' < Rank(op.selected)'
             \/ Rank(j)' = Rank(op.selected)' /\ j <= op'.selected
  BY <1>2, <1>3, <1>4, <1>5, <1>6, <1>7
<1>8. ChosenByName'
  BY <1>2, <1>3, <1>4, <1>7 DEF ChosenByName
<1> QED BY <1>3, <1>8 DEF ChoiceInv

\* Only a restore that has made its safety backup says it has restored.
LEMMA CheckChoice ==
  ASSUME IInv, ChoiceInv, CheckFile
  PROVE  ChoiceInv'
<1>1. op.pc = "check" /\ op \in OpType /\ backups' = backups
  BY DEF CheckFile, IInv, TypeOK
<1>2. CASE op' = Abort
  <2>1. /\ op'.kind = op.kind /\ op'.selected = op.selected /\ op'.safety = op.safety
        /\ op'.pc = "recover" \/ (op'.pc = "done" /\ op'.result = "failed")
    BY <1>2, AbortFacts
  <2> QED BY <1>1, <2>1, GoesOn
<1>3. CASE op' = [op EXCEPT !.at = @ + 1] \/ op' = [op EXCEPT !.pc = op.then, !.at = 1]
  <2>1. /\ op'.kind = op.kind /\ op'.selected = op.selected /\ op'.safety = op.safety
        /\ op'.pc \in {op.pc, op.then}
    BY <1>1, <1>3 DEF OpType
  <2>2. op'.pc # "done"
    BY <1>1, <2>1 DEF OpType
  <2> QED BY <1>1, <2>1, <2>2, GoesOn
<1>4. CASE op.then = "success" /\ op' = [op EXCEPT !.pc = "done", !.result = "restored"]
  <2>1. op'.kind = op.kind /\ op'.selected = op.selected /\ op'.safety = op.safety
    BY <1>1, <1>4 DEF OpType
  <2>2. op.kind = "restore" /\ op.safety # 0
    BY <1>1, <1>4 DEF IInv, PhaseInv, Protected
  <2> QED BY <1>1, <2>1, <2>2, SameChoice DEF Earlier
<1> QED BY <1>2, <1>3, <1>4, Zenon DEF CheckFile, Goes, NextFile, Ends

\* Who changes a backup keeps its name.
LEMMA TamperChoice ==
  ASSUME IInv, ChoiceInv, NEW i \in DOMAIN backups, NEW S \in SUBSET DBs, Tamper(i, S)
  PROVE  ChoiceInv'
<1> DEFINE content == [f \in DBs |-> IF f \in S THEN Foreign ELSE backups[i].content[f]]
           new == [backups[i] EXCEPT !.content = content]
<1>1. backups' = [backups EXCEPT ![i] = new]
  BY DEF Tamper
<1>2. /\ op \in OpType /\ Len(backups) \in Nat /\ DOMAIN backups = 1..Len(backups)
      /\ backups \in Seq([label : ToSet(Labels), content : Contents])
      /\ backups[i] \in [label : ToSet(Labels), content : Contents]
  BY OpFacts, ElementOfSeq DEF IInv, TypeOK
<1> HIDE DEF content
<1>3. new.label = backups[i].label
  BY <1>2
<1> HIDE DEF new
<1>4. /\ DOMAIN backups' = DOMAIN backups /\ backups'[i] = new
      /\ \A j \in DOMAIN backups : j # i => backups'[j] = backups[j]
  BY <1>1
<1>5. \A j \in DOMAIN backups : backups'[j].label = backups[j].label
  BY <1>3, <1>4
<1>6. /\ op'.kind = op.kind /\ op'.selected = op.selected /\ op'.safety = op.safety
      /\ op'.pc = op.pc /\ op'.result = op.result
  BY <1>2 DEF Tamper, OpType
<1>7. Earlier' = Earlier /\ Earlier \subseteq DOMAIN backups
  <2>1. CASE op.safety = 0
    <3>1. Len(backups') = Len(backups)
      BY <1>1, <1>2, <1>4
    <3> QED BY <1>2, <1>6, <2>1, <3>1 DEF Earlier
  <2>2. CASE op.safety # 0
    <3>1. op.safety \in 1..Len(backups)
      BY <1>2, <2>2 DEF IInv, TypeOK
    <3> QED BY <1>2, <1>6, <2>2, <3>1 DEF Earlier
  <2> QED BY <2>1, <2>2
<1> QED BY <1>5, <1>6, <1>7, SameChoice DEF ChoiceInv

\* Every step keeps what is known of the selection.
LEMMA ChoicePreserved == IInv /\ IInv' /\ ChoiceInv /\ [Next]_vars => ChoiceInv'
<1> SUFFICES ASSUME IInv, IInv', ChoiceInv, [Next]_vars PROVE ChoiceInv'
  OBVIOUS
<1>1. op \in OpType
  BY DEF IInv, TypeOK
<1>2. ASSUME NEW f \in DBs, Write(f) \/ DeleteFile(f) PROVE ChoiceInv'
  <2>1. op' = op /\ backups' = backups
    BY <1>2 DEF Write, DeleteFile, Deleted
  <2> QED BY <2>1 DEF ChoiceInv, ChosenByName, Earlier, Rank
<1>3. CASE BackupBegin \/ \E f \in DBs : DeleteBegin(f)
  <2>1. op'.kind # "restore" /\ op'.pc = "copy"
    BY <1>3 DEF BackupBegin, DeleteBegin, Idle
  <2> QED BY <2>1, NoChoice
<1>4. ASSUME NEW i \in DOMAIN backups, NEW S \in (SUBSET DBs) \ {{}}, Tamper(i, S)
      PROVE  ChoiceInv'
  BY <1>4, TamperChoice
<1>5. CASE StepFails
  <2>1. op' = Abort /\ backups' = backups /\ op.pc # "done"
    BY <1>5 DEF StepFails
  <2> QED BY <2>1, AbortFacts, GoesOn
<1>6. CASE Crash \/ Finish
  <2>1. op'.kind # "restore" /\ op'.pc = "idle"
    BY <1>6 DEF Crash, Finish, Idle
  <2> QED BY <2>1, NoChoice
<1>7. CASE Publish
  BY <1>7, PublishChoice
<1>8. CASE RestoreBegin
  BY <1>8, RestoreBeginChoice
<1>9. CASE CheckFile
  BY <1>9, CheckChoice
<1>10. CASE \/ CopyFile \/ PinFile \/ PinDone \/ Validate \/ ApplyFile \/ ApplyDone
            \/ RecoverFile \/ ReverifyFile
  <2>1. /\ op'.kind = op.kind /\ op'.selected = op.selected /\ op'.safety = op.safety
        /\ backups' = backups /\ op.pc # "done"
    BY <1>1, <1>10 DEF OpType, NextFile, Goes, Ends, CopyFile, PinFile, PinDone, Validate,
       ApplyFile, ApplyDone, RecoverFile, ReverifyFile
  <2>2. op'.pc = "done" => op'.result # "restored"
    <3>1. CASE ReverifyFile
      BY <1>1, <3>1 DEF OpType, NextFile, Ends, ReverifyFile
    <3>2. CASE CopyFile \/ PinFile \/ ApplyFile
      BY <1>1, <3>2 DEF OpType, NextFile, CopyFile, PinFile, ApplyFile
    <3>3. CASE PinDone \/ Validate \/ ApplyDone \/ RecoverFile
      BY <1>1, <3>3 DEF OpType, Goes, PinDone, Validate, ApplyDone, RecoverFile
    <3> QED BY <1>10, <3>1, <3>2, <3>3
  <2> QED BY <2>1, <2>2, GoesOn
<1>11. CASE VerifyFile
  <2>1. op.pc = "verify" /\ backups' = backups
    BY <1>11 DEF VerifyFile
  <2>2. CASE op' = Abort
    BY <2>1, <2>2, AbortFacts, GoesOn
  <2>3. CASE \/ op' = [op EXCEPT !.at = @ + 1]
             \/ op' = [[op EXCEPT !.pc = "check", !.at = 1] EXCEPT !.then = "success"]
    <3>1. /\ op'.kind = op.kind /\ op'.selected = op.selected /\ op'.safety = op.safety
          /\ op'.pc \in {"verify", "check"}
      BY <1>1, <2>1, <2>3 DEF OpType
    <3> QED BY <2>1, <3>1, GoesOn
  <2> QED BY <1>11, <2>2, <2>3, Zenon DEF VerifyFile, Goes, NextFile
<1>12. CASE UNCHANGED vars
  BY <1>12 DEF vars, ChoiceInv, ChosenByName, Earlier, Rank
<1> QED
  BY <1>2, <1>3, <1>4, <1>5, <1>6, <1>7, <1>8, <1>9, <1>10, <1>11, <1>12 DEF Next

LEMMA ChoiceInductive == Spec => []ChoiceInv
<1>1. Init => ChoiceInv
  BY DEF Init, ChoiceInv, Idle
<1> QED BY <1>1, ChoicePreserved, Inductive, PTL DEF Spec

\* What was restored is the newest backup there was exactly when no older one has a
\* label that sorts after the label of the newest.
LEMMA NewestWasChosen ==
  ASSUME IInv, ChoiceInv, op.pc = "done", op.result = "restored"
  PROVE  op.selected = op.safety - 1 <=> NewestIsLastName
<1>1. op.kind = "restore" /\ op.safety # 0 /\ ChosenByName
  BY DEF ChoiceInv
<1>2. /\ op.safety \in Nat /\ op.selected \in 1..(op.safety - 1)
      /\ \A j \in 1..(op.safety - 1) :
           Rank(j) < Rank(op.selected) \/ (Rank(j) = Rank(op.selected) /\ j <= op.selected)
  BY <1>1, OpFacts DEF IInv, ChosenByName, Earlier
<1>3. \A j \in 1..(op.safety - 1) : Rank(j) \in 1..3
  <2>1. op.safety \in DOMAIN backups /\ DOMAIN backups = 1..Len(backups) /\ Len(backups) \in Nat
    BY <1>1, OpFacts DEF IInv, TypeOK
  <2> QED BY <1>2, <2>1, RankFacts DEF IInv
<1>4. op.safety - 1 \in 1..(op.safety - 1)
  BY <1>2
<1> DEFINE last == op.safety - 1
<1>5. ASSUME op.selected = last PROVE \A j \in 1..last : Rank(j) <= Rank(last)
  BY <1>2, <1>3, <1>5
<1>6. ASSUME \A j \in 1..last : Rank(j) <= Rank(last) PROVE op.selected = last
  <2>1. Rank(op.selected) <= Rank(last)
    BY <1>2, <1>6
  <2>2. last <= op.selected
    BY <1>2, <1>3, <1>4, <2>1
  <2> QED BY <1>2, <2>2
<1> QED BY <1>1, <1>5, <1>6 DEF NewestIsLastName

\* The names decide what is restored, not the age (latest_backup): a restore brings
\* back the newest backup exactly when the newest has the last name.
THEOREM RestoredByName ==
  Spec => [](op.pc = "done" /\ op.result = "restored" =>
               (op.selected = op.safety - 1 <=> NewestIsLastName))
<1>1. IInv /\ ChoiceInv =>
        (op.pc = "done" /\ op.result = "restored" =>
           (op.selected = op.safety - 1 <=> NewestIsLastName))
  BY NewestWasChosen
<1> QED BY <1>1, Inductive, ChoiceInductive, PTL

\* As long as the newest backup has the last name, for instance when the user has
\* only made backups and never deleted or restored a database, it is restored.
THEOREM LatestIsRestoredHolds == Spec /\ []NewestIsLastName => []LatestIsRestored
<1>1. IInv /\ ChoiceInv /\ NewestIsLastName => LatestIsRestored
  BY NewestWasChosen DEF LatestIsRestored
<1> QED BY <1>1, Inductive, ChoiceInductive, PTL
=============================================================================
