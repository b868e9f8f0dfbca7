------------------------------ MODULE ModelStore ------------------------------
(***************************************************************************)
(* The installed revisions of one model: the store's directories, the      *)
(* installer that moves a downloaded set into it and tries it, and the     *)
(* updater that makes a new revision the working one and can go back.  One *)
(* operation runs at a time, on a thread; while it downloads, the user may *)
(* choose or remove revisions.  The process may die between any two        *)
(* operations on the disk, and each of them may fail.                      *)
(***************************************************************************)
EXTENDS Naturals

CONSTANTS
  Revisions,    \* the revisions of the model
  None,         \* no revision
  Faults        \* bound: how many disk operations fail and crashes happen in all

ASSUME StoreAssumption == None \notin Revisions /\ Faults \in Nat

VARIABLES
  staging,    \* staging[r]: <r>.partial exists
  dir,        \* dir[r]: the directory of an installed revision exists
  backup,     \* backup[r]: <r>.old-* exists
  record,     \* record[r]: <r>.json, "none", "ok" or "broken"
  current,    \* current.json: [rev, prev]
  revoked,    \* the revisions the accepted catalogue revokes
  op,         \* the operation that runs: [kind, rev, pc, base]
  result,     \* how the last operation ended
  tried,      \* history: a trial recognition of what lies in dir[r] has passed
  faults

disk == <<staging, dir, backup, record, current>>
vars == <<disk, revoked, op, result, tried, faults>>

NoPointer == [rev |-> None, prev |-> None]
Pointers == [rev: Revisions \union {None}, prev: Revisions \union {None}]
NoOp == [kind |-> "none", rev |-> None, pc |-> "idle", base |-> NoPointer]

\* ModelStore.current and previous_revision
Usable(r) == r # None /\ dir[r] /\ record[r] = "ok"
Working == IF current.rev # None /\ Usable(current.rev) THEN current.rev ELSE None
Previous == IF current.prev # None /\ dir[current.prev] /\ current.prev # current.rev THEN current.prev ELSE None

Init ==
  /\ staging = [r \in Revisions |-> FALSE]
  /\ \E installed \in SUBSET Revisions:
       /\ dir = [r \in Revisions |-> r \in installed]
       /\ record = [r \in Revisions |-> IF r \in installed THEN "ok" ELSE "none"]
       /\ tried = dir
       /\ current \in {NoPointer} \union {[rev |-> r, prev |-> None]: r \in installed}
  /\ backup = [r \in Revisions |-> FALSE]
  /\ revoked = {} /\ op = NoOp /\ result = "none" /\ faults = 0

End(how) == op' = NoOp /\ result' = how
Go(pc) == op' = [op EXCEPT !.pc = pc] /\ UNCHANGED result
\* an operation of the disk that fails is counted
Fault == faults < Faults /\ faults' = faults + 1
At(pc) == op.pc = pc

\* the updater throws the staging away whenever it gives up before the move
Discarded == IF op.kind = "update" THEN [staging EXCEPT ![op.rev] = FALSE] ELSE staging

-----------------------------------------------------------------------------
(* The user and the publisher.                                             *)

Quiet == op.pc \in {"idle", "download"}

\* makeModelCurrent: an installed revision in good order, through the barrier of revocations
Choose(r) ==
  /\ Quiet /\ Usable(r) /\ r # Working /\ r \notin revoked
  /\ current' = [rev |-> r, prev |-> None]
  /\ UNCHANGED <<staging, dir, backup, record, revoked, op, result, tried, faults>>

\* Mutant: the pointer to a removed revision stays
RemoveForgetful(r) ==
  /\ Quiet /\ dir[r]
  /\ dir' = [dir EXCEPT ![r] = FALSE] /\ record' = [record EXCEPT ![r] = "none"]
  /\ tried' = [tried EXCEPT ![r] = FALSE]
  /\ UNCHANGED <<staging, backup, current, revoked, op, result, faults>>

\* remove: directory, state, and the pointer if it names it
Remove(r) ==
  /\ Quiet /\ dir[r]
  /\ dir' = [dir EXCEPT ![r] = FALSE] /\ record' = [record EXCEPT ![r] = "none"]
  /\ tried' = [tried EXCEPT ![r] = FALSE]
  /\ current' = IF current.rev = r THEN NoPointer ELSE current
  /\ UNCHANGED <<staging, backup, revoked, op, result, faults>>

\* bound: one revocation
Revoke(r) ==
  /\ revoked = {} /\ revoked' = revoked \union {r}
  /\ UNCHANGED <<disk, op, result, tried, faults>>

-----------------------------------------------------------------------------
(* Beginning an operation.                                                 *)

StartInstall(r) ==
  /\ At("idle") /\ r \notin revoked
  /\ op' = [kind |-> "install", rev |-> r, pc |-> "download", base |-> current]
  /\ UNCHANGED <<disk, revoked, result, tried, faults>>

\* apply: only the working model, to another revision of the catalogue that is not revoked
StartUpdate(r) ==
  /\ At("idle") /\ Working # None /\ r # Working /\ r \notin revoked
  /\ op' = [kind |-> "update", rev |-> r, pc |-> "download", base |-> [rev |-> Working, prev |-> Previous]]
  /\ UNCHANGED <<disk, revoked, result, tried, faults>>

\* revert_previous
StartRevert ==
  /\ At("idle") /\ Working # None /\ Previous # None
  /\ Usable(Previous) /\ Previous \notin revoked
  /\ op' = [kind |-> "revert", rev |-> Previous, pc |-> "activate",
            base |-> [rev |-> Working, prev |-> Previous]]
  /\ UNCHANGED <<disk, revoked, result, tried, faults>>

-----------------------------------------------------------------------------
(* Download, checks and the move.                                          *)

\* a break, a wrong sum, a cancellation; the part stays for the next attempt of an installation
DownloadFails ==
  /\ At("download")
  /\ staging' = [staging EXCEPT ![op.rev] = op.kind # "update"]
  /\ End("failed")
  /\ UNCHANGED <<dir, backup, record, current, revoked, tried, faults>>

\* the working model may have been changed while the network worked
StillBase == Working = op.base.rev
\* Mutant: the update goes on whatever was chosen meanwhile
DownloadedAnyway ==
  /\ At("download")
  /\ Go("check") /\ staging' = [staging EXCEPT ![op.rev] = TRUE]
  /\ UNCHANGED <<dir, backup, record, current, revoked, tried, faults>>

Downloaded ==
  /\ At("download")
  /\ IF op.kind = "update" /\ ~StillBase
       THEN End("failed") /\ staging' = [staging EXCEPT ![op.rev] = FALSE]
       ELSE Go("check") /\ staging' = [staging EXCEPT ![op.rev] = TRUE]
  /\ UNCHANGED <<dir, backup, record, current, revoked, tried, faults>>

\* the barrier of revocations, sums, contents and layout, and the metadata
Check ==
  /\ At("check")
  /\ \/ op.rev \notin revoked /\ Go("replace") /\ UNCHANGED staging
     \/ End("failed") /\ staging' = Discarded
  /\ UNCHANGED <<dir, backup, record, current, revoked, tried, faults>>

\* commit: a former directory steps aside
Replace ==
  /\ At("replace")
  /\ \/ /\ Go("move") /\ UNCHANGED <<staging, faults>>
        /\ backup' = [backup EXCEPT ![op.rev] = @ \/ dir[op.rev]]
        /\ dir' = [dir EXCEPT ![op.rev] = FALSE]
     \/ Fault /\ End("failed") /\ staging' = Discarded /\ UNCHANGED <<dir, backup>>
  /\ UNCHANGED <<record, current, revoked, tried>>

\* Mutant: the new set takes the place of every other one
MoveReplacing ==
  /\ At("move") /\ Go("record")
  /\ staging' = [staging EXCEPT ![op.rev] = FALSE]
  /\ dir' = [r \in Revisions |-> r = op.rev]
  /\ tried' = [tried EXCEPT ![op.rev] = FALSE]
  /\ UNCHANGED <<backup, record, current, revoked, faults>>

\* the staging takes its place; if it cannot, the former directory is put back, if it can be
Move ==
  /\ At("move")
  /\ \/ /\ Go("record") /\ UNCHANGED <<backup, faults>>
        /\ staging' = [staging EXCEPT ![op.rev] = FALSE]
        /\ dir' = [dir EXCEPT ![op.rev] = TRUE]
        /\ tried' = [tried EXCEPT ![op.rev] = FALSE]
     \/ /\ Fault /\ End("failed") /\ staging' = Discarded /\ UNCHANGED tried
        /\ \/ backup[op.rev] /\ dir' = [dir EXCEPT ![op.rev] = TRUE]
                /\ backup' = [backup EXCEPT ![op.rev] = FALSE]
           \/ UNCHANGED <<dir, backup>>
  /\ UNCHANGED <<record, current, revoked>>

\* the state is written; a failure may come before the file is replaced or after
Record ==
  /\ At("record")
  /\ \/ Go("clean") /\ record' = [record EXCEPT ![op.rev] = "ok"] /\ UNCHANGED faults
     \/ Fault /\ End("failed") /\ record' \in {record, [record EXCEPT ![op.rev] = "ok"]}
  /\ UNCHANGED <<staging, dir, backup, current, revoked, tried>>

Clean ==
  /\ At("clean")
  /\ \/ Go("smoke") /\ backup' = [backup EXCEPT ![op.rev] = FALSE] /\ UNCHANGED faults
     \/ Fault /\ End("failed") /\ UNCHANGED backup
  /\ UNCHANGED <<staging, dir, record, current, revoked, tried>>

-----------------------------------------------------------------------------
(* The trial and the choice of the working revision.                       *)

\* Mutant: a revision that was moved in good order is taken without a trial
SmokeSkipped ==
  /\ At("smoke")
  /\ Go("barrier")
  /\ UNCHANGED <<disk, revoked, tried, faults>>

\* the trial recognition; a revision that fails it is marked, if the mark can be written
Smoke ==
  /\ At("smoke")
  /\ \/ /\ tried' = [tried EXCEPT ![op.rev] = TRUE]
        /\ Go("barrier") /\ UNCHANGED <<record, faults>>
     \/ End("failed") /\ record' = [record EXCEPT ![op.rev] = "broken"] /\ UNCHANGED <<tried, faults>>
     \/ Fault /\ End("failed") /\ UNCHANGED <<record, tried>>
  /\ UNCHANGED <<staging, dir, backup, current, revoked>>

\* a cancellation or a revocation that came during the trial
Barrier ==
  /\ At("barrier")
  /\ \/ op.rev \notin revoked /\ Go("activate")
     \/ End("failed")
  /\ UNCHANGED <<disk, revoked, tried, faults>>

Chosen == [rev |-> op.rev, prev |-> IF op.kind = "update" THEN op.base.rev ELSE None]

\* the pointer is written under the barrier; a failure may come before or after the file is
\* replaced, and the updater then puts the former pointer back
Activate ==
  /\ At("activate")
  /\ \/ op.rev \notin revoked /\ current' = Chosen /\ End("done") /\ UNCHANGED faults
     \/ End("failed") /\ UNCHANGED <<current, faults>>
     \/ /\ op.rev \notin revoked /\ Fault /\ current' \in {current, Chosen}
        /\ IF op.kind = "install" THEN End("failed") ELSE Go("restore")
  /\ UNCHANGED <<staging, dir, backup, record, revoked, tried>>

\* Mutant: a restoration that the barrier refuses is waited for
RestoreWaiting ==
  /\ At("restore") /\ op.base.rev \notin revoked
  /\ current' = op.base /\ End("failed")
  /\ UNCHANGED <<staging, dir, backup, record, revoked, tried, faults>>

\* Mutant: the former revision is restored without its own former one
RestoreForgetful ==
  /\ At("restore")
  /\ \/ op.base.rev \notin revoked /\ current' = [op.base EXCEPT !.prev = None] /\ End("failed") /\ UNCHANGED faults
     \/ op.base.rev \in revoked /\ End("stuck") /\ UNCHANGED <<current, faults>>
     \/ Fault /\ current' \in {current, op.base} /\ End("stuck")
  /\ UNCHANGED <<staging, dir, backup, record, revoked, tried>>

\* _restore_current: the barrier refuses a revision that was revoked meanwhile
Restore ==
  /\ At("restore")
  /\ \/ op.base.rev \notin revoked /\ current' = op.base /\ End("failed") /\ UNCHANGED faults
     \/ op.base.rev \in revoked /\ End("stuck") /\ UNCHANGED <<current, faults>>
     \/ Fault /\ current' \in {current, op.base} /\ End("stuck")
  /\ UNCHANGED <<staging, dir, backup, record, revoked, tried>>

\* the process dies; the next one finds the disk as it is
Crash ==
  /\ op.pc # "idle" /\ Fault
  /\ staging' = IF op.pc = "download" THEN [staging EXCEPT ![op.rev] = TRUE] ELSE staging
  /\ op' = NoOp /\ result' = "none"
  /\ UNCHANGED <<dir, backup, record, current, revoked, tried>>

Proceed ==
  \/ DownloadFails \/ Downloaded \/ Check \/ Replace \/ Move \/ Record \/ Clean
  \/ Smoke \/ Barrier \/ Activate \/ Restore
Next ==
  \/ \E r \in Revisions: Choose(r) \/ Remove(r) \/ Revoke(r) \/ StartInstall(r) \/ StartUpdate(r)
  \/ StartRevert \/ Proceed \/ Crash

Spec == Init /\ [][Next]_vars
LiveSpec == Spec /\ WF_vars(Proceed)

-----------------------------------------------------------------------------
TypeOK ==
  /\ staging \in [Revisions -> BOOLEAN]
  /\ dir \in [Revisions -> BOOLEAN] /\ backup \in [Revisions -> BOOLEAN] /\ tried \in [Revisions -> BOOLEAN]
  /\ record \in [Revisions -> {"none", "ok", "broken"}]
  /\ current \in Pointers /\ revoked \subseteq Revisions
  /\ op.rev \in Revisions \union {None} /\ op.base \in Pointers /\ faults \in 0 .. Faults

\* The installer and the updater choose only a revision whose trial recognition passed, or the
\* one that was the working one before
OnlyTriedIsChosen ==
  [][Proceed /\ current'.rev # current.rev =>
       current'.rev \in {op.base.rev, op.base.prev} \/ tried[current'.rev]]_vars

\* From the check of the downloaded set on, an update never takes the working model away: at
\* every moment, and so after every crash, the working revision is the former or the new one
UpdateKeepsWorking ==
  op.kind = "update" /\ op.pc # "download" => Working \in {op.base.rev, op.rev}

\* The update does not undo what the user chose while it was downloading
ChoiceKept == [][op.kind = "update" /\ Proceed /\ current' # current => current.rev \in {op.base.rev, op.rev}]_vars

\* An update or a return that failed leaves the former revision the working one and does not
\* forget the revision to return to, unless putting the pointer back failed as well; a failed
\* update leaves no staging behind
FailureRestores ==
  [][op.kind \in {"update", "revert"} /\ op.pc # "download" /\ Proceed /\ op' = NoOp /\ result' = "failed" =>
       /\ current'.rev = op.base.rev
       /\ current'.prev = None => None \in {op.base.prev, current.prev}
       /\ op.kind = "update" => ~staging'[op.rev]]_vars

\* What the pointer names is never lost: its directory stands, or the copy that stepped aside
PointerBacked == current.rev # None => dir[current.rev] \/ backup[current.rev]

\* There is a working model through every operation, failure and crash, and it is one that was
\* tried and that the user did not choose away
ModelSurvives ==
  []UpdateKeepsWorking /\ []PointerBacked /\ OnlyTriedIsChosen /\ ChoiceKept /\ FailureRestores

\* Every operation ends
OperationEnds == op.pc # "idle" ~> op.pc = "idle"
===============================================================================
