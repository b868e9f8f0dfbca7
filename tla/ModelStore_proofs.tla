-------------------------- MODULE ModelStore_proofs --------------------------
(***************************************************************************)
(* What ModelStore promises, for any set of revisions and any number of    *)
(* failures and crashes.                                                   *)
(*                                                                         *)
(* IInv follows an operation: what it has moved, recorded and tried so far *)
(* (OpProgress), and that from the end of the download on the former       *)
(* revision stays in good order and is what the pointer names (BaseKept).  *)
(* Each part is disturbed only by the operation's own steps, because the   *)
(* user is let in at rest and during a download only (Quiet).              *)
(***************************************************************************)
EXTENDS ModelStore, TLAPS

-----------------------------------------------------------------------------
(* The inductive invariant.                                                *)

Kinds == {"none", "install", "update", "revert"}
Pcs == {"idle", "download", "check", "replace", "move", "record", "clean", "smoke", "barrier", "activate", "restore"}
Ops == [kind: Kinds, rev: Revisions \union {None}, pc: Pcs, base: Pointers]

\* Where each operation can be
OpShape ==
  /\ op \in Ops
  /\ op.kind = "none" <=> op.pc = "idle"
  /\ op.pc = "idle" <=> op.rev = None
  /\ op.kind = "revert" => op.pc \in {"activate", "restore"} /\ op.rev = op.base.prev
  /\ op.pc = "restore" => op.kind # "install"
  /\ op.kind \in {"update", "revert"} => op.base.rev \in Revisions \ {op.rev}

Recorded == {"clean", "smoke", "barrier", "activate", "restore"}

\* What an operation has moved, recorded and tried stays so until it ends
OpProgress ==
  /\ op.pc = "record" => dir[op.rev]
  /\ op.pc \in Recorded => Usable(op.rev)
  /\ op.pc \in {"barrier", "activate", "restore"} => op.kind = "revert" \/ tried[op.rev]
  /\ op.kind = "update" /\ op.pc \in {"record"} \union Recorded => ~staging[op.rev]

\* From the end of the download on, the former revision is in good order and the pointer names
\* it; only a choice that failed may have left the new one there
BaseKept ==
  op.kind \in {"update", "revert"} /\ op.pc # "download" =>
    /\ Usable(op.base.rev)
    /\ current.rev = op.base.rev \/ (op.pc = "restore" /\ current.rev = op.rev)

IInv == TypeOK /\ OpShape /\ OpProgress /\ BaseKept /\ PointerBacked

-----------------------------------------------------------------------------
(* The operators.                                                          *)

\* A step forward changes the operation's place and nothing else
LEMMA GoFacts ==
  ASSUME op \in Ops, NEW pc \in Pcs, Go(pc)
  PROVE  /\ op' \in Ops /\ op'.pc = pc /\ op'.kind = op.kind /\ op'.rev = op.rev /\ op'.base = op.base
         /\ result' = result
BY DEF Go, Ops

\* An operation that ended is at rest
LEMMA EndFacts ==
  ASSUME NEW how, End(how)
  PROVE  /\ op' \in Ops /\ op'.pc = "idle" /\ op'.kind = "none" /\ op'.rev = None
         /\ op'.base = NoPointer /\ result' = how
BY DEF End, NoOp, Ops, Kinds, Pcs, NoPointer, Pointers

\* What an operation in progress knows of its revisions
LEMMA OpFacts ==
  ASSUME IInv, op.pc # "idle"
  PROVE  /\ op \in Ops /\ op.rev \in Revisions /\ op.kind \in {"install", "update", "revert"}
         /\ op.base.rev \in Revisions \union {None} /\ op.base.prev \in Revisions \union {None}
BY DEF IInv, OpShape, Ops, Kinds, Pointers

\* The pointer of a working former revision is the working model
LEMMA BaseWorks ==
  ASSUME IInv, op.kind \in {"update", "revert"}, op.pc # "download", current.rev = op.base.rev
  PROVE  Working = op.base.rev
BY StoreAssumption DEF IInv, BaseKept, Working

LEMMA InitInv == Init => IInv
<1> SUFFICES ASSUME Init PROVE IInv
  OBVIOUS
<1>1. TypeOK
  BY StoreAssumption DEF Init, TypeOK, NoPointer, Pointers, NoOp
<1>2. OpShape
  BY DEF Init, OpShape, Ops, Kinds, Pcs, NoOp, NoPointer, Pointers
<1>3. OpProgress /\ BaseKept
  BY DEF Init, OpProgress, BaseKept, Recorded, NoOp
<1>4. PointerBacked
  <2>1. PICK installed \in SUBSET Revisions :
          /\ dir = [r \in Revisions |-> r \in installed]
          /\ current \in {NoPointer} \union {[rev |-> r, prev |-> None]: r \in installed}
    BY DEF Init
  <2>2. current.rev = None \/ \E r \in installed : current.rev = r
    BY <2>1 DEF NoPointer
  <2> QED BY <2>1, <2>2 DEF PointerBacked
<1> QED BY <1>1, <1>2, <1>3, <1>4 DEF IInv

-----------------------------------------------------------------------------
(* The user, the publisher and the beginning of an operation.              *)

LEMMA ChooseInv == ASSUME IInv, NEW r \in Revisions, Choose(r) PROVE IInv'
<1> USE StoreAssumption
<1>1. TypeOK'
  BY DEF IInv, TypeOK, Choose, Pointers
<1>2. OpShape'
  BY DEF IInv, OpShape, Choose
<1>3. OpProgress'
  BY DEF IInv, OpProgress, Usable, Choose, Usable
<1>4. BaseKept'
  BY DEF IInv, OpShape, BaseKept, Choose, Quiet
<1>5. PointerBacked'
  BY DEF PointerBacked, Usable, Choose, Usable
<1> QED BY <1>1, <1>2, <1>3, <1>4, <1>5 DEF IInv

LEMMA RemoveInv == ASSUME IInv, NEW r \in Revisions, Remove(r) PROVE IInv'
<1> USE StoreAssumption
<1>1. TypeOK'
  BY DEF IInv, TypeOK, Remove, Pointers, NoPointer
<1>2. OpShape'
  BY DEF IInv, OpShape, Remove
<1>3. OpProgress'
  BY DEF OpProgress, Recorded, Remove, Quiet
<1>4. BaseKept'
  BY DEF IInv, OpShape, BaseKept, Remove, Quiet
<1>5. PointerBacked'
  BY DEF IInv, PointerBacked, Remove, NoPointer
<1> QED BY <1>1, <1>2, <1>3, <1>4, <1>5 DEF IInv

LEMMA RevokeInv == ASSUME IInv, NEW r \in Revisions, Revoke(r) PROVE IInv'
<1> USE StoreAssumption
<1>1. TypeOK'
  BY DEF IInv, TypeOK, Revoke, disk
<1>2. OpShape'
  BY DEF IInv, OpShape, Revoke
<1>3. OpProgress'
  BY DEF IInv, OpProgress, Usable, Revoke, disk
<1>4. BaseKept'
  BY DEF IInv, BaseKept, Usable, Revoke, disk
<1>5. PointerBacked'
  BY DEF IInv, PointerBacked, Revoke, disk
<1> QED BY <1>1, <1>2, <1>3, <1>4, <1>5 DEF IInv

LEMMA StartInstallInv == ASSUME IInv, NEW r \in Revisions, StartInstall(r) PROVE IInv'
<1> USE StoreAssumption
<1>1. TypeOK'
  BY DEF IInv, TypeOK, StartInstall, disk
<1>2. OpShape'
  BY DEF IInv, TypeOK, OpShape, StartInstall, Ops, Kinds, Pcs
<1>3. OpProgress'
  BY DEF OpProgress, Recorded, StartInstall
<1>4. BaseKept'
  BY DEF BaseKept, StartInstall
<1>5. PointerBacked'
  BY DEF IInv, PointerBacked, StartInstall, disk
<1> QED BY <1>1, <1>2, <1>3, <1>4, <1>5 DEF IInv

LEMMA StartUpdateInv == ASSUME IInv, NEW r \in Revisions, StartUpdate(r) PROVE IInv'
<1> USE StoreAssumption
<1>1. TypeOK'
  BY DEF IInv, TypeOK, StartUpdate, disk, Pointers, Working, Previous
<1>2. OpShape'
  BY DEF IInv, TypeOK, OpShape, StartUpdate, Ops, Kinds, Pcs, Pointers, Working, Previous
<1>3. OpProgress'
  BY DEF OpProgress, Recorded, StartUpdate
<1>4. BaseKept'
  BY DEF BaseKept, StartUpdate
<1>5. PointerBacked'
  BY DEF IInv, PointerBacked, StartUpdate, disk
<1> QED BY <1>1, <1>2, <1>3, <1>4, <1>5 DEF IInv

LEMMA StartRevertInv == ASSUME IInv, StartRevert PROVE IInv'
<1> USE StoreAssumption
<1>1. TypeOK'
  BY DEF IInv, TypeOK, StartRevert, disk, Pointers, Working, Previous
<1>2. OpShape'
  BY DEF IInv, TypeOK, OpShape, StartRevert, Ops, Kinds, Pcs, Pointers, Working, Previous
<1>3. OpProgress'
  BY DEF OpProgress, Usable, StartRevert, disk, Usable
<1>4. BaseKept'
  BY DEF BaseKept, Usable, StartRevert, disk, Working, Usable
<1>5. PointerBacked'
  BY DEF IInv, PointerBacked, StartRevert, disk
<1> QED BY <1>1, <1>2, <1>3, <1>4, <1>5 DEF IInv

-----------------------------------------------------------------------------
(* The operation.                                                          *)

LEMMA DownloadFailsInv == ASSUME IInv, DownloadFails PROVE IInv'
<1> USE StoreAssumption
<1>1. TypeOK'
  BY OpFacts DEF IInv, TypeOK, DownloadFails, End, NoOp, NoPointer, Pointers
<1>2. OpShape'
  BY OpFacts DEF OpShape, DownloadFails, End, NoOp, NoPointer, Pointers, Ops, Kinds, Pcs
<1>3. OpProgress'
  BY OpFacts DEF OpProgress, Recorded, DownloadFails, End, NoOp
<1>4. BaseKept'
  BY OpFacts DEF BaseKept, DownloadFails, End, NoOp
<1>5. PointerBacked'
  BY OpFacts DEF IInv, PointerBacked, DownloadFails
<1> QED BY <1>1, <1>2, <1>3, <1>4, <1>5 DEF IInv

LEMMA DownloadedInv == ASSUME IInv, Downloaded PROVE IInv'
<1> USE StoreAssumption
<1>1. TypeOK'
  <2>1. op'.rev \in Revisions \union {None} /\ op'.base \in Pointers
    BY OpFacts DEF IInv, OpShape, Downloaded, End, Go, NoOp, NoPointer, Pointers, Ops
  <2>2. /\ staging' \in [Revisions -> BOOLEAN] /\ dir' \in [Revisions -> BOOLEAN]
        /\ backup' \in [Revisions -> BOOLEAN] /\ tried' \in [Revisions -> BOOLEAN]
    BY OpFacts DEF IInv, TypeOK, Downloaded
  <2>3. /\ record' \in [Revisions -> {"none", "ok", "broken"}] /\ faults' \in 0 .. Faults
        /\ current' \in Pointers /\ revoked' \subseteq Revisions
    BY OpFacts DEF IInv, TypeOK, Downloaded
  <2> QED BY <2>1, <2>2, <2>3 DEF TypeOK
<1>2. OpShape'
  BY OpFacts DEF IInv, OpShape, Downloaded, End, NoOp, NoPointer, Go, At, Pcs, Pointers, Ops, Kinds
<1>3. OpProgress'
  BY OpFacts DEF IInv, OpShape, OpProgress, Recorded, Downloaded, End, NoOp, Go, Ops
<1>4. BaseKept'
  BY OpFacts DEF IInv, OpShape, BaseKept, Usable, Downloaded, End, NoOp, StillBase, Working, Go, At, Ops
<1>5. PointerBacked'
  BY OpFacts DEF IInv, PointerBacked, Downloaded
<1> QED BY <1>1, <1>2, <1>3, <1>4, <1>5 DEF IInv

LEMMA CheckInv == ASSUME IInv, Check PROVE IInv'
<1> USE StoreAssumption
<1>1. TypeOK'
  <2>1. op'.rev \in Revisions \union {None} /\ op'.base \in Pointers
    BY OpFacts DEF IInv, OpShape, Check, End, Go, NoOp, NoPointer, Pointers, Ops
  <2>2. /\ staging' \in [Revisions -> BOOLEAN] /\ dir' \in [Revisions -> BOOLEAN]
        /\ backup' \in [Revisions -> BOOLEAN] /\ tried' \in [Revisions -> BOOLEAN]
    BY OpFacts DEF IInv, TypeOK, Check, Discarded
  <2>3. /\ record' \in [Revisions -> {"none", "ok", "broken"}] /\ faults' \in 0 .. Faults
        /\ current' \in Pointers /\ revoked' \subseteq Revisions
    BY OpFacts DEF IInv, TypeOK, Check
  <2> QED BY <2>1, <2>2, <2>3 DEF TypeOK
<1>2. OpShape'
  BY OpFacts DEF IInv, OpShape, Check, At, Pcs, End, Go, NoOp, NoPointer, Pointers, Ops, Kinds
<1>3. OpProgress'
  BY OpFacts DEF IInv, OpShape, OpProgress, Recorded, Check, End, Go, NoOp, Ops
<1>4. BaseKept'
  BY OpFacts DEF IInv, BaseKept, Usable, Check, At, End, Go, NoOp, Ops
<1>5. PointerBacked'
  BY OpFacts DEF IInv, PointerBacked, Check
<1> QED BY <1>1, <1>2, <1>3, <1>4, <1>5 DEF IInv

LEMMA ReplaceInv == ASSUME IInv, Replace PROVE IInv'
<1> USE StoreAssumption
<1>1. TypeOK'
  <2>1. op'.rev \in Revisions \union {None} /\ op'.base \in Pointers
    BY OpFacts DEF IInv, OpShape, Replace, End, Go, NoOp, NoPointer, Pointers, Ops
  <2>2. /\ staging' \in [Revisions -> BOOLEAN] /\ dir' \in [Revisions -> BOOLEAN]
        /\ backup' \in [Revisions -> BOOLEAN] /\ tried' \in [Revisions -> BOOLEAN]
    BY OpFacts DEF IInv, TypeOK, Replace, Discarded
  <2>3. /\ record' \in [Revisions -> {"none", "ok", "broken"}] /\ faults' \in 0 .. Faults
        /\ current' \in Pointers /\ revoked' \subseteq Revisions
    BY OpFacts DEF IInv, TypeOK, Replace, Fault
  <2> QED BY <2>1, <2>2, <2>3 DEF TypeOK
<1>2. OpShape'
  BY OpFacts DEF IInv, OpShape, Replace, At, Pcs, End, Go, NoOp, NoPointer, Pointers, Ops, Kinds
<1>3. OpProgress'
  BY OpFacts DEF IInv, OpShape, OpProgress, Recorded, Replace, End, Go, NoOp, Ops
<1>4. BaseKept'
  BY OpFacts DEF IInv, TypeOK, OpShape, BaseKept, Usable, Replace, At, End, Go, NoOp, Ops
<1>5. PointerBacked'
  BY OpFacts DEF IInv, TypeOK, PointerBacked, Replace, Pointers
<1> QED BY <1>1, <1>2, <1>3, <1>4, <1>5 DEF IInv

LEMMA MoveInv == ASSUME IInv, Move PROVE IInv'
<1> USE StoreAssumption
<1>1. TypeOK'
  <2>1. op'.rev \in Revisions \union {None} /\ op'.base \in Pointers
    BY OpFacts DEF IInv, OpShape, Move, End, Go, NoOp, NoPointer, Pointers, Ops
  <2>2. /\ staging' \in [Revisions -> BOOLEAN] /\ dir' \in [Revisions -> BOOLEAN]
        /\ backup' \in [Revisions -> BOOLEAN] /\ tried' \in [Revisions -> BOOLEAN]
    BY OpFacts DEF IInv, TypeOK, Move, Discarded
  <2>3. /\ record' \in [Revisions -> {"none", "ok", "broken"}] /\ faults' \in 0 .. Faults
        /\ current' \in Pointers /\ revoked' \subseteq Revisions
    BY OpFacts DEF IInv, TypeOK, Move, Fault
  <2> QED BY <2>1, <2>2, <2>3 DEF TypeOK
<1>2. OpShape'
  BY OpFacts DEF IInv, OpShape, Move, At, Pcs, End, Go, NoOp, NoPointer, Pointers, Ops, Kinds
<1>3. OpProgress'
  BY OpFacts DEF IInv, TypeOK, OpProgress, Recorded, Move, At, End, Go, NoOp, Ops
<1>4. BaseKept'
  BY OpFacts DEF IInv, TypeOK, BaseKept, Usable, Move, At, End, Go, NoOp, Ops
<1>5. PointerBacked'
  BY OpFacts DEF IInv, TypeOK, PointerBacked, Move, Pointers
<1> QED BY <1>1, <1>2, <1>3, <1>4, <1>5 DEF IInv

LEMMA RecordInv == ASSUME IInv, Record PROVE IInv'
<1> USE StoreAssumption
<1>1. TypeOK'
  BY OpFacts DEF IInv, TypeOK, Record, Fault, At, End, Go, NoOp, NoPointer, Pointers, Ops
<1>2. OpShape'
  BY OpFacts DEF IInv, OpShape, Record, At, Pcs, End, Go, NoOp, NoPointer, Pointers, Ops, Kinds
<1>3. OpProgress'
  BY OpFacts DEF IInv, TypeOK, OpProgress, Recorded, Usable, Record, At, End, Go, NoOp, Ops
<1>4. BaseKept'
  BY OpFacts DEF IInv, TypeOK, BaseKept, Usable, Record, At, End, Go, NoOp, Ops
<1>5. PointerBacked'
  BY OpFacts DEF IInv, PointerBacked, Record
<1> QED BY <1>1, <1>2, <1>3, <1>4, <1>5 DEF IInv

LEMMA CleanInv == ASSUME IInv, Clean PROVE IInv'
<1> USE StoreAssumption
<1>1. TypeOK'
  <2>1. op'.rev \in Revisions \union {None} /\ op'.base \in Pointers
    BY OpFacts DEF IInv, OpShape, Clean, End, Go, NoOp, NoPointer, Pointers, Ops
  <2>2. /\ staging' \in [Revisions -> BOOLEAN] /\ dir' \in [Revisions -> BOOLEAN]
        /\ backup' \in [Revisions -> BOOLEAN] /\ tried' \in [Revisions -> BOOLEAN]
    BY OpFacts DEF IInv, TypeOK, Clean
  <2>3. /\ record' \in [Revisions -> {"none", "ok", "broken"}] /\ faults' \in 0 .. Faults
        /\ current' \in Pointers /\ revoked' \subseteq Revisions
    BY OpFacts DEF IInv, TypeOK, Clean, Fault
  <2> QED BY <2>1, <2>2, <2>3 DEF TypeOK
<1>2. OpShape'
  BY OpFacts DEF IInv, OpShape, Clean, At, Pcs, End, Go, NoOp, NoPointer, Pointers, Ops, Kinds
<1>3. OpProgress'
  BY OpFacts DEF IInv, OpProgress, Recorded, Usable, Clean, At, End, Go, NoOp, Ops
<1>4. BaseKept'
  BY OpFacts DEF IInv, BaseKept, Usable, Clean, At, End, Go, NoOp, Ops
<1>5. PointerBacked'
  BY OpFacts DEF IInv, TypeOK, OpProgress, PointerBacked, Recorded, Usable, Clean, At, Pointers
<1> QED BY <1>1, <1>2, <1>3, <1>4, <1>5 DEF IInv

LEMMA SmokeInv == ASSUME IInv, Smoke PROVE IInv'
<1> USE StoreAssumption
<1>1. TypeOK'
  <2>1. op'.rev \in Revisions \union {None} /\ op'.base \in Pointers
    BY OpFacts DEF IInv, OpShape, Smoke, End, Go, NoOp, NoPointer, Pointers, Ops
  <2>2. /\ staging' \in [Revisions -> BOOLEAN] /\ dir' \in [Revisions -> BOOLEAN]
        /\ backup' \in [Revisions -> BOOLEAN] /\ tried' \in [Revisions -> BOOLEAN]
    BY OpFacts DEF IInv, TypeOK, Smoke
  <2>3. /\ record' \in [Revisions -> {"none", "ok", "broken"}] /\ faults' \in 0 .. Faults
        /\ current' \in Pointers /\ revoked' \subseteq Revisions
    BY OpFacts DEF IInv, TypeOK, Smoke, Fault
  <2> QED BY <2>1, <2>2, <2>3 DEF TypeOK
<1>2. OpShape'
  BY OpFacts DEF IInv, OpShape, Smoke, At, Pcs, End, Go, NoOp, NoPointer, Pointers, Ops, Kinds
<1>3. OpProgress'
  BY OpFacts DEF IInv, TypeOK, OpProgress, Recorded, Usable, Smoke, At, End, Go, NoOp, Ops
<1>4. BaseKept'
  BY OpFacts DEF IInv, BaseKept, Usable, Smoke, At, End, Go, NoOp, Ops
<1>5. PointerBacked'
  BY OpFacts DEF IInv, PointerBacked, Smoke
<1> QED BY <1>1, <1>2, <1>3, <1>4, <1>5 DEF IInv

LEMMA BarrierInv == ASSUME IInv, Barrier PROVE IInv'
<1> USE StoreAssumption
<1>1. TypeOK'
  BY OpFacts DEF IInv, TypeOK, Barrier, disk, At, End, Go, NoOp, NoPointer, Pointers, Ops
<1>2. OpShape'
  BY OpFacts DEF IInv, OpShape, Barrier, At, Pcs, End, Go, NoOp, NoPointer, Pointers, Ops, Kinds
<1>3. OpProgress'
  BY OpFacts DEF IInv, OpProgress, Recorded, Usable, Barrier, disk, At, End, Go, NoOp, Ops
<1>4. BaseKept'
  BY OpFacts DEF IInv, BaseKept, Usable, Barrier, disk, At, End, Go, NoOp, Ops
<1>5. PointerBacked'
  BY OpFacts DEF IInv, PointerBacked, Barrier, disk
<1> QED BY <1>1, <1>2, <1>3, <1>4, <1>5 DEF IInv

LEMMA ActivateInv == ASSUME IInv, Activate PROVE IInv'
<1> USE StoreAssumption
<1>1. TypeOK'
  BY OpFacts DEF IInv, TypeOK, Activate, Fault, Chosen, At, End, Go, NoOp, NoPointer, Pointers, Ops
<1>2. OpShape'
  BY OpFacts DEF IInv, OpShape, Activate, At, Pcs, End, Go, NoOp, NoPointer, Pointers, Ops, Kinds
<1>3. OpProgress'
  BY OpFacts DEF IInv, OpProgress, Recorded, Usable, Activate, At, End, Go, NoOp, Ops
<1>4. BaseKept'
  BY OpFacts DEF IInv, BaseKept, Usable, Activate, Chosen, At, End, Go, NoOp, Ops
<1>5. PointerBacked'
  BY OpFacts DEF IInv, OpProgress, PointerBacked, Recorded, Usable, Activate, Chosen, At
<1> QED BY <1>1, <1>2, <1>3, <1>4, <1>5 DEF IInv

LEMMA RestoreInv == ASSUME IInv, Restore PROVE IInv'
<1> USE StoreAssumption
<1>1. TypeOK'
  BY OpFacts DEF IInv, TypeOK, Restore, Fault, End, NoOp, NoPointer, Pointers
<1>2. OpShape'
  BY OpFacts DEF OpShape, Restore, Pcs, End, NoOp, NoPointer, Pointers, Ops, Kinds
<1>3. OpProgress'
  BY OpFacts DEF OpProgress, Recorded, Restore, End, NoOp
<1>4. BaseKept'
  BY OpFacts DEF BaseKept, Restore, End, NoOp
<1>5. PointerBacked'
  BY OpFacts DEF IInv, OpShape, BaseKept, PointerBacked, Usable, Restore, At
<1> QED BY <1>1, <1>2, <1>3, <1>4, <1>5 DEF IInv

LEMMA CrashInv == ASSUME IInv, Crash PROVE IInv'
<1> USE StoreAssumption
<1>1. TypeOK'
  BY OpFacts DEF IInv, TypeOK, Crash, Fault, NoOp, NoPointer, Pointers
<1>2. OpShape'
  BY OpFacts DEF OpShape, Crash, NoOp, NoPointer, Pointers, Ops, Kinds, Pcs
<1>3. OpProgress'
  BY OpFacts DEF OpProgress, Recorded, Crash, NoOp
<1>4. BaseKept'
  BY OpFacts DEF BaseKept, Crash, NoOp
<1>5. PointerBacked'
  BY OpFacts DEF IInv, PointerBacked, Crash
<1> QED BY <1>1, <1>2, <1>3, <1>4, <1>5 DEF IInv

LEMMA NextInv == ASSUME IInv, [Next]_vars PROVE IInv'
<1>1. CASE \E r \in Revisions: Choose(r) \/ Remove(r) \/ Revoke(r) \/ StartInstall(r) \/ StartUpdate(r)
  BY <1>1, ChooseInv, RemoveInv, RevokeInv, StartInstallInv, StartUpdateInv
<1>2. CASE StartRevert
  BY <1>2, StartRevertInv
<1>3. CASE Proceed
  BY <1>3, DownloadFailsInv, DownloadedInv, CheckInv, ReplaceInv, MoveInv, RecordInv, CleanInv, SmokeInv,
     BarrierInv, ActivateInv, RestoreInv DEF Proceed
<1>4. CASE Crash
  BY <1>4, CrashInv
<1>5. CASE UNCHANGED vars
  BY <1>5 DEF IInv, TypeOK, OpShape, OpProgress, BaseKept, PointerBacked, Usable, vars, disk
<1> QED BY <1>1, <1>2, <1>3, <1>4, <1>5 DEF Next

-----------------------------------------------------------------------------
(* What the store promises.                                                *)

\* While an update is past its download, the working model is the former or the new revision
LEMMA KeepsWorking == IInv => UpdateKeepsWorking
<1> SUFFICES ASSUME IInv, op.kind = "update", op.pc # "download"
             PROVE  Working \in {op.base.rev, op.rev}
  BY DEF UpdateKeepsWorking
<1>1. CASE current.rev = op.base.rev
  BY <1>1, BaseWorks
<1>2. CASE op.pc = "restore" /\ current.rev = op.rev
  <2>1. Usable(op.rev) /\ op.rev # None
    BY <1>2, StoreAssumption, OpFacts DEF IInv, OpProgress, Recorded
  <2> QED BY <1>2, <2>1 DEF Working
<1> QED BY <1>1, <1>2 DEF IInv, BaseKept

\* The operation moves the pointer in two places: to the revision it has tried, or back
LEMMA PointerMoves ==
  ASSUME IInv, Proceed, current' # current
  PROVE  /\ op.pc \in {"activate", "restore"}
         /\ current' = Chosen \/ (op.pc = "restore" /\ current' = op.base)
<1>1. ~(DownloadFails \/ Downloaded \/ Check \/ Replace \/ Move \/ Record \/ Clean \/ Smoke \/ Barrier)
  BY DEF DownloadFails, Downloaded, Check, Replace, Move, Record, Clean, Smoke, Barrier, disk
<1>2. CASE Activate
  BY <1>2 DEF Activate, At
<1>3. CASE Restore
  BY <1>3 DEF Restore, At
<1> QED BY <1>1, <1>2, <1>3 DEF Proceed

LEMMA OnlyTriedStep ==
  ASSUME IInv, Proceed, current'.rev # current.rev
  PROVE  current'.rev \in {op.base.rev, op.base.prev} \/ tried[current'.rev]
<1>1. CASE current' = Chosen
  <2>1. current'.rev = op.rev
    BY <1>1 DEF Chosen
  <2> QED BY <2>1, PointerMoves DEF IInv, OpShape, OpProgress
<1> QED BY <1>1, PointerMoves

LEMMA ChoiceStep ==
  ASSUME IInv, op.kind = "update", Proceed, current' # current
  PROVE  current.rev \in {op.base.rev, op.rev}
BY PointerMoves DEF IInv, BaseKept

\* An operation that ends without success has not moved the pointer, or has put it back
LEMMA FailedStep ==
  ASSUME IInv, op.kind \in {"update", "revert"}, op.pc # "download", Proceed, op' = NoOp, result' = "failed"
  PROVE  /\ (current' = current /\ op.pc # "restore") \/ current' = op.base
         /\ op.kind = "update" => ~staging'[op.rev]
<1>1. op \in Ops /\ op.rev \in Revisions /\ op.pc # "idle" /\ staging \in [Revisions -> BOOLEAN]
  BY OpFacts DEF IInv, OpShape, TypeOK
<1>2. \A pc \in Pcs : ~Go(pc) \/ pc = "idle"
  BY <1>1, GoFacts DEF NoOp
<1>3. ~(DownloadFails \/ Downloaded)
  BY DEF DownloadFails, Downloaded, At
<1>4. CASE Check
  BY <1>1, <1>2, <1>4 DEF Check, Discarded, At, Pcs
<1>5. CASE Replace
  BY <1>1, <1>2, <1>5 DEF Replace, Discarded, At, Pcs
<1>6. CASE Move
  BY <1>1, <1>2, <1>6 DEF Move, Discarded, At
<1>7. CASE Record
  BY <1>1, <1>2, <1>7 DEF Record, At, IInv, OpProgress
<1>8. CASE Clean \/ Smoke \/ Barrier
  <2>1. UNCHANGED <<staging, current>> /\ op.pc \in {"clean", "smoke", "barrier"}
    BY <1>8 DEF Clean, Smoke, Barrier, At, disk
  <2> QED BY <2>1 DEF IInv, OpProgress, Recorded
<1>9. CASE Activate
  <2>1. UNCHANGED <<staging, current>> /\ op.pc = "activate"
    BY <1>2, <1>9 DEF Activate, End, At, Pcs
  <2> QED BY <2>1 DEF IInv, OpProgress, Recorded
<1>10. CASE Restore
  <2>1. current' = op.base /\ UNCHANGED staging /\ op.pc = "restore"
    BY <1>10 DEF Restore, End, At
  <2> QED BY <2>1 DEF IInv, OpProgress, Recorded
<1> QED BY <1>3, <1>4, <1>5, <1>6, <1>7, <1>8, <1>9, <1>10 DEF Proceed

LEMMA RestoresStep ==
  ASSUME IInv, op.kind \in {"update", "revert"}, op.pc # "download", Proceed, op' = NoOp, result' = "failed"
  PROVE  /\ current'.rev = op.base.rev
         /\ current'.prev = None => None \in {op.base.prev, current.prev}
         /\ op.kind = "update" => ~staging'[op.rev]
BY FailedStep DEF IInv, BaseKept

-----------------------------------------------------------------------------
\* The invariant of the store, for any revisions, failures and crashes
THEOREM Invariance == Spec => []IInv
BY InitInv, NextInv, PTL DEF Spec

\* Every variable of the store keeps its type
THEOREM StoreTyped == Spec => []TypeOK
<1>1. IInv => TypeOK
  BY DEF IInv
<1> QED BY <1>1, Invariance, PTL

\* ModelStore.commit, Installer and ModelRevisionUpdater together: at every moment of an update
\* there is a working model, the former or the new one; what the pointer names is not lost; only
\* a revision that was tried, or the former one, is made the working one; the user's choice
\* during the download stands; and a failure leaves the former revision and no staging
THEOREM ModelStands == Spec => ModelSurvives
<1>1. IInv => UpdateKeepsWorking /\ PointerBacked
  BY KeepsWorking DEF IInv
<1>2. IInv /\ [Next]_vars =>
        [Proceed /\ current'.rev # current.rev =>
           current'.rev \in {op.base.rev, op.base.prev} \/ tried[current'.rev]]_vars
  BY OnlyTriedStep
<1>3. IInv /\ [Next]_vars =>
        [op.kind = "update" /\ Proceed /\ current' # current => current.rev \in {op.base.rev, op.rev}]_vars
  BY ChoiceStep
<1>4. IInv /\ [Next]_vars =>
        [op.kind \in {"update", "revert"} /\ op.pc # "download" /\ Proceed /\ op' = NoOp /\ result' = "failed" =>
           /\ current'.rev = op.base.rev
           /\ current'.prev = None => None \in {op.base.prev, current.prev}
           /\ op.kind = "update" => ~staging'[op.rev]]_vars
  BY RestoresStep
<1> QED BY <1>1, <1>2, <1>3, <1>4, Invariance, PTL
       DEF Spec, ModelSurvives, OnlyTriedIsChosen, ChoiceKept, FailureRestores
===============================================================================
