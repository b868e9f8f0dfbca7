---------------------------- MODULE ModelDownload ----------------------------
(***************************************************************************)
(* Downloading the files of a model into its staging directory.  A file is *)
(* taken from the first source that gives it, a part that was left by a    *)
(* broken connection, a crash or another source is continued, and the sum  *)
(* of the whole is compared at the end.  A file is a sequence of chunks; a *)
(* chunk is TRUE when it is the one the catalogue means.                   *)
(***************************************************************************)
EXTENDS Naturals, Sequences, SequencesExt

CONSTANTS
  Sizes,        \* Sizes[f]: the chunks of file f
  Sources,      \* the sources in the order they are tried: "reliable" ones answer with the
                \* whole file, "flaky" ones may fail and break off, "corrupt" ones may send anything
  Stray,        \* the size of what else lies in the staging directory
  CrashLimit    \* bound: how many times the process dies

VARIABLES
  target,     \* target[f]: the chunks of the ready file, <<>> if there is none
  part,       \* part[f]: the chunks of <file>.part
  job,        \* the attempt that runs: [pc, file, source, again, offset, digest, second]
  used,       \* _Budget.used
  done,       \* _Reporter.done
  before,     \* done_before: done when the sources of this file were begun
  outcome,    \* how the last download ended
  blamed,     \* the sources that were given up for a wrong sum
  crashes

vars == <<target, part, job, used, done, before, outcome, blamed, crashes>>

Files == DOMAIN Sizes
Right(f) == [k \in 1 .. Sizes[f] |-> TRUE]
Sum(s) == FoldFunction(LAMBDA x, y: x + y, 0, s)
Total == Sum(Sizes)
StagingSize == Stray + Sum([f \in Files |-> Len(target[f]) + Len(part[f])])

Idle == [pc |-> "idle", file |-> 0, source |-> 0, again |-> FALSE, offset |-> 0,
         digest |-> <<>>, second |-> FALSE]
Source == Sources[job.source]
File == job.file

\* What may have been left by earlier runs, by other programs and by a damaged disk
Leftovers(f) == UNION {[1 .. n -> BOOLEAN]: n \in 0 .. Sizes[f]}

Init ==
  /\ target \in {t \in [Files -> UNION {Leftovers(f): f \in Files}]:
                   \A f \in Files: t[f] \in {<<>>, Right(f)} \union {[Right(f) EXCEPT ![1] = FALSE]}}
  /\ part \in {p \in [Files -> UNION {Leftovers(f): f \in Files}]: \A f \in Files: p[f] \in Leftovers(f)}
  /\ job = Idle /\ used = 0 /\ done = 0 /\ before = 0 /\ outcome = "none" /\ blamed = {} /\ crashes = 0

-----------------------------------------------------------------------------
(* download: one file after the other.                                     *)

Failed(code) == /\ outcome' = code /\ job' = Idle

\* with a cancellation or a full disk the parts stay for the next attempt
Stop ==
  /\ job.pc # "idle"
  /\ \E code \in {"cancelled", "disk-full", "no-network"}: Failed(code)
  /\ UNCHANGED <<target, part, used, done, before, blamed, crashes>>

Begin ==
  /\ job.pc = "idle" /\ outcome # "ready"
  /\ job' = [Idle EXCEPT !.pc = "file", !.file = 1]
  /\ used' = StagingSize /\ done' = 0 /\ before' = 0 /\ outcome' = "none"
  /\ UNCHANGED <<target, part, blamed, crashes>>

NextFile(f) ==
  IF f = Len(Sizes) THEN job' = Idle /\ outcome' = "ready"
                    ELSE job' = [Idle EXCEPT !.pc = "file", !.file = f + 1] /\ UNCHANGED outcome

Finished ==
  /\ job.pc = "file" /\ used <= 2 * Total /\ target[File] = Right(File)
  /\ done' = done + Sizes[File]
  /\ NextFile(File)
  /\ UNCHANGED <<target, part, used, before, blamed, crashes>>

OverBudget ==
  /\ job.pc = "file" /\ used > 2 * Total
  /\ part' = [part EXCEPT ![File] = <<>>]
  /\ Failed("too-large")
  /\ UNCHANGED <<target, used, done, before, blamed, crashes>>

NeedsSource ==
  /\ job.pc = "file" /\ used <= 2 * Total /\ target[File] # Right(File)
  /\ job' = [job EXCEPT !.pc = "open", !.source = 1]
  /\ before' = done
  /\ UNCHANGED <<target, part, used, done, outcome, blamed, crashes>>

\* _download_file: a part that is not shorter than the file is begun anew
Open ==
  /\ job.pc = "open"
  /\ LET old == Len(part[File]) IN
     IF 0 < old /\ old < Sizes[File]
       THEN /\ job' = [job EXCEPT !.pc = "request", !.offset = old, !.digest = part[File], !.second = FALSE]
            /\ UNCHANGED <<part, used>>
       ELSE /\ job' = [job EXCEPT !.pc = "request", !.offset = 0, !.digest = <<>>, !.second = FALSE]
            /\ part' = [part EXCEPT ![File] = <<>>] /\ used' = used - old
  /\ UNCHANGED <<target, done, before, outcome, blamed, crashes>>

\* Mutant: the file is truncated but its sum goes on from the old part
RestartedHashing(pc) ==
  /\ part' = [part EXCEPT ![File] = <<>>]
  /\ used' = used - job.offset
  /\ job' = [job EXCEPT !.pc = pc, !.offset = 0, !.second = pc = "request"]

\* truncation to nothing
Restarted(pc) ==
  /\ part' = [part EXCEPT ![File] = <<>>]
  /\ used' = used - job.offset
  /\ job' = [job EXCEPT !.pc = pc, !.offset = 0, !.digest = <<>>, !.second = pc = "request"]

\* Mutant: the continued part is missing from the progress
PartialUncounted ==
  /\ job.pc = "request" /\ job.offset > 0
  /\ job' = [job EXCEPT !.pc = "body"]
  /\ UNCHANGED <<target, part, used, done, before, outcome, blamed, crashes>>

\* 206 with the range that was asked for
Partial ==
  /\ job.pc = "request" /\ job.offset > 0
  /\ done' = done + job.offset /\ job' = [job EXCEPT !.pc = "body"]
  /\ UNCHANGED <<target, part, used, before, outcome, blamed, crashes>>

\* 200: the whole file; what was there is dropped
Whole ==
  /\ job.pc = "request"
  /\ IF job.offset > 0 THEN Restarted("body") ELSE job' = [job EXCEPT !.pc = "body"] /\ UNCHANGED <<part, used>>
  /\ UNCHANGED <<target, done, before, outcome, blamed, crashes>>

\* another answer of class 2xx is tried once more, from the beginning
Unfit ==
  /\ job.pc = "request" /\ ~job.second /\ Source # "reliable"
  /\ Restarted("request")
  /\ UNCHANGED <<target, done, before, outcome, blamed, crashes>>

\* Mutants: the last source is not asked; the sources are asked round and round
OnwardShort(code) ==
  IF job.source < Len(Sources) - 1
    THEN /\ job' = [Idle EXCEPT !.pc = "open", !.file = File, !.source = job.source + 1]
         /\ done' = before /\ UNCHANGED outcome
    ELSE Failed(code) /\ UNCHANGED done
OnwardRound(code) ==
  /\ job' = [Idle EXCEPT !.pc = "open", !.file = File, !.source = (job.source % Len(Sources)) + 1]
  /\ done' = before /\ UNCHANGED outcome

\* _download_from_sources: the next source, or the error of the last one
Onward(code) ==
  IF job.source < Len(Sources)
    THEN /\ job' = [Idle EXCEPT !.pc = "open", !.file = File, !.source = job.source + 1]
         /\ done' = before /\ UNCHANGED outcome
    ELSE Failed(code) /\ UNCHANGED done

\* the source cannot be reached, refuses, or breaks off; its part is kept
Unanswered ==
  /\ job.pc \in {"request", "body"} /\ Source # "reliable"
  /\ job.pc = "body" => Len(job.digest) < Sizes[File]
  /\ Onward("server")
  /\ UNCHANGED <<target, part, used, before, blamed, crashes>>

\* Mutant: the discarded part still counts
DiscardBadPartCounted ==
  /\ UNCHANGED used
  /\ part' = [part EXCEPT ![File] = <<>>]

DiscardBadPart ==
  /\ used' = used - Len(part[File])
  /\ part' = [part EXCEPT ![File] = <<>>]

Receive ==
  /\ job.pc = "body" /\ Len(job.digest) < Sizes[File] /\ used < 2 * Total
  /\ \E chunk \in IF Source = "corrupt" THEN BOOLEAN ELSE {TRUE}:
       /\ part' = [part EXCEPT ![File] = Append(@, chunk)]
       /\ job' = [job EXCEPT !.digest = Append(@, chunk)]
  /\ used' = used + 1 /\ done' = done + 1
  /\ UNCHANGED <<target, before, outcome, blamed, crashes>>

\* more bytes than the file has, or than the budget of the staging directory allows
TooLarge ==
  /\ job.pc = "body"
  /\ (Len(job.digest) = Sizes[File] /\ Source = "corrupt") \/ (Len(job.digest) < Sizes[File] /\ used >= 2 * Total)
  /\ DiscardBadPart /\ Onward("too-large")
  /\ UNCHANGED <<target, before, blamed, crashes>>

\* Mutant: a wrong sum is always the fault of the source
BadSumAtOnce ==
  /\ job.pc = "body" /\ Len(job.digest) = Sizes[File] /\ job.digest # Right(File)
  /\ DiscardBadPart
  /\ blamed' = blamed \union {job.source}
  /\ Onward("bad-checksum")
  /\ UNCHANGED <<target, before, crashes>>

\* the whole file with a wrong sum: after a continuation the same source is asked once more
\* from the beginning, for the old part may be to blame
BadSum ==
  /\ job.pc = "body" /\ Len(job.digest) = Sizes[File] /\ job.digest # Right(File)
  /\ DiscardBadPart
  /\ IF job.offset > 0 /\ ~job.again
       THEN /\ job' = [Idle EXCEPT !.pc = "open", !.file = File, !.source = job.source, !.again = TRUE]
            /\ done' = before /\ UNCHANGED <<outcome, blamed>>
       ELSE /\ blamed' = blamed \union {job.source}
            /\ Onward("bad-checksum")
  /\ UNCHANGED <<target, before, crashes>>

\* Mutant: the sum is compared for a continued file only
CompleteUnchecked ==
  /\ job.pc = "body" /\ Len(job.digest) = Sizes[File] /\ (job.offset > 0 => job.digest = Right(File))
  /\ target' = [target EXCEPT ![File] = part[File]]
  /\ part' = [part EXCEPT ![File] = <<>>]
  /\ used' = used - Len(target[File])
  /\ NextFile(File)
  /\ UNCHANGED <<done, before, blamed, crashes>>

\* os.replace of the part over the target
Complete ==
  /\ job.pc = "body" /\ job.digest = Right(File)
  /\ target' = [target EXCEPT ![File] = part[File]]
  /\ part' = [part EXCEPT ![File] = <<>>]
  /\ used' = used - Len(target[File])
  /\ NextFile(File)
  /\ UNCHANGED <<done, before, blamed, crashes>>

\* what the stream has not flushed is lost
Crash ==
  /\ job.pc # "idle" /\ crashes < CrashLimit /\ crashes' = crashes + 1
  /\ \E n \in 0 .. Len(part[File]): part' = [part EXCEPT ![File] = SubSeq(@, 1, n)]
  /\ job' = Idle /\ outcome' = "none" /\ used' = 0 /\ done' = 0 /\ before' = 0
  /\ UNCHANGED <<target, blamed>>

Proceed ==
  \/ Finished \/ OverBudget \/ NeedsSource \/ Open
  \/ Partial \/ Whole \/ Unfit \/ Unanswered \/ Receive \/ TooLarge \/ BadSum \/ Complete
\* once the directory is ready the installer takes it over
Taken == outcome = "ready" /\ UNCHANGED vars
Next == Begin \/ Proceed \/ Stop \/ Crash \/ Taken

Spec == Init /\ [][Next]_vars
LiveSpec == Spec /\ WF_vars(Proceed)

-----------------------------------------------------------------------------
TypeOK ==
  /\ \A f \in Files: target[f] \in {<<>>} \union [1 .. Sizes[f] -> BOOLEAN] /\ part[f] \in Leftovers(f)
  /\ job.pc \in {"idle", "file", "open", "request", "body"}
  /\ job.file \in Files \union {0} /\ job.source \in 0 .. Len(Sources)
  /\ used \in 0 .. 2 * Total + Stray /\ done \in 0 .. Total /\ before \in 0 .. Total
  /\ blamed \subseteq DOMAIN Sources /\ crashes \in 0 .. CrashLimit

\* What is ready is what the catalogue means, however many sources, crashes and continuations
\* the bytes went through
ReadyIsRight == outcome = "ready" => target = [f \in Files |-> Right(f)]

\* While a body is read the sum covers exactly the bytes of the part
SumCoversPart == job.pc = "body" => job.digest = part[File]

\* The budget counts exactly the bytes that lie in the staging directory
BudgetExact == job.pc # "idle" => used = StagingSize

\* The progress at the end of a download is the size of the model
ProgressExact == outcome = "ready" => done = Total

\* Only a source that sent wrong bytes is given up for a wrong sum, whatever part it had to continue
BlameIsFair == \A s \in blamed: Sources[s] = "corrupt"

\* With a reliable source and a staging directory of its own the download fails only by cancellation, a full disk or a closed network
OneGoodSource ==
  Stray = 0 /\ (\E s \in DOMAIN Sources: Sources[s] = "reliable") =>
    outcome \in {"none", "ready", "cancelled", "disk-full", "no-network"}

\* The sum, the budget and the progress follow the bytes through continuations, discarded parts
\* and replaced files; what is ready is right; and no source suffers for another's bytes
DownloadExact ==
  ReadyIsRight /\ SumCoversPart /\ BudgetExact /\ ProgressExact /\ BlameIsFair /\ OneGoodSource

\* A download that is begun comes to an end: no source is asked for ever
Ends == job.pc # "idle" ~> job.pc = "idle"
===============================================================================
