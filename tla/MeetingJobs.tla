------------------------------ MODULE MeetingJobs ------------------------------
(***************************************************************************)
(* The queue of transcriptions (core/meeting_jobs.py): the GUI's thread    *)
(* drives one job at a time in the process meeting-transcribe; a writer's  *)
(* thread changes meeting.json, one read-modify-write after another, and   *)
(* the GUI applies the results later; the process answers later still, may *)
(* be lost, and may have finished what it is told to stop.  The program    *)
(* itself may end at any moment: what counts then is meeting.json.         *)
(*                                                                         *)
(* What is volatile is one record, g, as MeetingJobs is one object: an     *)
(* operator on it is a method.  The order of the queue and its timers are  *)
(* abstract: a meeting that waits may be taken at any tick.  Utterances,   *)
(* progress, credits, titles and the removal of the sound are left out, and *)
(* so are a full queue of the writer and the export that shares the         *)
(* release of the files.                                                   *)
(***************************************************************************)
EXTENDS Naturals, Sequences, SequencesExt

CONSTANTS
  Meetings,   \* The meetings
  None,       \* No meeting, no job
  MaxCrashes, \* MAX_CRASHES: the crash after these fails the job
  Attempts,   \* CANCEL_WRITE_ATTEMPTS
  Ops,        \* Bound of the user's operations
  Faults,     \* Bound of the writes that fail
  Deaths,     \* Bound of the deaths of the process
  Starts,     \* Bound of the restarts of the program
  Troubles    \* Bound of these three together

VARIABLES
  disk, \* meeting.json of every meeting and what lies beside it
  g,    \* The queue, the job, the writer's work and the process
  left  \* What remains of the bounds

vars == <<disk, g, left>>

Can(trouble) == left[trouble] > 0 /\ left.all > 0
Spent(trouble) == [left EXCEPT ![trouble] = @ - 1, !.all = @ - 1]

Resumable == {"transcribing", "waiting_memory", "needs_model"}
Transcribable == {"recorded", "failed", "done"}
Removed == {"deleting", "renamed", "gone"}

\* Every edge that is not here is taken through "transcribing"
Edges ==
  {<<"recorded", "transcribing">>, <<"waiting_memory", "transcribing">>, <<"waiting_memory", "recorded">>,
   <<"waiting_memory", "needs_model">>, <<"waiting_memory", "failed">>, <<"needs_model", "transcribing">>,
   <<"needs_model", "recorded">>, <<"done", "transcribing">>, <<"failed", "transcribing">>}
  \cup {<<"transcribing", t>> : t \in {"done", "failed", "waiting_memory", "needs_model", "recorded"}}
Direct(a, b) == a = b \/ b = "deleting" \/ <<a, b>> \in Edges

NoJob == [m |-> None]
Idle == [k |-> "none", n |-> 0]

Fresh == [
  queue |-> [m \in Meetings |-> "none"],  \* status of the entry
  resume |-> [m \in Meetings |-> FALSE],
  admitting |-> None,
  job |-> NoJob,                          \* _active
  cancelled |-> {},
  writes |-> [m \in Meetings |-> Idle],   \* _cancel_writes
  tombs |-> {},
  deletions |-> [m \in Meetings |-> "none"],
  held |-> {},                            \* entries taken by a deletion that is being marked
  stash |-> <<>>,                         \* _delete_events
  exits |-> 0,
  crashes |-> 0,
  loaded |-> FALSE,                       \* this process has the model
  scanning |-> TRUE,
  recovered |-> FALSE,
  allowed |-> TRUE,                       \* admit_allowed
  wish |-> {},                            \* ghost: whose cancellation is the user's last word
  firm |-> {},                            \* ghost: of these, those that found the job after the recovery
  works |-> <<[op |-> "retention", m |-> None]>>,
  results |-> <<>>,
  proc |-> "none",                        \* none, starting, ready, killed, gone
  has |-> NoJob,                          \* the job in the process
  todo |-> {},                            \* requests it has not answered
  stop |-> FALSE,                         \* meeting.job.cancel is on its way
  wire |-> <<>>]                          \* its answers and events

-----------------------------------------------------------------------------
\* The queue, the writer and the process, as the methods see them

Put(x, w) == [x EXCEPT !.works = Append(@, w)]
Add(x, m, resume) ==
  IF m \in x.tombs \/ x.queue[m] # "none" THEN x ELSE [x EXCEPT !.queue[m] = "queued", !.resume[m] = resume]
Take(x, m) == [x EXCEPT !.queue[m] = "none"]

\* The owner is pinned until its deletion is on the disk or has failed
Pinned(x) == x.job # NoJob /\ x.deletions[x.job.m] = "pending"

Exited(x) == x.proc \in {"none", "gone"}

\* Mutant: a state of the write that nobody knows
PersistMistyped(x, m) == Put([x EXCEPT !.writes[m] = [k |-> "written", n |-> @.n]], [op |-> "cancel", m |-> m])

Persist(x, m) ==
  Put([x EXCEPT !.writes[m] = [k |-> "queued", n |-> @.n]], [op |-> "cancel", m |-> m])

\* The job ends with an error that is still to be written
Fail(x, code) ==
  Put([x EXCEPT !.job = NoJob, !.loaded = @ /\ code # "model"], [op |-> "fail", m |-> x.job.m, gen |-> x.job.gen])

Purge(x, m) == Put(x, [op |-> "purge", m |-> m])

FinishStop(x) ==
  IF x.job.purpose = "fail" THEN Fail(x, x.job.code)
  ELSE IF x.job.free THEN Purge([x EXCEPT !.job = NoJob], x.job.m)
  ELSE [x EXCEPT !.job = NoJob]

\* What is left of a process once it has exited, and of the link once it is closed
Closed(x) == [x EXCEPT !.todo = {}, !.stop = FALSE, !.wire = <<>>]
Dead(x) == [Closed(x) EXCEPT !.has = NoJob]

AwaitExit(x) == IF Exited(x) THEN FinishStop(x) ELSE x
\* SIGKILL: the exit is seen by a later poll
Kill(x) ==
  LET y == [x EXCEPT !.job.phase = "exiting", !.job.timed = FALSE]
  IN IF Exited(x) THEN FinishStop(y) ELSE [Closed(y) EXCEPT !.proc = "killed"]

\* Mutant: the error is published while the process works on
FailAtOnce(x, code) == Fail(x, code)

FailAfterExit(x, code) == Kill([x EXCEPT !.job.purpose = "fail", !.job.code = code])

WaitMemory(x) ==
  Put([x EXCEPT !.job = NoJob, !.loaded = FALSE, !.queue[x.job.m] = "waiting_memory", !.resume[x.job.m] = TRUE],
      [op |-> "waiting", m |-> x.job.m])

\* One more crash; too many of them fail the job
Crash(x, y) ==
  IF x.crashes >= MaxCrashes THEN Fail([x EXCEPT !.crashes = @ + 1], "io")
  ELSE [y EXCEPT !.crashes = @ + 1]

\* "not-prepared" only waits while the process finishes what it does
RetryLoad(x, counts) ==
  IF counts THEN Crash(x, [x EXCEPT !.job.phase = "crashed"]) ELSE [x EXCEPT !.job.phase = "crashed"]

Request(x, k) == [k |-> k, m |-> x.job.m, gen |-> x.job.gen]

StartJob(x) ==
  LET y == [x EXCEPT !.job.sent = TRUE, !.job.phase = "starting", !.loaded = TRUE] IN
  IF x.proc # "ready" THEN y
  ELSE IF x.has # NoJob THEN [y EXCEPT !.wire = Append(@, Request(x, "refused"))]
  ELSE [y EXCEPT !.has = [m |-> x.job.m, gen |-> x.job.gen], !.todo = @ \cup {Request(x, "start")}]

SendCancel(x, m) ==
  IF x.job.m # m \/ x.job.phase = "exiting" \/ x.job.asked THEN x
  ELSE IF ~x.job.sent \/ x.proc = "none" THEN FinishStop(x)
  ELSE IF x.proc # "ready" THEN Kill(x)
  ELSE [x EXCEPT !.job.asked = TRUE, !.job.phase = "cancelling", !.job.timed = TRUE, !.stop = TRUE]

EnsureRole(x) ==
  IF Exited(x) THEN [Dead(x) EXCEPT !.proc = "starting", !.loaded = FALSE] ELSE x

\* due: the time to try again has come, or a second has passed since meeting.job.cancel was sent
Advance(x, due) ==
  IF Pinned(x) THEN x
  ELSE IF x.job.phase \in {"launching", "crashed"} /\ x.job.purpose = "" THEN
    IF ~due THEN x
    ELSE IF x.proc # "ready" THEN EnsureRole(x)
    ELSE IF x.loaded THEN StartJob(x)
    ELSE [x EXCEPT !.job.phase = "loading", !.todo = @ \cup {Request(x, "load")}]
  ELSE IF x.job.phase = "cancelling" /\ x.job.timed THEN IF due THEN Kill(x) ELSE x
  ELSE IF x.job.phase = "exiting" THEN AwaitExit(x)
  ELSE x

-----------------------------------------------------------------------------
\* What the process says

Done(x) ==
  LET y == Put([x EXCEPT !.job = NoJob], [op |-> "done", m |-> x.job.m, gen |-> x.job.gen])
  IN IF \A m \in Meetings: x.queue[m] = "none" THEN [y EXCEPT !.loaded = FALSE] ELSE y

Answer(x, e) ==
  CASE e.k = "loaded" /\ x.job.phase = "loading" -> StartJob(x)
    [] e.k = "load memory" /\ x.job.phase = "loading" -> WaitMemory(x)
    [] e.k = "load model" /\ x.job.phase = "loading" -> Fail(x, "model")
    [] e.k \in {"load busy", "load failed"} /\ x.job.phase = "loading" -> RetryLoad(x, e.k = "load failed")
    [] e.k = "accepted" /\ x.job.sent -> [x EXCEPT !.job.phase = "running"]
    [] e.k = "refused" /\ x.job.sent -> FailAfterExit(x, "io")
    [] e.k = "waiting" -> WaitMemory(x)
    [] e.k = "failed" -> Fail(x, "io")
    [] e.k = "done" -> Done(x)
    [] OTHER -> x

\* Mutant: an answer is believed without a look at what it answers
EventAny(x, e) ==
  IF x.job = NoJob THEN x
  ELSE IF x.deletions[x.job.m] = "pending" THEN [x EXCEPT !.stash = Append(@, e)]
  ELSE IF e.k = "limit" THEN FinishStop(x)
  ELSE IF e.k = "cancelled" THEN FinishStop(x)
  ELSE Answer(x, e)

Event(x, e) ==
  IF x.job = NoJob THEN x
  ELSE IF x.deletions[x.job.m] = "pending" THEN [x EXCEPT !.stash = Append(@, e)]
  ELSE IF e.k = "limit" THEN
    CASE x.job.purpose = "delete" -> Kill(x)
      [] x.job.purpose = "" -> Fail(x, "io")
      [] OTHER -> FinishStop(x)
  ELSE IF e.m # x.job.m \/ e.gen # x.job.gen THEN x
  ELSE IF e.k = "cancelled" THEN
    IF ~x.job.asked \/ x.job.phase # "cancelling" THEN x
    ELSE IF x.job.purpose = "delete" THEN Kill(x) ELSE FinishStop(x)
  ELSE IF x.job.purpose # "" THEN x
  ELSE Answer(x, e)

\* Mutant: a job that is to be stopped is started again
HandleExitsAgain(x) ==
  IF Pinned(x) \/ x.exits = 0 THEN x
  ELSE LET y == [x EXCEPT !.exits = 0, !.loaded = FALSE] IN
       IF x.job = NoJob THEN y
       ELSE Crash(y, [y EXCEPT !.job.phase = "crashed", !.job.purpose = "", !.job.sent = FALSE])

\* An exit that the supervisor reports; a kill of the GUI is only polled
HandleExits(x) ==
  IF Pinned(x) \/ x.exits = 0 THEN x
  ELSE LET y == [x EXCEPT !.exits = 0, !.loaded = FALSE] IN
       IF x.job = NoJob THEN y
       ELSE IF x.job.purpose # "" THEN FinishStop(y)
       ELSE Crash(y, [y EXCEPT !.job.phase = "crashed", !.job.resume = TRUE, !.job.sent = FALSE])

-----------------------------------------------------------------------------
\* What the writer has done, applied in the GUI's thread

Recovered(x, found) ==
  LET news == {m \in found \ x.tombs: x.queue[m] = "none"} IN
  [x EXCEPT !.queue = [m \in Meetings |-> IF m \in news THEN "queued" ELSE @[m]],
            !.resume = [m \in Meetings |-> m \in news \/ @[m]]]

NewJob(m, gen, resume) ==
  [m |-> m, gen |-> gen, resume |-> resume, phase |-> "launching", purpose |-> "", code |-> "",
   sent |-> FALSE, asked |-> FALSE, timed |-> FALSE, free |-> FALSE]

\* Mutant: an entry that was withdrawn during the probe becomes the job
AdmittedWithdrawn(x, r) ==
  LET y == [x EXCEPT !.admitting = None] IN
  IF r.outcome # "transcribing" \/ ~r.ok \/ r.m \in x.tombs THEN Take(y, r.m)
  ELSE Advance([Take(y, r.m) EXCEPT !.job = NewJob(r.m, r.gen, x.resume[r.m])], TRUE)

Admitted(x, r) ==
  LET y == [x EXCEPT !.admitting = None] IN
  IF r.outcome = "raised" THEN y
  ELSE IF ~r.ok \/ r.m \in x.tombs THEN Take(y, r.m)
  ELSE IF x.queue[r.m] = "none" THEN y
  ELSE CASE r.outcome \in {"needs_model", "waiting_memory"} -> [y EXCEPT !.queue[r.m] = r.outcome]
         [] r.outcome = "failed" -> Take(y, r.m)
         [] r.outcome = "transcribing" ->
              IF ~x.allowed THEN y
              ELSE Advance([Take(y, r.m) EXCEPT !.job = NewJob(r.m, r.gen, x.resume[r.m])], TRUE)

\* A cancellation that cannot be written is never sent: the user is told of an error
CancelFailed(x, m) ==
  IF x.job.m # m \/ x.job.purpose # "cancel" THEN x
  ELSE IF x.job.phase = "exiting" THEN [x EXCEPT !.job.purpose = "fail", !.job.code = "io"]
  ELSE FailAfterExit(x, "io")

\* Mutant: a cancellation that could not be written is left alone
CancelWrittenOnce(x, r) ==
  LET y == [x EXCEPT !.writes[r.m] = Idle]
  IN IF r.ok /\ r.m \in x.cancelled THEN SendCancel(y, r.m) ELSE y

CancelWritten(x, r) ==
  LET y == [x EXCEPT !.writes[r.m] = Idle] IN
  IF r.ok THEN IF r.m \in x.cancelled THEN SendCancel(y, r.m) ELSE y
  ELSE IF r.m \in x.tombs \/ r.m \notin x.cancelled THEN y
  ELSE IF x.writes[r.m].n + 1 >= Attempts THEN CancelFailed([y EXCEPT !.wish = @ \ {r.m}, !.firm = @ \ {r.m}], r.m)
  ELSE [x EXCEPT !.writes[r.m] = [k |-> "later", n |-> @.n + 1]]

\* Mutant: the files are released as soon as the deletion is on the disk
TombstoneAtOnce(x, m) ==
  LET y == Purge([x EXCEPT !.deletions[m] = "deleting", !.stash = <<>>, !.writes[m] = Idle, !.held = @ \ {m}], m)
  IN IF x.job.m # m THEN y ELSE SendCancel([y EXCEPT !.job.purpose = "delete", !.job.phase = "cancelling"], m)

Tombstone(x, m) ==
  LET y == [x EXCEPT !.deletions[m] = "deleting", !.stash = <<>>, !.writes[m] = Idle, !.held = @ \ {m}] IN
  IF x.job.m # m THEN Purge(y, m)
  ELSE LET z == [y EXCEPT !.job.free = TRUE, !.job.purpose = "delete"]
       IN IF x.job.purpose = "delete" \/ x.job.phase = "exiting" THEN z
          ELSE SendCancel([z EXCEPT !.job.phase = "cancelling"], m)

TombstoneFailed(x, m) ==
  LET y == [x EXCEPT !.tombs = @ \ {m}, !.deletions[m] = "error", !.held = @ \ {m}, !.stash = <<>>,
                     !.queue[m] = IF m \in x.held THEN "queued" ELSE @]
  IN FoldLeft(LAMBDA z, e: Event(z, e), y, x.stash)

Purged(x, r) == [x EXCEPT !.tombs = @ \ {r.m}, !.deletions[r.m] = IF r.ok THEN "deleted" ELSE "purge_error"]

Complete(x, r) ==
  CASE r.op = "enqueue" -> IF r.ok /\ r.m \notin x.tombs THEN Add(x, r.m, FALSE) ELSE x
    [] r.op = "admit" -> Admitted(x, r)
    [] r.op = "cancel" -> CancelWritten(x, r)
    [] r.op = "tombstone" -> IF r.ok THEN Tombstone(x, r.m) ELSE TombstoneFailed(x, r.m)
    [] r.op = "purge" -> Purged(x, r)
    [] r.op = "recover" -> Recovered(x, r.found)
    [] r.op = "retention" ->
         [x EXCEPT !.scanning = FALSE, !.deletions = [m \in Meetings |-> IF m \in r.found THEN "deleted" ELSE @[m]]]
    [] OTHER -> x

-----------------------------------------------------------------------------
\* The writer's thread: one read-modify-write

\* What a work may find, and what it makes of it
May(w, d) ==
  /\ d.state \notin Removed
  /\ w.op # "tombstone" => w.m \notin g.tombs
  /\ CASE w.op = "enqueue" -> IF w.auto THEN d.state = "recorded" /\ ~d.cancelled ELSE d.state \in Transcribable
       [] w.op = "admit" -> ~d.cancelled /\ d.state \in Resumable
       [] w.op = "waiting" -> ~d.cancelled
       [] w.op \in {"fail", "done"} -> ~d.cancelled /\ d.gen = w.gen
       [] OTHER -> TRUE

Made(w, d, outcome) ==
  CASE w.op = "enqueue" -> [d EXCEPT !.state = "transcribing", !.gen = @ + 1, !.cancelled = FALSE]
    [] w.op = "admit" -> [d EXCEPT !.state = outcome]
    [] w.op = "cancel" -> [d EXCEPT !.cancelled = TRUE, !.state = IF @ \in Resumable THEN "recorded" ELSE @]
    [] w.op = "tombstone" -> [d EXCEPT !.state = "deleting", !.gen = @ + 1]
    [] w.op = "waiting" -> [d EXCEPT !.state = "waiting_memory"]
    [] w.op = "fail" -> [d EXCEPT !.state = "failed"]
    [] w.op = "done" -> [d EXCEPT !.state = "done"]

Outcomes(w) ==
  CASE w.op = "admit" -> {"transcribing", "needs_model", "waiting_memory", "failed", "raised"}
    [] OTHER -> {"written"}

Result(w, ok, outcome, gen) == [ok |-> ok, outcome |-> outcome, gen |-> gen] @@ w

\* Writes that fail leave the file as it was, half way, or written but not confirmed
Update(w, ok, outcome) ==
  /\ IF outcome = "raised" \/ ~May(w, disk[w.m]) THEN ~ok /\ UNCHANGED <<disk, left>>
     ELSE LET d == Made(w, disk[w.m], outcome) IN
          \/ ok /\ UNCHANGED left /\ disk' = [disk EXCEPT ![w.m] = d]
          \/ /\ ~ok /\ Can("faults") /\ left' = Spent("faults")
             /\ \/ UNCHANGED disk
                \/ disk' = [disk EXCEPT ![w.m] = d]
                \/ ~Direct(disk[w.m].state, d.state) /\ disk' = [disk EXCEPT ![w.m] = [d EXCEPT !.state = "transcribing"]]
  /\ g' = [g EXCEPT !.works = Tail(@), !.results = Append(@, Result(w, ok, outcome, disk'[w.m].gen))]

\* A directory with a live lease is not erased
Erased(d, m) ==
  IF g.has.m = m THEN {[d EXCEPT !.state = "renamed"]}
  ELSE {[d EXCEPT !.state = "gone"]} \cup IF Can("faults") THEN {d, [d EXCEPT !.state = "renamed"]} ELSE {}

Erase(w) ==
  /\ w.m \in g.tombs
  /\ \E d \in Erased(disk[w.m], w.m):
       /\ disk' = [disk EXCEPT ![w.m] = d]
       /\ g' = [g EXCEPT !.works = Tail(@), !.results = Append(@, [op |-> "purge", m |-> w.m, ok |-> d.state = "gone"])]
       /\ left' = IF d.state = "gone" \/ g.has.m = w.m THEN left ELSE Spent("faults")

\* What an earlier run, or a purge that failed, has left behind
Owned(m) == m \in g.tombs \/ g.deletions[m] \in {"pending", "deleting"}
Kept(m) == IF ~Owned(m) /\ disk[m].state \in {"deleting", "renamed"} THEN Erased(disk[m], m) ELSE {disk[m]}

Maintain ==
  /\ \E new \in [Meetings -> UNION {Kept(m) : m \in Meetings}]:
       /\ \A m \in Meetings: new[m] \in Kept(m)
       /\ disk' = new
       /\ g' = [g EXCEPT !.works = Tail(@),
                         !.results = Append(@, [op |-> "retention", m |-> None,
                                                found |-> {m \in Meetings: disk[m].state # "gone" /\ new[m].state = "gone"}])]
  /\ UNCHANGED left

Resumes(m) == ~disk[m].cancelled /\ m \notin g.tombs /\ disk[m].state \in Resumable

Scan ==
  /\ g' = [g EXCEPT !.works = Tail(@),
                    !.results = Append(@, [op |-> "recover", m |-> None, found |-> {m \in Meetings: Resumes(m)}])]
  /\ UNCHANGED <<disk, left>>

Work ==
  /\ g.works # <<>>
  /\ LET w == Head(g.works) IN
     CASE w.op = "purge" -> Erase(w)
       [] w.op = "retention" -> Maintain
       [] w.op = "recover" -> Scan
       [] OTHER -> \E ok \in BOOLEAN, outcome \in Outcomes(w): Update(w, ok, outcome)

-----------------------------------------------------------------------------
\* The GUI's thread

\* All that the writer has done so far: at a tick, and whenever it is given more work
Drained(x) == FoldLeft(LAMBDA y, r: Complete(y, r), [x EXCEPT !.results = <<>>], x.results)
Drain ==
  /\ g.results # <<>>
  /\ g' = Drained(g)
  /\ UNCHANGED <<disk, left>>

RetryWrites(x) ==
  LET due == {m \in Meetings: x.writes[m].k = "later"}
  IN IF due = {} THEN x ELSE LET m == CHOOSE m \in due: TRUE IN Persist(x, m)

\* The next entry goes to the writer, which looks for the model and the memory
Schedule(x, m) ==
  IF m = None \/ x.scanning \/ x.admitting # None \/ ~x.allowed \/ x.job # NoJob THEN x
  ELSE IF x.queue[m] = "none" THEN x
  ELSE Put([x EXCEPT !.admitting = m], [op |-> "admit", m |-> m])

Active(x, due) == IF x.job = NoJob THEN x ELSE Advance(x, due)

Tick(due, m) ==
  /\ g' = Schedule(Active(RetryWrites(HandleExits(Drained(g))), due), m)
  /\ g' # g
  /\ UNCHANGED <<disk, left>>

\* Starting: resume what was left, once processing is allowed
Recover ==
  /\ ~g.recovered /\ g.allowed
  /\ g' = Put([g EXCEPT !.recovered = TRUE], [op |-> "recover", m |-> None])
  /\ UNCHANGED <<disk, left>>

\* Mutant: the job is queued again and its process goes on
SuspendRunning(x) ==
  IF x.job = NoJob \/ x.job.purpose # "" THEN x
  ELSE [x EXCEPT !.job = NoJob, !.queue[x.job.m] = "queued", !.resume[x.job.m] = TRUE]

\* A ban stops the job as the end of the program would
Suspend(x) ==
  IF x.job = NoJob \/ x.job.purpose # "" THEN x
  ELSE LET y == [Dead(x) EXCEPT !.proc = "none", !.loaded = FALSE, !.job = NoJob]
       IN IF x.job.m \in x.tombs THEN y
          ELSE [y EXCEPT !.queue[x.job.m] = "queued", !.resume[x.job.m] = TRUE]

Allow ==
  /\ left.ops > 0 /\ left' = [left EXCEPT !.ops = @ - 1]
  /\ g' = IF g.allowed THEN Suspend([g EXCEPT !.allowed = FALSE]) ELSE [g EXCEPT !.allowed = TRUE]
  /\ UNCHANGED disk

-----------------------------------------------------------------------------
\* The user, who sees the states of the list and of the cards

Ask(m) == left.ops > 0 /\ left' = [left EXCEPT !.ops = @ - 1] /\ m \notin g.tombs /\ UNCHANGED disk

OnRecorded(m) ==
  /\ disk[m].state = "recorded" /\ disk[m].gen = 0 /\ Ask(m)
  /\ g' = Put(g, [op |-> "enqueue", m |-> m, auto |-> TRUE])

\* The card shows what has been applied: it offers this only after the last write
Transcribe(m) ==
  /\ disk[m].state \in {"recorded", "failed"} /\ g.allowed /\ Ask(m)
  /\ \A i \in DOMAIN g.results: g.results[i].m # m
  /\ m # g.job.m /\ g.queue[m] = "none"
  /\ g' = Put([g EXCEPT !.cancelled = @ \ {m}, !.writes[m] = Idle, !.wish = @ \ {m}, !.firm = @ \ {m}],
              [op |-> "enqueue", m |-> m, auto |-> FALSE])

\* Mutant: the process is told before the cancellation is written
CancelledAtOnce(x, m, taken) ==
  IF x.job.m = m /\ x.job.purpose = "" THEN SendCancel([Persist(x, m) EXCEPT !.job.purpose = "cancel"], m)
  ELSE IF taken \/ x.admitting = m THEN Persist(x, m)
  ELSE x

Cancelled(x, m, taken) ==
  IF x.job.m = m THEN
    CASE x.job.purpose = "fail" -> Persist([x EXCEPT !.job.purpose = "cancel"], m)
      [] x.job.purpose = "" -> Persist([x EXCEPT !.job.purpose = "cancel", !.job.phase = "cancelling"], m)
      [] OTHER -> x
  ELSE IF taken \/ x.admitting = m THEN Persist(x, m)
  ELSE x

Recovering == ~g.recovered \/ \E q \in {g.works, g.results}: \E i \in DOMAIN q: q[i].op = "recover"
Known(m) == m \in {g.job.m, g.admitting} \/ g.queue[m] # "none"
Cancel(m) ==
  /\ disk[m].state \in {"transcribing", "waiting_memory"} /\ Ask(m)
  /\ LET x == [g EXCEPT !.cancelled = @ \cup {m}, !.wish = @ \cup {m},
                        !.firm = IF Known(m) /\ ~Recovering THEN @ \cup {m} ELSE @]
     IN g' = Cancelled(Take(x, m), m, g.queue[m] # "none")

Delete(m) ==
  /\ disk[m].state \notin Removed /\ Ask(m)
  /\ g.deletions[m] \notin {"pending", "deleting", "deleted", "purge_error"}
  /\ g' = Put([Take(g, m) EXCEPT !.tombs = @ \cup {m}, !.deletions[m] = "pending",
                                 !.held = IF g.queue[m] = "none" THEN @ ELSE @ \cup {m}],
              [op |-> "tombstone", m |-> m])

-----------------------------------------------------------------------------
\* The process and its supervisor

Receive ==
  /\ g.wire # <<>>
  /\ g' = Event([g EXCEPT !.wire = Tail(@)], Head(g.wire))
  /\ UNCHANGED <<disk, left>>

Say(x, e) == [x EXCEPT !.wire = Append(@, e)]
Reply(r, k) == [r EXCEPT !.k = k]

Loads(r) ==
  /\ r.k = "load"
  /\ \E k \in {"loaded", "load memory", "load model", "load busy", "load failed"}:
       g' = Say([g EXCEPT !.todo = @ \ {r}], Reply(r, k))

\* A timeout of the supervisor refuses a job that goes on in the process
Accepts(r) ==
  /\ r.k = "start"
  /\ \/ g' = Say([g EXCEPT !.todo = @ \ {r}], Reply(r, "accepted"))
     \/ \E has \in {NoJob, g.has}: g' = Say([g EXCEPT !.todo = @ \ {r}, !.has = has], Reply(r, "refused"))

\* The final text is durable before it is announced, and only in the generation of the file
Ends(k) ==
  /\ g.has # NoJob /\ Request(g, "start") \notin g.todo
  /\ LET d == disk[g.has.m] IN k = "done" => d.gen = g.has.gen /\ ~d.cancelled /\ d.state \notin Removed
  /\ g' = Say([g EXCEPT !.has = NoJob], [k |-> k, m |-> g.has.m, gen |-> g.has.gen])

Stops ==
  /\ g.stop /\ g.job # NoJob
  /\ g' = Say([g EXCEPT !.stop = FALSE, !.has = NoJob], Request(g, "cancelled"))

\* The process is gone
Exit == g.proc = "killed" /\ g' = [Dead(g) EXCEPT !.proc = "gone"] /\ UNCHANGED <<disk, left>>

\* A process takes longer to start than a tick takes to come: its exit is seen by then
Role ==
  /\ \/ g.proc = "starting" /\ g.exits = 0 /\ g' = [g EXCEPT !.proc = "ready"]
     \/ /\ g.proc = "ready"
        /\ Stops \/ (\E r \in g.todo: Loads(r) \/ Accepts(r)) \/ \E k \in {"done", "waiting", "failed"}: Ends(k)
  /\ UNCHANGED <<disk, left>>

\* The process is lost: the supervisor starts it again, gives up with or without a word
Dies(then) ==
  /\ g.proc \in {"starting", "ready"} /\ Can("deaths") /\ left' = Spent("deaths")
  /\ LET x == [Dead(g) EXCEPT !.exits = @ + 1, !.loaded = FALSE]
     IN g' = CASE then = "again" -> [x EXCEPT !.proc = "starting", !.stash = <<>>]
               [] then = "limit" -> Say([x EXCEPT !.proc = "gone"], [k |-> "limit", m |-> None, gen |-> 0])
               [] then = "silent" -> [x EXCEPT !.proc = "gone"]
  /\ UNCHANGED disk

\* The program ends, in order or not, and is started again: the process goes with it
Restart ==
  /\ Can("starts") /\ left' = Spent("starts")
  /\ g' = [Fresh EXCEPT !.allowed = g.allowed, !.wish = g.wish, !.firm = {m \in g.firm: disk[m].cancelled}]
  /\ UNCHANGED disk

\* Recorded now, or left in the queue by an earlier run
Document(state, gen) == [state |-> state, gen |-> gen, cancelled |-> FALSE]
Init ==
  /\ disk \in [Meetings -> {Document("recorded", 0), Document("transcribing", 1)}]
  /\ g = Fresh
  /\ left = [ops |-> Ops, faults |-> Faults, deaths |-> Deaths, starts |-> Starts, all |-> Troubles]

User(m) == OnRecorded(m) \/ Transcribe(m) \/ Cancel(m) \/ Delete(m)
Gui == Recover \/ Drain \/ Receive \/ Tick(FALSE, None) \/ \E m \in Meetings \cup {None}: Tick(TRUE, m)

Next ==
  \/ Work \/ Gui \/ Role \/ Exit \/ Allow \/ Restart
  \/ \E m \in Meetings: User(m)
  \/ \E then \in {"again", "limit", "silent"}: Dies(then)

Spec == Init /\ [][Next]_vars

-----------------------------------------------------------------------------
TypeOK ==
  /\ \A m \in Meetings:
       /\ disk[m].state \in Resumable \cup Transcribable \cup Removed
       /\ disk[m].gen \in Nat /\ disk[m].cancelled \in BOOLEAN
       /\ g.queue[m] \in {"none", "queued", "waiting_memory", "needs_model"}
       /\ g.writes[m].k \in {"none", "queued", "later"}
       /\ g.deletions[m] \in {"none", "pending", "deleting", "deleted", "error", "purge_error"}
  /\ g.proc \in {"none", "starting", "ready", "killed", "gone"}
  /\ g.job # NoJob =>
       /\ g.job.phase \in {"launching", "loading", "starting", "running", "cancelling", "exiting", "crashed"}
       /\ g.job.purpose \in {"", "cancel", "delete", "fail"}
  /\ g.tombs \cup g.held \cup g.cancelled \cup g.wish \subseteq Meetings

\* A cancellation is durable before it is sent (D12)
CancelDurable == g.job # NoJob /\ g.job.asked /\ g.job.purpose = "cancel" => disk[g.job.m].cancelled

\* What runs in the process belongs to the job that the queue knows
JobHasOwner == g.has # NoJob => g.job # NoJob /\ g.job.m = g.has.m /\ g.job.gen = g.has.gen

\* The files are released, and an error is published, only after the process is gone
ReleasedAfterExit ==
  \A m \in Meetings:
    /\ disk[m].state \in {"renamed", "gone"} => g.has.m # m
    /\ (\E i \in DOMAIN g.works: g.works[i].op = "purge" /\ g.works[i].m = m) => g.has.m # m
    /\ disk[m].state = "failed" => g.has # [m |-> m, gen |-> disk[m].gen]

\* The job that runs for the user would be resumed by the next start, once the writer rests
\* and unless it has failed to write
Settling(m) == \E q \in {g.works, g.results}: \E i \in DOMAIN q: q[i].m = m
ResumesLater ==
  /\ g.job # NoJob /\ g.job.purpose = "" /\ g.job.m \notin g.cancelled /\ ~Settling(g.job.m)
  /\ left.faults = Faults
  => Resumes(g.job.m) \/ disk[g.job.m].state \in Removed

\* A job begins only for a meeting that is to be transcribed, in the generation of its file,
\* and never after a cancellation that was durable when the program was started
Begins == g'.has # NoJob /\ g.has = NoJob
StartAllowed ==
  Begins /\ left.faults = Faults /\ g'.has.m \notin g.cancelled =>
    LET d == disk[g'.has.m] IN ~d.cancelled /\ d.gen = g'.has.gen /\ d.state \in Resumable

\* A job does not begin after a cancellation that found it, whatever fails meanwhile: neither
\* while the cancellation is being written, nor after a restart once it is written
NotAgain == Begins => g'.has.m \notin g.firm

\* A job that is to be stopped always has something that will stop it: a write on its way or to
\* be repeated, the second that the process has to answer (D12), or an exit to wait for.  The
\* exception is a deletion that could not be written: it takes back the cancellation it overtook
StopHasCause ==
  g.job # NoJob /\ g.job.purpose # "" =>
    \/ Settling(g.job.m) \/ g.writes[g.job.m].k = "later"
    \/ g.job.phase = "cancelling" /\ g.job.timed
    \/ g.job.phase = "exiting"
    \/ g.deletions[g.job.m] = "error"

\* A job does not begin while the user's last word about the meeting is "cancel"
CancelHolds == [][Begins => g'.has.m \notin g.wish]_vars
===============================================================================
