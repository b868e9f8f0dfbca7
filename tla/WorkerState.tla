----------------------------- MODULE WorkerState -----------------------------
(***************************************************************************)
(* The automaton of the speech worker (worker/state.py), driven by the     *)
(* three kinds of thread that share it:                                    *)
(*                                                                         *)
(*  - the main loop (worker/main.py), which takes one IPC message at a     *)
(*    time, changes the state under the lock, and only then, outside the   *)
(*    lock, waits for capture threads before the reply is put on the wire; *)
(*  - the single thread of the executor, which recognises one job after    *)
(*    another and runs the deferred release of the engine;                 *)
(*  - the capture threads (worker/audio.py), which call back into the      *)
(*    state.  A new capture thread first joins the previous one, so only   *)
(*    the oldest thread of the chain moves.                                *)
(*                                                                         *)
(* PCM is abstracted to "a buffer of this id exists", the clock to the set *)
(* of stopped buffers whose time to live has run out.                      *)
(***************************************************************************)
EXTENDS Naturals, Sequences, FiniteSets

CONSTANTS
  Utts,          \* utterance ids the GUI may send
  File,          \* the id transcribe.file uses for its job ("file")
  Jobs,          \* job objects (_Job); a freed object is used again
  Models,        \* model identities (id, revision, threads)
  None,          \* no id, no job, no model, no message
  HistoryLimit   \* CANCELLED_HISTORY_LIMIT

ASSUME FileAssumption == File \in Utts
ASSUME NoneAssumption == None \notin Utts \cup Jobs \cup Models
ASSUME HistoryAssumption == HistoryLimit \in Nat \ {0}

VARIABLES
  recording,      \* _recording: the id being recorded
  buffers,        \* the keys of buffers: ids whose PCM is kept
  stopped,        \* the keys of _stopped: kept, waiting for recognize
  stale,          \* stopped buffers whose time to live has elapsed
  deviceChanged,  \* _device_changed
  history,        \* _cancelled_order: recently cancelled ids, oldest first
  active,         \* _active
  pending,        \* _pending
  job,            \* the job objects
  queue,          \* jobs submitted to the executor; the first one is running
  engine,         \* _engine is set
  identity,       \* _identity
  unloading,      \* _unloading: the deferred release is behind the queue
  sessions,       \* engines loaded and not released
  chain,          \* capture threads not yet ended, oldest first
  silent,         \* _silent_uid: opened, and no chunk of sound so far
  closeFailed,    \* _close_failed: sticky failure to close the source
  main,           \* what the main loop is doing
  reply,          \* the reply it holds until the waits are over
  waits,          \* ids whose capture threads it waits for
  out,            \* the messages emitted by the last step
  owed            \* accepted recognitions without an outcome (for properties)

pcm     == <<recording, buffers, stopped, stale, deviceChanged>>
jobs    == <<active, pending, job, queue>>
model   == <<engine, identity, unloading, sessions>>
capture == <<chain, silent, closeFailed>>
control == <<main, reply, waits>>
vars    == <<pcm, history, jobs, model, capture, control, out, owed>>

-----------------------------------------------------------------------------
Requests == {"record.start", "record.stop", "record.cancel", "recognize",
             "transcribe.file", "audio.close", "model.load", "event"}
Verdicts == {"result", "cancelled", "engine-failed", "bad-audio", "frame-error"}
ASSUME VerdictAssumption == None \notin Verdicts

Types    == Verdicts \cup
            {"bad-state", "busy", "no-model", "restart-required",
             "audio.closed", "model.loaded", "record.limit", "device.changed",
             "audio-error", "audio.ready", "record.started", "record.stopped"}

Message == [type : Types, req : Requests, uid : Utts \cup {None}]
Msg(t, r, u) == [type |-> t, req |-> r, uid |-> u]

Phases  == {"free", "pending", "queued", "engine", "infer", "done"}
JobType == [uid : Utts \cup {None}, file : BOOLEAN, token : BOOLEAN,
            notified : BOOLEAN, pcm : BOOLEAN, phase : Phases,
            verdict : Verdicts \cup {None}]
FreeJob == [uid |-> None, file |-> FALSE, token |-> FALSE, notified |-> FALSE,
            pcm |-> FALSE, phase |-> "free", verdict |-> None]

Steps   == {"open", "opened", "reading", "chunk", "left", "changed", "failing", "closing"}
Capture == [uid : Utts, run : BOOLEAN, cancel : BOOLEAN, step : Steps]

-----------------------------------------------------------------------------
Current   == {active, pending} \ {None}
HasJob(u) == \E j \in Current : job[j].uid = u
Cancelled == {history[i] : i \in DOMAIN history}

\* Mutated Forget: a new record leaves its id among the cancelled ones.
ForgetNothing(u) == history

\* _forget_cancelled: the id starts a new life.
Forget(u) ==
  LET at == CHOOSE i \in DOMAIN history : history[i] = u
  IN  IF u \in Cancelled
      THEN [i \in 1..(Len(history) - 1) |->
              IF i < at THEN history[i] ELSE history[i + 1]]
      ELSE history

\* Mutated Remember: the history grows without a limit.
RememberAll(u) == IF u \in Cancelled THEN history ELSE Append(history, u)

\* _remember_cancelled: first in, first out, a repeated id takes no room.
Remember(u) ==
  IF u \in Cancelled THEN history
  ELSE IF Len(history) = HistoryLimit THEN Append(Tail(history), u)
  ELSE Append(history, u)

\* Mutated CancelWait: a record the worker has stopped itself is not waited for.
CancelWaitRecording(u) == IF recording = u THEN Utts ELSE {}

\* _cancel waits for the thread of the id even if it is not being recorded.
CancelWait(u) == IF recording = u THEN Utts ELSE {u}

\* Mutated StopNewest: only a cancellation reaches the capture thread.
StopNewestCancelled(cancelling) ==
  IF chain = <<>> \/ ~cancelling THEN chain
  ELSE [chain EXCEPT ![Len(chain)].run = FALSE, ![Len(chain)].cancel = TRUE]

\* request_stop: the newest capture thread loses its running flag.
StopNewest(cancelling) ==
  IF chain = <<>> THEN chain
  ELSE [chain EXCEPT ![Len(chain)].run = FALSE,
                     ![Len(chain)].cancel = @ \/ cancelling]

Capturing(u) == \E i \in DOMAIN chain : chain[i].uid = u

\* _expire_stopped, the first thing every message and every tick does.
Kept(S) == S \ stale

\* Mutated Claim: the time to live of a recognised buffer keeps running.
ClaimAging(u) == Kept(stopped)

\* _recognize takes the buffer over from the time to live.
Claim(u) == Kept(stopped) \ {u}

\* The handler returns: a reply without waits goes out at once.
Return(msg, w) ==
  IF w = {}
  THEN /\ main' = "idle" /\ reply' = None /\ waits' = {}
       /\ out' = {msg} \ {None}
  ELSE /\ main' = "waiting" /\ reply' = msg /\ waits' = w
       /\ out' = {}

-----------------------------------------------------------------------------
Init ==
  /\ recording = None /\ buffers = {} /\ stopped = {} /\ stale = {}
  /\ deviceChanged = {} /\ history = <<>>
  /\ active = None /\ pending = None
  /\ job = [j \in Jobs |-> FreeJob] /\ queue = <<>>
  /\ engine = FALSE /\ identity = None /\ unloading = FALSE /\ sessions = 0
  /\ chain = <<>> /\ silent = None /\ closeFailed = FALSE
  /\ main = "idle" /\ reply = None /\ waits = {}
  /\ out = {} /\ owed = {}

-----------------------------------------------------------------------------
(* The main loop: one message.                                             *)

\* A message that only expires old buffers and answers.
Refuse(msg, w) ==
  /\ buffers' = Kept(buffers) /\ stopped' = Kept(stopped) /\ stale' = {}
  /\ deviceChanged' = Kept(deviceChanged)
  /\ Return(msg, w)
  /\ UNCHANGED <<recording, history, jobs, model, capture, owed>>

RefuseStart(u) ==
  /\ main = "idle"
  /\ recording # None \/ HasJob(u)
  /\ Refuse(Msg("bad-state", "record.start", u), {})

\* The GUI draws a fresh id for every phrase (uuid4 in core/dictation.py): an id
\* may come back, but not while its last capture thread is still closing.
RecordStart(u) ==
  /\ main = "idle" /\ ~closeFailed
  /\ ~Capturing(u)
  /\ recording = None /\ ~HasJob(u)
  /\ recording' = u
  /\ buffers' = Kept(buffers) \cup {u}
  /\ stopped' = Kept(stopped) \ {u} /\ stale' = {}
  /\ deviceChanged' = Kept(deviceChanged) \ {u}
  /\ history' = Forget(u)
  /\ chain' = Append(StopNewest(FALSE),
                     [uid |-> u, run |-> TRUE, cancel |-> FALSE, step |-> "open"])
  /\ silent' = None
  /\ Return(None, {})
  /\ UNCHANGED <<closeFailed, jobs, model, owed>>

\* The record is over, its PCM stays: _stop_recording.
StopRecording ==
  /\ chain' = StopNewest(FALSE)
  /\ stopped' = Kept(stopped) \cup {recording} /\ stale' = {}
  /\ buffers' = Kept(buffers) /\ deviceChanged' = Kept(deviceChanged)
  /\ recording' = None

RecordStop(u) ==
  /\ main = "idle"
  /\ recording = u
  /\ StopRecording
  /\ Return(None, Utts)
  /\ UNCHANGED <<history, jobs, model, silent, closeFailed, owed>>

\* A late stop of a record the worker has stopped itself is not an error.
LateStop(u) ==
  /\ main = "idle"
  /\ recording # u
  /\ IF u \in Kept(stopped) THEN Refuse(None, {})
     ELSE Refuse(Msg("bad-state", "record.stop", u), {u})

\* _recognize, the refusals.
RecognizeError(u, file) ==
  LET req == IF file THEN "transcribe.file" ELSE "recognize"
  IN  CASE ~engine -> {Msg("no-model", req, u)}
        [] engine /\ HasJob(u) -> {Msg("bad-state", req, u)}
        [] engine /\ ~HasJob(u) /\ pending # None -> {Msg("busy", req, u)}
        [] engine /\ ~HasJob(u) /\ pending = None
             /\ file = (u \in Kept(buffers)) -> {Msg("bad-state", req, u)}
        [] OTHER -> {}

RefuseRecognize(u, file) ==
  /\ main = "idle" /\ (file => u = File)
  /\ \E msg \in RecognizeError(u, file) :
       Refuse(msg, IF msg.type = "bad-state" /\ ~file THEN {u} ELSE {})

NewJob(u, file, phase) ==
  [FreeJob EXCEPT !.uid = u, !.file = file, !.phase = phase]

\* The state _recognize leaves for a recording it ends, and for one that is over.
TakeRecord(u) ==
  IF recording = u
  THEN /\ recording' = None /\ chain' = StopNewest(FALSE)
       /\ Return(None, Utts)
  ELSE /\ UNCHANGED <<recording, chain>>
       /\ Return(None, {})

Recognize(u, file) ==
  /\ main = "idle" /\ (file => u = File)
  /\ RecognizeError(u, file) = {}
  /\ TakeRecord(u)
  /\ buffers' = Kept(buffers) /\ stopped' = Claim(u) /\ stale' = {}
  /\ deviceChanged' = Kept(deviceChanged)
  /\ history' = Forget(u)
  /\ \E j \in Jobs :
       /\ job[j].phase = "free"
       /\ IF active = None
          THEN /\ active' = j /\ queue' = Append(queue, j)
               /\ job' = [job EXCEPT ![j] = NewJob(u, file, "queued")]
               /\ UNCHANGED pending
          ELSE /\ pending' = j
               /\ job' = [job EXCEPT ![j] = NewJob(u, file, "pending")]
               /\ UNCHANGED <<active, queue>>
  /\ owed' = owed \cup {u}
  /\ UNCHANGED <<model, silent, closeFailed>>

\* The executor cannot start its thread: the job fails at once, the PCM is kept.
SubmitFails(u, file) ==
  /\ main = "idle" /\ (file => u = File)
  /\ RecognizeError(u, file) = {}
  /\ active = None /\ queue = <<>> /\ ~unloading
  /\ recording' = IF recording = u THEN None ELSE recording
  /\ chain' = IF recording = u THEN StopNewest(FALSE) ELSE chain
  /\ buffers' = Kept(buffers) /\ stale' = {}
  /\ stopped' = Claim(u) \cup ({u} \cap buffers')
  /\ deviceChanged' = Kept(deviceChanged)
  /\ history' = Forget(u)
  /\ main' = IF recording = u THEN "waiting" ELSE "idle"
  /\ reply' = None /\ waits' = IF recording = u THEN Utts ELSE {}
  /\ out' = {Msg("engine-failed", IF file THEN "transcribe.file" ELSE "recognize", u)}
  /\ UNCHANGED <<jobs, model, silent, closeFailed, owed>>

\* The id is unknown: the reply still waits for a capture thread of that id.
CancelUnknown(u) ==
  /\ main = "idle"
  /\ u \notin Kept(buffers) /\ ~HasJob(u) /\ u \notin Cancelled
  /\ Refuse(Msg("bad-state", "record.cancel", u), {u})

\* The token is set; the waiting job goes, the active one runs to its end.
CancelledJob(j, notified) ==
  IF j = pending THEN FreeJob
  ELSE IF j = active
       THEN [job[j] EXCEPT !.token = TRUE, !.notified = @ \/ notified]
  ELSE job[j]

RecordCancel(u) ==
  /\ main = "idle"
  /\ u \in Kept(buffers) \/ HasJob(u) \/ u \in Cancelled
  /\ job' = [j \in Jobs |-> IF job[j].uid = u THEN CancelledJob(j, TRUE) ELSE job[j]]
  /\ pending' = IF pending # None /\ job[pending].uid = u THEN None ELSE pending
  /\ IF recording = u
     THEN recording' = None /\ chain' = StopNewest(TRUE)
     ELSE UNCHANGED <<recording, chain>>
  /\ Return(Msg("cancelled", "record.cancel", u), CancelWait(u))
  /\ buffers' = Kept(buffers) \ {u} /\ stopped' = Kept(stopped) \ {u} /\ stale' = {}
  /\ deviceChanged' = Kept(deviceChanged) \ {u}
  /\ history' = Remember(u)
  /\ owed' = owed \ {u}
  /\ UNCHANGED <<active, queue, model, silent, closeFailed>>

AudioClose ==
  /\ main = "idle"
  /\ IF recording # None
     THEN StopRecording
     ELSE /\ chain' = StopNewest(FALSE)
          /\ buffers' = Kept(buffers) /\ stopped' = Kept(stopped) /\ stale' = {}
          /\ deviceChanged' = Kept(deviceChanged)
          /\ UNCHANGED recording
  /\ Return(Msg("audio.closed", "audio.close", None), Utts)
  /\ UNCHANGED <<history, jobs, model, silent, closeFailed, owed>>

\* Mutated LoadAnswer: a load does not wait for the release of the old engine.
LoadAnswerHasty(m) ==
  CASE identity # None /\ identity # m -> {"restart-required"}
    [] identity \in {None, m} /\ engine -> {"model.loaded"}
    [] identity \in {None, m} /\ ~engine
         /\ (recording # None \/ active # None) -> {"bad-state"}
    [] OTHER -> {}

\* _load, the answers that load nothing.
LoadAnswer(m) ==
  CASE identity # None /\ identity # m -> {"restart-required"}
    [] identity \in {None, m} /\ unloading -> {"busy"}
    [] identity \in {None, m} /\ ~unloading /\ engine -> {"model.loaded"}
    [] identity \in {None, m} /\ ~unloading /\ ~engine
         /\ (recording # None \/ active # None) -> {"bad-state"}
    [] OTHER -> {}

AnswerLoad(m) ==
  /\ main = "idle"
  /\ \E t \in LoadAnswer(m) : Refuse(Msg(t, "model.load", None), {})

\* The identity is set before the attempt and survives its failure.
ModelLoad(m, ok) ==
  /\ main = "idle"
  /\ LoadAnswer(m) = {}
  /\ identity' = m
  /\ engine' = ok
  /\ sessions' = IF ok THEN sessions + 1 ELSE sessions
  /\ buffers' = Kept(buffers) /\ stopped' = Kept(stopped) /\ stale' = {}
  /\ deviceChanged' = Kept(deviceChanged)
  /\ Return(Msg(IF ok THEN "model.loaded" ELSE "engine-failed", "model.load", None), {})
  /\ UNCHANGED <<recording, history, jobs, unloading, capture, owed>>

\* _unload: everything is dropped; an engine in use is released behind its job.
Unload ==
  /\ chain' = StopNewest(TRUE)
  /\ job' = [j \in Jobs |-> CancelledJob(j, FALSE)]
  /\ active' = None /\ pending' = None
  /\ recording' = None /\ buffers' = {} /\ stopped' = {} /\ stale' = {}
  /\ deviceChanged' = {} /\ history' = <<>>
  /\ engine' = FALSE
  /\ unloading' = (unloading \/ (engine /\ active # None))
  /\ sessions' = IF engine /\ active = None THEN sessions - 1 ELSE sessions
  /\ owed' = {}
  /\ UNCHANGED <<queue, identity, silent, closeFailed>>

ModelUnload ==
  /\ main = "idle"
  /\ Unload
  /\ Return(None, Utts)

\* The parent has gone: close() and the end of the process.
Close ==
  /\ main = "idle"
  /\ Unload
  /\ main' = "closing" /\ reply' = None /\ waits' = Utts /\ out' = {}

\* The waits are over, the reply goes out.
Reply ==
  /\ main = "waiting" /\ ~closeFailed
  /\ \A u \in waits : ~Capturing(u)
  /\ main' = "idle" /\ reply' = None /\ waits' = {}
  /\ out' = {reply} \ {None}
  /\ UNCHANGED <<pcm, history, jobs, model, capture, owed>>

\* close() has joined the capture threads and shut the executor down.
Exit ==
  /\ main = "closing" /\ ~closeFailed
  /\ chain = <<>> /\ queue = <<>> /\ ~unloading
  /\ main' = "dead" /\ reply' = None /\ waits' = {} /\ out' = {}
  /\ UNCHANGED <<pcm, history, jobs, model, capture, owed>>

\* The tick of the loop expires stopped buffers without any message.
Expire ==
  /\ main = "idle" /\ stale # {}
  /\ Refuse(None, {})

\* check_stop_watchdog, also called while waiting: the record's own deadline.
RecordDeadline ==
  /\ main # "dead"
  /\ chain # <<>> /\ chain[Len(chain)].run
  /\ chain' = StopNewest(FALSE)
  /\ out' = {}
  /\ UNCHANGED <<pcm, history, jobs, model, silent, closeFailed, control, owed>>

\* on_error: ignored unless that id is being recorded.
DropRecord(u) ==
  IF recording = u
  THEN /\ buffers' = buffers \ {u} /\ stopped' = stopped \ {u}
       /\ stale' = stale \ {u} /\ recording' = None
       /\ out' = {Msg("audio-error", "event", u)}
       /\ UNCHANGED deviceChanged
  ELSE /\ UNCHANGED pcm /\ out' = {}

\* _check_first_chunk: the source is open and has given no sound in time.
FirstChunkWatchdog ==
  /\ main # "dead"
  /\ silent # None
  /\ silent' = None
  /\ chain' = StopNewest(FALSE)
  /\ DropRecord(silent)
  /\ UNCHANGED <<history, jobs, model, closeFailed, control, owed>>

\* Mutated Overdue: a hung capture thread is not noticed, only a failed close.
OverdueClose == closeFailed

\* A close that failed, or a thread that outlives its stop deadline.
Overdue ==
  \/ closeFailed
  \/ \E i \in DOMAIN chain : ~chain[i].run
  \/ main \in {"waiting", "closing"} /\ \E u \in waits : Capturing(u)

\* CaptureStopTimeout: the process ends, the kernel closes the microphone.
StopTimeout ==
  /\ main # "dead"
  /\ Overdue
  /\ main' = "dead" /\ reply' = None /\ waits' = {} /\ out' = {}
  /\ chain' = <<>>
  /\ UNCHANGED <<pcm, history, jobs, model, silent, closeFailed, owed>>

-----------------------------------------------------------------------------
(* The executor thread.                                                    *)

Running(j) == main # "dead" /\ queue # <<>> /\ Head(queue) = j

ReadPcm(j) ==
  /\ Running(j) /\ job[j].phase = "queued"
  /\ \/ job' = [job EXCEPT ![j].phase = "engine",
                           ![j].pcm = job[j].file \/ job[j].uid \in buffers]
     \/ /\ job[j].file
        /\ job' = [job EXCEPT ![j].phase = "done", ![j].verdict = "bad-audio"]
  /\ out' = {}
  /\ UNCHANGED <<pcm, history, active, pending, queue, model, capture, control, owed>>

\* Under the engine's lock the token is read first.
TakeEngine(j) ==
  /\ Running(j) /\ job[j].phase = "engine"
  /\ job' = IF job[j].token
            THEN [job EXCEPT ![j].phase = "done", ![j].verdict = "cancelled"]
            ELSE [job EXCEPT ![j].phase = "infer"]
  /\ out' = {}
  /\ UNCHANGED <<pcm, history, active, pending, queue, model, capture, control, owed>>

\* Segment after segment; the token is read again after the last one.
Transcribe(j) ==
  /\ Running(j) /\ job[j].phase = "infer"
  /\ \E v \in {"engine-failed"} \cup
              (IF job[j].token THEN {"cancelled"} ELSE {"result", "frame-error"}) :
       job' = [job EXCEPT ![j].phase = "done", ![j].verdict = v]
  /\ out' = {}
  /\ UNCHANGED <<pcm, history, active, pending, queue, model, capture, control, owed>>

\* _finish of a job that unload or close has disowned.
FinishOrphan(j) ==
  /\ Running(j) /\ job[j].phase = "done"
  /\ active # j
  /\ job' = [job EXCEPT ![j] = FreeJob]
  /\ queue' = Tail(queue)
  /\ out' = {}
  /\ UNCHANGED <<pcm, history, active, pending, model, capture, control, owed>>

Outcome(j) == IF job[j].token THEN "cancelled" ELSE job[j].verdict
Request(j) == IF job[j].file THEN "transcribe.file" ELSE "recognize"

\* Mutated Announced: the outcome of a cancelled job is sent once more.
AnnouncedAlways(j) == {j}

\* record.cancel has already answered for a notified job.
Announced(j) == {k \in {j} : ~job[k].notified}

\* Mutated Settled: a job dropped after an engine failure gets no answer.
SettledQuietly(j, dropped) == Announced(j)

\* The jobs whose outcome the step announces.
Settled(j, dropped) == Announced(j) \cup dropped

\* Mutated Launched: the waiting job becomes active and is never submitted.
LaunchedNever(dropped) == <<>>

\* What _finish submits to the executor.
Launched(dropped) ==
  IF dropped = {} /\ pending # None THEN <<pending>> ELSE <<>>

\* Mutated Marks: the device mark of a finished phrase is left behind.
MarksLeft(gone) == deviceChanged

\* _device_changed.discard for every buffer that goes.
Marks(gone) == deviceChanged \ gone

\* Mutated Restopped: after an error the PCM is neither freed nor stopped.
RestoppedNever(u) == {}

\* After an error the PCM of the job waits for another recognize.
Restopped(u) == {u} \cap buffers

\* The PCM of a recognised or cancelled job goes; after an error it is stopped.
SettlePcm(j, dropped) ==
  LET u    == job[j].uid
      gone == (IF Outcome(j) \in {"result", "cancelled"} THEN {u} ELSE {})
                \cup {job[d].uid : d \in dropped}
  IN  /\ buffers' = buffers \ gone
      /\ deviceChanged' = Marks(gone)
      /\ stopped' = (stopped \ {job[d].uid : d \in dropped})
                      \cup (IF u \in gone THEN {} ELSE Restopped(u))
      /\ stale' = stale \ (gone \cup {u})
      /\ history' = IF Outcome(j) = "cancelled" THEN Remember(u) ELSE history
      /\ UNCHANGED recording

\* _finish: an engine failure also drops the waiting job, else it is launched.
Finish(j) ==
  LET dropped == IF Outcome(j) = "engine-failed" THEN {pending} \ {None} ELSE {}
      settled == Settled(j, dropped)
  IN  /\ Running(j) /\ job[j].phase = "done"
      /\ active = j
      /\ SettlePcm(j, dropped)
      /\ active' = IF dropped = {} THEN pending ELSE None
      /\ pending' = None
      /\ job' = [k \in Jobs |->
                   IF k \in dropped \cup {j} THEN FreeJob
                   ELSE IF k = pending THEN [job[k] EXCEPT !.phase = "queued"]
                   ELSE job[k]]
      /\ queue' = Tail(queue) \o Launched(dropped)
      /\ out' = {Msg(IF k = j THEN Outcome(j) ELSE "engine-failed",
                     Request(k), job[k].uid) : k \in settled}
      /\ owed' = owed \ {job[k].uid : k \in settled}
      /\ UNCHANGED <<model, capture, control>>

\* _deferred_unload runs behind the last job of the engine it releases.
DeferredUnload ==
  /\ main # "dead" /\ queue = <<>> /\ unloading
  /\ unloading' = FALSE
  /\ sessions' = sessions - 1
  /\ out' = {}
  /\ UNCHANGED <<pcm, history, jobs, engine, identity, capture, control, owed>>

-----------------------------------------------------------------------------
(* The capture thread at the head of the chain.                            *)

At(step) == main # "dead" /\ chain # <<>> /\ chain[1].step = step
Goto(step) == chain' = [chain EXCEPT ![1].step = step]

\* A failure is reported only while the running flag is still set.
Raise == Goto(IF chain[1].run THEN "failing" ELSE "closing")

\* A change of device is found on any way out of reading, and after a
\* cancellation not reported.
LoseDevice ==
  /\ Goto(IF chain[1].cancel THEN "closing" ELSE "changed")
  /\ silent' = None

OpenSource ==
  /\ At("open")
  /\ \/ /\ chain[1].run /\ Goto("opened") /\ UNCHANGED silent
        /\ out' = {Msg("audio.ready", "event", None)}
     \/ Raise /\ UNCHANGED silent /\ out' = {}
     \/ LoseDevice /\ out' = {}
  /\ UNCHANGED <<pcm, history, jobs, model, closeFailed, control, owed>>

StartReading ==
  /\ At("opened")
  /\ silent' = IF Len(chain) = 1 THEN chain[1].uid ELSE silent
  /\ IF chain[1].run
     THEN Goto("reading") /\ out' = {Msg("record.started", "event", chain[1].uid)}
     ELSE Goto("closing") /\ out' = {}
  /\ UNCHANGED <<pcm, history, jobs, model, closeFailed, control, owed>>

\* The loop of _read_chunks: a chunk, the end of the loop or an error.
ReadChunk ==
  /\ At("reading")
  /\ \/ /\ chain[1].run
        /\ Goto("chunk")
        /\ silent' = None
        /\ UNCHANGED closeFailed
     \/ Goto("left") /\ UNCHANGED <<silent, closeFailed>>
     \/ /\ Raise
        /\ closeFailed' \in {closeFailed, TRUE}
        /\ UNCHANGED silent
  /\ out' = {}
  /\ UNCHANGED <<pcm, history, jobs, model, control, owed>>

\* on_samples: kept only for the current recording; at the limit it stops.
Deliver(full) ==
  /\ At("chunk")
  /\ IF recording = chain[1].uid /\ full
     THEN /\ chain' = [StopNewest(FALSE) EXCEPT ![1].step = "left"]
          /\ stopped' = stopped \cup {recording}
          /\ recording' = None
          /\ out' = {Msg("record.limit", "event", recording)}
          /\ UNCHANGED <<buffers, stale, deviceChanged>>
     ELSE /\ Goto(IF chain[1].run /\ recording = chain[1].uid
                  THEN "reading" ELSE "left")
          /\ out' = {} /\ UNCHANGED pcm
  /\ UNCHANGED <<history, jobs, model, silent, closeFailed, control, owed>>

\* _read after its loop: was it the device that ended the record?
LeaveReading ==
  /\ At("left")
  /\ \/ Goto("closing") /\ UNCHANGED silent
     \/ LoseDevice
  /\ out' = {}
  /\ UNCHANGED <<pcm, history, jobs, model, closeFailed, control, owed>>

\* Mutated StillKept: the change is reported whatever has become of the buffer.
StillKeptAlways(u) == {u}

\* A change that comes after the record ended is reported for a stopped buffer.
StillKept(u) == {u} \cap Kept(stopped)

\* on_device_change: ends the recording, or marks a buffer that is stopped.
ReportChange ==
  LET u == chain[1].uid
  IN  /\ At("changed")
      /\ IF main = "closing" \/ u \in deviceChanged
         THEN /\ Goto("closing") /\ UNCHANGED pcm /\ out' = {}
         ELSE IF recording = u
         THEN /\ chain' = [StopNewest(FALSE) EXCEPT ![1].step = "closing"]
              /\ recording' = None
              /\ buffers' = Kept(buffers) /\ stale' = {}
              /\ stopped' = Kept(stopped) \cup {u}
              /\ deviceChanged' = Kept(deviceChanged) \cup {u}
              /\ out' = {Msg("device.changed", "event", u)}
         ELSE /\ Goto("closing")
              /\ UNCHANGED recording
              /\ buffers' = Kept(buffers) /\ stopped' = Kept(stopped) /\ stale' = {}
              /\ deviceChanged' = Kept(deviceChanged) \cup StillKept(u)
              /\ out' = {Msg("device.changed", "event", v) : v \in StillKept(u)}
      /\ UNCHANGED <<history, jobs, model, silent, closeFailed, control, owed>>

ReportError ==
  /\ At("failing")
  /\ Goto("closing")
  /\ DropRecord(chain[1].uid)
  /\ UNCHANGED <<history, jobs, model, silent, closeFailed, control, owed>>

\* The finally block: record.stopped only if no close has ever failed.
CloseSource ==
  /\ At("closing")
  /\ closeFailed' \in {closeFailed, TRUE}
  /\ out' = IF closeFailed' THEN {}
            ELSE {Msg("record.stopped", "event", chain[1].uid)}
  /\ chain' = Tail(chain)
  /\ UNCHANGED <<pcm, history, jobs, model, silent, control, owed>>

-----------------------------------------------------------------------------
\* STOPPED_TTL_S_DEFAULT seconds have passed since u was stopped.
Age(u) ==
  /\ main # "dead" /\ u \in stopped \ stale
  /\ stale' = stale \cup {u}
  /\ out' = {}
  /\ UNCHANGED <<recording, buffers, stopped, deviceChanged, history, jobs, model,
                 capture, control, owed>>

\* The process has ended.
Ended == main = "dead" /\ UNCHANGED vars

MainStep ==
  \/ \E u \in Utts : \/ RefuseStart(u) \/ RecordStart(u)
                     \/ RecordStop(u) \/ LateStop(u)
                     \/ CancelUnknown(u) \/ RecordCancel(u)
  \/ \E u \in Utts, file \in BOOLEAN :
       RefuseRecognize(u, file) \/ Recognize(u, file) \/ SubmitFails(u, file)
  \/ AudioClose
  \/ \E m \in Models : AnswerLoad(m) \/ (\E ok \in BOOLEAN : ModelLoad(m, ok))
  \/ ModelUnload \/ Close
  \/ Reply \/ Exit \/ Expire \/ RecordDeadline \/ FirstChunkWatchdog
  \/ StopTimeout

ExecutorStep ==
  \/ \E j \in Jobs : \/ ReadPcm(j) \/ TakeEngine(j) \/ Transcribe(j)
                     \/ FinishOrphan(j) \/ Finish(j)
  \/ DeferredUnload

CaptureStep ==
  \/ OpenSource \/ StartReading \/ ReadChunk
  \/ \E full \in BOOLEAN : Deliver(full)
  \/ LeaveReading \/ ReportChange \/ ReportError \/ CloseSource

Next == MainStep \/ ExecutorStep \/ CaptureStep \/ (\E u \in Utts : Age(u)) \/ Ended

Spec == Init /\ [][Next]_vars

\* The loop sends a reply whose waits are over and obeys the stop watchdog; the
\* executor's thread is not starved.  Nothing is assumed of capture threads:
\* libpulse may hang in any call.
Fairness ==
  /\ WF_vars(Reply) /\ WF_vars(Exit) /\ WF_vars(StopTimeout)
  /\ WF_vars(ExecutorStep)

FairSpec == Spec /\ Fairness

-----------------------------------------------------------------------------
(* Properties.                                                             *)

PcmType ==
  /\ recording \in Utts \cup {None}
  /\ buffers \subseteq Utts /\ stopped \subseteq Utts /\ stale \subseteq Utts
  /\ deviceChanged \subseteq Utts
HistoryType == history \in Seq(Utts) /\ Len(history) <= HistoryLimit
JobsType ==
  /\ active \in Jobs \cup {None} /\ pending \in Jobs \cup {None}
  /\ job \in [Jobs -> JobType] /\ queue \in Seq(Jobs)
ModelType ==
  /\ engine \in BOOLEAN /\ identity \in Models \cup {None}
  /\ unloading \in BOOLEAN /\ sessions \in Nat
CaptureType ==
  /\ chain \in Seq(Capture) /\ silent \in Utts \cup {None}
  /\ closeFailed \in BOOLEAN
ControlType ==
  /\ main \in {"idle", "waiting", "closing", "dead"}
  /\ reply \in Message \cup {None} /\ waits \subseteq Utts
MessagesType == out \subseteq Message /\ owed \subseteq Utts

\* Every variable has its type, and the history of cancelled ids never exceeds
\* CANCELLED_HISTORY_LIMIT.
TypeOK ==
  /\ PcmType /\ HistoryType /\ JobsType /\ ModelType
  /\ CaptureType /\ ControlType /\ MessagesType

\* A job that still wants the PCM of its id: it reads buffers and is not cancelled.
Wants(j, u) == job[j].uid = u /\ ~job[j].file /\ ~job[j].token

\* Every kept buffer has exactly one owner that will free it: the record in
\* progress, the time to live of a stopped one, or the job that recognises it.
\* And none of the owners has lost its buffer.
BufferOwned ==
  /\ recording # None => recording \in buffers \ stopped
  /\ stale \subseteq stopped /\ stopped \subseteq buffers
  /\ \A j \in Current : job[j].uid \notin stopped \cup {recording}
  /\ \A j \in Current : Wants(j, job[j].uid) <=> job[j].uid \in buffers
  /\ \A u \in buffers :
       recording = u \/ u \in stopped \/ (\E j \in Current : Wants(j, u))

\* A mark "the device has changed" never outlives the buffer it describes.
MarksHaveBuffers == deviceChanged \subseteq buffers

\* The bounded history answers repeated cancellations: an id is in it once, and
\* never while a record or a waiting job gives the id a new life.
HistoryIsOfTheDead ==
  /\ \A i, k \in DOMAIN history : history[i] = history[k] => i = k
  /\ Cancelled \cap buffers = {}

\* No recognition accepted by the worker is forgotten or answered twice: what is
\* still owed is exactly what the two job slots hold and nobody has answered.
OutcomesOwed == owed = {job[j].uid : j \in {k \in Current : ~job[k].notified}}

\* Sessions of the runtime are loaded at most once, and never released under the
\* job that is using them (docstring of _release_engine).
EngineInUse ==
  /\ sessions <= 1
  /\ \A j \in Jobs : job[j].phase = "infer" => sessions = 1

\* What is recognised is the PCM of the phrase: it has neither expired nor been
\* replaced between recognize and the job's turn.
ResultsHavePcm ==
  \A j \in Jobs : job[j].verdict = "result" /\ ~job[j].token => job[j].pcm

\* The microphone is read only for the phrase being recorded: a thread whose
\* running flag is set is the newest one, and its id is the one recorded, unless
\* it is about to close after reporting its own failure.
MicrophoneHasOwner ==
  \A i \in DOMAIN chain : chain[i].run =>
      /\ i = Len(chain)
      /\ recording = chain[i].uid \/ chain[i].step \in {"closing", "left"}

\* The PCM of a phrase is kept for as long as somebody may still ask for it and no
\* longer: every buffer has an owner, a mark belongs to a buffer, the history of the
\* dead names nothing that is kept, and a result is made of the PCM that was asked for.
BuffersAccounted == BufferOwned /\ MarksHaveBuffers /\ HistoryIsOfTheDead /\ ResultsHavePcm

(* What the properties above and below rest on: the inductive part.        *)

\* At most one engine is loaded and not released.
EngineExclusive ==
  /\ ~(engine /\ unloading)
  /\ sessions = IF engine \/ unloading THEN 1 ELSE 0

\* The executor has at most one job: the active one, or, until the engine it uses
\* is released, one that unload has disowned.
Busy == {"queued", "engine", "infer", "done"}
ExecutorHasOneJob ==
  /\ queue # <<>> => \E j \in Jobs : queue = <<j>> /\ job[j].phase \in Busy
  /\ \A j \in Jobs : job[j].phase \in Busy =>
       /\ queue = <<j>>
       /\ job[j].uid \in Utts
       /\ active = j \/ unloading
       /\ active # None => active = j
  /\ \A j \in Jobs : job[j].phase = "done" => job[j].verdict \in Verdicts

\* The two slots hold two jobs of two ids, and only behind an active job does
\* another one wait.
SlotsOK ==
  /\ active # None => job[active].phase \in Busy /\ engine
  /\ pending # None =>
       /\ active # None
       /\ job[pending].phase = "pending"
       /\ ~job[pending].token /\ ~job[pending].notified
       /\ job[pending].uid \in Utts \ {job[active].uid}
  /\ \A j \in Jobs : job[j].notified => job[j].token

\* A reply that is held waits for every thread its acknowledgement speaks of.
WaitsOK ==
  /\ main = "waiting" /\ reply # None =>
       /\ reply.req = "record.cancel" => reply.uid \in waits
       /\ reply.type = "audio.closed" => waits = Utts
  /\ main # "waiting" => reply = None

\* The acknowledgement barrier of docs/ipc-ack-protocol.md: the answers to
\* record.cancel leave the worker only when no capture thread of that id is
\* left, audio.closed only when there is none at all, and neither after a
\* failure to close the source.
AckBarrier ==
  [][\A m \in out' :
       /\ m.req = "record.cancel" => ~closeFailed /\ ~Capturing(m.uid)'
       /\ m.type = "audio.closed" => ~closeFailed /\ chain' = <<>>]_vars

\* An event about kept PCM is sent only while that PCM is kept.
EventsHavePcm ==
  [][\A m \in out' : m.type \in {"record.limit", "device.changed"} =>
       m.uid \in buffers' /\ recording' # m.uid]_vars

\* The executor announces an outcome only for a recognition still owed one:
\* nothing late is sent for an id that was cancelled or unloaded.
OutcomesAreOwed ==
  [][\A j \in Jobs : Finish(j) => {m.uid : m \in out'} \subseteq owed]_vars

\* Every recognition is settled once and nothing is announced for what is gone: what
\* is owed is what the slots hold, an outcome is only sent where one is owed, and an
\* event about kept PCM only while that PCM is kept.
OutcomesSettled == []OutcomesOwed /\ OutcomesAreOwed /\ EventsHavePcm

\* The main loop never stays blocked on a capture thread: the reply goes out or
\* the stop watchdog ends the process.
LoopReturns == main \in {"waiting", "closing"} ~> main \in {"idle", "dead"}

\* Every accepted recognition is settled, as long as the process lives.
RecognitionsSettle == \A u \in Utts : u \in owed ~> (u \notin owed \/ main = "dead")
=============================================================================
