------------------------------ MODULE Dictation -------------------------------
(***************************************************************************)
(* The phrase queue of the GUI (core/dictation.py, class                   *)
(* DictationOrchestrator, mode "text") with the automaton of the hotkey    *)
(* (platform/hotkey.py, class HotkeyFsm).                                  *)
(*                                                                         *)
(* A press starts a recording, its release sends the phrase to be          *)
(* recognized, and the text is pasted; a new phrase may be recorded while  *)
(* older ones are recognized, and the texts are pasted in the order of the *)
(* presses.  All handlers run in one thread, but a paste runs a nested     *)
(* event loop: what comes meanwhile is deferred, except the end of a       *)
(* capture and the timers.                                                 *)
(*                                                                         *)
(* A handler is a function from states to states: its operator takes a     *)
(* record s of the variables, and calls in the code are nested             *)
(* applications.  Nested loops are a stack of frames: a paste under way,   *)
(* the deferred events after it, the delivery loop _pump.                  *)
(*                                                                         *)
(* The supervisor and the worker are an environment that keeps the         *)
(* promises checked in Supervisor and WorkerState.                         *)
(***************************************************************************)
EXTENDS Naturals, Sequences, FiniteSets, FiniteSetsExt

CONSTANTS
  MaxPending,       \* MAX_PENDING_UTTERANCES
  PhraseLimit,      \* bound: phrases started
  GenerationLimit,  \* bound: generations of the worker
  PressLimit,       \* bound: generations in which a phrase is started
  DeferLimit,       \* bound: events deferred during a paste
  Breaks            \* bound: how the socket may break within a request

ASSUME LimitAssumption ==
  /\ MaxPending \in Nat \ {0} /\ PhraseLimit \in Nat \ {0}
  /\ GenerationLimit \in Nat \ {0} /\ PressLimit \in Nat /\ DeferLimit \in Nat \ {0}
  /\ Breaks \subseteq {"now", "later"}

VARIABLES
  phrases,     \* the fields of each _Utterance; 0 is the blank _last of __init__
  items,       \* _items, in the order of their numbers
  contexts,    \* _contexts
  last,        \* _last
  hotkey,      \* HotkeyFsm: state, and whether _overlap_mode is set
  indicator,   \* what set_recording was told last
  deferred,    \* _queue
  stack,       \* frames of nested calls, innermost first
  generation,  \* generation of the worker
  link,        \* supervisor: "starting", "up", "restarting" or "stopped"
  waits,       \* supervisor: requests of each phrase that wait for an answer; with
               \* recognize stand record.start and record.stop, which may wait too
  closing,     \* supervisor: audio.close waits for an answer
  source,      \* worker: the capture of each phrase
  pasted       \* phrases pasted, in order (for properties)

vars == <<phrases, items, contexts, last, hotkey, indicator, deferred, stack,
          generation, link, waits, closing, source, pasted>>

-----------------------------------------------------------------------------
Ids    == 1..PhraseLimit
Phases == {"idle", "recording", "processing", "pasting", "finishing"}
Timers == {"tail", "watchdog", "cancel", "restart", "busy", "done"}
Requests == {"record.start", "recognize", "record.cancel"}

Blank ==
  [phase |-> "idle", gen |-> 0, timers |-> {},
   cancelled |-> FALSE,  \* _cancel_requested
   pending |-> FALSE,    \* _cancel_pending
   job |-> FALSE,        \* _job_cancel_pending
   capture |-> FALSE,    \* _capture_open
   shown |-> FALSE,      \* _capture_processing
   outcome |-> FALSE,    \* _capture_outcome is set
   awaits |-> FALSE,     \* _awaiting_audio_closed
   tail |-> FALSE,       \* _tail_pending
   delivered |-> FALSE,  \* _delivered
   retried |-> FALSE,    \* _retries
   result |-> "none",    \* _result_pending
   waiting |-> FALSE]    \* _paste_text is set

Now == [phrases |-> phrases, items |-> items, contexts |-> contexts, last |-> last,
        hotkey |-> hotkey, indicator |-> indicator, deferred |-> deferred,
        stack |-> stack, generation |-> generation, link |-> link, waits |-> waits,
        closing |-> closing, source |-> source, pasted |-> pasted, fault |-> "none"]

Become(s) ==
  /\ phrases' = s.phrases /\ items' = s.items /\ contexts' = s.contexts
  /\ last' = s.last /\ hotkey' = s.hotkey /\ indicator' = s.indicator
  /\ deferred' = s.deferred /\ stack' = s.stack /\ generation' = s.generation
  /\ link' = s.link /\ waits' = s.waits /\ closing' = s.closing
  /\ source' = s.source /\ pasted' = s.pasted

Init ==
  /\ phrases = [u \in 0..PhraseLimit |-> Blank]
  /\ items = {} /\ contexts = {0} /\ last = 0
  /\ hotkey = [state |-> "idle", overlap |-> FALSE]
  /\ indicator = FALSE /\ deferred = <<>> /\ stack = <<>>
  /\ generation = 1 /\ link = "starting"
  /\ waits = [u \in Ids |-> {}] /\ closing = FALSE
  /\ source = [u \in Ids |-> "none"]
  /\ pasted = <<>>

-----------------------------------------------------------------------------
(* Questions about a state s and a phrase u.                               *)

Suspended(s) == s.stack # <<>> /\ s.stack[1].tag = "paste"
Pumping(s) == \E i \in DOMAIN s.stack : s.stack[i].tag = "pumping"

\* _default: the newest phrase at work, or the last one.
Default(s) == IF s.items # {} THEN Max(s.items) ELSE s.last

Recording(s) == {u \in s.items : s.phrases[u].phase = "recording"}

\* _recording_item() or _default()
Newest(s) == IF Recording(s) # {} THEN Min(Recording(s)) ELSE Default(s)

OtherRecording(s, u) == Recording(s) # {} /\ Min(Recording(s)) # u

\* Captures of this generation that the GUI has to take for open.
Open(s) == {c \in s.contexts :
              s.phrases[c].capture /\ s.phrases[c].gen = s.generation}

Ended(s, u) == s.phrases[u].phase \in {"idle", "finishing"}

\* A handler goes on only in its phase, unless the phrase is being cancelled.
Still(s, u, phase) == s.phrases[u].phase = phase /\ ~s.phrases[u].cancelled

\* _press_queued
PressDeferred(s) == \E i \in DOMAIN s.deferred : s.deferred[i].what = "press"

Due(what) == [what |-> what, uid |-> 0, gen |-> 0]
Said(what, u, g) == [what |-> what, uid |-> u, gen |-> g]
Defer(s, e) == [s EXCEPT !.deferred = Append(@, e)]

\* What nobody asks of a phrase that has ended is forgotten.
Rest(p) == [p EXCEPT !.delivered = FALSE, !.retried = FALSE, !.shown = FALSE]

\* Mutated Phase: a phrase stays in the queue until its outcome has been shown.
PhaseStays(s, u, phase) ==
  LET ends == phase = "idle" /\ u \in s.items
      p == [s.phrases[u] EXCEPT !.phase = phase]
  IN  [s EXCEPT !.phrases[u] = IF ends THEN Rest(p) ELSE p,
                !.items = IF ends THEN @ \ {u} ELSE @,
                !.last = IF ends /\ s.items = {u} THEN u ELSE @]

\* _change_phase: a phrase that ends leaves the queue.
Phase(s, u, phase) ==
  LET ends == phase \in {"idle", "finishing"} /\ u \in s.items
      p == [s.phrases[u] EXCEPT !.phase = phase]
  IN  [s EXCEPT !.phrases[u] = IF ends THEN Rest(p) ELSE p,
                !.items = IF ends THEN @ \ {u} ELSE @,
                !.last = IF ends /\ s.items = {u} THEN u ELSE @]

Later(s, u, timer) == [s EXCEPT !.phrases[u].timers = @ \cup {timer}]
Keep(s, u, kept) == [s EXCEPT !.phrases[u].timers = @ \cap kept]

\* The timer of the tail outlives an acknowledgement that shows an outcome.
KeepTail(s, u, outcome) == Keep(s, u, IF outcome THEN {"done"} ELSE {})

\* Mutated Dim: another phrase may still be recorded.
DimAlways(s) == [s EXCEPT !.indicator = FALSE]

\* The indicator goes out when no capture is open.
Dim(s) == IF Open(s) = {} THEN [s EXCEPT !.indicator = FALSE] ELSE s

-----------------------------------------------------------------------------
(* The hotkey.                                                             *)

SetHotkey(s, state, overlap) == [s EXCEPT !.hotkey = [state |-> state, overlap |-> overlap]]

\* HotkeyFsm.escape as hotkey_cancel: the phrase it would cancel has ended or is
\* being cancelled, except in RefusePress; in a paste the cancellation is deferred.
HotkeyCancel(s) ==
  LET t == SetHotkey(s, "idle", FALSE)
  IN  IF s.hotkey.state = "idle" THEN s
      ELSE IF Suspended(s) THEN Defer(t, Due("escape"))
      ELSE t

\* HotkeyFsm.refuse: back to the phrases that are recognized.
ReturnHotkey(s) ==
  IF s.hotkey.state # "recording" THEN s
  ELSE IF s.hotkey.overlap THEN SetHotkey(s, "processing", FALSE)
  ELSE HotkeyCancel(s)

\* HotkeyFsm.done
HotkeyDone(s) ==
  IF s.hotkey.state = "processing" THEN SetHotkey(s, "idle", FALSE) ELSE s

-----------------------------------------------------------------------------
(* The end of a phrase.                                                    *)

\* _begin_finish up to the request that closes the capture.
Conclude(s, u) ==
  LET p == s.phrases[u]
      pending == p.capture \/ p.awaits \/ p.job
      t == [s EXCEPT !.phrases[u].pending = pending, !.phrases[u].tail = FALSE,
                     !.phrases[u].result = "none", !.phrases[u].waiting = FALSE]
  IN  Phase(Keep(t, u, IF pending THEN {"restart"} ELSE {}), u, "finishing")

\* The outcome is shown, for DONE_MS or until the capture has closed.
Announce(s, u) ==
  [Later(s, u, "done") EXCEPT !.phrases[u].outcome = @ \/ s.phrases[u].capture]

\* No phrase is at work and no press waits.
AtRest(s) == s.items = {} /\ ~PressDeferred(s)

\* Mutated EndFinish: the key is set back although other phrases are at work.
EndFinishAlone(s, u) == HotkeyCancel(HotkeyDone(Announce(s, u)))

\* Mutated EndFinish: a key that records is not set back.
EndFinishDone(s, u) ==
  IF AtRest(s) THEN HotkeyDone(Announce(s, u)) ELSE Announce(s, u)

\* _end_finish
EndFinish(s, u) ==
  LET t == Announce(s, u)
  IN  IF AtRest(s) THEN HotkeyCancel(HotkeyDone(t)) ELSE t

\* _fail_restarted: another generation of the worker ends the whole queue.
FailRestarted(s, u) ==
  LET lose(v) == [s.phrases[v] EXCEPT
                    !.timers = {}, !.phase = "idle", !.capture = FALSE, !.pending = FALSE,
                    !.tail = FALSE, !.result = "none", !.waiting = FALSE]
      t == [s EXCEPT !.items = @ \cap {u},
                     !.phrases = [v \in DOMAIN @ |->
                        IF v \in s.items \ {u} THEN lose(v)
                        ELSE IF v = u THEN [@[v] EXCEPT !.capture = FALSE, !.job = FALSE,
                                                        !.pending = FALSE, !.awaits = FALSE]
                        ELSE @[v]]]
  IN  EndFinish(Dim(Conclude(t, u)), u)

-----------------------------------------------------------------------------
(* The supervisor and its process, as the queue meets them.                *)

NoWaits == [u \in Ids |-> {}]

\* The captures of a process that has exited.
Silenced(s) == [u \in Ids |-> IF s.source[u] = "none" THEN "none" ELSE "told"]

\* The next generation, of this supervisor or of its replacement.
NextWorker(s) ==
  [s EXCEPT !.generation = @ + 1, !.link = "starting", !.waits = NoWaits,
            !.closing = FALSE, !.source = Silenced(s)]

\* _route: the phrase an event is about, the newest one for all of them, or the
\* default one for a phrase that is forgotten.
Route(s, u) ==
  IF u = 0 THEN Newest(s) ELSE IF u \in s.contexts THEN u ELSE Default(s)

\* An error of a request of an earlier generation reaches the queue.
HearLoss(s, u) ==
  LET v == Route(s, u)
  IN  IF Suspended(s) THEN Defer(s, Said("crashed", u, s.generation - 1))
      ELSE IF Ended(s, v) /\ ~s.phrases[v].pending THEN s
      ELSE FailRestarted(s, v)

Waiting(s) == {u \in Ids : s.waits[u] # {}}

\* What a handler makes of s for the phrases of S, in the order of their numbers.
InOrder(Handle(_, _), s, S) ==
  LET after[n \in 0..PhraseLimit + 1] ==
        IF n = 0 THEN s
        ELSE IF n - 1 \in S THEN Handle(after[n - 1], n - 1) ELSE after[n - 1]
  IN  after[PhraseLimit + 1]

\* _restart: the process is killed; what waits is lost, what it still says is not read.
Restarting(s) ==
  [s EXCEPT !.link = "restarting", !.closing = FALSE,
            !.waits = [u \in Ids |-> IF @[u] = {} THEN {} ELSE {"lost"}],
            !.source = [u \in Ids |-> IF @[u] = "closed" THEN "told" ELSE @[u]]]

\* What a restart loses: its events name these phrases, or none.
Lost(s) == IF Waiting(s) = {} THEN {0} ELSE Waiting(s)

\* A restart whose process has exited: the next generation, then the losses.
Relaunched(s) == InOrder(HearLoss, NextWorker(s), Lost(s))

\* supervisor.send: a socket that breaks restarts the worker within the call.
Sent(s) ==
  IF s.fault = "later" THEN Restarting([s EXCEPT !.fault = "none"])
  ELSE IF s.fault = "now" THEN Relaunched([s EXCEPT !.fault = "none"])
  ELSE s

CanSend(s) == s.link = "up"

Ask(s, u, request) ==
  Sent([s EXCEPT !.waits[u] = {request} \cup
                   (IF request = "record.cancel" THEN @ ELSE @ \ {"record.start"}),
                 !.source[u] = IF request = "record.start" THEN "open" ELSE @])

\* _send_cancel: a failure is swallowed.
SendCancel(s, u) == IF CanSend(s) THEN Ask(s, u, "record.cancel") ELSE s

\* The cancellation of u, if it has outlived the request, waits for audio.closed.
Await(s, u) ==
  [s EXCEPT !.phrases[u].awaits =
     @ \/ (s.phrases[u].pending /\ s.phrases[u].gen = s.generation)]

\* _send_audio_close
SendAudioClose(s, u) ==
  IF ~CanSend(s) \/ s.closing THEN s
  ELSE Await(Sent([s EXCEPT !.closing = TRUE]), u)

-----------------------------------------------------------------------------
(* Cancelling, failing, finishing.                                         *)

\* Mutated EnsureClosed: the cancellation is sent without a timeout.
EnsureClosedTrusting(s, u) ==
  LET p == s.phrases[u]
      t == [s EXCEPT !.phrases[u].pending = TRUE]
  IN  IF ~p.capture \/ p.gen # s.generation THEN s
      ELSE IF p.awaits \/ "restart" \in p.timers THEN t
      ELSE SendCancel(t, u)

\* _ensure_capture_closed
EnsureClosed(s, u) ==
  LET p == s.phrases[u]
      t == [s EXCEPT !.phrases[u].pending = TRUE]
  IN  IF ~p.capture \/ p.gen # s.generation THEN s
      ELSE IF p.awaits \/ "restart" \in p.timers THEN t
      ELSE SendCancel(Later(t, u, "cancel"), u)

\* The key goes back to the phrases that are left.
Release(s, recorded) ==
  IF recorded /\ s.items # {} THEN ReturnHotkey(s) ELSE s

\* _begin_finish
BeginFinish(s, u) ==
  Release(Dim(EnsureClosed(Conclude(s, u), u)), s.phrases[u].phase = "recording")

Finish(s, u) == EndFinish(BeginFinish(s, u), u)

\* The failure of a phrase whose job has to be taken back.
TakeJobBack(s, u) ==
  IF s.phrases[u].job /\ ~s.phrases[u].capture
  THEN SendCancel(Later([s EXCEPT !.phrases[u].pending = TRUE], u, "cancel"), u)
  ELSE s

\* _fail_recognition
FailRecognition(s, u, cancelWorker) ==
  LET job == cancelWorker /\ s.phrases[u].phase = "processing"
  IN  EndFinish(TakeJobBack(BeginFinish([s EXCEPT !.phrases[u].job = job], u), u), u)

\* The key follows a cancellation: another phrase may be recorded with it.
Withdraw(s, u) ==
  IF s.items \subseteq {u} THEN HotkeyCancel(s)
  ELSE IF OtherRecording(s, u) THEN s
  ELSE ReturnHotkey(s)

\* _cancel_one from the point where the worker has to be asked.
AskCancel(s, u) ==
  LET p == s.phrases[u]
      t == [s EXCEPT !.phrases[u] = [p EXCEPT
              !.cancelled = TRUE, !.pending = TRUE, !.job = (p.phase = "processing"),
              !.tail = FALSE, !.timers = {"cancel"}]]
  IN  Dim(Withdraw(SendCancel(t, u), u))

\* _cancel_one: not a phrase that is delivered, and only once; a phrase that is
\* recognized and waits its turn needs no worker.
CancelOne(s, u) ==
  LET p == s.phrases[u]
  IN  IF p.delivered \/ Ended(s, u) \/ p.cancelled THEN s
      ELSE IF p.result = "none" THEN AskCancel(s, u)
      ELSE Finish([s EXCEPT !.phrases[u].cancelled = TRUE,
                            !.phrases[u].result = "none"], u)

\* _cancelled: the worker has neither a capture nor a job of u, or is a new one.
Cancelled(s, u) ==
  LET outcome == s.phrases[u].outcome
      t == [s EXCEPT !.phrases[u].job = FALSE, !.phrases[u].outcome = FALSE,
                     !.phrases[u].capture = FALSE, !.phrases[u].awaits = FALSE,
                     !.phrases[u].pending = FALSE]
      quiet == Dim(KeepTail(t, u, outcome))
  IN  IF ~Ended(s, u) THEN Finish([t EXCEPT !.phrases[u].cancelled = TRUE], u)
      ELSE IF outcome THEN quiet ELSE Phase(quiet, u, "idle")

\* _capture_closed
CaptureClosed(s, u) ==
  LET p == s.phrases[u]
      t == [s EXCEPT !.phrases[u].capture = FALSE, !.phrases[u].awaits = FALSE]
      settled == p.pending /\ ~p.job
      r == IF settled THEN KeepTail([t EXCEPT !.phrases[u].pending = FALSE], u, p.outcome)
           ELSE t
      dark == Dim([r EXCEPT !.phrases[u].shown = FALSE, !.phrases[u].outcome = FALSE])
  IN  IF settled /\ p.cancelled THEN Cancelled(t, u)
      ELSE IF Open(r) # {} \/ (p.phase = "processing" /\ ~p.shown) THEN r
      ELSE IF ~p.outcome /\ Ended(r, u) THEN Phase(dark, u, "idle")
      ELSE dark

-----------------------------------------------------------------------------
(* Timers.                                                                 *)

OtherOpen(s, u) == Open(s) \ {u} # {}

\* _cancel_timeout, after the phrase has ended.
CloseAudio(s, u) ==
  LET p == s.phrases[u]
  IN  IF ~p.pending THEN s
      ELSE IF p.gen # s.generation THEN FailRestarted(s, u)
      ELSE IF OtherOpen(s, u) THEN Later(s, u, "cancel")
      ELSE SendAudioClose(Later(s, u, "restart"), u)

\* _cancel_timeout: audio.close and then a restart, but never while another phrase
\* is recorded.
CancelTimeout(s, u) ==
  LET p == s.phrases[u]
      t == KeepTail(s, u, p.outcome)
      armed == Later(t, u, "restart")
  IN  IF ~p.pending THEN s
      ELSE IF p.gen # s.generation THEN FailRestarted(s, u)
      ELSE IF OtherOpen(s, u) THEN Later(t, u, "cancel")
      ELSE CloseAudio(IF Ended(s, u) THEN armed ELSE Finish(armed, u), u)

\* Mutated RestartAfterCancel: a new worker leaves nothing to do.
RestartAfterCancelDone(s, u, replaced) ==
  LET new == s.phrases[u].gen # s.generation
  IN  IF s.link = "restarting" \/ OtherOpen(s, u) \/ ~(new \/ replaced)
      THEN Later(s, u, "restart")
      ELSE IF new THEN s ELSE Cancelled(NextWorker(s), u)

\* _restart_after_cancel; replaced is FALSE when the old process does not exit.
RestartAfterCancel(s, u, replaced) ==
  LET new == s.phrases[u].gen # s.generation
  IN  IF s.link = "restarting" \/ OtherOpen(s, u) \/ ~(new \/ replaced)
      THEN Later(s, u, "restart")
      ELSE Cancelled(IF new THEN s ELSE NextWorker(s), u)

-----------------------------------------------------------------------------
(* Recording and recognizing.                                              *)

\* Mutated Asked: no watchdog.
AskedTrusting(s, u) ==
  IF Still(s, u, "processing")
  THEN Dim([s EXCEPT !.phrases[u].shown = s.phrases[u].capture])
  ELSE s

\* After recognize: the phrase has its watchdog, unless the request has ended it.
Asked(s, u) ==
  IF Still(s, u, "processing")
  THEN Dim([Later(s, u, "watchdog") EXCEPT !.phrases[u].shown = s.phrases[u].capture])
  ELSE s

\* _finish_recording from recognize on.
Recognize(s, u) ==
  IF ~Still(s, u, "processing") THEN s
  ELSE IF CanSend(s) THEN Asked(Ask(s, u, "recognize"), u)
  ELSE FailRecognition(s, u, FALSE)

\* _finish_recording: record.stop, unless the worker has stopped by itself, and
\* recognize; each may end the phrase, and without a worker the phrase fails.
FinishRecording(s, u, stopped) ==
  LET t == Phase([s EXCEPT !.phrases[u].tail = FALSE], u, "processing")
  IN  Recognize(IF stopped \/ ~CanSend(t) THEN t ELSE Sent(t), u)

\* _stop: a release leaves the recording a tail.
Stop(s, u, stopped, tail) ==
  IF ~Still(s, u, "recording") THEN s
  ELSE IF ~tail \/ stopped THEN FinishRecording(s, u, stopped)
  ELSE IF s.phrases[u].tail THEN s
  ELSE Later([s EXCEPT !.phrases[u].tail = TRUE], u, "tail")

TailElapsed(s, u) ==
  LET t == [s EXCEPT !.phrases[u].tail = FALSE]
  IN  IF s.phrases[u].tail /\ Still(s, u, "recording") THEN FinishRecording(t, u, FALSE) ELSE t

Fresh(s) == {u \in Ids : s.phrases[u].gen = 0}

\* _refuse_press: a recording that nobody has stopped or cancelled is cancelled, as
\* the hotkey has lost it; otherwise the press is forgotten.
RefusePress(s) ==
  LET lost == {u \in Recording(s) : Still(s, u, "recording") /\ ~s.phrases[u].tail}
  IN  IF s.hotkey.state = "idle" THEN s
      ELSE IF lost # {} THEN CancelOne(HotkeyCancel(s), Default(s))
      ELSE IF s.items = {} THEN HotkeyCancel(s)
      ELSE ReturnHotkey(s)

\* _new_context: contexts that wait for nothing are dropped, and forgotten.
NewContext(s, u) ==
  LET kept == {c \in s.contexts :
                 \/ c \in s.items \/ c = s.last \/ s.phrases[c].timers # {}
                 \/ s.phrases[c].pending \/ s.phrases[c].phase # "idle"}
  IN  [s EXCEPT !.contexts = kept \cup {u}, !.items = @ \cup {u}, !.last = u,
                !.phrases = [c \in DOMAIN @ |->
                   CASE c = u -> [Blank EXCEPT !.gen = s.generation]
                     [] c \in s.contexts \ kept -> [Blank EXCEPT !.gen = s.phrases[c].gen]
                     [] OTHER -> @[c]]]

\* After record.start: the indicator burns, and without one nothing is recorded.
Started(s, u, shown) ==
  LET lit == [s EXCEPT !.indicator = TRUE]
  IN  IF ~Still(s, u, "recording") THEN s
      ELSE IF shown THEN lit
      ELSE CancelOne(lit, Newest(lit))

\* _start_phrase; ready: the parameters are at hand, shown: so is an indicator.
StartPhrase(s, u, ready, shown) ==
  LET new == NewContext(s, u)
      rec == [Phase(new, u, "recording") EXCEPT !.phrases[u].capture = TRUE]
  IN  IF ready /\ CanSend(s) THEN Started(Ask(rec, u, "record.start"), u, shown)
      ELSE RefusePress(FailRecognition(IF ready THEN rec ELSE new, u, FALSE))

\* Whether _start finds a cancellation the worker of this generation has to acknowledge.
Owing(s) == \E c \in s.contexts : s.phrases[c].pending /\ s.phrases[c].gen = s.generation

\* _start, from the point where nothing is owed.
Start(s, ready, shown) ==
  LET t == [s EXCEPT !.phrases = [c \in DOMAIN @ |->
              IF c \notin s.contexts THEN @[c]
              ELSE IF c \in s.items THEN [@[c] EXCEPT !.pending = FALSE]
              ELSE [@[c] EXCEPT !.pending = FALSE, !.timers = {}, !.phase = "idle"]]]
  IN  StartPhrase(t, Min(Fresh(s)), ready, shown)

\* Mutated CanOverlap: a cancellation under way does not matter.
CanOverlapCancelling(s) ==
  /\ Cardinality({u \in s.items : ~s.phrases[u].delivered}) < MaxPending
  /\ Recording(s) = {}
  /\ \A u \in s.items : s.phrases[u].gen = s.generation

\* _can_overlap
CanOverlap(s) ==
  /\ Cardinality({u \in s.items : ~s.phrases[u].delivered}) < MaxPending
  /\ Recording(s) = {}
  /\ \A c \in s.contexts : ~s.phrases[c].pending
  /\ Open(s) = {}
  /\ \A u \in s.items : s.phrases[u].gen = s.generation

\* _start; KeyPress leaves every press a number within the bound.
Press(s, ready, shown) ==
  IF (s.items = {} \/ CanOverlap(s)) /\ ~Owing(s) /\ Fresh(s) # {}
  THEN Start(s, ready, shown)
  ELSE RefusePress(s)

-----------------------------------------------------------------------------
(* Delivery.                                                               *)

\* _attempt_paste up to the paste itself.
AttemptPaste(s, u) ==
  IF ~Still(s, u, "pasting") THEN s
  ELSE IF s.phrases[u].gen # s.generation THEN FailRestarted(s, u)
  ELSE IF OtherRecording(s, u) THEN [s EXCEPT !.phrases[u].waiting = TRUE]
  ELSE [s EXCEPT !.stack = <<[tag |-> "paste", uid |-> u]>> \o @]

\* _deliver_result
DeliverResult(s, u, result) ==
  IF result = "blank" THEN Finish(s, u) ELSE AttemptPaste(Phase(s, u, "pasting"), u)

\* Mutated InTurn: a result does not wait for older phrases.
InTurnAlways(s, u) == TRUE

\* No older phrase is at work.
InTurn(s, u) == s.items = {} \/ Min(s.items) = u

\* _result
Result(s, u, result) ==
  LET t == Keep(s, u, {})
  IN  IF InTurn(s, u) THEN DeliverResult(t, u, result)
      ELSE [t EXCEPT !.phrases[u].result = result]

\* A handler that ends with _pump.
Enter(s) ==
  IF Suspended(s) \/ Pumping(s) THEN s
  ELSE [s EXCEPT !.stack = <<[tag |-> "pump", uid |-> 0]>> \o @]

Top(tag) == stack # <<>> /\ stack[1].tag = tag
Return(s) == [s EXCEPT !.stack = Tail(@)]

\* The oldest phrase is delivered if its turn has come, or else the loop ends.
PumpTurn(s, u) ==
  LET p == s.phrases[u]
  IN  IF p.result # "none"
      THEN DeliverResult([s EXCEPT !.phrases[u].result = "none"], u, p.result)
      ELSE IF p.phase = "pasting" /\ p.waiting /\ Recording(s) = {}
      THEN AttemptPaste([s EXCEPT !.phrases[u].waiting = FALSE], u)
      ELSE Return(s)

\* One turn of the loop of _pump.
Pump ==
  /\ Top("pump") \/ Top("pumping")
  /\ LET s == [Now EXCEPT !.stack[1].tag = "pumping"]
     IN  Become(IF items = {} THEN Return(s) ELSE PumpTurn(s, Min(items)))

\* What a paste of u may come to: the text is typed or left in the clipboard, "unsent" is
\* WINDOW_CHANGED with keys-held or grab-refused; a second BUSY is a refusal.
Kinds(u) == {"pasted", "unsent", "refused"} \cup
            (IF phrases[u].retried THEN {} ELSE {"busy"})

\* The paste returns.
Paste ==
  /\ Top("paste")
  /\ \E kind \in Kinds(stack[1].uid) :
       LET u == stack[1].uid
           overlap == PressDeferred(Now) /\ hotkey.state = "idle"
           frame == [tag |-> "drain", uid |-> u, kind |-> kind,
                     overlap |-> overlap, before |-> contexts]
       IN  Become([Now EXCEPT
             !.stack = <<frame>> \o Tail(@),
             !.phrases[u].delivered = kind \in {"pasted", "unsent"},
             !.pasted = IF kind = "pasted" THEN Append(@, u) ELSE @])

\* A phrase begun by a deferred press has been cancelled.
OverlapCancelled ==
  stack[1].overlap \/ \E c \in contexts \ stack[1].before : phrases[c].cancelled

\* _attempt_paste after the deferred events.
Settled(s, u, kind) ==
  IF ~Still(s, u, "pasting") THEN s
  ELSE IF phrases[u].gen # generation THEN FailRestarted(s, u)
  ELSE IF kind = "unsent" /\ (OtherRecording(s, u) \/ OverlapCancelled)
  THEN [s EXCEPT !.phrases[u].delivered = FALSE, !.phrases[u].waiting = TRUE]
  ELSE IF kind = "busy"
  THEN Later([s EXCEPT !.phrases[u].retried = TRUE], u, "busy")
  ELSE Finish(s, u)

Settle ==
  /\ Top("drain") /\ deferred = <<>>
  /\ Become(Settled(Return(Now), stack[1].uid, stack[1].kind))

-----------------------------------------------------------------------------
(* Events.                                                                 *)

\* A phrase that the change of device has left too short: its capture is cancelled,
\* unless _begin_finish has done so.
CutShort(s, u) ==
  EndFinish(IF s.phrases[u].pending THEN s ELSE SendCancel(s, u), u)

\* _device_change: long, so that there is something to recognize, or not; a second change
\* finds the phrase no longer recorded.
DeviceChange(s, u, long) ==
  IF s.phrases[u].phase # "recording" THEN s
  ELSE IF long THEN Stop(s, u, TRUE, TRUE)
  ELSE CutShort(BeginFinish(s, u), u)

\* _worker_event, what ends a cancellation, a phrase or its job.
Ending(s, u, what) ==
  LET p == s.phrases[u]
      failed == what = "timeout" \/ what = "error"
  IN  IF what = "crashed" THEN FailRestarted(s, u)
      ELSE IF what = "cancelled" THEN Cancelled(s, u)
      ELSE IF what = "job cancelled" THEN CancelOne(s, u)
      ELSE IF what = "nothing to cancel"
      THEN CaptureClosed([s EXCEPT !.phrases[u].job = FALSE], u)
      ELSE IF failed /\ ~p.pending THEN FailRecognition(s, u, what = "timeout")
      ELSE s

\* _worker_event, what happens to a phrase at work.
Progress(s, u, what) ==
  IF s.phrases[u].pending \/ s.phrases[u].cancelled THEN s
  ELSE IF what \in {"changed", "changed early"} THEN DeviceChange(s, u, what = "changed")
  ELSE IF what = "limit" THEN Stop(s, u, TRUE, TRUE)
  ELSE IF what \in {"text", "blank"} /\ s.phrases[u].phase = "processing"
  THEN Result(s, u, what)
  ELSE s

Endings == {"crashed", "cancelled", "job cancelled", "nothing to cancel", "timeout", "error"}

\* _worker_event, in the context of the phrase u.
WorkerEvent(s, u, e) ==
  LET p == s.phrases[u]
      stale == e.gen < p.gen \/ e.uid \notin {0, u}
      new == p.gen # s.generation
  IN  IF (Ended(s, u) /\ ~p.pending) \/ (stale /\ ~new) THEN s
      ELSE IF new \/ e.what \in Endings
      THEN Ending(s, u, IF new THEN "crashed" ELSE e.what)
      ELSE Progress(s, u, e.what)

UserEvents == {"press", "release", "limit reached", "tap", "escape", "indicators"}

\* The phrase a cancellation of the user is about: Escape, the pill and the tray cancel
\* the newest one, a tap and a loss of the indicators the one that is recorded.
CancelledBy(s, what) == IF what = "escape" THEN Default(s) ELSE Newest(s)

\* on_hotkey_state and cancel.
UserEvent(s, what, ready, shown) ==
  IF what = "press" THEN Press(s, ready, shown)
  ELSE IF what \in {"release", "limit reached"}
  THEN Stop(s, Newest(s), FALSE, what = "release")
  ELSE IF what = "tap" /\ Recording(s) = {} THEN s
  ELSE CancelOne(s, CancelledBy(s, what))

\* on_worker_event, on_hotkey_state, cancel: at once, or when the paste is over.
Hear(s, e, ready, shown) ==
  IF s.link = "terminated" THEN s
  ELSE IF Suspended(s) THEN Defer(s, e)
  ELSE IF e.what \in UserEvents THEN UserEvent(Enter(s), e.what, ready, shown)
  ELSE WorkerEvent(Enter(s), Route(s, e.uid), e)

\* Whether the socket breaks at the next request, and restarts the worker in it.
Faults ==
  {"none"} \cup {f \in Breaks : link = "up" /\ (f = "now" => generation < GenerationLimit)}

\* The event loop runs.
Free == (stack = <<>> \/ Top("paste")) /\ Len(deferred) < DeferLimit

\* Something calls the queue, with or without a fault of the socket.
Call(Op(_)) == \E fault \in Faults : Become(Op([Now EXCEPT !.fault = fault]))

\* The next of the deferred events; a press that Escape has taken back is stale.
Drain ==
  /\ Top("drain") /\ deferred # <<>>
  /\ LET e == Head(deferred)
         rest(s) == [s EXCEPT !.deferred = Tail(@), !.stack[1].overlap = OverlapCancelled]
     IN  IF e.what = "press" /\ hotkey.state = "idle" THEN Become(rest(Now))
         ELSE \E ready, shown \in BOOLEAN :
                Call(LAMBDA s : Hear(rest(s), e, ready, shown))

-----------------------------------------------------------------------------
(* The user.                                                               *)

\* HotkeyFsm.press, but for the press that ends a toggled recording.
KeyPress ==
  /\ Free /\ hotkey.state \in {"idle", "processing"} /\ link # "terminated"
  /\ generation <= PressLimit
  /\ Cardinality({i \in DOMAIN deferred : deferred[i].what = "press"}) < Cardinality(Fresh(Now))
  /\ \E ready, shown \in BOOLEAN :
       Call(LAMBDA s : Hear(SetHotkey(s, "recording", hotkey.state = "processing"),
                            Due("press"), ready, shown))

\* HotkeyFsm.stop: a release, the second press of a toggle, the limit of a phrase.
KeyStop(why) ==
  /\ Free /\ hotkey.state = "recording"
  /\ Call(LAMBDA s : Hear(SetHotkey(s, "processing", FALSE), Due(why), TRUE, TRUE))

\* HotkeyFsm.release before PTT_THRESHOLD_S.
KeyTap ==
  /\ Free /\ hotkey.state = "recording"
  /\ Call(LAMBDA s : Hear(SetHotkey(s, IF hotkey.overlap THEN "processing" ELSE "idle", FALSE),
                          Due("tap"), TRUE, TRUE))

\* HotkeyFsm.escape
KeyEscape ==
  /\ Free /\ hotkey.state # "idle"
  /\ Call(LAMBDA s : Hear(SetHotkey(s, "idle", FALSE), Due("escape"), TRUE, TRUE))

\* The pill, the tray, the guard of the indicators.
Click(what) ==
  /\ Free /\ items # {}
  /\ Call(LAMBDA s : Hear(s, Due(what), TRUE, TRUE))

-----------------------------------------------------------------------------
(* Timers.                                                                 *)

Fired(s, u, timer, replaced) ==
  CASE timer = "tail"     -> TailElapsed(s, u)
    [] timer = "watchdog" -> FailRecognition(s, u, TRUE)
    [] timer = "busy"     -> AttemptPaste(s, u)
    [] timer = "done"     -> Phase(s, u, "idle")
    [] timer = "cancel"   -> CancelTimeout(s, u)
    [] timer = "restart"  -> RestartAfterCancel(s, u, replaced)

Fire(u, timer, replaced) ==
  /\ Free /\ timer \in phrases[u].timers
  /\ replaced => timer = "restart" /\ generation < GenerationLimit
  /\ Call(LAMBDA s : Fired(Enter([s EXCEPT !.phrases[u].timers = @ \ {timer}]),
                           u, timer, replaced))

-----------------------------------------------------------------------------
(* The worker and its supervisor.                                          *)

Hello ==
  /\ Free /\ link = "starting"
  /\ Become([Hear(Now, Said("hello", 0, generation), TRUE, TRUE) EXCEPT !.link = "up"])

\* Only a closed capture is recognized, and only then is a cancellation acknowledged
\* (WorkerState, EventsHavePcm and AckBarrier).
AnswersTo(u, request) ==
  {"timeout"} \cup
  CASE request = "record.start"  -> IF source[u] = "open" THEN {"error"} ELSE {}
    [] request = "record.stop"   -> {"error", "nothing to stop"}
    [] request = "recognize"     -> {"job cancelled", "error"} \cup
                                    (IF source[u] = "open" THEN {} ELSE {"text", "blank"})
    [] request = "record.cancel" -> IF source[u] = "open" THEN {"error"}
                                    ELSE {"cancelled", "nothing to cancel", "error"}

\* Requests that a wait stands for.
Meant(request) ==
  IF request = "recognize" THEN {"record.start", "record.stop", "recognize"} ELSE {request}

\* Waits left by the answer to one of them (Supervisor, AcceptAnswer).
Answered(u, request, meant, what) ==
  IF meant # request THEN waits[u]
  ELSE IF what = "timeout" \/ (what = "error" /\ request # "recognize")
  THEN waits[u] \ {request}
  ELSE waits[u] \cap ({"record.cancel"} \ {request})

Answer(u, request) ==
  /\ Free /\ link = "up" /\ request \in waits[u]
  /\ \E meant \in Meant(request) : \E what \in AnswersTo(u, meant) :
       Call(LAMBDA s : Hear(
         [s EXCEPT !.waits[u] = Answered(u, request, meant, what),
                   !.source[u] = IF meant = "record.start" /\ what = "error" THEN "told" ELSE @],
         Said(what, u, generation), TRUE, TRUE))

\* Waits left by an event of the capture: an error is heard only while a request of u
\* waits, and may settle it if it is the only one.
LeftBy(u, what) ==
  IF what # "error" THEN {waits[u]}
  ELSE IF waits[u] = {} THEN {}
  ELSE {waits[u]} \cup
       (IF Cardinality(waits[u]) = 1 THEN {waits[u] \cap {"record.cancel"}} ELSE {})

\* The capture fails, or stops by itself and goes on closing.
CaptureEvent(u) ==
  /\ Free /\ link = "up" /\ source[u] = "open"
  /\ \E what \in {"error", "changed", "changed early", "limit"} :
       \E kept \in LeftBy(u, what) :
         Call(LAMBDA s : Hear(
           [s EXCEPT !.source[u] = IF what = "error" THEN "closed" ELSE @, !.waits[u] = kept],
           Said(what, u, generation), TRUE, TRUE))

Close(u) ==
  /\ source[u] = "open"
  /\ Become([Now EXCEPT !.source[u] = IF link = "up" THEN "closed" ELSE "told"])

\* record.stopped, which is never deferred.
Stopped(u) ==
  /\ Free /\ link = "up" /\ source[u] = "closed"
  /\ Call(LAMBDA s :
       LET t == Enter([s EXCEPT !.source[u] = "told"])
       IN  IF u \in contexts /\ phrases[u].gen = generation THEN CaptureClosed(t, u) ELSE t)

\* The answer to audio.close, which is not deferred either; or an error, which is dropped.
HearClosed(s, c) ==
  IF s.phrases[c].awaits /\ s.phrases[c].gen = s.generation THEN CaptureClosed(s, c) ELSE s

AudioClosed ==
  /\ Free /\ link = "up" /\ closing
  /\ \/ Become([Now EXCEPT !.closing = FALSE])
     \/ /\ \A u \in Ids : source[u] # "open"
        /\ Call(LAMBDA s : InOrder(HearClosed, [s EXCEPT !.closing = FALSE], contexts))

\* The worker crashes or hangs.
Crash ==
  /\ Free /\ link \in {"starting", "up"} /\ generation < GenerationLimit
  /\ Become(Restarting(Now))

Relaunch ==
  /\ Free /\ link = "restarting" /\ generation < GenerationLimit
  /\ Become(Relaunched(Enter(Now)))

\* The supervisor has no restart left: losses, of a crash or of a hang, and its own error.
HearExit(s, u) == Hear(s, Said("crashed", u, s.generation), TRUE, TRUE)

GiveUp ==
  /\ Free /\ link = "restarting"
  /\ \E what \in {"crashed", "error"} :
       LET s == [Now EXCEPT !.link = "stopped", !.waits = NoWaits, !.source = Silenced(Now)]
       IN  Become(Hear(InOrder(HearExit, s, Waiting(Now)), Said(what, 0, generation), TRUE, TRUE))

\* worker_terminated: the protocols do not match, nothing will be acknowledged.
Terminate ==
  LET dead(p) == [p EXCEPT !.cancelled = TRUE, !.pending = FALSE, !.job = FALSE,
                           !.capture = FALSE, !.awaits = FALSE, !.shown = FALSE,
                           !.tail = FALSE, !.outcome = FALSE, !.result = "none",
                           !.waiting = FALSE, !.phase = "idle", !.timers = {}]
  IN  /\ Free /\ link = "starting"
      /\ Become([SetHotkey(Now, "idle", FALSE) EXCEPT
            !.link = "terminated", !.waits = NoWaits, !.closing = FALSE,
            !.source = Silenced(Now), !.items = {}, !.deferred = <<>>, !.indicator = FALSE,
            !.phrases = [u \in DOMAIN @ |-> IF u \in contexts THEN dead(@[u]) ELSE @[u]]])

\* cleanup_pending
CleanupPending ==
  Open(Now) # {} \/ \E c \in contexts : phrases[c].pending \/ phrases[c].tail

\* restart_worker: the user revives a worker, or changes the model between phrases.
RestartWorker ==
  /\ Free /\ generation < GenerationLimit
  /\ \/ link \in {"stopped", "terminated"}
     \/ link # "restarting" /\ items = {} /\ ~CleanupPending
  /\ Become(NextWorker(Now))

-----------------------------------------------------------------------------
User ==
  \/ KeyPress \/ KeyTap \/ KeyEscape
  \/ \E why \in {"release", "limit reached"} : KeyStop(why)
  \/ \E what \in {"escape", "indicators"} : Click(what)

Time == \E u \in Ids, timer \in Timers, replaced \in BOOLEAN : Fire(u, timer, replaced)

Worker ==
  \/ Hello \/ Crash \/ Relaunch \/ GiveUp \/ Terminate \/ RestartWorker \/ AudioClosed
  \/ \E u \in Ids : CaptureEvent(u) \/ Close(u) \/ Stopped(u)
                   \/ \E request \in Requests : Answer(u, request)

Unwind == Pump \/ Paste \/ Drain \/ Settle

Next == User \/ Time \/ Worker \/ Unwind

Spec == Init /\ [][Next]_vars

\* When a timer does something, whatever other phrases do.
CanFire(u, timer) ==
  /\ Free /\ timer \in phrases[u].timers
  /\ timer \in {"cancel", "restart"} => ~OtherOpen(Now, u)
  /\ timer = "restart" => link # "restarting" /\ generation < GenerationLimit

Timeout(u) == \E timer \in Timers : CanFire(u, timer) /\ Fire(u, timer, timer = "restart")

\* What one thread with an event loop and timers of Qt guarantees: nested calls return
\* (a paste has timeouts of its own), the limit of a phrase is reached, timers fire,
\* and a process that is killed exits in the end.  Of the worker only that it tells of
\* a capture it has closed.  SF and WF with their ENABLED written out.
Fairness ==
  /\ <>[](stack # <<>>) => []<><<Unwind>>_vars
  /\ []<>(link = "restarting" /\ Free) => []<><<Relaunch \/ GiveUp>>_vars
  /\ []<>(Free /\ hotkey.state = "recording") => []<><<KeyStop("limit reached")>>_vars
  /\ \A u \in Ids :
       /\ []<>(Free /\ link = "up" /\ source[u] = "closed") => []<><<Stopped(u)>>_vars
       /\ []<>(\E timer \in Timers : CanFire(u, timer)) => []<><<Timeout(u)>>_vars

FairSpec == Spec /\ Fairness

-----------------------------------------------------------------------------
(* Properties.                                                             *)

\* Every variable has its type.
TypeOK ==
  /\ items \subseteq contexts /\ contexts \subseteq 0..PhraseLimit /\ last \in contexts
  /\ \A u \in 0..PhraseLimit :
       /\ phrases[u].phase \in Phases /\ phrases[u].timers \subseteq Timers
       /\ phrases[u].gen \in 0..generation
       /\ u \in items <=> phrases[u].phase \in {"recording", "processing", "pasting"}
  /\ hotkey.state \in {"idle", "recording", "processing"}
  /\ generation \in 1..GenerationLimit
  /\ link \in {"starting", "up", "restarting", "stopped", "terminated"}
  /\ waits \in [Ids -> SUBSET (Requests \cup {"lost"})]
  /\ source \in [Ids -> {"none", "open", "closed", "told"}]

\* The queue never asks for a second capture while one may be open.
OneCapture == Cardinality({u \in Ids : source[u] = "open"}) <= 1

\* While a capture of a running worker may be open, the user is shown an indicator.
IndicatorLit == (\E u \in Ids : source[u] = "open") => indicator

\* Whoever records can be stopped: the key still knows of the recording.
KeyKnows ==
  stack = <<>> =>
    \A u \in items : Still(Now, u, "recording") /\ ~phrases[u].tail
                      => hotkey.state = "recording"

\* A cancellation that blocks new phrases has a timer that ends it.
NoOrphanWait ==
  \A c \in contexts : phrases[c].pending /\ phrases[c].gen = generation
     => phrases[c].timers \cap {"cancel", "restart"} # {}

\* Texts are pasted in the order of the presses, and none twice.
PastesInOrder == \A i, j \in DOMAIN pasted : i < j => pasted[i] < pasted[j]

\* A key that is at rest when nothing is at work: no press is taken for a stop.
KeyRests == stack = <<>> /\ items = {} => hotkey.state = "idle"

\* The indicator burns only for a capture that may be open, or for one that died with
\* its process when its phrase has yet to find this out, by a timer if it has ended.
IndicatorDims ==
  LET finds(c) == c \in items \/ phrases[c].timers \cap {"cancel", "restart"} # {}
  IN  stack = <<>> /\ indicator =>
        \E c \in contexts : phrases[c].capture /\ (phrases[c].gen = generation \/ finds(c))

\* The indicator tells the truth about the microphone.
IndicatorTrue == IndicatorLit /\ IndicatorDims

\* The hotkey's automaton agrees with the queue, though refusals, timeouts and losses
\* of the worker move one without the other.
KeyAgrees == KeyKnows /\ KeyRests

\* A phrase leaves the queue whatever the worker does.
PhrasesEnd == \A u \in Ids : u \in items ~> u \notin items

\* The microphone is given back whatever the worker does: it closes the capture, or
\* its process is replaced.
MicrophoneReleased == \A u \in Ids : source[u] = "open" ~> source[u] # "open"

\* A cancellation does not block new phrases for ever.
Owes(u) == phrases[u].pending /\ phrases[u].gen = generation
CleanupSettles == \A u \in Ids : Owes(u) ~> ~Owes(u)

\* What a phrase leaves behind is cleared whatever the worker does: the open capture
\* and the cancellation that blocks new phrases.
NothingLeftBehind == MicrophoneReleased /\ CleanupSettles
=============================================================================
