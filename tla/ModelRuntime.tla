----------------------------- MODULE ModelRuntime -----------------------------
(***************************************************************************)
(* The model in the memory of the worker, as DictationRuntime keeps it     *)
(* (runtime.py): loading and its self-check, unloading after idleness and  *)
(* waking by the key, switching to another model beside the working one or *)
(* with a pause, and the replacement of a worker that failed.              *)
(*                                                                         *)
(* All of it runs in one thread, as nested calls: a handler is a function  *)
(* from the state of the runtime to the next one, and luck says what its   *)
(* calls of the outer world come to.  The supervisor calls back at once;   *)
(* a request that waits when a worker is lost is answered when the exit    *)
(* of the process is known.  Time is abstracted to timers that may fire.   *)
(***************************************************************************)
EXTENDS Naturals, Sequences

CONSTANTS
  Models,           \* revisions that can be chosen
  None,
  GenerationLimit,  \* bound: processes of the worker
  FlawLimit         \* bound: calls of the outer world that fail

VARIABLE rt         \* the runtime, its worker and its candidate

NoSwitch == [on |-> FALSE, paused |-> FALSE, promoted |-> FALSE, sent |-> FALSE, target |-> None]
NoLoss == [gen |-> 0, job |-> "none", late |-> FALSE]

Init ==
  \E m \in Models : rt =
    [gen |-> 1, sup |-> "starting",    \* supervisor: generation and state; starting until its hello
     job |-> "none", has |-> None,     \* the request of the model that waits in it, the model in its memory
     lost |-> NoLoss,                  \* _restart_pending of the supervisor
     term |-> 0,                       \* _terminated_generation
     loading |-> FALSE, loadGen |-> 0, req |-> None, fails |-> 0,
     check |-> "idle", tries |-> 0,    \* _selfcheck, _selfcheck_attempts
     parked |-> FALSE, wake |-> FALSE, wakeGen |-> 0,
     test |-> FALSE,                   \* _pending_test
     pend |-> "none",                  \* _pending_switch
     sw |-> NoSwitch, cand |-> None, loaded |-> FALSE,
     phase |-> "idle", cleanup |-> FALSE, key |-> "idle",
     cur |-> m, prior |-> m, asked |-> FALSE, \* the chosen model; the service waits for on_switch_finished
     revoked |-> {},
     flaws |-> 0]

\* What the calls of the outer world come to: the worker's exit is confirmed, the request is
\* sent or the candidate started, the service puts the former model back
Good == [exit |-> TRUE, send |-> TRUE, restore |-> TRUE]
Luck == {Good} \union IF rt.flaws >= FlawLimit THEN {} ELSE
  {[Good EXCEPT !.exit = FALSE], [Good EXCEPT !.send = FALSE], [Good EXCEPT !.restore = FALSE]}
Become(c, r) == rt' = [r EXCEPT !.flaws = IF c = Good THEN @ ELSE @ + 1]

-----------------------------------------------------------------------------
(* Small steps of the handlers.                                            *)

\* _resolve_model_request; a revoked model is none
Resolve(r) == IF r.cur \in r.revoked THEN None ELSE r.cur
Terminal(r) == r.term = r.gen

\* send of the supervisor
Sends(r, c) == c.send /\ r.sup \in {"starting", "running"} /\ r.job = "none"

DropWake(r) ==
  [r EXCEPT !.wake = FALSE, !.key = IF r.wake /\ r.phase = "idle" THEN "idle" ELSE @]
\* Mutant: the press goes on waiting
FailTestAlone(r) == [r EXCEPT !.test = FALSE]
FailTest(r) == [DropWake(r) EXCEPT !.test = FALSE]
\* Mutant: what was tested before stays tested
ResetSelfcheckOnRetry(r, retry) == IF retry THEN [r EXCEPT !.check = "retrying"] ELSE r
ResetSelfcheck(r, retry) ==
  [r EXCEPT !.check = IF retry THEN "retrying" ELSE "idle", !.tries = IF retry THEN @ ELSE 0]
ShowLoadFailed(r) == FailTest([r EXCEPT !.check = "failed", !.loading = FALSE])

\* The end of a switch: its candidate is stopped and the service is told; after a failure the
\* service puts the former model back
FinishSwitch(r, result, c) ==
  IF ~r.sw.on \/ result = "none" THEN r ELSE
  [(IF result = "ok" THEN r ELSE DropWake(r)) EXCEPT
     !.sw = NoSwitch, !.cand = None, !.loaded = FALSE, !.asked = FALSE,
     !.cur = IF result # "ok" /\ r.asked /\ c.restore THEN r.prior ELSE @]

\* _replace_worker without start: nothing is replaced until the exit of the process is known
Stopped(r) == [r EXCEPT !.sup = "stopped", !.job = "none", !.lost = NoLoss]
Replaced(r) ==
  [Stopped(r) EXCEPT !.gen = r.gen + 1, !.sup = "starting", !.has = None, !.loadGen = 0]
CanReplace(r, c) == c.exit /\ r.gen < GenerationLimit

\* restart_worker up to the replacement; kind tells who calls it: the user or the timers (plain,
\* and wait for a model), the idle time (park), a switch, or the retry of a self-check
Quieted(r, kind) ==
  [(IF kind = "retry" THEN r ELSE [DropWake(r) EXCEPT !.wakeGen = 0]) EXCEPT !.term = 0, !.parked = kind = "park"]
Prepared(r, kind, c) ==
  ResetSelfcheck([FinishSwitch(Quieted(r, kind), IF kind \in {"switch", "retry"} THEN "none" ELSE "failed", c) EXCEPT
                    !.loading = kind \in {"wait", "switch", "retry"} \/ r.check = "failed"], kind = "retry")
Launch(r, kind, c) ==
  IF CanReplace(r, c) THEN [Replaced(r) EXCEPT !.fails = IF kind = "retry" THEN @ ELSE 0]
  ELSE IF kind = "retry" THEN Stopped(r) ELSE ShowLoadFailed(Stopped(r))

\* restart_worker raises: the worker is restarting, or its exit is not confirmed
Raises(r, c) == r.sup = "restarting" \/ ~CanReplace(r, c)
Restart(r, kind, c) == IF r.sup = "restarting" THEN r ELSE Launch(Prepared(r, kind, c), kind, c)

\* _fail_switch: the switch ends, and if its worker was stopped, the former model is brought
\* back; whether that has begun is its result
FormerStopped(r) == r.sw.promoted \/ r.sw.paused
BringBack(ended, goes, c) ==
  [state |-> IF goes THEN Restart(ended, "wait", c) ELSE ended, back |-> goes /\ ~Raises(ended, c)]
Ended(ended, r, c) == BringBack(ended, FormerStopped(r) /\ r.sw.on /\ Resolve(ended) \notin {None, r.sw.target}, c)
FailSwitch(r, result, c) == Ended(FinishSwitch(r, result, c), r, c)

\* What follows a switch that failed: nothing if the former model works or comes back
Otherwise(failed, r) == IF failed.back \/ ~FormerStopped(r) THEN failed.state ELSE ShowLoadFailed(failed.state)

\* _reject_switch_revision: a worker with a revoked model is stopped
Rejected(failed, r) ==
  IF failed.back \/ ~FormerStopped(r) THEN failed.state ELSE ShowLoadFailed(Stopped(failed.state))
RejectSwitch(r, c) == Rejected(FailSwitch(r, "failed", c), r)

\* _reject_loaded_revision, with _model_revoked
Refused(r, c) == IF CanReplace(r, c) THEN Replaced(r) ELSE Stopped(r)
RejectLoaded(r, c) ==
  IF r.sw.on THEN RejectSwitch(r, c)
  ELSE Refused(FailTest([r EXCEPT !.check = "failed", !.wakeGen = 0, !.parked = FALSE, !.loading = FALSE]), c)

-----------------------------------------------------------------------------
(* The self-check.                                                         *)

Checks(r) == r.check \in {"running", "retrying"}

\* _loaded_revision_allowed, for the model that is loaded
\* Mutant: it was checked before the load
LoadedAllowedBefore(r) == TRUE
LoadedAllowed(r) == r.req \notin r.revoked

\* a verdict without another attempt
Failing(r) == FailTest([r EXCEPT !.loading = FALSE])
Judged(failed) == IF failed.back THEN failed.state ELSE Failing(failed.state)
CheckFailed(r, result, c) ==
  IF ~Checks(r) THEN r
  ELSE IF r.sw.on /\ r.cand = None THEN Judged(FailSwitch([r EXCEPT !.check = "failed", !.wakeGen = 0], result, c))
  ELSE Failing([r EXCEPT !.check = "failed", !.wakeGen = 0])

\* a timeout or a cancellation is tried once more, in a new process
Again(r, c) ==
  IF r.gen # r.loadGen THEN r
  ELSE IF Raises(r, c) THEN CheckFailed(Restart(r, "retry", c), "failed", c)
  ELSE Restart(r, "retry", c)
CheckBroken(r, c) ==
  IF ~Checks(r) THEN r
  ELSE IF r.tries # 1 THEN CheckFailed(r, "too-slow", c)
  ELSE Again([r EXCEPT !.check = "retrying", !.tries = 2, !.loading = TRUE], c)

\* _declare_model_ready and _start_after_ready: a press that still holds the key begins to
\* record, the pending test begins
Starts(r) == r.wake /\ r.phase = "idle" /\ r.key = "recording"
Ready(r) ==
  [r EXCEPT !.loading = FALSE, !.fails = 0, !.wake = FALSE, !.wakeGen = 0, !.test = FALSE,
            !.phase = IF Starts(r) THEN "busy" ELSE @,
            !.key = IF r.phase = "idle" /\ ~Starts(r) THEN "idle" ELSE @]
Passed(r, c) ==
  FinishSwitch(IF Terminal(r) THEN r ELSE Ready(r), IF r.cand = None THEN "ok" ELSE "none", c)
CheckOk(r, c) ==
  IF ~Checks(r) THEN r
  ELSE IF LoadedAllowed(r) THEN Passed([r EXCEPT !.check = "ok"], c)
  ELSE RejectLoaded([r EXCEPT !.check = "ok"], c)

\* model.loaded begins the self-check
Begun(r, c) == IF Sends(r, c) THEN [r EXCEPT !.job = "file"] ELSE CheckFailed(r, "failed", c)
StartSelfcheck(r, c) ==
  IF LoadedAllowed(r) THEN Begun([r EXCEPT !.check = "running", !.tries = IF @ = 0 THEN 1 ELSE @], c)
  ELSE RejectLoaded(r, c)

-----------------------------------------------------------------------------
(* Loading.                                                                *)

\* A load that fails: the switch fails, or whoever waits for the model; count tells whether it
\* counts as an attempt
Retried(r, c) == IF r.check = "retrying" THEN CheckFailed(r, "failed", c) ELSE r
Unloaded(failed, count, c) ==
  IF failed.back THEN failed.state
  ELSE Retried([Failing(failed.state) EXCEPT !.fails = @ + count], c)
LoadRefused(r, count, c) == Unloaded(FailSwitch(r, "failed", c), count, c)

Ask(r, c) ==
  IF r.fails >= 2 THEN Judged(FailSwitch(r, "failed", c))
  ELSE IF Resolve(r) = None THEN LoadRefused(r, 0, c)
  ELSE IF Sends(r, c)
  THEN [r EXCEPT !.loading = TRUE, !.loadGen = r.gen, !.req = r.cur, !.job = "load", !.sw.sent = @ \/ r.sw.paused]
  ELSE LoadRefused([r EXCEPT !.loading = TRUE, !.loadGen = r.gen, !.req = r.cur], 1, c)
LoadModel(r, c) ==
  IF Terminal(r) \/ r.parked THEN r
  ELSE IF r.loadGen = r.gen \/ r.check = "failed" THEN FailSwitch(r, "failed", c).state
  ELSE Ask([ResetSelfcheck(r, r.check = "retrying") EXCEPT !.loading = FALSE], c)

\* _wake_model: TRUE if the load goes on
Woken(r) == [state |-> r, woken |-> TRUE]
Asleep(r) == [state |-> r, woken |-> FALSE]
RestartedAwake(r) ==
  IF r.sup = "stopped" THEN Asleep(FailTest([r EXCEPT !.parked = TRUE, !.loading = FALSE, !.wakeGen = 0]))
  ELSE Woken([r EXCEPT !.wakeGen = r.gen])
LoadedAwake(r) == IF r.loading THEN Woken([r EXCEPT !.wakeGen = r.gen]) ELSE Asleep([r EXCEPT !.parked = TRUE])
Rouse(r, c) == IF r.sup = "stopped" THEN RestartedAwake(Restart(r, "wait", c)) ELSE LoadedAwake(LoadModel(r, c))
WakeModel(r, c) ==
  IF ~r.parked \/ Terminal(r) \/ r.sw.on THEN Asleep(r)
  ELSE IF r.sup = "restarting" THEN Asleep(FailTest(r))
  ELSE Rouse([r EXCEPT !.parked = FALSE, !.fails = 0, !.loadGen = 0], c)

-----------------------------------------------------------------------------
(* Switching.                                                              *)

\* A model that was unloaded is replaced with a pause
\* Mutant: the candidate comes beside the empty worker
PausesAsAsked(r, pause) == pause
Pauses(r, pause) == pause \/ r.parked
SwitchPaused(r, c) ==
  IF Raises(r, c) THEN Otherwise(FailSwitch(Restart(r, "switch", c), "failed", c), r) ELSE Restart(r, "switch", c)
SwitchBeside(r, c) ==
  IF ~c.send \/ r.gen >= GenerationLimit THEN FinishSwitch(r, "failed", c)
  ELSE [r EXCEPT !.cand = [gen |-> r.gen + 1, job |-> "hello", model |-> r.cur]]
Switching(r) == [r EXCEPT !.sw = [NoSwitch EXCEPT !.on = TRUE, !.target = r.cur]]
BeginSwitch(r, pause, c) ==
  IF Resolve(r) = None THEN FinishSwitch(Switching(r), "failed", c)
  ELSE IF Pauses(r, pause) THEN SwitchPaused([Switching(r) EXCEPT !.sw.paused = TRUE], c)
  ELSE SwitchBeside(Switching(r), c)

\* The candidate takes the place of the worker.  Another thread may publish a revocation while
\* the former worker is being stopped
InPlace(r) ==
  [ResetSelfcheck(r, FALSE) EXCEPT
     !.gen = r.cand.gen, !.sup = "running", !.job = "none", !.lost = NoLoss, !.has = r.cand.model,
     !.cand = None, !.loaded = FALSE, !.sw.promoted = TRUE, !.parked = FALSE,
     !.loading = TRUE, !.loadGen = r.cand.gen, !.req = r.cand.model, !.fails = 0]
RevokedLate(r) == [Stopped(r) EXCEPT !.has = None, !.sw.paused = TRUE, !.revoked = @ \union {r.cand.model}]
Promote(r, late, c) ==
  IF r.cleanup \/ r.sup = "restarting" \/ r.cand = None \/ ~r.loaded \/ r.phase # "idle" THEN r
  ELSE IF r.cand.model \in r.revoked THEN RejectSwitch(r, c)
  ELSE IF ~c.exit THEN ShowLoadFailed(FinishSwitch(Stopped(r), "failed", c))
  ELSE IF late THEN RejectSwitch(RevokedLate(r), c)
  ELSE StartSelfcheck(InPlace(r), c)

\* _run_pending_switch: the end of the last phrase or cleanup lets the switch go on
Continue(r, c) ==
  IF r.phase # "idle" \/ r.pend = "none" THEN r ELSE BeginSwitch([r EXCEPT !.pend = "none"], r.pend = "pause", c)
RunPending(r, late, c) ==
  IF Terminal(r) \/ r.cleanup \/ r.sup = "restarting" THEN r ELSE Continue(Promote(r, late, c), c)
Onward(r, c) == IF r.phase = "idle" /\ (r.pend # "none" \/ r.loaded) THEN RunPending(r, FALSE, c) ELSE r

-----------------------------------------------------------------------------
(* The user.                                                               *)

\* start_test: a model that is not ready is loaded first
TestAwake(woken) == IF woken.woken THEN woken.state ELSE FailTest(woken.state)
ForTest(r, c) ==
  IF r.loading /\ r.cur = r.req THEN r
  ELSE IF r.parked THEN TestAwake(WakeModel(r, c))
  ELSE IF Raises(r, c) THEN FailTest(Restart(r, "wait", c)) ELSE Restart(r, "wait", c)
StartTest ==
  /\ ~Terminal(rt) /\ ~rt.test /\ rt.phase = "idle"
  /\ Resolve(rt) # None /\ ~(rt.check = "failed" /\ rt.cur = rt.req)
  /\ ~(rt.check = "ok" /\ ~rt.loading /\ rt.cur = rt.req)
  /\ \E c \in Luck : Become(c, ForTest([rt EXCEPT !.test = TRUE], c))
CancelTest == rt.test /\ rt' = [rt EXCEPT !.test = FALSE]

\* reload_model
\* Mutant: it does not ask whether the worker may come back
ReloadAnyway ==
  /\ rt.sup # "restarting" /\ ~(rt.cur = rt.req /\ rt.check = "ok" /\ ~rt.loading)
  /\ \E c \in Luck : Become(c, Restart(rt, "wait", c))
Reload ==
  /\ ~Terminal(rt) /\ rt.sup # "restarting"
  /\ ~(rt.cur = rt.req /\ rt.check = "ok" /\ ~rt.loading)
  /\ \E c \in Luck : Become(c, Restart(rt, "wait", c))

\* _recheck_model: "check the model again" of the tray
CheckAnew(r, c) ==
  IF Raises(r, c)
  THEN CheckFailed([Restart(r, IF Terminal(r) THEN "wait" ELSE "plain", c) EXCEPT !.check = "running", !.tries = 1],
                   "failed", c)
  ELSE Restart(r, IF Terminal(r) THEN "wait" ELSE "plain", c)
Recheck ==
  /\ Terminal(rt) \/ rt.check = "failed"
  /\ \E c \in Luck : Become(c, CheckAnew([rt EXCEPT !.key = "idle"], c))

\* The service has written another model into current.json and asks for the switch
AskSwitch(r, pause, c) ==
  IF Terminal(r) THEN [r EXCEPT !.cur = IF c.restore THEN r.prior ELSE @, !.asked = FALSE]
  ELSE IF r.phase # "idle" \/ r.cleanup \/ r.sup = "restarting"
  THEN [r EXCEPT !.pend = IF pause THEN "pause" ELSE "beside"]
  ELSE BeginSwitch(r, pause, c)
Switch(m, pause) ==
  /\ ~rt.asked /\ m # rt.cur /\ m \notin rt.revoked
  /\ \E c \in Luck :
       Become(c, AskSwitch([rt EXCEPT !.cur = m, !.prior = rt.cur, !.asked = TRUE], pause, c))

\* _on_hotkey_state for a press of a key that is held (mode ptt)
Waits(woken) == IF woken.woken THEN [woken.state EXCEPT !.wake = TRUE] ELSE [woken.state EXCEPT !.key = "idle"]
Pressed(r, c) ==
  IF r.check = "failed" THEN r
  ELSE IF r.parked THEN IF r.sw.on THEN [r EXCEPT !.wake = TRUE] ELSE Waits(WakeModel(r, c))
  ELSE IF r.fails >= 2 /\ ~r.loading THEN LoadModel([r EXCEPT !.fails = 0, !.loadGen = 0], c)
  ELSE IF r.loading \/ r.check = "retrying" THEN r
  ELSE IF r.sup = "running" THEN [r EXCEPT !.phase = "busy"] ELSE [r EXCEPT !.key = "idle"]
Press ==
  /\ rt.key = "idle" /\ rt.phase = "idle" /\ ~Terminal(rt) /\ ~rt.test
  /\ \E c \in Luck : Become(c, Pressed([rt EXCEPT !.key = "recording"], c))
Release == rt.key = "recording" /\ rt.phase = "idle" /\ rt' = [DropWake(rt) EXCEPT !.key = "idle"]

\* apply_model_unload_minutes(0): the model goes back into memory
KeepLoaded == rt.parked /\ \E c \in Luck : Become(c, WakeModel(rt, c).state)

Revoke(m) == m \notin rt.revoked /\ rt' = [rt EXCEPT !.revoked = @ \union {m}]

-----------------------------------------------------------------------------
(* Timers.                                                                 *)

\* _idle_unload_due, when there is no other work
IdleUnload ==
  /\ ~rt.parked /\ rt.check = "ok" /\ ~Terminal(rt)
  /\ rt.sup # "restarting" /\ rt.phase = "idle" /\ ~rt.cleanup /\ ~rt.test
  /\ rt.pend = "none" /\ ~rt.sw.on /\ ~rt.loading /\ rt.key = "idle"
  /\ \E c \in Luck : Become(c, Restart(rt, "park", c))

SwitchWatchdog ==
  /\ rt.sw.on
  /\ \E c \in Luck :
       Become(c, IF rt.sw.promoted /\ rt.check = "ok" THEN FinishSwitch(rt, "ok", c)
                 ELSE Otherwise(FailSwitch(rt, "failed", c), rt))

\* The service is told that the switch that waits has failed
TellPending(r, c) ==
  IF r.pend = "none" THEN r
  ELSE [r EXCEPT !.pend = "none", !.asked = FALSE, !.cur = IF c.restore THEN r.prior ELSE @]
\* Mutant: the service is not told
PendingSwitchWatchdogSilent == rt.pend # "none" /\ rt' = [rt EXCEPT !.pend = "none"]
PendingSwitchWatchdog == rt.pend # "none" /\ \E c \in Luck : Become(c, TellPending(rt, c))

PreparingWatchdog == rt.test /\ rt' = FailTest(rt)

SelfcheckWatchdog == rt.check = "running" /\ \E c \in Luck : Become(c, CheckBroken(rt, c))

-----------------------------------------------------------------------------
(* Phrases, as far as the runtime sees them.                               *)

\* The last phrase ends, with or without a cancellation that waits for its answer
PhraseEnds ==
  /\ rt.phase = "busy"
  /\ \E cleanup, late \in BOOLEAN, c \in Luck :
       Become(c, RunPending([rt EXCEPT !.phase = "idle", !.cleanup = cleanup, !.key = "idle"], late, c))
CleanupEnds ==
  /\ rt.cleanup /\ rt.sup = "running"
  /\ \E c \in Luck : Become(c, Onward([rt EXCEPT !.cleanup = FALSE], c))
\* A cancellation without an answer replaces the worker
CleanupRestarts ==
  /\ rt.cleanup /\ rt.sup # "restarting"
  /\ \E c \in Luck : Become(c, Restart([rt EXCEPT !.cleanup = FALSE], "plain", c))

-----------------------------------------------------------------------------
(* The worker: _on_worker_event.                                           *)

Event(type, gen, of) == [type |-> type, gen |-> gen, of |-> of]

\* hello: the load of a wake that was cut short goes on in the new process
Resumed(r) ==
  IF r.wakeGen = 0 THEN r
  ELSE IF r.loading THEN [r EXCEPT !.wakeGen = r.gen] ELSE [r EXCEPT !.wakeGen = 0, !.parked = r.check # "failed"]
OnHello(r, c) == IF r.wakeGen \in {0, r.gen} THEN LoadModel(r, c) ELSE Resumed(LoadModel(r, c))

\* an error of the load: after a wake the model counts as unloaded again
StillParked(failed, c) ==
  IF failed.back THEN failed.state
  ELSE Retried([Failing(failed.state) EXCEPT !.fails = @ + 1, !.wakeGen = 0,
                                             !.parked = @ \/ failed.state.wakeGen = failed.state.gen], c)
OnLoadError(r, c) == StillParked(FailSwitch(r, "failed", c), c)

OnFile(r, e, c) ==
  IF ~(r.check = "running" /\ e.gen = r.loadGen) THEN r
  ELSE CASE e.type = "result" -> CheckOk(r, c)
         [] e.type \in {"cancelled", "timeout"} -> CheckBroken(r, c)
         [] OTHER -> CheckFailed(r, "failed", c)

\* Whether an answer about a load is awaited
Asked(r, e) == r.loading /\ e.gen = r.loadGen
Fatal(e) == e.type = "error" /\ e.of \in {"crash", "limit", "start"}
Failure(e) == e.type \in {"error", "timeout"}
Cut(r, e, c) ==
  IF r.sw.paused /\ r.sw.sent /\ Failure(e) /\ e.of \in {"load", "limit"} THEN FailSwitch(r, "failed", c).state ELSE r
Warned(r, e) == IF Fatal(e) /\ e.gen = r.gen THEN FailTest(r) ELSE r
Handled(r, e, c) ==
  CASE e.of = "file" -> OnFile(r, e, c)
    [] Fatal(e) /\ r.check = "retrying" /\ e.gen = r.gen -> CheckFailed(r, "failed", c)
    [] e.type = "hello" -> OnHello(r, c)
    [] e.type = "loaded" /\ Asked(r, e) /\ r.check \in {"idle", "retrying"} -> StartSelfcheck(r, c)
    [] e.of = "load" /\ Failure(e) /\ Asked(r, e) -> OnLoadError(r, c)
    [] OTHER -> r
OnEvent(r, e, c) ==
  IF Terminal(r) THEN r ELSE Onward(Handled(Warned(Cut(r, e, c), e), e, c), c)

Hello ==
  /\ rt.sup = "starting"
  /\ \E c \in Luck : Become(c, OnEvent([rt EXCEPT !.sup = "running"], Event("hello", rt.gen, "none"), c))
Loaded ==
  /\ rt.sup = "running" /\ rt.job = "load"
  /\ \E c \in Luck :
       Become(c, OnEvent([rt EXCEPT !.job = "none", !.has = rt.req], Event("loaded", rt.gen, "load"), c))
LoadError ==
  /\ rt.sup = "running" /\ rt.job = "load"
  /\ \E c \in Luck : Become(c, OnEvent([rt EXCEPT !.job = "none"], Event("error", rt.gen, "load"), c))
Checked(type) ==
  /\ rt.sup = "running" /\ rt.job = "file"
  /\ \E c \in Luck : Become(c, OnEvent([rt EXCEPT !.job = "none"], Event(type, rt.gen, "file"), c))

\* The worker is lost, or a load or the self-check has not ended in time: it is killed
Lose(late) ==
  /\ rt.sup \in {"starting", "running"} /\ (late => rt.job # "none")
  /\ rt' = [rt EXCEPT !.sup = "restarting", !.job = "none",
                      !.lost = [gen |-> rt.gen, job |-> rt.job, late |-> late]]

\* Its exit is known: another process starts, and then the requests that waited are answered
\* Mutant: the requests are forgotten with the process
AnsweredNever(r, c) == [r EXCEPT !.lost = NoLoss]
Answered(r, c) ==
  IF r.lost.job = "none" THEN [r EXCEPT !.lost = NoLoss]
  ELSE OnEvent([r EXCEPT !.lost = NoLoss],
               Event(IF r.lost.late THEN "timeout" ELSE "error", r.lost.gen, r.lost.job), c)
Relaunched(r, c) ==
  IF r.lost.job = "none" THEN OnEvent([r EXCEPT !.lost = NoLoss], Event("error", r.gen, "crash"), c)
  ELSE Answered(r, c)
Relaunch ==
  /\ rt.sup = "restarting" /\ rt.gen < GenerationLimit
  /\ \E c \in Luck : Become(c, Relaunched([rt EXCEPT !.gen = @ + 1, !.sup = "starting", !.has = None], c))
GiveUp(why) ==
  /\ rt.sup = "restarting" /\ (why = "start" => rt.gen < GenerationLimit)
  /\ \E c \in Luck, gen \in {IF why = "start" THEN rt.gen + 1 ELSE rt.gen} :
       Become(c, OnEvent(Answered([rt EXCEPT !.sup = "stopped", !.has = None, !.gen = gen], c),
                         Event("error", gen, why), c))

\* _worker_protocol_mismatch: the supervisor has stopped the process for good
Mismatch ==
  /\ rt.sup = "starting"
  /\ \E c \in Luck :
       Become(c, FailTest(TellPending(FinishSwitch(
         [Stopped(rt) EXCEPT !.has = None, !.term = rt.gen, !.loading = FALSE, !.check = "idle", !.wake = FALSE,
                             !.wakeGen = 0, !.key = "idle", !.phase = "idle", !.cleanup = FALSE], "failed", c), c)))

-----------------------------------------------------------------------------
(* The candidate: _on_candidate_event.                                     *)

CandidateHello ==
  /\ rt.cand # None /\ rt.cand.job = "hello"
  /\ \E c \in Luck : Become(c, IF c.send THEN [rt EXCEPT !.cand.job = "load"] ELSE FinishSwitch(rt, "failed", c))
CandidateLoaded ==
  /\ rt.cand # None /\ rt.cand.job = "load"
  /\ \E c \in Luck, late \in BOOLEAN : Become(c, Promote([rt EXCEPT !.cand.job = "none", !.loaded = TRUE], late, c))
CandidateFails == rt.cand # None /\ \E c \in Luck : Become(c, FinishSwitch(rt, "failed", c))

-----------------------------------------------------------------------------
User ==
  \/ StartTest \/ CancelTest \/ Reload \/ Recheck \/ Press \/ Release \/ KeepLoaded
  \/ \E m \in Models, pause \in BOOLEAN : Switch(m, pause)
Timers == IdleUnload \/ SwitchWatchdog \/ PendingSwitchWatchdog \/ PreparingWatchdog \/ SelfcheckWatchdog
Worker ==
  \/ Hello \/ Loaded \/ LoadError \/ Mismatch \/ Relaunch
  \/ \E type \in {"result", "wrong", "cancelled", "error"} : Checked(type)
  \/ \E late \in BOOLEAN : Lose(late)
  \/ \E why \in {"limit", "start"} : GiveUp(why)
  \/ CandidateHello \/ CandidateLoaded \/ CandidateFails
Next ==
  \/ User \/ Timers \/ Worker \/ PhraseEnds \/ CleanupEnds \/ CleanupRestarts
  \/ \E m \in Models : Revoke(m)

Spec == Init /\ [][Next]_rt

-----------------------------------------------------------------------------
TypeOK ==
  /\ rt.gen \in 1..GenerationLimit /\ rt.sup \in {"starting", "running", "restarting", "stopped"}
  /\ rt.job \in {"none", "load", "file"} /\ rt.check \in {"idle", "running", "retrying", "ok", "failed"}
  /\ rt.tries \in 0..2 /\ rt.fails \in 0..3
  /\ rt.cand = None \/ rt.cand.job \in {"hello", "load", "none"}

\* The service that waits for the end of a switch will get it
SwitchAnswered == rt.asked => rt.sw.on \/ rt.pend # "none"

\* A press that waits for the model is backed by a load
WakeServed == rt.wake => rt.loading \/ rt.sw.on

\* A model that was unloaded is not in memory, none is being loaded, and no other comes
\* beside it: pressing the key would bring two into memory
ParkedIsEmpty ==
  rt.parked => rt.cand = None /\ ~rt.loading /\ (rt.sup # "stopped" => rt.has = None /\ rt.job = "none")

\* A worker that dictates holds the model that was asked for and tested in it
Usable(r) == r.check = "ok" /\ ~r.loading /\ ~r.parked /\ r.sup = "running"
ReadyIsTested == Usable(rt) => rt.has = rt.req /\ rt.loadGen = rt.gen

\* A self-check that runs waits for the worker, or for what becomes of its loss
CheckIsWork == rt.check = "running" => "file" \in {rt.job, rt.lost.job}

\* A model that is revoked while it is loaded and tested does not become usable
ReadyIsAllowed == [][~Usable(rt) /\ Usable(rt') => rt'.req \notin rt'.revoked]_rt

\* A worker of another protocol is brought back only by the user's wish to check it again
TerminalHolds == [][Terminal(rt) /\ ~Terminal(rt') => Recheck]_rt

RuntimeHonest ==
  /\ [](TypeOK /\ SwitchAnswered /\ WakeServed /\ ParkedIsEmpty /\ ReadyIsTested /\ CheckIsWork)
  /\ ReadyIsAllowed /\ TerminalHolds

\* "While the worker loads a model" (_on_hotkey_state) it is loaded: something is under way
\* that will end the loading a press is told of
LoadingIsWork ==
  rt.loading => rt.sw.on \/ rt.sup \in {"starting", "restarting"} \/ rt.job # "none"
===============================================================================
