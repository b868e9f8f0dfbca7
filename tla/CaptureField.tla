---------------------------- MODULE CaptureField ----------------------------
(***************************************************************************)
(* The field that records a key combination.  Three parties: the field     *)
(* itself (HotkeyCapture, on the GUI thread), the runtime that owns the    *)
(* current watchdog, and one watchdog thread per recording, which owns its *)
(* own X connection, holds the keyboard grab and posts what it reads to    *)
(* the GUI through the Qt queue.  Sessions number the watchdogs in the     *)
(* order of their creation; an object is never used twice.                 *)
(***************************************************************************)
EXTENDS Naturals, Sequences

CONSTANTS
  SessionLimit,   \* bound: how many watchdogs are created
  QueueLimit      \* bound: hints are posted only while fewer events wait

ASSUME LimitAssumption == SessionLimit \in Nat /\ QueueLimit \in Nat

VARIABLES
  field,    \* HotkeyCapture.state
  gui,      \* where the GUI thread is: at rest, or blocked inside a call
  owner,    \* DictationRuntime._capture_watchdog, 0 for None
  newest,   \* how many watchdogs were created
  thread,   \* the watchdog threads
  grab,     \* the session whose X connection holds the keyboard, 0 for none
  queue     \* HotkeyCapture.keyEvent, a queued connection

vars == <<field, gui, owner, newest, thread, grab, queue>>

Sessions == 1 .. SessionLimit
Fields == {"idle", "capturing", "conflict", "duplicate", "not-grabbed", "success"}
\* what probing, saving and applying a combination may come to
SaveOutcomes == {"success", "conflict", "duplicate", "not-grabbed"}
After == {"cancel", "restart", "refused", "combo", "expired"}
Guis == [at: {"rest", "begin"}] \union [at: {"opening"}, s: Sessions]
          \union [at: {"joining"}, s: 0 .. SessionLimit, then: After]
Threads == [pc: {"unborn", "born", "opened", "loop", "ending", "cut", "notify", "dead"},
            stop: BOOLEAN, ready: BOOLEAN, active: BOOLEAN, sent: BOOLEAN, late: BOOLEAN,
            why: {"", "expired", "focus"}]
Events == [s: Sessions, action: {"combo", "cancel", "hint", "expired"}]

AtRest == [at |-> "rest"]
Unborn == [pc |-> "unborn", stop |-> FALSE, ready |-> FALSE, active |-> FALSE, sent |-> FALSE,
           late |-> FALSE, why |-> ""]

Init ==
  /\ field = "idle" /\ gui = AtRest /\ owner = 0 /\ newest = 0
  /\ thread = [s \in Sessions |-> Unborn]
  /\ grab = 0 /\ queue = <<>>

-----------------------------------------------------------------------------
(* The GUI thread.                                                         *)

\* Mutant: the wake-up is written, the stop event is not set
LeaveUnstopped(then) ==
  /\ owner' = 0
  /\ gui' = [at |-> "joining", s |-> owner, then |-> then]
  /\ UNCHANGED thread

\* end_hotkey_capture: forget the watchdog, stop it, and wait for its thread for half a second
Leave(then) ==
  /\ owner' = 0
  /\ thread' = IF owner = 0 THEN thread ELSE [thread EXCEPT ![owner].stop = TRUE]
  /\ gui' = [at |-> "joining", s |-> owner, then |-> then]

\* begin: a recording in progress is cancelled first
Begin ==
  /\ gui = AtRest
  /\ IF field = "capturing"
       THEN Leave("restart") /\ UNCHANGED <<field, newest>>
       ELSE gui' = [at |-> "begin"] /\ UNCHANGED <<field, owner, newest, thread>>
  /\ UNCHANGED <<grab, queue>>

\* begin_hotkey_capture refuses while dictation or another input is busy
Refuse ==
  /\ gui.at = "begin"
  /\ Leave("refused")
  /\ UNCHANGED <<field, newest, grab, queue>>

\* ... or starts the thread of a new watchdog and waits for the fact of the grab
Open ==
  /\ gui.at = "begin" /\ newest < SessionLimit
  /\ newest' = newest + 1
  /\ owner' = newest + 1
  /\ thread' = [thread EXCEPT ![newest + 1].pc = "born"]
  /\ gui' = [at |-> "opening", s |-> newest + 1]
  /\ UNCHANGED <<field, grab, queue>>

Opened ==
  /\ gui.at = "opening"
  /\ thread[gui.s].ready /\ thread[gui.s].active /\ ~thread[gui.s].stop
  /\ field' = "capturing"
  /\ gui' = AtRest
  /\ UNCHANGED <<owner, newest, thread, grab, queue>>

\* the thread ended without a grab, or a second passed without an answer
OpenFailed ==
  /\ gui.at = "opening"
  /\ ~(thread[gui.s].ready /\ thread[gui.s].active)
  /\ Leave("refused")
  /\ UNCHANGED <<field, newest, grab, queue>>

\* What the call that stopped the watchdog goes on with.  The wait ends with the thread or
\* with its time-out, so a hung thread may still be alive here.
Joined ==
  /\ gui.at = "joining"
  /\ field' \in CASE gui.then \in {"cancel", "restart"} -> {"idle"}
                  [] gui.then \in {"refused", "expired"} -> {"not-grabbed"}
                  [] gui.then = "combo" -> SaveOutcomes
  /\ gui' = IF gui.then = "restart" THEN [at |-> "begin"] ELSE AtRest
  /\ UNCHANGED <<owner, newest, thread, grab, queue>>

\* the user's cancel, the window hidden, closed or minimised
Cancel ==
  /\ gui = AtRest
  /\ Leave("cancel")
  /\ UNCHANGED <<field, newest, grab, queue>>

Keep ==
  /\ gui = AtRest /\ field = "conflict"
  /\ field' \in SaveOutcomes
  /\ UNCHANGED <<gui, owner, newest, thread, grab, queue>>

\* _handle_key_event: an event is heard only while the field is capturing
Deliver ==
  /\ gui = AtRest /\ queue # <<>>
  /\ queue' = Tail(queue)
  /\ IF field = "capturing" /\ Head(queue).action # "hint"
       THEN Leave(Head(queue).action)
       ELSE UNCHANGED <<gui, owner, thread>>
  /\ UNCHANGED <<field, newest, grab>>

-----------------------------------------------------------------------------
(* The watchdog thread of session s.                                       *)

Goes(s, to) == thread' = [thread EXCEPT ![s].pc = to]
Post(s, action) == queue' = Append(queue, [s |-> s, action |-> action])

\* the factory and XOpenDisplay; a stop that came first, or a failure, ends the thread
OpenDisplay(s) ==
  /\ thread[s].pc = "born"
  /\ \E to \in IF thread[s].stop THEN {"ending"} ELSE {"opened", "ending"}: Goes(s, to)
  /\ UNCHANGED <<field, gui, owner, newest, grab, queue>>

\* Mutant: the loop is never entered after the grab
GrabMistyped(s) ==
  /\ thread[s].pc = "opened"
  /\ thread' = [thread EXCEPT ![s].pc = "grabbed"]
  /\ UNCHANGED <<field, gui, owner, newest, grab, queue>>

\* XGrabKeyboard succeeds unless another client holds the keyboard
Grab(s) ==
  /\ thread[s].pc = "opened"
  /\ IF thread[s].stop \/ grab # 0
       THEN Goes(s, "ending") /\ grab' = grab
       ELSE /\ thread' = [thread EXCEPT ![s].pc = "loop", ![s].active = TRUE, ![s].ready = TRUE]
            /\ grab' = s
  /\ UNCHANGED <<field, gui, owner, newest, queue>>

\* thirty seconds after the grab
Deadline(s) ==
  /\ thread[s].pc = "loop" /\ ~thread[s].late
  /\ thread' = [thread EXCEPT ![s].late = TRUE]
  /\ UNCHANGED <<field, gui, owner, newest, grab, queue>>

\* Mutant: the deadline is tested only until the result was sent
LeaveLoopUnsent(s) ==
  /\ thread[s].pc = "loop" /\ (thread[s].stop \/ (thread[s].late /\ ~thread[s].sent))
  /\ thread' = [thread EXCEPT ![s].pc = "ending", ![s].why = IF thread[s].stop THEN "" ELSE "expired"]
  /\ UNCHANGED <<field, gui, owner, newest, grab, queue>>

\* the loop's two tests: the stop comes before the deadline
LeaveLoop(s) ==
  /\ thread[s].pc = "loop" /\ (thread[s].stop \/ thread[s].late)
  /\ thread' = [thread EXCEPT ![s].pc = "ending", ![s].why = IF thread[s].stop THEN "" ELSE "expired"]
  /\ UNCHANGED <<field, gui, owner, newest, grab, queue>>

Polling(s) == thread[s].pc = "loop" /\ ~thread[s].stop /\ ~thread[s].late

\* Mutant: keys are read on after the result
KeyPressTwice(s, action) ==
  /\ Polling(s)
  /\ Len(queue) < QueueLimit + 1
  /\ Post(s, action)
  /\ thread' = [thread EXCEPT ![s].sent = @ \/ action \in {"combo", "cancel"}]
  /\ UNCHANGED <<field, gui, owner, newest, grab>>

\* a key press: nothing more is read from the keyboard after a combination or Escape
KeyPress(s, action) ==
  /\ Polling(s) /\ ~thread[s].sent
  /\ action = "hint" => Len(queue) < QueueLimit
  /\ Post(s, action)
  /\ thread' = IF action = "hint" THEN thread ELSE [thread EXCEPT ![s].sent = TRUE]
  /\ UNCHANGED <<field, gui, owner, newest, grab>>

\* _NET_ACTIVE_WINDOW names another window, or cannot be read
FocusLost(s) ==
  /\ Polling(s)
  /\ thread' = [thread EXCEPT ![s].pc = "ending", ![s].why = "focus"]
  /\ UNCHANGED <<field, gui, owner, newest, grab, queue>>

\* the socket is cut before anything else: the server releases the keyboard
CloseDisplay(s) ==
  /\ thread[s].pc = "ending"
  /\ grab' = IF grab = s THEN 0 ELSE grab
  /\ Goes(s, "cut")
  /\ UNCHANGED <<field, gui, owner, newest, queue>>

\* Mutant: the thread returns from its finally and tells nobody
ClearActiveLost(s) ==
  /\ thread[s].pc = "cut"
  /\ thread' = [thread EXCEPT ![s].pc = "dead", ![s].active = FALSE, ![s].ready = TRUE]
  /\ UNCHANGED <<field, gui, owner, newest, grab, queue>>

ClearActive(s) ==
  /\ thread[s].pc = "cut"
  /\ thread' = [thread EXCEPT ![s].pc = "notify", ![s].active = FALSE, ![s].ready = TRUE]
  /\ UNCHANGED <<field, gui, owner, newest, grab, queue>>

\* Mutant: a deadline that passes is told only when nothing was read before, a focus always
NotifyAfterResult(s) ==
  /\ thread[s].pc = "notify"
  /\ queue' = CASE thread[s].why = "expired" -> queue
                [] thread[s].why = "focus" -> Append(queue, [s |-> s, action |-> "cancel"])
                [] OTHER -> queue
  /\ Goes(s, "dead")
  /\ UNCHANGED <<field, gui, owner, newest, grab>>

\* only then the field is told; a lost focus is not told after a result
Notify(s) ==
  /\ thread[s].pc = "notify"
  /\ CASE thread[s].why = "expired" -> Post(s, "expired")
       [] thread[s].why = "focus" /\ ~thread[s].sent -> Post(s, "cancel")
       [] OTHER -> queue' = queue
  /\ Goes(s, "dead")
  /\ UNCHANGED <<field, gui, owner, newest, grab>>

-----------------------------------------------------------------------------
Gui == Begin \/ Refuse \/ Open \/ Opened \/ OpenFailed \/ Joined \/ Cancel \/ Keep \/ Deliver
Advance(s) == OpenDisplay(s) \/ Grab(s) \/ LeaveLoop(s) \/ CloseDisplay(s) \/ ClearActive(s) \/ Notify(s)
Watch(s) == Advance(s) \/ Deadline(s) \/ FocusLost(s)
              \/ \E action \in {"combo", "cancel", "hint"}: KeyPress(s, action)
Next == Gui \/ \E s \in Sessions: Watch(s)

\* the watchdog's thread alone: the promise about the keyboard does not lean on the GUI
WatchdogFairness == \A s \in Sessions: WF_vars(Advance(s)) /\ WF_vars(Deadline(s))
Spec == Init /\ [][Next]_vars /\ WatchdogFairness
LiveSpec == Spec /\ WF_vars(Deliver) /\ WF_vars(Joined) /\ WF_vars(Opened)

-----------------------------------------------------------------------------
TypeOK ==
  /\ field \in Fields /\ gui \in Guis
  /\ owner \in 0 .. SessionLimit /\ newest \in 0 .. SessionLimit
  /\ thread \in [Sessions -> Threads]
  /\ grab \in 0 .. SessionLimit
  /\ queue \in Seq(Events)

Told(s) == \E i \in DOMAIN queue: queue[i].s = s /\ queue[i].action # "hint"

\* A field that shows "capturing" is served: its watchdog still holds the keyboard, or is on
\* its way to tell the field why it does not, or its answer waits in the queue
FieldServed ==
  field = "capturing" /\ gui = AtRest =>
    /\ owner # 0
    /\ \/ grab = owner
       \/ Told(owner)
       \/ thread[owner].pc \in {"cut", "notify"} /\ thread[owner].why # ""

\* The keyboard is never held for a field that no longer wants it, except by a thread that
\* has been told to stop
GrabIsWanted ==
  grab # 0 /\ gui = AtRest /\ (field # "capturing" \/ owner # grab) => thread[grab].stop

\* A session answers at most once: after its combination or cancel it posts neither again
OneAnswer ==
  [][\A s \in Sessions: \A action \in {"combo", "cancel"}:
       queue' = Append(queue, [s |-> s, action |-> action]) => ~thread[s].sent]_vars

\* The field and the keyboard belong together, and a recording answers once
FieldHonest == []FieldServed /\ []GrabIsWanted /\ OneAnswer

\* Every grab ends by the watchdog's own means, whatever the GUI does
GrabEnds == \A s \in Sessions: grab = s ~> grab # s

\* Every recording ends: its field does not stay "capturing" for the same watchdog
CaptureEnds == \A s \in Sessions: field = "capturing" /\ owner = s ~> field # "capturing" \/ owner # s
=============================================================================
