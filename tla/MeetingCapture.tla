---------------------------- MODULE MeetingCapture ----------------------------
(***************************************************************************)
(* The process that records a meeting (worker/meeting_capture.py): one     *)
(* thread of control that never waits, and beside it a thread that opens   *)
(* the sources, one that reads each of them, one that closes them, and one *)
(* that alone writes to the disk.  They report through a queue that the    *)
(* control thread polls.  The session of the desktop may be blocked at any *)
(* moment (worker/meeting_session.py keeps an epoch of it), and the GUI    *)
(* (core/meeting_session.py) sends commands that name the revision and the *)
(* epoch it has last been told.                                            *)
(*                                                                         *)
(* All of it is one record, c; an operator on it is a method.  The         *)
(* revision is kept as what it is compared with: whether the GUI, or the   *)
(* command on its way, has the current one.  A meeting has been prepared   *)
(* already.  Left out: the content of the files, the ledger of requests,   *)
(* the detector of calls, and the commands extend and track.resume, the    *)
(* latter sent by nobody.                                                  *)
(***************************************************************************)
EXTENDS Naturals, Sequences, FiniteSets

CONSTANTS
  None,    \* No reason, no request, no epoch
  Credit,  \* Blocks of sound of one track that may wait for the disk
  Limits   \* Bounds of a run: ops of the user, blocks of the desktop's session, troubles of a
           \* recording, blocks of sound, all but the sound together; and far, whether the
           \* other side is recorded

VARIABLES
  c,    \* The process, its threads, and what the GUI believes
  left  \* What remains of the bounds

vars == <<c, left>>

Tracks == {"mic", "far"}
Soft == {"lease", "indicators"}             \* pauses that need no click
Hard == {"user", "lock", "audio_failed", "disk"}
Final == {"stop", "limit", "gone"}          \* gone: sleep, or a session that is not active
Kinds == {"pause", "stop"}

NoOpener == [pc |-> "idle", todo |-> {}, stop |-> FALSE]
NoReader == [pc |-> "none", stop |-> FALSE]
NoCloser == [pc |-> "idle", wait |-> FALSE, has |-> {}, tracks |-> {}, readers |-> {}]
NoRequest == [k |-> None, auto |-> FALSE, epoch |-> 0, tracks |-> {}, reason |-> None]
NoCommand == [k |-> None, epoch |-> 0, cur |-> FALSE, reason |-> None, visible |-> FALSE]

Prepared == [
  state |-> "prepared", reasons |-> {}, manual |-> FALSE, terminal |-> FALSE, auto |-> FALSE,
  visible |-> FALSE, recovery |-> None,
  since |-> "none",         \* pause_at: none, paused, hour
  pauseEpoch |-> None,
  leased |-> TRUE, leaseTracks |-> {}, track |-> [t \in Tracks |-> "ended"],
  opening |-> FALSE, request |-> NoRequest,
  close |-> [on |-> FALSE, req |-> None],
  finalizing |-> FALSE, final |-> "succeeded", waiters |-> {},
  terminating |-> FALSE, shutdown |-> FALSE, stopped |-> FALSE, exited |-> FALSE,
  reason |-> None, epoch |-> 0, news |-> <<>>,     \* SessionAdmission
  opener |-> NoOpener, turn |-> FALSE,
  made |-> {},              \* sources: a track and the turn of the opening it is of
  live |-> {},              \* of these and of forgotten ones, those the sound server is connected to
  reader |-> [t \in Tracks |-> NoReader], closer |-> NoCloser,
  msgs |-> <<>>, jobs |-> <<>>,
  due |-> FALSE,            \* the sign of life is sent before the next command is looked at
  failed |-> FALSE,         \* the thread of the disk has ended with an error
  interval |-> FALSE,       \* the journal's last edge is open
  gui |-> [st |-> "opening", fin |-> FALSE, wait |-> FALSE, pend |-> FALSE, cur |-> TRUE, epoch |-> 0, phys |-> FALSE,
           terminal |-> FALSE, vis |-> TRUE],
  cmd |-> [k |-> "open", epoch |-> 0, cur |-> TRUE, reason |-> None, visible |-> FALSE],
  needs |-> FALSE,          \* ghost: since the last click something happened that only a click may end
  gone |-> {},              \* ghost: the tracks that ended by themselves since then
  quiet |-> FALSE,          \* ghost: told that all is closed, and not asked to open since
  crossed |-> FALSE,        \* ghost: a resume was taken while a close was pending
  lost |-> FALSE,           \* ghost: some sound did not reach the disk
  lied |-> FALSE,           \* ghost: a loss was told as a success
  owed |-> {}]              \* ghost: commands that wait for the end of the close

-----------------------------------------------------------------------------
\* A process that has ended is told apart by nothing
Exited(x) == [Prepared EXCEPT !.exited = TRUE, !.cmd = NoCommand, !.lied = x.lied, !.crossed = x.crossed]

\* What the GUI makes of an event.  With it comes the revision, and mostly the epoch.

Heard(x, gui) == [x EXCEPT !.gui = gui]
Informed(x) == [x.gui EXCEPT !.cur = TRUE, !.epoch = x.epoch, !.pend = FALSE]

TellStarted(x) ==
  Heard(x, IF x.gui.st # "opening" THEN Informed(x) ELSE [Informed(x) EXCEPT !.st = "recording"])

\* self: a pause the process has come to by itself is still to be finalized
TellPaused(x, self) ==
  Heard(x, [Informed(x) EXCEPT !.fin = @ \/ (self /\ ~x.gui.phys), !.st = IF x.gui.terminal THEN @ ELSE "paused"])

TellClosed(x) ==
  [Heard(x, [x.gui EXCEPT !.cur = TRUE, !.phys = TRUE, !.wait = FALSE, !.st = IF x.gui.terminal THEN "stopped" ELSE @])
     EXCEPT !.quiet = TRUE]

TellFinalized(x, kinds, status) ==
  [Heard(x, [x.gui EXCEPT !.cur = TRUE, !.fin = FALSE])
     EXCEPT !.owed = @ \ kinds, !.lied = @ \/ (status = "succeeded" /\ x.lost)]

TellAlive(x) ==
  LET g == [Informed(x) EXCEPT !.pend = x.gui.pend]
  IN Heard([x EXCEPT !.due = FALSE],
       CASE g.terminal -> g
         [] ~g.terminal /\ x.state = "recording" /\ ~x.manual /\ ~g.wait ->
              [g EXCEPT !.st = "recording", !.fin = FALSE, !.phys = FALSE]
         [] ~g.terminal /\ x.state = "paused" -> [g EXCEPT !.st = "paused"]
         [] ~g.terminal /\ x.state = "stopped" ->
              [g EXCEPT !.terminal = TRUE, !.st = IF g.phys THEN "stopped" ELSE "stopping", !.wait = @ \/ ~g.phys]
         [] OTHER -> g)

\* An error of a resume sends the user back to the pause; every other one ends the process
TellRefused(x, cmd, code) ==
  CASE cmd.k = "keepalive" /\ code = "not-prepared" -> x
    [] cmd.k = "resume" /\ code \in {"not-prepared", "admission-stale"} ->
         Heard(x, [x.gui EXCEPT !.st = "paused", !.pend = TRUE])
    [] OTHER -> Exited(x)

\* A new revision: what the GUI and its command know is old
Revised(x) == [x EXCEPT !.gui.cur = FALSE, !.cmd = IF @ = NoCommand THEN @ ELSE [@ EXCEPT !.cur = FALSE]]

-----------------------------------------------------------------------------
\* The methods of the control thread

AddReason(x, r) ==
  IF r \in Soft THEN [x EXCEPT !.reasons = @ \cup {r}]
  ELSE IF r \in Hard THEN [x EXCEPT !.reasons = @ \cup {r}, !.manual = TRUE, !.auto = FALSE, !.needs = TRUE]
  ELSE x

BeginPause(x) == IF x.since # "none" THEN x ELSE [x EXCEPT !.since = "paused", !.pauseEpoch = x.epoch]

Running(x, t) == x.reader[t].pc # "none"

\* Mutant: the closer does not wait for the thread that opens
ShutAtOnce(x, req) ==
  [Revised(x) EXCEPT
     !.close = [on |-> TRUE, req |-> req], !.opener.stop = @ \/ x.opener.pc # "idle",
     !.reader = [t \in Tracks |-> [@[t] EXCEPT !.stop = Running(x, t)]],
     !.closer = [pc |-> "join", wait |-> FALSE, has |-> {}, tracks |-> {}, readers |-> {t \in Tracks : Running(x, t)}]]
\* Everything that records is told to stop, and a thread of its own waits for it
Shut(x, req) ==
  [Revised(x) EXCEPT
     !.close = [on |-> TRUE, req |-> req], !.opener.stop = @ \/ x.opener.pc # "idle",
     !.reader = [t \in Tracks |-> [@[t] EXCEPT !.stop = Running(x, t)]],
     !.closer = [pc |-> "join", wait |-> x.opener.pc # "idle", has |-> {}, tracks |-> {},
                 readers |-> {t \in Tracks : Running(x, t)}]]

Close(x, r, req) ==
  LET tracks == IF r \in Soft /\ x.since = "none" THEN {t \in Tracks : x.track[t] = "live"} ELSE x.leaseTracks
      y == AddReason([x EXCEPT !.leaseTracks = tracks], r)
      z == IF r \in Final THEN [y EXCEPT !.state = "stopped", !.auto = FALSE] ELSE y
  IN CASE z.close.on -> z
       [] ~z.close.on /\ r \in Final -> Shut(z, req)
       [] OTHER -> BeginPause([Shut(z, req) EXCEPT !.state = "paused"])

Recording(x) == x.made # {} \/ x.opening

Autopause(x, r) ==
  LET y == AddReason(x, r)
      z == CASE y.state = "recording" \/ y.opening -> Close(y, r, None)
             [] y.state = "prepared" /\ ~y.opening -> BeginPause([y EXCEPT !.state = "paused"])
             [] OTHER -> y
  IN IF x.state \in {"stopped", "unknown"} THEN x
     ELSE IF r \in x.reasons THEN z ELSE TellPaused(z, TRUE)

\* _session_events: every block since the last look, then what holds now
SessionEvent(x, r) ==
  IF x.state \in {"stopped", "unknown"} THEN x
  ELSE CASE r = "gone" ->
              [(IF Recording(x) THEN Close(x, "gone", None) ELSE x)
                 EXCEPT !.terminal = TRUE, !.auto = FALSE, !.state = "stopped"]
         [] r = "lock" -> Autopause(x, "lock")
         [] OTHER -> x
\* Mutant: only what holds now is looked at
DrainedNow(x) == SessionEvent([x EXCEPT !.news = <<>>], x.reason)
Drained(x) ==
  LET all == Append(x.news, x.reason)
      after[n \in 0..Len(all)] == IF n = 0 THEN [x EXCEPT !.news = <<>>] ELSE SessionEvent(after[n - 1], all[n])
  IN after[Len(all)]

Expired(x) ==
  IF x.since # "hour" THEN x
  ELSE [(IF Recording(x) THEN Close(x, "stop", None) ELSE x)
          EXCEPT !.terminal = TRUE, !.auto = FALSE, !.state = "stopped"]

Allowed(x, epoch) == x.reason = None /\ x.epoch = epoch

\* _admitted, but for the age of the request
Admitted(x, q) ==
  /\ ~x.terminal /\ x.since # "hour" /\ Allowed(x, q.epoch)
  /\ q.auto => x.visible /\ x.pauseEpoch = q.epoch /\ ~x.manual

Open(x, q) ==
  [x EXCEPT !.opening = TRUE, !.reasons = {}, !.manual = FALSE, !.request = q, !.turn = ~@, !.quiet = FALSE,
            !.opener = [pc |-> "open", todo |-> q.tracks, stop |-> FALSE]]

\* _maybe_auto_resume, with an attestation of the GUI that is fresh
MayResume(x) ==
  /\ x.auto /\ x.state = "paused" /\ ~x.opening /\ ~x.finalizing /\ ~x.close.on /\ ~x.manual /\ ~x.terminal
  /\ x.reasons # {} /\ x.reasons \subseteq Soft /\ x.final # "failed" /\ x.leased /\ x.visible /\ x.recovery # None
AutoRequest(x) ==
  [k |-> "auto", auto |-> TRUE, epoch |-> x.recovery, reason |-> IF "indicators" \in x.reasons THEN "indicators" ELSE "lease",
   tracks |-> {t \in x.leaseTracks : x.track[t] = "paused"}]
AutoResume(x) ==
  LET q == AutoRequest(x) IN
  IF ~MayResume(x) \/ ~Admitted(x, q) THEN x
  ELSE IF q.tracks = {} THEN [x EXCEPT !.auto = FALSE] ELSE Open([x EXCEPT !.auto = FALSE], q)

\* _unadmitted_open_reason
BackTo(x, q) ==
  IF x.reason # None THEN x.reason
  ELSE IF ~q.auto \/ x.stopped \/ x.terminal \/ x.since = "hour" THEN "stop" ELSE q.reason

Terminate(x) ==
  LET y == [x EXCEPT !.terminating = TRUE] IN
  CASE x.terminating -> x
    [] ~x.terminating /\ Recording(x) -> Close(y, "stop", None)
    [] OTHER -> [y EXCEPT !.stopped = @ \/ ~x.finalizing]
-----------------------------------------------------------------------------
\* A command is handled after the session's news, and by what is true then

Taken == [Expired(Drained(c)) EXCEPT !.cmd = NoCommand]
Current == Expired(Drained(c)).cmd.cur
Arrived(k) == c.cmd.k = k /\ ~c.stopped /\ ~c.due

HandleOpen ==
  /\ Arrived("open") \/ Arrived("resume")
  /\ \E fresh \in BOOLEAN :
       LET x == Taken
           m == c.cmd
           resume == m.k = "resume"
           q == [k |-> m.k, auto |-> FALSE, epoch |-> m.epoch, reason |-> None,
                 tracks |-> {t \in Tracks : t = "mic" \/ (left.far /\ (~resume \/ x.track[t] # "ended"))}]
           code == IF \/ x.stopped \/ x.terminating \/ ~Current \/ x.opening \/ x.finalizing
                      \/ x.state # IF resume THEN "paused" ELSE "prepared" THEN "not-prepared"
                   ELSE IF fresh /\ x.final = "failed" THEN "io"
                   ELSE IF ~fresh \/ ~Admitted(x, q) THEN "admission-stale" ELSE None
       IN c' = IF code # None THEN TellRefused(x, m, code)
               ELSE [Open(x, q) EXCEPT !.needs = FALSE, !.gone = {}, !.crossed = @ \/ x.close.on]
  /\ UNCHANGED left

HandleKeepalive ==
  /\ Arrived("keepalive")
  /\ \E fresh \in BOOLEAN :
       LET x == Taken
           m == c.cmd
           y == [x EXCEPT !.leased = TRUE, !.visible = m.visible, !.recovery = m.epoch,
                          !.auto = x.state = "paused" /\ m.visible]
           z == IF y.opening /\ y.request.auto /\ ~m.visible THEN Close(y, "indicators", None) ELSE y
       IN c' = IF x.stopped \/ x.terminating \/ ~Current THEN TellRefused(x, m, "not-prepared")
               ELSE IF ~fresh THEN TellRefused(x, m, "admission-stale")
               ELSE [AutoResume(z) EXCEPT !.gui.cur = TRUE]
  /\ UNCHANGED left

\* Nothing records: the answer is at hand
AlreadyClosed(x, kind) ==
  LET y == CASE kind = "stop" -> [x EXCEPT !.state = "stopped"]
             [] kind = "pause" /\ x.state # "stopped" -> BeginPause([x EXCEPT !.state = "paused"])
             [] OTHER -> x
      z == TellFinalized(TellClosed(y), {}, IF x.failed THEN "failed" ELSE x.final)
  IN IF kind = "pause" THEN TellPaused(z, FALSE) ELSE z

\* A close that is on its way answers this command too
Waits(x, kind) ==
  LET y == [x EXCEPT !.waiters = @ \cup {kind}, !.owed = @ \cup {kind}]
  IN IF x.close.on THEN y ELSE TellClosed(y)

Closing(x) == x.finalizing \/ x.close.on
Answered(x) == [x EXCEPT !.gui.cur = TRUE]

Blocked(x, r) ==
  IF r = x.reason THEN x ELSE [x EXCEPT !.reason = r, !.epoch = @ + 1, !.news = Append(@, r), !.needs = TRUE]

HandlePause ==
  /\ Arrived("pause")
  /\ LET x == Taken
         r == c.cmd.reason
         y == AddReason(IF r = "lock" /\ x.reason = None THEN Blocked(x, "lock") ELSE x, r)
     IN c' = IF x.stopped \/ x.terminating THEN TellRefused(x, c.cmd, "not-prepared")
             ELSE IF Closing(y) THEN Answered(Waits(y, "pause"))
             ELSE IF y.state # "recording" /\ ~y.opening THEN Answered(AlreadyClosed(y, "pause"))
             ELSE Answered(Close([y EXCEPT !.owed = @ \cup {"pause"}], r, "pause"))
  /\ UNCHANGED left

HandleStop ==
  /\ Arrived("stop")
  /\ LET x == Taken
     IN c' = IF x.stopped \/ x.terminating THEN TellRefused(x, c.cmd, "not-prepared")
             ELSE IF Closing(x) THEN Answered(Waits([x EXCEPT !.state = "stopped", !.auto = FALSE], "stop"))
             ELSE IF x.state # "recording" /\ ~x.opening THEN Answered(AlreadyClosed(x, "stop"))
             ELSE Answered(Close([x EXCEPT !.owed = @ \cup {"stop"}], "stop", "stop"))
  /\ UNCHANGED left

\* bye: the last thing told
Bye(x) == [x EXCEPT !.shutdown = FALSE, !.stopped = TRUE, !.quiet = @ \/ x.shutdown]

HandleShutdown ==
  /\ Arrived("shutdown")
  /\ LET x == [Taken EXCEPT !.shutdown = TRUE]
     IN c' = IF ~Recording(x) /\ ~x.finalizing THEN Bye([x EXCEPT !.terminating = TRUE]) ELSE Terminate(x)
  /\ UNCHANGED left

-----------------------------------------------------------------------------
\* The threads

Post(x, m) == [x EXCEPT !.msgs = Append(@, m)]
Message(k) == [k |-> k, req |-> None, tracks |-> {}, code |-> None]

Can == left.troubles > 0 /\ left.all > 0
Spend == left' = [left EXCEPT !.troubles = @ - 1, !.all = @ - 1]

OpenerEnds(x, m) == Post([x EXCEPT !.opener = NoOpener, !.closer.wait = FALSE], m)
OpenFailed(x, code) == OpenerEnds(x, [Message("open-failed") EXCEPT !.code = code])

\* The check of every step of the opening; a request may grow too old meanwhile
MayOpen(fresh) == fresh /\ ~c.opener.stop /\ Admitted(c, c.request)

\* A full disk, a sound server that does not answer
OpenFails ==
  /\ c.opener.pc = "open" /\ Can /\ Spend
  /\ c' = OpenFailed(c, "audio-failed")

NextTrack == IF "mic" \in c.opener.todo THEN "mic" ELSE CHOOSE t \in c.opener.todo : TRUE
NextSource == <<NextTrack, c.turn>>

\* The first source begins a new set of sources.  admission_check is made under the lock of the
\* session; an opening by a click has passed the check of its age just before.
OpenSource ==
  /\ c.opener.pc = "open"
  /\ \E fresh \in BOOLEAN :
       LET x == IF c.opener.todo = c.request.tracks THEN [c EXCEPT !.made = {}] ELSE c
       IN c' = IF MayOpen(fresh)
               THEN [x EXCEPT !.made = @ \cup {NextSource}, !.live = @ \cup {NextSource}, !.opener.pc = "check"]
               ELSE OpenFailed(x, "admission-stale")
  /\ UNCHANGED left

OpenCheck ==
  /\ c.opener.pc = "check"
  /\ \E fresh \in BOOLEAN :
       LET rest == c.opener.todo \ {NextTrack}
       IN c' = CASE ~MayOpen(fresh) -> OpenFailed([c EXCEPT !.live = @ \ {NextSource}], "admission-stale")
                 [] MayOpen(fresh) /\ rest = {} -> OpenerEnds(c, Message("opened"))
                 [] OTHER -> [c EXCEPT !.opener.todo = rest, !.opener.pc = "open"]
  /\ UNCHANGED left

ReaderStops(t) ==
  /\ c.reader[t].pc = "run" /\ c.reader[t].stop
  /\ c' = [c EXCEPT !.reader[t] = NoReader]
  /\ UNCHANGED left

Read(t) ==
  /\ c.reader[t].pc = "run" /\ ~c.reader[t].stop /\ left.sound > 0
  /\ c' = [c EXCEPT !.reader[t].pc = "has"]
  /\ left' = [left EXCEPT !.sound = @ - 1]

Waiting(t) == Cardinality({i \in 1..Len(c.jobs) : c.jobs[i].k = "pcm" /\ c.jobs[i].t = t})
Job(k) == [k |-> k, t |-> None, req |-> None]

\* What the disk has no room for is lost, and told
Keep(t) ==
  /\ c.reader[t].pc = "has"
  /\ c' = IF c.failed \/ Waiting(t) >= Credit
          THEN Post([c EXCEPT !.reader[t] = NoReader, !.lost = TRUE], Message("disk-failed"))
          ELSE [c EXCEPT !.reader[t].pc = "run", !.jobs = Append(@, [Job("pcm") EXCEPT !.t = t])]
  /\ UNCHANGED left

\* The source ends: the program is gone, the microphone was changed, or it fails
SourceEnds(t) ==
  /\ c.reader[t].pc = "run" /\ ~c.reader[t].stop /\ Can /\ Spend
  /\ \E code \in {IF t = "mic" THEN "mic_change" ELSE "far_ended", "audio_failed"} :
       c' = Post([c EXCEPT !.reader[t] = NoReader, !.live = @ \ {<<t, c.turn>>}, !.gone = @ \cup {t}],
                 [Message("track-ended") EXCEPT !.tracks = {t}, !.code = code])

ReaderFails(t) ==
  /\ c.reader[t].pc = "run" /\ ~c.reader[t].stop /\ Can /\ Spend
  /\ c' = Post([c EXCEPT !.reader[t] = NoReader], Message("audio-failed"))

\* The closer waits for the opener, closes what it then finds, and waits for the readers
CloserFinds ==
  /\ c.closer.pc = "join" /\ ~c.closer.wait
  /\ c' = [c EXCEPT !.closer.pc = "shut", !.closer.has = c.made, !.closer.tracks = {s[1] : s \in c.made}]
  /\ UNCHANGED left

CloserShuts(s) ==
  /\ c.closer.pc = "shut" /\ s \in c.closer.has
  /\ c' = [c EXCEPT !.closer.has = @ \ {s}, !.live = @ \ {s}]
  /\ UNCHANGED left

\* Mutant: the close does not wait for the readers
CloserEndsEarly ==
  /\ c.closer.pc = "shut" /\ c.closer.has = {}
  /\ c' = Post([c EXCEPT !.closer = NoCloser], [Message("closed") EXCEPT !.tracks = c.closer.tracks, !.req = c.close.req])
  /\ UNCHANGED left
CloserEnds ==
  /\ c.closer.pc = "shut" /\ c.closer.has = {} /\ \A t \in c.closer.readers : ~Running(c, t)
  /\ c' = Post([c EXCEPT !.closer = NoCloser], [Message("closed") EXCEPT !.tracks = c.closer.tracks, !.req = c.close.req])
  /\ UNCHANGED left

Store ==
  /\ c.jobs # <<>> /\ ~c.failed
  /\ LET j == Head(c.jobs)
         x == [c EXCEPT !.jobs = Tail(@)]
     IN c' = CASE j.k = "open" -> [x EXCEPT !.interval = TRUE]
               [] j.k = "close" -> Post([x EXCEPT !.interval = FALSE], [Message("finalized") EXCEPT !.req = j.req])
               [] OTHER -> x
  /\ UNCHANGED left

StoreFails ==
  /\ c.jobs # <<>> /\ ~c.failed /\ Can /\ Spend
  /\ c' = Post([c EXCEPT !.failed = TRUE, !.jobs = <<>>, !.lost = TRUE], Message("disk-failed"))

-----------------------------------------------------------------------------
\* The control thread takes one report of a thread

Put(x, j) == IF x.failed THEN x ELSE [x EXCEPT !.jobs = Append(@, j)]

Opened(x) ==
  LET tracks == {s[1] : s \in x.made}
      y == [Revised(x) EXCEPT !.state = "recording", !.since = "none", !.pauseEpoch = None, !.leased = TRUE,
              !.track = [t \in Tracks |-> IF t \in tracks THEN "live" ELSE @[t]],
              !.reader = [t \in Tracks |-> IF t \in tracks THEN [pc |-> "run", stop |-> FALSE] ELSE @[t]]]
      z == Put(y, Job("open"))
  IN IF x.request.auto THEN [z EXCEPT !.due = TRUE] ELSE TellStarted(z)

OnOpened(x) ==
  \E fresh \in BOOLEAN :
    LET y == Drained([x EXCEPT !.opening = FALSE])
    IN c' = CASE y.close.on -> y
              [] ~y.close.on /\ (y.stopped \/ ~fresh \/ ~Admitted(y, y.request)) ->
                   Close(y, BackTo(y, y.request), None)
              [] OTHER -> Opened(y)

OnOpenFailed(x, code) ==
  LET y == [x EXCEPT !.opening = FALSE]
      why == IF y.request.auto /\ code = "admission-stale" THEN BackTo(y, y.request) ELSE "audio_failed"
      z == IF y.close.on THEN y ELSE Close(y, why, None)
  IN c' = IF y.request.auto THEN z ELSE TellRefused(z, y.request, code)

\* Mutant: only the command that asked for the close is answered
FinalizedAlone(x, req, status) ==
  LET y == TellFinalized([x EXCEPT !.waiters = {}, !.finalizing = FALSE], {req}, status)
  IN IF req = "pause" THEN TellPaused(y, FALSE) ELSE y

\* The end of a close is told to the command that asked for it and to those that wait
Finalized(x, req, status) ==
  LET kinds == x.waiters \cup {req}
      y == TellFinalized([x EXCEPT !.waiters = {}, !.finalizing = FALSE], kinds, status)
  IN IF "pause" \in kinds THEN TellPaused(y, FALSE) ELSE y

OnClosed(x, m) ==
  LET y == TellClosed([x EXCEPT !.close = [on |-> FALSE, req |-> m.req], !.made = {}, !.finalizing = TRUE,
                          !.track = [t \in Tracks |-> IF t \in m.tracks /\ @[t] = "live"
                                                      THEN IF x.state = "paused" THEN "paused" ELSE "ended" ELSE @[t]]])
  IN c' = IF y.failed THEN Finalized([y EXCEPT !.final = "failed"], m.req, "failed")
          ELSE Put(y, [Job("close") EXCEPT !.req = m.req])

\* Mutant: the reason of the end in the place of the state
OnTrackEndedMistyped(x, t, code) ==
  LET y == [x EXCEPT !.leaseTracks = @ \ {t}]
  IN c' = IF code = "audio_failed" THEN Autopause(y, "audio_failed") ELSE Answered([y EXCEPT !.track[t] = "device-lost"])

\* Mutant: the automatic opening may take a track that has ended
OnTrackEndedLeased(x, t, code) ==
  c' = IF code = "audio_failed" THEN Autopause(x, "audio_failed")
       ELSE Answered([x EXCEPT !.track[t] = "paused"])
OnTrackEnded(x, t, code) ==
  LET y == [x EXCEPT !.leaseTracks = @ \ {t}]
  IN c' = IF code = "audio_failed" THEN Autopause(y, "audio_failed")
          ELSE Answered([y EXCEPT !.track[t] = IF t = "far" THEN "ended" ELSE "paused"])

\* Mutant: what the disk has lost is forgotten at the close
OnDiskFailedSilent(x) ==
  c' = Autopause(IF x.finalizing THEN Finalized(x, x.close.req, "failed") ELSE x, "disk")
OnDiskFailed(x) ==
  LET y == [x EXCEPT !.final = "failed"]
  IN c' = Autopause(IF y.finalizing THEN Finalized(y, y.close.req, "failed") ELSE y, "disk")

Poll ==
  /\ c.msgs # <<>>
  /\ LET m == Head(c.msgs)
         x == [c EXCEPT !.msgs = Tail(@)]
     IN CASE m.k = "opened" -> OnOpened(x)
          [] m.k = "open-failed" -> OnOpenFailed(x, m.code)
          [] m.k = "closed" -> OnClosed(x, m)
          [] m.k = "finalized" -> c' = Finalized(x, m.req, x.final)
          [] m.k = "track-ended" -> \E t \in m.tracks : OnTrackEnded(x, t, m.code)
          [] m.k = "disk-failed" -> OnDiskFailed(x)
          [] m.k = "audio-failed" -> c' = Autopause(x, "audio_failed")
          [] m.k = "disk-low" -> c' = Autopause(x, "disk")
  /\ UNCHANGED left

\* What a poll does beside: the news of the session, the pause that lasts too long, the automatic
\* opening, the lease, the limit, the sign of life, and the last word
PollSession == Expired(Drained(c)) # c /\ c' = Expired(Drained(c)) /\ UNCHANGED left
PollResume == AutoResume(c) # c /\ c' = AutoResume(c) /\ UNCHANGED left
PollLease == c.state = "recording" /\ ~c.leased /\ c' = Autopause(c, "lease") /\ UNCHANGED left
PollLimit == c.state = "recording" /\ Can /\ Spend /\ c' = Close(c, "limit", None)
PollAlive == TellAlive(c) # c /\ c' = TellAlive(c) /\ UNCHANGED left
PollBye ==
  /\ c.terminating /\ ~c.close.on /\ ~c.stopped
  /\ c' = Bye(c)
  /\ UNCHANGED left

Exit == c' = Exited(c) /\ UNCHANGED left
\* The close takes too long, or the process has said its last word, or the GUI kills it
Overdue == c.close.on /\ Exit
Leave == c.stopped /\ Exit
Kill == c.gui.wait /\ Exit

-----------------------------------------------------------------------------
\* The GUI

Send(k) == [k |-> k, epoch |-> c.gui.epoch, cur |-> c.gui.cur, reason |-> None, visible |-> c.gui.vis]
CanClick == left.ops > 0 /\ left.all > 0 /\ c.cmd = NoCommand
Click == left' = [left EXCEPT !.ops = @ - 1, !.all = @ - 1]
Shown == c.gui.st \in {"recording", "opening", "paused"}

ClickPause ==
  /\ CanClick /\ Shown /\ Click
  /\ \E r \in {"user", "indicators"} \cup (IF c.reason = "lock" THEN {"lock"} ELSE {}) :
       c' = [c EXCEPT !.cmd = [Send("pause") EXCEPT !.reason = r],
                      !.gui.st = "paused", !.gui.wait = TRUE, !.gui.fin = TRUE, !.gui.pend = @ \/ r = "lock"]

ClickResume ==
  /\ CanClick /\ c.gui.st = "paused" /\ ~c.gui.wait /\ ~c.gui.fin /\ ~c.gui.pend /\ c.reason = None /\ Click
  /\ c' = [c EXCEPT !.cmd = Send("resume"), !.gui.st = "opening", !.gui.phys = FALSE]

ClickStop ==
  /\ CanClick /\ Shown /\ Click
  /\ c' = [c EXCEPT !.cmd = Send("stop"), !.gui.st = "stopping", !.gui.terminal = TRUE, !.gui.wait = TRUE]

\* set_indicators_visible
Show ==
  /\ CanClick /\ Shown /\ ~c.gui.terminal /\ Click
  /\ c' = [c EXCEPT !.cmd = [Send("keepalive") EXCEPT !.visible = ~c.gui.vis], !.gui.vis = ~@]

\* The heartbeat, told apart from nothing when it would change nothing
Beat ==
  /\ c.cmd = NoCommand /\ Shown /\ ~c.gui.wait
  /\ ~(c.leased /\ c.visible = c.gui.vis /\ c.recovery = c.gui.epoch /\ (c.auto \/ ~c.gui.vis \/ c.state # "paused"))
  /\ c' = [c EXCEPT !.cmd = Send("keepalive")]
  /\ UNCHANGED left

Shutdown ==
  /\ c.cmd = NoCommand /\ c.gui.terminal /\ c.gui.phys /\ ~c.terminating
  /\ c' = [c EXCEPT !.cmd = Send("shutdown")]
  /\ UNCHANGED left

-----------------------------------------------------------------------------
\* The world

CanBlock == left.blocks > 0 /\ left.all > 0
Turn == left' = [left EXCEPT !.blocks = @ - 1, !.all = @ - 1]

Block == \E r \in {"lock", "gone"} : CanBlock /\ Turn /\ r # c.reason /\ c' = Blocked(c, r)
Unblock == c.reason # None /\ c' = [c EXCEPT !.reason = None] /\ UNCHANGED left
HourPasses == c.since = "paused" /\ Can /\ Spend /\ c' = [c EXCEPT !.since = "hour"]
LeaseEnds == c.leased /\ c.state = "recording" /\ Can /\ Spend /\ c' = [c EXCEPT !.leased = FALSE]
DiskLow == c.state = "recording" /\ Can /\ Spend /\ c' = Post(c, Message("disk-low"))
\* SIGTERM, or the GUI is gone
Cut == ~c.terminating /\ Can /\ Spend /\ c' = [Terminate(c) EXCEPT !.cmd = NoCommand, !.gui.terminal = TRUE, !.gui.st = "stopped"]

\* The threads beside the control thread, and whether one of them has something to do
Threads ==
  \/ OpenSource \/ OpenCheck
  \/ CloserFinds \/ (\E s \in c.closer.has : CloserShuts(s)) \/ CloserEnds
  \/ (\E t \in Tracks : ReaderStops(t) \/ Keep(t)) \/ Store
Busy ==
  \/ c.opener.pc # "idle" \/ (c.closer.pc # "idle" /\ ~c.closer.wait)
  \/ \E t \in Tracks : c.reader[t].pc = "has" \/ (c.reader[t].pc = "run" /\ c.reader[t].stop)
  \/ (c.jobs # <<>> /\ ~c.failed)

\* What the control thread takes from its queue, and its end
Control == Poll \/ PollBye \/ Leave
Reported == c.msgs # <<>> \/ c.stopped \/ (c.terminating /\ ~c.close.on)

Init == c = Prepared /\ left \in Limits

Next ==
  /\ ~c.exited
  /\ \/ Threads \/ Control \/ PollSession \/ PollResume \/ PollLease \/ PollLimit \/ PollAlive \/ Overdue \/ Kill
     \/ OpenFails \/ StoreFails
     \/ \E t \in Tracks : Read(t) \/ SourceEnds(t) \/ ReaderFails(t)
     \/ HandleOpen \/ HandleKeepalive \/ HandlePause \/ HandleStop \/ HandleShutdown
     \/ ClickPause \/ ClickResume \/ ClickStop \/ Show \/ Beat \/ Shutdown
     \/ Block \/ Unblock \/ HourPasses \/ LeaseEnds \/ DiskLow \/ Cut

\* While one of them has something to do, one of them goes on, and the session is looked at.  (ENABLED of
\* such long actions is beyond TLC's reach: when they are, Busy, Reported and news say.)
Fairness ==
  /\ []<>((~Busy /\ ~Reported) \/ c.exited) \/ []<><<Threads \/ Control>>_vars
  /\ []<>(c.news = <<>>)

Spec == Init /\ [][Next]_vars /\ Fairness

-----------------------------------------------------------------------------
Commands == {"open", "resume", "pause", "stop", "keepalive", "shutdown"}
Told == {"opened", "open-failed", "closed", "finalized", "track-ended", "disk-failed", "audio-failed", "disk-low"}
PauseReasons == Soft \cup Hard

\* None is a value of its own, and a run begins with what remains of its bounds
ASSUME NoneAssumption ==
  None \notin Nat \cup Commands \cup PauseReasons \cup Kinds \cup Tracks
              \cup {"auto", "gone", "not-prepared", "io", "admission-stale"}
ASSUME LimitsAssumption ==
  Limits \subseteq [far : BOOLEAN, ops : Nat, blocks : Nat, troubles : Nat, sound : Nat, all : Nat]

TypeOK ==
  /\ c.state \in {"prepared", "recording", "paused", "stopped"} /\ c.since \in {"none", "paused", "hour"}
  /\ c.reasons \subseteq PauseReasons /\ c.waiters \cup c.owed \subseteq Kinds
  /\ c.leaseTracks \cup c.gone \subseteq Tracks /\ c.track \in [Tracks -> {"live", "paused", "ended"}]
  /\ c.made \cup c.live \cup c.closer.has \subseteq Tracks \X BOOLEAN
  /\ c.opener \in [pc : {"idle", "open", "check"}, todo : SUBSET Tracks, stop : BOOLEAN]
  /\ c.reader \in [Tracks -> [pc : {"none", "run", "has"}, stop : BOOLEAN]]
  /\ c.closer.pc \in {"idle", "join", "shut"} /\ c.close.req \in Kinds \cup {None} /\ c.final \in {"succeeded", "failed"}
  /\ c.reason \in {None, "lock", "gone"} /\ c.news \in Seq({"lock", "gone"}) /\ c.epoch \in Nat
  /\ \A i \in 1..Len(c.msgs) : c.msgs[i].k \in Told
  /\ \A i \in 1..Len(c.jobs) : c.jobs[i].k \in {"open", "close", "pcm"} /\ c.jobs[i].req \in Kinds \cup {None}
  /\ c.gui.st \in {"opening", "recording", "paused", "stopping", "stopped"} /\ c.cmd.k \in Commands \cup {None}
  /\ left \in [far : BOOLEAN, ops : Nat, blocks : Nat, troubles : Nat, sound : Nat, all : Nat]

\* Nothing is connected to the sound server any more, and no thread reads
Quiet == c.live = {} /\ \A t \in Tracks : ~Running(c, t)

\* When the GUI has been told that all is closed, and has not been told to expect an opening, it is
\* so: but for a resume that was taken while a close was pending (handle does not ask for
\* close_deadline, as track.resume and _maybe_auto_resume do).
ClosedUncrossed == c.quiet /\ ~c.crossed => Quiet

\* The states explored: up to a resume that crossed a close
Uncrossed == ~c.crossed

\* No recording of which something was lost is told to the GUI as a success
LossTold == ~c.lied

\* Sound is written only within an interval of the journal that is open, and no interval begins in
\* another one, however the readers, the closer and the next opening overtake each other
JournalInOrder ==
  LET Edges(i) == {n \in 1..(i - 1) : c.jobs[n].k # "pcm"}
      InInterval(i) ==
        IF Edges(i) = {} THEN c.interval ELSE c.jobs[CHOOSE n \in Edges(i) : \A m \in Edges(i) : m <= n].k = "open"
  IN \A i \in 1..Len(c.jobs) : CASE c.jobs[i].k = "pcm" -> InInterval(i)
                                [] c.jobs[i].k = "open" -> ~InInterval(i)
                                [] OTHER -> TRUE

CaptureHonest == ClosedUncrossed /\ LossTold /\ JournalInOrder

\* A microphone is connected only while the session may be recorded, and since the last click there
\* was nothing that asks for another: no pause of the user, no lock, no failure.  What opens by
\* itself does so only while the indicators are seen, and only the tracks that have not ended.
ClickFirst ==
  [][\A s \in c'.live \ c.live :
        c.crossed \/
        /\ ~c.needs /\ c.reason = None
        /\ c.request.auto => c.visible /\ s[1] \notin c.gone]_vars

\* A close ends, with it every pause and stop that waits for it, and a process that is told to end
\* does; what is connected when the session is blocked is disconnected
ClosesEnd ==
  /\ c.close.on ~> ~c.close.on
  /\ \A k \in Kinds : k \in c.owed ~> k \notin c.owed
  /\ c.terminating ~> c.exited
  /\ c.reason # None /\ c.live # {} ~> c.live = {} \/ c.crossed
=============================================================================
