------------------------ MODULE MeetingCapture_proofs ------------------------
(***************************************************************************)
(* What the process that records a meeting promises, for any number of     *)
(* clicks, blocks of sound, failures and reports in its queues.            *)
(*                                                                         *)
(* The state is one record, c, and a handler is a chain of operators on    *)
(* it.  Sound(x, y) says of any two records of the chain that the types    *)
(* and the invariant are kept; it is transitive, so a handler is proved    *)
(* one operator at a time, and NextSound says it of every step.            *)
(*                                                                         *)
(* The invariant is Good: who opens, closes and reads (Core), that what is *)
(* opened is used (Meant), and what the GUI holds for ended (GuiOK).  It   *)
(* is given up where a resume is taken while a close is pending            *)
(* (c.crossed): there the code itself loses track of its sources.          *)
(***************************************************************************)
EXTENDS MeetingCapture, TLAPS, SequenceTheorems, WellFoundedInduction

-----------------------------------------------------------------------------
(* The type of every field.  TypedControl holds the fields a close disturbs, TypedRest the others. *)

Phases == {"opening", "recording", "paused", "stopping", "stopped"}
GuiType == [st: Phases, fin: BOOLEAN, wait: BOOLEAN, pend: BOOLEAN, cur: BOOLEAN, epoch: Nat, phys: BOOLEAN,
            terminal: BOOLEAN, vis: BOOLEAN]
CommandType == [k: Commands \cup {None}, epoch: Nat, cur: BOOLEAN, reason: PauseReasons \cup {None}, visible: BOOLEAN]
RequestType == [k: {"open", "resume", "auto", None}, auto: BOOLEAN, epoch: Nat, tracks: SUBSET Tracks,
                reason: Soft \cup {None}]
Codes == {None, "audio-failed", "admission-stale", "mic_change", "far_ended", "audio_failed"}
MessageType == {m \in [k: Told, req: Kinds \cup {None}, tracks: SUBSET Tracks, code: Codes] :
                  m.k = "track-ended" => \E t \in Tracks : m.tracks = {t}}
JobType == [k: {"open", "close", "pcm"}, t: Tracks \cup {None}, req: Kinds \cup {None}]
Sources == Tracks \X BOOLEAN
ReaderType == [pc: {"none", "run", "has"}, stop: BOOLEAN]
OpenerType == {o \in [pc: {"idle", "open", "check"}, todo: SUBSET Tracks, stop: BOOLEAN] : o.pc # "idle" => o.todo # {}}
CloserType == [pc: {"idle", "join", "shut"}, wait: BOOLEAN, has: SUBSET Sources, tracks: SUBSET Tracks, readers: SUBSET Tracks]
CloseType == [on: BOOLEAN, req: Kinds \cup {None}]

\* The fields of the process, by name: an EXCEPT on one of them changes it and no other
Fields == DOMAIN Prepared
LEMMA FieldsAre ==
   /\ {"state", "reasons", "manual", "terminal", "auto", "visible", "recovery", "since"} \subseteq Fields
   /\ {"pauseEpoch", "leased", "leaseTracks", "track", "opening", "request", "close", "finalizing", "final", "waiters"} \subseteq Fields
   /\ {"terminating", "shutdown", "stopped", "exited", "reason", "epoch", "news", "opener", "turn", "made", "live"} \subseteq Fields
   /\ {"reader", "closer", "msgs", "jobs", "due", "failed", "interval", "gui", "cmd", "needs", "gone", "quiet", "crossed", "lost", "lied", "owed"} \subseteq Fields
BY DEF Fields, Prepared

TypedControl(x) ==
  /\ DOMAIN x = Fields
  /\ x.state \in {"prepared", "recording", "paused", "stopped"}
  /\ x.reasons \in SUBSET PauseReasons /\ x.manual \in BOOLEAN /\ x.auto \in BOOLEAN /\ x.terminal \in BOOLEAN
  /\ x.since \in {"none", "paused", "hour"} /\ x.pauseEpoch \in Nat \cup {None}
  /\ x.leaseTracks \in SUBSET Tracks /\ x.needs \in BOOLEAN
  /\ x.close \in CloseType /\ x.opener \in OpenerType /\ x.reader \in [Tracks -> ReaderType] /\ x.closer \in CloserType
  /\ x.gui \in GuiType /\ x.cmd \in CommandType /\ x.news \in Seq({"lock", "gone"})
TypedRest(x) ==
  /\ x.visible \in BOOLEAN /\ x.recovery \in Nat \cup {None} /\ x.leased \in BOOLEAN
  /\ x.track \in [Tracks -> {"live", "paused", "ended"}]
  /\ x.opening \in BOOLEAN /\ x.request \in RequestType
  /\ x.finalizing \in BOOLEAN /\ x.final \in {"succeeded", "failed"} /\ x.waiters \in SUBSET Kinds
  /\ x.terminating \in BOOLEAN /\ x.shutdown \in BOOLEAN /\ x.stopped \in BOOLEAN /\ x.exited \in BOOLEAN
  /\ x.reason \in {None, "lock", "gone"} /\ x.epoch \in Nat
  /\ x.turn \in BOOLEAN /\ x.made \in SUBSET Sources /\ x.live \in SUBSET Sources
  /\ x.msgs \in Seq(MessageType) /\ x.jobs \in Seq(JobType)
  /\ x.due \in BOOLEAN /\ x.failed \in BOOLEAN /\ x.interval \in BOOLEAN
  /\ x.gone \in SUBSET Tracks /\ x.quiet \in BOOLEAN /\ x.crossed \in BOOLEAN /\ x.lost \in BOOLEAN /\ x.lied \in BOOLEAN
  /\ x.owed \in SUBSET Kinds
Typed(x) == TypedControl(x) /\ TypedRest(x)

\* A close leaves the other fields alone
SameRest(x, y) ==
  /\ y.visible = x.visible /\ y.recovery = x.recovery /\ y.leased = x.leased /\ y.track = x.track
  /\ y.opening = x.opening /\ y.request = x.request
  /\ y.finalizing = x.finalizing /\ y.final = x.final /\ y.waiters = x.waiters
  /\ y.terminating = x.terminating /\ y.shutdown = x.shutdown /\ y.stopped = x.stopped /\ y.exited = x.exited
  /\ y.reason = x.reason /\ y.epoch = x.epoch /\ y.turn = x.turn /\ y.made = x.made /\ y.live = x.live
  /\ y.msgs = x.msgs /\ y.jobs = x.jobs /\ y.due = x.due /\ y.failed = x.failed /\ y.interval = x.interval
  /\ y.gone = x.gone /\ y.quiet = x.quiet /\ y.crossed = x.crossed /\ y.lost = x.lost /\ y.lied = x.lied
  /\ y.owed = x.owed

LEMMA RestTyped == ASSUME NEW x, NEW y, TypedRest(x), SameRest(x, y) PROVE TypedRest(y)
BY DEF TypedRest, SameRest

-----------------------------------------------------------------------------
(* What may only halt.  A close, a pause of the program's own and an event of the session change   *)
(* many fields at once and follow one another within one handler; all that the invariant needs of  *)
(* them is Halting, which is transitive: nothing begins, and whoever is told to stop stays told.   *)

Idle(x) == x.opener.pc = "idle"
Barred(x) == x.manual \/ x.terminal \/ x.state = "stopped"

\* Either no thread is told anything, or a close begins and tells all of them
Threadless(x, y) == y.close = x.close /\ y.closer = x.closer /\ y.opener = x.opener /\ y.reader = x.reader
Shutting(x, y) ==
  /\ ~x.close.on /\ y.close.on
  /\ y.opener = [x.opener EXCEPT !.stop = @ \/ ~Idle(x)]
  /\ y.reader = [t \in Tracks |-> [x.reader[t] EXCEPT !.stop = Running(x, t)]]
  /\ y.closer = [pc |-> "join", wait |-> ~Idle(x), has |-> {}, tracks |-> {}, readers |-> {t \in Tracks : Running(x, t)}]
\* The GUI may learn of a new revision, and no more
GuiKept(x, y) ==
  /\ y.cmd.k = x.cmd.k /\ y.cmd.epoch = x.cmd.epoch /\ y.gui.terminal = x.gui.terminal
  /\ y.gui.epoch \in {x.gui.epoch, x.epoch}
\* Nothing that was over begins again, and what has been opened is not left open
Slower(x, y) ==
  /\ SameRest(x, y)
  /\ x.state = "stopped" => y.state = "stopped"
  /\ y.state = "recording" => x.state = "recording"
  /\ x.state = "recording" /\ x.made # {} => y.state = "recording" \/ y.close.on
  /\ y.state = "stopped" /\ x.state # "stopped" /\ (x.opening \/ x.made # {}) => y.close.on
  /\ Threadless(x, y) \/ Shutting(x, y)
  /\ GuiKept(x, y)
  /\ x.manual => y.manual
  /\ x.terminal => y.terminal
  /\ y.needs /\ ~x.needs => y.manual
  /\ y.since = "none" => x.since = "none"
  /\ \A t \in y.leaseTracks : t \in x.leaseTracks \/ (x.since = "none" /\ x.track[t] = "live")
  /\ y.news = x.news \/ (y.news = <<>> /\ (x.news # <<>> => Barred(y)))

LEMMA SlowerRefl == ASSUME NEW x PROVE Slower(x, x)
BY DEF Slower, SameRest, Threadless, GuiKept
LEMMA SlowerTrans == ASSUME NEW x, NEW y, NEW z, TypedControl(x), TypedControl(y), Slower(x, y), Slower(y, z) PROVE Slower(x, z)
<1>1. SameRest(x, z)
  BY DEF Slower, SameRest
<1>2. Threadless(x, z) \/ Shutting(x, z)
  <2>1. CASE Threadless(x, y)
    BY <2>1 DEF Slower, Threadless, Shutting, Running, Idle
  <2>2. CASE Shutting(x, y)
    BY <2>2 DEF Slower, Threadless, Shutting
  <2> QED
    BY <2>1, <2>2 DEF Slower
<1>3. GuiKept(x, z)
  BY DEF Slower, GuiKept, SameRest
<1>4. x.state = "recording" /\ x.made # {} => z.state = "recording" \/ z.close.on
  BY DEF Slower, SameRest, Threadless, Shutting
<1>5. z.state = "stopped" /\ x.state # "stopped" /\ (x.opening \/ x.made # {}) => z.close.on
  BY DEF Slower, SameRest, Threadless, Shutting
<1>6. \A t \in z.leaseTracks : t \in x.leaseTracks \/ (x.since = "none" /\ x.track[t] = "live")
  BY DEF Slower, SameRest
<1>7. z.news = x.news \/ (z.news = <<>> /\ (x.news # <<>> => Barred(z)))
  BY DEF Slower, Barred
<1> QED
  BY <1>1, <1>2, <1>3, <1>4, <1>5, <1>6, <1>7 DEF Slower

LEMMA AddReasonSlower ==
  ASSUME NEW x, TypedControl(x), NEW r
  PROVE LET y == AddReason(x, r)
        IN TypedControl(y) /\ Slower(x, y) /\ y.state = x.state /\ y.close = x.close /\ y.since = x.since /\ (r \in Hard => y.manual)
<1>1. TypedControl(AddReason(x, r))
  BY FieldsAre DEF TypedControl, AddReason, PauseReasons
<1>2. SameRest(x, AddReason(x, r))
  BY FieldsAre DEF TypedControl, SameRest, AddReason
<1>3. Threadless(x, AddReason(x, r)) /\ GuiKept(x, AddReason(x, r))
  BY FieldsAre DEF TypedControl, Threadless, GuiKept, AddReason
<1>4. /\ AddReason(x, r).state = x.state /\ AddReason(x, r).since = x.since /\ AddReason(x, r).leaseTracks = x.leaseTracks
      /\ AddReason(x, r).news = x.news /\ AddReason(x, r).terminal = x.terminal
      /\ x.manual => AddReason(x, r).manual
      /\ AddReason(x, r).needs /\ ~x.needs => AddReason(x, r).manual
      /\ AddReason(x, r).close = x.close /\ (r \in Hard => AddReason(x, r).manual)
  BY FieldsAre DEF TypedControl, AddReason, Hard, Soft
<1> QED
  BY <1>1, <1>2, <1>3, <1>4 DEF Slower

LEMMA ShutSlower ==
  ASSUME NEW x, TypedControl(x), NEW req \in Kinds \cup {None}, ~x.close.on
  PROVE TypedControl(Shut(x, req)) /\ Slower(x, Shut(x, req)) /\ Shut(x, req).close.on
<1> DEFINE y == Shut(x, req)
<1>1. SameRest(x, y)
  BY FieldsAre DEF TypedControl, SameRest, Shut, Revised
<1>2. /\ DOMAIN y = Fields
      /\ y.state = x.state /\ y.reasons = x.reasons /\ y.manual = x.manual /\ y.auto = x.auto /\ y.terminal = x.terminal
      /\ y.since = x.since /\ y.pauseEpoch = x.pauseEpoch /\ y.leaseTracks = x.leaseTracks /\ y.needs = x.needs
      /\ y.news = x.news
  BY FieldsAre DEF TypedControl, Shut, Revised
<1>3. /\ y.close = [on |-> TRUE, req |-> req]
      /\ y.opener = [x.opener EXCEPT !.stop = @ \/ ~Idle(x)]
      /\ y.gui = [x.gui EXCEPT !.cur = FALSE]
      /\ y.cmd = IF x.cmd = NoCommand THEN x.cmd ELSE [x.cmd EXCEPT !.cur = FALSE]
  BY FieldsAre DEF TypedControl, Shut, Revised, Idle
<1>4. y.reader = [t \in Tracks |-> [x.reader[t] EXCEPT !.stop = Running(x, t)]]
  BY FieldsAre DEF TypedControl, Shut, Revised, Running
<1>5. y.closer = [pc |-> "join", wait |-> ~Idle(x), has |-> {}, tracks |-> {}, readers |-> {t \in Tracks : Running(x, t)}]
  BY FieldsAre DEF TypedControl, Shut, Revised, Running, Idle
<1> HIDE DEF y
<1>6a. y.close \in CloseType
  BY <1>3 DEF CloseType
<1>6. y.opener \in OpenerType
  BY <1>3 DEF TypedControl, OpenerType, Idle
<1>7. y.reader \in [Tracks -> ReaderType]
  <2> SUFFICES ASSUME NEW t \in Tracks PROVE [x.reader[t] EXCEPT !.stop = Running(x, t)] \in ReaderType
    BY <1>4
  <2>1. x.reader[t] \in ReaderType
    BY DEF TypedControl
  <2> QED
    BY <2>1 DEF ReaderType, Running
<1>8. y.closer \in CloserType
  BY <1>5 DEF CloserType
<1>9. y.gui \in GuiType
  BY <1>3 DEF TypedControl, GuiType
<1>10. y.cmd \in CommandType
  BY <1>3 DEF TypedControl, CommandType
<1>11. TypedControl(y)
  BY <1>2, <1>6a, <1>6, <1>7, <1>8, <1>9, <1>10 DEF TypedControl
<1>12. Shutting(x, y)
  BY <1>3, <1>4, <1>5 DEF Shutting
<1>13. GuiKept(x, y)
  BY <1>3 DEF TypedControl, GuiKept, GuiType, CommandType
<1>14. Slower(x, y) /\ y.close.on
  BY <1>1, <1>2, <1>3, <1>12, <1>13 DEF Slower
<1> QED
  BY <1>11, <1>14 DEF y

LEMMA BeginPauseSlower == ASSUME NEW x, TypedControl(x), x.epoch \in Nat
  PROVE LET y == BeginPause(x) IN TypedControl(y) /\ Slower(x, y) /\ y.since # "none" /\ y.close = x.close /\ y.state = x.state
<1> DEFINE y == BeginPause(x)
<1>1. TypedControl(y)
  BY FieldsAre DEF TypedControl, BeginPause
<1>2. SameRest(x, y) 
  BY FieldsAre DEF TypedControl, SameRest, BeginPause
<1>3. Threadless(x, y) /\ GuiKept(x, y)
  BY FieldsAre DEF TypedControl, Threadless, GuiKept, BeginPause
<1>4. y.state = x.state /\ y.leaseTracks = x.leaseTracks /\ y.news = x.news /\ y.terminal = x.terminal /\ y.manual = x.manual
      /\ y.needs = x.needs /\ y.since # "none" /\ y.close = x.close
  BY FieldsAre DEF TypedControl, BeginPause
<1> QED
  BY <1>1, <1>2, <1>3, <1>4 DEF Slower

\* Nothing but state, auto and the tracks that are leased may differ
Alike(x, y) ==
  /\ SameRest(x, y) /\ Threadless(x, y) /\ GuiKept(x, y)
  /\ y.since = x.since /\ y.manual = x.manual /\ y.needs = x.needs /\ y.news = x.news

LEMMA LeaseTyped ==
  ASSUME NEW x, TypedControl(x), NEW tracks \in SUBSET Tracks, NEW y, y = [x EXCEPT !.leaseTracks = tracks]
  PROVE TypedControl(y) /\ Alike(x, y) /\ y.leaseTracks = tracks /\ y.state = x.state /\ y.terminal = x.terminal
<1>1. TypedControl(y)
  BY FieldsAre DEF TypedControl
<1>2. SameRest(x, y)
  BY FieldsAre DEF TypedControl, SameRest
<1>3. Threadless(x, y) /\ GuiKept(x, y)
  BY FieldsAre DEF TypedControl, Threadless, GuiKept
<1>4. /\ y.leaseTracks = tracks /\ y.state = x.state /\ y.since = x.since /\ y.manual = x.manual
      /\ y.terminal = x.terminal /\ y.needs = x.needs /\ y.news = x.news
  BY FieldsAre DEF TypedControl
<1> QED
  BY <1>1, <1>2, <1>3, <1>4 DEF Alike

LEMMA PausedTyped ==
  ASSUME NEW x, TypedControl(x), NEW y, y = [x EXCEPT !.state = "paused"]
  PROVE TypedControl(y) /\ Alike(x, y) /\ y.leaseTracks = x.leaseTracks /\ y.state = "paused" /\ y.terminal = x.terminal
<1>1. TypedControl(y)
  BY FieldsAre DEF TypedControl
<1>2. SameRest(x, y)
  BY FieldsAre DEF TypedControl, SameRest
<1>3. Threadless(x, y) /\ GuiKept(x, y)
  BY FieldsAre DEF TypedControl, Threadless, GuiKept
<1>4. /\ y.leaseTracks = x.leaseTracks /\ y.state = "paused" /\ y.since = x.since /\ y.manual = x.manual
      /\ y.terminal = x.terminal /\ y.needs = x.needs /\ y.news = x.news
  BY FieldsAre DEF TypedControl
<1> QED
  BY <1>1, <1>2, <1>3, <1>4 DEF Alike

LEMMA StoppedTyped ==
  ASSUME NEW x, TypedControl(x), NEW y, y = [x EXCEPT !.state = "stopped", !.auto = FALSE]
  PROVE TypedControl(y) /\ Alike(x, y) /\ y.leaseTracks = x.leaseTracks /\ y.state = "stopped" /\ (x.terminal => y.terminal)
<1>1. TypedControl(y)
  BY FieldsAre DEF TypedControl
<1>2. SameRest(x, y)
  BY FieldsAre DEF TypedControl, SameRest
<1>3. Threadless(x, y) /\ GuiKept(x, y)
  BY FieldsAre DEF TypedControl, Threadless, GuiKept
<1>4. /\ y.leaseTracks = x.leaseTracks /\ y.state = "stopped" /\ y.since = x.since /\ y.manual = x.manual
      /\ x.terminal => y.terminal /\ y.needs = x.needs /\ y.news = x.news
  BY FieldsAre DEF TypedControl
<1> QED
  BY <1>1, <1>2, <1>3, <1>4 DEF Alike

LEMMA EndedTyped ==
  ASSUME NEW x, TypedControl(x), NEW y, y = [x EXCEPT !.terminal = TRUE, !.auto = FALSE, !.state = "stopped"]
  PROVE TypedControl(y) /\ Alike(x, y) /\ y.leaseTracks = x.leaseTracks /\ y.state = "stopped" /\ y.terminal
<1>1. TypedControl(y)
  BY FieldsAre DEF TypedControl
<1>2. SameRest(x, y)
  BY FieldsAre DEF TypedControl, SameRest
<1>3. Threadless(x, y) /\ GuiKept(x, y)
  BY FieldsAre DEF TypedControl, Threadless, GuiKept
<1>4. /\ y.leaseTracks = x.leaseTracks /\ y.state = "stopped" /\ y.since = x.since /\ y.manual = x.manual
      /\ y.terminal /\ y.needs = x.needs /\ y.news = x.news
  BY FieldsAre DEF TypedControl
<1> QED
  BY <1>1, <1>2, <1>3, <1>4 DEF Alike

LEMMA StateTyped ==
  ASSUME NEW x, TypedControl(x), NEW y, y = [x EXCEPT !.state = "stopped"]
  PROVE TypedControl(y) /\ Alike(x, y) /\ y.leaseTracks = x.leaseTracks /\ y.state = "stopped" /\ (x.terminal => y.terminal)
<1>1. TypedControl(y)
  BY FieldsAre DEF TypedControl
<1>2. SameRest(x, y)
  BY FieldsAre DEF TypedControl, SameRest
<1>3. Threadless(x, y) /\ GuiKept(x, y)
  BY FieldsAre DEF TypedControl, Threadless, GuiKept
<1>4. /\ y.leaseTracks = x.leaseTracks /\ y.state = "stopped" /\ y.since = x.since /\ y.manual = x.manual
      /\ x.terminal => y.terminal /\ y.needs = x.needs /\ y.news = x.news
  BY FieldsAre DEF TypedControl
<1> QED
  BY <1>1, <1>2, <1>3, <1>4 DEF Alike

\* A recording that is over
LEMMA StoppedSlower ==
  ASSUME NEW x, NEW y, Alike(x, y), y.leaseTracks = x.leaseTracks, y.state = "stopped", x.terminal => y.terminal,
         x.close.on \/ ~(x.opening \/ x.made # {})
  PROVE Slower(x, y) /\ y.close = x.close
BY DEF Slower, Alike, Threadless

LEMMA CloseSlower ==
  ASSUME NEW x, TypedControl(x), x.epoch \in Nat, x.track \in [Tracks -> {"live", "paused", "ended"}], NEW r, NEW req \in Kinds \cup {None},
         r \in Final \/ x.state # "stopped" \/ x.close.on
  PROVE TypedControl(Close(x, r, req)) /\ Slower(x, Close(x, r, req)) /\ Close(x, r, req).close.on
        /\ (r \in Hard => Close(x, r, req).manual) /\ (~x.close.on => Close(x, r, req).state # "recording")
        /\ (r \in Final => Close(x, r, req).state = "stopped")
<1> DEFINE tracks == IF r \in Soft /\ x.since = "none" THEN {t \in Tracks : x.track[t] = "live"} ELSE x.leaseTracks
           w == [x EXCEPT !.leaseTracks = tracks]
           y == AddReason(w, r)
           z == IF r \in Final THEN [y EXCEPT !.state = "stopped", !.auto = FALSE] ELSE y
           closed == Close(x, r, req)
<1>1. tracks \in SUBSET Tracks
  BY DEF TypedControl
<1>2. TypedControl(w) /\ Slower(x, w) /\ w.close = x.close /\ w.state = x.state
  <2> HIDE DEF tracks, w
  <2>1. TypedControl(w) /\ Alike(x, w) /\ w.leaseTracks = tracks /\ w.state = x.state /\ w.terminal = x.terminal
    BY <1>1, LeaseTyped DEF w
  <2> QED
    BY <2>1 DEF Slower, Alike, Threadless, tracks
<1> HIDE DEF w
<1>3. TypedControl(y) /\ Slower(w, y) /\ y.state = w.state /\ y.close = w.close /\ (r \in Hard => y.manual)
  BY <1>2, AddReasonSlower
<1>4. Slower(x, y) /\ y.state = x.state /\ y.close = x.close
  BY <1>2, <1>3, SlowerTrans
<1>5. /\ x.close.on => closed = z
      /\ ~x.close.on /\ r \in Final => closed = Shut(z, req)
      /\ ~x.close.on /\ r \notin Final => closed = BeginPause([Shut(z, req) EXCEPT !.state = "paused"])
  <2> HIDE DEF y
  <2>1. z.close = x.close
    BY <1>3, <1>4, StoppedTyped DEF Alike, Threadless
  <2>2. closed = CASE z.close.on -> z
       [] ~z.close.on /\ r \in Final -> Shut(z, req)
       [] OTHER -> BeginPause([Shut(z, req) EXCEPT !.state = "paused"])
    BY DEF Close, w, y
  <2> HIDE DEF closed, z
  <2> QED
    BY <2>1, <2>2
<1> SUFFICES TypedControl(closed) /\ Slower(x, closed) /\ closed.close.on /\ (r \in Hard => closed.manual)
             /\ (~x.close.on => closed.state # "recording") /\ (r \in Final => closed.state = "stopped")
  OBVIOUS
<1> HIDE DEF y, closed
<1>6. CASE r \in Final
  <2>1. TypedControl(z) /\ Alike(y, z) /\ z.leaseTracks = y.leaseTracks /\ z.state = "stopped" /\ (y.terminal => z.terminal)
    <3>1. z = [y EXCEPT !.state = "stopped", !.auto = FALSE]
      BY <1>6
    <3> HIDE DEF z
    <3>2. TypedControl(y)
      BY <1>3
    <3> QED
      BY ONLY <3>1, <3>2, StoppedTyped, Zenon
  <2> HIDE DEF z
  <2>2. CASE x.close.on
    <3>1. Slower(y, z) /\ z.close = y.close
      BY <1>4, <2>1, <2>2, StoppedSlower
    <3>2. Slower(x, z) /\ z.close.on
      BY <1>3, <1>4, <2>1, <2>2, <3>1, SlowerTrans
    <3>3. closed = z
      BY <1>5, <2>2
    <3> QED
      BY <1>6, <2>1, <3>2, <3>3 DEF Final, Hard
  <2>3. CASE ~x.close.on
    <3> DEFINE v == Shut(z, req)
    <3>1. z.close = x.close
      BY <1>4, <2>1 DEF Alike, Threadless
    <3>2. TypedControl(v) /\ Slower(z, v) /\ v.close.on
      BY <2>1, <2>3, <3>1, ShutSlower
    <3> HIDE DEF v
    <3>3. Slower(y, v)
      <4>1. SameRest(y, v)
        BY <2>1, <3>2 DEF Slower, SameRest, Alike
      <4>2. Threadless(y, v) \/ Shutting(y, v)
        BY <2>1, <3>2 DEF Slower, Alike, Threadless, Shutting, Idle, Running
      <4>3. GuiKept(y, v)
        BY <2>1, <3>2 DEF Slower, Alike, GuiKept, SameRest
      <4>4. v.news = y.news \/ (v.news = <<>> /\ (y.news # <<>> => Barred(v)))
        BY <2>1, <3>2 DEF Slower, Alike
      <4> QED
        BY <2>1, <3>2, <4>1, <4>2, <4>3, <4>4 DEF Slower, Alike, SameRest
    <3>4. v.state = "stopped"
      BY <2>1, <3>2 DEF Slower
    <3>5. Slower(x, v)
      BY <1>3, <1>4, <3>2, <3>3, SlowerTrans
    <3> QED
      BY <1>5, <1>6, <2>3, <3>2, <3>4, <3>5 DEF Final, Hard, v
  <2> QED
    BY <2>2, <2>3
<1>7. CASE r \notin Final /\ x.close.on
  BY <1>3, <1>4, <1>5, <1>7
<1>8. CASE r \notin Final /\ ~x.close.on
  <2> DEFINE s == Shut(y, req)
             u == [s EXCEPT !.state = "paused"]
             v == BeginPause(u)
  <2>1. TypedControl(s) /\ Slower(y, s) /\ s.close.on
    BY <1>3, <1>4, <1>8, ShutSlower
  <2>2. closed = v
    BY <1>5, <1>8
  <2> HIDE DEF s
  <2>3. TypedControl(u) /\ Alike(s, u) /\ u.leaseTracks = s.leaseTracks /\ u.state = "paused" /\ u.terminal = s.terminal
    BY <2>1, PausedTyped
  <2> HIDE DEF u
  <2>4. u.close.on /\ u.epoch \in Nat
    BY <1>4, <2>1, <2>3 DEF Slower, SameRest, Alike, Threadless
  <2>5. Slower(y, u)
    <3>1. SameRest(y, u)
      BY <2>1, <2>3 DEF Slower, SameRest, Alike
    <3>2. Threadless(y, u) \/ Shutting(y, u)
      BY <2>1, <2>3 DEF Slower, Alike, Threadless, Shutting, Idle, Running
    <3>3. GuiKept(y, u)
      BY <2>1, <2>3 DEF Slower, Alike, GuiKept, SameRest
    <3>4. u.news = y.news \/ (u.news = <<>> /\ (y.news # <<>> => Barred(u)))
      <4>1. y.state # "stopped" /\ s.state = y.state /\ s.news = y.news
        BY <1>4, <1>8, <2>1, FieldsAre DEF s, Shut, Revised, TypedControl
      <4> QED
        BY <4>1, <2>3 DEF Alike
    <3> QED
      BY <1>4, <1>8, <2>1, <2>3, <2>4, <3>1, <3>2, <3>3, <3>4 DEF Slower, Alike, SameRest
  <2>6. TypedControl(v) /\ Slower(u, v) /\ v.close.on /\ v.state = "paused"
    BY <2>3, <2>4, BeginPauseSlower
  <2> HIDE DEF v
  <2>7. Slower(y, v)
    BY <1>3, <2>3, <2>5, <2>6, SlowerTrans
  <2>8. Slower(x, v)
    BY <1>3, <1>4, <2>6, <2>7, SlowerTrans
  <2>9. r \in Hard => v.manual
    BY <1>3, <2>7 DEF Slower
  <2> QED
    BY <1>8, <2>2, <2>6, <2>8, <2>9
<1> QED
  BY <1>6, <1>7, <1>8

\* What is told to the GUI
LEMMA TellPausedSlower ==
  ASSUME NEW x, TypedControl(x), x.epoch \in Nat, NEW self \in BOOLEAN
  PROVE LET y == TellPaused(x, self)
        IN TypedControl(y) /\ Slower(x, y) /\ y.state = x.state /\ y.manual = x.manual /\ y.close = x.close
<1> DEFINE y == TellPaused(x, self)
<1>1. /\ y = [x EXCEPT !.gui = y.gui] 
      /\ y.gui = [[[x.gui EXCEPT !.cur = TRUE, !.epoch = x.epoch, !.pend = FALSE] EXCEPT
                     !.fin = @ \/ (self /\ ~x.gui.phys)] EXCEPT !.st = IF x.gui.terminal THEN @ ELSE "paused"]
  BY FieldsAre DEF TellPaused, Heard, Informed, TypedControl, GuiType
<1> HIDE DEF y
<1>2. y.gui \in GuiType /\ y.gui.terminal = x.gui.terminal /\ y.gui.epoch = x.epoch
  BY <1>1 DEF TypedControl, GuiType, Phases
<1>3. SameRest(x, y)
  BY <1>1, FieldsAre DEF TypedControl, SameRest
<1>4. TypedControl(y)
  BY <1>1, <1>2, FieldsAre DEF TypedControl
<1>5. Threadless(x, y) /\ y.cmd = x.cmd
  BY <1>1, FieldsAre DEF TypedControl, Threadless
<1>6. /\ y.leaseTracks = x.leaseTracks /\ y.state = x.state /\ y.since = x.since /\ y.manual = x.manual
      /\ y.terminal = x.terminal /\ y.needs = x.needs /\ y.news = x.news
  BY <1>1, FieldsAre DEF TypedControl
<1>7. Slower(x, y)
  BY <1>2, <1>3, <1>5, <1>6 DEF Slower, GuiKept
<1> QED
  BY <1>4, <1>5, <1>6, <1>7 DEF Threadless, y

\* What becomes barred for an opening on its way is a close
Stops(x, y) ==
  /\ y.needs /\ ~x.needs /\ x.opening => y.close.on
  /\ x.finalizing /\ y.close.on => x.close.on \/ Recording(x) \/ x.state = "recording"
  /\ y.close.on /\ ~x.close.on => y.state # "recording"
Halting(x, y) == Slower(x, y) /\ Stops(x, y)

LEMMA SlowerTyped == ASSUME NEW x, NEW y, Typed(x), TypedControl(y), Slower(x, y) PROVE Typed(y)
BY RestTyped DEF Typed, Slower

LEMMA HaltingRefl == ASSUME NEW x PROVE Halting(x, x)
BY SlowerRefl DEF Halting, Stops

LEMMA HaltingTrans ==
  ASSUME NEW x, NEW y, NEW z, Typed(x), Typed(y), Halting(x, y), Halting(y, z)
  PROVE Halting(x, z)
<1>1. Slower(x, z)
  BY SlowerTrans DEF Halting, Typed
<1>2. Stops(x, z)
  BY DEF Halting, Stops, Slower, SameRest, Threadless, Shutting, Recording
<1> QED
  BY <1>1, <1>2 DEF Halting

LEMMA CloseHalting ==
  ASSUME NEW x, Typed(x), NEW r, NEW req \in Kinds \cup {None},
         r \in Final \/ x.state # "stopped" \/ x.close.on,
         x.finalizing => x.close.on \/ Recording(x) \/ x.state = "recording"
  PROVE LET y == Close(x, r, req)
        IN Typed(y) /\ Halting(x, y) /\ y.close.on /\ (r \in Hard => y.manual) /\ (r \in Final => y.state = "stopped")
<1>1. TypedControl(Close(x, r, req)) /\ Slower(x, Close(x, r, req)) /\ Close(x, r, req).close.on
      /\ (r \in Hard => Close(x, r, req).manual) /\ (~x.close.on => Close(x, r, req).state # "recording")
      /\ (r \in Final => Close(x, r, req).state = "stopped")
  BY CloseSlower DEF Typed, TypedRest
<1>2. Typed(Close(x, r, req))
  BY <1>1, SlowerTyped
<1> QED
  BY <1>1, <1>2 DEF Halting, Stops

LEMMA AutopauseHalting ==
  ASSUME NEW x, Typed(x), NEW r
  PROVE LET y == Autopause(x, r)
        IN Typed(y) /\ Halting(x, y) /\ (r \in Hard => Barred(y)) /\ (x.state # "stopped" /\ x.opening => y.close.on)
<1> DEFINE y == AddReason(x, r)
           z == CASE y.state = "recording" \/ y.opening -> Close(y, r, None)
             [] y.state = "prepared" /\ ~y.opening -> BeginPause([y EXCEPT !.state = "paused"])
             [] OTHER -> y
           w == Autopause(x, r)
<1> SUFFICES Typed(w) /\ Halting(x, w) /\ (r \in Hard => Barred(w)) /\ (x.state # "stopped" /\ x.opening => w.close.on)
  OBVIOUS
<1>1. CASE x.state = "stopped"
  <2>1. w = x
    BY <1>1 DEF Autopause
  <2> QED
    BY <1>1, <2>1, HaltingRefl DEF Barred
<1>2. CASE x.state # "stopped"
  <2>1. TypedControl(y) /\ Slower(x, y) /\ y.state = x.state /\ y.close = x.close /\ (r \in Hard => y.manual)
    BY AddReasonSlower DEF Typed
  <2>2. Typed(y)
    BY <2>1, SlowerTyped
  <2>3. w = IF r \in x.reasons THEN z ELSE TellPaused(z, TRUE)
    BY <1>2 DEF Autopause, Typed, TypedControl
  <2> HIDE DEF y
  <2>4. TypedControl(z) /\ Slower(x, z) /\ (r \in Hard => z.manual) /\ (x.opening => z.close.on)
        /\ (x.finalizing /\ z.close.on => x.close.on \/ Recording(x) \/ x.state = "recording")
        /\ (z.close.on /\ ~x.close.on => z.state # "recording")
    <3>1. CASE y.state = "recording" \/ y.opening
      <4>1. z = Close(y, r, None)
        BY <3>1
      <4>2. Typed(z) /\ Slower(y, z) /\ z.close.on /\ (r \in Hard => z.manual) /\ (~y.close.on => z.state # "recording")
        <5>1. y.finalizing => y.close.on \/ Recording(y) \/ y.state = "recording"
          BY <3>1 DEF Recording
        <5> QED
          BY <4>1, <2>1, <2>2, <1>2, <5>1, CloseHalting DEF Halting, Stops
      <4>3. Recording(x) \/ x.state = "recording"
        BY <2>1, <3>1 DEF Slower, SameRest, Recording
      <4> QED
        BY <4>2, <4>3, <2>1, <2>2, SlowerTrans DEF Typed
    <3>2. CASE y.state = "prepared" /\ ~y.opening
      <4> DEFINE u == [y EXCEPT !.state = "paused"]
      <4>1. z = BeginPause(u)
        BY <3>2
      <4>2. TypedControl(u) /\ Alike(y, u) /\ u.leaseTracks = y.leaseTracks /\ u.state = "paused" /\ u.terminal = y.terminal
        BY <2>1, PausedTyped
      <4> HIDE DEF u
      <4>3. Slower(y, u)
        BY <3>2, <4>2 DEF Slower, Alike, Threadless
      <4>4. u.epoch \in Nat
        BY <2>2, <4>3 DEF Slower, SameRest, Typed, TypedRest
      <4>5. TypedControl(z) /\ Slower(u, z) /\ z.close = u.close
        BY <4>1, <4>2, <4>4, BeginPauseSlower
      <4> HIDE DEF z
      <4>6. Slower(y, z)
        BY <2>1, <4>2, <4>3, <4>5, SlowerTrans
      <4>7. Slower(x, z)
        BY <2>1, <4>5, <4>6, SlowerTrans DEF Typed
      <4>8. ~x.opening /\ (r \in Hard => z.manual)
        BY <2>1, <3>2, <4>6 DEF Slower, SameRest
      <4>9. z.close = x.close
        BY <2>1, <4>2, <4>5 DEF Alike, Threadless
      <4> QED
        BY <4>5, <4>7, <4>8, <4>9
    <3>3. CASE ~(y.state = "recording" \/ y.opening) /\ ~(y.state = "prepared" /\ ~y.opening)
      <4>1. z = y
        BY <3>3
      <4> QED
        BY <4>1, <3>3, <2>1 DEF Slower, SameRest
    <3> QED
      BY <3>1, <3>2, <3>3
  <2> HIDE DEF z
  <2>5. z.epoch \in Nat
    BY <2>4 DEF Slower, SameRest, Typed, TypedRest
  <2>6. TypedControl(TellPaused(z, TRUE)) /\ Slower(z, TellPaused(z, TRUE)) /\ TellPaused(z, TRUE).manual = z.manual
        /\ TellPaused(z, TRUE).close = z.close /\ TellPaused(z, TRUE).state = z.state
    BY <2>4, <2>5, TellPausedSlower
  <2>7. Slower(x, TellPaused(z, TRUE))
    BY <2>4, <2>6, SlowerTrans DEF Typed
  <2>8. TypedControl(w) /\ Slower(x, w) /\ (r \in Hard => w.manual) /\ (x.opening => w.close.on)
        /\ (x.finalizing /\ w.close.on => x.close.on \/ Recording(x) \/ x.state = "recording")
        /\ (w.close.on /\ ~x.close.on => w.state # "recording")
    BY <2>3, <2>4, <2>6, <2>7
  <2> QED
    BY <2>8, SlowerTyped DEF Halting, Stops, Barred
<1> QED
  BY <1>1, <1>2

LEMMA EndHalting ==
  ASSUME NEW x, Typed(x), NEW r \in Final,
         NEW y, y = [(IF Recording(x) THEN Close(x, r, None) ELSE x) EXCEPT !.terminal = TRUE, !.auto = FALSE, !.state = "stopped"]
  PROVE Typed(y) /\ Halting(x, y) /\ y.terminal /\ y.state = "stopped"
<1> DEFINE w == IF Recording(x) THEN Close(x, r, None) ELSE x
<1>1. Typed(w) /\ Halting(x, w) /\ (w.close.on \/ ~Recording(x))
  <2>1. CASE Recording(x)
    <3> DEFINE u == Close(x, r, None)
    <3>1. Typed(u) /\ Halting(x, u) /\ u.close.on
      BY <2>1, CloseHalting
    <3> QED
      BY <2>1, <3>1
  <2>2. CASE ~Recording(x)
    BY <2>2, HaltingRefl
  <2> QED
    BY <2>1, <2>2
<1> HIDE DEF w
<1>2. y = [w EXCEPT !.terminal = TRUE, !.auto = FALSE, !.state = "stopped"]
  BY DEF w
<1>3. TypedControl(w)
  BY <1>1 DEF Typed
<1>4. TypedControl(y) /\ Alike(w, y) /\ y.leaseTracks = w.leaseTracks /\ y.state = "stopped" /\ y.terminal
  BY ONLY <1>2, <1>3, EndedTyped, Zenon
<1>5. w.close.on \/ ~(w.opening \/ w.made # {})
  BY <1>1 DEF Recording, Halting, Slower, SameRest
<1>6. Slower(w, y) /\ y.close = w.close
  BY <1>4, <1>5, StoppedSlower
<1>7. Slower(x, y)
  BY <1>1, <1>3, <1>4, <1>6, SlowerTrans DEF Halting, Typed
<1>8. Stops(x, y)
  BY <1>1, <1>4, <1>6 DEF Halting, Stops, Alike
<1>9. Typed(y)
  BY <1>4, <1>7, SlowerTyped
<1> QED
  BY <1>4, <1>7, <1>8, <1>9 DEF Halting

LEMMA SessionEventHalting ==
  ASSUME NEW x, Typed(x), NEW r
  PROVE LET y == SessionEvent(x, r) IN Typed(y) /\ Halting(x, y) /\ (r \in {"lock", "gone"} => Barred(y))
<1> DEFINE y == SessionEvent(x, r)
<1> SUFFICES Typed(y) /\ Halting(x, y) /\ (r \in {"lock", "gone"} => Barred(y))
  OBVIOUS
<1>0. x.state # "unknown"
  BY DEF Typed, TypedControl
<1>1. CASE x.state = "stopped"
  <2>1. y = x
    BY <1>1 DEF SessionEvent
  <2> QED
    BY <1>1, <2>1, HaltingRefl DEF Barred
<1>2. CASE x.state # "stopped" /\ r = "gone"
  <2>1. y = [(IF Recording(x) THEN Close(x, "gone", None) ELSE x) EXCEPT !.terminal = TRUE, !.auto = FALSE, !.state = "stopped"]
    BY <1>0, <1>2 DEF SessionEvent
  <2> HIDE DEF y
  <2>2. "gone" \in Final
    BY DEF Final
  <2>3. Typed(y) /\ Halting(x, y) /\ y.terminal
    BY <2>1, <2>2, EndHalting, Zenon
  <2> QED
    BY <2>3 DEF Barred
<1>3. CASE x.state # "stopped" /\ r = "lock"
  <2>1. y = Autopause(x, "lock")
    BY <1>0, <1>3 DEF SessionEvent
  <2> QED
    BY <1>3, <2>1, AutopauseHalting DEF Hard
<1>4. CASE x.state # "stopped" /\ r \notin {"lock", "gone"}
  <2>1. y = x
    BY <1>0, <1>4 DEF SessionEvent
  <2> QED
    BY <1>4, <2>1, HaltingRefl
<1> QED
  BY <1>1, <1>2, <1>3, <1>4

LEMMA ExpiredHalting == ASSUME NEW x, Typed(x) PROVE Typed(Expired(x)) /\ Halting(x, Expired(x))
<1>1. CASE x.since # "hour"
  BY <1>1, HaltingRefl DEF Expired
<1>2. CASE x.since = "hour"
  <2>1. Expired(x) = [(IF Recording(x) THEN Close(x, "stop", None) ELSE x) EXCEPT !.terminal = TRUE, !.auto = FALSE, !.state = "stopped"]
    BY <1>2 DEF Expired
  <2>2. "stop" \in Final
    BY DEF Final
  <2> QED
    BY <2>1, <2>2, EndHalting, Zenon
<1> QED
  BY <1>1, <1>2

\* A method whose news are all told is one of an empty list of them
Unread(x) == [x EXCEPT !.news = <<>>]
LEMMA UnreadTyped ==
  ASSUME NEW x, Typed(x)
  PROVE LET y == Unread(x)
        IN Typed(y) /\ Alike(y, y) /\ SameRest(x, y) /\ Threadless(x, y) /\ GuiKept(x, y)
           /\ y.news = <<>> /\ y.state = x.state /\ y.since = x.since /\ y.manual = x.manual /\ y.terminal = x.terminal
           /\ y.needs = x.needs /\ y.leaseTracks = x.leaseTracks
<1> DEFINE y == Unread(x)
<1>1. TypedControl(y)
  BY FieldsAre, EmptySeq DEF Typed, TypedControl, Unread
<1>2. SameRest(x, y)
  BY FieldsAre DEF Typed, TypedControl, SameRest, Unread
<1>3. Threadless(x, y) /\ GuiKept(x, y)
  BY FieldsAre DEF Typed, TypedControl, Threadless, GuiKept, Unread
<1>4. /\ y.news = <<>> /\ y.state = x.state /\ y.since = x.since /\ y.manual = x.manual /\ y.terminal = x.terminal
      /\ y.needs = x.needs /\ y.leaseTracks = x.leaseTracks
  BY FieldsAre DEF Typed, TypedControl, Unread
<1>5. Typed(y)
  BY <1>1, <1>2, RestTyped DEF Typed
<1> HIDE DEF y
<1>6. Alike(y, y)
  BY DEF Alike, SameRest, Threadless, GuiKept
<1> QED
  BY <1>2, <1>3, <1>4, <1>5, <1>6 DEF y

\* A set of numbers has a least one
LEMMA LeastNumber == ASSUME NEW S, S \subseteq Nat, S # {} PROVE \E m \in S : \A k \in S : m <= k
<1>1. PICK m \in S : \A k \in S : ~(<<k, m>> \in OpToRel(<, Nat))
  BY WFMin, NatLessThanWellFounded
<1>2. ASSUME NEW k \in S, k < m PROVE FALSE
  <2>1. k \in Nat /\ m \in Nat
    BY <1>1
  <2>2. <<k, m>> \in OpToRel(<, Nat)
    BY <1>2, <2>1 DEF OpToRel
  <2> QED
    BY <1>1, <2>2
<1>3. ASSUME NEW k \in S PROVE m <= k
  <2>1. k \in Nat /\ m \in Nat
    BY <1>1
  <2>2. ~(k < m)
    BY <1>2
  <2> QED
    BY <2>1, <2>2
<1> QED
  BY <1>3

\* The news one after the other: the recursive function exists, and each of its values may only halt
LEMMA DrainedHalting ==
  ASSUME NEW x, Typed(x)
  PROVE Typed(Drained(x)) /\ Halting(x, Drained(x)) /\ Drained(x).news = <<>>
<1> DEFINE base == Unread(x)
           all == Append(x.news, x.reason)
           IsAfter(g, m) == g = [n \in 0..m |-> IF n = 0 THEN base ELSE SessionEvent(g[n - 1], all[n])]
           Missing == {m \in Nat : ~\E g : IsAfter(g, m)}
<1>1. x.news \in Seq({"lock", "gone"}) /\ Len(all) = Len(x.news) + 1 /\ Len(all) \in Nat
  BY AppendProperties, LenProperties DEF Typed, TypedControl, TypedRest
<1>2. Missing = {}
  <2> SUFFICES ASSUME Missing # {} PROVE FALSE
    OBVIOUS
  <2>1. PICK m \in Missing : \A k \in Missing : m <= k
    BY LeastNumber
  <2>2. CASE m = 0
    <3>1. IsAfter([n \in 0..0 |-> base], 0)
      OBVIOUS
    <3> QED
      BY <2>2, <3>1
  <2>3. CASE m # 0
    <3>a. m \in Nat
      OBVIOUS
    <3>0. m - 1 \in Nat /\ m - 1 < m
      BY <2>3, <3>a
    <3>b. m - 1 \notin Missing
      <4> HIDE DEF Missing
      <4> QED
        BY <2>1, <3>a, <3>0
    <3>1. m \in Nat /\ m - 1 \in Nat /\ m - 1 \notin Missing
      BY <3>a, <3>0, <3>b
    <3>2. PICK g : IsAfter(g, m - 1)
      BY <3>1
    <3> DEFINE h == [n \in 0..m |-> IF n = m THEN SessionEvent(g[m - 1], all[m]) ELSE g[n]]
    <3>3. \A n \in 0..(m - 1) : g[n] = IF n = 0 THEN base ELSE SessionEvent(g[n - 1], all[n])
      BY <3>1, <3>2
    <3>c. \A n \in 0..m : h[n] = IF n = m THEN SessionEvent(g[m - 1], all[m]) ELSE g[n]
      OBVIOUS
    <3>4. \A n \in 0..m : h[n] = IF n = 0 THEN base ELSE SessionEvent(h[n - 1], all[n])
      <4> SUFFICES ASSUME NEW n \in 0..m PROVE h[n] = IF n = 0 THEN base ELSE SessionEvent(h[n - 1], all[n])
        OBVIOUS
      <4> HIDE DEF h, base
      <4>1. CASE n = 0
        BY <2>3, <3>1, <3>3, <3>c, <4>1
      <4>2. CASE n # 0 /\ n = m
        <5>1. n - 1 \in 0..m /\ n - 1 # m
          BY <3>1, <4>2
        <5>2. h[n] = SessionEvent(g[m - 1], all[m]) /\ h[n - 1] = g[m - 1]
          BY <3>c, <4>2, <5>1
        <5> QED
          BY <4>2, <5>2
      <4>3. CASE n # 0 /\ n # m
        <5>1. n \in 0..(m - 1) /\ n - 1 \in 0..m /\ n - 1 # m
          BY <3>1, <4>3
        <5> QED
          BY <3>3, <3>c, <4>3, <5>1
      <4> QED
        BY <4>1, <4>2, <4>3
    <3>5. IsAfter(h, m)
      BY <3>4
    <3> QED
      BY <2>1, <3>5
  <2> QED
    BY <2>2, <2>3
<1> DEFINE after == CHOOSE g : IsAfter(g, Len(all))
<1>3. IsAfter(after, Len(all))
  BY <1>1, <1>2
<1>4. Drained(x) = after[Len(all)]
  BY DEF Drained, Unread
<1> HIDE DEF after
<1>5. \A n \in 0..Len(all) : after[n] = IF n = 0 THEN base ELSE SessionEvent(after[n - 1], all[n])
  BY <1>3
<1> HIDE DEF base
<1> DEFINE Reads(n) == Typed(after[n]) /\ Halting(base, after[n]) /\ (n # 0 /\ x.news # <<>> => Barred(after[n]))
           Wrong == {n \in 0..Len(all) : ~Reads(n)}
<1>6. Typed(base)
  BY UnreadTyped DEF base
<1>7. Reads(0)
  BY <1>1, <1>5, <1>6, HaltingRefl
<1>8. ASSUME NEW n \in 1..Len(all), Reads(n - 1) PROVE Reads(n)
  <2>1. n \in 0..Len(all) /\ n - 1 \in 0..Len(all) /\ n # 0
    BY <1>1
  <2>2. after[n] = SessionEvent(after[n - 1], all[n])
    BY <1>5, <2>1
  <2>3. Typed(after[n]) /\ Halting(after[n - 1], after[n]) /\ (all[n] \in {"lock", "gone"} => Barred(after[n]))
    BY <1>8, <2>2, SessionEventHalting
  <2>4. Halting(base, after[n])
    BY <1>6, <1>8, <2>3, HaltingTrans
  <2>5. x.news # <<>> => Barred(after[n])
    <3>1. CASE n = 1 /\ x.news # <<>>
      <4>1. all[1] = x.news[1] /\ x.news[1] \in {"lock", "gone"}
        BY <1>1, <3>1, AppendProperties, EmptySeq, ElementOfSeq
      <4> QED
        BY <2>3, <3>1, <4>1
    <3>2. CASE n # 1 /\ x.news # <<>>
      BY <1>8, <2>1, <2>3, <3>2 DEF Halting, Slower, Barred
    <3> QED
      BY <3>1, <3>2
  <2> QED
    BY <2>3, <2>4, <2>5
<1>9. Wrong = {}
  <2> SUFFICES ASSUME Wrong # {} PROVE FALSE
    OBVIOUS
  <2>1. Wrong \subseteq Nat
    BY <1>1
  <2>2. PICK m \in Wrong : \A k \in Wrong : m <= k
    BY <2>1, LeastNumber
  <2>3. m # 0
    BY <1>7, <2>2
  <2>4. m \in 1..Len(all) /\ m - 1 \in 0..Len(all) /\ m \in Nat /\ m - 1 \in Nat /\ m - 1 < m
    BY <1>1, <2>2, <2>3
  <2>5. m - 1 \notin Wrong
    BY <2>2, <2>4
  <2>6. Reads(m - 1)
    BY <2>4, <2>5
  <2> QED
    BY <1>8, <2>2, <2>4, <2>6
<1> HIDE DEF all
<1>10. Reads(Len(all)) /\ Len(all) # 0
  BY <1>1, <1>9
<1> DEFINE y == Drained(x)
<1>11. Typed(y) /\ Halting(base, y) /\ (x.news # <<>> => Barred(y))
  BY <1>4, <1>10
<1> HIDE DEF y
<1>12. /\ SameRest(x, base) /\ Threadless(x, base) /\ GuiKept(x, base)
       /\ base.news = <<>> /\ base.state = x.state /\ base.since = x.since /\ base.manual = x.manual
       /\ base.terminal = x.terminal /\ base.needs = x.needs /\ base.leaseTracks = x.leaseTracks
  BY UnreadTyped DEF base
<1>13. y.news = <<>>
  BY <1>11, <1>12 DEF Halting, Slower
<1>14. Halting(x, y)
  <2>1. SameRest(x, y)
    BY <1>11, <1>12 DEF Halting, Slower, SameRest
  <2>2. Threadless(x, y) \/ Shutting(x, y)
    BY <1>11, <1>12 DEF Halting, Slower, Threadless, Shutting, Idle, Running
  <2>3. GuiKept(x, y)
    BY <1>11, <1>12 DEF Halting, Slower, GuiKept, SameRest
  <2>4. Slower(x, y)
    BY <1>11, <1>12, <1>13, <2>1, <2>2, <2>3 DEF Halting, Slower, SameRest
  <2>5. Stops(x, y)
    BY <1>11, <1>12 DEF Halting, Stops, SameRest, Recording, Threadless
  <2> QED
    BY <2>4, <2>5 DEF Halting
<1> QED
  BY <1>11, <1>13, <1>14 DEF y

-----------------------------------------------------------------------------
(* The inductive invariant.  Each part is about the fields of its own name, so that a step that     *)
(* leaves those alone keeps it (OpeningFrame ... ClicksFrame).                                       *)

\* The reports of a kind in the queue of the control thread
Of(x, k) == {i \in 1..Len(x.msgs) : x.msgs[i].k = k}
Ends(x) == Of(x, "opened") \cup Of(x, "open-failed")
TracksOf(set) == {s[1] : s \in set}
Active(x) == x.state = "recording" \/ x.close.on
First(x, k) == x.jobs # <<>> /\ x.jobs[1].k = k
Still(x) == \A t \in Tracks : ~Running(x, t)

\* One opening at a time: its thread, or its last report in the queue, and no recording meanwhile;
\* a close has told the thread to stop; it opens sources that were asked for and have not ended
OpeningOK(x) ==
  /\ ~Idle(x) => x.opening
  /\ x.opening => ~Idle(x) \/ Ends(x) # {}
  /\ Ends(x) # {} => x.opening /\ Idle(x)
  /\ \A i, j \in Ends(x) : i = j
  /\ x.close.on /\ ~Idle(x) => x.opener.stop
  /\ ~Idle(x) => x.opener.todo # {} /\ x.opener.todo \subseteq x.request.tracks
  /\ x.opener.pc = "open" /\ x.opener.todo = x.request.tracks => x.made = {}
  /\ x.opener.pc = "check" \/ Of(x, "opened") # {} => x.made # {}
  /\ x.opening => /\ x.state # "recording" /\ ~x.finalizing /\ Still(x)
                  /\ TracksOf(x.made) \subseteq x.request.tracks /\ x.request.tracks \cap x.gone = {}

\* One close at a time: its thread, or its report in the queue.  From the moment it shuts sources no
\* other thread has one, what it has found is all there is, and nothing of the recording is told later
ClosingOK(x) ==
  /\ x.closer.pc # "idle" => x.close.on
  /\ Of(x, "closed") # {} => x.close.on /\ x.closer.pc = "idle" /\ Idle(x) /\ x.live = {} /\ Still(x)
  /\ \A i, j \in Of(x, "closed") : i = j
  /\ \A i \in Of(x, "closed") : x.msgs[i].tracks = TracksOf(x.made)
  /\ \A i \in Of(x, "closed") : \A j \in 1..Len(x.msgs) :
       j > i => /\ x.msgs[j].k \notin {"opened", "open-failed", "track-ended"}
                /\ x.msgs[j].k = "disk-failed" => x.failed
  /\ x.closer.pc # "idle" => \A t \in Tracks : Running(x, t) => t \in x.closer.readers
  /\ x.closer.pc = "shut" \/ (x.closer.pc = "join" /\ ~x.closer.wait) => Idle(x)
  /\ x.closer.pc = "shut" => x.live \subseteq x.closer.has /\ x.closer.tracks = TracksOf(x.made)

\* What is connected or read has been made; what is made is used or being closed; a field that says
\* that all is quiet (quiet) is not ahead of the sources
SourcesOK(x) ==
  /\ x.live \subseteq x.made
  /\ \A t \in Tracks : Running(x, t) \/ x.track[t] = "live" => t \in TracksOf(x.made)
  /\ x.state = "recording" => x.made # {}
  /\ x.state = "stopped" => ~x.opening \/ x.close.on
  /\ x.finalizing => ~x.close.on /\ x.made = {}
  /\ x.quiet => x.made = {} /\ ~x.opening
  /\ x.shutdown => x.state = "stopped"
  /\ x.close.on => x.state # "recording"

\* An interval of the journal is begun first and ended last; who reads has one to write to, or the
\* disk has failed; a loss is told by the result or by a report on its way
DiskOK(x) ==
  /\ x.lost => x.final = "failed" \/ Of(x, "disk-failed") # {}
  /\ Of(x, "disk-failed") # {} => x.failed \/ Active(x)
  /\ Of(x, "finalized") # {} => x.finalizing /\ ~x.failed /\ x.jobs = <<>> /\ ~x.interval
  /\ \A i, j \in Of(x, "finalized") : i = j
  /\ \A i \in 1..Len(x.jobs) :
       /\ x.jobs[i].k = "open" => i = 1 /\ ~x.interval
       /\ x.jobs[i].k = "close" => i = Len(x.jobs) /\ x.finalizing
  /\ First(x, "pcm") => x.interval
  /\ x.failed => x.jobs = <<>>
  /\ x.interval \/ First(x, "open") => x.failed \/ Active(x) \/ x.finalizing
  /\ ~Still(x) => x.failed \/ x.interval \/ First(x, "open")
  /\ ~x.lied

\* Leave to record is older than a block that came after it, whoever holds it: the thread that opens,
\* the lease, the GUI, a command on its way
AdmissionOK(x) ==
  /\ x.needs => Barred(x) \/ x.news # <<>>
  /\ ~Idle(x) /\ ~x.opener.stop => ~x.needs \/ x.epoch > x.request.epoch
  /\ x.recovery # None => x.recovery < x.epoch \/ (x.recovery = x.epoch /\ x.news = <<>>)
  /\ x.request.epoch <= x.epoch /\ x.gui.epoch <= x.epoch /\ x.cmd.epoch <= x.epoch
  /\ Of(x, "track-ended") # {} => Active(x)
\* A source that has ended is not opened by itself: something bars it, its report waits, or no lease is on it
GoneOK(x) ==
  \A t \in x.gone :
    \/ Barred(x) \/ \E i \in Of(x, "track-ended") : t \in x.msgs[i].tracks
    \/ t \notin x.leaseTracks /\ (x.since = "none" => x.track[t] # "live")
ClicksOK(x) == AdmissionOK(x) /\ GoneOK(x)

CoreButGone(x) == OpeningOK(x) /\ ClosingOK(x) /\ SourcesOK(x) /\ DiskOK(x) /\ AdmissionOK(x)
Core(x) == OpeningOK(x) /\ ClosingOK(x) /\ SourcesOK(x) /\ DiskOK(x) /\ ClicksOK(x)
\* What has been opened is used, or is being closed
Meant(x) == x.made # {} => Active(x) \/ x.opening

LEMMA HaltingFacts ==
  ASSUME NEW x, NEW y, Typed(x), Halting(x, y)
  PROVE /\ \A k : Of(y, k) = Of(x, k)
        /\ Ends(y) = Ends(x)
        /\ Idle(y) <=> Idle(x)
        /\ y.opener.pc = x.opener.pc /\ y.opener.todo = x.opener.todo
        /\ x.opener.stop => y.opener.stop
        /\ \A t \in Tracks : Running(y, t) <=> Running(x, t)
        /\ Still(y) <=> Still(x)
        /\ \A k : First(y, k) <=> First(x, k)
        /\ x.made # {} => (Active(x) => Active(y))
        /\ Barred(x) => Barred(y)
<1>1. \A k : Of(y, k) = Of(x, k)
  BY DEF Halting, Slower, SameRest, Of
<1>2. Ends(y) = Ends(x)
  BY <1>1 DEF Ends
<1>3. y.opener.pc = x.opener.pc /\ y.opener.todo = x.opener.todo /\ (x.opener.stop => y.opener.stop)
  BY DEF Halting, Slower, Threadless, Shutting, Typed, TypedControl, OpenerType
<1>4. \A t \in Tracks : Running(y, t) <=> Running(x, t)
  <2>1. CASE Threadless(x, y)
    BY <2>1 DEF Threadless, Running
  <2>2. CASE Shutting(x, y)
    BY <2>2 DEF Shutting, Running, Typed, TypedControl, ReaderType
  <2> QED
    BY <2>1, <2>2 DEF Halting, Slower
<1>5. \A k : First(y, k) <=> First(x, k)
  BY DEF Halting, Slower, SameRest, First
<1>6. x.made # {} => (Active(x) => Active(y))
  BY DEF Halting, Slower, Threadless, Shutting, Active
<1>7. Barred(x) => Barred(y)
  BY DEF Halting, Slower, Barred
<1> QED
  BY <1>1, <1>2, <1>3, <1>4, <1>5, <1>6, <1>7 DEF Idle, Still

LEMMA HaltingButGone ==
  ASSUME NEW x, NEW y, Typed(x), Typed(y), Halting(x, y), CoreButGone(x)
  PROVE CoreButGone(y)
<1>a. /\ \A k : Of(y, k) = Of(x, k)
      /\ Ends(y) = Ends(x)
      /\ Idle(y) <=> Idle(x)
      /\ y.opener.pc = x.opener.pc /\ y.opener.todo = x.opener.todo
      /\ x.opener.stop => y.opener.stop
      /\ \A t \in Tracks : Running(y, t) <=> Running(x, t)
      /\ Still(y) <=> Still(x)
      /\ \A k : First(y, k) <=> First(x, k)
      /\ x.made # {} => (Active(x) => Active(y))
      /\ Barred(x) => Barred(y)
  BY HaltingFacts
<1>b. /\ y.opening = x.opening /\ y.request = x.request /\ y.made = x.made /\ y.live = x.live /\ y.gone = x.gone
      /\ y.finalizing = x.finalizing /\ y.msgs = x.msgs /\ y.jobs = x.jobs /\ y.track = x.track /\ y.quiet = x.quiet
      /\ y.shutdown = x.shutdown /\ y.lost = x.lost /\ y.final = x.final /\ y.failed = x.failed /\ y.interval = x.interval
      /\ y.lied = x.lied /\ y.epoch = x.epoch /\ y.recovery = x.recovery
  BY DEF Halting, Slower, SameRest
<1>c. /\ x.state = "stopped" => y.state = "stopped"
      /\ y.state = "recording" => x.state = "recording"
      /\ y.state = "stopped" /\ x.state # "stopped" /\ (x.opening \/ x.made # {}) => y.close.on
      /\ x.close.on => y.close.on
      /\ x.finalizing /\ y.close.on => x.close.on \/ x.made # {} \/ x.opening \/ x.state = "recording"
      /\ y.close.on /\ ~x.close.on => y.state # "recording"
  BY DEF Halting, Slower, Threadless, Shutting, Stops, Recording
<1>e. Active(x) => Active(y)
  BY <1>a, <1>c DEF CoreButGone, SourcesOK, Active
<1>d. \/ y.close.on = x.close.on /\ y.closer = x.closer /\ y.opener = x.opener
      \/ /\ ~x.close.on /\ y.close.on /\ (~Idle(x) => y.opener.stop)
         /\ y.closer.pc = "join" /\ y.closer.wait = ~Idle(x) /\ y.closer.readers = {t \in Tracks : Running(x, t)}
  BY DEF Halting, Slower, Threadless, Shutting, Typed, TypedControl, OpenerType, Idle
<1>1. OpeningOK(y)
  <2>1. /\ ~Idle(y) => y.opening
        /\ y.opening => ~Idle(y) \/ Ends(y) # {}
        /\ Ends(y) # {} => y.opening /\ Idle(y)
        /\ \A i, j \in Ends(y) : i = j
    BY <1>a, <1>b DEF CoreButGone, OpeningOK
  <2>2. y.close.on /\ ~Idle(y) => y.opener.stop
    BY <1>a, <1>d DEF CoreButGone, OpeningOK
  <2>3. /\ ~Idle(y) => y.opener.todo # {} /\ y.opener.todo \subseteq y.request.tracks
        /\ y.opener.pc = "open" /\ y.opener.todo = y.request.tracks => y.made = {}
        /\ y.opener.pc = "check" \/ Of(y, "opened") # {} => y.made # {}
    BY <1>a, <1>b DEF CoreButGone, OpeningOK
  <2>4. y.opening => /\ y.state # "recording" /\ ~y.finalizing /\ Still(y)
                     /\ TracksOf(y.made) \subseteq y.request.tracks /\ y.request.tracks \cap y.gone = {}
    BY <1>a, <1>b, <1>c DEF CoreButGone, OpeningOK
  <2> QED
    BY <2>1, <2>2, <2>3, <2>4 DEF OpeningOK
<1>2. ClosingOK(y)
  <2>1. CASE y.close.on = x.close.on /\ y.closer = x.closer
    BY <1>a, <1>b, <2>1 DEF CoreButGone, ClosingOK
  <2>2. CASE /\ ~x.close.on /\ y.close.on
             /\ y.closer.pc = "join" /\ y.closer.wait = ~Idle(x) /\ y.closer.readers = {t \in Tracks : Running(x, t)}
    <3>1. Of(y, "closed") = {}
      BY <1>a, <2>2 DEF CoreButGone, ClosingOK
    <3> QED
      BY <1>a, <2>2, <3>1 DEF ClosingOK
  <2> QED
    BY <1>d, <2>1, <2>2
<1>3. SourcesOK(y)
  <2>1. /\ y.live \subseteq y.made
        /\ \A t \in Tracks : Running(y, t) \/ y.track[t] = "live" => t \in TracksOf(y.made)
        /\ y.state = "recording" => y.made # {}
        /\ y.quiet => y.made = {} /\ ~y.opening
        /\ y.shutdown => y.state = "stopped"
        /\ y.close.on => y.state # "recording"
    BY <1>a, <1>b, <1>c DEF CoreButGone, SourcesOK
  <2>2. y.state = "stopped" => ~y.opening \/ y.close.on
    BY <1>b, <1>c DEF CoreButGone, SourcesOK
  <2>3. y.finalizing => ~y.close.on /\ y.made = {}
    BY <1>b, <1>c DEF CoreButGone, SourcesOK, OpeningOK
  <2> QED
    BY <2>1, <2>2, <2>3 DEF SourcesOK
<1>4. DiskOK(y)
  <2>1. /\ y.lost => y.final = "failed" \/ Of(y, "disk-failed") # {}
        /\ Of(y, "finalized") # {} => y.finalizing /\ ~y.failed /\ y.jobs = <<>> /\ ~y.interval
        /\ \A i, j \in Of(y, "finalized") : i = j
        /\ ~y.lied
    BY <1>a, <1>b DEF CoreButGone, DiskOK
  <2>2. /\ \A i \in 1..Len(y.jobs) :
             /\ y.jobs[i].k = "open" => i = 1 /\ ~y.interval
             /\ y.jobs[i].k = "close" => i = Len(y.jobs) /\ y.finalizing
        /\ First(y, "pcm") => y.interval
        /\ y.failed => y.jobs = <<>>
    BY <1>a, <1>b DEF CoreButGone, DiskOK
  <2>3. /\ Of(y, "disk-failed") # {} => y.failed \/ Active(y)
        /\ y.interval \/ First(y, "open") => y.failed \/ Active(y) \/ y.finalizing
        /\ ~Still(y) => y.failed \/ y.interval \/ First(y, "open")
    BY <1>a, <1>b, <1>e DEF CoreButGone, DiskOK
  <2> QED
    BY <2>1, <2>2, <2>3 DEF DiskOK
<1>5. AdmissionOK(y)
  <2>1. y.needs => Barred(y) \/ y.news # <<>>
    BY <1>a DEF CoreButGone, AdmissionOK, Halting, Slower, Barred
  <2>2. ~Idle(y) /\ ~y.opener.stop => ~y.needs \/ y.epoch > y.request.epoch
    <3>1. ~Idle(x) => x.opening
      BY DEF CoreButGone, OpeningOK
    <3>2. y.needs /\ ~x.needs /\ x.opening => y.close.on
      BY DEF Halting, Stops
    <3>3. y.close.on /\ ~Idle(y) => y.opener.stop
      BY <1>1 DEF OpeningOK
    <3> QED
      BY <1>a, <1>b, <3>1, <3>2, <3>3 DEF CoreButGone, AdmissionOK
  <2>3. y.recovery # None => y.recovery < y.epoch \/ (y.recovery = y.epoch /\ y.news = <<>>)
    BY <1>b DEF CoreButGone, AdmissionOK, Halting, Slower
  <2>4. y.request.epoch <= y.epoch /\ y.gui.epoch <= y.epoch /\ y.cmd.epoch <= y.epoch
    <3>1. y.gui.epoch \in {x.gui.epoch, x.epoch} /\ y.cmd.epoch = x.cmd.epoch
      BY DEF Halting, Slower, GuiKept
    <3>2. x.epoch \in Nat
      BY DEF Typed, TypedRest
    <3> QED
      BY <1>b, <3>1, <3>2 DEF CoreButGone, AdmissionOK
  <2>5. Of(y, "track-ended") # {} => Active(y)
    BY <1>a, <1>e DEF CoreButGone, AdmissionOK
  <2> QED
    BY <2>1, <2>2, <2>3, <2>4, <2>5 DEF AdmissionOK
<1> QED
  BY <1>1, <1>2, <1>3, <1>4, <1>5 DEF CoreButGone

LEMMA HaltingGone == ASSUME NEW x, NEW y, Typed(x), Halting(x, y), GoneOK(x) \/ Barred(y) PROVE GoneOK(y)
<1>1. CASE Barred(y)
  BY <1>1 DEF GoneOK
<1>2. CASE GoneOK(x)
  <2>1. Of(y, "track-ended") = Of(x, "track-ended") /\ (Barred(x) => Barred(y))
    BY HaltingFacts
  <2>2. y.gone = x.gone /\ y.track = x.track /\ y.msgs = x.msgs
    BY DEF Halting, Slower, SameRest
  <2> QED
    BY <1>2, <2>1, <2>2 DEF GoneOK, Halting, Slower
<1> QED
  BY <1>1, <1>2

LEMMA HaltingCore ==
  ASSUME NEW x, NEW y, Typed(x), Typed(y), Halting(x, y), Core(x)
  PROVE Core(y)
<1>1. CoreButGone(x) /\ GoneOK(x)
  BY DEF Core, ClicksOK, CoreButGone
<1>2. CoreButGone(y) /\ GoneOK(y)
  BY <1>1, HaltingButGone, HaltingGone
<1> QED
  BY <1>2 DEF Core, ClicksOK, CoreButGone

LEMMA HaltingMeant ==
  ASSUME NEW x, NEW y, Typed(x), Halting(x, y), Meant(x) \/ y.close.on
  PROVE Meant(y)
BY HaltingFacts DEF Meant, Halting, Slower, SameRest, Active

\* Nothing but the fields in S differs
Keeps(x, y, S) == DOMAIN y = Fields /\ \A f \in Fields \ S : y[f] = x[f]

\* A recording the GUI holds for ended has ended, or its command to end is on its way
GuiOK(x) ==
  /\ x.gui.terminal => x.terminating \/ x.cmd.k = "stop" \/ x.state = "stopped"
  /\ x.cmd.k = "shutdown" => x.state = "stopped"
Good(x) == Core(x) /\ Meant(x) /\ GuiOK(x)
\* A step that keeps the types and, unless a resume crosses a close, the invariant
Sound(x, y) ==
  /\ Typed(y)
  /\ x.crossed => y.crossed
  /\ Good(x) /\ ~y.crossed => Good(y)

LEMMA HaltingSound == ASSUME NEW x, NEW y, Typed(x), Typed(y), Halting(x, y) PROVE Sound(x, y)
<1>1. Good(x) => GuiOK(y)
  BY DEF Good, GuiOK, Halting, Slower, GuiKept, SameRest
<1>2. Good(x) => Core(y) /\ Meant(y)
  BY HaltingCore, HaltingMeant DEF Good
<1> QED
  BY <1>1, <1>2 DEF Sound, Good, Halting, Slower, SameRest

OpeningFields == {"opener", "opening", "msgs", "close", "request", "made", "state", "finalizing", "reader", "gone"}
ClosingFields == {"closer", "close", "msgs", "opener", "live", "reader", "made", "failed"}
SourcesFields == {"live", "made", "reader", "track", "state", "opening", "close", "finalizing", "quiet", "shutdown"}
DiskFields == {"lost", "final", "msgs", "failed", "state", "close", "finalizing", "jobs", "interval", "reader", "lied"}
ClicksFields == {"needs", "manual", "terminal", "state", "news", "opener", "epoch", "request", "recovery", "gui", "cmd", "msgs",
                 "close", "gone", "leaseTracks", "since", "track"}

LEMMA OpeningFrame == ASSUME NEW x, NEW y, NEW S, Keeps(x, y, S), S \cap OpeningFields = {}, OpeningOK(x) PROVE OpeningOK(y)
<1>1. \A f \in OpeningFields : y[f] = x[f]
  BY FieldsAre DEF Keeps, OpeningFields
<1> QED
  BY <1>1 DEF OpeningOK, OpeningFields, Ends, Of, Idle, Still, Running
LEMMA ClosingFrame == ASSUME NEW x, NEW y, NEW S, Keeps(x, y, S), S \cap ClosingFields = {}, ClosingOK(x) PROVE ClosingOK(y)
<1>1. \A f \in ClosingFields : y[f] = x[f]
  BY FieldsAre DEF Keeps, ClosingFields
<1> QED
  BY <1>1 DEF ClosingOK, ClosingFields, Of, Idle, Still, Running
LEMMA SourcesFrame == ASSUME NEW x, NEW y, NEW S, Keeps(x, y, S), S \cap SourcesFields = {}, SourcesOK(x) PROVE SourcesOK(y)
<1>1. \A f \in SourcesFields : y[f] = x[f]
  BY FieldsAre DEF Keeps, SourcesFields
<1> QED
  BY <1>1 DEF SourcesOK, SourcesFields, Running
LEMMA DiskFrame == ASSUME NEW x, NEW y, NEW S, Keeps(x, y, S), S \cap DiskFields = {}, DiskOK(x) PROVE DiskOK(y)
<1>1. \A f \in DiskFields : y[f] = x[f]
  BY FieldsAre DEF Keeps, DiskFields
<1> QED
  BY <1>1 DEF DiskOK, DiskFields, Of, Active, First, Still, Running
LEMMA ClicksFrame == ASSUME NEW x, NEW y, NEW S, Keeps(x, y, S), S \cap ClicksFields = {}, ClicksOK(x) PROVE ClicksOK(y)
<1>1. \A f \in ClicksFields : y[f] = x[f]
  BY FieldsAre DEF Keeps, ClicksFields
<1> QED
  BY <1>1 DEF ClicksOK, AdmissionOK, GoneOK, ClicksFields, Of, Active, Idle, Barred

\* A thread reports
Posted(x, y, m) ==
  /\ y.msgs \in Seq(MessageType)
  /\ Len(y.msgs) = Len(x.msgs) + 1 /\ Len(x.msgs) \in Nat
  /\ \A i \in 1..Len(x.msgs) : y.msgs[i] = x.msgs[i]
  /\ y.msgs[Len(x.msgs) + 1] = m
  /\ \A k : Of(x, k) \subseteq 1..Len(x.msgs) /\ Of(y, k) = IF m.k = k THEN Of(x, k) \cup {Len(x.msgs) + 1} ELSE Of(x, k)

LEMMA PostFacts ==
  ASSUME NEW x, NEW y, NEW m, x.msgs \in Seq(MessageType), m \in MessageType, y.msgs = Append(x.msgs, m)
  PROVE Posted(x, y, m)
<1>1. /\ y.msgs \in Seq(MessageType)
      /\ Len(y.msgs) = Len(x.msgs) + 1 /\ Len(x.msgs) \in Nat
      /\ \A i \in 1..Len(x.msgs) : y.msgs[i] = x.msgs[i]
      /\ y.msgs[Len(x.msgs) + 1] = m
  BY AppendProperties, LenProperties
<1>2. ASSUME NEW k PROVE Of(y, k) = IF m.k = k THEN Of(x, k) \cup {Len(x.msgs) + 1} ELSE Of(x, k)
  <2>1. ASSUME NEW i PROVE i \in 1..Len(y.msgs) <=> i \in 1..Len(x.msgs) \/ i = Len(x.msgs) + 1
    BY <1>1
  <2> QED
    BY <1>1, <2>1 DEF Of
<1>3. \A k : Of(x, k) \subseteq 1..Len(x.msgs)
  BY DEF Of
<1> QED
  BY <1>1, <1>2, <1>3 DEF Posted

\* The control thread takes a report
LEMMA TailFacts ==
  ASSUME NEW x, NEW y, x.msgs \in Seq(MessageType), x.msgs # <<>>, y.msgs = Tail(x.msgs)
  PROVE /\ y.msgs \in Seq(MessageType) /\ Head(x.msgs) = x.msgs[1] /\ x.msgs[1] \in MessageType
        /\ Len(x.msgs) = Len(y.msgs) + 1 /\ Len(y.msgs) \in Nat
        /\ \A i \in 1..Len(y.msgs) : y.msgs[i] = x.msgs[i + 1]
        /\ \A k : \A i : i \in Of(y, k) <=> i \in Nat /\ i # 0 /\ i + 1 \in Of(x, k)
<1>1. /\ y.msgs \in Seq(MessageType) /\ Head(x.msgs) = x.msgs[1] /\ x.msgs[1] \in MessageType
      /\ Len(x.msgs) = Len(y.msgs) + 1 /\ Len(y.msgs) \in Nat
      /\ \A i \in 1..Len(y.msgs) : y.msgs[i] = x.msgs[i + 1]
  BY HeadTailProperties, LenProperties
<1>2. ASSUME NEW k, NEW i PROVE i \in Of(y, k) <=> i \in Nat /\ i # 0 /\ i + 1 \in Of(x, k)
  BY <1>1 DEF Of
<1> QED
  BY <1>1, <1>2

\* A close is well typed wherever it is called, and shuts
LEMMA CloseTyped ==
  ASSUME NEW x, Typed(x), NEW r, NEW req \in Kinds \cup {None}
  PROVE LET y == Close(x, r, req) IN Typed(y) /\ SameRest(x, y) /\ y.close.on
<1> DEFINE closed == Close(x, r, req)
<1>0. TypedControl(x) /\ x.epoch \in Nat /\ x.track \in [Tracks -> {"live", "paused", "ended"}]
  BY DEF Typed, TypedRest
<1> SUFFICES TypedControl(closed) /\ SameRest(x, closed) /\ closed.close.on
  BY RestTyped DEF Typed
<1>1. CASE r \in Final \/ x.state # "stopped" \/ x.close.on
  BY <1>0, <1>1, CloseSlower DEF Slower
<1>2. CASE ~(r \in Final \/ x.state # "stopped" \/ x.close.on)
  <2> DEFINE tracks == IF r \in Soft /\ x.since = "none" THEN {t \in Tracks : x.track[t] = "live"} ELSE x.leaseTracks
             w == [x EXCEPT !.leaseTracks = tracks]
             y == AddReason(w, r)
             s == Shut(y, req)
             u == [s EXCEPT !.state = "paused"]
  <2>1. tracks \in SUBSET Tracks
    BY <1>0 DEF TypedControl
  <2>2. TypedControl(w) /\ Alike(x, w)
    <3> HIDE DEF tracks
    <3> QED
      BY <1>0, <2>1, LeaseTyped
  <2> HIDE DEF w
  <2>3. TypedControl(y) /\ Slower(w, y) /\ y.close = w.close
    BY <2>2, AddReasonSlower
  <2>4. closed = BeginPause(u)
    BY <1>2, <2>2, <2>3 DEF Close, w, Alike, Threadless
  <2> HIDE DEF y, closed
  <2>5. TypedControl(s) /\ Slower(y, s) /\ s.close.on
    BY <1>2, <2>2, <2>3, ShutSlower DEF Alike, Threadless
  <2> HIDE DEF s
  <2>6. TypedControl(u) /\ Alike(s, u)
    BY <2>5, PausedTyped
  <2> HIDE DEF u
  <2>7. SameRest(x, u)
    BY <2>2, <2>3, <2>5, <2>6 DEF Alike, Slower, SameRest
  <2>8. TypedControl(BeginPause(u)) /\ Slower(u, BeginPause(u)) /\ BeginPause(u).close = u.close
    BY <1>0, <2>6, <2>7, BeginPauseSlower DEF SameRest
  <2> QED
    BY <2>4, <2>5, <2>6, <2>7, <2>8 DEF Slower, SameRest, Alike, Threadless
<1> QED
  BY <1>1, <1>2

LEMMA SoundTrans == ASSUME NEW x, NEW y, NEW z, Sound(x, y), Sound(y, z) PROVE Sound(x, z)
BY DEF Sound

\* A process that has not begun, or has ended
LEMMA FreshTyped == ASSUME NEW x, x = Prepared PROVE Typed(x)
<1>1. DOMAIN x = Fields
  BY DEF Fields
<1>2. /\ x.state = "prepared" /\ x.reasons = {} /\ ~x.manual /\ ~x.auto /\ ~x.terminal
      /\ x.manual \in BOOLEAN /\ x.auto \in BOOLEAN /\ x.terminal \in BOOLEAN
      /\ x.since = "none" /\ x.pauseEpoch = None /\ x.leaseTracks = {} /\ x.needs \in BOOLEAN
      /\ x.news = <<>>
  BY DEF Prepared
<1>3. x.close \in CloseType /\ x.opener \in OpenerType
  BY DEF Prepared, CloseType, OpenerType, NoOpener
<1>4. x.reader \in [Tracks -> ReaderType] /\ x.closer \in CloserType
  BY DEF Prepared, ReaderType, NoReader, CloserType, NoCloser
<1>5. x.gui \in GuiType
  BY DEF Prepared, GuiType, Phases
<1>6. x.cmd \in CommandType
  BY DEF Prepared, CommandType, Commands
<1>7. x.news \in Seq({"lock", "gone"})
  BY <1>2, EmptySeq
<1>8. TypedControl(x)
  BY <1>1, <1>2, <1>3, <1>4, <1>5, <1>6, <1>7 DEF TypedControl
<1>9. /\ x.visible \in BOOLEAN /\ x.recovery \in Nat \cup {None} /\ x.leased \in BOOLEAN
      /\ x.track \in [Tracks -> {"live", "paused", "ended"}]
  BY DEF Prepared
<1>10. x.request \in RequestType
  BY DEF Prepared, RequestType, NoRequest
<1>11. /\ x.opening \in BOOLEAN
       /\ x.finalizing \in BOOLEAN /\ x.final \in {"succeeded", "failed"} /\ x.waiters \in SUBSET Kinds
       /\ x.terminating \in BOOLEAN /\ x.shutdown \in BOOLEAN /\ x.stopped \in BOOLEAN /\ x.exited \in BOOLEAN
  BY DEF Prepared
<1>12. /\ x.reason \in {None, "lock", "gone"} /\ x.epoch \in Nat
       /\ x.turn \in BOOLEAN /\ x.made \in SUBSET Sources /\ x.live \in SUBSET Sources
       /\ x.msgs = <<>> /\ x.jobs = <<>>
  BY DEF Prepared
<1>13. x.msgs \in Seq(MessageType) /\ x.jobs \in Seq(JobType)
  BY <1>12, EmptySeq
<1>14. /\ x.due \in BOOLEAN /\ x.failed \in BOOLEAN /\ x.interval \in BOOLEAN
       /\ x.gone \in SUBSET Tracks /\ x.quiet \in BOOLEAN /\ x.crossed \in BOOLEAN /\ x.lost \in BOOLEAN /\ x.lied \in BOOLEAN
       /\ x.owed \in SUBSET Kinds
  BY DEF Prepared
<1>15. TypedRest(x)
  BY <1>9, <1>10, <1>11, <1>12, <1>13, <1>14 DEF TypedRest
<1> QED
  BY <1>8, <1>15 DEF Typed

Unused(x) ==
  /\ x.opener = NoOpener /\ x.closer = NoCloser /\ x.reader = [t \in Tracks |-> NoReader]
  /\ x.state = "prepared" /\ ~x.opening /\ ~x.close.on /\ ~x.finalizing /\ x.made = {} /\ x.live = {}
  /\ x.msgs = <<>> /\ x.jobs = <<>> /\ ~x.interval /\ ~x.lost /\ ~x.lied /\ ~x.failed /\ ~x.needs /\ x.gone = {}
  /\ x.track = [t \in Tracks |-> "ended"] /\ ~x.shutdown /\ ~x.quiet
  /\ x.recovery = None /\ x.request.epoch = 0 /\ x.gui.epoch = 0 /\ x.cmd.epoch = 0 /\ x.epoch = 0
  /\ ~x.gui.terminal /\ x.cmd.k \notin {"shutdown"}

LEMMA UnusedGood == ASSUME NEW x, Unused(x) PROVE Good(x)
<1>1. \A k : Of(x, k) = {}
  BY DEF Unused, Of
<1>2. Ends(x) = {} /\ Idle(x) /\ Still(x)
  BY <1>1 DEF Ends, Unused, Idle, NoOpener, Still, Running, NoReader
<1>3. OpeningOK(x)
  BY <1>1, <1>2 DEF OpeningOK, Unused, NoOpener, Idle
<1>4. ClosingOK(x)
  BY <1>1, <1>2 DEF ClosingOK, Unused, NoCloser
<1>5. SourcesOK(x)
  BY <1>2 DEF SourcesOK, Unused, Still
<1>6. DiskOK(x)
  BY <1>1, <1>2 DEF DiskOK, Unused, First
<1>7. ClicksOK(x)
  BY <1>1, <1>2 DEF ClicksOK, AdmissionOK, GoneOK, Unused
<1>8. Meant(x) /\ GuiOK(x)
  BY DEF Meant, GuiOK, Unused
<1> QED
  BY <1>3, <1>4, <1>5, <1>6, <1>7, <1>8 DEF Good, Core

LEMMA FreshGood == ASSUME NEW x, x = Prepared PROVE Good(x)
<1>1. Unused(x)
  BY DEF Prepared, Unused, NoRequest
<1> QED
  BY <1>1, UnusedGood

LEMMA ExitSound == ASSUME NEW x, Typed(x) PROVE Sound(x, Exited(x)) /\ (~x.lied => Good(Exited(x)))
<1> DEFINE p == Prepared
           y == [p EXCEPT !.exited = TRUE, !.cmd = NoCommand, !.lied = x.lied, !.crossed = x.crossed]
<1>1. Typed(p)
  BY FreshTyped
<1>2. Unused(p)
  BY DEF Prepared, Unused, NoRequest
<1>3. y = Exited(x)
  BY DEF Exited
<1> HIDE DEF p
<1>4. x.lied \in BOOLEAN /\ x.crossed \in BOOLEAN /\ NoCommand \in CommandType
  BY DEF Typed, TypedRest, NoCommand, CommandType, Commands
<1>5. TypedControl(y)
  BY <1>1, <1>4, FieldsAre DEF Typed, TypedControl
<1>6. TypedRest(y)
  BY <1>1, <1>4, FieldsAre DEF Typed, TypedControl, TypedRest
<1>7a. /\ y.opener = p.opener /\ y.closer = p.closer /\ y.reader = p.reader /\ y.state = p.state /\ y.opening = p.opening
       /\ y.close = p.close /\ y.finalizing = p.finalizing /\ y.made = p.made /\ y.live = p.live /\ y.msgs = p.msgs
       /\ y.jobs = p.jobs /\ y.interval = p.interval /\ y.lost = p.lost /\ y.lied = x.lied /\ y.failed = p.failed
       /\ y.needs = p.needs /\ y.gone = p.gone /\ y.track = p.track /\ y.shutdown = p.shutdown /\ y.quiet = p.quiet
       /\ y.recovery = p.recovery /\ y.request = p.request /\ y.gui = p.gui /\ y.epoch = p.epoch /\ y.cmd = NoCommand
  BY <1>1, FieldsAre DEF Typed, TypedControl
<1>7b. NoCommand.epoch = 0 /\ NoCommand.k = None
  BY DEF NoCommand
<1>7. ~x.lied => Unused(y)
  <2>1. None # "shutdown"
    BY NoneAssumption DEF Commands
  <2> HIDE DEF y
  <2>2. y.cmd.k \notin {"shutdown"} /\ y.cmd.epoch = 0
    BY <1>7a, <1>7b, <2>1
  <2> QED
    BY <1>2, <1>7a, <2>2 DEF Unused
<1>8. y.crossed = x.crossed
  BY <1>1, FieldsAre DEF Typed, TypedControl
<1> HIDE DEF y
<1>9. Good(x) => ~x.lied
  BY DEF Good, Core, DiskOK
<1> QED
  BY <1>3, <1>5, <1>6, <1>7, <1>8, <1>9, UnusedGood DEF Sound, Typed

\* What a step need not name keeps its type
TypedIn(y, S) ==
  /\ "state" \in S => y.state \in {"prepared", "recording", "paused", "stopped"}
  /\ "reasons" \in S => y.reasons \in SUBSET PauseReasons
  /\ "manual" \in S => y.manual \in BOOLEAN
  /\ "auto" \in S => y.auto \in BOOLEAN
  /\ "terminal" \in S => y.terminal \in BOOLEAN
  /\ "since" \in S => y.since \in {"none", "paused", "hour"}
  /\ "pauseEpoch" \in S => y.pauseEpoch \in Nat \cup {None}
  /\ "leaseTracks" \in S => y.leaseTracks \in SUBSET Tracks
  /\ "needs" \in S => y.needs \in BOOLEAN
  /\ "close" \in S => y.close \in CloseType
  /\ "opener" \in S => y.opener \in OpenerType
  /\ "reader" \in S => y.reader \in [Tracks -> ReaderType]
  /\ "closer" \in S => y.closer \in CloserType
  /\ "gui" \in S => y.gui \in GuiType
  /\ "cmd" \in S => y.cmd \in CommandType
  /\ "news" \in S => y.news \in Seq({"lock", "gone"})
  /\ "visible" \in S => y.visible \in BOOLEAN
  /\ "recovery" \in S => y.recovery \in Nat \cup {None}
  /\ "leased" \in S => y.leased \in BOOLEAN
  /\ "track" \in S => y.track \in [Tracks -> {"live", "paused", "ended"}]
  /\ "opening" \in S => y.opening \in BOOLEAN
  /\ "request" \in S => y.request \in RequestType
  /\ "finalizing" \in S => y.finalizing \in BOOLEAN
  /\ "final" \in S => y.final \in {"succeeded", "failed"}
  /\ "waiters" \in S => y.waiters \in SUBSET Kinds
  /\ "terminating" \in S => y.terminating \in BOOLEAN
  /\ "shutdown" \in S => y.shutdown \in BOOLEAN
  /\ "stopped" \in S => y.stopped \in BOOLEAN
  /\ "exited" \in S => y.exited \in BOOLEAN
  /\ "reason" \in S => y.reason \in {None, "lock", "gone"}
  /\ "epoch" \in S => y.epoch \in Nat
  /\ "turn" \in S => y.turn \in BOOLEAN
  /\ "made" \in S => y.made \in SUBSET Sources
  /\ "live" \in S => y.live \in SUBSET Sources
  /\ "msgs" \in S => y.msgs \in Seq(MessageType)
  /\ "jobs" \in S => y.jobs \in Seq(JobType)
  /\ "due" \in S => y.due \in BOOLEAN
  /\ "failed" \in S => y.failed \in BOOLEAN
  /\ "interval" \in S => y.interval \in BOOLEAN
  /\ "gone" \in S => y.gone \in SUBSET Tracks
  /\ "quiet" \in S => y.quiet \in BOOLEAN
  /\ "crossed" \in S => y.crossed \in BOOLEAN
  /\ "lost" \in S => y.lost \in BOOLEAN
  /\ "lied" \in S => y.lied \in BOOLEAN
  /\ "owed" \in S => y.owed \in SUBSET Kinds

LEMMA KeepsTyped == ASSUME NEW x, NEW y, NEW S, Typed(x), Keeps(x, y, S), TypedIn(y, S) PROVE Typed(y)
<1>0. DOMAIN y = Fields
  BY DEF Keeps
<1>1. /\ y.state \in {"prepared", "recording", "paused", "stopped"}
      /\ y.reasons \in SUBSET PauseReasons /\ y.manual \in BOOLEAN /\ y.auto \in BOOLEAN /\ y.terminal \in BOOLEAN
      /\ y.since \in {"none", "paused", "hour"} /\ y.pauseEpoch \in Nat \cup {None}
      /\ y.leaseTracks \in SUBSET Tracks /\ y.needs \in BOOLEAN
  BY FieldsAre DEF Keeps, TypedIn, Typed, TypedControl
<1>2. /\ y.close \in CloseType /\ y.opener \in OpenerType /\ y.reader \in [Tracks -> ReaderType] /\ y.closer \in CloserType
      /\ y.gui \in GuiType /\ y.cmd \in CommandType /\ y.news \in Seq({"lock", "gone"})
  BY FieldsAre DEF Keeps, TypedIn, Typed, TypedControl
<1>3. /\ y.visible \in BOOLEAN /\ y.recovery \in Nat \cup {None} /\ y.leased \in BOOLEAN
      /\ y.track \in [Tracks -> {"live", "paused", "ended"}]
      /\ y.opening \in BOOLEAN /\ y.request \in RequestType
      /\ y.finalizing \in BOOLEAN /\ y.final \in {"succeeded", "failed"} /\ y.waiters \in SUBSET Kinds
      /\ y.terminating \in BOOLEAN /\ y.shutdown \in BOOLEAN /\ y.stopped \in BOOLEAN /\ y.exited \in BOOLEAN
  BY FieldsAre DEF Keeps, TypedIn, Typed, TypedRest
<1>4. /\ y.reason \in {None, "lock", "gone"} /\ y.epoch \in Nat
      /\ y.turn \in BOOLEAN /\ y.made \in SUBSET Sources /\ y.live \in SUBSET Sources
      /\ y.msgs \in Seq(MessageType) /\ y.jobs \in Seq(JobType)
      /\ y.due \in BOOLEAN /\ y.failed \in BOOLEAN /\ y.interval \in BOOLEAN
  BY FieldsAre DEF Keeps, TypedIn, Typed, TypedRest
<1>5. /\ y.gone \in SUBSET Tracks /\ y.quiet \in BOOLEAN /\ y.crossed \in BOOLEAN /\ y.lost \in BOOLEAN /\ y.lied \in BOOLEAN
      /\ y.owed \in SUBSET Kinds
  BY FieldsAre DEF Keeps, TypedIn, Typed, TypedRest
<1> QED
  BY <1>0, <1>1, <1>2, <1>3, <1>4, <1>5 DEF Typed, TypedControl, TypedRest

\* The fields that the parts of the invariant do not read
Bookkeeping == {"reasons", "auto", "visible", "leased", "pauseEpoch", "waiters", "stopped", "exited", "reason", "turn", "due", "owed"}
LEMMA CoreFrame ==
  ASSUME NEW x, NEW y, NEW S, Keeps(x, y, S), S \subseteq Bookkeeping \cup {"terminating"}, Core(x) PROVE Core(y)
<1>1. S \cap OpeningFields = {} /\ S \cap ClosingFields = {} /\ S \cap SourcesFields = {}
  BY DEF Bookkeeping, OpeningFields, ClosingFields, SourcesFields
<1>2. S \cap DiskFields = {} /\ S \cap ClicksFields = {}
  BY DEF Bookkeeping, DiskFields, ClicksFields
<1> QED
  BY <1>1, <1>2, OpeningFrame, ClosingFrame, SourcesFrame, DiskFrame, ClicksFrame DEF Core

LEMMA BookSound ==
  ASSUME NEW x, NEW y, NEW S, Typed(x), Keeps(x, y, S), TypedIn(y, S), S \subseteq Bookkeeping \cup {"terminating"},
         x.terminating => y.terminating
  PROVE Sound(x, y)
<1>1. Typed(y)
  BY KeepsTyped
<1>2. Core(x) => Core(y)
  BY CoreFrame
<1>3. /\ y.crossed = x.crossed /\ y.made = x.made /\ y.state = x.state /\ y.close = x.close /\ y.opening = x.opening
      /\ y.gui = x.gui /\ y.cmd = x.cmd
  BY FieldsAre DEF Keeps, Bookkeeping
<1>4. Good(x) => Meant(y) /\ GuiOK(y)
  BY <1>3 DEF Good, Meant, GuiOK, Active
<1> QED
  BY <1>1, <1>2, <1>3, <1>4 DEF Sound, Good

\* The GUI, and the command it sends
LEMMA CommandCore ==
  ASSUME NEW x, NEW y, Typed(x), Keeps(x, y, {"cmd", "gui"}), y.cmd \in CommandType, y.gui \in GuiType,
         y.gui.epoch \in {x.gui.epoch, x.epoch}, y.cmd.epoch \in {0, x.gui.epoch, x.cmd.epoch}
  PROVE Typed(y) /\ y.crossed = x.crossed /\ (Core(x) /\ Meant(x) => Core(y) /\ Meant(y))
<1> DEFINE S == {"cmd", "gui"}
<1>1. Typed(y)
  <2>1. TypedIn(y, S)
    BY DEF TypedIn
  <2> QED
    BY <2>1, KeepsTyped
<1>2. /\ y.crossed = x.crossed /\ y.made = x.made /\ y.state = x.state /\ y.close = x.close /\ y.opening = x.opening
      /\ y.epoch = x.epoch /\ y.request = x.request /\ y.needs = x.needs /\ y.manual = x.manual /\ y.terminal = x.terminal
      /\ y.news = x.news /\ y.opener = x.opener /\ y.recovery = x.recovery /\ y.msgs = x.msgs /\ y.gone = x.gone
      /\ y.leaseTracks = x.leaseTracks /\ y.since = x.since /\ y.track = x.track
  BY FieldsAre DEF Keeps
<1>3. Core(x) => OpeningOK(y) /\ ClosingOK(y) /\ SourcesOK(y) /\ DiskOK(y)
  <2>1. S \cap OpeningFields = {} /\ S \cap ClosingFields = {} /\ S \cap SourcesFields = {} /\ S \cap DiskFields = {}
    BY DEF OpeningFields, ClosingFields, SourcesFields, DiskFields
  <2> QED
    BY <2>1, OpeningFrame, ClosingFrame, SourcesFrame, DiskFrame DEF Core
<1>4. Core(x) => ClicksOK(y)
  <2>1. x.epoch \in Nat
    BY DEF Typed, TypedRest
  <2> QED
    BY <1>2, <2>1 DEF Core, ClicksOK, AdmissionOK, GoneOK, Barred, Idle, Of, Active
<1>5. Meant(x) => Meant(y)
  BY <1>2 DEF Meant, Active
<1> QED
  BY <1>1, <1>2, <1>3, <1>4, <1>5 DEF Core

LEMMA CommandSound ==
  ASSUME NEW x, NEW y, Typed(x), Keeps(x, y, {"cmd", "gui"}), y.cmd \in CommandType, y.gui \in GuiType,
         y.gui.epoch \in {x.gui.epoch, x.epoch}, y.cmd.epoch \in {0, x.gui.epoch, x.cmd.epoch}, GuiOK(x) => GuiOK(y)
  PROVE Sound(x, y) /\ (Core(x) /\ Meant(x) => Core(y) /\ Meant(y))
BY CommandCore DEF Sound, Good

\* What the GUI sends
LEMMA SendTyped == ASSUME Typed(c), NEW k \in Commands
  PROVE /\ Send(k) \in CommandType /\ Send(k).k = k /\ Send(k).epoch = c.gui.epoch
        /\ NoCommand.k = None /\ None \notin {"stop", "shutdown"}
<1>1. c.gui \in GuiType
  BY DEF Typed, TypedControl
<1>2. None \notin {"stop", "shutdown"}
  BY NoneAssumption DEF Commands
<1> QED
  BY <1>1, <1>2 DEF Send, CommandType, GuiType, NoCommand

LEMMA ClickPauseSound == ASSUME Typed(c), ClickPause PROVE Sound(c, c')
<1>1. PICK r \in PauseReasons :
        c' = [c EXCEPT !.cmd = [Send("pause") EXCEPT !.reason = r],
                       !.gui.st = "paused", !.gui.wait = TRUE, !.gui.fin = TRUE, !.gui.pend = @ \/ r = "lock"]
  BY DEF ClickPause, PauseReasons, Soft, Hard
<1>2. c.cmd = NoCommand
  BY DEF ClickPause, CanClick
<1>3. /\ Keeps(c, c', {"cmd", "gui"})
      /\ c'.cmd = [Send("pause") EXCEPT !.reason = r]
      /\ c'.gui = [c.gui EXCEPT !.st = "paused", !.wait = TRUE, !.fin = TRUE, !.pend = @ \/ r = "lock"]
  BY <1>1, FieldsAre DEF Keeps, Typed, TypedControl, GuiType
<1>4. /\ Send("pause") \in CommandType /\ Send("pause").k = "pause" /\ Send("pause").epoch = c.gui.epoch
      /\ NoCommand.k = None /\ None \notin {"stop", "shutdown"}
  BY SendTyped DEF Commands
<1>5. c'.cmd \in CommandType /\ c'.cmd.k = "pause" /\ c'.cmd.epoch = c.gui.epoch
  BY <1>3, <1>4 DEF CommandType
<1>6. c'.gui \in GuiType /\ c'.gui.epoch = c.gui.epoch /\ c'.gui.terminal = c.gui.terminal
  BY <1>3 DEF Typed, TypedControl, GuiType, Phases
<1>7. c'.terminating = c.terminating /\ c'.state = c.state
  BY <1>3, FieldsAre DEF Keeps
<1>8. GuiOK(c) => GuiOK(c')
  BY <1>2, <1>4, <1>5, <1>6, <1>7 DEF GuiOK
<1> QED
  BY <1>3, <1>5, <1>6, <1>8, CommandSound

LEMMA ClickResumeSound == ASSUME Typed(c), ClickResume PROVE Sound(c, c')
<1>1. c' = [c EXCEPT !.cmd = Send("resume"), !.gui.st = "opening", !.gui.phys = FALSE] /\ c.cmd = NoCommand
  BY DEF ClickResume, CanClick
<1>3. /\ Keeps(c, c', {"cmd", "gui"})
      /\ c'.cmd = Send("resume")
      /\ c'.gui = [c.gui EXCEPT !.st = "opening", !.phys = FALSE]
  BY <1>1, FieldsAre DEF Keeps, Typed, TypedControl, GuiType
<1>4. /\ Send("resume") \in CommandType /\ Send("resume").k = "resume" /\ Send("resume").epoch = c.gui.epoch
      /\ NoCommand.k = None /\ None \notin {"stop", "shutdown"}
  BY SendTyped DEF Commands
<1>6. c'.gui \in GuiType /\ c'.gui.epoch = c.gui.epoch /\ c'.gui.terminal = c.gui.terminal
  BY <1>3 DEF Typed, TypedControl, GuiType, Phases
<1>7. c'.terminating = c.terminating /\ c'.state = c.state
  BY <1>3, FieldsAre DEF Keeps
<1>8. GuiOK(c) => GuiOK(c')
  BY <1>1, <1>3, <1>4, <1>6, <1>7 DEF GuiOK
<1> QED
  BY <1>3, <1>4, <1>6, <1>8, CommandSound

LEMMA ClickStopSound == ASSUME Typed(c), ClickStop PROVE Sound(c, c')
<1>1. c' = [c EXCEPT !.cmd = Send("stop"), !.gui.st = "stopping", !.gui.terminal = TRUE, !.gui.wait = TRUE]
  BY DEF ClickStop
<1>3. /\ Keeps(c, c', {"cmd", "gui"})
      /\ c'.cmd = Send("stop")
      /\ c'.gui = [c.gui EXCEPT !.st = "stopping", !.terminal = TRUE, !.wait = TRUE]
  BY <1>1, FieldsAre DEF Keeps, Typed, TypedControl, GuiType
<1>4. Send("stop") \in CommandType /\ Send("stop").k = "stop" /\ Send("stop").epoch = c.gui.epoch
  BY SendTyped DEF Commands
<1>6. c'.gui \in GuiType /\ c'.gui.epoch = c.gui.epoch
  BY <1>3 DEF Typed, TypedControl, GuiType, Phases
<1>8. GuiOK(c')
  BY <1>3, <1>4 DEF GuiOK
<1> QED
  BY <1>3, <1>4, <1>6, <1>8, CommandSound

LEMMA ShowSound == ASSUME Typed(c), Show PROVE Sound(c, c')
<1>1. c' = [c EXCEPT !.cmd = [Send("keepalive") EXCEPT !.visible = ~c.gui.vis], !.gui.vis = ~@] /\ c.cmd = NoCommand
  BY DEF Show, CanClick
<1>3. /\ Keeps(c, c', {"cmd", "gui"})
      /\ c'.cmd = [Send("keepalive") EXCEPT !.visible = ~c.gui.vis]
      /\ c'.gui = [c.gui EXCEPT !.vis = ~@]
  BY <1>1, FieldsAre DEF Keeps, Typed, TypedControl, GuiType
<1>4. /\ Send("keepalive") \in CommandType /\ Send("keepalive").k = "keepalive" /\ Send("keepalive").epoch = c.gui.epoch
      /\ NoCommand.k = None /\ None \notin {"stop", "shutdown"}
  BY SendTyped DEF Commands
<1>5. c'.cmd \in CommandType /\ c'.cmd.k = "keepalive" /\ c'.cmd.epoch = c.gui.epoch
  BY <1>3, <1>4 DEF CommandType
<1>6. c'.gui \in GuiType /\ c'.gui.epoch = c.gui.epoch /\ c'.gui.terminal = c.gui.terminal
  BY <1>3 DEF Typed, TypedControl, GuiType, Phases
<1>7. c'.terminating = c.terminating /\ c'.state = c.state
  BY <1>3, FieldsAre DEF Keeps
<1>8. GuiOK(c) => GuiOK(c')
  BY <1>1, <1>4, <1>5, <1>6, <1>7 DEF GuiOK
<1> QED
  BY <1>3, <1>5, <1>6, <1>8, CommandSound

LEMMA BeatSound == ASSUME Typed(c), Beat PROVE Sound(c, c')
<1>1. c' = [c EXCEPT !.cmd = Send("keepalive")] /\ c.cmd = NoCommand
  BY DEF Beat
<1>3. Keeps(c, c', {"cmd", "gui"}) /\ c'.cmd = Send("keepalive") /\ c'.gui = c.gui
  BY <1>1, FieldsAre DEF Keeps, Typed, TypedControl
<1>4. /\ Send("keepalive") \in CommandType /\ Send("keepalive").k = "keepalive" /\ Send("keepalive").epoch = c.gui.epoch
      /\ NoCommand.k = None /\ None \notin {"stop", "shutdown"}
  BY SendTyped DEF Commands
<1>6. c'.gui \in GuiType
  BY <1>3 DEF Typed, TypedControl
<1>7. c'.terminating = c.terminating /\ c'.state = c.state
  BY <1>3, FieldsAre DEF Keeps
<1>8. GuiOK(c) => GuiOK(c')
  BY <1>1, <1>3, <1>4, <1>7 DEF GuiOK
<1> QED
  BY <1>3, <1>4, <1>6, <1>8, CommandSound

LEMMA ShutdownSound == ASSUME Typed(c), Shutdown PROVE Sound(c, c')
<1>1. c' = [c EXCEPT !.cmd = Send("shutdown")] /\ c.cmd = NoCommand /\ c.gui.terminal /\ ~c.terminating
  BY DEF Shutdown
<1>3. Keeps(c, c', {"cmd", "gui"}) /\ c'.cmd = Send("shutdown") /\ c'.gui = c.gui
  BY <1>1, FieldsAre DEF Keeps, Typed, TypedControl
<1>4. /\ Send("shutdown") \in CommandType /\ Send("shutdown").k = "shutdown" /\ Send("shutdown").epoch = c.gui.epoch
      /\ NoCommand.k = None /\ None \notin {"stop", "shutdown"}
  BY SendTyped DEF Commands
<1>6. c'.gui \in GuiType
  BY <1>3 DEF Typed, TypedControl
<1>7. c'.terminating = c.terminating /\ c'.state = c.state
  BY <1>3, FieldsAre DEF Keeps
<1>8. GuiOK(c) => GuiOK(c')
  BY <1>1, <1>3, <1>4, <1>7 DEF GuiOK
<1> QED
  BY <1>3, <1>4, <1>6, <1>8, CommandSound

\* The world: the session is blocked, a pause becomes too long, a lease ends
LEMMA BlockedSound ==
  ASSUME NEW x, NEW y, Typed(x), NEW r \in {"lock", "gone"}, y = Blocked(x, r)
  PROVE Sound(x, y) /\ (Core(x) /\ Meant(x) => Core(y) /\ Meant(y))
<1>1. CASE r = x.reason
  <2>1. y = x
    BY <1>1 DEF Blocked
  <2> QED
    BY <2>1 DEF Sound
<1>2. CASE r # x.reason
  <2> DEFINE S == {"reason", "epoch", "news", "needs"}
  <2>1. /\ Keeps(x, y, S)
        /\ y.reason = r /\ y.epoch = x.epoch + 1 /\ y.news = Append(x.news, r) /\ y.needs = TRUE
    BY <1>2, FieldsAre DEF Keeps, Blocked, Typed, TypedControl
  <2>2. x.epoch \in Nat /\ x.news \in Seq({"lock", "gone"})
    BY DEF Typed, TypedControl, TypedRest
  <2>3. y.epoch \in Nat /\ y.news \in Seq({"lock", "gone"}) /\ y.news # <<>>
    BY <2>1, <2>2, AppendProperties, EmptySeq
  <2>4. Typed(y)
    <3>1. TypedIn(y, S)
      BY <2>1, <2>3 DEF TypedIn
    <3> QED
      BY <2>1, <3>1, KeepsTyped
  <2>5. /\ y.crossed = x.crossed /\ y.made = x.made /\ y.state = x.state /\ y.close = x.close /\ y.opening = x.opening
        /\ y.request = x.request /\ y.manual = x.manual /\ y.terminal = x.terminal
        /\ y.opener = x.opener /\ y.recovery = x.recovery /\ y.msgs = x.msgs /\ y.gone = x.gone
        /\ y.leaseTracks = x.leaseTracks /\ y.since = x.since /\ y.track = x.track
        /\ y.gui = x.gui /\ y.cmd = x.cmd /\ y.terminating = x.terminating
    BY <2>1, FieldsAre DEF Keeps
  <2>6. Core(x) => OpeningOK(y) /\ ClosingOK(y) /\ SourcesOK(y) /\ DiskOK(y)
    <3>1. S \cap OpeningFields = {} /\ S \cap ClosingFields = {} /\ S \cap SourcesFields = {} /\ S \cap DiskFields = {}
      BY DEF OpeningFields, ClosingFields, SourcesFields, DiskFields
    <3> QED
      BY <2>1, <3>1, OpeningFrame, ClosingFrame, SourcesFrame, DiskFrame DEF Core
  <2>7. Core(x) => ClicksOK(y)
    <3>1. /\ x.request.epoch \in Nat /\ x.gui.epoch \in Nat /\ x.cmd.epoch \in Nat
          /\ x.recovery \in Nat \cup {None} /\ None \notin Nat
      BY NoneAssumption DEF Typed, TypedControl, TypedRest, RequestType, GuiType, CommandType
    <3>2. Core(x) => /\ y.needs => Barred(y) \/ y.news # <<>>
                     /\ Of(y, "track-ended") # {} => Active(y)
                     /\ \A t \in y.gone :
                          \/ Barred(y) \/ \E i \in Of(y, "track-ended") : t \in y.msgs[i].tracks
                          \/ t \notin y.leaseTracks /\ (y.since = "none" => y.track[t] # "live")
      BY <2>3, <2>5 DEF Core, ClicksOK, AdmissionOK, GoneOK, Barred, Of, Active
    <3>3. Core(x) => /\ y.epoch > y.request.epoch
                     /\ y.recovery # None => y.recovery < y.epoch
                     /\ y.request.epoch <= y.epoch /\ y.gui.epoch <= y.epoch /\ y.cmd.epoch <= y.epoch
      <4>1. Core(x) => /\ x.recovery # None => x.recovery <= x.epoch
                       /\ x.request.epoch <= x.epoch /\ x.gui.epoch <= x.epoch /\ x.cmd.epoch <= x.epoch
        BY <2>2, <3>1 DEF Core, ClicksOK, AdmissionOK, GoneOK
      <4> QED
        BY <2>1, <2>2, <2>5, <3>1, <4>1
    <3> QED
      BY <3>2, <3>3 DEF ClicksOK, AdmissionOK, GoneOK
  <2>8. (Meant(x) => Meant(y)) /\ (GuiOK(x) => GuiOK(y))
    BY <2>5 DEF Meant, GuiOK, Active
  <2> QED
    BY <2>4, <2>5, <2>6, <2>7, <2>8 DEF Sound, Good, Core
<1> QED
  BY <1>1, <1>2

LEMMA BlockSound == ASSUME Typed(c), Block PROVE Sound(c, c')
BY BlockedSound DEF Block

LEMMA UnblockSound == ASSUME Typed(c), Unblock PROVE Sound(c, c')
<1>1. Keeps(c, c', {"reason"}) /\ c'.reason = None /\ c'.terminating = c.terminating
  BY FieldsAre DEF Unblock, Keeps, Typed, TypedControl
<1>2. TypedIn(c', {"reason"})
  BY <1>1 DEF TypedIn
<1> QED
  BY <1>1, <1>2, BookSound DEF Bookkeeping

LEMMA LeaseEndsSound == ASSUME Typed(c), LeaseEnds PROVE Sound(c, c')
<1>1. Keeps(c, c', {"leased"}) /\ c'.leased = FALSE /\ c'.terminating = c.terminating
  BY FieldsAre DEF LeaseEnds, Keeps, Typed, TypedControl
<1>2. TypedIn(c', {"leased"})
  BY <1>1 DEF TypedIn
<1> QED
  BY <1>1, <1>2, BookSound DEF Bookkeeping

LEMMA HourPassesSound == ASSUME Typed(c), HourPasses PROVE Sound(c, c')
<1> DEFINE y == c'
<1>1. y = [c EXCEPT !.since = "hour"] /\ c.since = "paused"
  BY DEF HourPasses
<1> HIDE DEF y
<1>2. TypedControl(y)
  BY <1>1, FieldsAre DEF Typed, TypedControl
<1>3. SameRest(c, y)
  BY <1>1, FieldsAre DEF Typed, TypedControl, SameRest
<1>4. Threadless(c, y) /\ GuiKept(c, y)
  BY <1>1, FieldsAre DEF Typed, TypedControl, Threadless, GuiKept
<1>5. /\ y.leaseTracks = c.leaseTracks /\ y.state = c.state /\ y.since # "none" /\ y.manual = c.manual
      /\ y.terminal = c.terminal /\ y.needs = c.needs /\ y.news = c.news /\ y.close = c.close
  BY <1>1, FieldsAre DEF Typed, TypedControl
<1>6. Halting(c, y)
  BY <1>3, <1>4, <1>5 DEF Halting, Slower, Stops
<1>7. Typed(y)
  BY <1>2, <1>6, SlowerTyped DEF Halting
<1> QED
  BY <1>6, <1>7, HaltingSound DEF y

LEMMA ExitActionSound == ASSUME Typed(c), Exit PROVE Sound(c, c')
BY ExitSound DEF Exit

\* What the parts of the invariant that a step does not touch need
LEMMA GoodParts ==
  ASSUME NEW x, NEW y, Typed(y), y.crossed = x.crossed \/ y.crossed,
         y.made = x.made, y.state = x.state, y.close = x.close, y.opening = x.opening, y.gui = x.gui, y.cmd = x.cmd,
         y.terminating = x.terminating, Good(x) => Core(y), x.crossed => y.crossed
  PROVE Sound(x, y)
BY DEF Sound, Good, Meant, GuiOK, Active

\* A thread that reads begins or ends no other
LEMMA ReadersSound ==
  ASSUME NEW x, NEW y, Typed(x), Keeps(x, y, {"reader"}), y.reader \in [Tracks -> ReaderType],
         \A t \in Tracks : Running(y, t) => Running(x, t)
  PROVE Sound(x, y)
<1> DEFINE S == {"reader"}
<1>1. Typed(y)
  <2>1. TypedIn(y, S)
    BY DEF TypedIn
  <2> QED
    BY <2>1, KeepsTyped
<1>2. \A f \in Fields \ S : y[f] = x[f]
  BY DEF Keeps
<1>3. Still(x) => Still(y)
  BY DEF Still
<1>4. OpeningOK(x) => OpeningOK(y)
  <2>1. /\ y.opener = x.opener /\ y.opening = x.opening /\ y.msgs = x.msgs /\ y.close = x.close /\ y.request = x.request
        /\ y.made = x.made /\ y.state = x.state /\ y.finalizing = x.finalizing /\ y.gone = x.gone
    BY FieldsAre DEF Keeps
  <2> QED
    BY <1>3, <2>1 DEF OpeningOK, Ends, Of, Idle
<1>5. ClosingOK(x) => ClosingOK(y)
  <2>1. /\ y.closer = x.closer /\ y.close = x.close /\ y.msgs = x.msgs /\ y.opener = x.opener /\ y.live = x.live
        /\ y.made = x.made /\ y.failed = x.failed
    BY FieldsAre DEF Keeps
  <2> QED
    BY <1>3, <2>1 DEF ClosingOK, Of, Idle
<1>6. SourcesOK(x) => SourcesOK(y)
  <2>1. /\ y.live = x.live /\ y.made = x.made /\ y.track = x.track /\ y.state = x.state /\ y.opening = x.opening
        /\ y.close = x.close /\ y.finalizing = x.finalizing /\ y.quiet = x.quiet /\ y.shutdown = x.shutdown
    BY FieldsAre DEF Keeps
  <2> QED
    BY <2>1 DEF SourcesOK
<1>7. DiskOK(x) => DiskOK(y)
  <2>1. /\ y.lost = x.lost /\ y.final = x.final /\ y.msgs = x.msgs /\ y.failed = x.failed /\ y.state = x.state
        /\ y.close = x.close /\ y.finalizing = x.finalizing /\ y.jobs = x.jobs /\ y.interval = x.interval /\ y.lied = x.lied
    BY FieldsAre DEF Keeps
  <2> QED
    BY <1>3, <2>1 DEF DiskOK, Of, Active, First
<1>8. ClicksOK(x) => ClicksOK(y)
  <2>1. S \cap ClicksFields = {}
    BY DEF ClicksFields
  <2> QED
    BY <2>1, ClicksFrame
<1>9. Good(x) => Core(y)
  BY <1>4, <1>5, <1>6, <1>7, <1>8 DEF Good, Core
<1>10. /\ y.crossed = x.crossed /\ y.made = x.made /\ y.state = x.state /\ y.close = x.close /\ y.opening = x.opening
       /\ y.gui = x.gui /\ y.cmd = x.cmd /\ y.terminating = x.terminating
  BY FieldsAre DEF Keeps
<1> QED
  BY <1>1, <1>9, <1>10, GoodParts

LEMMA ReaderStopsSound == ASSUME Typed(c), NEW t \in Tracks, ReaderStops(t) PROVE Sound(c, c')
<1>1. Keeps(c, c', {"reader"}) /\ c'.reader = [c.reader EXCEPT ![t] = NoReader]
  BY FieldsAre DEF ReaderStops, Keeps, Typed, TypedControl
<1>2. c'.reader \in [Tracks -> ReaderType] /\ \A u \in Tracks : Running(c', u) => Running(c, u)
  BY <1>1 DEF Typed, TypedControl, Running, NoReader, ReaderType
<1> QED
  BY <1>1, <1>2, ReadersSound

LEMMA ReadSound == ASSUME Typed(c), NEW t \in Tracks, Read(t) PROVE Sound(c, c')
<1>1. Keeps(c, c', {"reader"}) /\ c'.reader = [c.reader EXCEPT ![t].pc = "has"] /\ c.reader[t].pc = "run"
  BY FieldsAre DEF Read, Keeps, Typed, TypedControl
<1>2. c'.reader \in [Tracks -> ReaderType] /\ \A u \in Tracks : Running(c', u) => Running(c, u)
  BY <1>1 DEF Typed, TypedControl, Running, ReaderType
<1> QED
  BY <1>1, <1>2, ReadersSound

\* What is connected may be disconnected
LEMMA LiveSound ==
  ASSUME NEW x, NEW y, Typed(x), Keeps(x, y, {"live"}), y.live \subseteq x.live
  PROVE Sound(x, y)
<1> DEFINE S == {"live"}
<1>1. Typed(y)
  <2>1. TypedIn(y, S)
    BY DEF TypedIn, Typed, TypedRest
  <2> QED
    BY <2>1, KeepsTyped
<1>2. /\ y.crossed = x.crossed /\ y.made = x.made /\ y.state = x.state /\ y.close = x.close /\ y.opening = x.opening
      /\ y.gui = x.gui /\ y.cmd = x.cmd /\ y.terminating = x.terminating
      /\ y.closer = x.closer /\ y.msgs = x.msgs /\ y.opener = x.opener /\ y.reader = x.reader /\ y.failed = x.failed
      /\ y.track = x.track /\ y.finalizing = x.finalizing /\ y.quiet = x.quiet /\ y.shutdown = x.shutdown
  BY FieldsAre DEF Keeps
<1>3. Core(x) => OpeningOK(y) /\ DiskOK(y) /\ ClicksOK(y)
  <2>1. S \cap OpeningFields = {} /\ S \cap DiskFields = {} /\ S \cap ClicksFields = {}
    BY DEF OpeningFields, DiskFields, ClicksFields
  <2> QED
    BY <2>1, OpeningFrame, DiskFrame, ClicksFrame DEF Core
<1>4. Core(x) => ClosingOK(y)
  BY <1>2 DEF Core, ClosingOK, Of, Idle, Still, Running
<1>5. Core(x) => SourcesOK(y)
  BY <1>2 DEF Core, SourcesOK, Running
<1> QED
  BY <1>1, <1>2, <1>3, <1>4, <1>5, GoodParts DEF Good, Core

-----------------------------------------------------------------------------
\* A report
LEMMA MessageShaped == ASSUME NEW k \in Told
  PROVE /\ Message(k) \in [k: Told, req: Kinds \cup {None}, tracks: SUBSET Tracks, code: Codes]
        /\ Message(k).k = k /\ Message(k).tracks = {} /\ DOMAIN Message(k) = {"k", "req", "tracks", "code"}
BY DEF Message, Codes

LEMMA MessageTyped == ASSUME NEW k \in Told \ {"track-ended"}
  PROVE Message(k) \in MessageType /\ Message(k).k = k /\ Message(k).tracks = {} /\ DOMAIN Message(k) = {"k", "req", "tracks", "code"}
BY DEF Message, MessageType, Codes, Told

\* What a report disturbs: the queue only grows at its end
LEMMA PostSound ==
  ASSUME NEW x, NEW y, Typed(x), NEW m \in MessageType, Keeps(x, y, {"msgs"}), y.msgs = Append(x.msgs, m),
         m.k \in {"disk-failed", "audio-failed", "disk-low", "track-ended"},
         Good(x) /\ m.k = "disk-failed" => (x.failed \/ Active(x)) /\ (x.failed \/ Of(x, "closed") = {}),
         Good(x) /\ m.k = "track-ended" => Active(x) /\ Of(x, "closed") = {}
  PROVE Sound(x, y)
<1> DEFINE S == {"msgs"}
           n == Len(x.msgs) + 1
<1>0. x.msgs \in Seq(MessageType)
  BY DEF Typed, TypedRest
<1>1. /\ y.msgs \in Seq(MessageType)
      /\ Len(y.msgs) = n /\ Len(x.msgs) \in Nat
      /\ \A i \in 1..Len(x.msgs) : y.msgs[i] = x.msgs[i]
      /\ y.msgs[n] = m
      /\ \A k : Of(x, k) \subseteq 1..Len(x.msgs) /\ Of(y, k) = IF m.k = k THEN Of(x, k) \cup {n} ELSE Of(x, k)
  BY <1>0, PostFacts DEF Posted
<1>2. Typed(y)
  <2>1. TypedIn(y, S)
    BY <1>1 DEF TypedIn
  <2> QED
    BY <2>1, KeepsTyped
<1>3. /\ y.crossed = x.crossed /\ y.made = x.made /\ y.state = x.state /\ y.close = x.close /\ y.opening = x.opening
      /\ y.gui = x.gui /\ y.cmd = x.cmd /\ y.terminating = x.terminating
      /\ y.closer = x.closer /\ y.live = x.live /\ y.opener = x.opener /\ y.reader = x.reader /\ y.failed = x.failed
      /\ y.request = x.request /\ y.finalizing = x.finalizing /\ y.gone = x.gone
      /\ y.lost = x.lost /\ y.final = x.final /\ y.jobs = x.jobs /\ y.interval = x.interval /\ y.lied = x.lied
      /\ y.needs = x.needs /\ y.manual = x.manual /\ y.terminal = x.terminal /\ y.news = x.news /\ y.epoch = x.epoch
      /\ y.recovery = x.recovery /\ y.leaseTracks = x.leaseTracks /\ y.since = x.since /\ y.track = x.track
  BY FieldsAre DEF Keeps
<1>4. Of(y, "opened") = Of(x, "opened") /\ Of(y, "open-failed") = Of(x, "open-failed") /\ Of(y, "closed") = Of(x, "closed")
      /\ Of(y, "finalized") = Of(x, "finalized") /\ Of(x, "disk-failed") \subseteq Of(y, "disk-failed")
      /\ Of(x, "track-ended") \subseteq Of(y, "track-ended") /\ Ends(y) = Ends(x)
  BY <1>1 DEF Ends
<1>5. (Idle(y) <=> Idle(x)) /\ (Still(y) <=> Still(x)) /\ (Active(y) <=> Active(x)) /\ (Barred(y) <=> Barred(x))
      /\ (\A k : First(y, k) <=> First(x, k)) /\ (\A t \in Tracks : Running(y, t) <=> Running(x, t))
  BY <1>3 DEF Idle, Still, Running, Active, Barred, First
<1> HIDE DEF n
<1>6. OpeningOK(x) => OpeningOK(y)
  BY <1>3, <1>4, <1>5 DEF OpeningOK
<1>7. Good(x) => ClosingOK(y)
  <2> SUFFICES ASSUME Good(x) PROVE ClosingOK(y)
    OBVIOUS
  <2>1. ClosingOK(x)
    BY DEF Good, Core
  <2>2. \A i \in Of(x, "closed") : i \in 1..Len(x.msgs) /\ y.msgs[i] = x.msgs[i]
    BY <1>1
  <2>3. \A i \in Of(y, "closed") : \A j \in 1..Len(y.msgs) :
       j > i => /\ y.msgs[j].k \notin {"opened", "open-failed", "track-ended"}
                /\ y.msgs[j].k = "disk-failed" => y.failed
    <3> SUFFICES ASSUME NEW i \in Of(y, "closed"), NEW j \in 1..Len(y.msgs), j > i
                 PROVE /\ y.msgs[j].k \notin {"opened", "open-failed", "track-ended"}
                       /\ y.msgs[j].k = "disk-failed" => y.failed
      OBVIOUS
    <3>1. CASE j = n
      <4>1. y.msgs[j] = m /\ Of(x, "closed") # {}
        BY <1>1, <1>4, <3>1
      <4> QED
        BY <1>3, <4>1
    <3>2. CASE j # n
      <4>1. j \in 1..Len(x.msgs) /\ y.msgs[j] = x.msgs[j]
        BY <1>1, <3>2 DEF n
      <4> QED
        BY <1>3, <1>4, <2>1, <4>1 DEF ClosingOK
    <3> QED
      BY <3>1, <3>2
  <2>4. \A i \in Of(y, "closed") : y.msgs[i].tracks = TracksOf(y.made)
    BY <1>3, <1>4, <2>1, <2>2 DEF ClosingOK
  <2>5. \A i, j \in Of(y, "closed") : i = j
    BY <1>4, <2>1 DEF ClosingOK
  <2>6. /\ y.closer.pc # "idle" => y.close.on
        /\ Of(y, "closed") # {} => y.close.on /\ y.closer.pc = "idle" /\ Idle(y) /\ y.live = {} /\ Still(y)
        /\ y.closer.pc # "idle" => \A t \in Tracks : Running(y, t) => t \in y.closer.readers
        /\ y.closer.pc = "shut" \/ (y.closer.pc = "join" /\ ~y.closer.wait) => Idle(y)
        /\ y.closer.pc = "shut" => y.live \subseteq y.closer.has /\ y.closer.tracks = TracksOf(y.made)
    BY <1>3, <1>4, <1>5, <2>1 DEF ClosingOK
  <2> QED
    BY <2>3, <2>4, <2>5, <2>6 DEF ClosingOK
<1>8. Core(x) => SourcesOK(y)
  <2>1. S \cap SourcesFields = {}
    BY DEF SourcesFields
  <2> QED
    BY <2>1, SourcesFrame DEF Core
<1>9. Good(x) => DiskOK(y)
  <2> SUFFICES ASSUME Good(x) PROVE DiskOK(y)
    OBVIOUS
  <2>1. DiskOK(x)
    BY DEF Good, Core
  <2>2. Of(y, "disk-failed") # {} => y.failed \/ Active(y)
    <3>1. CASE m.k = "disk-failed"
      BY <1>3, <1>5, <3>1
    <3>2. CASE m.k # "disk-failed"
      BY <1>1, <1>3, <1>5, <2>1, <3>2 DEF DiskOK
    <3> QED
      BY <3>1, <3>2
  <2>3. y.lost => y.final = "failed" \/ Of(y, "disk-failed") # {}
    BY <1>3, <1>4, <2>1 DEF DiskOK
  <2>4. \A i, j \in Of(y, "finalized") : i = j
    BY <1>4, <2>1 DEF DiskOK
  <2> QED
    BY <1>3, <1>4, <1>5, <2>1, <2>2, <2>3, <2>4 DEF DiskOK
<1>10. Good(x) => ClicksOK(y)
  <2> SUFFICES ASSUME Good(x) PROVE ClicksOK(y)
    OBVIOUS
  <2>1. ClicksOK(x)
    BY DEF Good, Core
  <2>2. Of(y, "track-ended") # {} => Active(y)
    <3>1. CASE m.k = "track-ended"
      BY <1>5, <3>1
    <3>2. CASE m.k # "track-ended"
      BY <1>1, <1>5, <2>1, <3>2 DEF ClicksOK, AdmissionOK, GoneOK
    <3> QED
      BY <3>1, <3>2
  <2>3. \A i \in Of(x, "track-ended") : y.msgs[i] = x.msgs[i]
    BY <1>1
  <2>4. \A t \in y.gone :
           \/ Barred(y) \/ \E i \in Of(y, "track-ended") : t \in y.msgs[i].tracks
           \/ t \notin y.leaseTracks /\ (y.since = "none" => y.track[t] # "live")
    BY <1>3, <1>4, <1>5, <2>1, <2>3 DEF ClicksOK, AdmissionOK, GoneOK
  <2> QED
    BY <1>3, <1>5, <2>1, <2>2, <2>4 DEF ClicksOK, AdmissionOK, GoneOK
<1> QED
  BY <1>2, <1>3, <1>6, <1>7, <1>8, <1>9, <1>10, GoodParts DEF Good, Core

\* What a thread that reads tells about the rest
LEMMA ReadingFacts ==
  ASSUME NEW x, Typed(x), Good(x), NEW t \in Tracks, Running(x, t)
  PROVE /\ Of(x, "closed") = {} /\ Active(x) /\ ~x.opening /\ ~x.finalizing
        /\ x.failed \/ x.interval \/ First(x, "open")
<1>1. ~Still(x)
  BY DEF Still
<1>2. Of(x, "closed") = {}
  BY <1>1 DEF Good, Core, ClosingOK
<1>3. t \in TracksOf(x.made)
  BY DEF Good, Core, SourcesOK
<1>4. x.made # {}
  BY <1>3 DEF TracksOf
<1>5. ~x.opening
  BY <1>1 DEF Good, Core, OpeningOK
<1>6. Active(x)
  BY <1>4, <1>5 DEF Good, Meant
<1>7. ~x.finalizing
  BY <1>4 DEF Good, Core, SourcesOK
<1>8. x.failed \/ x.interval \/ First(x, "open")
  BY <1>1 DEF Good, Core, DiskOK
<1> QED
  BY <1>2, <1>5, <1>6, <1>7, <1>8

LEMMA DiskLowSound == ASSUME Typed(c), DiskLow PROVE Sound(c, c')
<1>1. Keeps(c, c', {"msgs"}) /\ c'.msgs = Append(c.msgs, Message("disk-low"))
  BY FieldsAre DEF DiskLow, Post, Keeps, Typed, TypedControl
<1>2. Message("disk-low") \in MessageType /\ Message("disk-low").k = "disk-low"
  BY MessageTyped DEF Told
<1> QED
  BY <1>1, <1>2, PostSound

LEMMA ReaderFailsSound == ASSUME Typed(c), NEW t \in Tracks, ReaderFails(t) PROVE Sound(c, c')
<1> DEFINE m == Message("audio-failed")
           y == [c EXCEPT !.msgs = Append(c.msgs, m)]
<1>1. c' = [[c EXCEPT !.reader[t] = NoReader] EXCEPT !.msgs = Append(@, m)]
  BY DEF ReaderFails, Post
<1>2. m \in MessageType /\ m.k = "audio-failed"
  BY MessageTyped DEF Told
<1> HIDE DEF m
<1>3. Keeps(c, y, {"msgs"}) /\ y.msgs = Append(c.msgs, m)
  BY FieldsAre DEF Keeps, Typed, TypedControl
<1>4. Keeps(y, c', {"reader"}) /\ c'.reader = [c.reader EXCEPT ![t] = NoReader] /\ y.reader = c.reader
  BY <1>1, FieldsAre DEF Keeps, Typed, TypedControl
<1> HIDE DEF y
<1>5. Sound(c, y)
  BY <1>2, <1>3, PostSound
<1>6. c'.reader \in [Tracks -> ReaderType] /\ \A u \in Tracks : Running(c', u) => Running(y, u)
  BY <1>4 DEF Typed, TypedControl, Running, NoReader, ReaderType
<1>7. Sound(y, c')
  BY <1>4, <1>5, <1>6, ReadersSound DEF Sound
<1> QED
  BY <1>5, <1>7, SoundTrans

\* A source that ends by itself
LEMMA GoneSound ==
  ASSUME NEW x, NEW y, Typed(x), NEW t \in Tracks, Keeps(x, y, {"gone"}), y.gone = x.gone \cup {t}, Running(x, t),
         Good(x) => \E i \in Of(x, "track-ended") : t \in x.msgs[i].tracks
  PROVE Sound(x, y)
<1> DEFINE S == {"gone"}
<1>1. Typed(y)
  <2>1. TypedIn(y, S)
    BY DEF TypedIn, Typed, TypedRest
  <2> QED
    BY <2>1, KeepsTyped
<1>2. /\ y.crossed = x.crossed /\ y.made = x.made /\ y.state = x.state /\ y.close = x.close /\ y.opening = x.opening
      /\ y.gui = x.gui /\ y.cmd = x.cmd /\ y.terminating = x.terminating
      /\ y.msgs = x.msgs /\ y.opener = x.opener /\ y.request = x.request
      /\ y.needs = x.needs /\ y.manual = x.manual /\ y.terminal = x.terminal /\ y.news = x.news /\ y.epoch = x.epoch
      /\ y.recovery = x.recovery /\ y.leaseTracks = x.leaseTracks /\ y.since = x.since /\ y.track = x.track
  BY FieldsAre DEF Keeps
<1>3. Core(x) => ClosingOK(y) /\ SourcesOK(y) /\ DiskOK(y)
  <2>1. S \cap ClosingFields = {} /\ S \cap DiskFields = {} /\ S \cap SourcesFields = {}
    BY DEF ClosingFields, DiskFields, SourcesFields
  <2> QED
    BY <2>1, ClosingFrame, DiskFrame, SourcesFrame DEF Core
<1>4. Good(x) => OpeningOK(y)
  <2>1. Good(x) => ~y.opening
    BY <1>2, ReadingFacts
  <2> QED
    BY <1>2, <2>1 DEF Good, Core, OpeningOK, Ends, Of, Idle
<1>5. Good(x) => ClicksOK(y)
  BY <1>2 DEF Good, Core, ClicksOK, AdmissionOK, GoneOK, Of, Active, Idle, Barred
<1> QED
  BY <1>1, <1>2, <1>3, <1>4, <1>5, GoodParts DEF Good, Core

LEMMA SourceEndsSound == ASSUME Typed(c), NEW t \in Tracks, SourceEnds(t) PROVE Sound(c, c')
<1>1. PICK code \in Codes :
        c' = Post([c EXCEPT !.reader[t] = NoReader, !.live = @ \ {<<t, c.turn>>}, !.gone = @ \cup {t}],
                 [Message("track-ended") EXCEPT !.tracks = {t}, !.code = code])
  BY DEF SourceEnds, Codes
<1> DEFINE m == [Message("track-ended") EXCEPT !.tracks = {t}, !.code = code]
<1>2. m \in MessageType /\ m.k = "track-ended" /\ m.tracks = {t}
  <2>1. m \in [k: Told, req: Kinds \cup {None}, tracks: SUBSET Tracks, code: Codes]
    BY MessageShaped DEF Told
  <2>2. m.tracks = {t} /\ m.k = "track-ended"
    BY MessageShaped DEF Told
  <2> QED
    BY <2>1, <2>2 DEF MessageType
<1>3. c' = [[c EXCEPT !.reader[t] = NoReader, !.live = @ \ {<<t, c.turn>>}, !.gone = @ \cup {t}] EXCEPT !.msgs = Append(@, m)]
  BY <1>1 DEF Post
<1>4. Running(c, t)
  BY DEF SourceEnds, Running
<1> HIDE DEF m
<1> DEFINE y == [c EXCEPT !.msgs = Append(c.msgs, m)]
           z == [y EXCEPT !.gone = c.gone \cup {t}]
           w == [z EXCEPT !.live = c.live \ {<<t, c.turn>>}]
<1>5. Keeps(c, y, {"msgs"}) /\ y.msgs = Append(c.msgs, m) /\ y.reader = c.reader
  BY FieldsAre DEF Keeps, Typed, TypedControl
<1>6. Keeps(y, z, {"gone"}) /\ z.gone = y.gone \cup {t} /\ z.reader = y.reader
  BY FieldsAre DEF Keeps, Typed, TypedControl
<1>7. Keeps(z, w, {"live"}) /\ w.live \subseteq z.live /\ w.reader = z.reader
  BY FieldsAre DEF Keeps, Typed, TypedControl
<1>8. Keeps(w, c', {"reader"}) /\ c'.reader = [c.reader EXCEPT ![t] = NoReader]
  BY <1>3, FieldsAre DEF Keeps, Typed, TypedControl
<1> HIDE DEF y, z, w
<1>9. Sound(c, y)
  BY <1>2, <1>4, <1>5, ReadingFacts, PostSound
<1>10. Typed(y) /\ Running(y, t)
  BY <1>4, <1>5, <1>9 DEF Sound, Running
<1>11. \E i \in Of(y, "track-ended") : t \in y.msgs[i].tracks
  <2>0. c.msgs \in Seq(MessageType)
    BY DEF Typed, TypedRest
  <2>1. /\ y.msgs[Len(c.msgs) + 1] = m
        /\ \A k : Of(c, k) \subseteq 1..Len(c.msgs) /\ Of(y, k) = IF m.k = k THEN Of(c, k) \cup {Len(c.msgs) + 1} ELSE Of(c, k)
    BY <1>2, <1>5, <2>0, PostFacts DEF Posted
  <2> QED
    BY <1>2, <2>1
<1>12. Sound(y, z)
  BY <1>6, <1>10, <1>11, GoneSound
<1>13. Sound(z, w)
  BY <1>7, <1>12, LiveSound DEF Sound
<1>14. c'.reader \in [Tracks -> ReaderType] /\ \A u \in Tracks : Running(c', u) => Running(w, u)
  BY <1>5, <1>6, <1>7, <1>8 DEF Typed, TypedControl, Running, NoReader, ReaderType
<1>15. Sound(w, c')
  BY <1>8, <1>13, <1>14, ReadersSound DEF Sound
<1> QED
  BY <1>9, <1>12, <1>13, <1>15, SoundTrans

JobFields == {"jobs"}
LEMMA JobTyped == ASSUME NEW k \in {"open", "close", "pcm"}
  PROVE Job(k) \in JobType /\ Job(k).k = k /\ DOMAIN Job(k) = {"k", "t", "req"}
BY DEF Job, JobType

LEMMA JobFacts ==
  ASSUME NEW x, NEW y, NEW j, x.jobs \in Seq(JobType), j \in JobType, y.jobs = Append(x.jobs, j)
  PROVE /\ y.jobs \in Seq(JobType) /\ y.jobs # <<>>
        /\ Len(y.jobs) = Len(x.jobs) + 1 /\ Len(x.jobs) \in Nat
        /\ \A i \in 1..Len(x.jobs) : y.jobs[i] = x.jobs[i]
        /\ y.jobs[Len(x.jobs) + 1] = j
        /\ x.jobs # <<>> => Len(x.jobs) # 0 /\ \A k : First(y, k) <=> First(x, k)
        /\ x.jobs = <<>> => Len(x.jobs) = 0 /\ \A k : First(y, k) <=> j.k = k
<1>1. /\ y.jobs \in Seq(JobType) /\ y.jobs # <<>>
      /\ Len(y.jobs) = Len(x.jobs) + 1 /\ Len(x.jobs) \in Nat
      /\ \A i \in 1..Len(x.jobs) : y.jobs[i] = x.jobs[i]
      /\ y.jobs[Len(x.jobs) + 1] = j
  BY AppendProperties, LenProperties
<1>2. x.jobs # <<>> <=> Len(x.jobs) # 0
  BY EmptySeq
<1>3. x.jobs # <<>> => y.jobs[1] = x.jobs[1]
  BY <1>1, <1>2
<1>4. x.jobs = <<>> => y.jobs[1] = j
  BY <1>1, <1>2
<1> QED
  BY <1>1, <1>2, <1>3, <1>4 DEF First

LEMMA JobTailFacts ==
  ASSUME NEW x, NEW y, x.jobs \in Seq(JobType), x.jobs # <<>>, y.jobs = Tail(x.jobs)
  PROVE /\ y.jobs \in Seq(JobType) /\ Head(x.jobs) = x.jobs[1] /\ x.jobs[1] \in JobType
        /\ Len(x.jobs) = Len(y.jobs) + 1 /\ Len(y.jobs) \in Nat
        /\ \A i \in 1..Len(y.jobs) : y.jobs[i] = x.jobs[i + 1]
        /\ y.jobs # <<>> <=> Len(y.jobs) # 0
<1>1. /\ y.jobs \in Seq(JobType) /\ Head(x.jobs) = x.jobs[1] /\ x.jobs[1] \in JobType
      /\ Len(x.jobs) = Len(y.jobs) + 1 /\ Len(y.jobs) \in Nat
      /\ \A i \in 1..Len(y.jobs) : y.jobs[i] = x.jobs[i + 1]
  BY HeadTailProperties, LenProperties
<1>2. y.jobs # <<>> <=> Len(y.jobs) # 0
  BY <1>1, EmptySeq
<1> QED
  BY <1>1, <1>2

\* What the sound of a track adds to the work of the disk
LEMMA PcmSound ==
  ASSUME NEW x, NEW y, Typed(x), NEW j \in JobType, Keeps(x, y, {"jobs"}), y.jobs = Append(x.jobs, j), j.k = "pcm", ~x.failed,
         NEW t \in Tracks, Running(x, t)
  PROVE Sound(x, y)
<1> DEFINE S == {"jobs"}
           n == Len(x.jobs) + 1
<1>0. x.jobs \in Seq(JobType)
  BY DEF Typed, TypedRest
<1>1. /\ y.jobs \in Seq(JobType) /\ y.jobs # <<>>
      /\ Len(y.jobs) = Len(x.jobs) + 1 /\ Len(x.jobs) \in Nat
      /\ \A i \in 1..Len(x.jobs) : y.jobs[i] = x.jobs[i]
      /\ y.jobs[Len(x.jobs) + 1] = j
      /\ x.jobs # <<>> => Len(x.jobs) # 0 /\ \A k : First(y, k) <=> First(x, k)
      /\ x.jobs = <<>> => Len(x.jobs) = 0 /\ \A k : First(y, k) <=> j.k = k
  BY <1>0, JobFacts
<1>2. Typed(y)
  <2>1. TypedIn(y, S)
    BY <1>1 DEF TypedIn
  <2> QED
    BY <2>1, KeepsTyped
<1>3. /\ y.crossed = x.crossed /\ y.made = x.made /\ y.state = x.state /\ y.close = x.close /\ y.opening = x.opening
      /\ y.gui = x.gui /\ y.cmd = x.cmd /\ y.terminating = x.terminating
      /\ y.reader = x.reader /\ y.failed = x.failed /\ y.finalizing = x.finalizing /\ y.msgs = x.msgs
      /\ y.lost = x.lost /\ y.final = x.final /\ y.interval = x.interval /\ y.lied = x.lied
  BY FieldsAre DEF Keeps
<1>4. Core(x) => OpeningOK(y) /\ ClosingOK(y) /\ SourcesOK(y) /\ ClicksOK(y)
  <2>1. S \cap OpeningFields = {} /\ S \cap ClosingFields = {} /\ S \cap SourcesFields = {} /\ S \cap ClicksFields = {}
    BY DEF OpeningFields, ClosingFields, SourcesFields, ClicksFields
  <2> QED
    BY <2>1, OpeningFrame, ClosingFrame, SourcesFrame, ClicksFrame DEF Core
<1>5. Good(x) => DiskOK(y)
  <2> SUFFICES ASSUME Good(x) PROVE DiskOK(y)
    OBVIOUS
  <2>1. DiskOK(x)
    BY DEF Good, Core
  <2>2. ~x.finalizing /\ (x.interval \/ First(x, "open"))
    BY ReadingFacts
  <2>3. (Still(y) <=> Still(x)) /\ (Active(y) <=> Active(x)) /\ \A k : Of(y, k) = Of(x, k)
    BY <1>3 DEF Still, Running, Active, Of
  <2>4. First(x, "open") => x.jobs # <<>>
    BY DEF First
  <2>5. x.interval \/ First(y, "open")
    BY <1>1, <2>2, <2>4
  <2>6. First(y, "pcm") => y.interval
    <3>1. CASE x.jobs = <<>>
      BY <1>3, <2>2, <2>4, <3>1
    <3>2. CASE x.jobs # <<>>
      BY <1>1, <1>3, <2>1, <3>2 DEF DiskOK
    <3> QED
      BY <3>1, <3>2
  <2>7. \A i \in 1..Len(y.jobs) :
          /\ y.jobs[i].k = "open" => i = 1 /\ ~y.interval
          /\ y.jobs[i].k = "close" => i = Len(y.jobs) /\ y.finalizing
    <3> SUFFICES ASSUME NEW i \in 1..Len(y.jobs)
                 PROVE /\ y.jobs[i].k = "open" => i = 1 /\ ~y.interval
                       /\ y.jobs[i].k = "close" => i = Len(y.jobs) /\ y.finalizing
      OBVIOUS
    <3>1. CASE i = n
      BY <1>1, <3>1
    <3>2. CASE i # n
      <4>1. i \in 1..Len(x.jobs) /\ y.jobs[i] = x.jobs[i]
        BY <1>1, <3>2
      <4> QED
        BY <1>3, <2>1, <2>2, <4>1 DEF DiskOK
    <3> QED
      BY <3>1, <3>2
  <2>8. Of(y, "finalized") = {}
    BY <2>1, <2>2, <2>3 DEF DiskOK
  <2>9. First(y, "open") => First(x, "open")
    BY <1>1
  <2>10. y.interval \/ First(y, "open") => y.failed \/ Active(y) \/ y.finalizing
    BY <1>3, <2>1, <2>3, <2>9 DEF DiskOK
  <2>11. /\ y.lost => y.final = "failed" \/ Of(y, "disk-failed") # {}
         /\ Of(y, "disk-failed") # {} => y.failed \/ Active(y)
         /\ ~y.lied /\ ~y.failed
    BY <1>3, <2>1, <2>3 DEF DiskOK
  <2>12. ~Still(y) => y.failed \/ y.interval \/ First(y, "open")
    BY <1>3, <2>5
  <2> QED
    BY <2>6, <2>7, <2>8, <2>10, <2>11, <2>12 DEF DiskOK
<1> QED
  BY <1>2, <1>3, <1>4, <1>5, GoodParts DEF Good, Core

\* What is lost is told
LEMMA LostSound ==
  ASSUME NEW x, NEW y, Typed(x), Keeps(x, y, {"lost"}), y.lost \in BOOLEAN,
         Good(x) => x.final = "failed" \/ Of(x, "disk-failed") # {}
  PROVE Sound(x, y)
<1> DEFINE S == {"lost"}
<1>1. Typed(y)
  <2>1. TypedIn(y, S)
    BY DEF TypedIn
  <2> QED
    BY <2>1, KeepsTyped
<1>2. /\ y.crossed = x.crossed /\ y.made = x.made /\ y.state = x.state /\ y.close = x.close /\ y.opening = x.opening
      /\ y.gui = x.gui /\ y.cmd = x.cmd /\ y.terminating = x.terminating
      /\ y.reader = x.reader /\ y.failed = x.failed /\ y.finalizing = x.finalizing /\ y.msgs = x.msgs
      /\ y.final = x.final /\ y.interval = x.interval /\ y.lied = x.lied /\ y.jobs = x.jobs
  BY FieldsAre DEF Keeps
<1>3. Core(x) => OpeningOK(y) /\ ClosingOK(y) /\ SourcesOK(y) /\ ClicksOK(y)
  <2>1. S \cap OpeningFields = {} /\ S \cap ClosingFields = {} /\ S \cap SourcesFields = {} /\ S \cap ClicksFields = {}
    BY DEF OpeningFields, ClosingFields, SourcesFields, ClicksFields
  <2> QED
    BY <2>1, OpeningFrame, ClosingFrame, SourcesFrame, ClicksFrame DEF Core
<1>4. Good(x) => DiskOK(y)
  <2>1. (Still(y) <=> Still(x)) /\ (Active(y) <=> Active(x)) /\ (\A k : Of(y, k) = Of(x, k)) /\ (\A k : First(y, k) <=> First(x, k))
    BY <1>2 DEF Still, Running, Active, Of, First
  <2> QED
    BY <1>2, <2>1 DEF Good, Core, DiskOK
<1> QED
  BY <1>1, <1>2, <1>3, <1>4, GoodParts DEF Good, Core

LEMMA KeepSound == ASSUME Typed(c), NEW t \in Tracks, Keep(t) PROVE Sound(c, c')
<1>1. Running(c, t)
  BY DEF Keep, Running
<1>2. CASE c.failed \/ Waiting(t) >= Credit
  <2> DEFINE m == Message("disk-failed")
             y == [c EXCEPT !.msgs = Append(c.msgs, m)]
             z == [y EXCEPT !.lost = TRUE]
  <2>1. c' = [[c EXCEPT !.reader[t] = NoReader, !.lost = TRUE] EXCEPT !.msgs = Append(@, m)]
    BY <1>2 DEF Keep, Post
  <2>2. m \in MessageType /\ m.k = "disk-failed"
    BY MessageTyped DEF Told
  <2> HIDE DEF m
  <2>3. Keeps(c, y, {"msgs"}) /\ y.msgs = Append(c.msgs, m) /\ y.reader = c.reader
    BY FieldsAre DEF Keeps, Typed, TypedControl
  <2>4. Keeps(y, z, {"lost"}) /\ z.lost = TRUE /\ z.reader = y.reader
    BY FieldsAre DEF Keeps, Typed, TypedControl
  <2>5. Keeps(z, c', {"reader"}) /\ c'.reader = [c.reader EXCEPT ![t] = NoReader]
    BY <2>1, FieldsAre DEF Keeps, Typed, TypedControl
  <2> HIDE DEF y, z
  <2>6. Sound(c, y)
    BY <1>1, <2>2, <2>3, ReadingFacts, PostSound
  <2>7. Of(y, "disk-failed") # {}
    <3>0. c.msgs \in Seq(MessageType)
      BY DEF Typed, TypedRest
    <3>1. \A k : Of(c, k) \subseteq 1..Len(c.msgs) /\ Of(y, k) = IF m.k = k THEN Of(c, k) \cup {Len(c.msgs) + 1} ELSE Of(c, k)
      BY <2>2, <2>3, <3>0, PostFacts DEF Posted
    <3> QED
      BY <2>2, <3>1
  <2>8. Sound(y, z)
    BY <2>4, <2>6, <2>7, LostSound DEF Sound
  <2>9. c'.reader \in [Tracks -> ReaderType] /\ \A u \in Tracks : Running(c', u) => Running(z, u)
    BY <2>3, <2>4, <2>5 DEF Typed, TypedControl, Running, NoReader, ReaderType
  <2>10. Sound(z, c')
    BY <2>5, <2>8, <2>9, ReadersSound DEF Sound
  <2> QED
    BY <2>6, <2>8, <2>10, SoundTrans
<1>3. CASE ~(c.failed \/ Waiting(t) >= Credit)
  <2> DEFINE j == [Job("pcm") EXCEPT !.t = t]
             y == [c EXCEPT !.jobs = Append(c.jobs, j)]
  <2>1. c' = [c EXCEPT !.reader[t].pc = "run", !.jobs = Append(@, j)]
    BY <1>3 DEF Keep
  <2>2. j \in JobType /\ j.k = "pcm"
    BY JobTyped DEF JobType
  <2> HIDE DEF j
  <2>3. Keeps(c, y, {"jobs"}) /\ y.jobs = Append(c.jobs, j) /\ y.reader = c.reader
    BY FieldsAre DEF Keeps, Typed, TypedControl
  <2>4. Keeps(y, c', {"reader"}) /\ c'.reader = [c.reader EXCEPT ![t].pc = "run"]
    BY <2>1, FieldsAre DEF Keeps, Typed, TypedControl
  <2> HIDE DEF y
  <2>5. Sound(c, y)
    BY <1>1, <1>3, <2>2, <2>3, PcmSound
  <2>6. c'.reader \in [Tracks -> ReaderType] /\ \A u \in Tracks : Running(c', u) => Running(y, u)
    BY <1>1, <2>3, <2>4 DEF Typed, TypedControl, Running, ReaderType
  <2>7. Sound(y, c')
    BY <2>4, <2>5, <2>6, ReadersSound DEF Sound
  <2> QED
    BY <2>5, <2>7, SoundTrans
<1> QED
  BY <1>2, <1>3

LEMMA PostedFact ==
  ASSUME NEW x, NEW y, NEW m, m \in MessageType, Typed(x), y.msgs = Append(x.msgs, m)
  PROVE Of(y, m.k) # {}
<1>1. x.msgs \in Seq(MessageType)
  BY DEF Typed, TypedRest
<1>2. \A k : Of(x, k) \subseteq 1..Len(x.msgs) /\ Of(y, k) = IF m.k = k THEN Of(x, k) \cup {Len(x.msgs) + 1} ELSE Of(x, k)
  BY <1>1, PostFacts DEF Posted
<1> QED
  BY <1>2

LEMMA StoreFailsSound == ASSUME Typed(c), StoreFails PROVE Sound(c, c')
<1> DEFINE m == Message("disk-failed")
           v == [c EXCEPT !.failed = TRUE, !.jobs = <<>>]
           w == [v EXCEPT !.msgs = Append(c.msgs, m)]
<1>1. c' = [[c EXCEPT !.failed = TRUE, !.jobs = <<>>, !.lost = TRUE] EXCEPT !.msgs = Append(@, m)] /\ c.jobs # <<>>
  BY DEF StoreFails, Post
<1>2. m \in MessageType /\ m.k = "disk-failed"
  BY MessageTyped DEF Told
<1> HIDE DEF m
<1>3. Keeps(c, v, {"failed", "jobs"}) /\ v.failed = TRUE /\ v.jobs = <<>> /\ v.msgs = c.msgs
  BY FieldsAre DEF Keeps, Typed, TypedControl
<1>4. Keeps(v, w, {"msgs"}) /\ w.msgs = Append(v.msgs, m)
  BY FieldsAre DEF Keeps, Typed, TypedControl
<1>5. Keeps(w, c', {"lost"}) /\ c'.lost = TRUE
  BY <1>1, FieldsAre DEF Keeps, Typed, TypedControl
<1> HIDE DEF v, w
<1>6. Typed(v)
  <2>1. TypedIn(v, {"failed", "jobs"})
    BY <1>3, EmptySeq DEF TypedIn
  <2> QED
    BY <1>3, <2>1, KeepsTyped
<1>7. Sound(c, v)
  <2> DEFINE S == {"failed", "jobs"}
  <2>1. /\ v.crossed = c.crossed /\ v.made = c.made /\ v.state = c.state /\ v.close = c.close /\ v.opening = c.opening
        /\ v.gui = c.gui /\ v.cmd = c.cmd /\ v.terminating = c.terminating /\ v.closer = c.closer /\ v.opener = c.opener
        /\ v.reader = c.reader /\ v.finalizing = c.finalizing /\ v.live = c.live
        /\ v.final = c.final /\ v.interval = c.interval /\ v.lied = c.lied /\ v.lost = c.lost
    BY <1>3, FieldsAre DEF Keeps
  <2>2. Core(c) => OpeningOK(v) /\ SourcesOK(v) /\ ClicksOK(v)
    <3>1. S \cap OpeningFields = {} /\ S \cap SourcesFields = {} /\ S \cap ClicksFields = {}
      BY DEF OpeningFields, SourcesFields, ClicksFields
    <3> QED
      BY <1>3, <3>1, OpeningFrame, SourcesFrame, ClicksFrame DEF Core
  <2>3. Core(c) => ClosingOK(v)
    BY <1>3, <2>1 DEF Core, ClosingOK, Of, Idle, Still, Running
  <2>4. Core(c) => DiskOK(v)
    <3>1. Core(c) => Of(c, "finalized") = {}
      BY <1>1 DEF Core, DiskOK
    <3>2. \A k : Of(v, k) = Of(c, k)
      BY <1>3 DEF Of
    <3>3. Len(v.jobs) = 0
      BY <1>3
    <3>4. \A k : ~First(v, k)
      BY <1>3 DEF First
    <3> QED
      BY <1>3, <2>1, <3>1, <3>2, <3>3, <3>4 DEF Core, DiskOK
  <2> QED
    BY <1>6, <2>1, <2>2, <2>3, <2>4, GoodParts DEF Good, Core
<1>8. Sound(v, w)
  BY <1>2, <1>3, <1>4, <1>6, PostSound
<1>9. Of(w, "disk-failed") # {}
  <2>1. w.msgs = Append(v.msgs, m) /\ m \in MessageType
    BY <1>2, <1>4
  <2> QED
    BY <1>2, <1>6, <2>1, PostedFact
<1>10. Sound(w, c')
  BY <1>5, <1>8, <1>9, LostSound DEF Sound
<1> QED
  BY <1>7, <1>8, <1>10, SoundTrans

\* The disk begins an interval, or writes a block of sound
LEMMA StoreOneSound ==
  ASSUME NEW x, NEW y, Typed(x), x.jobs # <<>>, ~x.failed, Keeps(x, y, {"jobs", "interval"}), y.jobs = Tail(x.jobs),
         \/ x.jobs[1].k = "open" /\ y.interval = TRUE
         \/ x.jobs[1].k = "pcm" /\ y.interval = x.interval
  PROVE Sound(x, y)
<1> DEFINE S == {"jobs", "interval"}
<1>0. x.jobs \in Seq(JobType)
  BY DEF Typed, TypedRest
<1>1. /\ y.jobs \in Seq(JobType) /\ Head(x.jobs) = x.jobs[1] /\ x.jobs[1] \in JobType
      /\ Len(x.jobs) = Len(y.jobs) + 1 /\ Len(y.jobs) \in Nat
      /\ \A i \in 1..Len(y.jobs) : y.jobs[i] = x.jobs[i + 1]
      /\ y.jobs # <<>> <=> Len(y.jobs) # 0
  BY <1>0, JobTailFacts
<1>2. Typed(y)
  <2>1. TypedIn(y, S)
    BY <1>1 DEF TypedIn, Typed, TypedRest
  <2> QED
    BY <2>1, KeepsTyped
<1>3. /\ y.crossed = x.crossed /\ y.made = x.made /\ y.state = x.state /\ y.close = x.close /\ y.opening = x.opening
      /\ y.gui = x.gui /\ y.cmd = x.cmd /\ y.terminating = x.terminating
      /\ y.reader = x.reader /\ y.failed = x.failed /\ y.finalizing = x.finalizing /\ y.msgs = x.msgs
      /\ y.lost = x.lost /\ y.final = x.final /\ y.lied = x.lied
  BY FieldsAre DEF Keeps
<1>4. Core(x) => OpeningOK(y) /\ ClosingOK(y) /\ SourcesOK(y) /\ ClicksOK(y)
  <2>1. S \cap OpeningFields = {} /\ S \cap ClosingFields = {} /\ S \cap SourcesFields = {} /\ S \cap ClicksFields = {}
    BY DEF OpeningFields, ClosingFields, SourcesFields, ClicksFields
  <2> QED
    BY <2>1, OpeningFrame, ClosingFrame, SourcesFrame, ClicksFrame DEF Core
<1>5. Good(x) => DiskOK(y)
  <2> SUFFICES ASSUME Good(x) PROVE DiskOK(y)
    OBVIOUS
  <2>1. DiskOK(x)
    BY DEF Good, Core
  <2>2. (Still(y) <=> Still(x)) /\ (Active(y) <=> Active(x)) /\ \A k : Of(y, k) = Of(x, k)
    BY <1>3 DEF Still, Running, Active, Of
  <2>3. y.interval
    BY <2>1 DEF DiskOK, First
  <2>4. x.interval \/ First(x, "open")
    BY <2>1 DEF DiskOK, First
  <2>5. \A i \in 1..Len(y.jobs) :
          /\ y.jobs[i].k # "open"
          /\ y.jobs[i].k = "close" => i = Len(y.jobs) /\ y.finalizing
    <3> SUFFICES ASSUME NEW i \in 1..Len(y.jobs)
                 PROVE /\ y.jobs[i].k # "open"
                       /\ y.jobs[i].k = "close" => i = Len(y.jobs) /\ y.finalizing
      OBVIOUS
    <3>1. i + 1 \in 1..Len(x.jobs) /\ y.jobs[i] = x.jobs[i + 1] /\ i + 1 # 1
      BY <1>1
    <3> QED
      BY <1>1, <1>3, <2>1, <3>1 DEF DiskOK
  <2>6. Of(y, "finalized") = {}
    BY <2>1, <2>2 DEF DiskOK
  <2>7. /\ y.lost => y.final = "failed" \/ Of(y, "disk-failed") # {}
        /\ Of(y, "disk-failed") # {} => y.failed \/ Active(y)
        /\ ~y.lied /\ ~y.failed
        /\ y.failed \/ Active(y) \/ y.finalizing
    BY <1>3, <2>1, <2>2, <2>4 DEF DiskOK
  <2> QED
    BY <2>3, <2>5, <2>6, <2>7 DEF DiskOK
<1> QED
  BY <1>2, <1>3, <1>4, <1>5, GoodParts DEF Good, Core

\* The disk ends an interval, and tells so
LEMMA StoreLastSound ==
  ASSUME NEW x, NEW y, NEW m \in MessageType, Typed(x), x.jobs # <<>>, ~x.failed, Keeps(x, y, {"jobs", "interval", "msgs"}),
         y.jobs = Tail(x.jobs), x.jobs[1].k = "close", y.interval = FALSE, y.msgs = Append(x.msgs, m), m.k = "finalized"
  PROVE Sound(x, y)
<1> DEFINE S == {"jobs", "interval", "msgs"}
           n == Len(x.msgs) + 1
<1>0. x.jobs \in Seq(JobType)
  BY DEF Typed, TypedRest
<1>b. x.msgs \in Seq(MessageType)
  BY DEF Typed, TypedRest
<1>1. /\ y.jobs \in Seq(JobType) /\ Head(x.jobs) = x.jobs[1] /\ x.jobs[1] \in JobType
      /\ Len(x.jobs) = Len(y.jobs) + 1 /\ Len(y.jobs) \in Nat
      /\ \A i \in 1..Len(y.jobs) : y.jobs[i] = x.jobs[i + 1]
      /\ y.jobs # <<>> <=> Len(y.jobs) # 0
  BY <1>0, JobTailFacts
<1>2. /\ y.msgs \in Seq(MessageType)
      /\ Len(y.msgs) = n /\ Len(x.msgs) \in Nat
      /\ \A i \in 1..Len(x.msgs) : y.msgs[i] = x.msgs[i]
      /\ y.msgs[n] = m
      /\ \A k : Of(x, k) \subseteq 1..Len(x.msgs) /\ Of(y, k) = IF m.k = k THEN Of(x, k) \cup {n} ELSE Of(x, k)
  <2>1. m \in MessageType /\ y.msgs = Append(x.msgs, m)
    OBVIOUS
  <2>2. Posted(x, y, m)
    BY <1>b, <2>1, PostFacts
  <2> QED
    BY <2>2 DEF Posted
<1>3. Typed(y)
  <2>1. TypedIn(y, S)
    BY <1>1, <1>2 DEF TypedIn, Typed, TypedRest
  <2> QED
    BY <2>1, KeepsTyped
<1>4. /\ y.crossed = x.crossed /\ y.made = x.made /\ y.state = x.state /\ y.close = x.close /\ y.opening = x.opening
      /\ y.gui = x.gui /\ y.cmd = x.cmd /\ y.terminating = x.terminating
      /\ y.closer = x.closer /\ y.live = x.live /\ y.opener = x.opener /\ y.reader = x.reader /\ y.failed = x.failed
      /\ y.request = x.request /\ y.finalizing = x.finalizing /\ y.gone = x.gone
      /\ y.lost = x.lost /\ y.final = x.final /\ y.lied = x.lied
      /\ y.needs = x.needs /\ y.manual = x.manual /\ y.terminal = x.terminal /\ y.news = x.news /\ y.epoch = x.epoch
      /\ y.recovery = x.recovery /\ y.leaseTracks = x.leaseTracks /\ y.since = x.since /\ y.track = x.track
  BY FieldsAre DEF Keeps
<1>5. /\ \A k : k # "finalized" => Of(y, k) = Of(x, k)
      /\ Of(y, "finalized") = Of(x, "finalized") \cup {n} /\ Ends(y) = Ends(x)
  BY <1>2 DEF Ends
<1>6. (Idle(y) <=> Idle(x)) /\ (Still(y) <=> Still(x)) /\ (Active(y) <=> Active(x)) /\ (Barred(y) <=> Barred(x))
      /\ (\A t \in Tracks : Running(y, t) <=> Running(x, t))
  BY <1>4 DEF Idle, Still, Running, Active, Barred
<1>7. Core(x) => SourcesOK(y)
  <2>1. S \cap SourcesFields = {}
    BY DEF SourcesFields
  <2> QED
    BY <2>1, SourcesFrame DEF Core
<1>8. Core(x) => OpeningOK(y)
  BY <1>4, <1>5, <1>6 DEF Core, OpeningOK
<1>9. Good(x) => x.finalizing /\ Of(x, "closed") = {} /\ Still(x) /\ y.jobs = <<>>
  <2> SUFFICES ASSUME Good(x) PROVE x.finalizing /\ Of(x, "closed") = {} /\ Still(x) /\ y.jobs = <<>>
    OBVIOUS
  <2>1. 1 \in 1..Len(x.jobs)
    BY <1>1
  <2>2. x.finalizing /\ 1 = Len(x.jobs)
    BY <2>1 DEF Good, Core, DiskOK
  <2>3. ~x.close.on /\ x.made = {}
    BY <2>2 DEF Good, Core, SourcesOK
  <2>4. Still(x)
    BY <2>3 DEF Good, Core, SourcesOK, Still, TracksOf
  <2> QED
    BY <1>1, <2>2, <2>3, <2>4 DEF Good, Core, ClosingOK
<1>10. Good(x) => ClosingOK(y)
  BY <1>4, <1>5, <1>6, <1>9 DEF Good, Core, ClosingOK
<1>11. Good(x) => DiskOK(y)
  <2>1. Good(x) => Of(x, "finalized") = {}
    BY DEF Good, Core, DiskOK
  <2>2. Good(x) => Len(y.jobs) = 0 /\ \A k : ~First(y, k)
    BY <1>1, <1>9 DEF First
  <2> QED
    BY <1>4, <1>5, <1>6, <1>9, <2>1, <2>2 DEF Good, Core, DiskOK
<1>12. Core(x) => ClicksOK(y)
  <2>1. \A i \in Of(x, "track-ended") : y.msgs[i] = x.msgs[i]
    BY <1>2
  <2>2. Of(y, "track-ended") = Of(x, "track-ended")
    BY <1>5
  <2> QED
    BY <1>4, <1>6, <2>1, <2>2 DEF Core, ClicksOK, AdmissionOK, GoneOK
<1> QED
  BY <1>3, <1>4, <1>7, <1>8, <1>10, <1>11, <1>12, GoodParts DEF Good, Core

LEMMA StoreSound == ASSUME Typed(c), Store PROVE Sound(c, c')
<1> DEFINE j == Head(c.jobs)
           v == [c EXCEPT !.jobs = Tail(@)]
<1>1. c.jobs # <<>> /\ ~c.failed
  BY DEF Store
<1>2. c.jobs \in Seq(JobType)
  BY DEF Typed, TypedRest
<1>3. j = c.jobs[1] /\ j \in JobType /\ Tail(c.jobs) \in Seq(JobType)
  BY <1>1, <1>2, HeadTailProperties, LenProperties
<1>4. j.k \in {"open", "close", "pcm"} /\ j.req \in Kinds \cup {None}
  BY <1>3 DEF JobType
<1>5. c' = CASE j.k = "open" -> [v EXCEPT !.interval = TRUE]
               [] j.k = "close" -> Post([v EXCEPT !.interval = FALSE], [Message("finalized") EXCEPT !.req = j.req])
               [] OTHER -> v
  BY DEF Store
<1>6. Keeps(c, v, {"jobs"}) /\ v.jobs = Tail(c.jobs) /\ DOMAIN v = Fields /\ v.msgs = c.msgs /\ v.interval = c.interval
  BY FieldsAre DEF Keeps, Typed, TypedControl
<1> HIDE DEF v, j
<1>7. CASE j.k = "open"
  <2>1. c' = [v EXCEPT !.interval = TRUE]
    BY <1>5, <1>7
  <2>2. Keeps(c, c', {"jobs", "interval"}) /\ c'.jobs = Tail(c.jobs) /\ c'.interval = TRUE
    BY <1>6, <2>1, FieldsAre DEF Keeps
  <2> QED
    BY <1>1, <1>3, <1>7, <2>2, StoreOneSound
<1>8. CASE j.k = "pcm"
  <2>1. c' = v
    BY <1>5, <1>8
  <2>2. Keeps(c, c', {"jobs", "interval"}) /\ c'.jobs = Tail(c.jobs) /\ c'.interval = c.interval
    BY <1>6, <2>1 DEF Keeps
  <2> QED
    BY <1>1, <1>3, <1>8, <2>2, StoreOneSound
<1>9. CASE j.k = "close"
  <2> DEFINE m == [Message("finalized") EXCEPT !.req = j.req]
  <2>1. m \in MessageType /\ m.k = "finalized"
    BY <1>4, MessageTyped DEF Told, MessageType
  <2>2. c' = [[v EXCEPT !.interval = FALSE] EXCEPT !.msgs = Append(@, m)]
    BY <1>5, <1>9 DEF Post
  <2> HIDE DEF m
  <2>3. Keeps(c, c', {"jobs", "interval", "msgs"}) /\ c'.jobs = Tail(c.jobs) /\ c'.interval = FALSE /\ c'.msgs = Append(c.msgs, m)
    BY <1>6, <2>2, FieldsAre DEF Keeps
  <2> QED
    BY <1>1, <1>3, <1>9, <2>1, <2>3, StoreLastSound
<1> QED
  BY <1>4, <1>7, <1>8, <1>9

\* The thread that opens ends, with a last report
LEMMA OpenerEndsSound ==
  ASSUME NEW x, NEW y, NEW m \in MessageType, Typed(x), Keeps(x, y, {"opener", "closer", "msgs"}), y.opener = NoOpener,
         y.closer = [x.closer EXCEPT !.wait = FALSE], y.msgs = Append(x.msgs, m), m.k \in {"opened", "open-failed"},
         ~Idle(x), m.k = "opened" => x.opener.pc = "check"
  PROVE Sound(x, y)
<1> DEFINE S == {"opener", "closer", "msgs"}
           n == Len(x.msgs) + 1
<1>0. x.msgs \in Seq(MessageType)
  BY DEF Typed, TypedRest
<1>1. Posted(x, y, m)
  BY <1>0, PostFacts
<1>2. /\ y.msgs \in Seq(MessageType)
      /\ Len(y.msgs) = n /\ Len(x.msgs) \in Nat
      /\ \A i \in 1..Len(x.msgs) : y.msgs[i] = x.msgs[i]
      /\ y.msgs[n] = m
      /\ \A k : Of(x, k) \subseteq 1..Len(x.msgs) /\ Of(y, k) = IF m.k = k THEN Of(x, k) \cup {n} ELSE Of(x, k)
  BY <1>1 DEF Posted
<1>3a. y.opener \in OpenerType
  BY DEF NoOpener, OpenerType
<1>3b. x.closer \in CloserType
  BY DEF Typed, TypedControl
<1>3. y.opener \in OpenerType /\ y.closer \in CloserType
  BY <1>3a, <1>3b DEF CloserType
<1>4. Typed(y)
  <2>1. TypedIn(y, S)
    BY <1>2, <1>3 DEF TypedIn
  <2> QED
    BY <2>1, KeepsTyped
<1>5. /\ y.crossed = x.crossed /\ y.made = x.made /\ y.state = x.state /\ y.close = x.close /\ y.opening = x.opening
      /\ y.gui = x.gui /\ y.cmd = x.cmd /\ y.terminating = x.terminating
      /\ y.live = x.live /\ y.reader = x.reader /\ y.failed = x.failed
      /\ y.request = x.request /\ y.finalizing = x.finalizing /\ y.gone = x.gone
      /\ y.needs = x.needs /\ y.manual = x.manual /\ y.terminal = x.terminal /\ y.news = x.news /\ y.epoch = x.epoch
      /\ y.recovery = x.recovery /\ y.leaseTracks = x.leaseTracks /\ y.since = x.since /\ y.track = x.track
      /\ y.jobs = x.jobs /\ y.interval = x.interval /\ y.lost = x.lost /\ y.final = x.final /\ y.lied = x.lied
  BY FieldsAre DEF Keeps
<1>6. /\ y.closer.pc = x.closer.pc /\ y.closer.readers = x.closer.readers /\ y.closer.has = x.closer.has
      /\ y.closer.tracks = x.closer.tracks
  BY DEF Typed, TypedControl, CloserType
<1>7. /\ \A k : k \notin {"opened", "open-failed"} => Of(y, k) = Of(x, k)
      /\ Ends(y) = Ends(x) \cup {n}
      /\ Of(y, "opened") # {} => Of(x, "opened") # {} \/ m.k = "opened"
  BY <1>2 DEF Ends
<1>8. Idle(y) /\ y.opener.pc = "idle" /\ (Still(y) <=> Still(x)) /\ (Active(y) <=> Active(x)) /\ (Barred(y) <=> Barred(x))
      /\ (\A t \in Tracks : Running(y, t) <=> Running(x, t)) /\ (\A k : First(y, k) <=> First(x, k))
  BY <1>5 DEF Idle, Still, Running, Active, Barred, NoOpener, First
<1> HIDE DEF n
<1>9. Core(x) => SourcesOK(y)
  <2>1. S \cap SourcesFields = {}
    BY DEF SourcesFields
  <2> QED
    BY <2>1, SourcesFrame DEF Core
<1>9a. Core(x) => DiskOK(y)
  <2>1. Of(y, "disk-failed") = Of(x, "disk-failed") /\ Of(y, "finalized") = Of(x, "finalized")
    BY <1>7
  <2> QED
    BY <1>5, <1>8, <2>1 DEF Core, DiskOK
<1>10. Core(x) => OpeningOK(y)
  <2> SUFFICES ASSUME Core(x) PROVE OpeningOK(y)
    OBVIOUS
  <2>1. Ends(x) = {} /\ x.opening
    BY DEF Core, OpeningOK
  <2>2. Of(x, "opened") = {}
    BY <2>1 DEF Ends
  <2>3. Of(y, "opened") # {} => y.made # {}
    BY <1>5, <1>7, <2>2 DEF Core, OpeningOK
  <2>4. /\ ~Idle(y) => y.opening
        /\ y.opening => ~Idle(y) \/ Ends(y) # {}
        /\ Ends(y) # {} => y.opening /\ Idle(y)
        /\ \A i, j \in Ends(y) : i = j
    BY <1>5, <1>7, <1>8, <2>1
  <2> QED
    BY <1>5, <1>8, <2>3, <2>4 DEF Core, OpeningOK
<1>11. Core(x) => ClosingOK(y)
  <2>1. Core(x) => Of(y, "closed") = {}
    BY <1>7 DEF Core, ClosingOK
  <2> QED
    BY <1>5, <1>6, <1>8, <2>1 DEF Core, ClosingOK
<1>12. Core(x) => ClicksOK(y)
  <2>1. \A i \in Of(x, "track-ended") : y.msgs[i] = x.msgs[i]
    BY <1>2
  <2>2. Of(y, "track-ended") = Of(x, "track-ended")
    BY <1>7
  <2>3. Core(x) => \A t \in y.gone :
           \/ Barred(y) \/ \E i \in Of(y, "track-ended") : t \in y.msgs[i].tracks
           \/ t \notin y.leaseTracks /\ (y.since = "none" => y.track[t] # "live")
    <3>1. \A t : (\E i \in Of(x, "track-ended") : t \in x.msgs[i].tracks) => \E i \in Of(y, "track-ended") : t \in y.msgs[i].tracks
      BY <2>1, <2>2
    <3>2. /\ y.gone = x.gone /\ y.leaseTracks = x.leaseTracks /\ y.since = x.since /\ y.track = x.track
          /\ Barred(x) => Barred(y)
      BY <1>5, <1>8
    <3> QED
      BY <3>1, <3>2 DEF Core, ClicksOK, AdmissionOK, GoneOK
  <2>4. Core(x) => /\ y.needs => Barred(y) \/ y.news # <<>>
                   /\ y.recovery # None => y.recovery < y.epoch \/ (y.recovery = y.epoch /\ y.news = <<>>)
                   /\ y.request.epoch <= y.epoch /\ y.gui.epoch <= y.epoch /\ y.cmd.epoch <= y.epoch
                   /\ Of(y, "track-ended") # {} => Active(y)
    BY <1>5, <1>8, <2>2 DEF Core, ClicksOK, AdmissionOK, GoneOK
  <2> QED
    BY <1>8, <2>3, <2>4 DEF ClicksOK, AdmissionOK, GoneOK
<1> QED
  BY <1>4, <1>5, <1>9, <1>9a, <1>10, <1>11, <1>12, GoodParts DEF Good, Core

LEMMA OpenFailedSound ==
  ASSUME NEW x, Typed(x), NEW code \in Codes, ~Idle(x), NEW y, y = OpenFailed(x, code)
  PROVE Sound(x, y)
<1> DEFINE m == [Message("open-failed") EXCEPT !.code = code]
<1>1. m \in MessageType /\ m.k = "open-failed"
  BY MessageTyped DEF Told, MessageType
<1>2. y = [[x EXCEPT !.opener = NoOpener, !.closer.wait = FALSE] EXCEPT !.msgs = Append(@, m)]
  BY DEF OpenFailed, OpenerEnds, Post
<1> HIDE DEF m
<1>3. Keeps(x, y, {"opener", "closer", "msgs"}) /\ y.opener = NoOpener /\ y.closer = [x.closer EXCEPT !.wait = FALSE]
      /\ y.msgs = Append(x.msgs, m)
  BY <1>2, FieldsAre DEF Keeps, Typed, TypedControl
<1> QED
  BY <1>1, <1>3, OpenerEndsSound

LEMMA OpenFailsSound == ASSUME Typed(c), OpenFails PROVE Sound(c, c')
<1>1. ~Idle(c) /\ "audio-failed" \in Codes /\ c' = OpenFailed(c, "audio-failed")
  BY DEF OpenFails, Idle, Codes
<1> QED
  BY <1>1, OpenFailedSound

LEMMA NextTrackIs == ASSUME Typed(c), ~Idle(c) PROVE NextTrack \in c.opener.todo /\ NextSource \in Sources /\ NextSource[1] = NextTrack
<1>1. c.opener.todo \subseteq Tracks /\ c.opener.todo # {} /\ c.turn \in BOOLEAN
  BY DEF Typed, TypedControl, TypedRest, OpenerType, Idle
<1>2. NextTrack \in c.opener.todo
  BY <1>1 DEF NextTrack
<1> QED
  BY <1>1, <1>2 DEF NextSource, Sources

\* A source is made, and is connected
LEMMA SourceMadeSound ==
  ASSUME NEW x, NEW y, Typed(x), NEW s \in Sources, Keeps(x, y, {"made", "live", "opener"}), x.opener.pc = "open",
         y.live = x.live \cup {s}, y.opener = [x.opener EXCEPT !.pc = "check"],
         Good(x) => y.made = x.made \cup {s}, y.made \in SUBSET Sources,
         Good(x) => s[1] \in x.opener.todo
  PROVE Sound(x, y)
<1> DEFINE S == {"made", "live", "opener"}
<1>1. y.opener \in OpenerType /\ y.live \in SUBSET Sources
  BY DEF OpenerType, Typed, TypedControl, TypedRest
<1>2. Typed(y)
  <2>1. TypedIn(y, S)
    BY <1>1 DEF TypedIn
  <2> QED
    BY <2>1, KeepsTyped
<1>3. /\ y.crossed = x.crossed /\ y.state = x.state /\ y.close = x.close /\ y.opening = x.opening
      /\ y.gui = x.gui /\ y.cmd = x.cmd /\ y.terminating = x.terminating /\ y.closer = x.closer
      /\ y.reader = x.reader /\ y.failed = x.failed /\ y.msgs = x.msgs /\ y.quiet = x.quiet /\ y.shutdown = x.shutdown
      /\ y.request = x.request /\ y.finalizing = x.finalizing /\ y.gone = x.gone
      /\ y.needs = x.needs /\ y.manual = x.manual /\ y.terminal = x.terminal /\ y.news = x.news /\ y.epoch = x.epoch
      /\ y.recovery = x.recovery /\ y.leaseTracks = x.leaseTracks /\ y.since = x.since /\ y.track = x.track
  BY FieldsAre DEF Keeps
<1>4. y.opener.pc = "check" /\ y.opener.stop = x.opener.stop /\ y.opener.todo = x.opener.todo /\ ~Idle(x) /\ ~Idle(y)
  BY DEF Typed, TypedControl, OpenerType, Idle
<1>5. (\A k : Of(y, k) = Of(x, k)) /\ Ends(y) = Ends(x) /\ (Still(y) <=> Still(x)) /\ (Active(y) <=> Active(x)) /\ (Barred(y) <=> Barred(x))
      /\ (\A t \in Tracks : Running(y, t) <=> Running(x, t))
  BY <1>3 DEF Of, Ends, Still, Running, Active, Barred
<1> SUFFICES ASSUME Good(x) PROVE Good(y)
  BY <1>2, <1>3 DEF Sound
<1>6. x.opening /\ y.made # {} /\ y.made = x.made \cup {s} /\ TracksOf(x.made) \subseteq TracksOf(y.made)
      /\ TracksOf(y.made) = TracksOf(x.made) \cup {s[1]}
  BY <1>4 DEF Good, Core, OpeningOK, TracksOf
<1>7. OpeningOK(y)
  <2>1. OpeningOK(x)
    BY DEF Good, Core
  <2>2. TracksOf(y.made) \subseteq y.request.tracks
    BY <1>3, <1>4, <1>6, <2>1 DEF OpeningOK
  <2> QED
    BY <1>3, <1>4, <1>5, <1>6, <2>1, <2>2 DEF OpeningOK
<1>8. ClosingOK(y)
  <2>1. Of(y, "closed") = {} /\ y.closer.pc # "shut"
    BY <1>3, <1>4, <1>5 DEF Good, Core, ClosingOK
  <2> QED
    BY <1>3, <1>4, <1>5, <2>1 DEF Good, Core, ClosingOK
<1>9. SourcesOK(y)
  <2>1. ~y.finalizing /\ ~y.quiet
    BY <1>3, <1>6 DEF Good, Core, OpeningOK, SourcesOK
  <2> QED
    BY <1>3, <1>5, <1>6, <2>1 DEF Good, Core, SourcesOK
<1>10. DiskOK(y)
  <2>1. S \cap DiskFields = {}
    BY DEF DiskFields
  <2> QED
    BY <2>1, DiskFrame DEF Good, Core
<1>11. ClicksOK(y)
  BY <1>3, <1>4, <1>5 DEF Good, Core, ClicksOK, AdmissionOK, GoneOK
<1>12. Meant(y) /\ GuiOK(y)
  BY <1>3, <1>6 DEF Good, Meant, GuiOK
<1> QED
  BY <1>7, <1>8, <1>9, <1>10, <1>11, <1>12 DEF Good, Core

LEMMA OpenSourceSound == ASSUME Typed(c), OpenSource PROVE Sound(c, c')
<1> DEFINE x == IF c.opener.todo = c.request.tracks THEN [c EXCEPT !.made = {}] ELSE c
<1>1. PICK fresh \in BOOLEAN :
        c' = IF MayOpen(fresh)
             THEN [x EXCEPT !.made = @ \cup {NextSource}, !.live = @ \cup {NextSource}, !.opener.pc = "check"]
             ELSE OpenFailed(x, "admission-stale")
  BY DEF OpenSource
<1>2. c.opener.pc = "open" /\ ~Idle(c)
  BY DEF OpenSource, Idle
<1>3. NextTrack \in c.opener.todo /\ NextSource \in Sources /\ NextSource[1] = NextTrack
  BY <1>2, NextTrackIs
<1>4. Keeps(c, x, {"made"}) /\ x.made \in SUBSET Sources /\ x.opener = c.opener /\ x.live = c.live /\ (Good(c) => x.made = c.made)
  <2>1. CASE c.opener.todo = c.request.tracks
    <3>1. x = [c EXCEPT !.made = {}]
      BY <2>1
    <3>2. Good(c) => c.made = {}
      BY <1>2, <2>1 DEF Good, Core, OpeningOK
    <3> HIDE DEF x
    <3>3. x.made = {}
      BY <3>1, FieldsAre DEF Typed, TypedControl
    <3> QED
      BY <3>1, <3>2, <3>3, FieldsAre DEF Keeps, Typed, TypedControl
  <2>2. CASE c.opener.todo # c.request.tracks
    <3>1. x = c
      BY <2>2
    <3> HIDE DEF x
    <3> QED
      BY <3>1 DEF Keeps, Typed, TypedControl, TypedRest
  <2> QED
    BY <2>1, <2>2
<1> HIDE DEF x
<1>5. CASE MayOpen(fresh)
  <2>1. c' = [x EXCEPT !.made = @ \cup {NextSource}, !.live = @ \cup {NextSource}, !.opener.pc = "check"]
    BY <1>1, <1>5
  <2>2. /\ Keeps(c, c', {"made", "live", "opener"})
        /\ c'.made = x.made \cup {NextSource} /\ c'.live = x.live \cup {NextSource} /\ c'.opener = [x.opener EXCEPT !.pc = "check"]
    BY <1>4, <2>1, FieldsAre DEF Keeps
  <2>3. c'.made \in SUBSET Sources
    BY <1>3, <1>4, <2>2
  <2> QED
    BY <1>2, <1>3, <1>4, <2>2, <2>3, SourceMadeSound
<1>6. CASE ~MayOpen(fresh)
  <2>1. c' = OpenFailed(x, "admission-stale")
    BY <1>1, <1>6
  <2>2. Typed(x)
    <3>1. TypedIn(x, {"made"})
      BY <1>4 DEF TypedIn
    <3> QED
      BY <1>4, <3>1, KeepsTyped
  <2>3. Sound(c, x)
    <3>1. Good(c) => Keeps(c, x, {})
      BY <1>4 DEF Keeps
    <3>2. Good(c) => Core(x)
      BY <3>1, CoreFrame DEF Good
    <3>3. /\ x.crossed = c.crossed /\ x.state = c.state /\ x.close = c.close /\ x.opening = c.opening
          /\ x.gui = c.gui /\ x.cmd = c.cmd /\ x.terminating = c.terminating
      BY <1>4, FieldsAre DEF Keeps
    <3> QED
      BY <1>4, <2>2, <3>2, <3>3 DEF Sound, Good, Meant, GuiOK, Active
  <2>4. "admission-stale" \in Codes /\ ~Idle(x)
    BY <1>2, <1>4 DEF Codes, Idle
  <2>5. Sound(x, c')
    BY <2>1, <2>2, <2>4, OpenFailedSound
  <2> QED
    BY <2>3, <2>5, SoundTrans
<1> QED
  BY <1>5, <1>6

\* The opening goes on to the next track
LEMMA OpenNextSound ==
  ASSUME NEW x, NEW y, Typed(x), NEW t \in x.opener.todo, Keeps(x, y, {"opener"}), x.opener.pc = "check",
         y.opener = [x.opener EXCEPT !.todo = @ \ {t}, !.pc = "open"], x.opener.todo \ {t} # {}
  PROVE Sound(x, y)
<1> DEFINE S == {"opener"}
<1>1. y.opener \in OpenerType
  BY DEF OpenerType, Typed, TypedControl
<1>2. Typed(y)
  <2>1. TypedIn(y, S)
    BY <1>1 DEF TypedIn
  <2> QED
    BY <2>1, KeepsTyped
<1>3. /\ y.crossed = x.crossed /\ y.made = x.made /\ y.state = x.state /\ y.close = x.close /\ y.opening = x.opening
      /\ y.gui = x.gui /\ y.cmd = x.cmd /\ y.terminating = x.terminating /\ y.closer = x.closer
      /\ y.reader = x.reader /\ y.failed = x.failed /\ y.msgs = x.msgs /\ y.live = x.live
      /\ y.request = x.request /\ y.finalizing = x.finalizing /\ y.gone = x.gone
      /\ y.needs = x.needs /\ y.manual = x.manual /\ y.terminal = x.terminal /\ y.news = x.news /\ y.epoch = x.epoch
      /\ y.recovery = x.recovery /\ y.leaseTracks = x.leaseTracks /\ y.since = x.since /\ y.track = x.track
  BY FieldsAre DEF Keeps
<1>4. /\ y.opener.pc = "open" /\ y.opener.stop = x.opener.stop /\ y.opener.todo = x.opener.todo \ {t}
      /\ ~Idle(x) /\ ~Idle(y)
  BY DEF Typed, TypedControl, OpenerType, Idle
<1>5. (\A k : Of(y, k) = Of(x, k)) /\ Ends(y) = Ends(x) /\ (Still(y) <=> Still(x)) /\ (Active(y) <=> Active(x)) /\ (Barred(y) <=> Barred(x))
      /\ (\A u \in Tracks : Running(y, u) <=> Running(x, u))
  BY <1>3 DEF Of, Ends, Still, Running, Active, Barred
<1>6. Core(x) => OpeningOK(y)
  BY <1>3, <1>4, <1>5 DEF Core, OpeningOK
<1>7. Core(x) => ClosingOK(y)
  BY <1>3, <1>4, <1>5 DEF Core, ClosingOK
<1>8. Core(x) => SourcesOK(y) /\ DiskOK(y)
  <2>1. S \cap DiskFields = {} /\ S \cap SourcesFields = {}
    BY DEF DiskFields, SourcesFields
  <2> QED
    BY <2>1, DiskFrame, SourcesFrame DEF Core
<1>9. Core(x) => ClicksOK(y)
  BY <1>3, <1>4, <1>5 DEF Core, ClicksOK, AdmissionOK, GoneOK
<1> QED
  BY <1>2, <1>3, <1>6, <1>7, <1>8, <1>9, GoodParts DEF Good, Core

LEMMA OpenCheckSound == ASSUME Typed(c), OpenCheck PROVE Sound(c, c')
<1> DEFINE rest == c.opener.todo \ {NextTrack}
<1>1. PICK fresh \in BOOLEAN :
        c' = CASE ~MayOpen(fresh) -> OpenFailed([c EXCEPT !.live = @ \ {NextSource}], "admission-stale")
                 [] MayOpen(fresh) /\ rest = {} -> OpenerEnds(c, Message("opened"))
                 [] OTHER -> [c EXCEPT !.opener.todo = rest, !.opener.pc = "open"]
  BY DEF OpenCheck
<1>2. c.opener.pc = "check" /\ ~Idle(c)
  BY DEF OpenCheck, Idle
<1>3. NextTrack \in c.opener.todo
  BY <1>2, NextTrackIs
<1>4. CASE ~MayOpen(fresh)
  <2> DEFINE v == [c EXCEPT !.live = @ \ {NextSource}]
  <2>1. c' = OpenFailed(v, "admission-stale")
    BY <1>1, <1>4
  <2>2. Keeps(c, v, {"live"}) /\ v.live \subseteq c.live /\ v.opener = c.opener
    BY FieldsAre DEF Keeps, Typed, TypedControl
  <2> HIDE DEF v
  <2>3. Sound(c, v)
    BY <2>2, LiveSound
  <2>4. "admission-stale" \in Codes /\ ~Idle(v) /\ Typed(v)
    BY <1>2, <2>2, <2>3 DEF Codes, Idle, Sound
  <2>5. Sound(v, c')
    BY <2>1, <2>4, OpenFailedSound
  <2> QED
    BY <2>3, <2>5, SoundTrans
<1>5. CASE MayOpen(fresh) /\ rest = {}
  <2> DEFINE m == Message("opened")
  <2>1. m \in MessageType /\ m.k = "opened"
    BY MessageTyped DEF Told
  <2>2. c' = [[c EXCEPT !.opener = NoOpener, !.closer.wait = FALSE] EXCEPT !.msgs = Append(@, m)]
    BY <1>1, <1>5 DEF OpenerEnds, Post
  <2> HIDE DEF m
  <2>3. Keeps(c, c', {"opener", "closer", "msgs"}) /\ c'.opener = NoOpener /\ c'.closer = [c.closer EXCEPT !.wait = FALSE]
        /\ c'.msgs = Append(c.msgs, m)
    BY <2>2, FieldsAre DEF Keeps, Typed, TypedControl
  <2> QED
    BY <1>2, <2>1, <2>3, OpenerEndsSound
<1>6. CASE MayOpen(fresh) /\ rest # {}
  <2>1. c' = [c EXCEPT !.opener.todo = rest, !.opener.pc = "open"]
    BY <1>1, <1>6
  <2>2. Keeps(c, c', {"opener"}) /\ c'.opener = [c.opener EXCEPT !.todo = rest, !.pc = "open"]
    BY <2>1, FieldsAre DEF Keeps, Typed, TypedControl
  <2>3. c'.opener = [c.opener EXCEPT !.todo = @ \ {NextTrack}, !.pc = "open"]
    BY <2>2
  <2> QED
    BY <1>2, <1>3, <1>6, <2>2, <2>3, OpenNextSound
<1> QED
  BY <1>4, <1>5, <1>6

\* The closer goes on: it waits for less, and never forgets a reader
CloserFields == {"closer", "live"}
LEMMA CloserStepSound ==
  ASSUME NEW x, NEW y, Typed(x), Keeps(x, y, CloserFields), y.live \subseteq x.live, y.closer \in CloserType,
         x.closer.pc # "idle", y.closer.pc = "shut", y.closer.readers = x.closer.readers,
         Good(x) => Idle(x) /\ y.live \subseteq y.closer.has /\ y.closer.tracks = TracksOf(x.made)
  PROVE Sound(x, y)
<1> DEFINE S == CloserFields
<1>1. Typed(y)
  <2>1. TypedIn(y, S)
    BY DEF TypedIn, CloserFields, Typed, TypedRest
  <2> QED
    BY <2>1, KeepsTyped
<1>2. /\ y.crossed = x.crossed /\ y.made = x.made /\ y.state = x.state /\ y.close = x.close /\ y.opening = x.opening
      /\ y.gui = x.gui /\ y.cmd = x.cmd /\ y.terminating = x.terminating
      /\ y.msgs = x.msgs /\ y.opener = x.opener /\ y.reader = x.reader /\ y.failed = x.failed
      /\ y.track = x.track /\ y.finalizing = x.finalizing /\ y.quiet = x.quiet /\ y.shutdown = x.shutdown
  BY FieldsAre DEF Keeps, CloserFields
<1>3. Core(x) => OpeningOK(y) /\ DiskOK(y) /\ ClicksOK(y)
  <2>1. S \cap OpeningFields = {} /\ S \cap DiskFields = {} /\ S \cap ClicksFields = {}
    BY DEF OpeningFields, DiskFields, ClicksFields, CloserFields
  <2> QED
    BY <2>1, OpeningFrame, DiskFrame, ClicksFrame DEF Core
<1>4. Good(x) => ClosingOK(y)
  <2>1. Good(x) => Of(x, "closed") = {} /\ x.close.on
    BY DEF Good, Core, ClosingOK
  <2>2. Of(y, "closed") = Of(x, "closed") /\ (Idle(y) <=> Idle(x)) /\ \A t \in Tracks : Running(y, t) <=> Running(x, t)
    BY <1>2 DEF Of, Idle, Running
  <2> QED
    BY <1>2, <2>1, <2>2 DEF Good, Core, ClosingOK
<1>5. Core(x) => SourcesOK(y)
  BY <1>2 DEF Core, SourcesOK, Running
<1> QED
  BY <1>1, <1>2, <1>3, <1>4, <1>5, GoodParts DEF Good, Core

LEMMA CloserFindsSound == ASSUME Typed(c), CloserFinds PROVE Sound(c, c')
<1>1. c.closer.pc = "join" /\ ~c.closer.wait
  BY DEF CloserFinds
<1>2. Keeps(c, c', CloserFields) /\ c'.live = c.live
      /\ c'.closer = [c.closer EXCEPT !.pc = "shut", !.has = c.made, !.tracks = {s[1] : s \in c.made}]
  BY FieldsAre DEF CloserFinds, CloserFields, Keeps, Typed, TypedControl
<1>3. c.closer \in CloserType /\ c.made \in SUBSET Sources /\ c.live \in SUBSET Sources
  BY DEF Typed, TypedControl, TypedRest
<1>4. {s[1] : s \in c.made} \in SUBSET Tracks
  BY <1>3 DEF Sources
<1>5. /\ c'.closer \in CloserType /\ c'.closer.pc = "shut" /\ c'.closer.readers = c.closer.readers
      /\ c'.closer.has = c.made /\ c'.closer.tracks = TracksOf(c.made)
  BY <1>2, <1>3, <1>4 DEF CloserType, TracksOf
<1>6. Good(c) => Idle(c) /\ c.live \subseteq c.made
  BY <1>1 DEF Good, Core, ClosingOK, SourcesOK
<1> QED
  BY <1>1, <1>2, <1>5, <1>6, CloserStepSound

LEMMA CloserShutsSound == ASSUME Typed(c), NEW s \in c.closer.has, CloserShuts(s) PROVE Sound(c, c')
<1>1. c.closer.pc = "shut"
  BY DEF CloserShuts
<1>2. Keeps(c, c', CloserFields) /\ c'.live = c.live \ {s} /\ c'.closer = [c.closer EXCEPT !.has = @ \ {s}]
  BY FieldsAre DEF CloserShuts, CloserFields, Keeps, Typed, TypedControl
<1>3. c.closer \in CloserType
  BY DEF Typed, TypedControl
<1>5. /\ c'.closer \in CloserType /\ c'.closer.pc = "shut" /\ c'.closer.readers = c.closer.readers
      /\ c'.closer.has = c.closer.has \ {s} /\ c'.closer.tracks = c.closer.tracks
  BY <1>1, <1>2, <1>3 DEF CloserType
<1>6. Good(c) => Idle(c) /\ c.live \subseteq c.closer.has /\ c.closer.tracks = TracksOf(c.made)
  BY <1>1 DEF Good, Core, ClosingOK
<1> QED
  BY <1>1, <1>2, <1>5, <1>6, CloserStepSound

LEMMA CloserEndsSound == ASSUME Typed(c), CloserEnds PROVE Sound(c, c')
<1> DEFINE S == {"closer", "msgs"}
           m == [Message("closed") EXCEPT !.tracks = c.closer.tracks, !.req = c.close.req]
           x == c
           y == c'
           n == Len(x.msgs) + 1
<1>1. x.closer.pc = "shut" /\ x.closer.has = {} /\ \A t \in x.closer.readers : ~Running(x, t)
  BY DEF CloserEnds
<1>2. x.closer.tracks \in SUBSET Tracks /\ x.close.req \in Kinds \cup {None}
  BY DEF Typed, TypedControl, CloserType, CloseType
<1>3. m \in MessageType /\ m.k = "closed" /\ m.tracks = x.closer.tracks
  <2>1. m \in [k: Told, req: Kinds \cup {None}, tracks: SUBSET Tracks, code: Codes]
    BY <1>2, MessageShaped DEF Told
  <2>2. m.tracks = x.closer.tracks /\ m.k = "closed"
    BY MessageShaped DEF Told
  <2> QED
    BY <2>1, <2>2 DEF MessageType
<1>4. y = [[x EXCEPT !.closer = NoCloser] EXCEPT !.msgs = Append(@, m)]
  BY DEF CloserEnds, Post
<1> HIDE DEF m, y, x
<1>t. Typed(x)
  BY DEF x
<1>5. Keeps(x, y, S) /\ y.closer = NoCloser /\ y.msgs = Append(x.msgs, m)
  BY <1>4, <1>t, FieldsAre DEF Keeps, Typed, TypedControl
<1>6. Posted(x, y, m)
  <2>1. x.msgs \in Seq(MessageType) /\ y.msgs = Append(x.msgs, m)
    BY <1>t, <1>5 DEF Typed, TypedRest
  <2> QED
    BY <1>3, <2>1, PostFacts
<1>7. /\ y.msgs \in Seq(MessageType)
      /\ Len(y.msgs) = n /\ Len(x.msgs) \in Nat
      /\ \A i \in 1..Len(x.msgs) : y.msgs[i] = x.msgs[i]
      /\ y.msgs[n] = m
      /\ \A k : Of(x, k) \subseteq 1..Len(x.msgs) /\ Of(y, k) = IF m.k = k THEN Of(x, k) \cup {n} ELSE Of(x, k)
  BY <1>6 DEF Posted
<1>8. Typed(y)
  <2>1. NoCloser \in CloserType
    BY DEF NoCloser, CloserType
  <2>2. TypedIn(y, S)
    BY <1>5, <1>7, <2>1 DEF TypedIn
  <2> QED
    BY <1>5, <1>t, <2>2, KeepsTyped
<1>9. /\ y.crossed = x.crossed /\ y.made = x.made /\ y.state = x.state /\ y.close = x.close /\ y.opening = x.opening
      /\ y.gui = x.gui /\ y.cmd = x.cmd /\ y.terminating = x.terminating
      /\ y.live = x.live /\ y.reader = x.reader /\ y.failed = x.failed /\ y.opener = x.opener
      /\ y.request = x.request /\ y.finalizing = x.finalizing /\ y.gone = x.gone
      /\ y.needs = x.needs /\ y.manual = x.manual /\ y.terminal = x.terminal /\ y.news = x.news /\ y.epoch = x.epoch
      /\ y.recovery = x.recovery /\ y.leaseTracks = x.leaseTracks /\ y.since = x.since /\ y.track = x.track
      /\ y.jobs = x.jobs /\ y.interval = x.interval /\ y.lost = x.lost /\ y.final = x.final /\ y.lied = x.lied
  BY <1>5, FieldsAre DEF Keeps
<1>10. /\ \A k : k # "closed" => Of(y, k) = Of(x, k)
       /\ Of(y, "closed") = Of(x, "closed") \cup {n}
       /\ Ends(y) = Ends(x)
  BY <1>3, <1>7 DEF Ends
<1>11. (Idle(y) <=> Idle(x)) /\ (Still(y) <=> Still(x)) /\ (Active(y) <=> Active(x)) /\ (Barred(y) <=> Barred(x))
       /\ (\A t \in Tracks : Running(y, t) <=> Running(x, t)) /\ (\A k : First(y, k) <=> First(x, k))
       /\ y.closer.pc = "idle"
  BY <1>5, <1>9 DEF Idle, Still, Running, Active, Barred, First, NoCloser
<1>12. Core(x) => SourcesOK(y)
  <2>1. S \cap SourcesFields = {}
    BY DEF SourcesFields
  <2> QED
    BY <1>5, <2>1, SourcesFrame DEF Core
<1> HIDE DEF n
<1>13. Core(x) => OpeningOK(y)
  BY <1>9, <1>10, <1>11 DEF Core, OpeningOK
<1>14. Core(x) => ClosingOK(y)
  <2> SUFFICES ASSUME Core(x) PROVE ClosingOK(y)
    OBVIOUS
  <2>1. Of(x, "closed") = {} /\ x.close.on /\ Idle(x) /\ x.live = {} /\ x.closer.tracks = TracksOf(x.made)
    BY <1>1 DEF Core, ClosingOK
  <2>2. Still(x)
    BY <1>1 DEF Core, ClosingOK, Still
  <2>3. Of(y, "closed") = {n}
    BY <1>10, <2>1
  <2>4. \A i \in Of(y, "closed") : \A j \in 1..Len(y.msgs) : ~(j > i)
    BY <1>7, <2>3 DEF n
  <2>5. \A i \in Of(y, "closed") : y.msgs[i].tracks = TracksOf(y.made)
    BY <1>3, <1>7, <1>9, <2>1, <2>3
  <2>6. \A i, j \in Of(y, "closed") : i = j
    BY <2>3
  <2> QED
    BY <1>9, <1>11, <2>1, <2>2, <2>4, <2>5, <2>6 DEF ClosingOK
<1>15. Core(x) => DiskOK(y)
  <2>1. Of(y, "disk-failed") = Of(x, "disk-failed") /\ Of(y, "finalized") = Of(x, "finalized")
    BY <1>10
  <2> QED
    BY <1>9, <1>11, <2>1 DEF Core, DiskOK
<1>16. Core(x) => ClicksOK(y)
  <2>1. \A i \in Of(x, "track-ended") : y.msgs[i] = x.msgs[i]
    BY <1>7
  <2>2. Of(y, "track-ended") = Of(x, "track-ended")
    BY <1>10
  <2>3. Core(x) => \A t \in y.gone :
           \/ Barred(y) \/ \E i \in Of(y, "track-ended") : t \in y.msgs[i].tracks
           \/ t \notin y.leaseTracks /\ (y.since = "none" => y.track[t] # "live")
    <3>1. \A t : (\E i \in Of(x, "track-ended") : t \in x.msgs[i].tracks) => \E i \in Of(y, "track-ended") : t \in y.msgs[i].tracks
      BY <2>1, <2>2
    <3>2. /\ y.gone = x.gone /\ y.leaseTracks = x.leaseTracks /\ y.since = x.since /\ y.track = x.track
          /\ Barred(x) => Barred(y)
      BY <1>9, <1>11
    <3> QED
      BY <3>1, <3>2 DEF Core, ClicksOK, AdmissionOK, GoneOK
  <2>4. Core(x) => /\ y.needs => Barred(y) \/ y.news # <<>>
                   /\ ~Idle(y) /\ ~y.opener.stop => ~y.needs \/ y.epoch > y.request.epoch
                   /\ y.recovery # None => y.recovery < y.epoch \/ (y.recovery = y.epoch /\ y.news = <<>>)
                   /\ y.request.epoch <= y.epoch /\ y.gui.epoch <= y.epoch /\ y.cmd.epoch <= y.epoch
                   /\ Of(y, "track-ended") # {} => Active(y)
    BY <1>9, <1>11, <2>2 DEF Core, ClicksOK, AdmissionOK, GoneOK
  <2> QED
    BY <2>3, <2>4 DEF ClicksOK, AdmissionOK, GoneOK
<1>17. Good(x) => Core(y)
  BY <1>12, <1>13, <1>14, <1>15, <1>16 DEF Good, Core
<1>18. Sound(x, y)
  BY <1>8, <1>9, <1>17, GoodParts
<1> QED
  BY <1>18 DEF x, y

\* What the GUI makes of an event
LEMMA HeardSound ==
  ASSUME NEW x, Typed(x), NEW g \in GuiType, g.epoch \in {x.gui.epoch, x.epoch},
         g.terminal => x.gui.terminal \/ x.terminating \/ x.state = "stopped", NEW y, y = Heard(x, g)
  PROVE /\ Sound(x, y) /\ (Core(x) /\ Meant(x) => Core(y) /\ Meant(y))
        /\ Keeps(x, y, {"gui"}) /\ y.gui = g
<1>1. Keeps(x, y, {"gui"}) /\ y.gui = g
  BY FieldsAre DEF Heard, Keeps, Typed, TypedControl
<1>2. y.cmd = x.cmd /\ y.terminating = x.terminating /\ y.state = x.state
  BY <1>1, FieldsAre DEF Keeps
<1>3. GuiOK(x) => GuiOK(y)
  BY <1>1, <1>2 DEF GuiOK
<1>4. Keeps(x, y, {"cmd", "gui"}) /\ y.cmd \in CommandType
  BY <1>1, <1>2 DEF Keeps, Typed, TypedControl
<1> QED
  BY <1>1, <1>2, <1>3, <1>4, CommandSound

LEMMA InformedTyped == ASSUME NEW x, Typed(x)
  PROVE /\ Informed(x) \in GuiType /\ Informed(x).epoch = x.epoch /\ Informed(x).terminal = x.gui.terminal
<1>1. x.gui \in GuiType /\ x.epoch \in Nat
  BY DEF Typed, TypedControl, TypedRest
<1> QED
  BY <1>1 DEF Informed, GuiType

-----------------------------------------------------------------------------
\* The polls

LEMMA PollSessionSound == ASSUME Typed(c), PollSession PROVE Sound(c, c')
<1> DEFINE x == Drained(c)
           y == Expired(x)
<1>1. Typed(x) /\ Halting(c, x)
  BY DrainedHalting
<1>2. c' = y
  BY DEF PollSession
<1> HIDE DEF x
<1>3. Typed(y) /\ Halting(x, y)
  BY <1>1, ExpiredHalting
<1> QED
  BY <1>1, <1>2, <1>3, HaltingSound, SoundTrans

LEMMA PollLeaseSound == ASSUME Typed(c), PollLease PROVE Sound(c, c')
BY AutopauseHalting, HaltingSound DEF PollLease

LEMMA PollLimitSound == ASSUME Typed(c), PollLimit PROVE Sound(c, c')
<1>1. c.state = "recording" /\ c' = Close(c, "limit", None)
  BY DEF PollLimit
<1>2. LET y == Close(c, "limit", None) IN Typed(y) /\ Halting(c, y)
  BY <1>1, CloseHalting
<1> QED
  BY <1>1, <1>2, HaltingSound

LEMMA PollAliveSound == ASSUME Typed(c), PollAlive PROVE Sound(c, c')
<1> DEFINE g == [Informed(c) EXCEPT !.pend = c.gui.pend]
           h == CASE g.terminal -> g
                  [] ~g.terminal /\ c.state = "recording" /\ ~c.manual /\ ~g.wait ->
                       [g EXCEPT !.st = "recording", !.fin = FALSE, !.phys = FALSE]
                  [] ~g.terminal /\ c.state = "paused" -> [g EXCEPT !.st = "paused"]
                  [] ~g.terminal /\ c.state = "stopped" ->
                       [g EXCEPT !.terminal = TRUE, !.st = IF g.phys THEN "stopped" ELSE "stopping", !.wait = @ \/ ~g.phys]
                  [] OTHER -> g
           x == [c EXCEPT !.due = FALSE]
<1>1. c' = Heard(x, h)
  BY DEF PollAlive, TellAlive
<1>2. g \in GuiType /\ g.epoch = c.epoch /\ g.terminal = c.gui.terminal
  <2>1. c.gui \in GuiType
    BY DEF Typed, TypedControl
  <2> QED
    BY <2>1, InformedTyped DEF GuiType
<1>3. Keeps(c, x, {"due"}) /\ x.due = FALSE
  BY FieldsAre DEF Keeps, Typed, TypedControl
<1> HIDE DEF x, g
<1>4. Sound(c, x)
  <2>1. TypedIn(x, {"due"})
    BY <1>3 DEF TypedIn
  <2>2. x.terminating = c.terminating
    BY <1>3, FieldsAre DEF Keeps
  <2> QED
    BY <1>3, <2>1, <2>2, BookSound DEF Bookkeeping
<1>5. h \in GuiType /\ h.epoch = c.epoch /\ (h.terminal => g.terminal \/ c.state = "stopped")
  BY <1>2 DEF GuiType, Phases
<1> HIDE DEF h
<1>6. x.epoch = c.epoch /\ x.gui = c.gui /\ x.state = c.state /\ Typed(x)
  BY <1>3, <1>4, FieldsAre DEF Keeps, Sound
<1>7. Sound(x, c')
  BY <1>1, <1>2, <1>5, <1>6, HeardSound
<1> QED
  BY <1>4, <1>7, SoundTrans

-----------------------------------------------------------------------------
\* The end

LEMMA FlagsSound ==
  ASSUME NEW x, NEW y, NEW S, Typed(x), S \subseteq Bookkeeping \cup {"terminating", "quiet", "shutdown"},
         Keeps(x, y, S), TypedIn(y, S), x.terminating => y.terminating,
         y.quiet /\ Core(x) /\ Meant(x) => x.made = {} /\ ~x.opening,
         y.shutdown => x.shutdown \/ x.state = "stopped"
  PROVE Sound(x, y) /\ (Core(x) /\ Meant(x) => Core(y) /\ Meant(y))
<1>1. Typed(y)
  BY KeepsTyped
<1>2. S \cap OpeningFields = {} /\ S \cap ClosingFields = {} /\ S \cap DiskFields = {} /\ S \cap ClicksFields = {}
  BY DEF Bookkeeping, OpeningFields, ClosingFields, DiskFields, ClicksFields
<1>3. Core(x) => OpeningOK(y) /\ ClosingOK(y) /\ DiskOK(y) /\ ClicksOK(y)
  BY <1>2, OpeningFrame, ClosingFrame, DiskFrame, ClicksFrame DEF Core
<1>4. /\ y.crossed = x.crossed /\ y.made = x.made /\ y.state = x.state /\ y.close = x.close /\ y.opening = x.opening
      /\ y.gui = x.gui /\ y.cmd = x.cmd /\ y.live = x.live /\ y.reader = x.reader /\ y.track = x.track /\ y.finalizing = x.finalizing
  BY FieldsAre DEF Keeps, Bookkeeping
<1>5. Core(x) /\ Meant(x) => SourcesOK(y)
  BY <1>4 DEF Core, SourcesOK, Running
<1>6. Meant(x) => Meant(y)
  BY <1>4 DEF Meant, Active
<1>7. GuiOK(x) => GuiOK(y)
  BY <1>4 DEF GuiOK
<1> QED
  BY <1>1, <1>3, <1>4, <1>5, <1>6, <1>7 DEF Sound, Good, Core

LEMMA ByeSound ==
  ASSUME NEW x, NEW y, Typed(x), y = Bye(x), x.shutdown /\ Core(x) /\ Meant(x) => x.made = {} /\ ~x.opening
  PROVE Sound(x, y) /\ (Core(x) /\ Meant(x) => Core(y) /\ Meant(y))
<1> DEFINE S == {"shutdown", "stopped", "quiet"}
<1>1. Keeps(x, y, S) /\ y.shutdown = FALSE /\ y.stopped = TRUE /\ y.quiet = (x.quiet \/ x.shutdown)
  BY FieldsAre DEF Bye, Keeps, Typed, TypedControl
<1>2. TypedIn(y, S)
  BY <1>1 DEF TypedIn
<1>3. y.terminating = x.terminating
  BY <1>1, FieldsAre DEF Keeps
<1>4. y.quiet /\ Core(x) /\ Meant(x) => x.made = {} /\ ~x.opening
  BY <1>1 DEF Core, SourcesOK
<1>5. S \subseteq Bookkeeping \cup {"terminating", "quiet", "shutdown"}
  BY DEF Bookkeeping
<1> QED
  BY <1>1, <1>2, <1>3, <1>4, <1>5, FlagsSound

LEMMA PollByeSound == ASSUME Typed(c), PollBye PROVE Sound(c, c')
<1>1. ~c.close.on /\ c' = Bye(c)
  BY DEF PollBye
<1>2. c.shutdown /\ Core(c) /\ Meant(c) => c.made = {} /\ ~c.opening
  BY <1>1 DEF Core, SourcesOK, Meant, Active
<1> QED
  BY <1>1, <1>2, ByeSound

LEMMA TerminateSound ==
  ASSUME NEW x, Typed(x)
  PROVE LET y == Terminate(x) IN Sound(x, y) /\ y.terminating
<1> DEFINE y == [x EXCEPT !.terminating = TRUE]
           z == [y EXCEPT !.stopped = @ \/ ~x.finalizing]
           w == Terminate(x)
<1> SUFFICES Sound(x, w) /\ w.terminating
  OBVIOUS
<1>1. CASE x.terminating
  <2>1. w = x
    BY <1>1 DEF Terminate
  <2> HIDE DEF w
  <2> QED
    BY <1>1, <2>1 DEF Sound
<1>2. CASE ~x.terminating /\ Recording(x)
  <2>1. w = Close(y, "stop", None)
    BY <1>2 DEF Terminate
  <2>2. Keeps(x, y, {"terminating"}) /\ y.terminating = TRUE
    BY FieldsAre DEF Keeps, Typed, TypedControl
  <2> HIDE DEF y, w
  <2>3. TypedIn(y, {"terminating"})
    BY <2>2 DEF TypedIn
  <2>4. Sound(x, y)
    BY <2>2, <2>3, BookSound
  <2>5. Recording(y)
    BY <1>2, <2>2, FieldsAre DEF Keeps, Recording
  <2>6. LET u == Close(y, "stop", None) IN Typed(u) /\ Halting(y, u)
    BY <2>4, <2>5, CloseHalting DEF Sound, Final
  <2>7. Sound(y, w) /\ w.terminating
    BY <2>1, <2>2, <2>4, <2>6, HaltingSound DEF Sound, Halting, Slower, SameRest
  <2> QED
    BY <2>4, <2>7, SoundTrans
<1>3. CASE ~x.terminating /\ ~Recording(x)
  <2>1. w = z
    BY <1>3 DEF Terminate
  <2>2. Keeps(x, z, {"terminating", "stopped"}) /\ z.terminating = TRUE /\ z.stopped = (x.stopped \/ ~x.finalizing)
    BY FieldsAre DEF Keeps, Typed, TypedControl
  <2> HIDE DEF z, w
  <2>3. TypedIn(z, {"terminating", "stopped"})
    BY <2>2 DEF TypedIn
  <2>4. Sound(x, z)
    BY <2>2, <2>3, BookSound DEF Bookkeeping
  <2> QED
    BY <2>1, <2>2, <2>4
<1> QED
  BY <1>1, <1>2, <1>3

LEMMA CutSound == ASSUME Typed(c), Cut PROVE Sound(c, c')
<1> DEFINE x == Terminate(c)
<1>1. c' = [x EXCEPT !.cmd = NoCommand, !.gui.terminal = TRUE, !.gui.st = "stopped"]
  BY DEF Cut
<1>2. Sound(c, x) /\ x.terminating
  BY TerminateSound
<1> HIDE DEF x
<1>3. Keeps(x, c', {"cmd", "gui"}) /\ c'.cmd = NoCommand /\ c'.gui = [x.gui EXCEPT !.terminal = TRUE, !.st = "stopped"]
  BY <1>1, <1>2, FieldsAre DEF Keeps, Sound, Typed, TypedControl, GuiType
<1>4. x.gui \in GuiType
  BY <1>2 DEF Sound, Typed, TypedControl
<1>5. c'.gui \in GuiType /\ c'.gui.epoch = x.gui.epoch
  BY <1>3, <1>4 DEF GuiType, Phases
<1>6. NoCommand \in CommandType /\ NoCommand.epoch = 0 /\ NoCommand.k = None /\ None # "shutdown"
  BY NoneAssumption DEF NoCommand, CommandType, Commands
<1>7. c'.terminating
  BY <1>2, <1>3, FieldsAre DEF Keeps
<1>8. GuiOK(c')
  BY <1>3, <1>6, <1>7 DEF GuiOK
<1>9. Sound(x, c')
  BY <1>2, <1>3, <1>5, <1>6, <1>8, CommandSound DEF Sound
<1> QED
  BY <1>2, <1>9, SoundTrans

OpenedFields == {"opening", "reasons", "manual", "request", "turn", "quiet", "opener", "needs", "gone", "crossed", "auto"}
\* What an opening needs of the state it begins in, when no close is pending
Openable(x, y, q) ==
  /\ ~x.close.on /\ ~x.opening /\ ~x.finalizing /\ x.state \in {"paused", "prepared"}
  /\ ~y.needs /\ q.epoch <= x.epoch /\ q.tracks \cap y.gone = {}
  /\ GoneOK(y)

LEMMA OpenSound ==
  ASSUME NEW x, NEW y, NEW q \in RequestType, Typed(x), Keeps(x, y, OpenedFields), TypedIn(y, OpenedFields),
         y.opening, y.request = q, ~y.quiet, y.opener = [pc |-> "open", todo |-> q.tracks, stop |-> FALSE],
         q.tracks # {}, x.crossed => y.crossed, Good(x) /\ ~y.crossed => Openable(x, y, q)
  PROVE Sound(x, y)
<1>1. Typed(y)
  BY KeepsTyped
<1> SUFFICES ASSUME Good(x), ~y.crossed PROVE Good(y)
  BY <1>1 DEF Sound
<1>2. Openable(x, y, q) /\ Core(x) /\ Meant(x) /\ GuiOK(x)
  BY DEF Good
<1>3. /\ y.state = x.state /\ y.close = x.close /\ y.closer = x.closer /\ y.reader = x.reader /\ y.made = x.made
      /\ y.live = x.live /\ y.msgs = x.msgs /\ y.finalizing = x.finalizing /\ y.track = x.track /\ y.shutdown = x.shutdown
      /\ y.terminal = x.terminal /\ y.news = x.news /\ y.epoch = x.epoch /\ y.recovery = x.recovery /\ y.gui = x.gui
      /\ y.cmd = x.cmd /\ y.terminating = x.terminating /\ y.failed = x.failed
  BY FieldsAre DEF Keeps, OpenedFields
<1>4. ~Active(x) /\ x.made = {} /\ x.live = {}
  BY <1>2 DEF Openable, Active, Meant, Core, SourcesOK
<1>5. Still(x) /\ Ends(x) = {} /\ Of(x, "closed") = {} /\ Of(x, "track-ended") = {} /\ x.closer.pc = "idle"
  BY <1>2, <1>4 DEF Openable, Core, SourcesOK, TracksOf, Still, OpeningOK, ClosingOK, ClicksOK, AdmissionOK
<1>6. \A k : Of(y, k) = Of(x, k)
  BY <1>3 DEF Of
<1>7. Ends(y) = Ends(x) /\ Still(y) /\ ~Idle(y) /\ TracksOf(y.made) = {}
  BY <1>3, <1>4, <1>5, <1>6 DEF Ends, Still, Running, Idle, TracksOf
<1>8. OpeningOK(y)
  <2>1. y.opener.pc = "open" /\ y.opener.todo = q.tracks /\ ~y.opener.stop /\ y.opening /\ y.made = {} /\ ~y.close.on
    BY <1>2, <1>3, <1>4 DEF Openable
  <2>2. Ends(y) = {} /\ Of(y, "opened") = {}
    BY <1>5, <1>6, <1>7 DEF Ends
  <2>3. y.state # "recording" /\ ~y.finalizing /\ Still(y) /\ TracksOf(y.made) = {} /\ y.request.tracks \cap y.gone = {}
    BY <1>2, <1>3, <1>7 DEF Openable
  <2>4. ~Idle(y) /\ y.opener.todo # {} /\ y.request.tracks = q.tracks
    BY <2>1 DEF Idle
  <2> QED
    BY <2>1, <2>2, <2>3, <2>4 DEF OpeningOK
<1>9. ClosingOK(y)
  BY <1>3, <1>5, <1>6 DEF ClosingOK
<1>10. SourcesOK(y)
  BY <1>2, <1>3, <1>4 DEF SourcesOK, Openable, Core, Running
<1>11. DiskOK(y)
  <2>1. OpenedFields \cap DiskFields = {}
    BY DEF OpenedFields, DiskFields
  <2> QED
    BY <1>2, <2>1, DiskFrame DEF Core
<1>12. AdmissionOK(y)
  BY <1>2, <1>3, <1>5, <1>6 DEF Core, ClicksOK, AdmissionOK, Openable
<1>13. Meant(y) /\ GuiOK(y)
  BY <1>2, <1>3, <1>4 DEF Meant, GuiOK
<1> QED
  BY <1>2, <1>8, <1>9, <1>10, <1>11, <1>12, <1>13 DEF Good, Core, ClicksOK, Openable

LEMMA OpenFacts ==
  ASSUME NEW x, NEW q, DOMAIN x = Fields, NEW y, y = Open(x, q)
  PROVE /\ Keeps(x, y, OpenedFields)
        /\ y.opening = TRUE /\ y.reasons = {} /\ y.manual = FALSE /\ y.request = q /\ y.turn = ~x.turn /\ y.quiet = FALSE
        /\ y.opener = [pc |-> "open", todo |-> q.tracks, stop |-> FALSE]
        /\ y.needs = x.needs /\ y.gone = x.gone /\ y.crossed = x.crossed /\ y.auto = x.auto
BY FieldsAre DEF Open, Keeps, OpenedFields

LEMMA AutoResumeSound ==
  ASSUME NEW x, Typed(x), NEW z, z = AutoResume(x)
  PROVE Sound(x, z)
<1> DEFINE q == AutoRequest(x)
           y == [x EXCEPT !.auto = FALSE]
<1>0. Sound(x, x)
  BY DEF Sound
<1>1. CASE ~MayResume(x) \/ ~Admitted(x, q)
  BY <1>0, <1>1 DEF AutoResume
<1>2. Keeps(x, y, {"auto"}) /\ y.auto = FALSE
  BY FieldsAre DEF Keeps, Typed, TypedControl
<1>3. CASE MayResume(x) /\ Admitted(x, q) /\ q.tracks = {}
  <2>1. z = y
    BY <1>3 DEF AutoResume
  <2> HIDE DEF y
  <2>2. TypedIn(y, {"auto"}) /\ y.terminating = x.terminating
    BY <1>2, FieldsAre DEF TypedIn, Keeps
  <2> QED
    BY <1>2, <2>1, <2>2, BookSound DEF Bookkeeping
<1>4. CASE MayResume(x) /\ Admitted(x, q) /\ q.tracks # {}
  <2>1. z = Open(y, q)
    BY <1>4 DEF AutoResume
  <2>2. x.recovery \in Nat /\ q.epoch = x.recovery /\ q.tracks = {t \in x.leaseTracks : x.track[t] = "paused"} /\ q.auto = TRUE
    BY <1>4 DEF AutoRequest, MayResume, Typed, TypedRest
  <2>3. q \in RequestType
    <3>1. {t \in x.leaseTracks : x.track[t] = "paused"} \subseteq Tracks
      BY DEF Typed, TypedControl
    <3> QED
      BY <2>2, <3>1 DEF AutoRequest, RequestType, Soft
  <2> HIDE DEF y, q
  <2>4. /\ Keeps(y, z, OpenedFields)
        /\ z.opening = TRUE /\ z.reasons = {} /\ z.manual = FALSE /\ z.request = q /\ z.turn = ~y.turn /\ z.quiet = FALSE
        /\ z.opener = [pc |-> "open", todo |-> q.tracks, stop |-> FALSE]
        /\ z.needs = y.needs /\ z.gone = y.gone /\ z.crossed = y.crossed /\ z.auto = y.auto
    BY <1>2, <2>1, OpenFacts DEF Keeps
  <2>5. Keeps(x, z, OpenedFields)
    BY <1>2, <2>4, FieldsAre DEF Keeps, OpenedFields
  <2>6. y.turn = x.turn /\ y.needs = x.needs /\ y.gone = x.gone /\ y.crossed = x.crossed
    BY <1>2, FieldsAre DEF Keeps
  <2>7. q.tracks \in SUBSET Tracks
    BY <2>3 DEF RequestType
  <2>8. TypedIn(z, OpenedFields)
    <3>1. x.turn \in BOOLEAN /\ x.needs \in BOOLEAN /\ x.gone \in SUBSET Tracks /\ x.crossed \in BOOLEAN
      BY DEF Typed, TypedControl, TypedRest
    <3>2. z.opener \in OpenerType
      BY <1>4, <2>4, <2>7 DEF OpenerType
    <3> QED
      BY <1>2, <2>3, <2>4, <2>6, <3>1, <3>2 DEF TypedIn, OpenedFields
  <2>9. ASSUME Good(x) PROVE Openable(x, z, q)
    <3>1. /\ ~x.close.on /\ ~x.opening /\ ~x.finalizing /\ x.state = "paused" /\ ~x.manual /\ ~x.terminal
          /\ x.epoch = q.epoch
      BY <1>4 DEF MayResume, Admitted, Allowed
    <3>2. ~Barred(x) /\ x.news = <<>> /\ x.epoch \in Nat
      <4>1. x.epoch \in Nat
        BY DEF Typed, TypedRest
      <4>2. x.recovery # None
        BY <1>4 DEF MayResume
      <4>3. x.recovery < x.epoch \/ (x.recovery = x.epoch /\ x.news = <<>>)
        BY <2>9, <4>2 DEF Good, Core, ClicksOK, AdmissionOK
      <4>4. x.news = <<>>
        BY <2>2, <3>1, <4>1, <4>3
      <4> QED
        BY <3>1, <4>1, <4>4 DEF Barred
    <3>3. ~x.needs
      BY <2>9, <3>2 DEF Good, Core, ClicksOK, AdmissionOK
    <3>4. Of(x, "track-ended") = {}
      BY <2>9, <3>1 DEF Good, Core, ClicksOK, AdmissionOK, Active
    <3>5. \A t \in x.gone : t \notin x.leaseTracks /\ (x.since = "none" => x.track[t] # "live")
      BY <2>9, <3>2, <3>4 DEF Good, Core, ClicksOK, GoneOK
    <3>6. z.leaseTracks = x.leaseTracks /\ z.since = x.since /\ z.track = x.track /\ z.gone = x.gone
      BY <2>4, <2>5, <2>6, FieldsAre DEF Keeps, OpenedFields
    <3>7. GoneOK(z)
      BY <3>5, <3>6 DEF GoneOK
    <3>8. q.tracks \cap z.gone = {}
      BY <2>2, <3>5, <3>6
    <3> QED
      BY <2>4, <2>6, <3>1, <3>2, <3>3, <3>7, <3>8 DEF Openable
  <2> QED
    BY <1>4, <2>3, <2>4, <2>5, <2>6, <2>8, <2>9, OpenSound
<1> QED
  BY <1>1, <1>3, <1>4

LEMMA PollResumeSound == ASSUME Typed(c), PollResume PROVE Sound(c, c')
BY AutoResumeSound DEF PollResume

\* What is told to the GUI

LEMMA AnsweredSound ==
  ASSUME NEW x, NEW y, Typed(x), y = [x EXCEPT !.gui.cur = TRUE]
  PROVE Sound(x, y) /\ (Core(x) /\ Meant(x) => Core(y) /\ Meant(y))
<1>0. x.gui \in GuiType /\ x.cmd \in CommandType
  BY DEF Typed, TypedControl
<1>1. Keeps(x, y, {"cmd", "gui"}) /\ y.gui = [x.gui EXCEPT !.cur = TRUE] /\ y.cmd = x.cmd /\ y.state = x.state /\ y.terminating = x.terminating
  BY <1>0, FieldsAre DEF Keeps, Typed, TypedControl, GuiType
<1>2. y.gui \in GuiType /\ y.gui.epoch = x.gui.epoch /\ y.gui.terminal = x.gui.terminal
  <2> DEFINE g == x.gui
             h == y.gui
  <2>1. g \in GuiType /\ h = [g EXCEPT !.cur = TRUE]
    BY <1>0, <1>1
  <2> HIDE DEF g, h
  <2>2. h \in GuiType /\ h.epoch = g.epoch /\ h.terminal = g.terminal
    BY ONLY <2>1 DEF GuiType
  <2> QED
    BY <2>2 DEF g, h
<1>3. GuiOK(x) => GuiOK(y)
  BY <1>1, <1>2 DEF GuiOK
<1> QED
  BY <1>0, <1>1, <1>2, <1>3, CommandSound

LEMMA TellPausedSound ==
  ASSUME NEW x, Typed(x), NEW self \in BOOLEAN, NEW y, y = TellPaused(x, self)
  PROVE Sound(x, y) /\ (Core(x) /\ Meant(x) => Core(y) /\ Meant(y))
<1> DEFINE g == [Informed(x) EXCEPT !.fin = @ \/ (self /\ ~x.gui.phys), !.st = IF x.gui.terminal THEN @ ELSE "paused"]
<1>1. y = Heard(x, g)
  BY DEF TellPaused
<1>2. g \in GuiType /\ g.epoch = x.epoch /\ g.terminal = x.gui.terminal
  <2> DEFINE i == Informed(x)
  <2>1. i \in GuiType /\ i.epoch = x.epoch /\ i.terminal = x.gui.terminal
    BY InformedTyped
  <2>2. x.gui \in GuiType
    BY DEF Typed, TypedControl
  <2> HIDE DEF i
  <2> QED
    BY <2>1, <2>2 DEF GuiType, Phases, i
<1> HIDE DEF g
<1> QED
  BY <1>1, <1>2, HeardSound

LEMMA TellStartedSound ==
  ASSUME NEW x, Typed(x), NEW y, y = TellStarted(x)
  PROVE Sound(x, y)
<1> DEFINE g == IF x.gui.st # "opening" THEN Informed(x) ELSE [Informed(x) EXCEPT !.st = "recording"]
<1>1. y = Heard(x, g)
  BY DEF TellStarted
<1>2. g \in GuiType /\ g.epoch = x.epoch /\ g.terminal = x.gui.terminal
  <2> DEFINE i == Informed(x)
  <2>1. i \in GuiType /\ i.epoch = x.epoch /\ i.terminal = x.gui.terminal
    BY InformedTyped
  <2>2. x.gui \in GuiType
    BY DEF Typed, TypedControl
  <2> HIDE DEF i
  <2> QED
    BY <2>1, <2>2 DEF GuiType, Phases, i
<1> HIDE DEF g
<1> QED
  BY <1>1, <1>2, HeardSound

LEMMA TellClosedSound ==
  ASSUME NEW x, Typed(x), NEW y, y = TellClosed(x), Core(x) /\ Meant(x) => x.made = {} /\ ~x.opening
  PROVE /\ Sound(x, y) /\ (Core(x) /\ Meant(x) => Core(y) /\ Meant(y))
        /\ y.failed = x.failed /\ y.final = x.final /\ y.lost = x.lost /\ y.state = x.state /\ y.cmd = x.cmd /\ y.crossed = x.crossed
        /\ y.close = x.close /\ y.msgs = x.msgs /\ y.lied = x.lied /\ y.terminating = x.terminating
<1> DEFINE g == [x.gui EXCEPT !.cur = TRUE, !.phys = TRUE, !.wait = FALSE, !.st = IF x.gui.terminal THEN "stopped" ELSE @]
           w == Heard(x, g)
<1>1. y = [w EXCEPT !.quiet = TRUE]
  BY DEF TellClosed
<1>2. g \in GuiType /\ g.epoch = x.gui.epoch /\ g.terminal = x.gui.terminal
  <2>1. x.gui \in GuiType
    BY DEF Typed, TypedControl
  <2> QED
    BY <2>1 DEF GuiType, Phases
<1> HIDE DEF g
<1>3. Sound(x, w) /\ (Core(x) /\ Meant(x) => Core(w) /\ Meant(w)) /\ Keeps(x, w, {"gui"})
  BY <1>2, HeardSound
<1> HIDE DEF w
<1>4. Keeps(w, y, {"quiet"}) /\ y.quiet = TRUE
  BY <1>1, <1>3, FieldsAre DEF Keeps
<1>5. w.made = x.made /\ w.opening = x.opening /\ y.terminating = w.terminating /\ y.shutdown = w.shutdown
  BY <1>3, <1>4, FieldsAre DEF Keeps
<1>6. TypedIn(y, {"quiet"})
  BY <1>4 DEF TypedIn
<1>8. /\ y.failed = x.failed /\ y.final = x.final /\ y.lost = x.lost /\ y.state = x.state /\ y.cmd = x.cmd /\ y.crossed = x.crossed
      /\ y.close = x.close /\ y.msgs = x.msgs /\ y.lied = x.lied /\ y.terminating = x.terminating
  BY <1>3, <1>4, FieldsAre DEF Keeps
<1>7. CASE Core(x) /\ Meant(x)
  <2>1. {"quiet"} \subseteq Bookkeeping \cup {"terminating", "quiet", "shutdown"}
    OBVIOUS
  <2>2. w.made = {} /\ ~w.opening
    BY <1>5, <1>7
  <2>3. Sound(w, y) /\ (Core(w) /\ Meant(w) => Core(y) /\ Meant(y))
    BY <1>3, <1>4, <1>5, <1>6, <2>1, <2>2, FlagsSound DEF Sound
  <2> QED
    BY <1>3, <1>7, <1>8, <2>3, SoundTrans
<1>9. CASE ~(Core(x) /\ Meant(x))
  <2>1. Typed(y)
    BY <1>3, <1>4, <1>6, KeepsTyped DEF Sound
  <2>2. y.crossed = x.crossed
    BY <1>3, <1>4, FieldsAre DEF Keeps
  <2> QED
    BY <1>8, <1>9, <2>1, <2>2 DEF Sound, Good
<1> QED
  BY <1>7, <1>9

LEMMA TellFinalizedSound ==
  ASSUME NEW x, Typed(x), NEW kinds, NEW status, NEW y, y = TellFinalized(x, kinds, status),
         Core(x) /\ Meant(x) /\ status = "succeeded" => ~x.lost
  PROVE Sound(x, y) /\ (Core(x) /\ Meant(x) => Core(y) /\ Meant(y))
<1> DEFINE g == [x.gui EXCEPT !.cur = TRUE, !.fin = FALSE]
           w == Heard(x, g)
<1>1. y = [w EXCEPT !.owed = @ \ kinds, !.lied = @ \/ (status = "succeeded" /\ x.lost)]
  BY DEF TellFinalized
<1>2. g \in GuiType /\ g.epoch = x.gui.epoch /\ g.terminal = x.gui.terminal
  <2>1. x.gui \in GuiType
    BY DEF Typed, TypedControl
  <2> QED
    BY <2>1 DEF GuiType
<1> HIDE DEF g
<1>3. Sound(x, w) /\ (Core(x) /\ Meant(x) => Core(w) /\ Meant(w)) /\ Keeps(x, w, {"gui"})
  BY <1>2, HeardSound
<1> HIDE DEF w
<1>4. Keeps(w, y, {"owed", "lied"}) /\ y.owed = w.owed \ kinds /\ y.lied = (w.lied \/ (status = "succeeded" /\ x.lost))
  BY <1>1, <1>3, FieldsAre DEF Keeps
<1>5. TypedIn(y, {"owed", "lied"})
  <2>1. w.owed \in SUBSET Kinds /\ w.lied \in BOOLEAN
    BY <1>3 DEF Sound, Typed, TypedRest
  <2> QED
    BY <1>4, <2>1 DEF TypedIn
<1>6. Typed(y)
  BY <1>3, <1>4, <1>5, KeepsTyped DEF Sound
<1>7. y.crossed = x.crossed
  BY <1>3, <1>4, FieldsAre DEF Keeps
<1>8. CASE Core(x) /\ Meant(x)
  <2>1. ~w.lied /\ y.lied = w.lied
    <3>1. Core(w)
      BY <1>3, <1>8
    <3>2. ~w.lied
      BY <3>1 DEF Core, DiskOK
    <3>3. w.lied \in BOOLEAN
      BY <1>3 DEF Sound, Typed, TypedRest
    <3>4. ~(status = "succeeded" /\ x.lost)
      BY <1>8
    <3>5. y.lied = FALSE
      BY <1>4, <3>2, <3>4
    <3> QED
      BY <3>2, <3>3, <3>5
  <2>2. Keeps(w, y, {"owed"})
    BY <1>4, <2>1 DEF Keeps
  <2>3. TypedIn(y, {"owed"})
    BY <1>5 DEF TypedIn
  <2>4. /\ y.terminating = w.terminating /\ y.shutdown = w.shutdown /\ y.quiet = w.quiet
    BY <2>2, FieldsAre DEF Keeps
  <2>5. Sound(w, y) /\ (Core(w) /\ Meant(w) => Core(y) /\ Meant(y))
    <3>1. Typed(w) /\ {"owed"} \subseteq Bookkeeping \cup {"terminating", "quiet", "shutdown"}
      BY <1>3 DEF Sound, Bookkeeping
    <3>2. y.quiet /\ Core(w) /\ Meant(w) => w.made = {} /\ ~w.opening
      BY <2>4 DEF Core, SourcesOK
    <3> QED
      BY <2>2, <2>3, <2>4, <3>1, <3>2, FlagsSound
  <2> QED
    BY <1>3, <1>8, <2>5, SoundTrans
<1>9. CASE ~(Core(x) /\ Meant(x))
  BY <1>6, <1>7, <1>9 DEF Sound, Good
<1> QED
  BY <1>8, <1>9

LEMMA RefusedSound ==
  ASSUME NEW x, Typed(x), NEW cmd, NEW code, NEW y, y = TellRefused(x, cmd, code)
  PROVE Sound(x, y)
<1> DEFINE g == [x.gui EXCEPT !.st = "paused", !.pend = TRUE]
<1>1. y = x \/ y = Heard(x, g) \/ y = Exited(x)
  BY DEF TellRefused
<1>2. g \in GuiType /\ g.epoch = x.gui.epoch /\ g.terminal = x.gui.terminal
  <2>1. x.gui \in GuiType
    BY DEF Typed, TypedControl
  <2> QED
    BY <2>1 DEF GuiType, Phases
<1> HIDE DEF g
<1>3. Sound(x, x)
  BY DEF Sound
<1>4. y = Heard(x, g) => Sound(x, y)
  BY <1>2, HeardSound
<1>5. y = Exited(x) => Sound(x, y)
  BY ExitSound
<1> QED
  BY <1>1, <1>3, <1>4, <1>5

\* Whatever is told, and when
LEMMA ToldTyped == ASSUME NEW x, Typed(x), NEW y, y = TellClosed(x) PROVE Typed(y) /\ y.crossed = x.crossed
<1> DEFINE g == [x.gui EXCEPT !.cur = TRUE, !.phys = TRUE, !.wait = FALSE, !.st = IF x.gui.terminal THEN "stopped" ELSE @]
           w == Heard(x, g)
<1>1. y = [w EXCEPT !.quiet = TRUE]
  BY DEF TellClosed
<1>2. g \in GuiType /\ g.epoch = x.gui.epoch /\ g.terminal = x.gui.terminal
  <2>1. x.gui \in GuiType
    BY DEF Typed, TypedControl
  <2> QED
    BY <2>1 DEF GuiType, Phases
<1> HIDE DEF g
<1>3. Sound(x, w) /\ Keeps(x, w, {"gui"})
  BY <1>2, HeardSound
<1> HIDE DEF w
<1>4. Keeps(w, y, {"quiet"}) /\ y.quiet = TRUE
  BY <1>1, <1>3, FieldsAre DEF Keeps
<1>5. TypedIn(y, {"quiet"})
  BY <1>4 DEF TypedIn
<1> QED
  BY <1>3, <1>4, <1>5, FieldsAre, KeepsTyped DEF Sound, Keeps

LEMMA FinalTyped ==
  ASSUME NEW x, Typed(x), NEW kinds, NEW status, NEW y, y = TellFinalized(x, kinds, status)
  PROVE Typed(y) /\ y.crossed = x.crossed
<1> DEFINE g == [x.gui EXCEPT !.cur = TRUE, !.fin = FALSE]
           w == Heard(x, g)
<1>1. y = [w EXCEPT !.owed = @ \ kinds, !.lied = @ \/ (status = "succeeded" /\ x.lost)]
  BY DEF TellFinalized
<1>2. g \in GuiType /\ g.epoch = x.gui.epoch /\ g.terminal = x.gui.terminal
  <2>1. x.gui \in GuiType
    BY DEF Typed, TypedControl
  <2> QED
    BY <2>1 DEF GuiType
<1> HIDE DEF g
<1>3. Sound(x, w) /\ Keeps(x, w, {"gui"})
  BY <1>2, HeardSound
<1> HIDE DEF w
<1>4. Keeps(w, y, {"owed", "lied"}) /\ y.owed = w.owed \ kinds /\ y.lied = (w.lied \/ (status = "succeeded" /\ x.lost))
  BY <1>1, <1>3, FieldsAre DEF Keeps
<1>5. TypedIn(y, {"owed", "lied"})
  <2>1. w.owed \in SUBSET Kinds /\ w.lied \in BOOLEAN
    BY <1>3 DEF Sound, Typed, TypedRest
  <2> QED
    BY <1>4, <2>1 DEF TypedIn
<1> QED
  BY <1>3, <1>4, <1>5, FieldsAre, KeepsTyped DEF Sound, Keeps

LEMMA TellPausedTyped ==
  ASSUME NEW x, Typed(x), NEW self \in BOOLEAN, NEW y, y = TellPaused(x, self)
  PROVE Typed(y) /\ y.crossed = x.crossed
<1>1. Sound(x, y)
  BY TellPausedSound
<1>2. y.crossed = x.crossed
  BY FieldsAre DEF TellPaused, Heard, Typed, TypedControl
<1> QED
  BY <1>1, <1>2 DEF Sound

\* A command is taken

TakenFrom(x) ==
  /\ Typed(x) /\ x.cmd = NoCommand /\ x.news = <<>>
  /\ x.crossed = c.crossed /\ x.terminating = c.terminating /\ x.shutdown = c.shutdown
  /\ x.stopped = c.stopped /\ x.epoch = c.epoch /\ x.lied = c.lied
  /\ c.state = "stopped" => x.state = "stopped"
  /\ Core(c) /\ Meant(c) => Core(x) /\ Meant(x)
  /\ Good(c) /\ c.cmd.k # "stop" => Good(x)

LEMMA NoCommandTyped ==
  /\ NoCommand \in CommandType /\ NoCommand.epoch = 0 /\ NoCommand.k = None
  /\ None \notin {"shutdown", "stop", "not-prepared", "io", "admission-stale"}
BY NoneAssumption DEF NoCommand, CommandType, Commands

LEMMA TakenFacts == ASSUME Typed(c), NEW x, x = Taken PROVE TakenFrom(x)
<1> DEFINE d == Drained(c)
           t == Expired(d)
<1>1. Typed(d) /\ Halting(c, d) /\ d.news = <<>>
  BY DrainedHalting
<1>2. x = [t EXCEPT !.cmd = NoCommand]
  BY DEF Taken
<1> HIDE DEF d
<1>3. Typed(t) /\ Halting(d, t)
  BY <1>1, ExpiredHalting
<1> HIDE DEF t
<1>4. Halting(c, t)
  BY <1>1, <1>3, HaltingTrans
<1>5. t.news = <<>>
  BY <1>1, <1>3 DEF Halting, Slower
<1>6. Sound(c, t) /\ (Core(c) /\ Meant(c) => Core(t) /\ Meant(t))
  BY <1>3, <1>4, HaltingSound, HaltingCore, HaltingMeant
<1>7. Keeps(t, x, {"cmd"}) /\ x.cmd = NoCommand
  BY <1>2, <1>3, FieldsAre DEF Keeps, Typed, TypedControl
<1>8. /\ x.gui = t.gui /\ x.news = t.news /\ x.crossed = t.crossed /\ x.terminating = t.terminating /\ x.shutdown = t.shutdown
      /\ x.stopped = t.stopped /\ x.epoch = t.epoch /\ x.lied = t.lied /\ x.state = t.state
  BY <1>7, FieldsAre DEF Keeps
<1>9. /\ t.crossed = c.crossed /\ t.terminating = c.terminating /\ t.shutdown = c.shutdown
      /\ t.stopped = c.stopped /\ t.epoch = c.epoch /\ t.lied = c.lied
      /\ (c.state = "stopped" => t.state = "stopped")
      /\ t.gui.terminal = c.gui.terminal
  BY <1>4 DEF Halting, Slower, SameRest, GuiKept
<1>10. Keeps(t, x, {"cmd", "gui"}) /\ x.gui \in GuiType
  BY <1>3, <1>7, <1>8 DEF Keeps, Typed, TypedControl
<1>11. Typed(x) /\ x.crossed = t.crossed /\ (Core(t) /\ Meant(t) => Core(x) /\ Meant(x))
  BY <1>3, <1>7, <1>8, <1>10, NoCommandTyped, CommandCore
<1>12. ASSUME Good(c), c.cmd.k # "stop" PROVE GuiOK(x)
  <2>1. x.gui.terminal => x.terminating \/ x.state = "stopped"
    BY <1>8, <1>9, <1>12 DEF Good, GuiOK
  <2> QED
    BY <1>7, <2>1, NoCommandTyped DEF GuiOK
<1>13. Good(c) /\ c.cmd.k # "stop" => Good(x)
  BY <1>6, <1>11, <1>12 DEF Good
<1> QED
  BY <1>5, <1>6, <1>7, <1>8, <1>9, <1>11, <1>13 DEF TakenFrom

LEMMA TakenSound == ASSUME NEW x, TakenFrom(x), c.cmd.k # "stop" PROVE Sound(c, x)
BY DEF TakenFrom, Sound

LEMMA HandleOpenSound == ASSUME Typed(c), HandleOpen PROVE Sound(c, c')
<1> DEFINE x == Taken
           m == c.cmd
           resume == m.k = "resume"
           q == [k |-> m.k, auto |-> FALSE, epoch |-> m.epoch, reason |-> None,
                 tracks |-> {t \in Tracks : t = "mic" \/ (left.far /\ (~resume \/ x.track[t] # "ended"))}]
           Code(fresh) ==
             IF \/ x.stopped \/ x.terminating \/ ~Current \/ x.opening \/ x.finalizing
                \/ x.state # IF resume THEN "paused" ELSE "prepared" THEN "not-prepared"
             ELSE IF fresh /\ x.final = "failed" THEN "io"
             ELSE IF ~fresh \/ ~Admitted(x, q) THEN "admission-stale" ELSE None
           w == Open(x, q)
           y == [w EXCEPT !.needs = FALSE, !.gone = {}, !.crossed = @ \/ x.close.on]
<1>1. PICK fresh \in BOOLEAN : c' = IF Code(fresh) # None THEN TellRefused(x, m, Code(fresh)) ELSE y
  BY DEF HandleOpen
<1>2. m.k \in {"open", "resume"} /\ m \in CommandType
  BY DEF HandleOpen, Arrived, Typed, TypedControl
<1>3. TakenFrom(x)
  BY TakenFacts
<1>4. Sound(c, x)
  BY <1>2, <1>3, TakenSound
<1>5. CASE Code(fresh) # None
  <2>1. c' = TellRefused(x, m, Code(fresh))
    BY <1>1, <1>5
  <2> HIDE DEF Code, x
  <2> QED
    BY <1>3, <1>4, <2>1, RefusedSound, SoundTrans DEF TakenFrom
<1>6. CASE Code(fresh) = None
  <2>1. c' = y
    BY <1>1, <1>6
  <2>2. ~x.opening /\ ~x.finalizing /\ x.state \in {"paused", "prepared"}
    BY <1>6, NoCommandTyped
  <2>3. q \in RequestType /\ q.epoch = m.epoch /\ "mic" \in q.tracks /\ q.tracks \in SUBSET Tracks
    <3>1. {t \in Tracks : t = "mic" \/ (left.far /\ (~resume \/ x.track[t] # "ended"))} \in SUBSET Tracks /\ "mic" \in Tracks
      BY DEF Tracks
    <3>2. m.epoch \in Nat
      BY <1>2 DEF CommandType
    <3> HIDE DEF x, m, resume
    <3> QED
      BY <1>2, <3>1, <3>2 DEF RequestType
  <2> HIDE DEF x, q, m
  <2>4. DOMAIN x = Fields
    BY <1>3 DEF TakenFrom, Typed, TypedControl
  <2>5. /\ Keeps(x, w, OpenedFields)
        /\ w.opening = TRUE /\ w.reasons = {} /\ w.manual = FALSE /\ w.request = q /\ w.turn = ~x.turn /\ w.quiet = FALSE
        /\ w.opener = [pc |-> "open", todo |-> q.tracks, stop |-> FALSE]
        /\ w.needs = x.needs /\ w.gone = x.gone /\ w.crossed = x.crossed /\ w.auto = x.auto
    BY <2>4, OpenFacts
  <2> HIDE DEF w
  <2>6. Keeps(w, y, {"needs", "gone", "crossed"}) /\ y.needs = FALSE /\ y.gone = {} /\ y.crossed = (w.crossed \/ x.close.on)
    BY <2>5, FieldsAre DEF Keeps
  <2> HIDE DEF y
  <2>7. /\ y.opening = TRUE /\ y.reasons = {} /\ y.manual = FALSE /\ y.request = q /\ y.turn = ~x.turn /\ y.quiet = FALSE
        /\ y.opener = [pc |-> "open", todo |-> q.tracks, stop |-> FALSE] /\ y.auto = x.auto
    BY <2>5, <2>6, FieldsAre DEF Keeps
  <2>8. Keeps(x, y, OpenedFields)
    BY <2>5, <2>6 DEF Keeps, OpenedFields
  <2>9. TypedIn(y, OpenedFields)
    <3>1. x.turn \in BOOLEAN /\ x.auto \in BOOLEAN /\ x.crossed \in BOOLEAN
      BY <1>3 DEF TakenFrom, Typed, TypedControl, TypedRest
    <3>2. y.opener \in OpenerType
      BY <2>3, <2>7 DEF OpenerType
    <3>3. y.crossed \in BOOLEAN
      BY <2>5, <2>6, <3>1
    <3> QED
      BY <2>3, <2>6, <2>7, <3>1, <3>2, <3>3 DEF TypedIn, OpenedFields
  <2>10. x.crossed => y.crossed
    BY <2>5, <2>6
  <2>11. ASSUME Good(c), ~y.crossed PROVE Openable(x, y, q)
    <3>1. ~x.close.on
      BY <2>6, <2>11
    <3>2. q.epoch <= x.epoch
      BY <1>3, <2>3, <2>11 DEF TakenFrom, Good, Core, ClicksOK, AdmissionOK, m
    <3>3. GoneOK(y)
      BY <2>6 DEF GoneOK
    <3> QED
      BY <2>2, <2>6, <3>1, <3>2, <3>3 DEF Openable
  <2>12. CASE Good(c)
    <3>1. Sound(x, y)
      BY <1>3, <2>3, <2>7, <2>8, <2>9, <2>10, <2>11, <2>12, OpenSound DEF TakenFrom
    <3> QED
      BY <1>4, <2>1, <3>1, SoundTrans
  <2>13. CASE ~Good(c)
    <3>1. Typed(y)
      BY <1>3, <2>8, <2>9, KeepsTyped DEF TakenFrom
    <3> QED
      BY <1>3, <2>1, <2>10, <2>13, <3>1 DEF Sound, TakenFrom
  <2> QED
    BY <2>12, <2>13
<1> QED
  BY <1>5, <1>6

\* A close, where the state is good
LEMMA CloseSound ==
  ASSUME NEW x, Typed(x), NEW r, NEW req \in Kinds \cup {None}, NEW y, y = Close(x, r, req),
         Good(x) /\ ~x.crossed => /\ r \in Final \/ x.state # "stopped" \/ x.close.on
                                  /\ x.finalizing => x.close.on \/ Recording(x) \/ x.state = "recording"
  PROVE Sound(x, y) /\ y.close.on
<1>1. Typed(y) /\ SameRest(x, y) /\ y.close.on
  BY CloseTyped
<1>2. y.crossed = x.crossed
  BY <1>1 DEF SameRest
<1>3. CASE Good(x) /\ ~x.crossed
  <2>1. LET z == Close(x, r, req) IN Typed(z) /\ Halting(x, z)
    BY <1>3, CloseHalting
  <2> QED
    BY <1>1, <2>1, HaltingSound
<1> QED
  BY <1>1, <1>2, <1>3 DEF Sound

LeaseFields == {"leased", "visible", "recovery", "auto"}
LEMMA LeaseSound ==
  ASSUME NEW x, NEW y, Typed(x), Keeps(x, y, LeaseFields), TypedIn(y, LeaseFields),
         Good(x) /\ y.recovery # None => y.recovery < x.epoch \/ (y.recovery = x.epoch /\ x.news = <<>>)
  PROVE Sound(x, y)
<1>1. Typed(y)
  BY KeepsTyped
<1>2. LeaseFields \cap OpeningFields = {} /\ LeaseFields \cap ClosingFields = {} /\ LeaseFields \cap SourcesFields = {}
      /\ LeaseFields \cap DiskFields = {}
  BY DEF LeaseFields, OpeningFields, ClosingFields, SourcesFields, DiskFields
<1>3. Core(x) => OpeningOK(y) /\ ClosingOK(y) /\ SourcesOK(y) /\ DiskOK(y)
  BY <1>2, OpeningFrame, ClosingFrame, SourcesFrame, DiskFrame DEF Core
<1>4. /\ y.crossed = x.crossed /\ y.made = x.made /\ y.state = x.state /\ y.close = x.close /\ y.opening = x.opening
      /\ y.epoch = x.epoch /\ y.request = x.request /\ y.needs = x.needs /\ y.manual = x.manual /\ y.terminal = x.terminal
      /\ y.news = x.news /\ y.opener = x.opener /\ y.msgs = x.msgs /\ y.gone = x.gone
      /\ y.leaseTracks = x.leaseTracks /\ y.since = x.since /\ y.track = x.track /\ y.gui = x.gui /\ y.cmd = x.cmd
      /\ y.terminating = x.terminating
  BY FieldsAre DEF Keeps, LeaseFields
<1>5. Good(x) => ClicksOK(y)
  BY <1>4 DEF Good, Core, ClicksOK, AdmissionOK, GoneOK, Barred, Idle, Of, Active
<1> QED
  BY <1>1, <1>3, <1>4, <1>5, GoodParts DEF Good, Core

LEMMA HandleKeepaliveSound == ASSUME Typed(c), HandleKeepalive PROVE Sound(c, c')
<1> DEFINE x == Taken
           m == c.cmd
           y == [x EXCEPT !.leased = TRUE, !.visible = m.visible, !.recovery = m.epoch,
                          !.auto = x.state = "paused" /\ m.visible]
           z == IF y.opening /\ y.request.auto /\ ~m.visible THEN Close(y, "indicators", None) ELSE y
           w == AutoResume(z)
           u == [w EXCEPT !.gui.cur = TRUE]
<1>1. \/ c' = TellRefused(x, m, "not-prepared")
      \/ c' = TellRefused(x, m, "admission-stale")
      \/ c' = u
  BY DEF HandleKeepalive
<1>2. m.k = "keepalive" /\ m \in CommandType
  BY DEF HandleKeepalive, Arrived, Typed, TypedControl
<1>3. TakenFrom(x)
  BY TakenFacts
<1>4. Sound(c, x) /\ Typed(x)
  BY <1>2, <1>3, TakenSound DEF TakenFrom
<1> HIDE DEF x
<1>5. CASE c' = TellRefused(x, m, "not-prepared") \/ c' = TellRefused(x, m, "admission-stale")
  BY <1>4, <1>5, RefusedSound, SoundTrans
<1>6. CASE c' = u
  <2>1. /\ Keeps(x, y, LeaseFields) /\ y.leased = TRUE /\ y.visible = m.visible /\ y.recovery = m.epoch
        /\ y.auto = (x.state = "paused" /\ m.visible)
    BY <1>4, FieldsAre DEF Keeps, LeaseFields, Typed, TypedControl
  <2>2. TypedIn(y, LeaseFields)
    <3>1. m.visible \in BOOLEAN /\ m.epoch \in Nat
      BY <1>2 DEF CommandType
    <3> QED
      BY <2>1, <3>1 DEF TypedIn, LeaseFields
  <2> HIDE DEF y
  <2>3. Good(c) => m.epoch <= x.epoch /\ x.news = <<>>
    BY <1>3 DEF TakenFrom, Good, Core, ClicksOK, AdmissionOK
  <2> HIDE DEF m
  <2>4. m.epoch \in Nat /\ x.epoch \in Nat
    BY <1>2, <1>4 DEF CommandType, Typed, TypedRest
  <2>5. Sound(c, y)
    <3>1. CASE Good(c)
      <4>1. y.recovery < x.epoch \/ (y.recovery = x.epoch /\ x.news = <<>>)
        BY <2>1, <2>3, <2>4, <3>1
      <4> QED
        BY <1>4, <2>1, <2>2, <4>1, LeaseSound, SoundTrans
    <3>2. CASE ~Good(c)
      <4>1. Typed(y)
        BY <1>4, <2>1, <2>2, KeepsTyped
      <4>2. y.crossed = x.crossed
        BY <2>1, FieldsAre DEF Keeps, LeaseFields
      <4> QED
        BY <1>4, <3>2, <4>1, <4>2 DEF Sound
    <3> QED
      BY <3>1, <3>2
  <2>6. Sound(y, z)
    <3>1. CASE z = y
      BY <2>5, <3>1 DEF Sound
    <3>2. CASE z = Close(y, "indicators", None) /\ y.opening
      <4>1. Good(y) => "indicators" \in Final \/ y.state # "stopped" \/ y.close.on
        BY <3>2 DEF Good, Core, SourcesOK
      <4>2. Recording(y)
        BY <3>2 DEF Recording
      <4>3. Typed(y)
        BY <2>5 DEF Sound
      <4> HIDE DEF z
      <4> QED
        BY <3>2, <4>1, <4>2, <4>3, CloseSound
    <3> QED
      BY <3>1, <3>2
  <2> HIDE DEF z
  <2>7. Sound(z, w)
    BY <2>6, AutoResumeSound DEF Sound
  <2> HIDE DEF w
  <2>8. Sound(w, u)
    BY <2>7, AnsweredSound DEF Sound
  <2> HIDE DEF u
  <2> QED
    BY <1>6, <2>5, <2>6, <2>7, <2>8, SoundTrans
<1> QED
  BY <1>1, <1>5, <1>6

-----------------------------------------------------------------------------
\* Answers to a pause and to a stop

LEMMA WaitsSound ==
  ASSUME NEW x, Typed(x), NEW kind \in Kinds, NEW y, y = Waits(x, kind), Good(x) => Closing(x)
  PROVE Sound(x, y)
<1> DEFINE w == [x EXCEPT !.waiters = @ \cup {kind}, !.owed = @ \cup {kind}]
           S == {"waiters", "owed"}
<1>1. y = IF x.close.on THEN w ELSE TellClosed(w)
  BY DEF Waits
<1>2. Keeps(x, w, S) /\ w.waiters = x.waiters \cup {kind} /\ w.owed = x.owed \cup {kind}
  BY FieldsAre DEF Keeps, Typed, TypedControl
<1> HIDE DEF w
<1>3. TypedIn(w, S)
  <2>1. x.waiters \in SUBSET Kinds /\ x.owed \in SUBSET Kinds
    BY DEF Typed, TypedRest
  <2> QED
    BY <1>2, <2>1 DEF TypedIn
<1>4. w.terminating = x.terminating /\ w.finalizing = x.finalizing /\ w.made = x.made /\ w.opening = x.opening /\ w.crossed = x.crossed
  BY <1>2, FieldsAre DEF Keeps
<1>5. Sound(x, w)
  BY <1>2, <1>3, <1>4, BookSound DEF Bookkeeping
<1>6. CASE x.close.on
  BY <1>1, <1>5, <1>6
<1>7. CASE ~x.close.on
  <2>1. y = TellClosed(w)
    BY <1>1, <1>7
  <2>2. CASE Good(x)
    <3>1. x.finalizing
      BY <1>7, <2>2 DEF Closing
    <3>2. w.made = {} /\ ~w.opening
      BY <1>4, <2>2, <3>1 DEF Good, Core, SourcesOK, OpeningOK
    <3> QED
      BY <1>5, <2>1, <3>2, TellClosedSound, SoundTrans DEF Sound
  <2>3. CASE ~Good(x)
    <3>1. Typed(y) /\ y.crossed = w.crossed
      BY <1>5, <2>1, ToldTyped DEF Sound
    <3> QED
      BY <1>4, <2>3, <3>1 DEF Sound
  <2> QED
    BY <2>2, <2>3
<1> QED
  BY <1>6, <1>7

LEMMA WaitsCrossed == ASSUME NEW x, Typed(x), NEW kind \in Kinds, NEW y, y = Waits(x, kind) PROVE Typed(y) /\ y.crossed = x.crossed
<1> DEFINE w == [x EXCEPT !.waiters = @ \cup {kind}, !.owed = @ \cup {kind}]
           S == {"waiters", "owed"}
<1>1. y = IF x.close.on THEN w ELSE TellClosed(w)
  BY DEF Waits
<1>2. Keeps(x, w, S) /\ w.waiters = x.waiters \cup {kind} /\ w.owed = x.owed \cup {kind}
  BY FieldsAre DEF Keeps, Typed, TypedControl
<1> HIDE DEF w
<1>3. TypedIn(w, S)
  <2>1. x.waiters \in SUBSET Kinds /\ x.owed \in SUBSET Kinds
    BY DEF Typed, TypedRest
  <2> QED
    BY <1>2, <2>1 DEF TypedIn
<1>4. Typed(w) /\ w.crossed = x.crossed
  BY <1>2, <1>3, FieldsAre, KeepsTyped DEF Keeps
<1> QED
  BY <1>1, <1>4, ToldTyped

LEMMA PausedHalting ==
  ASSUME NEW x, Typed(x), x.state \notin {"stopped", "recording"}, NEW y, y = BeginPause([x EXCEPT !.state = "paused"])
  PROVE Typed(y) /\ Halting(x, y)
<1> DEFINE w == [x EXCEPT !.state = "paused"]
<1>0. TypedControl(x) /\ x.epoch \in Nat
  BY DEF Typed, TypedRest
<1>1. TypedControl(w) /\ Alike(x, w) /\ w.leaseTracks = x.leaseTracks /\ w.state = "paused" /\ w.terminal = x.terminal
  <2> HIDE DEF w
  <2> QED
    BY <1>0, PausedTyped DEF w
<1>2. y = BeginPause(w)
  OBVIOUS
<1> HIDE DEF w
<1>3. w.epoch \in Nat /\ w.close = x.close
  BY <1>0, <1>1 DEF Alike, SameRest, Threadless
<1>4. LET u == BeginPause(w) IN TypedControl(u) /\ Slower(w, u) /\ u.since # "none" /\ u.close = w.close /\ u.state = w.state
  BY <1>1, <1>3, BeginPauseSlower
<1>5. TypedControl(y) /\ Slower(w, y) /\ y.close = w.close /\ y.state = "paused"
  BY <1>1, <1>2, <1>4
<1>6. Slower(x, w)
  BY <1>1 DEF Slower, Alike
<1>7. Slower(x, y)
  BY <1>0, <1>1, <1>5, <1>6, SlowerTrans
<1>8. y.needs = x.needs
  BY <1>1, <1>2, FieldsAre DEF BeginPause, Alike, TypedControl
<1>9. Typed(y)
  BY <1>5, <1>7, SlowerTyped
<1> QED
  BY <1>3, <1>5, <1>7, <1>8, <1>9 DEF Halting, Stops

LEMMA StoppedHalting ==
  ASSUME NEW x, Typed(x), NEW y, y \in {[x EXCEPT !.state = "stopped"], [x EXCEPT !.state = "stopped", !.auto = FALSE]},
         x.close.on \/ ~Recording(x)
  PROVE Typed(y) /\ Halting(x, y) /\ y.state = "stopped"
<1>0. TypedControl(x)
  BY DEF Typed
<1>1. TypedControl(y) /\ Alike(x, y) /\ y.leaseTracks = x.leaseTracks /\ y.state = "stopped" /\ (x.terminal => y.terminal)
  BY <1>0, StateTyped, StoppedTyped
<1>2. x.close.on \/ ~(x.opening \/ x.made # {})
  BY DEF Recording
<1>3. Slower(x, y) /\ y.close = x.close
  <2> HIDE DEF Alike
  <2> QED
    BY <1>1, <1>2, StoppedSlower
<1>4. Stops(x, y)
  BY <1>1, <1>3 DEF Stops, Alike
<1> QED
  BY <1>0, <1>1, <1>3, <1>4, SlowerTyped DEF Halting

\* What halts what is good but for the GUI's command, which has been taken
LEMMA HaltingGood ==
  ASSUME NEW x, NEW y, Typed(x), Typed(y), Halting(x, y), Core(x), Meant(x), GuiOK(x) \/ (y.state = "stopped" /\ x.cmd.k = None)
  PROVE Good(y)
<1>1. Core(y) /\ Meant(y)
  BY HaltingCore, HaltingMeant
<1>2. CASE GuiOK(x)
  BY <1>1, <1>2 DEF GuiOK, Halting, Slower, GuiKept, SameRest, Good
<1>3. CASE y.state = "stopped" /\ x.cmd.k = None
  <2>1. y.cmd.k = None
    BY <1>3 DEF Halting, Slower, GuiKept
  <2> QED
    BY <1>1, <1>3, <2>1, NoCommandTyped DEF Good, GuiOK
<1> QED
  BY <1>1, <1>2, <1>3

-----------------------------------------------------------------------------
LEMMA AlreadyClosedSound ==
  ASSUME NEW x, Typed(x), NEW kind \in Kinds, NEW w, w = AlreadyClosed(x, kind), ~Closing(x), x.state # "recording", ~x.opening
  PROVE /\ Typed(w) /\ w.crossed = x.crossed
        /\ Core(x) /\ Meant(x) /\ (GuiOK(x) \/ (kind = "stop" /\ x.cmd.k = None)) /\ ~x.crossed => Good(w)
<1> DEFINE stopped == [x EXCEPT !.state = "stopped"]
           paused == BeginPause([x EXCEPT !.state = "paused"])
           y == CASE kind = "stop" -> stopped
                  [] kind = "pause" /\ x.state # "stopped" -> paused
                  [] OTHER -> x
           u == TellClosed(y)
           status == IF x.failed THEN "failed" ELSE x.final
           z == TellFinalized(u, {}, status)
<1>1. w = IF kind = "pause" THEN TellPaused(z, FALSE) ELSE z
  BY DEF AlreadyClosed
<1>2. ~x.close.on /\ ~x.finalizing
  BY DEF Closing
<1>3. \/ y = stopped /\ kind = "stop"
      \/ x.state # "stopped" /\ y = paused /\ kind = "pause"
      \/ y = x /\ kind = "pause"
  <2> HIDE DEF stopped, paused
  <2> QED
    BY DEF Kinds
<1>4. DOMAIN x = Fields /\ x.epoch \in Nat
  BY DEF Typed, TypedControl, TypedRest
<1>5. Typed(y) /\ y.made = x.made /\ y.opening = x.opening /\ y.crossed = x.crossed /\ y.lost = x.lost
  <2>1. CASE y = stopped
    <3>1. TypedControl(y) /\ Alike(x, y)
      <4> HIDE DEF y
      <4> QED
        BY <2>1, StateTyped DEF Typed
    <3> HIDE DEF y
    <3> QED
      BY <3>1, RestTyped DEF Typed, Alike, SameRest
  <2>2. CASE x.state # "stopped" /\ y = paused
    <3> HIDE DEF y
    <3>1. Typed(y) /\ Halting(x, y)
      BY <2>2, PausedHalting
    <3> QED
      BY <3>1 DEF Halting, Slower, SameRest
  <2>3. CASE y = x
    BY <2>3
  <2> HIDE DEF y
  <2> QED
    BY <1>3, <2>1, <2>2, <2>3
<1>6. Meant(x) => x.made = {}
  BY <1>2 DEF Meant, Active
<1>7. ASSUME Core(x), Meant(x), GuiOK(x) \/ (kind = "stop" /\ x.cmd.k = None) PROVE Good(y)
  <2>1. ~Recording(x)
    BY <1>6, <1>7 DEF Recording
  <2>2. CASE y = stopped /\ kind = "stop"
    <3> HIDE DEF y
    <3> QED
      BY <1>7, <2>1, <2>2, StoppedHalting, HaltingGood
  <2>3. CASE x.state # "stopped" /\ y = paused /\ kind = "pause"
    <3> HIDE DEF y
    <3> QED
      BY <1>7, <2>3, PausedHalting, HaltingGood
  <2>4. CASE y = x /\ kind = "pause"
    BY <1>7, <2>4 DEF Good
  <2> HIDE DEF y
  <2> QED
    BY <1>3, <2>2, <2>3, <2>4
<1> HIDE DEF y, stopped, paused
<1>8. Typed(u) /\ u.crossed = x.crossed
  BY <1>5, ToldTyped
<1>9. Typed(z) /\ z.crossed = x.crossed
  <2> HIDE DEF u
  <2> QED
    BY <1>8, FinalTyped
<1>10. Typed(w) /\ w.crossed = x.crossed
  <2> HIDE DEF z
  <2>1. Typed(TellPaused(z, FALSE)) /\ TellPaused(z, FALSE).crossed = z.crossed
    BY <1>9, TellPausedTyped
  <2> QED
    BY <1>1, <1>9, <2>1
<1>11. ASSUME Core(x), Meant(x), GuiOK(x) \/ (kind = "stop" /\ x.cmd.k = None), ~x.crossed PROVE Good(w)
  <2>1. Good(y) /\ y.made = {} /\ ~y.opening
    BY <1>5, <1>6, <1>7, <1>11
  <2>2. Sound(y, u) /\ Core(u) /\ Meant(u) /\ u.lost = x.lost
    BY <1>5, <2>1, TellClosedSound DEF Good
  <2>3. status = "succeeded" => ~x.lost
    BY <1>2, <1>11 DEF Core, DiskOK, Active
  <2> HIDE DEF status, u
  <2>4. Sound(u, z)
    BY <1>8, <2>2, <2>3, TellFinalizedSound
  <2>5. Good(z)
    BY <1>5, <1>8, <1>9, <1>11, <2>1, <2>2, <2>4 DEF Sound
  <2> HIDE DEF z
  <2>6. Sound(z, TellPaused(z, FALSE))
    BY <1>9, TellPausedSound
  <2> QED
    BY <1>1, <1>9, <1>10, <1>11, <2>5, <2>6 DEF Sound
<1> QED
  BY <1>10, <1>11

\* The reason of a pause, where nothing is opening
LEMMA ReasonSound ==
  ASSUME NEW x, Typed(x), NEW r, NEW y, y = AddReason(x, r), Good(x) => ~x.opening \/ x.close.on
  PROVE Sound(x, y)
<1>1. TypedControl(y) /\ Slower(x, y) /\ y.state = x.state /\ y.close = x.close
  BY AddReasonSlower DEF Typed
<1>2. Typed(y)
  BY <1>1, SlowerTyped
<1>3. Good(x) => Halting(x, y)
  BY <1>1 DEF Halting, Stops
<1>4. y.crossed = x.crossed
  BY <1>1 DEF Slower, SameRest
<1> QED
  BY <1>2, <1>3, <1>4, HaltingSound DEF Sound

OwedTo(x, kind) == [x EXCEPT !.owed = @ \cup {kind}]
LEMMA OwedSound ==
  ASSUME NEW x, Typed(x), NEW kind \in Kinds, NEW y, y = OwedTo(x, kind)
  PROVE /\ Sound(x, y) /\ (Core(x) /\ Meant(x) => Core(y) /\ Meant(y))
        /\ Typed(y) /\ Keeps(x, y, {"owed"}) /\ y.owed = x.owed \cup {kind}
<1>1. Keeps(x, y, {"owed"}) /\ y.owed = x.owed \cup {kind}
  BY FieldsAre DEF OwedTo, Keeps, Typed, TypedControl
<1>2. TypedIn(y, {"owed"})
  <2>1. x.owed \in SUBSET Kinds
    BY DEF Typed, TypedRest
  <2> QED
    BY <1>1, <2>1 DEF TypedIn
<1>3. y.terminating = x.terminating /\ y.quiet = x.quiet /\ y.shutdown = x.shutdown
  BY <1>1, FieldsAre DEF Keeps
<1>4. {"owed"} \subseteq Bookkeeping \cup {"terminating", "quiet", "shutdown"}
  BY DEF Bookkeeping
<1>5. y.quiet /\ Core(x) /\ Meant(x) => x.made = {} /\ ~x.opening
  BY <1>3 DEF Core, SourcesOK
<1>6. Typed(y)
  BY <1>1, <1>2, KeepsTyped
<1> QED
  BY <1>1, <1>2, <1>3, <1>4, <1>5, <1>6, FlagsSound

LEMMA SlowerOwed ==
  ASSUME NEW x, NEW y, NEW v, NEW w, Slower(x, y), Keeps(x, v, {"owed"}), Keeps(y, w, {"owed"}), w.owed = v.owed
  PROVE Slower(v, w)
<1>1. \A f \in Fields \ {"owed"} : v[f] = x[f] /\ w[f] = y[f]
  BY DEF Keeps
<1>2. SameRest(v, w)
  BY <1>1, FieldsAre DEF Slower, SameRest
<1>3. Threadless(v, w) \/ Shutting(v, w)
  <2>1. /\ v.close = x.close /\ v.closer = x.closer /\ v.opener = x.opener /\ v.reader = x.reader
        /\ w.close = y.close /\ w.closer = y.closer /\ w.opener = y.opener /\ w.reader = y.reader
    BY <1>1, FieldsAre
  <2>2. CASE Threadless(x, y)
    BY <2>1, <2>2 DEF Threadless
  <2>3. CASE Shutting(x, y)
    BY <2>1, <2>3 DEF Shutting, Running, Idle
  <2> QED
    BY <2>2, <2>3 DEF Slower
<1>4. GuiKept(v, w)
  BY <1>1, FieldsAre DEF Slower, GuiKept
<1>5. /\ v.state = x.state /\ v.made = x.made /\ v.close = x.close /\ v.opening = x.opening /\ v.manual = x.manual
      /\ v.terminal = x.terminal /\ v.needs = x.needs /\ v.since = x.since /\ v.leaseTracks = x.leaseTracks
      /\ v.track = x.track /\ v.news = x.news
  BY <1>1, FieldsAre
<1>6. /\ w.state = y.state /\ w.close = y.close /\ w.manual = y.manual
      /\ w.terminal = y.terminal /\ w.needs = y.needs /\ w.since = y.since /\ w.leaseTracks = y.leaseTracks /\ w.news = y.news
  BY <1>1, FieldsAre
<1> QED
  BY <1>2, <1>3, <1>4, <1>5, <1>6 DEF Slower, Barred

LEMMA PauseCloseSound ==
  ASSUME NEW w, Typed(w), NEW r, NEW y, y = AddReason(w, r), NEW z, z = Close(OwedTo(y, "pause"), r, "pause"),
         ~Closing(y), y.state = "recording" \/ y.opening
  PROVE Sound(w, z)
<1> DEFINE v == OwedTo(w, "pause")
           u == OwedTo(y, "pause")
<1>1. TypedControl(y) /\ Slower(w, y) /\ y.state = w.state /\ y.close = w.close
  BY AddReasonSlower DEF Typed
<1>2. Typed(y)
  BY <1>1, SlowerTyped
<1>3. "pause" \in Kinds
  BY DEF Kinds
<1>4. Sound(w, v) /\ Typed(v) /\ Keeps(w, v, {"owed"}) /\ v.owed = w.owed \cup {"pause"}
  BY <1>3, OwedSound
<1>5. Typed(u) /\ Keeps(y, u, {"owed"}) /\ u.owed = y.owed \cup {"pause"}
  BY <1>2, <1>3, OwedSound
<1> HIDE DEF v, u
<1>6. Typed(z) /\ SameRest(u, z) /\ z.close.on
  BY <1>3, <1>5, CloseTyped DEF u
<1>7. u.owed = v.owed
  BY <1>1, <1>4, <1>5 DEF Slower, SameRest
<1>8. Slower(v, u)
  BY <1>1, <1>4, <1>5, <1>7, SlowerOwed
<1>9. z.crossed = v.crossed
  BY <1>6, <1>8 DEF Slower, SameRest
<1>10. u.state = y.state /\ u.close = y.close /\ u.finalizing = y.finalizing /\ u.opening = y.opening
  BY <1>5, FieldsAre DEF Keeps
<1>11. ASSUME Good(v) PROVE Good(z)
  <2>1. v.finalizing = y.finalizing /\ v.close = y.close /\ v.opening = y.opening /\ v.state = y.state
    BY <1>1, <1>4, FieldsAre DEF Keeps, Slower, SameRest
  <2>2. ~v.close.on /\ ~v.finalizing
    BY <2>1 DEF Closing
  <2>3. v.state # "stopped"
    BY <1>11, <2>1, <2>2 DEF Good, Core, SourcesOK
  <2>4. u.epoch \in Nat /\ u.track \in [Tracks -> {"live", "paused", "ended"}] /\ TypedControl(u) /\ TypedControl(v)
    BY <1>4, <1>5 DEF Typed, TypedRest
  <2>5. TypedControl(Close(u, r, "pause")) /\ Slower(u, Close(u, r, "pause")) /\ (~u.close.on => Close(u, r, "pause").state # "recording")
    BY <1>3, <1>10, <2>1, <2>3, <2>4, CloseSlower
  <2>6. z = Close(u, r, "pause")
    BY DEF u
  <2>7. TypedControl(z) /\ Slower(u, z) /\ z.state # "recording"
    BY <1>10, <2>1, <2>2, <2>5, <2>6
  <2>8. Slower(v, z)
    BY <1>8, <2>4, <2>7, SlowerTrans
  <2>9. Halting(v, z)
    BY <1>6, <2>2, <2>7, <2>8 DEF Halting, Stops
  <2> QED
    BY <1>4, <1>6, <1>11, <2>9, HaltingGood DEF Good
<1>12. Sound(v, z)
  BY <1>6, <1>9, <1>11 DEF Sound
<1> QED
  BY <1>4, <1>12, SoundTrans

LEMMA HandlePauseSound == ASSUME Typed(c), HandlePause PROVE Sound(c, c')
<1> DEFINE x == Taken
           r == c.cmd.reason
           w == IF r = "lock" /\ x.reason = None THEN Blocked(x, "lock") ELSE x
           y == AddReason(w, r)
           z == Close([y EXCEPT !.owed = @ \cup {"pause"}], r, "pause")
<1>1. c.cmd.k = "pause"
  BY DEF HandlePause, Arrived
<1>2. TakenFrom(x)
  BY TakenFacts
<1>3. Sound(c, x) /\ Typed(x)
  BY <1>1, <1>2, TakenSound DEF TakenFrom
<1>4. c' = IF x.stopped \/ x.terminating THEN TellRefused(x, c.cmd, "not-prepared")
           ELSE IF Closing(y) THEN Answered(Waits(y, "pause"))
           ELSE IF y.state # "recording" /\ ~y.opening THEN Answered(AlreadyClosed(y, "pause"))
           ELSE Answered(z)
  BY DEF HandlePause
<1> HIDE DEF x
<1>5. Sound(x, w) /\ Typed(w)
  <2>1. CASE w = Blocked(x, "lock")
    <3> HIDE DEF w
    <3> QED
      BY <1>3, <2>1, BlockedSound DEF Sound
  <2>2. CASE w = x
    BY <1>3, <2>2 DEF Sound
  <2> HIDE DEF w
  <2>3. w = Blocked(x, "lock") \/ w = x
    BY DEF w
  <2> QED
    BY <2>1, <2>2, <2>3
<1> HIDE DEF w
<1>6. TypedControl(y) /\ Slower(w, y) /\ y.state = w.state /\ y.close = w.close
  BY <1>5, AddReasonSlower DEF Typed
<1>7. y.finalizing = w.finalizing /\ y.opening = w.opening /\ Typed(y)
  BY <1>5, <1>6, SlowerTyped DEF Slower, SameRest
<1>8. "pause" \in Kinds
  BY DEF Kinds
<1>9. ASSUME NEW u, Sound(w, u), c' = Answered(u) PROVE Sound(c, c')
  <2>1. Sound(u, c')
    BY <1>9, AnsweredSound DEF Answered, Sound
  <2> QED
    BY <1>3, <1>5, <1>9, <2>1, SoundTrans
<1>10. CASE x.stopped \/ x.terminating
  BY <1>3, <1>4, <1>10, RefusedSound, SoundTrans
<1>11. CASE ~(x.stopped \/ x.terminating) /\ Closing(y)
  <2>1. Good(w) => ~w.opening \/ w.close.on
    BY <1>6, <1>7, <1>11 DEF Closing, Good, Core, OpeningOK
  <2>2. Sound(w, y)
    BY <1>5, <2>1, ReasonSound
  <2>3. Sound(y, Waits(y, "pause"))
    BY <1>7, <1>8, <1>11, WaitsSound
  <2> QED
    BY <1>4, <1>9, <1>11, <2>2, <2>3, SoundTrans
<1>12. CASE ~(x.stopped \/ x.terminating) /\ ~Closing(y) /\ y.state # "recording" /\ ~y.opening
  <2>1. Sound(w, y)
    BY <1>5, <1>7, <1>12, ReasonSound
  <2> DEFINE u == AlreadyClosed(y, "pause")
  <2>2. /\ Typed(u) /\ u.crossed = y.crossed
        /\ Core(y) /\ Meant(y) /\ GuiOK(y) /\ ~y.crossed => Good(u)
    BY <1>7, <1>8, <1>12, AlreadyClosedSound
  <2>3. c' = Answered(u)
    BY <1>4, <1>12
  <2> HIDE DEF u
  <2>4. Sound(y, u)
    BY <2>2 DEF Sound, Good
  <2> QED
    BY <1>9, <2>1, <2>3, <2>4, SoundTrans
<1>13. CASE ~(x.stopped \/ x.terminating) /\ ~Closing(y) /\ (y.state = "recording" \/ y.opening)
  <2>1. z = Close(OwedTo(y, "pause"), r, "pause")
    BY DEF OwedTo
  <2>2. c' = Answered(z)
    BY <1>4, <1>13
  <2> HIDE DEF z
  <2>3. Sound(w, z)
    BY <1>5, <1>13, <2>1, PauseCloseSound
  <2> QED
    BY <1>9, <2>2, <2>3
<1> QED
  BY <1>10, <1>11, <1>12, <1>13

LEMMA HandleStopSound == ASSUME Typed(c), HandleStop PROVE Sound(c, c')
<1> DEFINE x == Taken
           s == [x EXCEPT !.state = "stopped", !.auto = FALSE]
           v == OwedTo(x, "stop")
           z == Close(v, "stop", "stop")
<1>1. c.cmd.k = "stop"
  BY DEF HandleStop, Arrived
<1>2. TakenFrom(x)
  BY TakenFacts
<1>3. c' = IF x.stopped \/ x.terminating THEN TellRefused(x, c.cmd, "not-prepared")
           ELSE IF Closing(x) THEN Answered(Waits(s, "stop"))
           ELSE IF x.state # "recording" /\ ~x.opening THEN Answered(AlreadyClosed(x, "stop"))
           ELSE Answered(z)
  BY DEF HandleStop, OwedTo
<1> HIDE DEF x
<1>4. /\ Typed(x) /\ x.crossed = c.crossed /\ x.cmd.k = None /\ x.lied = c.lied
      /\ Good(c) => Core(x) /\ Meant(x)
  BY <1>2, NoCommandTyped DEF TakenFrom, Good
<1>5. "stop" \in Kinds /\ "stop" \in Final
  BY DEF Kinds, Final
<1>6. ASSUME NEW u, Typed(u), u.crossed = x.crossed, Good(c) /\ ~c.crossed => Good(u), c' = Answered(u) PROVE Sound(c, c')
  <2>1. Sound(u, c')
    BY <1>6, AnsweredSound DEF Answered
  <2> QED
    BY <1>4, <1>6, <2>1 DEF Sound
<1>7. CASE x.stopped \/ x.terminating
  <2>1. c' = TellRefused(x, c.cmd, "not-prepared")
    BY <1>3, <1>7
  <2>2. TellRefused(x, c.cmd, "not-prepared") = Exited(x)
    BY <1>1 DEF TellRefused
  <2>3. Sound(x, Exited(x)) /\ (~x.lied => Good(Exited(x)))
    BY <1>4, ExitSound
  <2>4. Good(c) => ~x.lied
    BY <1>4 DEF Good, Core, DiskOK
  <2> QED
    BY <1>4, <2>1, <2>2, <2>3, <2>4 DEF Sound
<1>8. CASE ~(x.stopped \/ x.terminating) /\ Closing(x)
  <2> DEFINE u == Waits(s, "stop")
  <2>1. c' = Answered(u)
    BY <1>3, <1>8
  <2> HIDE DEF u
  <2>2. Keeps(x, s, {"state", "auto"}) /\ s.state = "stopped" /\ s.auto = FALSE
    BY <1>4, FieldsAre DEF Keeps, Typed, TypedControl
  <2>3. Typed(s)
    <3>1. TypedIn(s, {"state", "auto"})
      BY <2>2 DEF TypedIn
    <3> HIDE DEF s
    <3> QED
      BY <1>4, <2>2, <3>1, KeepsTyped
  <2>4. Good(c) => Good(s)
    <3> SUFFICES ASSUME Good(c) PROVE Good(s)
      OBVIOUS
    <3>1. x.close.on \/ ~Recording(x)
      BY <1>4, <1>8 DEF Closing, Recording, Core, SourcesOK, OpeningOK
    <3>2. s \in {[x EXCEPT !.state = "stopped"], [x EXCEPT !.state = "stopped", !.auto = FALSE]}
      OBVIOUS
    <3> HIDE DEF s
    <3>3. Typed(s) /\ Halting(x, s) /\ s.state = "stopped"
      BY <1>4, <3>1, <3>2, StoppedHalting
    <3> QED
      BY <1>4, <3>3, HaltingGood
  <2>5. Closing(s) /\ s.crossed = x.crossed
    BY <1>8, <2>2, FieldsAre DEF Keeps, Closing
  <2> HIDE DEF s
  <2>6. Sound(s, u)
    BY <1>5, <2>3, <2>5, WaitsSound DEF u
  <2>7. u.crossed = s.crossed
    BY <1>5, <2>3, WaitsCrossed DEF u
  <2> QED
    BY <1>4, <1>6, <2>1, <2>4, <2>5, <2>6, <2>7 DEF Sound
<1>9. CASE ~(x.stopped \/ x.terminating) /\ ~Closing(x) /\ x.state # "recording" /\ ~x.opening
  <2> DEFINE u == AlreadyClosed(x, "stop")
  <2>1. c' = Answered(u)
    BY <1>3, <1>9
  <2>2. /\ Typed(u) /\ u.crossed = x.crossed
        /\ Core(x) /\ Meant(x) /\ ~x.crossed => Good(u)
    BY <1>4, <1>5, <1>9, AlreadyClosedSound
  <2> HIDE DEF u
  <2> QED
    BY <1>4, <1>6, <2>1, <2>2
<1>10. CASE ~(x.stopped \/ x.terminating) /\ ~Closing(x) /\ (x.state = "recording" \/ x.opening)
  <2>1. c' = Answered(z)
    BY <1>3, <1>10
  <2>2. Typed(v) /\ Keeps(x, v, {"owed"}) /\ (Core(x) /\ Meant(x) => Core(v) /\ Meant(v))
    BY <1>4, <1>5, OwedSound
  <2> HIDE DEF v
  <2>3. v.finalizing = x.finalizing /\ v.cmd = x.cmd /\ v.crossed = x.crossed
    BY <2>2, FieldsAre DEF Keeps
  <2>4. LET y == Close(v, "stop", "stop")
        IN Typed(y) /\ Halting(v, y) /\ y.close.on /\ ("stop" \in Hard => y.manual) /\ ("stop" \in Final => y.state = "stopped")
    BY <1>5, <1>10, <2>2, <2>3, CloseHalting DEF Closing
  <2> HIDE DEF z
  <2>5. Typed(z) /\ Halting(v, z) /\ z.state = "stopped"
    BY <1>5, <2>4 DEF z
  <2>6. z.crossed = x.crossed
    BY <2>3, <2>5 DEF Halting, Slower, SameRest
  <2>7. Core(x) /\ Meant(x) => Good(z)
    BY <1>4, <2>2, <2>3, <2>5, HaltingGood
  <2> QED
    BY <1>4, <1>6, <2>1, <2>5, <2>6, <2>7
<1> QED
  BY <1>7, <1>8, <1>9, <1>10

LEMMA HandleShutdownSound == ASSUME Typed(c), HandleShutdown PROVE Sound(c, c')
<1> DEFINE t == Taken
           x == [t EXCEPT !.shutdown = TRUE]
           y == [x EXCEPT !.terminating = TRUE]
<1>1. c.cmd.k = "shutdown"
  BY DEF HandleShutdown, Arrived
<1>2. TakenFrom(t)
  BY TakenFacts
<1>3. c' = IF ~Recording(x) /\ ~x.finalizing THEN Bye(y) ELSE Terminate(x)
  BY DEF HandleShutdown
<1> HIDE DEF t
<1>4. Typed(t) /\ Sound(c, t) /\ t.crossed = c.crossed
  BY <1>1, <1>2, TakenSound DEF TakenFrom
<1>5. Keeps(t, x, {"shutdown"}) /\ x.shutdown = TRUE
  BY <1>4, FieldsAre DEF Keeps, Typed, TypedControl
<1> HIDE DEF x
<1>6. TypedIn(x, {"shutdown"})
  BY <1>5 DEF TypedIn
<1>7. Typed(x)
  BY <1>4, <1>5, <1>6, KeepsTyped
<1>8. x.crossed = t.crossed /\ x.terminating = t.terminating /\ x.quiet = t.quiet
  BY <1>5, FieldsAre DEF Keeps
<1>9. Sound(c, x)
  <2>1. ASSUME Good(c), ~c.crossed PROVE Good(x)
    <3>1. t.state = "stopped"
      BY <1>1, <1>2, <2>1 DEF TakenFrom, Good, GuiOK
    <3>2. Good(t)
      BY <1>4, <2>1 DEF Sound
    <3>3. Sound(t, x)
      <4>1. {"shutdown"} \subseteq Bookkeeping \cup {"terminating", "quiet", "shutdown"}
        OBVIOUS
      <4>2. x.quiet /\ Core(t) /\ Meant(t) => t.made = {} /\ ~t.opening
        BY <1>8 DEF Core, SourcesOK
      <4> QED
        BY <1>4, <1>5, <1>6, <1>8, <3>1, <4>1, <4>2, FlagsSound
    <3> QED
      BY <1>4, <1>8, <2>1, <3>2, <3>3 DEF Sound
  <2> QED
    BY <1>4, <1>7, <1>8, <2>1 DEF Sound
<1>10. CASE ~Recording(x) /\ ~x.finalizing
  <2>1. c' = Bye(y)
    BY <1>3, <1>10
  <2>2. Keeps(x, y, {"terminating"}) /\ y.terminating = TRUE
    BY <1>7, FieldsAre DEF Keeps, Typed, TypedControl
  <2> HIDE DEF y
  <2>3. TypedIn(y, {"terminating"})
    BY <2>2 DEF TypedIn
  <2>4. Sound(x, y)
    BY <1>7, <2>2, <2>3, BookSound
  <2>5. y.made = {} /\ ~y.opening
    BY <1>10, <2>2, FieldsAre DEF Keeps, Recording
  <2>6. Sound(y, c')
    BY <2>1, <2>4, <2>5, ByeSound DEF Sound
  <2> QED
    BY <1>9, <2>4, <2>6, SoundTrans
<1>11. CASE ~(~Recording(x) /\ ~x.finalizing)
  <2>1. c' = Terminate(x)
    BY <1>3, <1>11
  <2>2. Sound(x, c')
    BY <1>7, <2>1, TerminateSound
  <2> QED
    BY <1>9, <2>2, SoundTrans
<1> QED
  BY <1>10, <1>11

PopFields == {"msgs", "opening", "final"}
Ending == {"opened", "open-failed"}

\* The head of the queue is taken
PoppedFrom(x, y) ==
  /\ x.msgs # <<>> /\ y.msgs = Tail(x.msgs) /\ Keeps(x, y, PopFields)
  /\ \/ Head(x.msgs).k \in Ending /\ y.opening = FALSE
     \/ Head(x.msgs).k \notin Ending /\ y.opening = x.opening
  /\ \/ y.final = "failed"
     \/ Head(x.msgs).k # "disk-failed" /\ y.final = x.final
Shifted(x, y) ==
  /\ y.msgs \in Seq(MessageType) /\ Head(x.msgs) = x.msgs[1] /\ x.msgs[1] \in MessageType
  /\ Len(x.msgs) = Len(y.msgs) + 1 /\ Len(y.msgs) \in Nat
  /\ \A i \in 1..Len(y.msgs) : y.msgs[i] = x.msgs[i + 1]
  /\ \A k : \A i : i \in Of(y, k) <=> i \in Nat /\ i # 0 /\ i + 1 \in Of(x, k)
  /\ 1 \in Of(x, Head(x.msgs).k)
  /\ \A k : Of(y, k) # {} => Of(x, k) # {}
  /\ \A k : k # Head(x.msgs).k /\ Of(x, k) # {} => Of(y, k) # {}

LEMMA ShiftFacts == ASSUME NEW x, NEW y, Typed(x), x.msgs # <<>>, y.msgs = Tail(x.msgs) PROVE Shifted(x, y)
<1>1. x.msgs \in Seq(MessageType)
  BY DEF Typed, TypedRest
<1>2. /\ y.msgs \in Seq(MessageType) /\ Head(x.msgs) = x.msgs[1] /\ x.msgs[1] \in MessageType
      /\ Len(x.msgs) = Len(y.msgs) + 1 /\ Len(y.msgs) \in Nat
      /\ \A i \in 1..Len(y.msgs) : y.msgs[i] = x.msgs[i + 1]
      /\ \A k : \A i : i \in Of(y, k) <=> i \in Nat /\ i # 0 /\ i + 1 \in Of(x, k)
  BY <1>1, TailFacts
<1>3. 1 \in Of(x, Head(x.msgs).k)
  BY <1>2 DEF Of
<1>4. ASSUME NEW k, Of(y, k) # {} PROVE Of(x, k) # {}
  BY <1>2, <1>4
<1>5. ASSUME NEW k, k # Head(x.msgs).k, Of(x, k) # {} PROVE Of(y, k) # {}
  <2>1. PICK i \in Of(x, k) : TRUE
    BY <1>5
  <2>2. i \in Nat /\ i # 0 /\ i # 1
    BY <1>2, <1>5, <2>1 DEF Of
  <2>3. i - 1 \in Nat /\ i - 1 # 0 /\ (i - 1) + 1 = i
    BY <2>2
  <2> QED
    BY <1>2, <2>1, <2>3
<1> QED
  BY <1>2, <1>3, <1>4, <1>5 DEF Shifted

LEMMA PopTyped == ASSUME NEW x, NEW y, Typed(x), PoppedFrom(x, y) PROVE Typed(y)
<1>1. y.msgs \in Seq(MessageType)
  BY ShiftFacts DEF PoppedFrom, Shifted
<1>2. x.opening \in BOOLEAN /\ x.final \in {"succeeded", "failed"}
  BY DEF Typed, TypedRest
<1>3. TypedIn(y, PopFields)
  BY <1>1, <1>2 DEF TypedIn, PopFields, PoppedFrom
<1> QED
  BY <1>3, KeepsTyped DEF PoppedFrom

LEMMA PopKept == ASSUME NEW x, NEW y, PoppedFrom(x, y)
  PROVE /\ y.opener = x.opener /\ y.close = x.close /\ y.request = x.request /\ y.made = x.made /\ y.state = x.state
        /\ y.finalizing = x.finalizing /\ y.reader = x.reader /\ y.gone = x.gone /\ y.closer = x.closer /\ y.live = x.live
        /\ y.failed = x.failed /\ y.track = x.track /\ y.quiet = x.quiet /\ y.shutdown = x.shutdown /\ y.lost = x.lost
        /\ y.jobs = x.jobs /\ y.interval = x.interval /\ y.lied = x.lied /\ y.needs = x.needs /\ y.manual = x.manual
        /\ y.terminal = x.terminal /\ y.news = x.news /\ y.epoch = x.epoch /\ y.recovery = x.recovery /\ y.gui = x.gui
        /\ y.cmd = x.cmd /\ y.leaseTracks = x.leaseTracks /\ y.since = x.since /\ y.crossed = x.crossed
        /\ y.terminating = x.terminating
BY FieldsAre DEF PoppedFrom, Keeps, PopFields

LEMMA PopOpening == ASSUME NEW x, NEW y, Typed(x), PoppedFrom(x, y), OpeningOK(x) PROVE OpeningOK(y)
<1>1. Shifted(x, y)
  BY ShiftFacts DEF PoppedFrom
<1>2. /\ y.opener = x.opener /\ y.close = x.close /\ y.request = x.request /\ y.made = x.made /\ y.state = x.state
      /\ y.finalizing = x.finalizing /\ y.reader = x.reader /\ y.gone = x.gone
  BY PopKept
<1>3. \A i : i \in Ends(y) => i \in Nat /\ i + 1 \in Ends(x)
  BY <1>1 DEF Shifted, Ends
<1>4. \A i, j \in Ends(y) : i = j
  <2> SUFFICES ASSUME NEW i \in Ends(y), NEW j \in Ends(y) PROVE i = j
    OBVIOUS
  <2>1. i \in Nat /\ j \in Nat /\ i + 1 = j + 1
    BY <1>3 DEF OpeningOK
  <2> QED
    BY <2>1
<1>5. (Idle(y) <=> Idle(x)) /\ (Still(y) <=> Still(x))
  BY <1>2 DEF Idle, Still, Running
<1>6. CASE Head(x.msgs).k \in Ending
  <2>1. 1 \in Ends(x)
    BY <1>1, <1>6 DEF Shifted, Ends, Ending
  <2>2. Ends(y) = {}
    <3> SUFFICES ASSUME NEW i \in Ends(y) PROVE FALSE
      OBVIOUS
    <3>1. i \in Nat /\ i + 1 \in Ends(x) /\ i # 0
      BY <1>1, <1>3 DEF Shifted, Ends
    <3>2. i + 1 = 1
      BY <2>1, <3>1 DEF OpeningOK
    <3> QED
      BY <3>1, <3>2
  <2>3. ~y.opening /\ Idle(y)
    BY <1>5, <1>6, <2>1 DEF PoppedFrom, OpeningOK
  <2>4. Of(y, "opened") = {}
    BY <2>2 DEF Ends
  <2>5. y.opener.pc = "idle"
    BY <2>3 DEF Idle
  <2> QED
    BY <2>2, <2>3, <2>4, <2>5 DEF OpeningOK
<1>7. CASE Head(x.msgs).k \notin Ending
  <2>1. y.opening = x.opening
    BY <1>7 DEF PoppedFrom
  <2>2. (Ends(y) # {} <=> Ends(x) # {}) /\ (Of(y, "opened") # {} <=> Of(x, "opened") # {})
    BY <1>1, <1>7 DEF Shifted, Ends, Ending
  <2>3. /\ ~Idle(y) => y.opening
        /\ y.opening => ~Idle(y) \/ Ends(y) # {}
        /\ Ends(y) # {} => y.opening /\ Idle(y)
    BY <1>5, <2>1, <2>2 DEF OpeningOK
  <2>4. /\ y.close.on /\ ~Idle(y) => y.opener.stop
        /\ ~Idle(y) => y.opener.todo # {} /\ y.opener.todo \subseteq y.request.tracks
        /\ y.opener.pc = "open" /\ y.opener.todo = y.request.tracks => y.made = {}
        /\ y.opener.pc = "check" \/ Of(y, "opened") # {} => y.made # {}
    BY <1>2, <1>5, <2>2 DEF OpeningOK
  <2>5. y.opening => /\ y.state # "recording" /\ ~y.finalizing /\ Still(y)
                     /\ TracksOf(y.made) \subseteq y.request.tracks /\ y.request.tracks \cap y.gone = {}
    BY <1>2, <1>5, <2>1 DEF OpeningOK
  <2> QED
    BY <1>4, <2>3, <2>4, <2>5 DEF OpeningOK
<1> QED
  BY <1>6, <1>7

LEMMA PopClosing == ASSUME NEW x, NEW y, Typed(x), PoppedFrom(x, y), ClosingOK(x) PROVE ClosingOK(y)
<1>1. Shifted(x, y)
  BY ShiftFacts DEF PoppedFrom
<1>2. /\ y.opener = x.opener /\ y.close = x.close /\ y.made = x.made /\ y.reader = x.reader /\ y.closer = x.closer
      /\ y.live = x.live /\ y.failed = x.failed
  BY PopKept
<1>3. (Idle(y) <=> Idle(x)) /\ (Still(y) <=> Still(x)) /\ \A t \in Tracks : Running(y, t) <=> Running(x, t)
  BY <1>2 DEF Idle, Still, Running
<1>4. \A i \in Of(y, "closed") : i \in Nat /\ i + 1 \in Of(x, "closed") /\ y.msgs[i] = x.msgs[i + 1]
  <2> SUFFICES ASSUME NEW i \in Of(y, "closed") PROVE i \in Nat /\ i + 1 \in Of(x, "closed") /\ y.msgs[i] = x.msgs[i + 1]
    OBVIOUS
  <2>1. i \in 1..Len(y.msgs)
    BY DEF Of
  <2> QED
    BY <1>1, <2>1 DEF Shifted
<1>5. Of(y, "closed") # {} => y.close.on /\ y.closer.pc = "idle" /\ Idle(y) /\ y.live = {} /\ Still(y)
  BY <1>1, <1>2, <1>3 DEF Shifted, ClosingOK
<1>6. \A i, j \in Of(y, "closed") : i = j
  <2> SUFFICES ASSUME NEW i \in Of(y, "closed"), NEW j \in Of(y, "closed") PROVE i = j
    OBVIOUS
  <2>1. i \in Nat /\ j \in Nat /\ i + 1 = j + 1
    BY <1>4 DEF ClosingOK
  <2> QED
    BY <2>1
<1>7. \A i \in Of(y, "closed") : y.msgs[i].tracks = TracksOf(y.made)
  BY <1>2, <1>4 DEF ClosingOK
<1>8. \A i \in Of(y, "closed") : \A j \in 1..Len(y.msgs) :
       j > i => /\ y.msgs[j].k \notin {"opened", "open-failed", "track-ended"}
                /\ y.msgs[j].k = "disk-failed" => y.failed
  <2> SUFFICES ASSUME NEW i \in Of(y, "closed"), NEW j \in 1..Len(y.msgs), j > i
               PROVE /\ y.msgs[j].k \notin {"opened", "open-failed", "track-ended"}
                     /\ y.msgs[j].k = "disk-failed" => y.failed
    OBVIOUS
  <2>1. i + 1 \in Of(x, "closed") /\ i \in Nat
    BY <1>4
  <2>2. j + 1 \in 1..Len(x.msgs) /\ j + 1 > i + 1 /\ y.msgs[j] = x.msgs[j + 1]
    BY <1>1, <2>1 DEF Shifted
  <2>3. /\ x.msgs[j + 1].k \notin {"opened", "open-failed", "track-ended"}
        /\ x.msgs[j + 1].k = "disk-failed" => x.failed
    BY <2>1, <2>2 DEF ClosingOK
  <2> QED
    BY <1>2, <2>2, <2>3
<1>9. /\ y.closer.pc # "idle" => y.close.on
      /\ y.closer.pc # "idle" => \A t \in Tracks : Running(y, t) => t \in y.closer.readers
      /\ y.closer.pc = "shut" \/ (y.closer.pc = "join" /\ ~y.closer.wait) => Idle(y)
      /\ y.closer.pc = "shut" => y.live \subseteq y.closer.has /\ y.closer.tracks = TracksOf(y.made)
  BY <1>2, <1>3 DEF ClosingOK
<1> QED
  BY <1>5, <1>6, <1>7, <1>8, <1>9 DEF ClosingOK

LEMMA PopDisk == ASSUME NEW x, NEW y, Typed(x), PoppedFrom(x, y), DiskOK(x) PROVE DiskOK(y)
<1>1. Shifted(x, y)
  BY ShiftFacts DEF PoppedFrom
<1>2. /\ y.close = x.close /\ y.state = x.state /\ y.finalizing = x.finalizing /\ y.reader = x.reader
      /\ y.failed = x.failed /\ y.lost = x.lost /\ y.jobs = x.jobs /\ y.interval = x.interval /\ y.lied = x.lied
  BY PopKept
<1>3. (Still(y) <=> Still(x)) /\ (Active(y) <=> Active(x)) /\ \A k : First(y, k) <=> First(x, k)
  BY <1>2 DEF Still, Running, Active, First
<1>4. \A i, j \in Of(y, "finalized") : i = j
  <2> SUFFICES ASSUME NEW i \in Of(y, "finalized"), NEW j \in Of(y, "finalized") PROVE i = j
    OBVIOUS
  <2>1. i \in Nat /\ j \in Nat /\ i + 1 \in Of(x, "finalized") /\ j + 1 \in Of(x, "finalized")
    BY <1>1 DEF Shifted
  <2>2. i + 1 = j + 1
    BY <2>1 DEF DiskOK
  <2> QED
    BY <2>1, <2>2
<1>5. y.lost => y.final = "failed" \/ Of(y, "disk-failed") # {}
  BY <1>1, <1>2 DEF DiskOK, PoppedFrom, Shifted
<1>6. /\ Of(y, "disk-failed") # {} => Of(x, "disk-failed") # {}
      /\ Of(y, "finalized") # {} => Of(x, "finalized") # {}
  BY <1>1 DEF Shifted
<1> QED
  BY <1>2, <1>3, <1>4, <1>5, <1>6 DEF DiskOK

LEMMA PopAdmission == ASSUME NEW x, NEW y, Typed(x), PoppedFrom(x, y), AdmissionOK(x) PROVE AdmissionOK(y)
<1>1. Of(y, "track-ended") # {} => Of(x, "track-ended") # {}
  BY ShiftFacts DEF PoppedFrom, Shifted
<1>2. /\ y.opener = x.opener /\ y.close = x.close /\ y.request = x.request /\ y.state = x.state
      /\ y.needs = x.needs /\ y.manual = x.manual
      /\ y.terminal = x.terminal /\ y.news = x.news /\ y.epoch = x.epoch /\ y.recovery = x.recovery /\ y.gui = x.gui
      /\ y.cmd = x.cmd
  BY PopKept
<1> QED
  BY <1>1, <1>2 DEF AdmissionOK, Barred, Idle, Active

LEMMA PopGone ==
  ASSUME NEW x, NEW y, Typed(x), PoppedFrom(x, y), GoneOK(x), Head(x.msgs).k # "track-ended" PROVE GoneOK(y)
<1>1. Shifted(x, y)
  BY ShiftFacts DEF PoppedFrom
<1>2. y.gone = x.gone /\ y.manual = x.manual /\ y.terminal = x.terminal /\ y.state = x.state
      /\ y.leaseTracks = x.leaseTracks /\ y.since = x.since /\ y.track = x.track
  BY PopKept
<1>3. ASSUME NEW t, NEW i \in Of(x, "track-ended"), t \in x.msgs[i].tracks PROVE \E j \in Of(y, "track-ended") : t \in y.msgs[j].tracks
  <2>1. i \in Nat /\ i # 0 /\ i # 1 /\ i <= Len(x.msgs)
    BY <1>1 DEF Shifted, Of
  <2>2. i - 1 \in Nat /\ i - 1 # 0 /\ (i - 1) + 1 = i /\ i - 1 \in 1..Len(y.msgs)
    BY <1>1, <2>1 DEF Shifted
  <2>3. i - 1 \in Of(y, "track-ended") /\ y.msgs[i - 1] = x.msgs[i]
    BY <1>1, <2>2 DEF Shifted
  <2> QED
    BY <1>3, <2>3
<1> QED
  BY <1>2, <1>3 DEF GoneOK, Barred

LEMMA PopCore ==
  ASSUME NEW x, NEW y, Typed(x), PoppedFrom(x, y), Core(x)
  PROVE CoreButGone(y) /\ (Head(x.msgs).k # "track-ended" => Core(y))
<1>1. OpeningOK(y) /\ ClosingOK(y) /\ DiskOK(y) /\ AdmissionOK(y)
  BY PopOpening, PopClosing, PopDisk, PopAdmission DEF Core, ClicksOK
<1>2. SourcesOK(y)
  <2>1. y.opening => x.opening
    BY DEF PoppedFrom
  <2> QED
    BY <2>1, PopKept DEF Core, SourcesOK, Running
<1>3. Head(x.msgs).k # "track-ended" => GoneOK(y)
  BY PopGone DEF Core, ClicksOK
<1> QED
  BY <1>1, <1>2, <1>3 DEF CoreButGone, Core, ClicksOK

\* A report that ends no opening
LEMMA PopSound ==
  ASSUME NEW x, NEW y, Typed(x), PoppedFrom(x, y), Head(x.msgs).k \notin Ending \cup {"track-ended"}
  PROVE Sound(x, y)
<1>1. Typed(y)
  BY PopTyped
<1>2. Good(x) => Core(y)
  BY PopCore DEF Good
<1>3. /\ y.made = x.made /\ y.state = x.state /\ y.close = x.close /\ y.gui = x.gui /\ y.cmd = x.cmd
      /\ y.crossed = x.crossed /\ y.terminating = x.terminating
  BY PopKept
<1>4. y.opening = x.opening
  BY DEF PoppedFrom
<1> QED
  BY <1>1, <1>2, <1>3, <1>4, GoodParts

Popped(x) == [x EXCEPT !.msgs = Tail(@)]

LEMMA PoppedFacts == ASSUME NEW x, Typed(x), x.msgs # <<>>, NEW y, y = Popped(x)
  PROVE /\ Keeps(x, y, {"msgs"}) /\ y.msgs = Tail(x.msgs)
        /\ (Head(x.msgs).k \notin Ending \cup {"disk-failed"} => PoppedFrom(x, y))
<1>1. Keeps(x, y, {"msgs"}) /\ y.msgs = Tail(x.msgs)
  BY FieldsAre DEF Popped, Keeps, Typed, TypedControl
<1>2. Keeps(x, y, PopFields) /\ y.opening = x.opening /\ y.final = x.final
  BY <1>1, FieldsAre DEF Keeps, PopFields
<1> QED
  BY <1>1, <1>2 DEF PoppedFrom

LEMMA HaltingGui == ASSUME NEW x, NEW y, Halting(x, y), GuiOK(x) PROVE GuiOK(y)
BY DEF GuiOK, Halting, Slower, GuiKept, SameRest

LEMMA OnFailureSound ==
  ASSUME Typed(c), c.msgs # <<>>, Head(c.msgs).k \in {"audio-failed", "disk-low"}, NEW r, NEW y, y = Autopause(Popped(c), r)
  PROVE Sound(c, y)
<1> DEFINE x == Popped(c)
<1>1. PoppedFrom(c, x)
  BY PoppedFacts DEF Ending
<1> HIDE DEF x
<1>2. Sound(c, x)
  BY <1>1, PopSound DEF Ending
<1>3. Typed(y) /\ Halting(x, y)
  BY <1>2, AutopauseHalting DEF Sound, x
<1> QED
  BY <1>2, <1>3, HaltingSound, SoundTrans DEF Sound

\* What an end of an opening finds
EndFound(x, y) ==
  /\ Core(y) /\ GuiOK(y) /\ ~y.opening /\ ~y.finalizing /\ Idle(y) /\ Still(y) /\ y.state # "recording"
  /\ y.state = "stopped" => y.close.on
  /\ y.request.tracks \cap y.gone = {} /\ TracksOf(y.made) \subseteq y.request.tracks
  /\ Head(x.msgs).k = "opened" => y.made # {}

LEMMA EndFacts ==
  ASSUME NEW x, Typed(x), x.msgs # <<>>, Head(x.msgs).k \in Ending, NEW y, y = [Popped(x) EXCEPT !.opening = FALSE]
  PROVE Typed(y) /\ y.crossed = x.crossed /\ (Good(x) => EndFound(x, y))
<1> DEFINE w == Popped(x)
<1>1. Keeps(x, w, {"msgs"}) /\ w.msgs = Tail(x.msgs)
  BY PoppedFacts
<1>2. y = [w EXCEPT !.opening = FALSE]
  OBVIOUS
<1> HIDE DEF w
<1>3. Keeps(w, y, {"opening"}) /\ y.opening = FALSE
  BY <1>1, <1>2, FieldsAre DEF Keeps
<1>4. Keeps(x, y, PopFields) /\ y.msgs = Tail(x.msgs) /\ y.final = x.final /\ y.crossed = x.crossed
  BY <1>1, <1>3, FieldsAre DEF Keeps, PopFields
<1>5. PoppedFrom(x, y)
  BY <1>3, <1>4 DEF PoppedFrom, Ending
<1>6. Typed(y)
  BY <1>5, PopTyped
<1>7. ASSUME Good(x) PROVE EndFound(x, y)
  <2>1. Core(y)
    BY <1>5, <1>7, PopCore DEF Good, Ending
  <2>2. /\ y.opener = x.opener /\ y.close = x.close /\ y.request = x.request /\ y.made = x.made /\ y.state = x.state
        /\ y.finalizing = x.finalizing /\ y.reader = x.reader /\ y.gone = x.gone
        /\ y.gui = x.gui /\ y.cmd = x.cmd /\ y.terminating = x.terminating
    BY ONLY <1>5, PopKept
  <2>3. GuiOK(y)
    BY <1>7, <2>2 DEF Good, GuiOK
  <2>4. 1 \in Of(x, Head(x.msgs).k)
    BY <1>5, ShiftFacts DEF Shifted, PoppedFrom
  <2>5. Ends(x) # {} /\ x.opening /\ OpeningOK(x)
    BY <1>7, <2>4 DEF Good, Core, OpeningOK, Ends, Ending
  <2>6. /\ Idle(x) /\ x.state # "recording" /\ ~x.finalizing /\ Still(x)
        /\ TracksOf(x.made) \subseteq x.request.tracks /\ x.request.tracks \cap x.gone = {}
        /\ (Head(x.msgs).k = "opened" => x.made # {})
    BY <2>4, <2>5 DEF OpeningOK
  <2>7. x.state = "stopped" => x.close.on
    BY <1>7, <2>5 DEF Good, Core, SourcesOK
  <2>8. (Idle(y) <=> Idle(x)) /\ (Still(y) <=> Still(x))
    BY <2>2 DEF Idle, Still, Running
  <2> QED
    BY <1>3, <2>1, <2>2, <2>3, <2>6, <2>7, <2>8 DEF EndFound
<1> QED
  BY <1>4, <1>6, <1>7

LEMMA OnOpenFailedSound ==
  ASSUME Typed(c), c.msgs # <<>>, Head(c.msgs).k = "open-failed", OnOpenFailed(Popped(c), Head(c.msgs).code)
  PROVE Sound(c, c')
<1> DEFINE code == Head(c.msgs).code
           y == [Popped(c) EXCEPT !.opening = FALSE]
           why == IF y.request.auto /\ code = "admission-stale" THEN BackTo(y, y.request) ELSE "audio_failed"
           z == IF y.close.on THEN y ELSE Close(y, why, None)
<1>1. c' = IF y.request.auto THEN z ELSE TellRefused(z, y.request, code)
  BY DEF OnOpenFailed
<1>2. Typed(y) /\ y.crossed = c.crossed /\ (Good(c) => EndFound(c, y))
  <2> HIDE DEF y
  <2> QED
    BY EndFacts DEF Ending, y
<1> HIDE DEF y, why
<1>3. Typed(z) /\ z.crossed = c.crossed /\ z.close.on
  <2>1. CASE y.close.on
    BY <1>2, <2>1
  <2>2. CASE ~y.close.on
    BY <1>2, <2>2, CloseTyped DEF SameRest
  <2> QED
    BY <2>1, <2>2
<1>4. ASSUME Good(c) PROVE Good(z)
  <2>1. EndFound(c, y)
    BY <1>2, <1>4
  <2>2. CASE y.close.on
    BY <2>1, <2>2 DEF EndFound, Good, Meant, Active
  <2>3. CASE ~y.close.on
    <3>1. LET u == Close(y, why, None) IN Typed(u) /\ Halting(y, u) /\ u.close.on
      BY <1>2, <2>1, <2>3, CloseHalting DEF EndFound
    <3>2. Typed(z) /\ Halting(y, z) /\ z.close.on
      BY <2>3, <3>1
    <3> HIDE DEF z
    <3>3. Core(z) /\ Meant(z) /\ GuiOK(z)
      BY <1>2, <2>1, <3>2, HaltingCore, HaltingMeant, HaltingGui DEF EndFound
    <3> QED
      BY <3>3 DEF Good
  <2> QED
    BY <2>2, <2>3
<1> HIDE DEF z
<1>5. Sound(c, z)
  BY <1>3, <1>4 DEF Sound
<1>6. Sound(z, TellRefused(z, y.request, code))
  BY <1>3, RefusedSound
<1> QED
  BY <1>1, <1>5, <1>6, SoundTrans

-----------------------------------------------------------------------------
\* A source that ended

LEMMA TrackLeft ==
  ASSUME NEW x, Typed(x), x.msgs # <<>>, Head(x.msgs).k = "track-ended", NEW t, NEW y, y = [Popped(x) EXCEPT !.leaseTracks = @ \ {t}]
  PROVE /\ Typed(y) /\ Keeps(x, y, {"msgs", "leaseTracks"}) /\ y.leaseTracks = x.leaseTracks \ {t}
        /\ y.msgs = Tail(x.msgs) /\ y.crossed = x.crossed /\ (Good(x) => CoreButGone(y) /\ Meant(y) /\ GuiOK(y))
<1> DEFINE w == Popped(x)
<1>1. Keeps(x, w, {"msgs"}) /\ w.msgs = Tail(x.msgs) /\ PoppedFrom(x, w)
  BY PoppedFacts DEF Ending
<1>2. y = [w EXCEPT !.leaseTracks = @ \ {t}]
  OBVIOUS
<1> HIDE DEF w
<1>3. Typed(w)
  BY <1>1, PopTyped
<1>4. Keeps(w, y, {"leaseTracks"}) /\ y.leaseTracks = w.leaseTracks \ {t}
  BY <1>1, <1>2, FieldsAre DEF Keeps
<1>5. Typed(y)
  <2>1. w.leaseTracks \in SUBSET Tracks
    BY <1>3 DEF Typed, TypedControl
  <2>2. TypedIn(y, {"leaseTracks"})
    BY <1>4, <2>1 DEF TypedIn
  <2> QED
    BY <1>3, <1>4, <2>2, KeepsTyped
<1>6. Keeps(x, y, {"msgs", "leaseTracks"}) /\ y.leaseTracks = x.leaseTracks \ {t} /\ y.msgs = Tail(x.msgs) /\ y.crossed = x.crossed
  BY <1>1, <1>4, FieldsAre DEF Keeps
<1>7. ASSUME Good(x) PROVE CoreButGone(y) /\ Meant(y) /\ GuiOK(y)
  <2>1. CoreButGone(w)
    BY <1>1, <1>7, PopCore DEF Good
  <2>2. {"leaseTracks"} \cap OpeningFields = {} /\ {"leaseTracks"} \cap ClosingFields = {}
        /\ {"leaseTracks"} \cap SourcesFields = {} /\ {"leaseTracks"} \cap DiskFields = {}
    BY DEF OpeningFields, ClosingFields, SourcesFields, DiskFields
  <2>3. OpeningOK(y) /\ ClosingOK(y) /\ SourcesOK(y) /\ DiskOK(y)
    BY <1>4, <2>1, <2>2, OpeningFrame, ClosingFrame, SourcesFrame, DiskFrame DEF CoreButGone
  <2>4. /\ y.opener = w.opener /\ y.close = w.close /\ y.request = w.request /\ y.state = w.state
        /\ y.needs = w.needs /\ y.manual = w.manual
        /\ y.terminal = w.terminal /\ y.news = w.news /\ y.epoch = w.epoch /\ y.recovery = w.recovery /\ y.gui = w.gui
        /\ y.cmd = w.cmd /\ y.msgs = w.msgs
    BY <1>4, FieldsAre DEF Keeps
  <2>5. AdmissionOK(y)
    BY <2>1, <2>4 DEF CoreButGone, AdmissionOK, Barred, Idle, Active, Of
  <2>6. /\ y.made = x.made /\ y.state = x.state /\ y.close = x.close /\ y.opening = x.opening
        /\ y.gui = x.gui /\ y.cmd = x.cmd /\ y.terminating = x.terminating
    BY <1>6, FieldsAre DEF Keeps
  <2> QED
    BY <1>7, <2>3, <2>5, <2>6 DEF CoreButGone, Good, Meant, GuiOK, Active
<1> QED
  BY <1>5, <1>6, <1>7

LEMMA OnTrackEndedSound ==
  ASSUME Typed(c), c.msgs # <<>>, Head(c.msgs).k = "track-ended",
         NEW t \in Head(c.msgs).tracks, OnTrackEnded(Popped(c), t, Head(c.msgs).code)
  PROVE Sound(c, c')
<1> DEFINE y == [Popped(c) EXCEPT !.leaseTracks = @ \ {t}]
           to == IF t = "far" THEN "ended" ELSE "paused"
           z == [y EXCEPT !.track[t] = to]
<1>1. c' = Autopause(y, "audio_failed") \/ c' = Answered(z)
  BY DEF OnTrackEnded
<1>2. /\ Typed(y) /\ Keeps(c, y, {"msgs", "leaseTracks"}) /\ y.leaseTracks = c.leaseTracks \ {t}
      /\ y.msgs = Tail(c.msgs) /\ y.crossed = c.crossed /\ (Good(c) => CoreButGone(y) /\ Meant(y) /\ GuiOK(y))
  <2> HIDE DEF y
  <2> QED
    BY TrackLeft DEF y
<1> HIDE DEF y
<1>3. CASE c' = Autopause(y, "audio_failed")
  <2>1. "audio_failed" \in Hard
    BY DEF Hard
  <2>2. LET u == Autopause(y, "audio_failed") IN Typed(u) /\ Halting(y, u) /\ ("audio_failed" \in Hard => Barred(u))
    BY <1>2, AutopauseHalting
  <2>3. Typed(c') /\ Halting(y, c') /\ Barred(c')
    BY <1>3, <2>1, <2>2
  <2>4. c'.crossed = y.crossed
    BY <2>3 DEF Halting, Slower, SameRest
  <2>5. ASSUME Good(c) PROVE Good(c')
    <3>1. CoreButGone(c') /\ GoneOK(c') /\ Meant(c') /\ GuiOK(c')
      BY <1>2, <2>3, <2>5, HaltingButGone, HaltingGone, HaltingMeant, HaltingGui
    <3> QED
      BY <3>1 DEF CoreButGone, Good, Core, ClicksOK
  <2> QED
    BY <1>2, <2>3, <2>4, <2>5 DEF Sound
<1>4. CASE c' = Answered(z)
  <2>1. Shifted(c, y)
    BY <1>2, ShiftFacts
  <2>2. t \in Tracks /\ Head(c.msgs).tracks = {t}
    <3>1. Head(c.msgs) \in MessageType
      BY <2>1 DEF Shifted
    <3> QED
      BY <3>1 DEF MessageType
  <2>3. Keeps(y, z, {"track"}) /\ z.track = [y.track EXCEPT ![t] = to]
    BY <1>2, FieldsAre DEF Keeps
  <2>4. y.track \in [Tracks -> {"live", "paused", "ended"}] /\ to \in {"paused", "ended"}
    BY <1>2 DEF Typed, TypedRest
  <2> HIDE DEF z, to
  <2>5. TypedIn(z, {"track"})
    BY <2>3, <2>4 DEF TypedIn
  <2>6. Typed(z)
    BY <1>2, <2>3, <2>5, KeepsTyped
  <2>7. \A u \in Tracks : (u # t => z.track[u] = y.track[u]) /\ (u = t => z.track[u] # "live")
    BY <2>2, <2>3, <2>4
  <2>8. /\ z.live = y.live /\ z.made = y.made /\ z.reader = y.reader /\ z.state = y.state /\ z.opening = y.opening
        /\ z.close = y.close /\ z.finalizing = y.finalizing /\ z.quiet = y.quiet /\ z.shutdown = y.shutdown
        /\ z.gui = y.gui /\ z.cmd = y.cmd /\ z.terminating = y.terminating /\ z.crossed = y.crossed
        /\ z.opener = y.opener /\ z.request = y.request /\ z.needs = y.needs /\ z.manual = y.manual
        /\ z.terminal = y.terminal /\ z.news = y.news /\ z.epoch = y.epoch /\ z.recovery = y.recovery /\ z.msgs = y.msgs
        /\ z.gone = y.gone /\ z.leaseTracks = y.leaseTracks /\ z.since = y.since
    BY <2>3, FieldsAre DEF Keeps
  <2>9. ASSUME Good(c) PROVE Good(z)
    <3>1. CoreButGone(y) /\ Meant(y) /\ GuiOK(y)
      BY <1>2, <2>9
    <3>2. {"track"} \cap OpeningFields = {} /\ {"track"} \cap ClosingFields = {} /\ {"track"} \cap DiskFields = {}
      BY DEF OpeningFields, ClosingFields, DiskFields
    <3>3. OpeningOK(z) /\ ClosingOK(z) /\ DiskOK(z)
      BY <2>3, <3>1, <3>2, OpeningFrame, ClosingFrame, DiskFrame DEF CoreButGone
    <3>4. SourcesOK(z)
      BY <2>7, <2>8, <3>1 DEF CoreButGone, SourcesOK, Running
    <3>5. AdmissionOK(z)
      BY <2>8, <3>1 DEF CoreButGone, AdmissionOK, Barred, Idle, Active, Of
    <3>6. /\ y.gone = c.gone /\ y.manual = c.manual /\ y.terminal = c.terminal /\ y.state = c.state
          /\ y.since = c.since /\ y.track = c.track
      BY <1>2, FieldsAre DEF Keeps
    <3>7. GoneOK(z)
      <4> SUFFICES ASSUME NEW u \in c.gone
                   PROVE \/ Barred(z) \/ \E i \in Of(z, "track-ended") : u \in z.msgs[i].tracks
                         \/ u \notin z.leaseTracks /\ (z.since = "none" => z.track[u] # "live")
        BY <2>8, <3>6 DEF GoneOK
      <4>1. \/ Barred(c) \/ \E i \in Of(c, "track-ended") : u \in c.msgs[i].tracks
            \/ u \notin c.leaseTracks /\ (c.since = "none" => c.track[u] # "live")
        BY <2>9 DEF Good, Core, ClicksOK, GoneOK
      <4>2. u \in Tracks
        BY DEF Typed, TypedRest
      <4>3. CASE Barred(c)
        BY <2>8, <3>6, <4>3 DEF Barred
      <4>4. CASE u = t
        BY <1>2, <2>2, <2>7, <2>8, <4>4
      <4>5. CASE u # t /\ u \notin c.leaseTracks /\ (c.since = "none" => c.track[u] # "live")
        BY <1>2, <2>7, <2>8, <3>6, <4>2, <4>5
      <4>6. ASSUME u # t, NEW i \in Of(c, "track-ended"), u \in c.msgs[i].tracks
            PROVE \E j \in Of(z, "track-ended") : u \in z.msgs[j].tracks
        <5>1. i # 1
          BY <2>1, <2>2, <4>6 DEF Shifted
        <5>2. i \in Nat /\ i # 0 /\ i <= Len(c.msgs)
          BY <2>1 DEF Of, Shifted
        <5>3. i - 1 \in Nat /\ i - 1 # 0 /\ (i - 1) + 1 = i /\ i - 1 \in 1..Len(y.msgs)
          BY <2>1, <5>1, <5>2 DEF Shifted
        <5>4. i - 1 \in Of(y, "track-ended") /\ y.msgs[i - 1] = c.msgs[i]
          BY <2>1, <5>3 DEF Shifted
        <5>5. i - 1 \in Of(z, "track-ended") /\ z.msgs[i - 1] = c.msgs[i]
          BY <2>8, <5>4 DEF Of
        <5> QED
          BY <4>6, <5>5
      <4> QED
        BY <4>1, <4>3, <4>4, <4>5, <4>6
    <3>8. Meant(z) /\ GuiOK(z)
      BY <2>8, <3>1 DEF Meant, GuiOK, Active
    <3> QED
      BY <3>3, <3>4, <3>5, <3>7, <3>8 DEF Good, Core, ClicksOK
  <2>10. Sound(c, z)
    BY <1>2, <2>6, <2>8, <2>9 DEF Sound
  <2>11. Sound(z, c')
    BY <1>4, <2>6, AnsweredSound DEF Answered
  <2> QED
    BY <2>10, <2>11, SoundTrans
<1> QED
  BY <1>1, <1>3, <1>4

\* A new revision is told apart only by the GUI and by its command
LEMMA RevisedFacts ==
  ASSUME NEW x, Typed(x), NEW y, y = Revised(x)
  PROVE /\ Keeps(x, y, {"gui", "cmd"}) /\ y.gui \in GuiType /\ y.cmd \in CommandType
        /\ y.gui.epoch = x.gui.epoch /\ y.gui.terminal = x.gui.terminal /\ y.cmd.k = x.cmd.k /\ y.cmd.epoch = x.cmd.epoch
<1>1. x.gui \in GuiType /\ x.cmd \in CommandType
  BY DEF Typed, TypedControl
<1>2. Keeps(x, y, {"gui", "cmd"})
  BY FieldsAre DEF Revised, Keeps, Typed, TypedControl
<1>3. y.gui = [x.gui EXCEPT !.cur = FALSE] /\ y.cmd = IF x.cmd = NoCommand THEN x.cmd ELSE [x.cmd EXCEPT !.cur = FALSE]
  BY FieldsAre DEF Revised, Typed, TypedControl
<1> DEFINE g == x.gui
           h == y.gui
           m == x.cmd
           n == y.cmd
<1>4. g \in GuiType /\ h = [g EXCEPT !.cur = FALSE] /\ m \in CommandType /\ (n = m \/ n = [m EXCEPT !.cur = FALSE])
  BY <1>1, <1>3
<1> HIDE DEF g, h, m, n
<1>5. h \in GuiType /\ h.epoch = g.epoch /\ h.terminal = g.terminal
  BY ONLY <1>4 DEF GuiType
<1>6. n \in CommandType /\ n.k = m.k /\ n.epoch = m.epoch
  BY ONLY <1>4 DEF CommandType
<1> QED
  BY <1>2, <1>5, <1>6 DEF g, h, m, n

\* What has been opened is recorded
RecordFields == {"gui", "cmd", "state", "since", "pauseEpoch", "leased", "track", "reader"}
Began(x, y) ==
  /\ Keeps(x, y, RecordFields \cup {"jobs"}) /\ y.state = "recording" /\ y.since = "none" /\ y.pauseEpoch = None /\ y.leased = TRUE
  /\ y.track = [t \in Tracks |-> IF t \in TracksOf(x.made) THEN "live" ELSE x.track[t]]
  /\ y.reader = [t \in Tracks |-> IF t \in TracksOf(x.made) THEN [pc |-> "run", stop |-> FALSE] ELSE x.reader[t]]
  /\ y.gui \in GuiType /\ y.cmd \in CommandType
  /\ y.gui.epoch = x.gui.epoch /\ y.gui.terminal = x.gui.terminal /\ y.cmd.k = x.cmd.k /\ y.cmd.epoch = x.cmd.epoch
  /\ y.jobs = IF x.failed THEN x.jobs ELSE Append(x.jobs, Job("open"))

LEMMA BeganFacts ==
  ASSUME NEW x, Typed(x), NEW z, z = Opened(x)
  PROVE \E y : Began(x, y) /\ (z = TellStarted(y) \/ z = [y EXCEPT !.due = TRUE])
<1> DEFINE tracks == {s[1] : s \in x.made}
           r == Revised(x)
           v == [r EXCEPT !.state = "recording", !.since = "none", !.pauseEpoch = None, !.leased = TRUE,
              !.track = [t \in Tracks |-> IF t \in tracks THEN "live" ELSE @[t]],
              !.reader = [t \in Tracks |-> IF t \in tracks THEN [pc |-> "run", stop |-> FALSE] ELSE @[t]]]
           y == Put(v, Job("open"))
<1>1. z = TellStarted(y) \/ z = [y EXCEPT !.due = TRUE]
  BY DEF Opened
<1>2. /\ Keeps(x, r, {"gui", "cmd"}) /\ r.gui \in GuiType /\ r.cmd \in CommandType
      /\ r.gui.epoch = x.gui.epoch /\ r.gui.terminal = x.gui.terminal /\ r.cmd.k = x.cmd.k /\ r.cmd.epoch = x.cmd.epoch
  BY RevisedFacts
<1>3. tracks = TracksOf(x.made)
  BY DEF TracksOf
<1> HIDE DEF r, tracks
<1>4. r.track = x.track /\ r.reader = x.reader /\ r.jobs = x.jobs /\ r.failed = x.failed
  BY <1>2, FieldsAre DEF Keeps
<1>5. /\ Keeps(r, v, RecordFields) /\ v.gui = r.gui /\ v.cmd = r.cmd
      /\ v.state = "recording" /\ v.since = "none" /\ v.pauseEpoch = None /\ v.leased = TRUE
      /\ v.track = [t \in Tracks |-> IF t \in tracks THEN "live" ELSE r.track[t]]
      /\ v.reader = [t \in Tracks |-> IF t \in tracks THEN [pc |-> "run", stop |-> FALSE] ELSE r.reader[t]]
  BY <1>2, FieldsAre DEF Keeps, RecordFields
<1> HIDE DEF v
<1>6. v.jobs = r.jobs /\ v.failed = r.failed
  BY <1>5, FieldsAre DEF Keeps, RecordFields
<1>7. Keeps(v, y, {"jobs"}) /\ y.jobs = IF v.failed THEN v.jobs ELSE Append(v.jobs, Job("open"))
  BY <1>5, FieldsAre DEF Put, Keeps
<1> HIDE DEF y
<1>8. /\ y.state = v.state /\ y.since = v.since /\ y.pauseEpoch = v.pauseEpoch /\ y.leased = v.leased /\ y.track = v.track
      /\ y.reader = v.reader /\ y.gui = v.gui /\ y.cmd = v.cmd
  BY <1>7, FieldsAre DEF Keeps
<1>9. Keeps(x, y, RecordFields \cup {"jobs"})
  BY <1>2, <1>5, <1>7 DEF Keeps, RecordFields
<1>10. Began(x, y)
  BY <1>2, <1>3, <1>4, <1>5, <1>6, <1>7, <1>8, <1>9 DEF Began
<1> QED
  BY <1>1, <1>10

LEMMA BeganTyped == ASSUME NEW x, NEW y, Typed(x), Began(x, y) PROVE Typed(y)
<1>1. y.reader \in [Tracks -> ReaderType]
  <2>1. x.reader \in [Tracks -> ReaderType]
    BY DEF Typed, TypedControl
  <2> QED
    BY <2>1 DEF Began, ReaderType
<1>2. y.track \in [Tracks -> {"live", "paused", "ended"}]
  <2>1. x.track \in [Tracks -> {"live", "paused", "ended"}]
    BY DEF Typed, TypedRest
  <2> QED
    BY <2>1 DEF Began
<1>3. y.jobs \in Seq(JobType)
  <2>1. x.jobs \in Seq(JobType) /\ Job("open") \in JobType
    BY JobTyped DEF Typed, TypedRest
  <2> QED
    BY <2>1, AppendProperties DEF Began
<1>4. TypedIn(y, RecordFields \cup {"jobs"})
  BY <1>1, <1>2, <1>3 DEF TypedIn, RecordFields, Began
<1> QED
  BY <1>4, KeepsTyped DEF Began

LEMMA FirstJob ==
  ASSUME NEW x, NEW y, NEW j \in JobType, x.jobs = <<>>, y.jobs = Append(<<>>, j)
  PROVE Len(y.jobs) = 1 /\ y.jobs[1] = j /\ \A k : First(y, k) <=> j.k = k
<1>1. y.jobs = <<j>>
  BY EmptySeq, AppendProperties
<1>2. Len(y.jobs) = 1 /\ y.jobs[1] = j /\ y.jobs # <<>>
  BY <1>1
<1> QED
  BY <1>2 DEF First

\* What an end of an opening that is not given up finds
Ready(x) ==
  /\ Core(x) /\ GuiOK(x) /\ ~x.close.on /\ ~x.opening /\ ~x.finalizing /\ Idle(x) /\ Still(x)
  /\ x.state \notin {"recording", "stopped"} /\ x.made # {}
  /\ x.request.tracks \cap x.gone = {} /\ TracksOf(x.made) \subseteq x.request.tracks

LEMMA BeganGood == ASSUME NEW x, NEW y, Typed(x), Began(x, y), Ready(x) PROVE Good(y)
<1>1. /\ y.opener = x.opener /\ y.opening = x.opening /\ y.msgs = x.msgs /\ y.close = x.close /\ y.request = x.request
      /\ y.made = x.made /\ y.finalizing = x.finalizing /\ y.gone = x.gone /\ y.closer = x.closer /\ y.live = x.live
      /\ y.failed = x.failed /\ y.quiet = x.quiet /\ y.shutdown = x.shutdown /\ y.lost = x.lost /\ y.final = x.final
      /\ y.interval = x.interval /\ y.lied = x.lied /\ y.needs = x.needs /\ y.manual = x.manual /\ y.terminal = x.terminal
      /\ y.news = x.news /\ y.epoch = x.epoch /\ y.recovery = x.recovery /\ y.leaseTracks = x.leaseTracks
      /\ y.terminating = x.terminating
  BY FieldsAre DEF Began, Keeps, RecordFields
<1>2. \A k : Of(y, k) = Of(x, k)
  BY <1>1 DEF Of
<1>3. Core(x) /\ ~Active(x) /\ x.closer.pc = "idle" /\ Ends(x) = {} /\ Of(x, "closed") = {} /\ Of(x, "finalized") = {}
  BY DEF Ready, Active, Core, OpeningOK, ClosingOK, DiskOK
<1>4. Active(y) /\ Idle(y) /\ y.state = "recording"
  BY <1>1 DEF Ready, Active, Idle, Began
<1>5. OpeningOK(y)
  <2>1. Ends(y) = {} /\ Of(y, "opened") = {}
    BY <1>2, <1>3 DEF Ends
  <2>2. ~y.opening /\ y.opener.pc = "idle"
    BY <1>1, <1>4 DEF Ready, Idle
  <2> QED
    BY <1>4, <2>1, <2>2 DEF OpeningOK
<1>6. ClosingOK(y)
  BY <1>1, <1>2, <1>3 DEF ClosingOK
<1>7. SourcesOK(y)
  <2>1. SourcesOK(x)
    BY <1>3 DEF Core
  <2>2. \A t \in Tracks : Running(y, t) \/ y.track[t] = "live" => t \in TracksOf(y.made)
    BY <1>1, <2>1 DEF Began, SourcesOK, Running
  <2> QED
    BY <1>1, <1>4, <2>1, <2>2 DEF SourcesOK, Ready
<1>8. DiskOK(y)
  <2>1. DiskOK(x)
    BY <1>3 DEF Core
  <2>2. x.jobs \in Seq(JobType)
    BY DEF Typed, TypedRest
  <2>3. CASE x.failed
    <3>1. y.jobs = x.jobs /\ x.jobs = <<>>
      BY <2>1, <2>3 DEF Began, DiskOK
    <3>2. Len(y.jobs) = 0 /\ \A k : ~First(y, k)
      BY <3>1 DEF First
    <3> QED
      BY <1>1, <1>2, <1>4, <2>1, <2>3, <3>1, <3>2 DEF DiskOK
  <2>4. CASE ~x.failed
    <3>1. ~x.interval /\ ~First(x, "open") /\ ~First(x, "pcm")
      BY <1>3, <2>1, <2>4 DEF DiskOK, Ready
    <3>2. x.jobs = <<>>
      <4> SUFFICES ASSUME x.jobs # <<>> PROVE FALSE
        OBVIOUS
      <4>1. x.jobs[1] \in JobType /\ Len(x.jobs) \in Nat /\ Len(x.jobs) # 0
        BY <2>2, HeadTailProperties, LenProperties, EmptySeq
      <4>2. x.jobs[1].k \in {"open", "close", "pcm"}
        BY <4>1 DEF JobType
      <4>3. x.jobs[1].k = "close"
        BY <3>1, <4>2 DEF First
      <4>4. 1 \in 1..Len(x.jobs)
        BY <4>1
      <4> QED
        BY <2>1, <4>3, <4>4 DEF DiskOK, Ready
    <3>3. PICK j \in JobType : j.k = "open" /\ y.jobs = Append(x.jobs, j)
      BY <2>4, JobTyped DEF Began
    <3>5. Len(y.jobs) = 1 /\ y.jobs[1] = j /\ \A k : First(y, k) <=> j.k = k
      BY <3>2, <3>3, FirstJob
    <3>6. \A i \in 1..Len(y.jobs) :
             /\ y.jobs[i].k = "open" => i = 1 /\ ~y.interval
             /\ y.jobs[i].k = "close" => i = Len(y.jobs) /\ y.finalizing
      BY <1>1, <3>1, <3>3, <3>5
    <3>7. First(y, "open") /\ ~First(y, "pcm") /\ ~y.failed
      BY <1>1, <2>4, <3>3, <3>5
    <3>8. /\ y.lost => y.final = "failed" \/ Of(y, "disk-failed") # {}
          /\ Of(y, "finalized") = {} /\ ~y.lied
      BY <1>1, <1>2, <1>3, <2>1 DEF DiskOK
    <3> QED
      BY <1>4, <3>6, <3>7, <3>8 DEF DiskOK
  <2> QED
    BY <2>3, <2>4
<1>9. AdmissionOK(y)
  <2>1. AdmissionOK(x)
    BY <1>3 DEF Core, ClicksOK
  <2>2. y.gui.epoch = x.gui.epoch /\ y.cmd.epoch = x.cmd.epoch /\ (Barred(x) => Barred(y))
    BY <1>1 DEF Began, Ready, Barred
  <2> QED
    BY <1>1, <1>4, <2>1, <2>2 DEF AdmissionOK
<1>10. GoneOK(y)
  <2> SUFFICES ASSUME NEW t \in y.gone
               PROVE \/ Barred(y) \/ \E i \in Of(y, "track-ended") : t \in y.msgs[i].tracks
                     \/ t \notin y.leaseTracks /\ (y.since = "none" => y.track[t] # "live")
    BY DEF GoneOK
  <2>1. t \in Tracks /\ t \in x.gone
    BY <1>1 DEF Typed, TypedRest
  <2>2. \/ Barred(x) \/ \E i \in Of(x, "track-ended") : t \in x.msgs[i].tracks
        \/ t \notin x.leaseTracks /\ (x.since = "none" => x.track[t] # "live")
    BY <1>3, <2>1 DEF Core, ClicksOK, GoneOK
  <2>3. t \notin TracksOf(x.made)
    BY <2>1 DEF Ready
  <2>4. x.track[t] # "live" /\ y.track[t] = x.track[t]
    BY <1>3, <2>1, <2>3 DEF Core, SourcesOK, Began
  <2>5. Barred(x) => Barred(y)
    BY <1>1 DEF Ready, Barred
  <2> QED
    BY <1>1, <1>2, <2>2, <2>4, <2>5
<1>11. Meant(y) /\ GuiOK(y)
  BY <1>1, <1>4 DEF Meant, GuiOK, Ready, Began
<1> QED
  BY <1>5, <1>6, <1>7, <1>8, <1>9, <1>10, <1>11 DEF Good, Core, ClicksOK

LEMMA OpenedTail ==
  ASSUME NEW y, Typed(y), NEW z, z = TellStarted(y) \/ z = [y EXCEPT !.due = TRUE]
  PROVE Sound(y, z)
<1>1. CASE z = TellStarted(y)
  BY <1>1, TellStartedSound
<1>2. CASE z = [y EXCEPT !.due = TRUE]
  <2>1. Keeps(y, z, {"due"}) /\ z.due = TRUE
    BY <1>2, FieldsAre DEF Keeps, Typed, TypedControl
  <2>2. TypedIn(z, {"due"}) /\ z.terminating = y.terminating
    BY <2>1, FieldsAre DEF TypedIn, Keeps
  <2>3. {"due"} \subseteq Bookkeeping
    BY DEF Bookkeeping
  <2> QED
    BY <2>1, <2>2, <2>3, BookSound
<1> QED
  BY <1>1, <1>2

LEMMA OnOpenedSound ==
  ASSUME Typed(c), c.msgs # <<>>, Head(c.msgs).k = "opened", OnOpened(Popped(c))
  PROVE Sound(c, c')
<1> DEFINE x == [Popped(c) EXCEPT !.opening = FALSE]
           y == Drained(x)
           why == BackTo(y, y.request)
           w == Close(y, why, None)
<1>1. PICK fresh \in BOOLEAN :
        c' = CASE y.close.on -> y
              [] ~y.close.on /\ (y.stopped \/ ~fresh \/ ~Admitted(y, y.request)) -> w
              [] OTHER -> Opened(y)
  BY DEF OnOpened
<1>2. Typed(x) /\ x.crossed = c.crossed /\ (Good(c) => EndFound(c, x))
  <2> HIDE DEF x
  <2> QED
    BY EndFacts DEF Ending, x
<1> HIDE DEF x
<1>3. Typed(y) /\ Halting(x, y)
  BY <1>2, DrainedHalting
<1> HIDE DEF y
<1>4. y.crossed = c.crossed
  BY <1>2, <1>3 DEF Halting, Slower, SameRest
<1>5. CASE y.close.on
  <2>1. c' = y
    BY <1>1, <1>5
  <2>2. ASSUME Good(c) PROVE Good(y)
    BY <1>2, <1>3, <1>5, <2>2, HaltingCore, HaltingMeant, HaltingGui DEF Good, EndFound
  <2> QED
    BY <1>3, <1>4, <2>1, <2>2 DEF Sound
<1>6. ASSUME Good(c), ~y.close.on
      PROVE /\ Core(y) /\ GuiOK(y) /\ ~x.close.on /\ ~y.opening /\ ~y.finalizing /\ Idle(y) /\ Still(y)
            /\ y.state \notin {"recording", "stopped"} /\ y.made # {}
            /\ y.request.tracks \cap y.gone = {} /\ TracksOf(y.made) \subseteq y.request.tracks
  <2>1. EndFound(c, x) /\ x.made # {}
    BY <1>2, <1>6 DEF EndFound
  <2>2. /\ y.opening = x.opening /\ y.finalizing = x.finalizing /\ y.made = x.made /\ y.request = x.request /\ y.gone = x.gone
        /\ y.state = "recording" => x.state = "recording"
        /\ y.state = "stopped" /\ x.state # "stopped" /\ (x.opening \/ x.made # {}) => y.close.on
        /\ x.close.on => y.close.on
    BY <1>3 DEF Halting, Slower, SameRest, Threadless, Shutting
  <2>3. (Idle(y) <=> Idle(x)) /\ (Still(y) <=> Still(x))
    BY <1>2, <1>3, HaltingFacts
  <2>4. Core(y) /\ GuiOK(y)
    BY <1>2, <1>3, <2>1, HaltingCore, HaltingGui DEF EndFound
  <2> QED
    BY <1>6, <2>1, <2>2, <2>3, <2>4 DEF EndFound
<1>7. CASE ~y.close.on /\ c' = w
  <2>1. Typed(w) /\ SameRest(y, w) /\ w.close.on
    BY <1>3, CloseTyped
  <2>2. w.crossed = c.crossed
    BY <1>4, <2>1 DEF SameRest
  <2>3. ASSUME Good(c) PROVE Good(w)
    <3>1. Core(y) /\ GuiOK(y) /\ ~y.finalizing /\ y.state # "stopped"
      BY <1>6, <1>7, <2>3
    <3> HIDE DEF why
    <3>2. LET u == Close(y, why, None) IN Typed(u) /\ Halting(y, u) /\ u.close.on
      BY <1>3, <3>1, CloseHalting
    <3>3. Halting(y, w) /\ w.close.on
      BY <3>2
    <3> HIDE DEF w
    <3> QED
      BY <1>3, <2>1, <3>1, <3>3, HaltingCore, HaltingMeant, HaltingGui DEF Good
  <2> QED
    BY <1>7, <2>1, <2>2, <2>3 DEF Sound
<1>8. CASE ~y.close.on /\ c' = Opened(y)
  <2>1. PICK u : Began(y, u) /\ (c' = TellStarted(u) \/ c' = [u EXCEPT !.due = TRUE])
    BY <1>3, <1>8, BeganFacts
  <2>2. Typed(u) /\ u.crossed = c.crossed
    <3>1. Typed(u)
      BY <1>3, <2>1, BeganTyped
    <3>2. u.crossed = y.crossed
      BY <2>1, FieldsAre DEF Began, Keeps, RecordFields
    <3> QED
      BY <1>4, <3>1, <3>2
  <2>3. Good(c) => Ready(y)
    BY <1>6, <1>8 DEF Ready
  <2>4. Good(c) => Good(u)
    BY <1>3, <2>1, <2>3, BeganGood
  <2>5. Sound(c, u)
    BY <2>2, <2>4 DEF Sound
  <2>6. Sound(u, c')
    BY <2>1, <2>2, OpenedTail
  <2> QED
    BY <2>5, <2>6, SoundTrans
<1> QED
  <2> HIDE DEF w
  <2> QED
    BY <1>1, <1>5, <1>7, <1>8

-----------------------------------------------------------------------------
\* The end of a close

LEMMA FinalizingSound ==
  ASSUME NEW x, NEW w, Typed(x), Keeps(x, w, {"waiters", "finalizing"}), w.waiters = {}, w.finalizing = FALSE
  PROVE /\ Typed(w) /\ w.crossed = x.crossed /\ w.lost = x.lost
        /\ Good(x) /\ (x.failed \/ (x.jobs = <<>> /\ ~x.interval)) /\ Of(x, "finalized") = {} => Good(w)
<1> DEFINE S == {"waiters", "finalizing"}
<1>1. Typed(w)
  <2>1. TypedIn(w, S)
    BY DEF TypedIn
  <2> QED
    BY <2>1, KeepsTyped
<1>2. /\ w.crossed = x.crossed /\ w.lost = x.lost /\ w.made = x.made /\ w.state = x.state /\ w.close = x.close
      /\ w.opening = x.opening /\ w.gui = x.gui /\ w.cmd = x.cmd /\ w.terminating = x.terminating
      /\ w.opener = x.opener /\ w.msgs = x.msgs /\ w.request = x.request /\ w.reader = x.reader /\ w.gone = x.gone
      /\ w.live = x.live /\ w.track = x.track /\ w.quiet = x.quiet /\ w.shutdown = x.shutdown
      /\ w.final = x.final /\ w.failed = x.failed /\ w.jobs = x.jobs /\ w.interval = x.interval /\ w.lied = x.lied
  BY FieldsAre DEF Keeps
<1>3. ASSUME Good(x), x.failed \/ (x.jobs = <<>> /\ ~x.interval), Of(x, "finalized") = {} PROVE Good(w)
  <2>0. Core(x)
    BY <1>3 DEF Good
  <2>1. S \cap ClosingFields = {} /\ S \cap ClicksFields = {}
    BY DEF ClosingFields, ClicksFields
  <2>2. ClosingOK(w) /\ ClicksOK(w)
    BY <2>0, <2>1, ClosingFrame, ClicksFrame DEF Core
  <2>3. /\ \A k : Of(w, k) = Of(x, k)
        /\ Ends(w) = Ends(x) /\ (Idle(w) <=> Idle(x)) /\ (Still(w) <=> Still(x)) /\ (Active(w) <=> Active(x))
        /\ \A t \in Tracks : Running(w, t) <=> Running(x, t)
        /\ \A k : First(w, k) <=> First(x, k)
    BY <1>2 DEF Of, Ends, Idle, Still, Active, Running, First
  <2>4. OpeningOK(w)
    BY <1>2, <2>0, <2>3 DEF Core, OpeningOK
  <2>5. SourcesOK(w)
    BY <1>2, <2>0, <2>3 DEF Core, SourcesOK
  <2>6. x.jobs = <<>>
    BY <1>3, <2>0 DEF Core, DiskOK
  <2>7. Len(w.jobs) = 0 /\ \A k : ~First(w, k)
    BY <1>2, <2>6 DEF First
  <2>8. DiskOK(w)
    <3>1. /\ w.lost => w.final = "failed" \/ Of(w, "disk-failed") # {}
          /\ Of(w, "disk-failed") # {} => w.failed \/ Active(w)
          /\ Of(w, "finalized") = {} /\ ~w.lied
          /\ ~Still(w) => w.failed \/ w.interval
      BY <1>2, <1>3, <2>0, <2>3, <2>7 DEF Core, DiskOK
    <3> QED
      BY <1>2, <1>3, <2>6, <2>7, <3>1 DEF DiskOK
  <2> QED
    BY <1>2, <1>3, <2>2, <2>4, <2>5, <2>8 DEF Good, Core, Meant, GuiOK, Active
<1> QED
  BY <1>1, <1>2, <1>3

LEMMA FinalizedSound ==
  ASSUME NEW x, Typed(x), NEW req, NEW status, NEW z, z = Finalized(x, req, status),
         Good(x) => /\ x.failed \/ (x.jobs = <<>> /\ ~x.interval)
                    /\ Of(x, "finalized") = {}
                    /\ status = "succeeded" => ~x.lost
  PROVE Sound(x, z)
<1> DEFINE kinds == x.waiters \cup {req}
           w == [x EXCEPT !.waiters = {}, !.finalizing = FALSE]
           y == TellFinalized(w, kinds, status)
<1>1. z = IF "pause" \in kinds THEN TellPaused(y, FALSE) ELSE y
  BY DEF Finalized
<1>2. Keeps(x, w, {"waiters", "finalizing"}) /\ w.waiters = {} /\ w.finalizing = FALSE
  BY FieldsAre DEF Keeps, Typed, TypedControl
<1> HIDE DEF w, kinds
<1>3. /\ Typed(w) /\ w.crossed = x.crossed /\ w.lost = x.lost
      /\ Good(x) /\ (x.failed \/ (x.jobs = <<>> /\ ~x.interval)) /\ Of(x, "finalized") = {} => Good(w)
  BY <1>2, FinalizingSound
<1>4. Typed(y) /\ y.crossed = w.crossed
  BY <1>3, FinalTyped
<1>5. ASSUME Good(x) PROVE Good(y) \/ y.crossed
  <2>1. Good(w) /\ (status = "succeeded" => ~w.lost)
    BY <1>3, <1>5
  <2>2. Sound(w, y)
    BY <1>3, <2>1, TellFinalizedSound
  <2> QED
    BY <1>3, <1>4, <2>1, <2>2 DEF Sound
<1>6. Sound(x, y)
  BY <1>3, <1>4, <1>5 DEF Sound
<1> HIDE DEF y
<1>7. Sound(y, TellPaused(y, FALSE))
  BY <1>4, TellPausedSound
<1> QED
  BY <1>1, <1>6, <1>7, SoundTrans

\* Whatever it is
LEMMA FinalizedTyped ==
  ASSUME NEW x, Typed(x), NEW req, NEW status, NEW z, z = Finalized(x, req, status)
  PROVE Typed(z) /\ z.crossed = x.crossed
<1> DEFINE kinds == x.waiters \cup {req}
           w == [x EXCEPT !.waiters = {}, !.finalizing = FALSE]
           y == TellFinalized(w, kinds, status)
<1>1. z = IF "pause" \in kinds THEN TellPaused(y, FALSE) ELSE y
  BY DEF Finalized
<1>2. Keeps(x, w, {"waiters", "finalizing"}) /\ w.waiters = {} /\ w.finalizing = FALSE
  BY FieldsAre DEF Keeps, Typed, TypedControl
<1> HIDE DEF w, kinds
<1>3. Typed(w) /\ w.crossed = x.crossed
  BY <1>2, FinalizingSound
<1>4. Typed(y) /\ y.crossed = w.crossed
  BY <1>3, FinalTyped
<1> HIDE DEF y
<1>5. Typed(TellPaused(y, FALSE)) /\ TellPaused(y, FALSE).crossed = y.crossed
  BY <1>4, TellPausedTyped
<1> QED
  BY <1>1, <1>3, <1>4, <1>5

\* The store has written all there was
LEMMA OnFinalizedSound ==
  ASSUME Typed(c), c.msgs # <<>>, Head(c.msgs).k = "finalized",
         NEW y, y = Finalized(Popped(c), Head(c.msgs).req, Popped(c).final)
  PROVE Sound(c, y)
<1> DEFINE x == Popped(c)
<1>1. PoppedFrom(c, x)
  BY PoppedFacts DEF Ending
<1>2. x.msgs = Tail(c.msgs) /\ Keeps(c, x, {"msgs"})
  BY PoppedFacts
<1> HIDE DEF x
<1>3. Sound(c, x)
  BY <1>1, PopSound DEF Ending
<1>4. x.jobs = c.jobs /\ x.interval = c.interval /\ x.lost = c.lost /\ x.final = c.final
  BY <1>2, FieldsAre DEF Keeps
<1>5. ASSUME Good(c) PROVE x.jobs = <<>> /\ ~x.interval /\ Of(x, "finalized") = {} /\ (x.final = "succeeded" => ~x.lost)
  <2>1. Shifted(c, x)
    BY <1>2, ShiftFacts
  <2>2. 1 \in Of(c, "finalized")
    BY <2>1 DEF Shifted
  <2>3. Of(x, "finalized") = {}
    <3> SUFFICES ASSUME NEW i \in Of(x, "finalized") PROVE FALSE
      OBVIOUS
    <3>1. i \in Nat /\ i # 0 /\ i + 1 \in Of(c, "finalized")
      BY <2>1 DEF Shifted
    <3>2. i + 1 = 1
      BY <1>5, <2>2, <3>1 DEF Good, Core, DiskOK
    <3> QED
      BY <3>1, <3>2
  <2>4. c.jobs = <<>> /\ ~c.interval /\ c.finalizing /\ ~c.failed
    BY <1>5, <2>2 DEF Good, Core, DiskOK
  <2>5. ~Active(c)
    BY <1>5, <2>4 DEF Good, Core, SourcesOK, Active
  <2>6. c.lost => c.final = "failed"
    BY <1>5, <2>4, <2>5 DEF Good, Core, DiskOK
  <2> QED
    BY <1>4, <2>3, <2>4, <2>6
<1>6. CASE Good(c)
  <2>1. Sound(x, y)
    BY <1>3, <1>5, <1>6, FinalizedSound DEF Sound, x
  <2> QED
    BY <1>3, <2>1, SoundTrans
<1>7. CASE ~Good(c)
  <2>1. Typed(y) /\ y.crossed = x.crossed
    BY <1>3, FinalizedTyped DEF Sound, x
  <2> QED
    BY <1>3, <1>7, <2>1 DEF Sound
<1> QED
  BY <1>6, <1>7

-----------------------------------------------------------------------------
\* The disk has failed

LEMMA OnDiskFailedSound ==
  ASSUME Typed(c), c.msgs # <<>>, Head(c.msgs).k = "disk-failed", OnDiskFailed(Popped(c))
  PROVE Sound(c, c')
<1> DEFINE x == Popped(c)
           y == [x EXCEPT !.final = "failed"]
           z == IF y.finalizing THEN Finalized(y, y.close.req, "failed") ELSE y
<1>1. c' = Autopause(z, "disk")
  BY DEF OnDiskFailed
<1>2. x.msgs = Tail(c.msgs) /\ Keeps(c, x, {"msgs"})
  BY PoppedFacts
<1> HIDE DEF x
<1>3. Keeps(x, y, {"final"}) /\ y.final = "failed"
  BY <1>2, FieldsAre DEF Keeps
<1> HIDE DEF y
<1>4. y.msgs = Tail(c.msgs) /\ Keeps(c, y, PopFields) /\ y.opening = c.opening
  BY <1>2, <1>3, FieldsAre DEF Keeps, PopFields
<1>5. PoppedFrom(c, y)
  BY <1>3, <1>4 DEF PoppedFrom, Ending
<1>6. Sound(c, y)
  BY <1>5, PopSound DEF Ending
<1>7. y.finalizing = c.finalizing /\ y.failed = c.failed /\ y.crossed = c.crossed
  BY <1>5, PopKept
<1>8. Sound(c, z)
  <2>1. CASE ~y.finalizing
    BY <1>6, <2>1
  <2>2. CASE y.finalizing
    <3>1. z = Finalized(y, y.close.req, "failed")
      BY <2>2
    <3>2. CASE Good(c)
      <4>0. Shifted(c, y)
        BY <1>4, ShiftFacts
      <4>1. 1 \in Of(c, "disk-failed") /\ Shifted(c, y)
        BY <4>0 DEF Shifted
      <4>2. ~Active(c)
        BY <1>7, <2>2, <3>2 DEF Good, Core, SourcesOK, Active
      <4>3. c.failed /\ Of(c, "finalized") = {}
        BY <3>2, <4>1, <4>2 DEF Good, Core, DiskOK
      <4>4. y.failed /\ Of(y, "finalized") = {}
        BY <1>7, <4>1, <4>3 DEF Shifted
      <4>5. "failed" # "succeeded"
        OBVIOUS
      <4>6. Sound(y, z)
        BY <1>6, <3>1, <4>4, <4>5, FinalizedSound DEF Sound
      <4> QED
        BY <1>6, <4>6, SoundTrans
    <3>3. CASE ~Good(c)
      <4>1. Typed(z) /\ z.crossed = y.crossed
        BY <1>6, <3>1, FinalizedTyped DEF Sound
      <4> QED
        BY <1>6, <3>3, <4>1 DEF Sound
    <3> QED
      BY <3>2, <3>3
  <2> QED
    BY <2>1, <2>2
<1> HIDE DEF z
<1>9. Typed(c') /\ Halting(z, c')
  <2>1. LET u == Autopause(z, "disk") IN Typed(u) /\ Halting(z, u)
    BY <1>8, AutopauseHalting DEF Sound
  <2> QED
    BY <1>1, <2>1
<1> QED
  BY <1>8, <1>9, HaltingSound, SoundTrans DEF Sound

-----------------------------------------------------------------------------
\* All is closed

ClosedFields == {"msgs", "close", "made", "finalizing", "track"}
\* What remains when the sources have been closed
ClosedFrom(x, v, m) ==
  /\ Keeps(x, v, ClosedFields) /\ v.msgs = Tail(x.msgs) /\ v.close = [on |-> FALSE, req |-> m.req] /\ v.made = {} /\ v.finalizing = TRUE
  /\ v.track = [t \in Tracks |-> IF t \in m.tracks /\ x.track[t] = "live"
                                 THEN IF x.state = "paused" THEN "paused" ELSE "ended" ELSE x.track[t]]
\* and there is nothing to be written but what the readers have kept
Over(v) == Good(v) /\ v.finalizing /\ Of(v, "finalized") = {} /\ \A i \in 1..Len(v.jobs) : v.jobs[i].k # "close"

LEMMA ClosedTyped ==
  ASSUME NEW x, NEW v, Typed(x), x.msgs # <<>>, ClosedFrom(x, v, Head(x.msgs))
  PROVE Typed(v) /\ v.crossed = x.crossed
<1>1. Shifted(x, v)
  BY ShiftFacts DEF ClosedFrom
<1>2. Head(x.msgs) \in MessageType /\ v.msgs \in Seq(MessageType)
  BY <1>1 DEF Shifted
<1>3. v.close \in CloseType
  BY <1>2 DEF CloseType, MessageType, ClosedFrom
<1>4. v.track \in [Tracks -> {"live", "paused", "ended"}]
  <2>1. x.track \in [Tracks -> {"live", "paused", "ended"}]
    BY DEF Typed, TypedRest
  <2> QED
    BY <2>1 DEF ClosedFrom
<1>5. TypedIn(v, ClosedFields)
  BY <1>2, <1>3, <1>4 DEF TypedIn, ClosedFields, ClosedFrom
<1> QED
  BY <1>5, KeepsTyped, FieldsAre DEF ClosedFrom, Keeps, ClosedFields

LEMMA ClosedOver ==
  ASSUME NEW x, NEW v, Typed(x), x.msgs # <<>>, Head(x.msgs).k = "closed", ClosedFrom(x, v, Head(x.msgs)), Good(x)
  PROVE Over(v)
<1> DEFINE m == Head(x.msgs)
<1>1. Shifted(x, v)
  BY ShiftFacts DEF ClosedFrom
<1>2. /\ v.opener = x.opener /\ v.opening = x.opening /\ v.request = x.request /\ v.state = x.state /\ v.reader = x.reader
      /\ v.gone = x.gone /\ v.closer = x.closer /\ v.live = x.live /\ v.failed = x.failed /\ v.quiet = x.quiet
      /\ v.shutdown = x.shutdown /\ v.lost = x.lost /\ v.final = x.final /\ v.jobs = x.jobs /\ v.interval = x.interval
      /\ v.lied = x.lied /\ v.needs = x.needs /\ v.manual = x.manual /\ v.terminal = x.terminal /\ v.news = x.news
      /\ v.epoch = x.epoch /\ v.recovery = x.recovery /\ v.gui = x.gui /\ v.cmd = x.cmd /\ v.leaseTracks = x.leaseTracks
      /\ v.since = x.since /\ v.terminating = x.terminating
  BY FieldsAre DEF ClosedFrom, Keeps, ClosedFields
<1>3. Core(x)
  BY DEF Good
<1>4. 1 \in Of(x, "closed") /\ x.msgs[1] = m
  BY <1>1 DEF Shifted
<1>5. x.close.on /\ x.closer.pc = "idle" /\ Idle(x) /\ x.live = {} /\ Still(x) /\ m.tracks = TracksOf(x.made) /\ ~x.finalizing
  BY <1>3, <1>4 DEF Core, ClosingOK, SourcesOK
<1>6. \A i \in 1..Len(v.msgs) : /\ v.msgs[i].k \notin {"opened", "open-failed", "track-ended", "closed"}
                                /\ v.msgs[i].k = "disk-failed" => x.failed
  <2> SUFFICES ASSUME NEW i \in 1..Len(v.msgs)
               PROVE /\ v.msgs[i].k \notin {"opened", "open-failed", "track-ended", "closed"}
                     /\ v.msgs[i].k = "disk-failed" => x.failed
    OBVIOUS
  <2>1. i + 1 \in 1..Len(x.msgs) /\ i + 1 > 1 /\ i + 1 # 1 /\ v.msgs[i] = x.msgs[i + 1]
    BY <1>1 DEF Shifted
  <2>2. /\ x.msgs[i + 1].k \notin {"opened", "open-failed", "track-ended"}
        /\ x.msgs[i + 1].k = "disk-failed" => x.failed
    BY <1>3, <1>4, <2>1 DEF Core, ClosingOK
  <2>3. i + 1 \notin Of(x, "closed")
    BY <1>3, <1>4, <2>1 DEF Core, ClosingOK
  <2>4. x.msgs[i + 1].k # "closed"
    BY <2>1, <2>3 DEF Of
  <2> QED
    BY <2>1, <2>2, <2>4
<1>7. /\ Of(v, "opened") = {} /\ Of(v, "open-failed") = {} /\ Of(v, "track-ended") = {} /\ Of(v, "closed") = {}
      /\ Of(v, "disk-failed") # {} => x.failed
  BY <1>6 DEF Of
<1>8. Of(v, "finalized") = {}
  BY <1>1, <1>3, <1>5 DEF Core, DiskOK, Shifted
<1>9. Of(x, "disk-failed") # {} => Of(v, "disk-failed") # {}
  BY <1>1 DEF Shifted
<1>10. ~x.opening
  <2>1. Of(x, "opened") = {} /\ Of(x, "open-failed") = {}
    BY <1>1, <1>7 DEF Shifted
  <2> QED
    BY <1>3, <1>5, <2>1 DEF Core, OpeningOK, Ends
<1>11. Idle(v) /\ Still(v) /\ ~v.opening /\ v.live = {} /\ v.made = {} /\ v.finalizing /\ ~v.close.on /\ v.opener.pc = "idle"
  BY <1>2, <1>5, <1>10 DEF Idle, Still, Running, ClosedFrom
<1>12. OpeningOK(v)
  BY <1>7, <1>11 DEF OpeningOK, Ends
<1>13. ClosingOK(v)
  BY <1>2, <1>5, <1>7, <1>11 DEF ClosingOK
<1>14. \A t \in Tracks : v.track[t] # "live"
  <2> SUFFICES ASSUME NEW t \in Tracks PROVE v.track[t] # "live"
    OBVIOUS
  <2>1. x.track[t] = "live" => t \in m.tracks
    BY <1>3, <1>5 DEF Core, SourcesOK
  <2> QED
    BY <2>1 DEF ClosedFrom
<1>15. SourcesOK(v)
  BY <1>2, <1>3, <1>5, <1>11, <1>14 DEF Core, SourcesOK, Still
<1>16. \A i \in 1..Len(x.jobs) : x.jobs[i].k # "close"
  BY <1>3, <1>5 DEF Core, DiskOK
<1>17. DiskOK(v)
  <2>1. DiskOK(x)
    BY <1>3 DEF Core
  <2>2. \A k : First(v, k) <=> First(x, k)
    BY <1>2 DEF First
  <2>3. /\ v.lost => v.final = "failed" \/ Of(v, "disk-failed") # {}
        /\ Of(v, "disk-failed") # {} => v.failed
        /\ ~v.lied
    BY <1>2, <1>7, <1>9, <2>1 DEF DiskOK
  <2>4. /\ \A i \in 1..Len(v.jobs) :
             /\ v.jobs[i].k = "open" => i = 1 /\ ~v.interval
             /\ v.jobs[i].k = "close" => i = Len(v.jobs) /\ v.finalizing
        /\ First(v, "pcm") => v.interval
        /\ v.failed => v.jobs = <<>>
    BY <1>2, <1>16, <2>1, <2>2 DEF DiskOK
  <2> QED
    BY <1>8, <1>11, <2>3, <2>4 DEF DiskOK
<1>18. AdmissionOK(v)
  <2>1. AdmissionOK(x)
    BY <1>3 DEF Core, ClicksOK
  <2> QED
    BY <1>2, <1>7, <1>11, <2>1 DEF AdmissionOK, Barred
<1>19. GoneOK(v)
  <2> SUFFICES ASSUME NEW t \in v.gone PROVE Barred(v) \/ (t \notin v.leaseTracks /\ v.track[t] # "live")
    BY DEF GoneOK
  <2>1. t \in Tracks /\ t \in x.gone
    BY <1>2 DEF Typed, TypedRest
  <2>2. Of(x, "track-ended") = {}
    BY <1>1, <1>7 DEF Shifted
  <2>3. Barred(x) \/ t \notin x.leaseTracks
    BY <1>3, <2>1, <2>2 DEF Core, ClicksOK, GoneOK
  <2> QED
    BY <1>2, <1>14, <2>1, <2>3 DEF Barred
<1>20. Meant(v) /\ GuiOK(v)
  BY <1>2, <1>11 DEF Good, Meant, GuiOK
<1> QED
  BY <1>2, <1>8, <1>11, <1>12, <1>13, <1>15, <1>16, <1>17, <1>18, <1>19, <1>20 DEF Over, Good, Core, ClicksOK

\* The store is told to end
LEMMA CloseJobSound ==
  ASSUME NEW x, NEW y, Typed(x), NEW j \in JobType, j.k = "close", Keeps(x, y, {"jobs"}), y.jobs = Append(x.jobs, j), ~x.failed,
         Good(x) /\ ~x.crossed => Over(x)
  PROVE Sound(x, y)
<1>0. x.jobs \in Seq(JobType)
  BY DEF Typed, TypedRest
<1>1. /\ y.jobs \in Seq(JobType) /\ y.jobs # <<>>
      /\ Len(y.jobs) = Len(x.jobs) + 1 /\ Len(x.jobs) \in Nat
      /\ \A i \in 1..Len(x.jobs) : y.jobs[i] = x.jobs[i]
      /\ y.jobs[Len(x.jobs) + 1] = j
      /\ x.jobs # <<>> => Len(x.jobs) # 0 /\ \A k : First(y, k) <=> First(x, k)
      /\ x.jobs = <<>> => Len(x.jobs) = 0 /\ \A k : First(y, k) <=> j.k = k
  BY <1>0, JobFacts
<1>2. Typed(y)
  <2>1. TypedIn(y, {"jobs"})
    BY <1>1 DEF TypedIn
  <2> QED
    BY <2>1, KeepsTyped
<1>3. /\ y.crossed = x.crossed /\ y.made = x.made /\ y.state = x.state /\ y.close = x.close /\ y.opening = x.opening
      /\ y.gui = x.gui /\ y.cmd = x.cmd /\ y.terminating = x.terminating /\ y.finalizing = x.finalizing
      /\ y.lost = x.lost /\ y.final = x.final /\ y.msgs = x.msgs /\ y.failed = x.failed /\ y.interval = x.interval
      /\ y.reader = x.reader /\ y.lied = x.lied
  BY FieldsAre DEF Keeps
<1>4. ASSUME Good(x), ~x.crossed PROVE Good(y)
  <2>1. Over(x) /\ Core(x)
    BY <1>4 DEF Good
  <2>2. {"jobs"} \cap OpeningFields = {} /\ {"jobs"} \cap ClosingFields = {} /\ {"jobs"} \cap SourcesFields = {}
        /\ {"jobs"} \cap ClicksFields = {}
    BY DEF OpeningFields, ClosingFields, SourcesFields, ClicksFields
  <2>3. OpeningOK(y) /\ ClosingOK(y) /\ SourcesOK(y) /\ ClicksOK(y)
    BY <2>1, <2>2, OpeningFrame, ClosingFrame, SourcesFrame, ClicksFrame DEF Core
  <2>4. (\A k : Of(y, k) = Of(x, k)) /\ (Active(y) <=> Active(x)) /\ (Still(y) <=> Still(x))
    BY <1>3 DEF Of, Active, Still, Running
  <2>5. DiskOK(x)
    BY <2>1 DEF Core
  <2>6. First(y, "pcm") => y.interval
    BY <1>1, <1>3, <2>5 DEF DiskOK
  <2>7. y.failed \/ y.interval \/ First(x, "open") => y.failed \/ y.interval \/ First(y, "open")
    <3>1. First(x, "open") => x.jobs # <<>>
      BY DEF First
    <3> QED
      BY <1>1, <3>1
  <2>8. \A i \in 1..Len(y.jobs) :
       /\ y.jobs[i].k = "open" => i = 1 /\ ~y.interval
       /\ y.jobs[i].k = "close" => i = Len(y.jobs) /\ y.finalizing
    <3> SUFFICES ASSUME NEW i \in 1..Len(y.jobs)
                 PROVE /\ y.jobs[i].k = "open" => i = 1 /\ ~y.interval
                       /\ y.jobs[i].k = "close" => i = Len(y.jobs) /\ y.finalizing
      OBVIOUS
    <3>1. CASE i = Len(x.jobs) + 1
      BY <1>1, <1>3, <2>1, <3>1 DEF Over
    <3>2. CASE i # Len(x.jobs) + 1
      <4>1. i \in 1..Len(x.jobs) /\ y.jobs[i] = x.jobs[i]
        BY <1>1, <3>2
      <4>2. x.jobs[i].k # "close" /\ (x.jobs[i].k = "open" => i = 1 /\ ~x.interval)
        BY <2>1, <2>5, <4>1 DEF Over, DiskOK
      <4> QED
        BY <1>3, <4>1, <4>2
    <3> QED
      BY <3>1, <3>2
  <2>9. /\ y.lost => y.final = "failed" \/ Of(y, "disk-failed") # {}
        /\ Of(y, "disk-failed") # {} => y.failed \/ Active(y)
        /\ Of(y, "finalized") = {} /\ y.finalizing /\ ~y.failed /\ ~y.lied
        /\ ~Still(y) => y.failed \/ y.interval \/ First(x, "open")
    BY <1>3, <2>1, <2>4, <2>5 DEF DiskOK, Over
  <2>10. DiskOK(y)
    BY <2>6, <2>7, <2>8, <2>9 DEF DiskOK
  <2> QED
    BY <1>3, <2>1, <2>3, <2>10 DEF Over, Good, Core, Meant, GuiOK, Active
<1> QED
  BY <1>2, <1>3, <1>4 DEF Sound

LEMMA FinalSound ==
  ASSUME NEW x, NEW y, Typed(x), Keeps(x, y, {"final"}), y.final = "failed"
  PROVE Sound(x, y)
<1>1. Typed(y)
  <2>1. TypedIn(y, {"final"})
    BY DEF TypedIn
  <2> QED
    BY <2>1, KeepsTyped
<1>2. /\ y.crossed = x.crossed /\ y.made = x.made /\ y.state = x.state /\ y.close = x.close /\ y.opening = x.opening
      /\ y.gui = x.gui /\ y.cmd = x.cmd /\ y.terminating = x.terminating /\ y.finalizing = x.finalizing
      /\ y.lost = x.lost /\ y.jobs = x.jobs /\ y.msgs = x.msgs /\ y.failed = x.failed /\ y.interval = x.interval
      /\ y.reader = x.reader /\ y.lied = x.lied
  BY FieldsAre DEF Keeps
<1>3. Core(x) => Core(y)
  <2>1. {"final"} \cap OpeningFields = {} /\ {"final"} \cap ClosingFields = {} /\ {"final"} \cap SourcesFields = {}
        /\ {"final"} \cap ClicksFields = {}
    BY DEF OpeningFields, ClosingFields, SourcesFields, ClicksFields
  <2>2. Core(x) => OpeningOK(y) /\ ClosingOK(y) /\ SourcesOK(y) /\ ClicksOK(y)
    BY <2>1, OpeningFrame, ClosingFrame, SourcesFrame, ClicksFrame DEF Core
  <2>3. Core(x) => DiskOK(y)
    BY <1>2 DEF Core, DiskOK, Of, Active, First, Still, Running
  <2> QED
    BY <2>2, <2>3 DEF Core
<1> QED
  BY <1>1, <1>2, <1>3, GoodParts DEF Good

LEMMA OnClosedSound ==
  ASSUME Typed(c), c.msgs # <<>>, Head(c.msgs).k = "closed", OnClosed(Popped(c), Head(c.msgs))
  PROVE Sound(c, c')
<1> DEFINE m == Head(c.msgs)
           x == Popped(c)
           v == [x EXCEPT !.close = [on |-> FALSE, req |-> m.req], !.made = {}, !.finalizing = TRUE,
                          !.track = [t \in Tracks |-> IF t \in m.tracks /\ @[t] = "live"
                                                      THEN IF x.state = "paused" THEN "paused" ELSE "ended" ELSE @[t]]]
           y == TellClosed(v)
           w == [y EXCEPT !.final = "failed"]
           j == [Job("close") EXCEPT !.req = m.req]
<1>1. c' = IF y.failed THEN Finalized(w, m.req, "failed") ELSE Put(y, j)
  BY DEF OnClosed
<1>2. x.msgs = Tail(c.msgs) /\ Keeps(c, x, {"msgs"})
  BY PoppedFacts
<1>3. Shifted(c, x)
  BY <1>2, ShiftFacts
<1>4. m \in MessageType
  BY <1>3 DEF Shifted
<1> HIDE DEF x
<1>5. /\ Keeps(x, v, {"close", "made", "finalizing", "track"}) /\ v.close = [on |-> FALSE, req |-> m.req] /\ v.made = {} /\ v.finalizing = TRUE
      /\ v.track = [t \in Tracks |-> IF t \in m.tracks /\ x.track[t] = "live"
                                     THEN IF x.state = "paused" THEN "paused" ELSE "ended" ELSE x.track[t]]
  BY <1>2, FieldsAre DEF Keeps
<1> HIDE DEF v
<1>6. x.track = c.track /\ x.state = c.state
  BY <1>2, FieldsAre DEF Keeps
<1>7. Keeps(c, v, ClosedFields) /\ v.msgs = Tail(c.msgs)
  BY <1>2, <1>5, FieldsAre DEF Keeps, ClosedFields
<1>8. ClosedFrom(c, v, m)
  BY <1>5, <1>6, <1>7 DEF ClosedFrom
<1>9. Typed(v) /\ v.crossed = c.crossed /\ (Good(c) => Over(v))
  <2> HIDE DEF m
  <2> QED
    BY <1>8, ClosedTyped, ClosedOver DEF m
<1> HIDE DEF m
<1>10. Core(v) /\ Meant(v) => v.made = {} /\ ~v.opening
  BY <1>5 DEF Core, OpeningOK
<1>11. Sound(v, y) /\ y.failed = v.failed /\ y.crossed = v.crossed /\ y.msgs = v.msgs
  BY <1>9, <1>10, TellClosedSound
<1>12. y.jobs = v.jobs /\ y.finalizing = v.finalizing
  BY <1>9, FieldsAre DEF TellClosed, Heard, Typed, TypedControl
<1> HIDE DEF y
<1>13. Sound(c, y)
  BY <1>9, <1>11 DEF Sound, Over
<1>14. CASE y.failed
  <2>1. Keeps(y, w, {"final"}) /\ w.final = "failed"
    BY <1>11, FieldsAre DEF Keeps, Sound, Typed, TypedControl
  <2> HIDE DEF w
  <2>2. Sound(y, w)
    BY <1>11, <2>1, FinalSound DEF Sound
  <2>3. w.failed
    BY <1>14, <2>1, FieldsAre DEF Keeps
  <2>4. Good(w) => w.failed /\ Of(w, "finalized") = {}
    BY <2>3 DEF Good, Core, DiskOK
  <2>5. "failed" # "succeeded"
    OBVIOUS
  <2>6. Sound(w, c')
    BY <1>1, <1>14, <2>2, <2>4, <2>5, FinalizedSound DEF Sound
  <2> QED
    BY <1>13, <2>2, <2>6, SoundTrans
<1>15. CASE ~y.failed
  <2>1. c' = [y EXCEPT !.jobs = Append(@, j)]
    BY <1>1, <1>15 DEF Put
  <2>2. j \in JobType /\ j.k = "close"
    <3>1. Job("close") \in JobType /\ Job("close").k = "close" /\ m.req \in Kinds \cup {None}
      BY <1>4, JobTyped DEF MessageType
    <3> QED
      BY <3>1 DEF JobType
  <2> HIDE DEF j
  <2>3. Keeps(y, c', {"jobs"}) /\ c'.jobs = Append(y.jobs, j)
    BY <1>11, <2>1, FieldsAre DEF Keeps, Sound, Typed, TypedControl
  <2>4. CASE Good(c) /\ ~c.crossed
    <3>1. Good(y) /\ ~y.crossed
      BY <1>9, <1>11, <1>13, <2>4 DEF Sound
    <3>2. Of(y, "finalized") = Of(v, "finalized")
      BY <1>11 DEF Of
    <3>3. Over(y)
      BY <1>9, <1>12, <2>4, <3>1, <3>2 DEF Over
    <3>4. Sound(y, c')
      BY <1>15, <1>11, <2>2, <2>3, <3>3, CloseJobSound DEF Sound
    <3> QED
      BY <1>13, <3>4, SoundTrans
  <2>5. CASE ~(Good(c) /\ ~c.crossed)
    <3>1. Typed(c')
      <4>1. y.jobs \in Seq(JobType)
        BY <1>11 DEF Sound, Typed, TypedRest
      <4>2. TypedIn(c', {"jobs"})
        BY <2>2, <2>3, <4>1, AppendProperties DEF TypedIn
      <4> QED
        BY <1>11, <2>3, <4>2, KeepsTyped DEF Sound
    <3>2. c'.crossed = c.crossed
      BY <1>9, <1>11, <2>3, FieldsAre DEF Keeps
    <3> QED
      BY <2>5, <3>1, <3>2 DEF Sound
  <2> QED
    BY <2>4, <2>5
<1> QED
  BY <1>14, <1>15

-----------------------------------------------------------------------------
LEMMA PollSound == ASSUME Typed(c), Poll PROVE Sound(c, c')
<1> DEFINE m == Head(c.msgs)
           x == [c EXCEPT !.msgs = Tail(@)]
<1>1. c.msgs # <<>>
  BY DEF Poll
<1>2. x = Popped(c)
  BY DEF Popped
<1>3. m.k \in Told
  <2>1. x.msgs = Tail(c.msgs)
    BY <1>1, <1>2, PoppedFacts
  <2>2. Shifted(c, x)
    BY <1>1, <2>1, ShiftFacts
  <2> QED
    BY <2>2 DEF Shifted, MessageType
<1>4. (CASE m.k = "opened" -> OnOpened(x)
          [] m.k = "open-failed" -> OnOpenFailed(x, m.code)
          [] m.k = "closed" -> OnClosed(x, m)
          [] m.k = "finalized" -> c' = Finalized(x, m.req, x.final)
          [] m.k = "track-ended" -> \E t \in m.tracks : OnTrackEnded(x, t, m.code)
          [] m.k = "disk-failed" -> OnDiskFailed(x)
          [] m.k = "audio-failed" -> c' = Autopause(x, "audio_failed")
          [] m.k = "disk-low" -> c' = Autopause(x, "disk"))
  BY DEF Poll
<1> HIDE DEF x
<1>5. CASE m.k = "opened"
  BY <1>1, <1>2, <1>4, <1>5, OnOpenedSound
<1>6. CASE m.k = "open-failed"
  BY <1>1, <1>2, <1>4, <1>6, OnOpenFailedSound
<1>7. CASE m.k = "closed"
  BY <1>1, <1>2, <1>4, <1>7, OnClosedSound
<1>8. CASE m.k = "finalized"
  BY <1>1, <1>2, <1>4, <1>8, OnFinalizedSound
<1>9. CASE m.k = "track-ended"
  BY <1>1, <1>2, <1>4, <1>9, OnTrackEndedSound
<1>10. CASE m.k = "disk-failed"
  BY <1>1, <1>2, <1>4, <1>10, OnDiskFailedSound
<1>11. CASE m.k \in {"audio-failed", "disk-low"}
  BY <1>1, <1>2, <1>4, <1>11, OnFailureSound
<1> QED
  BY <1>3, <1>5, <1>6, <1>7, <1>8, <1>9, <1>10, <1>11 DEF Told

-----------------------------------------------------------------------------
\* Every step

LEMMA NextSound == ASSUME Typed(c), Next PROVE Sound(c, c')
<1>1. CASE Threads
  <2>1. CASE OpenSource \/ OpenCheck \/ CloserFinds \/ CloserEnds \/ Store
    BY <2>1, OpenSourceSound, OpenCheckSound, CloserFindsSound, CloserEndsSound, StoreSound
  <2>2. ASSUME NEW s \in c.closer.has, CloserShuts(s) PROVE Sound(c, c')
    BY <2>2, CloserShutsSound
  <2>3. ASSUME NEW t \in Tracks, ReaderStops(t) \/ Keep(t) PROVE Sound(c, c')
    BY <2>3, ReaderStopsSound, KeepSound
  <2> QED
    BY <1>1, <2>1, <2>2, <2>3 DEF Threads
<1>2. CASE Control
  BY <1>2, PollSound, PollByeSound, ExitActionSound DEF Control, Leave
<1>3. CASE PollSession \/ PollResume \/ PollLease \/ PollLimit \/ PollAlive
  BY <1>3, PollSessionSound, PollResumeSound, PollLeaseSound, PollLimitSound, PollAliveSound
<1>4. CASE Overdue \/ Kill
  BY <1>4, ExitActionSound DEF Overdue, Kill
<1>5. CASE OpenFails \/ StoreFails
  BY <1>5, OpenFailsSound, StoreFailsSound
<1>6. ASSUME NEW t \in Tracks, Read(t) \/ SourceEnds(t) \/ ReaderFails(t) PROVE Sound(c, c')
  BY <1>6, ReadSound, SourceEndsSound, ReaderFailsSound
<1>7. CASE HandleOpen \/ HandleKeepalive \/ HandlePause \/ HandleStop \/ HandleShutdown
  BY <1>7, HandleOpenSound, HandleKeepaliveSound, HandlePauseSound, HandleStopSound, HandleShutdownSound
<1>8. CASE ClickPause \/ ClickResume \/ ClickStop \/ Show \/ Beat \/ Shutdown
  BY <1>8, ClickPauseSound, ClickResumeSound, ClickStopSound, ShowSound, BeatSound, ShutdownSound
<1>9. CASE Block \/ Unblock \/ HourPasses \/ LeaseEnds \/ DiskLow \/ Cut
  BY <1>9, BlockSound, UnblockSound, HourPassesSound, LeaseEndsSound, DiskLowSound, CutSound
<1> QED
  BY <1>1, <1>2, <1>3, <1>4, <1>5, <1>6, <1>7, <1>8, <1>9 DEF Next

\* What remains of the bounds
LeftType == [far : BOOLEAN, ops : Nat, blocks : Nat, troubles : Nat, sound : Nat, all : Nat]
LEMMA LeftTyped == ASSUME left \in LeftType, Next PROVE left' \in LeftType
<1>1. left.ops \in Nat /\ left.blocks \in Nat /\ left.troubles \in Nat /\ left.sound \in Nat /\ left.all \in Nat
  BY DEF LeftType
<1>2. ASSUME NEW n \in Nat, n > 0 PROVE n - 1 \in Nat
  BY <1>2
<1>3. UNCHANGED left => left' \in LeftType
  OBVIOUS
<1>4. Can /\ Spend => left' \in LeftType
  BY <1>1, <1>2 DEF Can, Spend, LeftType
<1>5. CanClick /\ Click => left' \in LeftType
  BY <1>1, <1>2 DEF CanClick, Click, LeftType
<1>6. CanBlock /\ Turn => left' \in LeftType
  BY <1>1, <1>2 DEF CanBlock, Turn, LeftType
<1>7. ASSUME NEW t, Read(t) PROVE left' \in LeftType
  BY <1>1, <1>2, <1>7 DEF Read, LeftType
<1> HIDE DEF LeftType
<1>8. CASE Threads
  <2>1. UNCHANGED left
    BY <1>8 DEF Threads, OpenSource, OpenCheck, CloserFinds, CloserShuts, CloserEnds, ReaderStops, Keep, Store
  <2> QED
    BY <1>3, <2>1
<1>9. CASE Control \/ Overdue \/ Kill
  BY <1>3, <1>9 DEF Control, Poll, PollBye, Leave, Overdue, Kill, Exit
<1>10. CASE PollSession \/ PollResume \/ PollLease \/ PollAlive
  BY <1>3, <1>10 DEF PollSession, PollResume, PollLease, PollAlive
<1>11. CASE PollLimit \/ OpenFails \/ StoreFails
  BY <1>4, <1>11 DEF PollLimit, OpenFails, StoreFails
<1>12. ASSUME NEW t, SourceEnds(t) \/ ReaderFails(t) PROVE left' \in LeftType
  BY <1>4, <1>12 DEF SourceEnds, ReaderFails
<1>13. CASE HandleOpen \/ HandleKeepalive \/ HandlePause \/ HandleStop \/ HandleShutdown
  BY <1>3, <1>13 DEF HandleOpen, HandleKeepalive, HandlePause, HandleStop, HandleShutdown
<1>14. CASE ClickPause \/ ClickResume \/ ClickStop \/ Show
  BY <1>5, <1>14 DEF ClickPause, ClickResume, ClickStop, Show
<1>15. CASE Beat \/ Shutdown \/ Unblock
  BY <1>3, <1>15 DEF Beat, Shutdown, Unblock
<1>16. CASE Block
  BY <1>6, <1>16 DEF Block
<1>17. CASE HourPasses \/ LeaseEnds \/ DiskLow \/ Cut
  BY <1>4, <1>17 DEF HourPasses, LeaseEnds, DiskLow, Cut
<1> QED
  BY <1>7, <1>8, <1>9, <1>10, <1>11, <1>12, <1>13, <1>14, <1>15, <1>16, <1>17 DEF Next

-----------------------------------------------------------------------------
\* The inductive invariant
IInv == Typed(c) /\ left \in LeftType /\ (Uncrossed => Good(c))

LEMMA IInvInit == ASSUME Init PROVE IInv
<1>1. c = Prepared /\ left \in Limits
  BY DEF Init
<1>2. Typed(c) /\ Good(c)
  BY <1>1, FreshTyped, FreshGood
<1>3. left \in LeftType
  BY <1>1, LimitsAssumption DEF LeftType
<1> QED
  BY <1>2, <1>3 DEF IInv

LEMMA IInvNext == ASSUME IInv, [Next]_vars PROVE IInv'
<1>1. CASE Next
  <2>1. Sound(c, c')
    BY <1>1, NextSound DEF IInv
  <2>2. left' \in LeftType
    BY <1>1, LeftTyped DEF IInv
  <2>3. Typed(c') /\ (~c'.crossed => Good(c'))
    BY <2>1 DEF IInv, Sound, Uncrossed
  <2> QED
    BY <2>2, <2>3 DEF IInv, Uncrossed, LeftType, Typed, TypedControl, TypedRest, Good, Core, Meant, GuiOK
<1>2. CASE UNCHANGED vars
  <2>1. c' = c /\ left' = left
    BY <1>2 DEF vars
  <2> QED
    BY <2>1 DEF IInv, Uncrossed
<1> QED
  BY <1>1, <1>2

\* Every reachable state is typed, and good until a resume is accepted while a close is pending
\* (MeetingCaptureState.handle, meeting_capture.py): after that the report of the old close ends the new recording
THEOREM InductiveInvariant == Spec => []IInv
<1>1. Init => IInv
  BY IInvInit
<1>2. IInv /\ [Next]_vars => IInv'
  BY IInvNext
<1> QED
  BY <1>1, <1>2, PTL DEF Spec

LEMMA IInvTypeOK == ASSUME IInv PROVE TypeOK
<1>1. Typed(c) /\ left \in LeftType
  BY DEF IInv
<1>2. /\ c.state \in {"prepared", "recording", "paused", "stopped"} /\ c.since \in {"none", "paused", "hour"}
      /\ c.reasons \subseteq PauseReasons /\ c.waiters \cup c.owed \subseteq Kinds
      /\ c.leaseTracks \cup c.gone \subseteq Tracks /\ c.track \in [Tracks -> {"live", "paused", "ended"}]
  BY <1>1 DEF Typed, TypedControl, TypedRest
<1>3. c.made \cup c.live \cup c.closer.has \subseteq Tracks \X BOOLEAN /\ c.closer.pc \in {"idle", "join", "shut"}
  BY <1>1 DEF Typed, TypedControl, TypedRest, CloserType, Sources
<1>4. /\ c.opener \in [pc : {"idle", "open", "check"}, todo : SUBSET Tracks, stop : BOOLEAN]
      /\ c.reader \in [Tracks -> [pc : {"none", "run", "has"}, stop : BOOLEAN]]
      /\ c.close.req \in Kinds \cup {None} /\ c.final \in {"succeeded", "failed"}
  BY <1>1 DEF Typed, TypedControl, TypedRest, OpenerType, ReaderType, CloseType
<1>5. c.reason \in {None, "lock", "gone"} /\ c.news \in Seq({"lock", "gone"}) /\ c.epoch \in Nat
  BY <1>1 DEF Typed, TypedControl, TypedRest
<1>6. \A i \in 1..Len(c.msgs) : c.msgs[i].k \in Told
  <2>1. c.msgs \in Seq(MessageType)
    BY <1>1 DEF Typed, TypedRest
  <2> QED
    BY <2>1, ElementOfSeq DEF MessageType
<1>7. \A i \in 1..Len(c.jobs) : c.jobs[i].k \in {"open", "close", "pcm"} /\ c.jobs[i].req \in Kinds \cup {None}
  <2>1. c.jobs \in Seq(JobType)
    BY <1>1 DEF Typed, TypedRest
  <2>2. \A i \in 1..Len(c.jobs) : c.jobs[i] \in JobType
    BY <2>1, ElementOfSeq
  <2> HIDE DEF JobType
  <2>3. ASSUME NEW j \in JobType PROVE j.k \in {"open", "close", "pcm"} /\ j.req \in Kinds \cup {None}
    BY DEF JobType
  <2> QED
    BY <2>2, <2>3
<1>8. c.gui.st \in {"opening", "recording", "paused", "stopping", "stopped"} /\ c.cmd.k \in Commands \cup {None}
  BY <1>1 DEF Typed, TypedControl, GuiType, CommandType, Phases
<1> QED
  BY <1>1, <1>2, <1>3, <1>4, <1>5, <1>6, <1>7, <1>8 DEF TypeOK, LeftType

LEMMA HonestJournal == ASSUME NEW x, x = c, Typed(x), DiskOK(x) PROVE JournalInOrder
<1> DEFINE Edges(i) == {n \in 1..(i - 1) : c.jobs[n].k # "pcm"}
           InInterval(i) ==
             IF Edges(i) = {} THEN c.interval ELSE c.jobs[CHOOSE n \in Edges(i) : \A m \in Edges(i) : m <= n].k = "open"
<1>0. c.jobs \in Seq(JobType) /\ Len(c.jobs) \in Nat
  BY LenProperties DEF Typed, TypedRest
<1>1. ASSUME NEW i \in 1..Len(c.jobs) PROVE c.jobs[i].k \in {"open", "close", "pcm"}
  <2>1. c.jobs[i] \in JobType
    BY <1>0, ElementOfSeq
  <2>2. ASSUME NEW j \in JobType PROVE j.k \in {"open", "close", "pcm"}
    BY DEF JobType
  <2> QED
    BY <2>1, <2>2
<1>2. ASSUME NEW i \in 1..Len(c.jobs), NEW n \in Edges(i) PROVE n = 1 /\ c.jobs[n].k = "open"
  <2>1. n \in 1..Len(c.jobs) /\ n # Len(c.jobs) /\ c.jobs[n].k # "pcm"
    BY <1>0
  <2>2. c.jobs[n].k = "open"
    BY <1>1, <2>1 DEF DiskOK
  <2> QED
    BY <2>1, <2>2 DEF DiskOK
<1>3. ASSUME NEW i \in 1..Len(c.jobs), Edges(i) # {} PROVE InInterval(i)
  <2>1. Edges(i) = {1}
    BY <1>2, <1>3
  <2> HIDE DEF Edges
  <2>2. (CHOOSE n \in Edges(i) : \A m \in Edges(i) : m <= n) \in Edges(i)
    <3>1. \A m \in Edges(i) : m <= 1
      BY <2>1
    <3> QED
      BY <2>1, <3>1
  <2> QED
    BY <1>2, <1>3, <2>2
<1>4. ASSUME NEW i \in 1..Len(c.jobs), c.jobs[i].k = "pcm" PROVE InInterval(i)
  <2>1. CASE Edges(i) = {}
    <3>1. 1 \in 1..Len(c.jobs) /\ c.jobs # <<>>
      BY <1>0, EmptySeq
    <3>2. c.jobs[1].k = "pcm"
      <4>1. CASE i = 1
        BY <1>4, <4>1
      <4>2. CASE i # 1
        <5>1. 1 \in 1..(i - 1)
          BY <1>0, <4>2
        <5> QED
          BY <2>1, <5>1
      <4> QED
        BY <4>1, <4>2
    <3>3. c.interval
      BY <3>1, <3>2 DEF DiskOK, First
    <3> QED
      BY <2>1, <3>3
  <2> QED
    BY <1>3, <2>1
<1>5. ASSUME NEW i \in 1..Len(c.jobs), c.jobs[i].k = "open" PROVE ~InInterval(i)
  <2>1. i = 1 /\ ~c.interval
    BY <1>5 DEF DiskOK
  <2>2. Edges(i) = {}
    BY <2>1
  <2> QED
    BY <2>1, <2>2
<1> QED
  <2> SUFFICES ASSUME NEW i \in 1..Len(c.jobs)
               PROVE CASE c.jobs[i].k = "pcm" -> InInterval(i)
                       [] c.jobs[i].k = "open" -> ~InInterval(i)
                       [] OTHER -> TRUE
    BY DEF JournalInOrder
  <2>1. c.jobs[i].k = "pcm" => InInterval(i)
    BY <1>4
  <2>2. c.jobs[i].k = "open" => ~InInterval(i)
    BY <1>5
  <2> HIDE DEF InInterval
  <2> QED
    BY <2>1, <2>2

LEMMA IInvHonest == ASSUME IInv, Uncrossed PROVE CaptureHonest
<1>1. Typed(c) /\ Core(c)
  BY DEF IInv, Good
<1>2. c.quiet => Quiet
  <2> SUFFICES ASSUME c.quiet PROVE Quiet
    OBVIOUS
  <2>1. c.made = {} /\ c.live = {}
    BY <1>1 DEF Core, SourcesOK
  <2>2. \A t \in Tracks : ~Running(c, t)
    BY <1>1, <2>1 DEF Core, SourcesOK, TracksOf
  <2> QED
    BY <2>1, <2>2 DEF Quiet
<1>3. LossTold
  BY <1>1 DEF LossTold, Core, DiskOK
<1>4. JournalInOrder
  BY <1>1, HonestJournal DEF Core
<1> QED
  BY <1>2, <1>3, <1>4 DEF CaptureHonest, ClosedUncrossed

\* Every field of the process that records, of its threads, queues and of the GUI keeps its type, for
\* any number of clicks, blocks of sound, failures and reports (MeetingCaptureState and its threads)
THEOREM CaptureTypeCorrect == Spec => []TypeOK
<1>1. IInv => TypeOK
  BY IInvTypeOK
<1> QED
  BY <1>1, InductiveInvariant, PTL

\* Until a resume crosses a close: where the GUI has been told that all is closed nothing is connected
\* and nobody reads, sound that was lost makes the result a failure or is about to, and the journal is
\* told of an interval before its sound and of one at a time (MeetingCaptureState.poll, _Archive)
THEOREM CaptureIsHonest == Spec => [](Uncrossed => CaptureHonest)
<1>1. IInv => (Uncrossed => CaptureHonest)
  BY IInvHonest
<1> QED
  BY <1>1, InductiveInvariant, PTL

-----------------------------------------------------------------------------
\* No method connects a source: only the thread that opens does

Tame(x, y) == DOMAIN y = Fields /\ y.live \subseteq x.live

LEMMA TameTrans == ASSUME NEW x, NEW y, NEW z, Tame(x, y), Tame(y, z) PROVE Tame(x, z)
BY DEF Tame
LEMMA TameTyped == ASSUME NEW x, Typed(x) PROVE DOMAIN x = Fields
BY DEF Typed, TypedControl
LEMMA TameHalting == ASSUME NEW x, NEW y, Typed(y), Halting(x, y) PROVE Tame(x, y)
BY DEF Tame, Typed, TypedControl, Halting, Slower, SameRest

LEMMA TameTold ==
  ASSUME NEW x, DOMAIN x = Fields
  PROVE /\ \A g : Tame(x, Heard(x, g))
        /\ Tame(x, TellStarted(x)) /\ Tame(x, TellClosed(x)) /\ Tame(x, TellAlive(x))
        /\ \A self : Tame(x, TellPaused(x, self))
        /\ \A kinds, status : Tame(x, TellFinalized(x, kinds, status))
        /\ \A cmd, code : Tame(x, TellRefused(x, cmd, code))
        /\ Tame(x, Answered(x))
<1>1. ASSUME NEW w, DOMAIN w = Fields, NEW g PROVE DOMAIN Heard(w, g) = Fields /\ Heard(w, g).live = w.live
  BY <1>1, FieldsAre DEF Heard
<1>2. Tame(x, TellStarted(x))
  BY <1>1 DEF Tame, TellStarted
<1>3. Tame(x, TellClosed(x))
  BY <1>1, FieldsAre DEF Tame, TellClosed
<1>4. Tame(x, TellAlive(x))
  <2> DEFINE w == [x EXCEPT !.due = FALSE]
  <2>1. DOMAIN w = Fields /\ w.live = x.live
    BY FieldsAre
  <2> HIDE DEF w
  <2>2. \E g : TellAlive(x) = Heard(w, g)
    BY DEF TellAlive, w
  <2> QED
    BY <1>1, <2>1, <2>2 DEF Tame
<1>5. ASSUME NEW self PROVE Tame(x, TellPaused(x, self))
  BY <1>1 DEF Tame, TellPaused
<1>6. ASSUME NEW kinds, NEW status PROVE Tame(x, TellFinalized(x, kinds, status))
  BY <1>1, FieldsAre DEF Tame, TellFinalized
<1>7. Tame(x, Exited(x))
  BY FieldsAre DEF Tame, Exited, Fields, Prepared
<1>8. ASSUME NEW cmd, NEW code PROVE Tame(x, TellRefused(x, cmd, code))
  <2>1. TellRefused(x, cmd, code) = x \/ (\E g : TellRefused(x, cmd, code) = Heard(x, g)) \/ TellRefused(x, cmd, code) = Exited(x)
    BY DEF TellRefused
  <2>2. Tame(x, x)
    BY DEF Tame
  <2> QED
    BY <1>1, <1>7, <2>1, <2>2 DEF Tame
<1>9. Tame(x, Answered(x))
  BY FieldsAre DEF Tame, Answered
<1> QED
  BY <1>1, <1>2, <1>3, <1>4, <1>5, <1>6, <1>8, <1>9 DEF Tame

LEMMA TameClose ==
  ASSUME NEW x, DOMAIN x = Fields
  PROVE /\ \A r : Tame(x, AddReason(x, r))
        /\ Tame(x, BeginPause(x)) /\ Tame(x, Revised(x))
        /\ \A r, req : Tame(x, Close(x, r, req))
<1>1. ASSUME NEW w, DOMAIN w = Fields, NEW r PROVE DOMAIN AddReason(w, r) = Fields /\ AddReason(w, r).live = w.live
  BY <1>1, FieldsAre DEF AddReason
<1>2. ASSUME NEW w, DOMAIN w = Fields PROVE DOMAIN BeginPause(w) = Fields /\ BeginPause(w).live = w.live
  BY <1>2, FieldsAre DEF BeginPause
<1>3. ASSUME NEW w, DOMAIN w = Fields PROVE DOMAIN Revised(w) = Fields /\ Revised(w).live = w.live
  BY <1>3, FieldsAre DEF Revised
<1>4. ASSUME NEW w, DOMAIN w = Fields, NEW req PROVE DOMAIN Shut(w, req) = Fields /\ Shut(w, req).live = w.live
  BY <1>3, <1>4, FieldsAre DEF Shut
<1>5. ASSUME NEW r, NEW req PROVE Tame(x, Close(x, r, req))
  <2> DEFINE tracks == IF r \in Soft /\ x.since = "none" THEN {t \in Tracks : x.track[t] = "live"} ELSE x.leaseTracks
             w == [x EXCEPT !.leaseTracks = tracks]
             y == AddReason(w, r)
             z == IF r \in Final THEN [y EXCEPT !.state = "stopped", !.auto = FALSE] ELSE y
             u == [Shut(z, req) EXCEPT !.state = "paused"]
  <2>1. DOMAIN w = Fields /\ w.live = x.live
    BY FieldsAre
  <2>2. Close(x, r, req) = CASE z.close.on -> z
       [] ~z.close.on /\ r \in Final -> Shut(z, req)
       [] OTHER -> BeginPause(u)
    BY DEF Close
  <2> HIDE DEF w
  <2>3. DOMAIN y = Fields /\ y.live = x.live
    BY <1>1, <2>1
  <2> HIDE DEF y
  <2>4. DOMAIN z = Fields /\ z.live = x.live
    BY <2>3, FieldsAre
  <2> HIDE DEF z
  <2>5. DOMAIN Shut(z, req) = Fields /\ Shut(z, req).live = x.live
    BY <1>4, <2>4
  <2>6. DOMAIN u = Fields /\ u.live = x.live
    BY <2>5, FieldsAre
  <2> HIDE DEF u
  <2>7. DOMAIN BeginPause(u) = Fields /\ BeginPause(u).live = x.live
    BY <1>2, <2>6
  <2>8. Close(x, r, req) \in {z, Shut(z, req), BeginPause(u)}
    BY <2>2
  <2> QED
    BY <2>4, <2>5, <2>7, <2>8 DEF Tame
<1> QED
  BY <1>1, <1>2, <1>3, <1>5 DEF Tame

LEMMA TameAutopause == ASSUME NEW x, Typed(x), NEW r PROVE Tame(x, Autopause(x, r))
<1> DEFINE y == Autopause(x, r)
<1>1. Typed(y) /\ Halting(x, y)
  BY AutopauseHalting
<1> QED
  BY <1>1, TameHalting

LEMMA TameTerminate == ASSUME NEW x, DOMAIN x = Fields PROVE Tame(x, Terminate(x))
<1> DEFINE y == [x EXCEPT !.terminating = TRUE]
           z == [y EXCEPT !.stopped = @ \/ ~x.finalizing]
<1>1. Terminate(x) \in {x, Close(y, "stop", None), z}
  BY DEF Terminate
<1>2. DOMAIN y = Fields /\ y.live = x.live
  BY FieldsAre
<1> HIDE DEF y
<1>3. DOMAIN z = Fields /\ z.live = y.live
  BY <1>2, FieldsAre
<1> HIDE DEF z
<1>4. Tame(y, Close(y, "stop", None))
  BY <1>2, TameClose
<1> QED
  BY <1>1, <1>2, <1>3, <1>4 DEF Tame

LEMMA TameResume == ASSUME NEW x, DOMAIN x = Fields PROVE (\A q : Tame(x, Open(x, q))) /\ Tame(x, AutoResume(x))
<1>1. ASSUME NEW w, DOMAIN w = Fields, NEW q PROVE DOMAIN Open(w, q) = Fields /\ Open(w, q).live = w.live
  BY <1>1, FieldsAre DEF Open
<1> DEFINE y == [x EXCEPT !.auto = FALSE]
           q == AutoRequest(x)
<1>2. AutoResume(x) \in {x, y, Open(y, q)}
  BY DEF AutoResume
<1>3. DOMAIN y = Fields /\ y.live = x.live
  BY FieldsAre
<1> HIDE DEF y, q
<1>4. Tame(x, AutoResume(x))
  BY <1>1, <1>2, <1>3 DEF Tame
<1> QED
  BY <1>1, <1>4 DEF Tame

LEMMA TameTaken == ASSUME Typed(c), NEW x, x = Taken PROVE Typed(x) /\ Tame(c, x)
<1>1. Typed(Drained(c)) /\ Halting(c, Drained(c))
  BY DrainedHalting
<1> DEFINE t == Expired(Drained(c))
<1>2. Typed(t) /\ Tame(c, t)
  BY <1>1, ExpiredHalting, TameHalting, TameTrans
<1>3. x = [t EXCEPT !.cmd = NoCommand]
  BY DEF Taken
<1> HIDE DEF t
<1>4. Tame(c, x)
  BY <1>2, <1>3, FieldsAre DEF Tame
<1>5. Keeps(t, x, {"cmd"}) /\ x.cmd = NoCommand
  BY <1>2, <1>3, FieldsAre DEF Tame, Keeps
<1>6. TypedIn(x, {"cmd"})
  BY <1>5, NoCommandTyped DEF TypedIn
<1> QED
  BY <1>2, <1>4, <1>5, <1>6, KeepsTyped

LEMMA TamePost == ASSUME NEW x, DOMAIN x = Fields PROVE \A m : Tame(x, Post(x, m))
BY FieldsAre DEF Tame, Post

LEMMA TameThreads == ASSUME Typed(c), Threads \/ OpenFails \/ StoreFails PROVE OpenSource \/ c'.live \subseteq c.live
<1>0. DOMAIN c = Fields
  BY TameTyped
<1>1. ASSUME NEW x, DOMAIN x = Fields, NEW m PROVE DOMAIN Post(x, m) = Fields /\ Post(x, m).live = x.live
  BY <1>1, FieldsAre DEF Post
<1>2. ASSUME NEW x, DOMAIN x = Fields, NEW m PROVE DOMAIN OpenerEnds(x, m) = Fields /\ OpenerEnds(x, m).live = x.live
  <2> DEFINE y == [x EXCEPT !.opener = NoOpener, !.closer.wait = FALSE]
  <2>1. DOMAIN y = Fields /\ y.live = x.live
    BY <1>2, FieldsAre
  <2>2. OpenerEnds(x, m) = Post(y, m)
    BY DEF OpenerEnds
  <2> HIDE DEF y
  <2> QED
    BY <1>1, <2>1, <2>2
<1>3. CASE OpenCheck
  <2> DEFINE rest == c.opener.todo \ {NextTrack}
             x == [c EXCEPT !.live = @ \ {NextSource}]
             y == [c EXCEPT !.opener.todo = rest, !.opener.pc = "open"]
  <2>1. c' = OpenFailed(x, "admission-stale") \/ c' = OpenerEnds(c, Message("opened")) \/ c' = y
    BY <1>3 DEF OpenCheck
  <2>2. DOMAIN x = Fields /\ x.live \subseteq c.live
    BY <1>0, FieldsAre
  <2>3. y.live = c.live
    BY <1>0, FieldsAre
  <2> HIDE DEF x, y
  <2>4. OpenFailed(x, "admission-stale").live = x.live
    BY <1>2, <2>2 DEF OpenFailed
  <2>5. OpenerEnds(c, Message("opened")).live = c.live
    BY <1>0, <1>2
  <2> QED
    BY <2>1, <2>2, <2>3, <2>4, <2>5
<1>4. CASE OpenFails
  BY <1>0, <1>2, <1>4 DEF OpenFails, OpenFailed
<1>5. CASE CloserFinds
  BY <1>0, <1>5, FieldsAre DEF CloserFinds
<1>6. ASSUME NEW s, CloserShuts(s) PROVE c'.live \subseteq c.live
  BY <1>0, <1>6, FieldsAre DEF CloserShuts
<1>7. CASE CloserEnds
  <2> DEFINE x == [c EXCEPT !.closer = NoCloser]
  <2>1. DOMAIN x = Fields /\ x.live = c.live
    BY <1>0, FieldsAre
  <2>2. \E m : c' = Post(x, m)
    BY <1>7 DEF CloserEnds
  <2> HIDE DEF x
  <2> QED
    BY <1>1, <2>1, <2>2
<1>8. ASSUME NEW t \in Tracks, ReaderStops(t) PROVE c'.live \subseteq c.live
  BY <1>0, <1>8, FieldsAre DEF ReaderStops
<1>9. ASSUME NEW t \in Tracks, Keep(t) PROVE c'.live \subseteq c.live
  <2> DEFINE x == [c EXCEPT !.reader[t] = NoReader, !.lost = TRUE]
             y == [c EXCEPT !.reader[t].pc = "run", !.jobs = Append(@, [Job("pcm") EXCEPT !.t = t])]
  <2>1. DOMAIN x = Fields /\ x.live = c.live /\ y.live = c.live
    BY <1>0, FieldsAre
  <2>2. c' = Post(x, Message("disk-failed")) \/ c' = y
    BY <1>9 DEF Keep
  <2> HIDE DEF x, y
  <2> QED
    BY <1>1, <2>1, <2>2
<1>10. CASE Store
  <2> DEFINE x == [c EXCEPT !.jobs = Tail(@)]
             y == [x EXCEPT !.interval = FALSE]
             z == [x EXCEPT !.interval = TRUE]
  <2>1. c' = z \/ (\E m : c' = Post(y, m)) \/ c' = x
    BY <1>10 DEF Store
  <2>2. DOMAIN x = Fields /\ x.live = c.live
    BY <1>0, FieldsAre
  <2> HIDE DEF x
  <2>3. DOMAIN y = Fields /\ y.live = c.live /\ z.live = c.live
    BY <2>2, FieldsAre
  <2> HIDE DEF y, z
  <2> QED
    BY <1>1, <2>1, <2>2, <2>3
<1>11. CASE StoreFails
  <2> DEFINE x == [c EXCEPT !.failed = TRUE, !.jobs = <<>>, !.lost = TRUE]
  <2>1. DOMAIN x = Fields /\ x.live = c.live
    BY <1>0, FieldsAre
  <2>2. c' = Post(x, Message("disk-failed"))
    BY <1>11 DEF StoreFails
  <2> HIDE DEF x
  <2> QED
    BY <1>1, <2>1, <2>2
<1> QED
  BY <1>3, <1>4, <1>5, <1>6, <1>7, <1>8, <1>9, <1>10, <1>11 DEF Threads

LEMMA TameReaders == ASSUME Typed(c), NEW t \in Tracks, Read(t) \/ SourceEnds(t) \/ ReaderFails(t) PROVE c'.live \subseteq c.live
<1>0. DOMAIN c = Fields
  BY TameTyped
<1>1. ASSUME NEW x, DOMAIN x = Fields, NEW m PROVE DOMAIN Post(x, m) = Fields /\ Post(x, m).live = x.live
  BY <1>1, FieldsAre DEF Post
<1>2. CASE Read(t)
  BY <1>0, <1>2, FieldsAre DEF Read
<1>3. CASE SourceEnds(t)
  <2> DEFINE x == [c EXCEPT !.reader[t] = NoReader, !.live = @ \ {<<t, c.turn>>}, !.gone = @ \cup {t}]
  <2>1. DOMAIN x = Fields /\ x.live \subseteq c.live
    BY <1>0, FieldsAre
  <2>2. \E m : c' = Post(x, m)
    BY <1>3 DEF SourceEnds
  <2> HIDE DEF x
  <2> QED
    BY <1>1, <2>1, <2>2
<1>4. CASE ReaderFails(t)
  <2> DEFINE x == [c EXCEPT !.reader[t] = NoReader]
  <2>1. DOMAIN x = Fields /\ x.live = c.live
    BY <1>0, FieldsAre
  <2>2. c' = Post(x, Message("audio-failed"))
    BY <1>4 DEF ReaderFails
  <2> HIDE DEF x
  <2> QED
    BY <1>1, <2>1, <2>2
<1> QED
  BY <1>2, <1>3, <1>4

LEMMA TameWorld ==
  ASSUME Typed(c),
         \/ ClickPause \/ ClickResume \/ ClickStop \/ Show \/ Beat \/ Shutdown
         \/ Block \/ Unblock \/ HourPasses \/ LeaseEnds \/ DiskLow \/ Cut \/ Exit
  PROVE c'.live \subseteq c.live
<1>0. DOMAIN c = Fields
  BY TameTyped
<1>1. CASE ClickPause
  BY <1>0, <1>1, FieldsAre DEF ClickPause
<1>2. CASE ClickResume
  BY <1>0, <1>2, FieldsAre DEF ClickResume
<1>3. CASE ClickStop
  BY <1>0, <1>3, FieldsAre DEF ClickStop
<1>4. CASE Show
  BY <1>0, <1>4, FieldsAre DEF Show
<1>5. CASE Beat \/ Shutdown
  BY <1>0, <1>5, FieldsAre DEF Beat, Shutdown
<1>6. CASE Block
  BY <1>0, <1>6, FieldsAre DEF Block, Blocked
<1>7. CASE Unblock \/ HourPasses \/ LeaseEnds
  BY <1>0, <1>7, FieldsAre DEF Unblock, HourPasses, LeaseEnds
<1>8. CASE DiskLow
  BY <1>0, <1>8, TamePost DEF DiskLow, Tame
<1>9. CASE Cut
  <2>1. Tame(c, Terminate(c))
    BY <1>0, TameTerminate
  <2> DEFINE x == Terminate(c)
  <2>2. c' = [x EXCEPT !.cmd = NoCommand, !.gui.terminal = TRUE, !.gui.st = "stopped"]
    BY <1>9 DEF Cut
  <2>3. DOMAIN x = Fields /\ x.live \subseteq c.live
    BY <2>1 DEF Tame
  <2> HIDE DEF x
  <2> QED
    BY <2>2, <2>3, FieldsAre
<1>10. CASE Exit
  BY <1>10 DEF Exit, Exited, Prepared
<1> QED
  BY <1>1, <1>2, <1>3, <1>4, <1>5, <1>6, <1>7, <1>8, <1>9, <1>10

LEMMA TamePolls ==
  ASSUME Typed(c), PollSession \/ PollResume \/ PollLease \/ PollLimit \/ PollAlive \/ PollBye
  PROVE c'.live \subseteq c.live
<1>0. DOMAIN c = Fields
  BY TameTyped
<1>1. CASE PollSession
  <2>1. Typed(Drained(c)) /\ Halting(c, Drained(c))
    BY DrainedHalting
  <2>2. Tame(c, Drained(c))
    BY <2>1, TameHalting
  <2>3. Tame(Drained(c), Expired(Drained(c)))
    BY <2>1, ExpiredHalting, TameHalting
  <2>4. Tame(c, Expired(Drained(c)))
    BY <2>2, <2>3, TameTrans
  <2> QED
    BY <1>1, <2>4 DEF PollSession, Tame
<1>2. CASE PollResume
  BY <1>0, <1>2, TameResume DEF PollResume, Tame
<1>3. CASE PollLease
  BY <1>3, TameAutopause DEF PollLease, Tame
<1>4. CASE PollLimit
  BY <1>0, <1>4, TameClose DEF PollLimit, Tame
<1>5. CASE PollAlive
  BY <1>0, <1>5, TameTold DEF PollAlive, Tame
<1>6. CASE PollBye
  BY <1>0, <1>6, FieldsAre DEF PollBye, Bye
<1> QED
  BY <1>1, <1>2, <1>3, <1>4, <1>5, <1>6

LEMMA TameWaits == ASSUME NEW x, DOMAIN x = Fields, NEW kind PROVE Tame(x, Waits(x, kind))
<1> DEFINE y == [x EXCEPT !.waiters = @ \cup {kind}, !.owed = @ \cup {kind}]
<1>1. DOMAIN y = Fields /\ y.live = x.live
  BY FieldsAre
<1>2. Waits(x, kind) \in {y, TellClosed(y)}
  BY DEF Waits
<1> HIDE DEF y
<1> QED
  BY <1>1, <1>2, TameTold DEF Tame

LEMMA TameAlready == ASSUME NEW x, DOMAIN x = Fields, NEW kind PROVE Tame(x, AlreadyClosed(x, kind))
<1> DEFINE stopped == [x EXCEPT !.state = "stopped"]
           paused == [x EXCEPT !.state = "paused"]
           y == CASE kind = "stop" -> stopped
                  [] kind = "pause" /\ x.state # "stopped" -> BeginPause(paused)
                  [] OTHER -> x
           status == IF x.failed THEN "failed" ELSE x.final
           z == TellFinalized(TellClosed(y), {}, status)
<1>1. AlreadyClosed(x, kind) \in {TellPaused(z, FALSE), z}
  BY DEF AlreadyClosed
<1>2. DOMAIN stopped = Fields /\ stopped.live = x.live /\ DOMAIN paused = Fields /\ paused.live = x.live
  BY FieldsAre
<1>3. y \in {stopped, BeginPause(paused), x}
  OBVIOUS
<1> HIDE DEF stopped, paused, y, status
<1>4. Tame(x, y)
  BY <1>2, <1>3, TameClose DEF Tame
<1>5. Tame(y, TellClosed(y))
  BY <1>4, TameTold DEF Tame
<1>6. Tame(TellClosed(y), z)
  BY <1>5, TameTold DEF Tame
<1> HIDE DEF z
<1>7. Tame(z, TellPaused(z, FALSE))
  BY <1>6, TameTold DEF Tame
<1> QED
  BY <1>1, <1>4, <1>5, <1>6, <1>7, TameTrans

LEMMA TameOpenResume == ASSUME Typed(c), HandleOpen PROVE c'.live \subseteq c.live
<1> DEFINE x == Taken
<1>1. Typed(x) /\ Tame(c, x)
  BY TameTaken
<1>2. \/ \E code : c' = TellRefused(x, c.cmd, code)
      \/ \E q : c' = [Open(x, q) EXCEPT !.needs = FALSE, !.gone = {}, !.crossed = @ \/ x.close.on]
  BY DEF HandleOpen
<1> HIDE DEF x
<1>3. DOMAIN x = Fields
  BY <1>1 DEF Tame
<1>4. ASSUME NEW code, c' = TellRefused(x, c.cmd, code) PROVE c'.live \subseteq c.live
  BY <1>1, <1>3, <1>4, TameTold DEF Tame
<1>5. ASSUME NEW q, c' = [Open(x, q) EXCEPT !.needs = FALSE, !.gone = {}, !.crossed = @ \/ x.close.on] PROVE c'.live \subseteq c.live
  <2> DEFINE y == Open(x, q)
  <2>1. DOMAIN y = Fields /\ y.live \subseteq c.live
    BY <1>1, <1>3, TameResume DEF Tame
  <2>2. c' = [y EXCEPT !.needs = FALSE, !.gone = {}, !.crossed = @ \/ x.close.on]
    BY <1>5
  <2> HIDE DEF y
  <2> QED
    BY <2>1, <2>2, FieldsAre
<1> QED
  BY <1>2, <1>4, <1>5

LEMMA TameKeepalive == ASSUME Typed(c), HandleKeepalive PROVE c'.live \subseteq c.live
<1> DEFINE x == Taken
           m == c.cmd
           y == [x EXCEPT !.leased = TRUE, !.visible = m.visible, !.recovery = m.epoch,
                          !.auto = x.state = "paused" /\ m.visible]
           z == IF y.opening /\ y.request.auto /\ ~m.visible THEN Close(y, "indicators", None) ELSE y
           w == AutoResume(z)
<1>1. Typed(x) /\ Tame(c, x)
  BY TameTaken
<1>2. (\E code : c' = TellRefused(x, m, code)) \/ c' = [w EXCEPT !.gui.cur = TRUE]
  BY DEF HandleKeepalive
<1> HIDE DEF x
<1>3. DOMAIN x = Fields
  BY <1>1 DEF Tame
<1>4. ASSUME NEW code, c' = TellRefused(x, m, code) PROVE c'.live \subseteq c.live
  BY <1>1, <1>3, <1>4, TameTold DEF Tame
<1>5. Tame(x, y)
  BY <1>3, FieldsAre DEF Tame
<1> HIDE DEF y
<1>6. Tame(y, z)
  BY <1>5, TameClose DEF Tame
<1> HIDE DEF z
<1>7. Tame(z, w)
  BY <1>6, TameResume DEF Tame
<1> HIDE DEF w
<1>8. Tame(c, w)
  BY <1>1, <1>5, <1>6, <1>7, TameTrans
<1>9. c' = [w EXCEPT !.gui.cur = TRUE] => c'.live = w.live
  BY <1>8, FieldsAre DEF Tame
<1> QED
  BY <1>2, <1>4, <1>8, <1>9 DEF Tame

LEMMA TamePause == ASSUME Typed(c), HandlePause PROVE c'.live \subseteq c.live
<1> DEFINE x == Taken
           r == c.cmd.reason
           w == IF r = "lock" /\ x.reason = None THEN Blocked(x, "lock") ELSE x
           y == AddReason(w, r)
           u == [y EXCEPT !.owed = @ \cup {"pause"}]
<1>1. Typed(x) /\ Tame(c, x)
  BY TameTaken
<1>2. \/ c' = TellRefused(x, c.cmd, "not-prepared") \/ c' = Answered(Waits(y, "pause"))
      \/ c' = Answered(AlreadyClosed(y, "pause")) \/ c' = Answered(Close(u, r, "pause"))
  BY DEF HandlePause
<1> HIDE DEF x
<1>3. DOMAIN x = Fields
  BY <1>1 DEF Tame
<1>4. Tame(x, w)
  BY <1>3, FieldsAre DEF Tame, Blocked
<1> HIDE DEF w
<1>5. Tame(w, y)
  BY <1>4, TameClose DEF Tame
<1> HIDE DEF y
<1>6. Tame(y, u)
  BY <1>5, FieldsAre DEF Tame
<1> HIDE DEF u
<1>7. Tame(c, y) /\ Tame(c, u)
  BY <1>1, <1>4, <1>5, <1>6, TameTrans
<1>8. ASSUME NEW v, Tame(c, v), c' = Answered(v) PROVE c'.live \subseteq c.live
  BY <1>8, TameTold DEF Tame
<1> HIDE DEF r
<1>9. Tame(c, Waits(y, "pause")) /\ Tame(c, AlreadyClosed(y, "pause")) /\ Tame(c, Close(u, r, "pause"))
  <2>1. DOMAIN y = Fields /\ DOMAIN u = Fields
    BY <1>7 DEF Tame
  <2>2. Tame(y, Waits(y, "pause"))
    BY <2>1, TameWaits
  <2>3. Tame(y, AlreadyClosed(y, "pause"))
    BY <2>1, TameAlready
  <2>4. Tame(u, Close(u, r, "pause"))
    BY <2>1, TameClose
  <2> QED
    BY <1>7, <2>2, <2>3, <2>4, TameTrans
<1>10. c' = TellRefused(x, c.cmd, "not-prepared") => c'.live \subseteq c.live
  BY <1>1, <1>3, TameTold DEF Tame
<1> QED
  BY <1>2, <1>8, <1>9, <1>10

LEMMA TameStop == ASSUME Typed(c), HandleStop PROVE c'.live \subseteq c.live
<1> DEFINE x == Taken
           y == [x EXCEPT !.state = "stopped", !.auto = FALSE]
           u == [x EXCEPT !.owed = @ \cup {"stop"}]
<1>1. Typed(x) /\ Tame(c, x)
  BY TameTaken
<1>2. \/ c' = TellRefused(x, c.cmd, "not-prepared") \/ c' = Answered(Waits(y, "stop"))
      \/ c' = Answered(AlreadyClosed(x, "stop")) \/ c' = Answered(Close(u, "stop", "stop"))
  BY DEF HandleStop
<1> HIDE DEF x
<1>3. DOMAIN x = Fields
  BY <1>1 DEF Tame
<1>4. Tame(x, y) /\ Tame(x, u)
  BY <1>3, FieldsAre DEF Tame
<1> HIDE DEF y, u
<1>5. Tame(c, y) /\ Tame(c, u)
  BY <1>1, <1>4, TameTrans
<1>6. ASSUME NEW v, Tame(c, v), c' = Answered(v) PROVE c'.live \subseteq c.live
  BY <1>6, TameTold DEF Tame
<1>7. Tame(c, Waits(y, "stop")) /\ Tame(c, AlreadyClosed(x, "stop")) /\ Tame(c, Close(u, "stop", "stop"))
  BY <1>1, <1>5, TameWaits, TameAlready, TameClose DEF Tame
<1>8. c' = TellRefused(x, c.cmd, "not-prepared") => c'.live \subseteq c.live
  BY <1>1, <1>3, TameTold DEF Tame
<1> QED
  BY <1>2, <1>6, <1>7, <1>8

LEMMA TameShutdown == ASSUME Typed(c), HandleShutdown PROVE c'.live \subseteq c.live
<1> DEFINE t == Taken
           x == [t EXCEPT !.shutdown = TRUE]
           y == [x EXCEPT !.terminating = TRUE]
<1>1. Typed(t) /\ Tame(c, t)
  BY TameTaken
<1>2. c' = Bye(y) \/ c' = Terminate(x)
  BY DEF HandleShutdown
<1> HIDE DEF t
<1>3. DOMAIN x = Fields /\ x.live = t.live
  BY <1>1, FieldsAre DEF Tame
<1> HIDE DEF x
<1>4. DOMAIN y = Fields /\ y.live = t.live
  BY <1>3, FieldsAre
<1> HIDE DEF y
<1>5. Bye(y).live = t.live
  BY <1>4, FieldsAre DEF Bye
<1>6. Terminate(x).live \subseteq t.live
  BY <1>3, TameTerminate DEF Tame
<1> QED
  BY <1>1, <1>2, <1>5, <1>6 DEF Tame

LEMMA TameFinalized == ASSUME NEW x, DOMAIN x = Fields PROVE \A req, status : Tame(x, Finalized(x, req, status))
<1> SUFFICES ASSUME NEW req, NEW status PROVE Tame(x, Finalized(x, req, status))
  OBVIOUS
<1> DEFINE kinds == x.waiters \cup {req}
           w == [x EXCEPT !.waiters = {}, !.finalizing = FALSE]
           y == TellFinalized(w, kinds, status)
<1>1. Finalized(x, req, status) \in {TellPaused(y, FALSE), y}
  BY DEF Finalized
<1>2. Tame(x, w)
  BY FieldsAre DEF Tame
<1> HIDE DEF w, kinds
<1>3. Tame(w, y)
  BY <1>2, TameTold DEF Tame
<1> HIDE DEF y
<1> DEFINE z == TellPaused(y, FALSE)
<1>4. Tame(y, z)
  BY <1>3, TameTold DEF Tame
<1>5. Finalized(x, req, status) \in {z, y}
  BY <1>1
<1> HIDE DEF z
<1>6. Tame(x, y) /\ Tame(x, z)
  BY <1>2, <1>3, <1>4, TameTrans
<1> QED
  BY <1>5, <1>6

LEMMA TameOpened == ASSUME NEW x, Typed(x) PROVE Tame(x, Opened(x))
<1>1. PICK y : Began(x, y) /\ (Opened(x) = TellStarted(y) \/ Opened(x) = [y EXCEPT !.due = TRUE])
  BY BeganFacts
<1>2. Tame(x, y)
  BY <1>1, FieldsAre DEF Began, Keeps, RecordFields, Tame
<1>3. Tame(y, TellStarted(y))
  BY <1>2, TameTold DEF Tame
<1> DEFINE z == [y EXCEPT !.due = TRUE]
<1>4. Tame(y, z)
  BY <1>2, FieldsAre DEF Tame
<1>5. Opened(x) \in {TellStarted(y), z}
  BY <1>1
<1> HIDE DEF z
<1>6. Tame(x, TellStarted(y)) /\ Tame(x, z)
  BY <1>2, <1>3, <1>4, TameTrans
<1> QED
  BY <1>5, <1>6

LEMMA TamePoll == ASSUME Typed(c), Poll PROVE c'.live \subseteq c.live
<1> DEFINE m == Head(c.msgs)
           x == [c EXCEPT !.msgs = Tail(@)]
<1>1. c.msgs # <<>> /\ x = Popped(c)
  BY DEF Poll, Popped
<1>2. DOMAIN c = Fields
  BY TameTyped
<1>3. Tame(c, x)
  BY <1>2, FieldsAre DEF Tame
<1>4. m.k \in Told /\ x.msgs = Tail(c.msgs) /\ Keeps(c, x, {"msgs"})
  <2>1. x.msgs = Tail(c.msgs) /\ Keeps(c, x, {"msgs"})
    BY <1>1, PoppedFacts
  <2>2. Shifted(c, x)
    BY <1>1, <2>1, ShiftFacts
  <2> QED
    BY <2>1, <2>2 DEF Shifted, MessageType
<1>5. (CASE m.k = "opened" -> OnOpened(x)
          [] m.k = "open-failed" -> OnOpenFailed(x, m.code)
          [] m.k = "closed" -> OnClosed(x, m)
          [] m.k = "finalized" -> c' = Finalized(x, m.req, x.final)
          [] m.k = "track-ended" -> \E t \in m.tracks : OnTrackEnded(x, t, m.code)
          [] m.k = "disk-failed" -> OnDiskFailed(x)
          [] m.k = "audio-failed" -> c' = Autopause(x, "audio_failed")
          [] m.k = "disk-low" -> c' = Autopause(x, "disk"))
  BY DEF Poll
<1>6. Typed(x)
  <2>1. TypedIn(x, {"msgs"})
    <3>1. Shifted(c, x)
      BY <1>1, <1>4, ShiftFacts
    <3> QED
      BY <3>1 DEF TypedIn, Shifted
  <2> QED
    BY <1>4, <2>1, KeepsTyped
<1> HIDE DEF x, m
<1>7. ASSUME NEW y, Tame(x, y), c' = y PROVE c'.live \subseteq c.live
  BY <1>3, <1>7, TameTrans DEF Tame
<1>8. CASE m.k = "opened"
  <2> DEFINE u == [x EXCEPT !.opening = FALSE]
             y == Drained(u)
             w == Close(y, BackTo(y, y.request), None)
  <2>1. c' = y \/ c' = w \/ c' = Opened(y)
    BY <1>5, <1>8 DEF OnOpened
  <2>2. Tame(x, u) /\ Keeps(x, u, {"opening"}) /\ u.opening = FALSE
    BY <1>3, FieldsAre DEF Tame, Keeps
  <2> HIDE DEF u
  <2>3. Typed(u)
    BY <1>6, <2>2, KeepsTyped DEF TypedIn
  <2>4. Typed(y) /\ Tame(u, y)
    BY <2>3, DrainedHalting, TameHalting
  <2> HIDE DEF y
  <2>5. Tame(y, w) /\ Tame(y, Opened(y))
    BY <2>4, TameClose, TameOpened DEF Tame
  <2>6. Tame(x, y) /\ Tame(x, w) /\ Tame(x, Opened(y))
    BY <2>2, <2>4, <2>5, TameTrans
  <2> QED
    BY <1>7, <2>1, <2>6
<1>9. CASE m.k = "open-failed"
  <2> DEFINE y == [x EXCEPT !.opening = FALSE]
             why == IF y.request.auto /\ m.code = "admission-stale" THEN BackTo(y, y.request) ELSE "audio_failed"
             z == IF y.close.on THEN y ELSE Close(y, why, None)
  <2>1. c' = z \/ c' = TellRefused(z, y.request, m.code)
    BY <1>5, <1>9 DEF OnOpenFailed
  <2>2. Tame(x, y)
    BY <1>3, FieldsAre DEF Tame
  <2> HIDE DEF y, why
  <2>3. Tame(y, z)
    BY <2>2, TameClose DEF Tame
  <2> HIDE DEF z
  <2>4. Tame(x, z) /\ Tame(z, TellRefused(z, y.request, m.code))
    BY <2>2, <2>3, TameTold, TameTrans DEF Tame
  <2> QED
    BY <1>7, <2>1, <2>4, TameTrans
<1>10. CASE m.k = "closed"
  <2> DEFINE v == [x EXCEPT !.close = [on |-> FALSE, req |-> m.req], !.made = {}, !.finalizing = TRUE,
                          !.track = [t \in Tracks |-> IF t \in m.tracks /\ @[t] = "live"
                                                      THEN IF x.state = "paused" THEN "paused" ELSE "ended" ELSE @[t]]]
             y == TellClosed(v)
             w == [y EXCEPT !.final = "failed"]
             j == [Job("close") EXCEPT !.req = m.req]
  <2>1. c' = Finalized(w, m.req, "failed") \/ c' = Put(y, j)
    BY <1>5, <1>10 DEF OnClosed
  <2>2. Tame(x, v)
    BY <1>3, FieldsAre DEF Tame
  <2> HIDE DEF v
  <2>3. Tame(v, y)
    BY <2>2, TameTold DEF Tame
  <2> HIDE DEF y, j
  <2>4. Tame(y, w) /\ Tame(y, Put(y, j))
    BY <2>3, FieldsAre DEF Tame, Put
  <2> HIDE DEF w
  <2>5. Tame(w, Finalized(w, m.req, "failed"))
    BY <2>4, TameFinalized DEF Tame
  <2>6. Tame(x, Finalized(w, m.req, "failed")) /\ Tame(x, Put(y, j))
    BY <2>2, <2>3, <2>4, <2>5, TameTrans
  <2> QED
    BY <1>7, <2>1, <2>6
<1>11. CASE m.k = "finalized"
  BY <1>3, <1>5, <1>7, <1>11, TameFinalized DEF Tame
<1>12. CASE m.k = "track-ended"
  <2>1. PICK t \in m.tracks : OnTrackEnded(x, t, m.code)
    BY <1>5, <1>12
  <2> DEFINE y == [x EXCEPT !.leaseTracks = @ \ {t}]
             z == [y EXCEPT !.track[t] = IF t = "far" THEN "ended" ELSE "paused"]
  <2>2. c' = Autopause(y, "audio_failed") \/ c' = Answered(z)
    BY <2>1 DEF OnTrackEnded
  <2>3. Tame(x, y) /\ Keeps(x, y, {"leaseTracks"}) /\ y.leaseTracks = x.leaseTracks \ {t}
    BY <1>3, FieldsAre DEF Tame, Keeps
  <2> HIDE DEF y
  <2>4. Typed(y)
    <3>1. x.leaseTracks \in SUBSET Tracks
      BY <1>6 DEF Typed, TypedControl
    <3> QED
      BY <1>6, <2>3, <3>1, KeepsTyped DEF TypedIn
  <2>5. Tame(y, z)
    BY <2>3, FieldsAre DEF Tame
  <2> HIDE DEF z
  <2>6. Tame(y, Autopause(y, "audio_failed")) /\ Tame(z, Answered(z))
    BY <2>4, <2>5, TameAutopause, TameTold DEF Tame
  <2>7. Tame(x, Autopause(y, "audio_failed")) /\ Tame(x, Answered(z))
    BY <2>3, <2>5, <2>6, TameTrans
  <2> QED
    BY <1>7, <2>2, <2>7
<1>13. CASE m.k = "disk-failed"
  <2> DEFINE y == [x EXCEPT !.final = "failed"]
             z == IF y.finalizing THEN Finalized(y, y.close.req, "failed") ELSE y
  <2>1. c' = Autopause(z, "disk")
    BY <1>5, <1>13 DEF OnDiskFailed
  <2>2. Tame(x, y) /\ Keeps(x, y, {"final"}) /\ y.final = "failed"
    BY <1>3, FieldsAre DEF Tame, Keeps
  <2> HIDE DEF y
  <2>3. Typed(y)
    BY <1>6, <2>2, KeepsTyped DEF TypedIn
  <2>4. Typed(z) /\ Tame(y, z)
    BY <2>2, <2>3, FinalizedTyped, TameFinalized DEF Tame
  <2> HIDE DEF z
  <2>5. Tame(z, Autopause(z, "disk"))
    BY <2>4, TameAutopause
  <2>6. Tame(x, Autopause(z, "disk"))
    BY <2>2, <2>4, <2>5, TameTrans
  <2> QED
    BY <1>7, <2>1, <2>6
<1>14. CASE m.k \in {"audio-failed", "disk-low"}
  BY <1>5, <1>6, <1>7, <1>14, TameAutopause
<1> QED
  BY <1>4, <1>8, <1>9, <1>10, <1>11, <1>12, <1>13, <1>14 DEF Told

-----------------------------------------------------------------------------
LEMMA OnlyOpened == ASSUME Typed(c), Next PROVE OpenSource \/ c'.live \subseteq c.live
<1>1. CASE Control \/ Overdue \/ Kill
  BY <1>1, TamePoll, TamePolls, TameWorld DEF Control, Leave, Overdue, Kill
<1>2. CASE HandleOpen \/ HandleKeepalive \/ HandlePause \/ HandleStop \/ HandleShutdown
  BY <1>2, TameOpenResume, TameKeepalive, TamePause, TameStop, TameShutdown
<1> QED
  BY <1>1, <1>2, TameThreads, TameReaders, TameWorld, TamePolls DEF Next

\* What is asked when a source is opened
LEMMA OpenedMeant ==
  ASSUME Typed(c), Good(c), OpenSource, NEW s \in c'.live \ c.live
  PROVE ~c.needs /\ c.reason = None /\ (c.request.auto => c.visible /\ s[1] \notin c.gone)
<1> DEFINE x == IF c.opener.todo = c.request.tracks THEN [c EXCEPT !.made = {}] ELSE c
<1>0. DOMAIN c = Fields
  BY TameTyped
<1>1. PICK fresh \in BOOLEAN :
        c' = IF MayOpen(fresh)
             THEN [x EXCEPT !.made = @ \cup {NextSource}, !.live = @ \cup {NextSource}, !.opener.pc = "check"]
             ELSE OpenFailed(x, "admission-stale")
  BY DEF OpenSource
<1>2. c.opener.pc = "open" /\ ~Idle(c)
  BY DEF OpenSource, Idle
<1>3. NextTrack \in c.opener.todo /\ NextSource \in Sources /\ NextSource[1] = NextTrack
  BY <1>2, NextTrackIs
<1>4. DOMAIN x = Fields /\ x.live = c.live
  BY <1>0, FieldsAre
<1> HIDE DEF x
<1>5. OpenFailed(x, "admission-stale").live = c.live
  <2> DEFINE y == [x EXCEPT !.opener = NoOpener, !.closer.wait = FALSE]
  <2>1. DOMAIN y = Fields /\ y.live = c.live
    BY <1>4, FieldsAre
  <2>2. \E m : OpenFailed(x, "admission-stale") = Post(y, m)
    BY DEF OpenFailed, OpenerEnds
  <2> HIDE DEF y
  <2> QED
    BY <2>1, <2>2, FieldsAre DEF Post
<1>6. MayOpen(fresh)
  BY <1>1, <1>5
<1>7. s = NextSource
  <2>1. c'.live = c.live \cup {NextSource}
    BY <1>1, <1>4, <1>6, FieldsAre
  <2> QED
    BY <2>1
<1>8. ~c.opener.stop /\ c.reason = None /\ c.epoch = c.request.epoch /\ (c.request.auto => c.visible)
  BY <1>6 DEF MayOpen, Admitted, Allowed
<1>9. ~c.needs
  <2>1. c.epoch \in Nat
    BY DEF Typed, TypedRest
  <2>2. ~c.needs \/ c.epoch > c.request.epoch
    BY <1>2, <1>8 DEF Good, Core, ClicksOK, AdmissionOK
  <2> QED
    BY <1>8, <2>1, <2>2
<1>10. s[1] \notin c.gone
  <2>1. c.opener.todo \subseteq c.request.tracks /\ c.request.tracks \cap c.gone = {}
    BY <1>2 DEF Good, Core, OpeningOK
  <2> QED
    BY <1>3, <1>7, <2>1
<1> QED
  BY <1>8, <1>9, <1>10

\* A source is opened only while nothing bars it: after a hard pause only once the user has clicked, by
\* itself only while the indicators are seen and never one that has ended (_guard_source, _maybe_auto_resume)
THEOREM OpensOnlyAfterClick == Spec => ClickFirst
<1> DEFINE A == \A s \in c'.live \ c.live :
                  c.crossed \/ /\ ~c.needs /\ c.reason = None
                               /\ c.request.auto => c.visible /\ s[1] \notin c.gone
<1>1. ASSUME IInv, [Next]_vars PROVE [A]_vars
  <2>1. CASE UNCHANGED vars
    BY <2>1
  <2>2. CASE Next
    <3>1. Typed(c) /\ (c.crossed \/ Good(c))
      BY <1>1 DEF IInv, Uncrossed
    <3>2. OpenSource \/ c'.live \subseteq c.live
      BY <2>2, <3>1, OnlyOpened
    <3>3. A
      BY <3>1, <3>2, OpenedMeant
    <3> QED
      BY <3>3
  <2> QED
    BY <1>1, <2>1, <2>2
<1> HIDE DEF A
<1>2. Spec => [][A]_vars
  BY <1>1, InductiveInvariant, PTL DEF Spec
<1> QED
  BY <1>2 DEF ClickFirst, A
=============================================================================
