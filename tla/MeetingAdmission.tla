--------------------------- MODULE MeetingAdmission ---------------------------
(***************************************************************************)
(* What the process that records a meeting believes of the desktop's       *)
(* session (worker/meeting_session.py).  Two threads keep it: one asks     *)
(* login1 twice a second, in several calls (tick), the other listens to    *)
(* its signals (bus).  An answer may be older than a signal that has been  *)
(* heard meanwhile, and a signal may be late.  The desktop announces a     *)
(* lock before the screen is locked, or not at all; the property of        *)
(* login1 that says so, LockedHint, follows the screen.                    *)
(***************************************************************************)
EXTENDS Naturals, Sequences

CONSTANTS
  NoReason,
  AdmissionLimit,  \* Changes of the desktop, and failures, in a behaviour
  BusLimit         \* Signals on their way

VARIABLES
  desktop,  \* "KDE", or "FLY" whose locks are not announced reliably
  signals,  \* Whether the helper that listens runs
  world,    \* screen: open, locking, locked or unlocking; announced: its lock was; active; sleeping
  bus,      \* Signals that login1 has sent and the helper has not yet handed on
  a,        \* SessionAdmission
  tick,     \* The question in progress: pc, the generation it began with, what it has learnt
  changes   \* How often the desktop changed or something failed

admissionVars == <<desktop, signals, world, bus, a, tick, changes>>

Signals == {"Lock", "Unlock", "Sleep", "Wake"}
Screens == {"open", "locking", "locked", "unlocking"}
Reasons == {"sleep", "session", "unknown", "lock"}
Values == [known : BOOLEAN, active : BOOLEAN, locked : BOOLEAN, sleeping : BOOLEAN]
NoValues == [known |-> FALSE, active |-> FALSE, locked |-> FALSE, sleeping |-> FALSE]
NoTick == [pc |-> "idle", generation |-> 0, got |-> NoValues]

Pending(s) == \E i \in 1..Len(bus) : bus[i] = s
Hint == world.screen \in {"locked", "unlocking"}

-----------------------------------------------------------------------------
\* SessionAdmission

\* Why nothing may be recorded
Reason(v) ==
  CASE v.sleeping -> "sleep"
    [] ~v.sleeping /\ v.known /\ ~v.active -> "session"
    [] ~v.sleeping /\ (v.known => v.active) /\ desktop = "FLY" -> NoReason
    [] ~v.sleeping /\ ~v.known /\ desktop = "KDE" -> "unknown"
    [] ~v.sleeping /\ v.known /\ v.active /\ v.locked /\ desktop = "KDE" -> "lock"
    [] OTHER -> NoReason

\* Every block is an epoch of its own: leave that was given before it is worth nothing after it
Publish(x, v) ==
  [x EXCEPT !.value = v, !.reason = Reason(v),
            !.epoch = IF Reason(v) \notin {NoReason, x.reason} THEN @ + 1 ELSE @]

\* Mutant: an answer counts even when a signal has come since it was asked for
UpdateLate(x, v, generation) ==
  LET confirmed == v.known /\ ~v.locked /\ (x.unlockRequested \/ x.hintSeen)
      y == CASE x.lockRequested /\ v.locked -> [x EXCEPT !.hintSeen = TRUE]
             [] x.lockRequested /\ confirmed ->
                  [x EXCEPT !.lockRequested = FALSE, !.unlockRequested = FALSE, !.hintSeen = FALSE]
             [] OTHER -> x
  IN Publish(y, [v EXCEPT !.locked = v.locked \/ y.lockRequested])

\* Mutant: only the announced end of a lock ends it
UpdateAnnounced(x, v, generation) ==
  LET confirmed == v.known /\ ~v.locked /\ x.unlockRequested
      y == CASE x.lockRequested /\ v.locked -> [x EXCEPT !.hintSeen = TRUE]
             [] x.lockRequested /\ confirmed ->
                  [x EXCEPT !.lockRequested = FALSE, !.unlockRequested = FALSE, !.hintSeen = FALSE]
             [] OTHER -> x
  IN IF generation # x.generation THEN x ELSE Publish(y, [v EXCEPT !.locked = v.locked \/ y.lockRequested])

\* A lock that was announced ends when the screen is seen open after it was seen locked, or after
\* its end was announced; what is older than a signal counts for nothing
Update(x, v, generation) ==
  LET confirmed == v.known /\ ~v.locked /\ (x.unlockRequested \/ x.hintSeen)
      y == CASE x.lockRequested /\ v.locked -> [x EXCEPT !.hintSeen = TRUE]
             [] x.lockRequested /\ confirmed ->
                  [x EXCEPT !.lockRequested = FALSE, !.unlockRequested = FALSE, !.hintSeen = FALSE]
             [] OTHER -> x
  IN IF generation # x.generation THEN x ELSE Publish(y, [v EXCEPT !.locked = v.locked \/ y.lockRequested])

Lost(x) == Publish([x EXCEPT !.generation = @ + 1], [x.value EXCEPT !.known = FALSE])

\* Mutant: a new lock keeps what was seen of the last one
SignalKept(x, name) ==
  LET y == [x EXCEPT !.generation = @ + 1]
  IN CASE name = "Lock" -> Publish([y EXCEPT !.lockRequested = TRUE], [x.value EXCEPT !.locked = TRUE])
       [] name = "Unlock" -> [y EXCEPT !.unlockRequested = TRUE]
       [] name \in {"Sleep", "Wake"} -> Publish(y, [x.value EXCEPT !.sleeping = name = "Sleep"])

Signal(x, name) ==
  LET y == [x EXCEPT !.generation = @ + 1]
  IN CASE name = "Lock" ->
            Publish([y EXCEPT !.lockRequested = TRUE, !.unlockRequested = FALSE, !.hintSeen = FALSE],
                    [x.value EXCEPT !.locked = TRUE])
       [] name = "Unlock" -> [y EXCEPT !.unlockRequested = TRUE]
       [] name \in {"Sleep", "Wake"} -> Publish(y, [x.value EXCEPT !.sleeping = name = "Sleep"])

-----------------------------------------------------------------------------
\* The two threads, and the command of the GUI

Deliver ==
  /\ bus # <<>>
  /\ a' = Signal(a, Head(bus)) /\ bus' = Tail(bus)
  /\ UNCHANGED <<desktop, signals, world, tick, changes>>

Ask ==
  /\ tick.pc = "idle"
  /\ tick' = [NoTick EXCEPT !.pc = "sleep", !.generation = a.generation]
  /\ UNCHANGED <<desktop, signals, world, bus, a, changes>>

\* A system that falls asleep is asked nothing more
ReadSleep ==
  /\ tick.pc = "sleep"
  /\ tick' = [tick EXCEPT !.pc = IF world.sleeping THEN "got" ELSE "session", !.got.sleeping = world.sleeping]
  /\ UNCHANGED <<desktop, signals, world, bus, a, changes>>

ReadSession ==
  /\ tick.pc = "session"
  /\ tick' = [tick EXCEPT !.pc = "got", !.got = [known |-> TRUE, active |-> world.active, locked |-> Hint,
                                                 sleeping |-> tick.got.sleeping]]
  /\ UNCHANGED <<desktop, signals, world, bus, a, changes>>

Change == changes < AdmissionLimit /\ changes' = changes + 1

\* Mutant: after a failure nothing is known of the sleep either
ReadFailsAwake ==
  /\ tick.pc \in {"sleep", "session"} /\ Change
  /\ tick' = [tick EXCEPT !.pc = "got", !.got = NoValues]
  /\ UNCHANGED <<desktop, signals, world, bus, a>>

\* What was known of the sleep stays
ReadFails ==
  /\ tick.pc \in {"sleep", "session"} /\ Change
  /\ tick' = [tick EXCEPT !.pc = "got", !.got = [NoValues EXCEPT !.sleeping = a.value.sleeping]]
  /\ UNCHANGED <<desktop, signals, world, bus, a>>

Apply ==
  /\ tick.pc = "got"
  /\ a' = Update(a, tick.got, tick.generation) /\ tick' = NoTick
  /\ UNCHANGED <<desktop, signals, world, bus, changes>>

\* No answer for too long, a line of the helper that cannot be read, a helper that does not end
Unknown ==
  /\ a.value.known /\ Change
  /\ a' = Lost(a)
  /\ UNCHANGED <<desktop, signals, world, bus, tick>>

\* The GUI has heard of a lock and pauses the recording
GuiLock ==
  /\ desktop = "KDE" /\ world.screen # "open" /\ ~a.value.locked /\ Change
  /\ a' = Signal(a, "Lock")
  /\ UNCHANGED <<desktop, signals, world, bus, tick>>

-----------------------------------------------------------------------------
\* The desktop

Announce(s) == IF signals THEN Len(bus) < BusLimit /\ bus' = Append(bus, s) ELSE UNCHANGED bus

AnnounceLock ==
  /\ Change /\ Announce("Lock")
  /\ world' = [world EXCEPT !.screen = IF @ = "open" THEN "locking" ELSE IF @ = "unlocking" THEN "locked" ELSE @,
                            !.announced = TRUE]
  /\ UNCHANGED <<desktop, signals, a, tick>>

ScreenLocks ==
  /\ \/ world.screen = "locking" /\ UNCHANGED changes
     \/ world.screen = "open" /\ Change
  /\ world' = [world EXCEPT !.screen = "locked"]
  /\ UNCHANGED <<desktop, signals, bus, a, tick>>

AnnounceUnlock ==
  /\ world.screen = "locked" /\ Change /\ Announce("Unlock")
  /\ world' = [world EXCEPT !.screen = "unlocking"]
  /\ UNCHANGED <<desktop, signals, a, tick>>

ScreenOpens ==
  /\ \/ world.screen = "unlocking" /\ UNCHANGED changes
     \/ world.screen = "locked" /\ Change
  /\ world' = [world EXCEPT !.screen = "open", !.announced = FALSE]
  /\ UNCHANGED <<desktop, signals, bus, a, tick>>

Sleep ==
  /\ Change /\ Announce(IF world.sleeping THEN "Wake" ELSE "Sleep")
  /\ world' = [world EXCEPT !.sleeping = ~@]
  /\ UNCHANGED <<desktop, signals, a, tick>>

Switch ==
  /\ Change /\ world' = [world EXCEPT !.active = ~@]
  /\ UNCHANGED <<desktop, signals, bus, a, tick>>

Question == Ask \/ ReadSleep \/ ReadSession \/ Apply

AdmissionInit ==
  /\ desktop \in {"KDE", "FLY"} /\ signals \in BOOLEAN
  /\ world \in [screen : {"open", "locked"}, announced : {FALSE}, active : {TRUE}, sleeping : {FALSE}]
  /\ bus = <<>>
  /\ a = [value |-> NoValues, reason |-> IF desktop = "FLY" THEN NoReason ELSE "unknown", epoch |-> 0, generation |-> 0,
          lockRequested |-> FALSE, unlockRequested |-> FALSE, hintSeen |-> FALSE]
  /\ tick = NoTick /\ changes = 0

AdmissionNext ==
  \/ Deliver \/ Question \/ ReadFails \/ Unknown \/ GuiLock
  \/ AnnounceLock \/ ScreenLocks \/ AnnounceUnlock \/ ScreenOpens \/ Sleep \/ Switch

AdmissionFairness ==
  /\ WF_admissionVars(Deliver) /\ WF_admissionVars(Question)
  /\ WF_admissionVars(world.screen \in {"locking", "unlocking"} /\ (ScreenLocks \/ ScreenOpens))

AdmissionSpec == AdmissionInit /\ [][AdmissionNext]_admissionVars /\ AdmissionFairness

-----------------------------------------------------------------------------
AdmissionTypeOK ==
  /\ desktop \in {"KDE", "FLY"} /\ signals \in BOOLEAN
  /\ world \in [screen : Screens, announced : BOOLEAN, active : BOOLEAN, sleeping : BOOLEAN]
  /\ bus \in Seq(Signals)
  /\ a \in [value : Values, reason : Reasons \cup {NoReason}, epoch : Nat, generation : Nat,
            lockRequested : BOOLEAN, unlockRequested : BOOLEAN, hintSeen : BOOLEAN]
  /\ tick \in [pc : {"idle", "sleep", "session", "got"}, generation : Nat, got : Values]
  /\ changes \in Nat

\* After the announcement of a lock has been heard nothing is admitted on KDE until the screen is
\* open again, whatever late answers of login1 arrive
LockHolds ==
  signals /\ desktop = "KDE" /\ world.announced /\ world.screen # "open" /\ ~Pending("Lock") => a.reason \in Reasons

\* The same of the system's sleep, which is never overridden by an older answer or a failed one
SleepHolds == signals /\ world.sleeping /\ ~Pending("Sleep") => a.reason = "sleep"

SessionHonest == LockHolds /\ SleepHolds

\* On a desktop that has come to rest and may be used, the admission returns: but a lock whose
\* announcement was heard is held until the next one, when the screen opened before it was seen
\* locked and the end was not announced
AdmissionReturns ==
  [](/\ changes = AdmissionLimit /\ world.screen = "open" /\ world.active /\ ~world.sleeping
     => <>(a.reason = NoReason \/ (a.lockRequested /\ ~a.hintSeen /\ ~a.unlockRequested)))
=============================================================================
