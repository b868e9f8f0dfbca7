-------------------------------- MODULE MCLive --------------------------------
(***************************************************************************)
(* What must come to an end, in one run of TLC: small instances of the     *)
(* modules whose liveness rests on weak fairness.  They share no state: a  *)
(* behaviour is a behaviour of one of them, part, and the others stay in   *)
(* an initial state.                                                       *)
(*                                                                         *)
(* Capture: one recording, and only the watchdog's thread is fair; capture *)
(* field: the GUI is fair as well.  Catalog: two catalogues.  Download:    *)
(* three sources that lie or fail, and a full directory.  Store: an        *)
(* installation or an update of the working revision, then returns, one    *)
(* revocation and one fault.  Jobs: one model.  Dictation: one phrase, and *)
(* a worker that may be replaced once.  Meeting: one click, a block of the *)
(* session and a failure.  Session: two changes of the desktop.            *)
(***************************************************************************)
EXTENDS Naturals, Sequences, FiniteSets

CONSTANT None

VARIABLES
  part,
  field, gui, owner, newest, thread, grab, keys,
  builtin, snapshot, marker, current, alive, source, cache, service, news, refresh, ask, damage,
  target, partial, job, used, done, before, outcome, blamed, crashes,
  staging, dir, backup, record, pointer, revoked, op, result, tried, faults,
  queue, active, paused, running, cancelled, one, discard, qcur, card, dstate, th, msgs, jresult, stop,
  rq, rechecking, oldcard, started, sw, pend, seen, shut, ok, bad, flagged, ptr, stagings, chosen,
  phrases, items, contexts, last, hotkey, indicator, deferred, stack, generation, link, waits, closing, microphone, pasted,
  c, left,
  desktop, signals, world, bus, a, tick, changes

captureVars == <<field, gui, owner, newest, thread, grab, keys>>
catalogVars == <<builtin, snapshot, marker, current, alive, source, cache, service, news, refresh, ask, damage>>
downloadVars == <<target, partial, job, used, done, before, outcome, blamed, crashes>>
storeVars == <<staging, dir, backup, record, pointer, revoked, op, result, tried, faults>>
jobsVars ==
  <<queue, active, paused, running, cancelled, one, discard, qcur, card, dstate, th, msgs, jresult, stop,
    rq, rechecking, oldcard, started, sw, pend, seen, shut, ok, bad, flagged, ptr, stagings, chosen>>
dictationVars ==
  <<phrases, items, contexts, last, hotkey, indicator, deferred, stack, generation, link, waits, closing, microphone, pasted>>
meetingVars == <<c, left>>
sessionVars == <<desktop, signals, world, bus, a, tick, changes>>

Capture == INSTANCE CaptureField WITH queue <- keys, SessionLimit <- 1, QueueLimit <- 1
Catalog == INSTANCE CatalogTrust WITH
  Catalogs <- {"a", "b"}, Rank <- [a |-> 1, b |-> 2], Revisions <- {"r"}, Revokes <- [a |-> {}, b |-> {"r"}],
  Bad <- "bad", DamageLimit <- 0
Download == INSTANCE ModelDownload WITH
  part <- partial, Sizes <- <<3>>, Sources <- <<"corrupt", "flaky", "corrupt">>, Stray <- 4, CrashLimit <- 1
Store == INSTANCE ModelStore WITH current <- pointer, Revisions <- {"r", "s"}, Faults <- 1
Jobs == INSTANCE ModelJobs WITH
  part <- stagings, result <- jresult, N <- 1, Updatable <- {}, ManageInPause <- FALSE
Dictation == INSTANCE Dictation WITH
  source <- microphone, MaxPending <- 2, PhraseLimit <- 1, GenerationLimit <- 2, PressLimit <- 1, DeferLimit <- 1,
  Breaks <- {"now", "later"}
Meeting == INSTANCE MeetingCapture WITH
  Credit <- 1,
  Limits <- {[far |-> FALSE, ops |-> 1, blocks |-> 1, troubles |-> 1, sound |-> 1, all |-> 1],
             [far |-> FALSE, ops |-> 1, blocks |-> 0, troubles |-> 1, sound |-> 0, all |-> 2]}
Session == INSTANCE MeetingAdmission WITH NoReason <- None, AdmissionLimit <- 2, BusLimit <- 2

Init ==
  /\ part \in {"capture", "capture field", "catalog", "download", "store", "jobs", "dictation", "meeting", "session"}
  /\ Capture!Init
  /\ Catalog!Init /\ (part # "catalog" => builtin = "a")
  /\ Download!Init /\ (part # "download" => target[1] = <<>> /\ partial[1] = <<>>)
  /\ Store!Init /\ pointer = [rev |-> "r", prev |-> None] /\ ~dir["s"]
  /\ Jobs!Init /\ (part # "jobs" => ok = {})
  /\ Dictation!Init
  /\ Meeting!Init /\ (part # "meeting" => left.blocks = 1)
  /\ Session!AdmissionInit /\ (part # "session" => desktop = "KDE" /\ signals /\ world.screen = "open")

Next ==
  \/ /\ part \in {"capture", "capture field"} /\ Capture!Next
     /\ UNCHANGED <<part, catalogVars, downloadVars, storeVars, jobsVars,
                    dictationVars, meetingVars, sessionVars>>
  \/ /\ part = "catalog" /\ Catalog!Next
     /\ UNCHANGED <<part, captureVars, downloadVars, storeVars, jobsVars,
                    dictationVars, meetingVars, sessionVars>>
  \/ /\ part = "download" /\ Download!Next
     /\ UNCHANGED <<part, captureVars, catalogVars, storeVars, jobsVars,
                    dictationVars, meetingVars, sessionVars>>
  \/ /\ part = "store"
     /\ \/ Store!Proceed \/ Store!StartRevert \/ Store!Revoke("r")
        \/ result = "none" /\ \E r \in {"r", "s"}: Store!StartInstall(r) \/ Store!StartUpdate(r)
     /\ UNCHANGED <<part, captureVars, catalogVars, downloadVars, jobsVars,
                    dictationVars, meetingVars, sessionVars>>
  \/ /\ part = "jobs" /\ Jobs!Next
     /\ UNCHANGED <<part, captureVars, catalogVars, downloadVars, storeVars,
                    dictationVars, meetingVars, sessionVars>>
  \/ /\ part = "dictation" /\ Dictation!Next
     /\ UNCHANGED <<part, captureVars, catalogVars, downloadVars, storeVars,
                    jobsVars, meetingVars, sessionVars>>
  \/ /\ part = "meeting" /\ Meeting!Next
     /\ UNCHANGED <<part, captureVars, catalogVars, downloadVars, storeVars,
                    jobsVars, dictationVars, sessionVars>>
  \/ /\ part = "session" /\ Session!AdmissionNext
     /\ UNCHANGED <<part, captureVars, catalogVars, downloadVars, storeVars,
                    jobsVars, dictationVars, meetingVars>>

\* Dictation, with less than the fairness of the module: as often as a restart, the limit of a
\* recording, the end of a capture or a timer is due, one of them happens
Due ==
  \/ Dictation!Free /\ (\/ link = "restarting" \/ hotkey.state = "recording"
                        \/ link = "up" /\ microphone[1] = "closed")
  \/ \E timer \in Dictation!Timers : Dictation!CanFire(1, timer)
Happens ==
  \/ Dictation!Relaunch \/ Dictation!GiveUp \/ Dictation!KeyStop("limit reached") \/ Dictation!Stopped(1)
  \/ Dictation!Timeout(1)

DictationFairness ==
  /\ <>[](part = "dictation" /\ stack # <<>>) => []<><<part = "dictation" /\ Dictation!Unwind>>_dictationVars
  /\ []<>(part = "dictation" /\ Due) => []<><<part = "dictation" /\ Happens>>_dictationVars

\* The fairness of the other modules' own specifications
Fairness ==
  /\ WF_captureVars(part \in {"capture", "capture field"} /\ Capture!Advance(1))
  /\ WF_captureVars(part \in {"capture", "capture field"} /\ Capture!Deadline(1))
  /\ WF_captureVars(part = "capture field" /\ Capture!Deliver)
  /\ WF_captureVars(part = "capture field" /\ Capture!Joined)
  /\ WF_captureVars(part = "capture field" /\ Capture!Opened)
  /\ WF_catalogVars(part = "catalog" /\ Catalog!Refreshing)
  /\ SF_catalogVars(part = "catalog" /\ Catalog!Activating)
  /\ WF_downloadVars(part = "download" /\ Download!Proceed)
  /\ WF_storeVars(part = "store" /\ Store!Proceed)
  /\ WF_jobsVars(part = "jobs" /\ Jobs!Work)
  /\ DictationFairness /\ Meeting!Fairness
  /\ WF_sessionVars(part = "session" /\ Session!Deliver) /\ WF_sessionVars(part = "session" /\ Session!Question)
  /\ WF_sessionVars(part = "session" /\ world.screen \in {"locking", "unlocking"}
                     /\ (Session!ScreenLocks \/ Session!ScreenOpens))

Spec ==
  /\ Init
  /\ [][Next]_<<part, captureVars, catalogVars, downloadVars, storeVars, jobsVars,
               dictationVars, meetingVars, sessionVars>>
  /\ Fairness

-----------------------------------------------------------------------------
\* What a part leaves alone is at rest, so one statement serves several of them.

\* The keyboard is given back by the watchdog alone; with a GUI that handles its queue every
\* recording ends; and a card that shows work comes to rest (GrabEnds and CaptureEnds of
\* CaptureField, CardsSettle of ModelJobs)
Grabbed == part = "capture" /\ grab = 1
Capturing == part = "capture field" /\ field = "capturing" /\ owner = 1
Working == card[1] \in Jobs!Busy
WindowsSettle ==
  Grabbed \/ Capturing \/ Working ~> ~Grabbed /\ ~Capturing /\ (~Working \/ paused # None \/ shut)

\* A refresh of the catalogue, an activation, a download and an operation of the store end
\* (RefreshEnds and AskEnds of CatalogTrust, Ends of ModelDownload, OperationEnds of ModelStore)
AtWork == refresh.pc # "idle" \/ job.pc # "idle" \/ op.pc # "idle"
ModelWorkEnds == (AtWork ~> ~AtWork) /\ Catalog!AskEnds

\* A phrase leaves the queue, and what it leaves behind is cleared, whatever the worker does
\* (Dictation)
PhrasesEnd == Dictation!PhrasesEnd /\ Dictation!NothingLeftBehind

\* What records a meeting closes when it is told to, and may record again when the desktop may be
\* used (MeetingCapture, MeetingAdmission)
MeetingsEnd == Meeting!ClosesEnd /\ Session!AdmissionReturns
===============================================================================
