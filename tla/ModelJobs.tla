------------------------------- MODULE ModelJobs -------------------------------
(***************************************************************************)
(* The service behind the model cards: one queue of installations, the     *)
(* re-checks after it, the update of the working model and the switch of   *)
(* the recogniser.  All slots run in the GUI thread; a job runs in one     *)
(* thread and speaks through a channel of messages.                        *)
(***************************************************************************)
EXTENDS Naturals, Sequences, FiniteSets, SequencesExt

CONSTANTS
  N,            \* the models of the catalogue, in its order
  Updatable,    \* those the next catalogue has a second revision of
  None,         \* no model
  ManageInPause \* whether the user manages installed models while the queue waits for space

VARIABLES
  queue, active, paused,    \* _queue, _active_entry, _paused_entry: an entry is <<model, revision>>
  running, cancelled,       \* _queue_running, _queue_cancelled
  one, discard,             \* _cancelled_entry, _cancelled_discard
  qcur,                     \* _queue_current: the working model the queue must not displace
  card, dstate,             \* the states of the cards and of the line above them
  th, msgs, result, stop,   \* _model_thread, its channel, _model_result, _model_cancel
  rq, rechecking, oldcard,  \* _recheck_queue, _rechecking, _recheck_card
  started,                  \* _recheck_started
  sw,                       \* _switching_entry with what _switch_finished restores
  pend, seen,               \* _pending_catalog; the entries are those of the next catalogue
  shut,                     \* _shutting_down
  ok, bad, flagged,         \* the store: revisions in order, broken, and to be checked again
  ptr, part,                \* its pointer, and the stagings left on the disk
  chosen                    \* history: the revision that was last made the working one on purpose

qvars == <<queue, active, paused, running, cancelled, one, discard, qcur>>
jvars == <<th, msgs, result, stop>>
rvars == <<rq, rechecking, oldcard, started>>
store == <<ok, bad, flagged, ptr, part>>
vars == <<qvars, card, dstate, jvars, rvars, sw, pend, seen, shut, store, chosen>>

Models == 1..N
Entries == (Models \X {1}) \union (Updatable \X {2})
NoThread == [kind |-> "none", entry |-> None, pc |-> "none", prev |-> None]
NoSwitch == [entry |-> None, prev |-> None, update |-> FALSE]
Busy == {"queued", "downloading", "verifying", "switching", "updating"}

Entry(m) == <<m, IF seen /\ m \in Updatable THEN 2 ELSE 1>>
\* current_ids: a pointer to a revision in order that waits for no check
cur == IF ptr \in ok \ flagged THEN ptr ELSE None
\* _installed_revision: the working one, the catalogue's, or any other
Installed(m) == CHOOSE r \in {<<m, 1>>, <<m, 2>>} :
  IF cur # None /\ cur[1] = m THEN r = cur
  ELSE IF Entry(m) \in ok \union bad THEN r = Entry(m)
  ELSE r \in ok \union bad
HasRevision(m) == \E r \in ok \union bad : r[1] = m
Active(m) == HasRevision(m) /\ cur = Installed(m)
UpdateAvailable(m) == HasRevision(m) /\ Installed(m) # Entry(m)

IdleWhen(run, pau, act, rech, thr, s) ==
  /\ ~(run /\ pau = None) /\ act = None /\ ~rech /\ thr = NoThread /\ ~shut /\ s = NoSwitch
Idle == IdleWhen(running, paused, active, rechecking, th, sw)
Managed == Idle /\ started /\ (running => ManageInPause)

ByModel(S) == SetToSortSeq(S, LAMBDA a, b : a[1] < b[1])

Init ==
  /\ queue = <<>> /\ active = None /\ paused = None
  /\ running = FALSE /\ cancelled = FALSE /\ one = None /\ discard = TRUE
  /\ qcur = None
  /\ card = [m \in Models |-> "rest"] /\ dstate = "over"
  /\ th = NoThread /\ msgs = <<>> /\ result = "none" /\ stop = FALSE
  /\ ok \in SUBSET (Models \X {1}) /\ bad = {} /\ part = {}
  /\ flagged \in SUBSET ok /\ ptr \in {None} \union ok /\ chosen = ptr
  /\ rq = <<>> /\ rechecking = FALSE /\ oldcard = "rest" /\ started = FALSE
  /\ sw = NoSwitch /\ pend = FALSE /\ seen = FALSE /\ shut = FALSE

-----------------------------------------------------------------------------
(* Starting work.                                                          *)

Thread(kind, e) == [kind |-> kind, entry |-> e, pc |-> "run", prev |-> cur]
Launch(kind, e) == th' = Thread(kind, e) /\ msgs' = <<>> /\ result' = "none" /\ stop' = FALSE

\* Mutant: the line above the cards is not told
StartJobSilent(q, c) ==
  /\ active' = Head(q) /\ queue' = Tail(q) /\ Launch("install", Head(q))
  /\ card' = [c EXCEPT ![Head(q)[1]] = "downloading"] /\ UNCHANGED dstate

\* _start_model_job, once its guards hold
StartJob(q, c) ==
  /\ active' = Head(q) /\ queue' = Tail(q) /\ Launch("install", Head(q))
  /\ card' = [c EXCEPT ![Head(q)[1]] = "downloading"] /\ dstate' = "downloading"

\* _start_next_recheck at the end of a transition that leaves no other work
StartRecheck(q, c) ==
  /\ active' = Head(q) /\ rq' = Tail(q) /\ rechecking' = TRUE /\ oldcard' = c[Head(q)[1]]
  /\ Launch("recheck", Head(q))
  /\ card' = [c EXCEPT ![Head(q)[1]] = "verifying"] /\ dstate' = "verifying"

\* Mutant: nobody starts the next re-check
ThenRecheckNever(busy, c, d) ==
  /\ active' = None /\ rechecking' = FALSE /\ card' = c /\ dstate' = d
  /\ th' = NoThread /\ msgs' = <<>> /\ result' = "none"
  /\ UNCHANGED <<rq, oldcard, stop>>

\* the end of a job: the next re-check, or rest
ThenRecheck(busy, c, d) ==
  IF rq # <<>> /\ ~busy /\ ~shut THEN StartRecheck(rq, c)
  ELSE /\ active' = None /\ rechecking' = FALSE /\ card' = c /\ dstate' = d
       /\ th' = NoThread /\ msgs' = <<>> /\ result' = "none"
       /\ UNCHANGED <<rq, oldcard, stop>>

\* _accept_pending_catalog, where the signals it hangs on are emitted
Accepted(idle) == pend' = (pend /\ ~idle) /\ seen' = (seen \/ (pend /\ idle))

\* Mutant: only the first of them
MarkFirst(c, q, s) == IF q = <<>> THEN c ELSE [c EXCEPT ![q[1][1]] = s]

Mark(c, q, s) == [m \in Models |-> IF \E i \in DOMAIN q : q[i][1] = m THEN s ELSE c[m]]
InOrder(S) == ByModel({Entry(m) : m \in S})

\* _begin_queue
BeginQueue(q) ==
  /\ ~shut /\ ~running /\ ~rechecking /\ th = NoThread /\ sw = NoSwitch
  /\ running' = TRUE /\ cancelled' = FALSE /\ one' = None /\ discard' = TRUE
  /\ paused' = None /\ qcur' = cur
  /\ StartJob(q, Mark(card, q, "queued"))
  /\ UNCHANGED <<rvars, sw, pend, seen, shut, store, chosen>>

\* _append_queue: the rest of the work stays as it is
AppendQueue(S) ==
  LET new == {m \in S : card[m] \in {"rest", "failed"} /\ \A e \in (ToSet(queue) \union {active}) \ {None} : e[1] # m}
  IN  /\ running /\ ~cancelled /\ ~shut /\ new # {}
      /\ queue' = queue \o InOrder(new)
      /\ Accepted(Idle) /\ card' = Mark(card, InOrder(new), "queued")
      /\ UNCHANGED <<active, paused, running, cancelled, one, discard, qcur>>
      /\ UNCHANGED <<dstate, jvars, rvars, sw, shut, store, chosen>>

\* startSelectedDownloads with the marked models S that are not installed and not in the queue
StartSelected(S) ==
  /\ S # {} /\ started
  /\ \A m \in S : ~HasRevision(m) /\ card[m] # "policy"
       /\ \A e \in (ToSet(queue) \union {active, paused}) \ {None} : e[1] # m
  /\ IF running /\ ~cancelled THEN AppendQueue(S) ELSE BeginQueue(InOrder(S))

\* retryModel after a failure
RetryFailed(m) ==
  /\ sw = NoSwitch /\ ~rechecking /\ card[m] = "failed"
  /\ IF running THEN AppendQueue({m}) ELSE BeginQueue(<<Entry(m)>>)

\* Mutant: the continued model goes to the end of the queue and nothing starts
RetryPausedLate(m) ==
  /\ sw = NoSwitch /\ ~rechecking /\ ~shut /\ card[m] = "paused"
  /\ paused' = None /\ queue' = Append(queue, Entry(m)) /\ card' = [card EXCEPT ![m] = "queued"]
  /\ UNCHANGED <<active, running, cancelled, one, discard, qcur, dstate, jvars, rvars, sw, pend, seen, shut, store, chosen>>

\* retryModel of the model that waits for space, once there is space.  While another job
\* has the thread, _start_model_job returns at once
RetryPaused(m) ==
  /\ sw = NoSwitch /\ ~rechecking /\ ~shut /\ card[m] = "paused"
  /\ paused' = None
  /\ LET q == <<Entry(m)>> \o queue
         c == [card EXCEPT ![m] = "queued"]
     IN  IF cancelled \/ th # NoThread
         THEN queue' = q /\ card' = c /\ UNCHANGED <<active, jvars, dstate>>
         ELSE StartJob(q, c)
  /\ UNCHANGED <<running, cancelled, one, discard, qcur, rvars, sw, pend, seen, shut, store, chosen>>

-----------------------------------------------------------------------------
(* Cancelling.                                                             *)

\* _cancel_queue of the installations
CancelQueue(d) ==
  /\ running /\ ~cancelled
  /\ cancelled' = TRUE /\ discard' = d /\ stop' = TRUE /\ queue' = <<>> /\ dstate' = "over"
  /\ LET all == queue \o SelectSeq(<<active, paused>>, LAMBDA e : e # None)
         ends == active = None /\ paused # None
     IN  /\ one' = IF active # None /\ d THEN active ELSE one
         /\ running' = ~ends /\ paused' = IF ends THEN None ELSE paused
         /\ part' = IF ends /\ d THEN part \ {paused[1]} ELSE part
         /\ Accepted(~shut' /\ IdleWhen(~ends, None, active, FALSE, th, sw)) /\ card' = Mark(card, all, "rest")
  /\ UNCHANGED <<active, qcur, th, msgs, result, rechecking, oldcard, started, sw, ok, bad, flagged, ptr, chosen>>

\* cancelDownloads, and network_changed when the network is switched off
CancelDownloads(d) ==
  /\ ~shut /\ UNCHANGED shut
  /\ IF rechecking
     THEN /\ stop' = TRUE /\ rq' = <<>>
          /\ UNCHANGED <<qvars, card, dstate, th, msgs, result, rechecking, oldcard, started, sw, pend, seen, store, chosen>>
     ELSE CancelQueue(d) /\ UNCHANGED rq

\* dequeueModel
Dequeue(m) ==
  /\ ~shut /\ \E i \in DOMAIN queue : queue[i][1] = m
  /\ queue' = SelectSeq(queue, LAMBDA e : e[1] # m)
  /\ Accepted(Idle) /\ card' = [card EXCEPT ![m] = "rest"]
  /\ UNCHANGED <<active, paused, running, cancelled, one, discard, qcur, dstate, jvars, rvars, sw, shut, store, chosen>>

\* cancelModel of the active or the waiting one; the job of an update, if it has the thread, hears it too
CancelModel(m, d) ==
  LET e == IF active # None THEN active ELSE paused
      alone == paused # None /\ th = NoThread
      c == [card EXCEPT ![m] = "rest"]
  IN  /\ ~shut /\ sw = NoSwitch /\ ~rechecking
      /\ e # None /\ e[1] = m /\ \A i \in DOMAIN queue : queue[i][1] # m
      /\ card[m] \in {"downloading", "verifying", "paused"}
      /\ discard' = d
      /\ IF ~alone
         THEN /\ one' = e /\ stop' = TRUE /\ card' = c
              /\ UNCHANGED <<pend, seen, queue, active, paused, running, dstate, th, msgs, result, part>>
         ELSE /\ one' = None /\ paused' = None
              /\ part' = IF d THEN part \ {m} ELSE part
              /\ IF queue # <<>>
                 THEN StartJob(queue, c) /\ UNCHANGED <<running, pend, seen>>
                 ELSE /\ running' = FALSE /\ dstate' = "over" /\ stop' = TRUE /\ Accepted(TRUE) /\ card' = c
                      /\ UNCHANGED <<queue, active, th, msgs, result>>
      /\ UNCHANGED <<cancelled, qcur, rvars, sw, shut, ok, bad, flagged, ptr, chosen>>

-----------------------------------------------------------------------------
(* Installed models: the working one, removal, update.                     *)

\* make_current and switchModelWithPause: the pointer first, then the recogniser
MakeCurrent(m) ==
  /\ Managed /\ HasRevision(m) /\ Installed(m) \in ok /\ Installed(m) # cur
  /\ ptr' = Installed(m) /\ sw' = [entry |-> Installed(m), prev |-> cur, update |-> FALSE]
  /\ card' = [card EXCEPT ![m] = "switching"]
  /\ UNCHANGED <<qvars, dstate, jvars, rvars, pend, seen, shut, ok, bad, flagged, part, chosen>>

\* Mutant: after a failed switch the pointer stays where it is
RestoredNever(how) == ptr

\* what a failed switch leaves chosen: the model before it
Restored(how) == IF how # "ok" /\ sw.prev # None THEN sw.prev ELSE ptr

\* _switch_finished, with the answer of the recogniser
SwitchFinished(how) ==
  /\ sw # NoSwitch /\ ~shut
  /\ LET m == sw.entry[1]
         c == [card EXCEPT ![m] = IF sw.update THEN "told" ELSE "rest"]
     IN  /\ sw' = NoSwitch
         /\ ptr' = Restored(how)
         /\ qcur' = IF how = "ok" /\ running THEN cur ELSE qcur
         /\ chosen' = IF how = "ok" THEN sw.entry ELSE IF sw.prev = None THEN None ELSE chosen
         /\ Accepted(~running \/ paused # None)
         /\ ThenRecheck(running, c, dstate)
  /\ UNCHANGED <<queue, paused, running, cancelled, one, discard, started, shut, ok, bad, flagged, part>>

\* removeModel
RemoveModel(m) ==
  /\ Managed /\ HasRevision(m) /\ Installed(m) # cur /\ Installed(m) # paused
  /\ LET r == {Installed(m)}
     IN  /\ ok' = ok \ r /\ bad' = bad \ r /\ flagged' = flagged \ r
         /\ ptr' = IF ptr \in r THEN None ELSE ptr
         /\ chosen' = IF chosen \in r THEN None ELSE chosen
  /\ LET c == [card EXCEPT ![m] = "rest"]
     IN  IF paused = None THEN Accepted(TRUE) /\ card' = c /\ UNCHANGED dstate
         ELSE Accepted(TRUE) /\ card' = [c EXCEPT ![paused[1]] = "paused"] /\ dstate' = "no-space"
  /\ UNCHANGED <<qvars, jvars, rvars, sw, shut, part>>

\* _start_revision: the update of the working model, or the return to the revision before
StartRevision(e) ==
  /\ Managed /\ Active(e[1]) /\ e # cur
  /\ Launch("revision", e)
  /\ card' = [card EXCEPT ![e[1]] = "updating"]
  /\ UNCHANGED <<qvars, dstate, rvars, sw, pend, seen, shut, store, chosen>>
UpdateModel(m) ==
  /\ Managed /\ UpdateAvailable(m)
  /\ IF Active(m) THEN StartRevision(Entry(m)) ELSE BeginQueue(<<Entry(m)>>)
Revert(m) == \E e \in ok : e[1] = m /\ StartRevision(e)

\* cancelModelUpdate: too late once the updater activates
CancelUpdate ==
  /\ ~shut /\ th.kind = "revision" /\ th.pc = "run" /\ ~stop /\ stop' = TRUE
  /\ UNCHANGED <<qvars, card, dstate, th, msgs, result, rvars, sw, pend, seen, shut, store, chosen>>

\* reinstallModel
Reinstall(m) == Managed /\ HasRevision(m) /\ Installed(m) \in bad /\ BeginQueue(<<Entry(m)>>)

\* start_recheck, when the application starts
StartRechecks ==
  /\ ~started /\ ~shut /\ started' = TRUE
  /\ IF flagged = {} THEN UNCHANGED <<active, rq, rechecking, oldcard, jvars, card, dstate>>
     ELSE StartRecheck(ByModel(flagged), card)
  /\ UNCHANGED <<queue, paused, running, cancelled, one, discard, qcur, sw, pend, seen, shut, store, chosen>>

\* accept_catalog: a new list is drawn now or when the work is over
AcceptCatalog ==
  /\ started /\ ~shut /\ ~seen /\ ~pend
  /\ IF Idle THEN seen' = TRUE /\ UNCHANGED pend
     ELSE pend' = TRUE /\ UNCHANGED seen
  /\ UNCHANGED <<qvars, card, dstate, jvars, rvars, sw, shut, store, chosen>>

-----------------------------------------------------------------------------
(* The thread.                                                             *)

Tell(r) == msgs' = msgs \o <<r, "exit">> /\ th' = [th EXCEPT !.pc = "told"]
Quiet == UNCHANGED <<qvars, card, dstate, result, stop, rvars, sw, pend, seen, shut, chosen>>

\* _ModelJob before the files are all there
Download ==
  /\ th.kind = "install" /\ th.pc = "run"
  /\ \/ Tell("policy") /\ UNCHANGED part
     \/ /\ \E r \in {"failed", "no-space"} \union (IF stop THEN {"cancelled"} ELSE {}) : Tell(r)
        /\ part' \in {part, part \union {th.entry[1]}}
     \/ /\ ~stop /\ msgs' = Append(msgs, "verifying") /\ th' = [th EXCEPT !.pc = "check"]
        /\ part' = part \union {th.entry[1]}
  /\ Quiet /\ UNCHANGED <<ok, bad, flagged, ptr>>

\* the installer: the new revision is the working one before the GUI hears of it
Install ==
  LET e == {th.entry}
  IN  /\ th.kind = "install" /\ th.pc = "check"
      /\ \/ /\ Tell("installed") /\ ok' = ok \union e /\ bad' = bad \ e /\ flagged' = flagged \ e
            /\ ptr' = th.entry /\ part' = part \ {th.entry[1]}
         \/ /\ Tell("failed") /\ ok' = ok \ e /\ bad' = bad \union e /\ flagged' = flagged \ e
            /\ part' = part \ {th.entry[1]} /\ UNCHANGED ptr
         \/ /\ \E r \in {"failed", "no-space"} \union (IF stop THEN {"cancelled"} ELSE {}) : Tell(r)
            /\ UNCHANGED store
      /\ Quiet

\* Mutant: a cancelled re-check says nothing
RecheckSilent ==
  /\ th.kind = "recheck" /\ th.pc = "run" /\ ~stop
  /\ \E r \in {"cancelled", "installed", "failed"} : Tell(r)
  /\ Quiet /\ UNCHANGED store

\* _RecheckJob changes nothing; without a verdict it says "cancelled"
Recheck ==
  /\ th.kind = "recheck" /\ th.pc = "run"
  /\ \E r \in {"cancelled"} \union (IF stop THEN {} ELSE {"installed", "failed"}) : Tell(r)
  /\ Quiet /\ UNCHANGED store

\* _RevisionJob: the files, then the pointer
Fetch ==
  /\ th.kind = "revision" /\ th.pc = "run"
  /\ \/ Tell("failed") /\ UNCHANGED <<ok, bad>>
     \/ /\ ~stop /\ ok' = ok \union {th.entry} /\ bad' = bad \ {th.entry}
        /\ th' = [th EXCEPT !.pc = "activating"] /\ UNCHANGED msgs
  /\ Quiet /\ UNCHANGED <<flagged, ptr, part>>
Activate ==
  /\ th.kind = "revision" /\ th.pc = "activating"
  /\ \/ Tell("updated") /\ ptr' = th.entry
     \/ Tell("failed") /\ UNCHANGED ptr
  /\ Quiet /\ UNCHANGED <<ok, bad, flagged, part>>

\* the thread ends a moment after its last message
Die ==
  /\ th.pc = "told" /\ th' = [th EXCEPT !.pc = "dead"]
  /\ UNCHANGED <<msgs, store>> /\ Quiet

-----------------------------------------------------------------------------
(* The GUI hears of it.                                                    *)

\* _model_staged and _model_finished, from _drain_channel
Hear ==
  /\ msgs # <<>> /\ Head(msgs) # "exit" /\ msgs' = Tail(msgs)
  /\ IF Head(msgs) = "verifying"
     THEN /\ UNCHANGED result
          /\ IF cancelled \/ active = None THEN UNCHANGED <<card, dstate>>
             ELSE card' = [card EXCEPT ![active[1]] = "verifying"] /\ dstate' = "verifying"
     ELSE result' = Head(msgs) /\ UNCHANGED <<card, dstate>>
  /\ UNCHANGED <<qvars, th, stop, rvars, sw, pend, seen, shut, store, chosen>>

\* the exit is taken up once the thread is gone: _model_thread_finished joins it, or asks again
Exited(kind) == msgs # <<>> /\ Head(msgs) = "exit" /\ th.pc = "dead" /\ th.kind = kind

\* _keep_current: an installation does not take the place of a model that works
KeepCurrent ==
  IF qcur \in ok
  THEN ptr' = qcur /\ UNCHANGED <<qcur, chosen>>
  ELSE /\ qcur' = active /\ UNCHANGED ptr
       /\ chosen' = IF chosen \in ok \ flagged THEN chosen ELSE active

\* Mutant: a cancelled download is thrown away on the way out as well
StagingLost(this) == IF this /\ discard THEN part \ {active[1]} ELSE part

\* the cancelled download is thrown away, unless the application ends
Staging(this) == IF this /\ discard /\ ~shut THEN part \ {active[1]} ELSE part

\* _model_thread_finished of an installation
FinishInstall ==
  LET this == one = active
      m == active[1]
      st == IF this /\ result # "installed" THEN "cancelled" ELSE result
      face == CASE st = "installed" -> "told"
                [] st # "installed" /\ (cancelled \/ st = "cancelled") -> "rest"
                [] st = "no-space" /\ ~cancelled -> "paused"
                [] OTHER -> st
      c == [card EXCEPT ![m] = face]
      waits == face = "paused"
      more == ~waits /\ queue # <<>> /\ ~cancelled /\ ~shut
  IN  /\ Exited("install")
      /\ one' = IF this THEN None ELSE one
      /\ part' = Staging(this)
      /\ IF st = "installed" THEN KeepCurrent ELSE UNCHANGED <<qcur, ptr, chosen>>
      /\ paused' = IF waits THEN active ELSE paused
      /\ IF more
         THEN StartJob(queue, c) /\ UNCHANGED <<running, rq, rechecking, oldcard, pend, seen>>
         ELSE /\ Accepted(~shut) /\ running' = waits /\ queue' = IF waits THEN queue ELSE <<>>
              /\ ThenRecheck(waits, c,
                   IF waits THEN "no-space" ELSE "over")
      /\ UNCHANGED <<cancelled, discard, started, sw, shut, ok, bad, flagged>>

\* _finish_recheck
FinishRecheck ==
  LET st == IF stop \/ shut THEN "cancelled" ELSE result
      e == {active}
      c == [card EXCEPT ![active[1]] = IF st = "cancelled" THEN oldcard ELSE IF st = "failed" THEN st ELSE "told"]
      drawn == st # "cancelled"
  IN  /\ Exited("recheck")
      /\ flagged' = IF drawn THEN flagged \ e ELSE flagged
      /\ ok' = IF st = "failed" THEN ok \ e ELSE ok
      /\ bad' = IF st = "failed" THEN bad \union e ELSE bad
      /\ IF st = "installed" /\ ~(ptr \in ok \ (flagged \ e))
         THEN ptr' = active /\ chosen' = active ELSE UNCHANGED <<ptr, chosen>>
      /\ Accepted(drawn)
      /\ ThenRecheck(FALSE, c, "over")
      /\ UNCHANGED <<queue, paused, running, cancelled, one, discard, qcur, started, sw, shut, part>>

\* _finish_revision: the updated model is loaded, or the card tells the failure
FinishRevision ==
  LET m == th.entry[1]
      idle == ~(running /\ paused = None) /\ ~shut
  IN  /\ Exited("revision")
      /\ IF result = "updated"
         THEN /\ sw' = [entry |-> th.entry, prev |-> th.prev, update |-> TRUE]
              /\ card' = [card EXCEPT ![m] = "switching"]
              /\ th' = NoThread /\ msgs' = <<>> /\ result' = "none"
              /\ UNCHANGED <<active, dstate, stop, rq, rechecking, oldcard, pend, seen>>
         ELSE /\ UNCHANGED sw
              /\ Accepted(idle /\ (rq = <<>> \/ running))
              /\ ThenRecheck(running, [card EXCEPT ![m] = "told"], dstate)
      /\ UNCHANGED <<queue, paused, running, cancelled, one, discard, qcur, started, shut, store, chosen>>

\* shutdown closes the channel, cancels, and waits for the thread
Shutdown ==
  /\ ~shut /\ shut' = TRUE /\ rq' = <<>>
  /\ IF running /\ ~cancelled /\ ~rechecking THEN CancelQueue(FALSE)
     ELSE /\ stop' = TRUE
          /\ UNCHANGED <<qvars, card, dstate, th, msgs, result, rechecking, oldcard, started, sw, pend, seen, store, chosen>>
\* five seconds later it is left behind
Abandon ==
  /\ shut /\ th.pc \in {"run", "check", "activating"}
  /\ th' = NoThread /\ msgs' = <<>> /\ UNCHANGED store /\ Quiet

-----------------------------------------------------------------------------
User ==
  \/ \E S \in SUBSET Models : StartSelected(S)
  \/ \E m \in Models :
       \/ RetryFailed(m) \/ RetryPaused(m) \/ Dequeue(m) \/ MakeCurrent(m) \/ RemoveModel(m)
       \/ UpdateModel(m) \/ Revert(m) \/ Reinstall(m)
       \/ \E d \in BOOLEAN : CancelModel(m, d)
  \/ \E d \in BOOLEAN : CancelDownloads(d)
  \/ CancelUpdate \/ Shutdown
Work ==
  \/ Download \/ Install \/ Recheck \/ Fetch \/ Activate \/ Die
  \/ Hear \/ FinishInstall \/ FinishRecheck \/ FinishRevision
  \/ \E how \in {"ok", "failed"} : SwitchFinished(how)
  \/ StartRechecks
Next == User \/ Work \/ AcceptCatalog \/ Abandon
Spec == Init /\ [][Next]_vars
LiveSpec == Spec /\ WF_vars(Work)
-----------------------------------------------------------------------------
TypeOK ==
  /\ queue \in Seq(Entries) /\ {active, paused, one, qcur, ptr, chosen} \subseteq Entries \union {None}
  /\ running \in BOOLEAN /\ cancelled \in BOOLEAN /\ rechecking \in BOOLEAN
  /\ card \in [Models -> Busy \union {"rest", "paused", "told", "failed", "policy"}]
  /\ dstate \in {"over", "downloading", "verifying", "no-space"}
  /\ th.kind \in {"none", "install", "recheck", "revision"} /\ Len(msgs) <= 3
  /\ ToSet(rq) \subseteq ok /\ flagged \subseteq ok /\ ok \intersect bad = {} /\ ok \union bad \subseteq Entries

\* Installing, re-checking and failed switches never take the place of the working model the user
\* chose, as long as it is in order (KeepCurrent, SwitchFinished)
ChoiceHolds == th = NoThread /\ sw = NoSwitch /\ chosen \in ok \ flagged => cur = chosen

\* A card that shows work has that work behind it, whatever was cancelled or failed in between
CardHasWork == ~shut => \A m \in Models :
  /\ card[m] \in {"downloading", "verifying"} => active # None /\ active[1] = m /\ th # NoThread
  /\ card[m] = "updating" => th.kind = "revision" /\ th.entry[1] = m
  /\ card[m] = "switching" => sw # NoSwitch /\ sw.entry[1] = m
  /\ card[m] = "queued" => \E i \in DOMAIN queue : queue[i][1] = m

\* The line above the cards shows progress only while a job runs, and lack of space only while a model waits for it
LineIsTrue ==
  /\ dstate \in {"downloading", "verifying"} => active # None
  /\ dstate = "no-space" => paused # None

\* A queue without a job waits for space, and the card of the model it waits for offers to go on or to cancel
PauseCanEnd ==
  running /\ ~shut /\ th = NoThread /\ sw = NoSwitch => paused # None /\ card[paused[1]] = "paused"

\* No re-check waits while the service rests: whoever ends a job starts the next one
RechecksFollow == Idle /\ ~running => rq = <<>>

\* A way out keeps what was downloaded: only an installation or a cancellation before it takes a staging away
StagingKept == [][shut => \A m \in part \ part' : th.pc = "check" /\ th.entry[1] = m]_vars

\* What the cards promise has work behind it: a card that shows work, and a re-check that waits
PromisesHaveWork == CardHasWork /\ RechecksFollow

\* What the queue shows is what it waits for, and the user can end the wait
QueueTruthful == LineIsTrue /\ PauseCanEnd

\* A card that shows work of its own comes to rest, unless the queue waits for space
CardsSettle == \A m \in Models : card[m] \in Busy ~> card[m] \notin Busy \/ paused # None \/ shut
=============================================================================
