----------------------------- MODULE Supervisor ------------------------------
(***************************************************************************)
(* The supervisor of the speech worker (worker/supervisor.py, role         *)
(* "worker"): it correlates the worker's answers with the requests of the  *)
(* GUI, times the requests out, and replaces a process that has crashed,   *)
(* hung or broken the protocol.                                            *)
(*                                                                         *)
(* Everything runs in the GUI thread, but every event is a callback, and   *)
(* a callback may send, stop, kill, or run a nested event loop that pumps  *)
(* the supervisor again (a paste does).  What the interrupted calls have   *)
(* left to do is the stack todo, and GUI actions may come between any two  *)
(* of its items.  The worker is an environment that reads requests in any  *)
(* order, answers each at most once, and may also crash, hang, or talk     *)
(* nonsense.                                                               *)
(***************************************************************************)
EXTENDS Naturals, Sequences, FiniteSets

CONSTANTS
  Utts,             \* utterance ids the GUI may use
  Stages,           \* requests about an utterance, other than record.cancel
  Replies,          \* requests without an id: at most one of each waits
  None,             \* no id, no request type, no restart
  MaxRestarts,      \* MAX_RESTARTS
  GenerationLimit,  \* bound: generations explored
  AskLimit,         \* bound: unanswered requests of one key
  TodoLimit         \* bound: depth of nested event loops

ASSUME StagesAssumption ==
  Stages \subseteq {"record.start", "record.stop", "recognize"}
ASSUME RepliesAssumption == Replies \subseteq {"model.load", "audio.close"}
ASSUME NoneAssumption == None \notin Utts \cup Stages \cup Replies \cup {"record.cancel"}
ASSUME LimitAssumption ==
  /\ MaxRestarts \in Nat \ {0} /\ GenerationLimit \in Nat \ {0}
  /\ AskLimit \in Nat /\ TodoLimit \in Nat

VARIABLES
  state,        \* state: "new", "running" or "stopped"
  generation,   \* generation
  hello,        \* _hello_accepted
  pending,      \* the keys of _pending
  timed,        \* waits with a deadline
  due,          \* waits whose deadline has passed
  quiet,        \* waits since whose request the worker has said nothing
  finished,     \* _finished
  restarts,     \* the length of _restarts
  restart,      \* _restart_pending
  todo,         \* frames to accept and events to emit, innermost call first
  proc,         \* the process: "none", "starting", "alive", "killed", "exited"
  living,       \* processes that have not exited
  asked,        \* how many requests of each key the process has not answered
  out,          \* the event emitted by the last step
  owed,         \* requests accepted and not settled (for properties)
  over          \* ids finished in this generation (for properties)

waits   == <<pending, timed, due, quiet, finished, over>>
process == <<proc, living, asked>>
life    == <<state, generation, hello, restarts, restart>>
vars    == <<waits, life, process, todo, out, owed>>

-----------------------------------------------------------------------------
Key(u, kind) == [uid |-> u, kind |-> kind]
Chains == {Key(u, s) : u \in Utts, s \in Stages}
Cancels == {Key(u, "record.cancel") : u \in Utts}
Keys == Chains \cup Cancels \cup {Key(None, r) : r \in Replies}

\* _finished holds ids and, for requests without an id, their answer's type.
Topic(k) == IF k.uid = None THEN k.kind ELSE k.uid

\* The stages of u that wait; a cancellation is not one of them.
Chain(u) == {k \in pending : k.uid = u /\ k.kind # "record.cancel"}

\* Mutated Retired: the result also settles the cancellation.
RetiredAll(u) == {k \in pending : k.uid = u}

\* _retire_chain: a result ends the earlier stages, not the cancellation.
Retired(u) == Chain(u)

Message == [type : {"hello", "mismatch", "notice", "result", "cancelled",
                    "done", "error"},
            uid : Utts \cup {None}, kind : {k.kind : k \in Keys} \cup {None},
            gen : 1..GenerationLimit]

\* from is the generation of the process that wrote it, 0 for the supervisor's own.
Event == [type : {"hello", "notice", "result", "cancelled", "done", "error",
                  "timeout", "lost", "stopped"},
          uid : Utts \cup {None}, kind : {k.kind : k \in Keys} \cup {None},
          gen : 1..GenerationLimit, from : 0..GenerationLimit,
          settles : SUBSET Keys]

\* A restart that waits, _restart_pending
Restarts == [gen : 1..GenerationLimit, relaunch : BOOLEAN, batch : SUBSET Event]
ASSUME RestartAssumption == None \notin Restarts

Own(type, k, g) == [type |-> type, uid |-> k.uid, kind |-> k.kind, gen |-> g,
                    from |-> 0, settles |-> {k} \cap Keys]
General(type, g) == Own(type, Key(None, None), g)
Pass(m, settled) == [type |-> m.type, uid |-> m.uid, kind |-> m.kind,
                     gen |-> generation, from |-> m.gen, settles |-> settled]

Frame(m)  == [tag |-> "frame", msg |-> m]
Events(S) == IF S = {} THEN <<>> ELSE <<[tag |-> "events", batch |-> S]>>
Broken(g) == [tag |-> "broken", gen |-> g]

\* _emit: the callback for one event of S; the rest of S, then rest, follow it.
Say(S, rest) ==
  IF S = {}
  THEN todo' = rest /\ out' = {} /\ UNCHANGED owed
  ELSE \E e \in S :
         /\ out' = {e}
         /\ owed' = [k \in Keys |-> IF k \in e.settles THEN owed[k] - 1 ELSE owed[k]]
         /\ todo' = Events(S \ {e}) \o rest

NoAsked == [k \in Keys |-> 0]

Init ==
  /\ state = "new" /\ generation = 1 /\ hello = FALSE
  /\ restarts = 0 /\ restart = None
  /\ pending = {} /\ timed = {} /\ due = {} /\ quiet = {} /\ finished = {}
  /\ todo = <<>>
  /\ proc = "none" /\ living = 0 /\ asked = NoAsked
  /\ out = {} /\ owed = NoAsked /\ over = {}

-----------------------------------------------------------------------------
(* Starting, closing, restarting.                                          *)

\* _launch
Launch ==
  /\ proc' = "starting" /\ living' = living + 1

Start ==
  /\ state = "new"
  /\ UNCHANGED <<waits, generation, hello, restarts, restart, asked>>
  /\ \/ Launch /\ state' = "running" /\ Say({}, todo)
     \/ /\ state' = "stopped" /\ UNCHANGED <<proc, living>>
        /\ Say({General("stopped", generation)}, todo)

\* _close_connection
Disconnect ==
  /\ hello' = FALSE
  /\ pending' = {} /\ timed' = {} /\ due' = {} /\ quiet' = {}
  /\ finished' = {} /\ over' = {}
  /\ asked' = NoAsked

\* Mutated Killed: the old process is left to itself.
KilledNever == proc

\* SIGKILL; the process may take its time.
Killed == IF proc \in {"starting", "alive"} THEN "killed" ELSE proc

\* _restart: the waits P end with an error, once the process has exited.
Restart(P, relaunch) ==
  IF restart # None
  THEN UNCHANGED <<waits, life, process>>
  ELSE /\ Disconnect
       /\ restart' = [gen |-> generation, relaunch |-> relaunch,
                      batch |-> {Own("lost", k, generation) : k \in P} \cup
                                IF relaunch THEN {} ELSE {General("lost", generation)}]
       /\ state' = IF relaunch THEN state ELSE "stopped"
       /\ proc' = Killed
       /\ UNCHANGED <<generation, restarts, living>>

\* Mutated Gone: a signal sent is taken for an exit.
GoneOnKill == proc \in {"killed", "exited", "none"}

\* Only an exit that poll() has confirmed ends a generation.
Gone == proc \in {"exited", "none"}

\* The events of a restart; there is always one.
Losses(g) == IF restart.batch = {} THEN {General("lost", g)} ELSE restart.batch

\* The events of a restart that has failed, and at last e.
Conclude(e) ==
  IF restart.batch = {} THEN Say({e}, todo) ELSE Say(restart.batch, Events({e}) \o todo)

\* _poll_restart, the old process having gone: a restart that is not wanted or not
\* allowed (launch_allowed), or one too many.
GiveUp ==
  /\ restart # None /\ Gone
  /\ Len(todo) < TodoLimit
  /\ restart' = None /\ state' = "stopped"
  /\ UNCHANGED <<waits, generation, hello, restarts, process>>
  /\ \/ Say(Losses(restart.gen), todo)
     \/ /\ restart.relaunch /\ restarts = MaxRestarts
        /\ Conclude(General("stopped", generation))

\* The next generation; Popen may fail.
Relaunch ==
  /\ restart # None /\ restart.relaunch /\ Gone
  /\ restarts < MaxRestarts /\ generation < GenerationLimit
  /\ Len(todo) < TodoLimit
  /\ restart' = None
  /\ restarts' = restarts + 1 /\ generation' = generation + 1
  /\ UNCHANGED <<waits, hello, asked>>
  /\ \/ Launch /\ UNCHANGED state /\ Say(Losses(generation'), todo)
     \/ /\ state' = "stopped" /\ UNCHANGED <<proc, living>>
        /\ Conclude(General("stopped", generation'))

\* RESTART_WINDOW_S has passed for the oldest restart.
WindowPasses ==
  /\ restarts > 0
  /\ restarts' = restarts - 1 /\ out' = {}
  /\ UNCHANGED <<waits, state, generation, hello, restart, process, todo, owed>>

\* Mutated Forsaken: stop() leaves the restart it interrupts pending.
ForsakenNever == restart

\* The restart that stop() and kill() cancel, with its events.
Forsaken == None

\* stop() and kill(): terminal, and without a word to the waits.
Halt ==
  /\ state # "new"
  /\ state' = "stopped"
  /\ restart' = Forsaken
  /\ Disconnect
  /\ proc' \in {Killed, IF proc = "none" THEN proc ELSE "exited"}
  /\ living' = IF proc' = "exited" /\ ~Gone THEN living - 1 ELSE living
  /\ owed' = [k \in Keys |-> owed[k]
                - (IF k \in pending THEN 1 ELSE 0)
                - (IF restart # None /\ \E e \in restart.batch : k \in e.settles
                   THEN 1 ELSE 0)]
  /\ out' = {}
  /\ UNCHANGED <<generation, restarts, todo>>

-----------------------------------------------------------------------------
(* Requests.                                                               *)

\* Waits whose deadline a request without a timeout of its own inherits.
Lenders(k) == {p \in timed : p.uid = k.uid /\ k.uid # None}

Admitted(k) ==
  /\ state = "running" /\ restart = None
  /\ k.kind \notin {"model.load", "recognize"} => hello
  /\ k.uid \in finished => k.kind = "record.cancel"
  /\ k.uid = None => k \notin pending

\* The socket has taken the request; with a timeout of its own, an inherited one
\* or none.
Await(k, timeout) ==
  /\ pending' = pending \cup {k}
  /\ finished' = finished \ {Topic(k)}
  /\ asked' = [asked EXCEPT ![k] = @ + 1]
  /\ \/ /\ timeout
        /\ timed' = timed \cup {k} /\ due' = due \ {k} /\ quiet' = quiet \cup {k}
     \/ /\ ~timeout
        /\ \E p \in Lenders(k) :
             /\ timed' = timed \cup {k} /\ quiet' = quiet \cup {k}
             /\ due' = (due \ {k}) \cup (IF p \in due THEN {k} ELSE {})
     \/ /\ ~timeout /\ Lenders(k) = {}
        /\ quiet' = quiet \cup ({k} \ pending)
        /\ UNCHANGED <<timed, due>>
  /\ UNCHANGED <<over, life, proc, living>>

\* send(): to a socket the process has closed it is a restart.
Send(k, timeout) ==
  /\ Admitted(k)
  /\ asked[k] < AskLimit /\ owed[k] < 2
  /\ IF Gone THEN Restart(pending \cup {k}, TRUE) ELSE Await(k, timeout)
  /\ owed' = IF k \in pending THEN owed ELSE [owed EXCEPT ![k] = @ + 1]
  /\ out' = {}
  /\ UNCHANGED todo

\* Time: the deadline of a wait passes.
Tick(k) ==
  /\ k \in timed \ due
  /\ due' = due \cup {k} /\ out' = {}
  /\ UNCHANGED <<pending, timed, quiet, finished, over, life, process, todo, owed>>

\* Mutated Finish: the deadline of a wait outlives it.
FinishDeadlineLeft(S) ==
  /\ pending' = pending \ S /\ UNCHANGED <<timed, due>>
  /\ finished' = finished \cup {Topic(k) : k \in S}
  /\ over' = over \cup finished'

\* The waits S are over.
Finish(S) ==
  /\ pending' = pending \ S /\ timed' = timed \ S /\ due' = due \ S
  /\ finished' = finished \cup {Topic(k) : k \in S}
  /\ over' = over \cup finished'

\* _expire: a silent worker or a load that is late is a worker that hangs.
Expire ==
  /\ state = "running" /\ restart = None /\ due # {}
  /\ Len(todo) < TodoLimit
  /\ IF \E k \in due : k.kind = "model.load" \/ k \in quiet
     THEN /\ Restart(pending, TRUE)
          /\ Say({}, todo)
     ELSE /\ Finish(due) /\ quiet' = quiet \ due
          /\ UNCHANGED <<life, process>>
          /\ Say({Own("timeout", k, generation) : k \in due}, todo)

-----------------------------------------------------------------------------
(* What the worker says.                                                   *)

Says(type, k) == [type |-> type, uid |-> k.uid, kind |-> k.kind, gen |-> generation]

Answers(k) ==
  CASE k.kind = "recognize"     -> {"result", "cancelled", "error"}
    [] k.kind = "record.cancel" -> {"cancelled", "error"}
    [] k.uid = None             -> {"done", "error"}
    [] OTHER                    -> {"error"}

\* What nobody has asked for: a notification, a capture error, an error of no request.
Unasked ==
  {Says(type, Key(u, None)) : u \in Utts, type \in {"notice", "error"}}
    \cup {Says("error", Key(None, None))}

\* What the worker may have written: answers, and what nobody has asked for.
Writes(q) ==
  IF proc = "starting"
  THEN {Says(type, Key(None, None)) : type \in {"hello", "mismatch"}}
  ELSE Unasked \cup UNION {{Says(type, k) : type \in Answers(k)} : k \in {k \in Keys : q[k] > 0}}

\* The questions q without the one that m answers.
Unanswered(q, m) ==
  [k \in Keys |-> IF k = Key(m.uid, m.kind) /\ m.kind # None THEN q[k] - 1 ELSE q[k]]

\* pump() reads a frame or two.  (What a worker has written and nobody has read is
\* lost with the socket, so it is written here.)
Receive ==
  /\ state = "running" /\ restart = None /\ due = {}
  /\ proc \in {"starting", "alive"} \/ (proc = "exited" /\ hello)
  /\ \E m \in Writes(asked) :
       LET rest == Unanswered(asked, m)
       IN  \/ asked' = rest /\ Say({}, <<Frame(m)>> \o todo)
           \/ /\ proc # "starting"
              /\ \E n \in Writes(rest) :
                   /\ asked' = Unanswered(rest, n)
                   /\ Say({}, <<Frame(m), Frame(n)>> \o todo)
  /\ Len(todo') <= TodoLimit
  /\ proc' = IF proc = "starting" THEN "alive" ELSE proc
  /\ UNCHANGED <<waits, life, living>>

\* A frame whose length or form is broken spoils everything read with it.
ReceiveGarbage ==
  /\ state = "running" /\ restart = None /\ due = {} /\ proc = "alive"
  /\ Len(todo) < TodoLimit
  /\ Say({General("error", generation)}, <<Broken(generation)>> \o todo)
  /\ UNCHANGED <<waits, life, process>>

\* The end of the stream, or poll() of the process.
NoticeExit ==
  /\ state = "running" /\ restart = None /\ due = {} /\ Gone
  /\ Restart(pending, TRUE)
  /\ Say({}, todo)

Called == todo # <<>>
Pop   == Tail(todo)

\* Mutated Fresh: what was read before a restart is accepted after it.
FreshAlways(g) == TRUE

\* The connection the frame came from is still the current one.
Fresh(g) == state = "running" /\ g = generation

\* _emit of a frame that has ended the waits S, or none.
Forward(m, S, retired) ==
  /\ Finish(S \cup retired)
  /\ quiet' = {}
  /\ UNCHANGED <<life, process>>
  /\ Say({Pass(m, S \cup (retired \cap Chain(m.uid)))}, Pop)

Drop == Say({}, Pop) /\ UNCHANGED <<waits, life, process>>

AcceptHello(m) ==
  /\ m.type = "hello"
  /\ hello' = TRUE
  /\ UNCHANGED <<waits, state, generation, restarts, restart, process>>
  /\ Say({Pass(m, {})}, Pop)

AcceptMismatch(m) ==
  /\ m.type = "mismatch"
  /\ Restart(pending, FALSE)
  /\ Say({}, Pop)

\* Mutated Extended: any notification gives the cancellation more time.
ExtendedAll(u) == {k \in timed : k.uid = u}

\* A notification gives the stages of its phrase their time again.
Extended(u) == timed \cap Chain(u)

AcceptNotice(m) ==
  /\ m.type = "notice"
  /\ due' = due \ Extended(m.uid)
  /\ quiet' = {}
  /\ UNCHANGED <<pending, timed, finished, over, life, process>>
  /\ Say({Pass(m, {})}, Pop)

\* The earlier stages that an answer ends with its own request: an error of the
\* cancellation does so when its code is "bad-state".
Ended(m) ==
  CASE m.type # "error" \/ m.kind = "recognize" -> {Retired(m.uid)}
    [] m.type = "error" /\ m.kind = "record.cancel" -> {Retired(m.uid), {}}
    [] OTHER -> {{}}

\* A result, a cancellation, or a typed error: the answer of one request.
AcceptAnswer(m) ==
  LET k == Key(m.uid, m.kind)
  IN  /\ m.type \in {"result", "cancelled", "error"} /\ m.uid # None /\ m.kind # None
      /\ IF k \in pending
         THEN \E retired \in Ended(m) : Forward(m, {k}, retired)
         ELSE Drop

\* An answer without an id; one that nobody waits for and nobody has had.
AcceptDone(m) ==
  LET k == Key(None, m.kind)
  IN  /\ m.type = "done" \/ (m.type = "error" /\ m.uid = None /\ m.kind # None)
      /\ IF k \in pending THEN Forward(m, {k}, {})
         ELSE IF m.type = "error" \/ Topic(k) \in finished THEN Drop
         ELSE Forward(m, {}, {})

\* A capture error: an event of its own; it ends a wait only if there is no other.
AcceptAudioError(m) ==
  LET waiting == {k \in pending : k.uid = m.uid}
  IN  /\ m.type = "error" /\ m.uid # None /\ m.kind = None
      /\ IF waiting = {} THEN Drop
         ELSE Forward(m, IF Cardinality(waiting) = 1 THEN Chain(m.uid) ELSE {}, {})

\* Mutated Nameless: the error is taken for the answer of everything.
NamelessAll == pending

\* The waits that an error without id and type may be about.
Nameless == {k \in pending : k.uid = None}

\* An error that names nothing ends every wait without an id, and no other.
AcceptError(m) ==
  /\ m.type = "error" /\ m.uid = None /\ m.kind = None
  /\ IF Nameless = {} THEN Forward(m, {}, {})
     ELSE /\ Finish(Nameless)
          /\ quiet' = {}
          /\ UNCHANGED <<life, process>>
          /\ Say({[Pass(m, {k}) EXCEPT !.kind = k.kind] : k \in Nameless}, Pop)

Accept ==
  /\ Called /\ todo[1].tag = "frame"
  /\ LET m == todo[1].msg
     IN  IF ~Fresh(m.gen) THEN Drop
         ELSE \/ AcceptHello(m) \/ AcceptMismatch(m) \/ AcceptNotice(m)
              \/ AcceptAnswer(m) \/ AcceptDone(m)
              \/ AcceptAudioError(m) \/ AcceptError(m)

\* A broken frame ends the connection, unless its callback has done so.
Break ==
  /\ Called /\ todo[1].tag = "broken"
  /\ IF Fresh(todo[1].gen) THEN Restart(pending, TRUE)
     ELSE UNCHANGED <<waits, life, process>>
  /\ Say({}, Pop)

\* The callback of an event has returned, the next one of its batch is called.
Emit ==
  /\ Called /\ todo[1].tag = "events"
  /\ UNCHANGED <<waits, life, process>>
  /\ Say(todo[1].batch, Pop)

-----------------------------------------------------------------------------
(* The worker's process.                                                   *)

Die ==
  /\ proc \in {"starting", "alive", "killed"}
  /\ proc' = "exited" /\ living' = living - 1 /\ out' = {}
  /\ UNCHANGED <<waits, life, todo, asked, owed>>

-----------------------------------------------------------------------------
Gui == Start \/ Halt \/ \E k \in Keys, timeout \in BOOLEAN : Send(k, timeout)
Pump == Expire \/ Receive \/ ReceiveGarbage \/ NoticeExit \/ GiveUp \/ Relaunch
Unwind == Accept \/ Break \/ Emit
Time == WindowPasses \/ \E k \in Keys : Tick(k)

Next == Gui \/ Pump \/ Unwind \/ Time \/ Die

Spec == Init /\ [][Next]_vars

\* The GUI's timer pumps, callbacks return, time passes, and a process that is
\* killed exits in the end.  Nothing is assumed of a worker that lives.
Fairness ==
  /\ WF_vars(Expire) /\ WF_vars(Receive) /\ WF_vars(NoticeExit)
  /\ WF_vars(GiveUp \/ Relaunch)
  /\ WF_vars(Unwind)
  /\ \A k \in Keys : WF_vars(Tick(k))
  /\ WF_vars(proc = "killed" /\ Die)

-----------------------------------------------------------------------------
(* Properties.                                                             *)

\* Every variable has its type; a wait is timed before it is due.
TypeOK ==
  /\ state \in {"new", "running", "stopped"} /\ generation \in 1..GenerationLimit
  /\ hello \in BOOLEAN /\ restarts \in 0..MaxRestarts
  /\ restart = None \/ /\ restart.gen = generation /\ restart.relaunch \in BOOLEAN
                       /\ restart.batch \subseteq Event
  /\ due \subseteq timed /\ timed \subseteq pending /\ pending \subseteq Keys
  /\ quiet \subseteq pending /\ finished \subseteq Utts \cup Replies
  /\ \A i \in DOMAIN todo :
       \/ todo[i].tag = "frame" /\ todo[i].msg \in Message
       \/ todo[i].tag = "events" /\ todo[i].batch # {} /\ todo[i].batch \subseteq Event
       \/ todo[i].tag = "broken" /\ todo[i].gen \in 1..generation
  /\ proc \in {"none", "starting", "alive", "killed", "exited"} /\ living \in Nat
  /\ asked \in [Keys -> 0..AskLimit]
  /\ out \subseteq Event /\ owed \in [Keys -> Nat] /\ over \subseteq Utts \cup Replies

Announces(S, k) == \E e \in S : k \in e.settles

\* Outcomes of k on their way to the GUI.
UnderWay(k) ==
  Cardinality({i \in DOMAIN todo : todo[i].tag = "events" /\ Announces(todo[i].batch, k)})
    + (IF restart # None /\ Announces(restart.batch, k) THEN 1 ELSE 0)

\* Every request the supervisor has accepted is settled exactly once, whatever
\* answers, repeats, timeouts and restarts come in between: what is owed to the GUI
\* is what still waits and what is on its way.  Only stop() and kill() take waits
\* away without an event.
OutcomesCounted ==
  \A k \in Keys : owed[k] = (IF k \in pending THEN 1 ELSE 0) + UnderWay(k)

\* A worker is started only when no other one lives: two of them would hold the
\* microphone at once (docs/ipc-ack-protocol.md, the barrier of SIGKILL).
OneWorker == living <= 1

\* An event settles waits of its own utterance only, or without an id those that
\* have none; and a cancellation is settled by nothing but its own answer.
AnswersNameTheirRequest ==
  [][\A e \in out' : \A k \in e.settles :
       k.uid = e.uid /\ (k.kind = "record.cancel" => e.kind = k.kind)]_vars

\* What one process has said is never given to the GUI under the generation of
\* another one, though nested event loops delay it.
OwnGeneration == [][\A e \in out' : e.from \in {0, e.gen}]_vars

\* stop(), kill(), the limit and a protocol mismatch are final: nothing that was
\* under way starts a process again.
StoppedIsTerminal ==
  [][state = "stopped" => state' = "stopped" /\ living' <= living]_vars

\* An answer reaches only the request it is an answer to: of its own phrase or kind,
\* and of its own generation.
OwnAnswers == AnswersNameTheirRequest /\ OwnGeneration

\* There is at most one process, and none is started after the end.
OneWorkerToTheEnd == []OneWorker /\ StoppedIsTerminal

\* A restart that waits for an exit comes to its end.
RestartEnds == restart # None ~> restart = None

\* A cancellation with a deadline is settled however much the worker says about
\* the phrase: notifications extend the time of the stages, not that of the
\* cancellation (docstring of WorkerSupervisor).
CancelSettles == \A k \in Cancels : k \in timed ~> k \notin pending
=============================================================================
