-------------------------- MODULE CaptureField_proofs --------------------------
(***************************************************************************)
(* The field that records a combination and the keyboard belong together,  *)
(* for any number of recordings.                                           *)
(*                                                                         *)
(* FieldServed speaks of a field at rest; what keeps it true is what the   *)
(* three parties owe each other in between: the GUI thread owns a watchdog *)
(* exactly while it opens it or shows "capturing", every other watchdog    *)
(* has been told to stop, a watchdog that was not stopped leaves its loop  *)
(* with a reason, and a result it has sent lies in the queue until the     *)
(* field leaves "capturing".                                               *)
(***************************************************************************)
EXTENDS CaptureField, TLAPS, SequenceTheorems

\* Who owns a watchdog, and who was told to stop
Owned ==
  /\ owner \in 0 .. newest /\ grab \in 0 .. newest
  /\ owner # 0 <=> gui.at = "opening" \/ (field = "capturing" /\ gui = AtRest)
  /\ gui.at = "opening" => gui.s = owner
  /\ owner # 0 => ~thread[owner].stop
  /\ \A s \in 1 .. newest : s # owner => thread[s].stop
  /\ \A s \in Sessions : s > newest => thread[s] = Unborn

\* A result that was sent waits for the field that wants it
Sent == owner # 0 => (thread[owner].sent => Told(owner))

\* The keyboard is held in the loop and until the socket is cut; who leaves the loop unasked
\* has a reason
Holds ==
  \A s \in Sessions :
    /\ thread[s].active => thread[s].pc \in {"loop", "ending", "cut"}
    /\ thread[s].pc = "loop" => thread[s].active
    /\ thread[s].active /\ thread[s].pc \in {"loop", "ending"} => grab = s
    /\ thread[s].active /\ thread[s].pc \in {"ending", "cut"} => thread[s].stop \/ thread[s].why # ""

\* How far the watchdog of a field that shows "capturing" is
Served ==
  field = "capturing" /\ gui = AtRest =>
    /\ thread[owner].pc \in {"loop", "ending", "cut", "notify", "dead"}
    /\ thread[owner].pc \in {"ending", "cut"} => thread[owner].active
    /\ thread[owner].pc = "notify" => thread[owner].why # ""
    /\ thread[owner].pc = "dead" => Told(owner)

IInv == TypeOK /\ Owned /\ Sent /\ Holds /\ Served

-----------------------------------------------------------------------------
(* The GUI thread and the queue.                                           *)

LEMMA GuiFacts ==
  ASSUME TypeOK
  PROVE  /\ gui = AtRest <=> gui.at = "rest"
         /\ gui.at = "opening" => gui.s \in Sessions
         /\ gui.at = "joining" => gui.then \in After
BY DEF TypeOK, Guis, AtRest

LEMMA BoundFacts ==
  ASSUME TypeOK
  PROVE  /\ SessionLimit \in Nat /\ newest \in Nat /\ newest <= SessionLimit
         /\ \A s \in 1 .. newest : s \in Sessions
BY LimitAssumption DEF TypeOK, Sessions

\* An event that is appended is told, and what was told stays so
LEMMA AppendFacts ==
  ASSUME queue \in Seq(Events), NEW e \in Events, queue' = Append(queue, e)
  PROVE  /\ queue' \in Seq(Events)
         /\ \A s : Told(s) => Told(s)'
         /\ e.action # "hint" => Told(e.s)'
<1>1. /\ queue' \in Seq(Events) /\ Len(queue') = Len(queue) + 1 /\ queue'[Len(queue) + 1] = e
      /\ \A i \in 1 .. Len(queue) : queue'[i] = queue[i]
  BY AppendProperties
<1>2. DOMAIN queue = 1 .. Len(queue) /\ DOMAIN queue' = 1 .. Len(queue') /\ Len(queue) \in Nat
  BY <1>1, LenProperties
<1> QED BY <1>1, <1>2 DEF Told

\* A hint is taken from the queue, and what was told stays so
LEMMA TailFacts ==
  ASSUME queue \in Seq(Events), queue # <<>>, queue' = Tail(queue)
  PROVE  /\ Head(queue) \in Events /\ queue' \in Seq(Events)
         /\ Head(queue).action = "hint" => \A s : Told(s) => Told(s)'
<1>1. /\ Head(queue) \in Events /\ queue' \in Seq(Events) /\ Len(queue') = Len(queue) - 1
      /\ \A i \in 1 .. Len(queue') : queue'[i] = queue[i + 1]
  BY HeadTailProperties
<1>2. DOMAIN queue = 1 .. Len(queue) /\ DOMAIN queue' = 1 .. Len(queue') /\ Len(queue) \in Nat
      /\ Head(queue) = queue[1]
  BY <1>1, LenProperties
<1>3. ASSUME Head(queue).action = "hint", NEW s, Told(s) PROVE Told(s)'
  <2>1. PICK i \in DOMAIN queue : queue[i].s = s /\ queue[i].action # "hint"
    BY <1>3 DEF Told
  <2>2. i # 1 /\ i - 1 \in 1 .. Len(queue') /\ (i - 1) + 1 = i
    BY <1>1, <1>2, <1>3, <2>1
  <2> QED BY <1>1, <1>2, <2>1, <2>2 DEF Told
<1> QED BY <1>1, <1>3

LEMMA InitInv == Init => IInv
<1> SUFFICES ASSUME Init PROVE IInv
  OBVIOUS
<1>1. TypeOK
  <2>1. Unborn \in Threads /\ AtRest \in Guis /\ "idle" \in Fields
    BY DEF Unborn, Threads, AtRest, Guis, Fields
  <2>2. 0 \in 0 .. SessionLimit /\ queue \in Seq(Events)
    BY LimitAssumption DEF Init
  <2>3. thread \in [Sessions -> Threads]
    BY <2>1 DEF Init
  <2> QED BY <2>1, <2>2, <2>3 DEF Init, TypeOK
<1>2. Owned
  BY LimitAssumption DEF Init, Owned, AtRest
<1> QED BY <1>1, <1>2 DEF Init, IInv, Sent, Holds, Served, Unborn, AtRest

-----------------------------------------------------------------------------
(* The steps of the GUI thread.                                            *)

\* The call that ends a recording leaves no owner
LEMMA LeaveInv ==
  ASSUME IInv, NEW then \in After, Leave(then), UNCHANGED <<field, newest, grab>>, queue' \in Seq(Events)
  PROVE  IInv'
<1>1. TypeOK /\ Owned /\ owner' = 0 /\ gui' = [at |-> "joining", s |-> owner, then |-> then]
  BY DEF IInv, Leave
<1>2. owner \in 0 .. SessionLimit
  BY <1>1 DEF TypeOK
<1>3. gui' \in Guis /\ gui'.at = "joining" /\ gui' # AtRest
  BY <1>1, <1>2 DEF Guis, AtRest
<1>4. ASSUME NEW s \in Sessions
      PROVE  /\ thread'[s] = (IF s = owner THEN [thread[s] EXCEPT !.stop = TRUE] ELSE thread[s])
             /\ thread'[s] \in Threads
  <2>1. thread \in [Sessions -> Threads] /\ thread[s] \in Threads
    BY <1>1 DEF TypeOK
  <2>2. [thread[s] EXCEPT !.stop = TRUE] \in Threads
    BY <2>1 DEF Threads
  <2>3. CASE owner = 0
    <3>1. thread' = thread /\ s # owner
      BY <2>3 DEF Leave, Sessions
    <3> QED BY <2>1, <3>1
  <2>4. CASE owner # 0
    <3>1. thread' = [thread EXCEPT ![owner].stop = TRUE]
      BY <2>4 DEF Leave
    <3> QED BY <2>1, <2>2, <3>1
  <2> QED BY <2>3, <2>4
<1>5. TypeOK'
  <2>1. thread' \in [Sessions -> Threads]
    <3>1. CASE owner = 0
      BY <1>1, <3>1 DEF Leave, TypeOK
    <3>2. CASE owner # 0
      <4>1. thread' = [thread EXCEPT ![owner].stop = TRUE] /\ thread \in [Sessions -> Threads]
        BY <1>1, <3>2 DEF Leave, TypeOK
      <4> QED BY <1>4, <4>1
    <3> QED BY <3>1, <3>2
  <2> QED BY <1>1, <1>3, <2>1, LimitAssumption DEF TypeOK
<1>6. Owned'
  <2>1. \A s \in 1 .. newest : thread'[s].stop
    <3> SUFFICES ASSUME NEW s \in 1 .. newest PROVE thread'[s].stop
      OBVIOUS
    <3>1. s \in Sessions
      BY <1>1, BoundFacts
    <3> QED BY <1>1, <1>4, <3>1 DEF Owned, TypeOK, Threads
  <2>2. \A s \in Sessions : s > newest => thread'[s] = Unborn
    <3> SUFFICES ASSUME NEW s \in Sessions, s > newest PROVE thread'[s] = Unborn
      OBVIOUS
    <3>1. s # owner
      BY <1>1, <1>2, BoundFacts DEF Owned, Sessions
    <3> QED BY <1>1, <1>4, <3>1 DEF Owned
  <2> QED BY <1>1, <1>3, <2>1, <2>2, BoundFacts DEF Owned
<1>7. Holds'
  <2> SUFFICES ASSUME NEW s \in Sessions
               PROVE  /\ thread'[s].active => thread'[s].pc \in {"loop", "ending", "cut"}
                      /\ thread'[s].pc = "loop" => thread'[s].active
                      /\ thread'[s].active /\ thread'[s].pc \in {"loop", "ending"} => grab' = s
                      /\ thread'[s].active /\ thread'[s].pc \in {"ending", "cut"}
                           => thread'[s].stop \/ thread'[s].why # ""
    BY DEF Holds
  <2>1. thread[s] \in Threads
    BY <1>1 DEF TypeOK
  <2>2. /\ thread'[s].pc = thread[s].pc /\ thread'[s].active = thread[s].active /\ thread'[s].why = thread[s].why
        /\ thread[s].stop => thread'[s].stop
    BY <1>4, <2>1 DEF Threads
  <2> QED BY <2>2 DEF IInv, Holds
<1> QED BY <1>1, <1>3, <1>5, <1>6, <1>7 DEF IInv, Sent, Served

\* A step of the GUI thread that leaves the watchdogs alone and owns none before or after
LEMMA IdleInv ==
  ASSUME IInv, owner = 0, field' \in Fields, gui' \in Guis, gui'.at # "opening", field' # "capturing" \/ gui' # AtRest,
         UNCHANGED <<owner, newest, thread, grab, queue>>
  PROVE  IInv'
<1>1. TypeOK'
  BY DEF IInv, TypeOK
<1>2. Owned'
  BY DEF IInv, Owned
<1> QED BY <1>1, <1>2 DEF IInv, Sent, Holds, Served, Told

LEMMA BeginInv == ASSUME IInv, Begin PROVE IInv'
<1>1. CASE field = "capturing"
  BY <1>1, LeaveInv DEF Begin, After, IInv, TypeOK
<1>2. CASE field # "capturing"
  BY <1>2, GuiFacts, IdleInv DEF Begin, IInv, TypeOK, Owned, Guis, AtRest
<1> QED BY <1>1, <1>2

LEMMA RefuseInv == ASSUME IInv, Refuse \/ OpenFailed \/ Cancel PROVE IInv'
BY LeaveInv DEF Refuse, OpenFailed, Cancel, After, IInv, TypeOK

LEMMA OpenInv == ASSUME IInv, Open PROVE IInv'
<1> DEFINE n == newest + 1
<1>1. /\ gui.at = "begin" /\ newest < SessionLimit /\ newest' = n /\ owner' = n
      /\ thread' = [thread EXCEPT ![n].pc = "born"] /\ gui' = [at |-> "opening", s |-> n]
      /\ UNCHANGED <<field, grab, queue>>
  BY DEF Open
<1>2. TypeOK /\ Owned /\ Holds
  BY DEF IInv
<1>3. n \in Sessions /\ newest \in Nat /\ thread[n] = Unborn
  BY <1>1, <1>2, BoundFacts DEF Sessions, Owned
<1>4. /\ thread'[n] = [Unborn EXCEPT !.pc = "born"] /\ \A s \in Sessions \ {n} : thread'[s] = thread[s]
  BY <1>1, <1>2, <1>3 DEF TypeOK
<1>5. gui' \in Guis /\ gui' # AtRest /\ gui'.at = "opening" /\ gui'.s = n
  BY <1>1, <1>3 DEF Guis, AtRest
<1>6. thread' \in [Sessions -> Threads]
  <2>1. [Unborn EXCEPT !.pc = "born"] \in Threads
    BY DEF Unborn, Threads
  <2> QED BY <1>1, <1>2, <1>4, <2>1 DEF TypeOK
<1>7. TypeOK'
  BY <1>1, <1>2, <1>3, <1>5, <1>6, LimitAssumption DEF TypeOK, Sessions
<1>8. owner = 0
  BY <1>1, <1>2, GuiFacts DEF Owned
<1>9. Owned'
  <2>1. \A s \in 1 .. n : s # n => thread'[s].stop
    <3> SUFFICES ASSUME NEW s \in 1 .. n, s # n PROVE thread'[s].stop
      OBVIOUS
    <3>1. s \in 1 .. newest /\ s \in Sessions
      BY <1>2, <1>3, BoundFacts
    <3> QED BY <1>2, <1>4, <1>8, <3>1 DEF Owned
  <2>2. \A s \in Sessions : s > n => thread'[s] = Unborn
    BY <1>2, <1>3, <1>4 DEF Owned, Sessions
  <2>3. n \in 0 .. n /\ grab \in 0 .. n /\ n # 0
    BY <1>2, <1>3 DEF Owned
  <2>4. ~thread'[n].stop
    BY <1>4 DEF Unborn
  <2> HIDE DEF n
  <2> QED BY <1>1, <1>5, <2>1, <2>2, <2>3, <2>4 DEF Owned
<1>10. Sent' /\ Served'
  BY <1>1, <1>4, <1>5 DEF Sent, Served, Unborn
<1>11. Holds'
  <2>1. thread'[n].pc = "born" /\ ~thread'[n].active
    BY <1>4 DEF Unborn
  <2> HIDE DEF n
  <2>2. \A s \in Sessions : s = n \/ thread'[s] = thread[s]
    BY <1>4
  <2> QED BY <1>1, <1>2, <2>1, <2>2 DEF Holds
<1> QED BY <1>7, <1>9, <1>10, <1>11 DEF IInv

LEMMA OpenedInv == ASSUME IInv, Opened PROVE IInv'
<1>1. /\ gui.at = "opening" /\ thread[gui.s].active /\ field' = "capturing" /\ gui' = AtRest
      /\ UNCHANGED <<owner, newest, thread, grab, queue>>
  BY DEF Opened
<1>2. gui.s = owner /\ owner # 0 /\ owner \in Sessions
  BY <1>1, GuiFacts DEF IInv, Owned
<1>3. TypeOK' /\ Owned'
  BY <1>1, <1>2 DEF IInv, TypeOK, Fields, Guis, AtRest, Owned
<1>4. Served'
  <2>1. thread[owner].pc \in {"loop", "ending", "cut"}
    BY <1>1, <1>2 DEF IInv, Holds
  <2> QED BY <1>1, <1>2, <2>1 DEF Served
<1> QED BY <1>1, <1>3, <1>4 DEF IInv, Sent, Holds, Told

LEMMA JoinedInv == ASSUME IInv, Joined PROVE IInv'
<1>1. gui.at = "joining" /\ gui.then \in After /\ owner = 0
  BY GuiFacts DEF Joined, IInv, Owned
<1>2. field' \in Fields \ {"capturing"}
  BY <1>1 DEF Joined, After, Fields, SaveOutcomes
<1>3. gui' \in Guis /\ gui'.at # "opening"
  BY DEF Joined, Guis, AtRest
<1> QED BY <1>1, <1>2, <1>3, IdleInv DEF Joined

LEMMA KeepInv == ASSUME IInv, Keep PROVE IInv'
<1>1. owner = 0 /\ gui'.at # "opening" /\ gui' \in Guis
  BY GuiFacts DEF Keep, IInv, Owned, AtRest, TypeOK
<1>2. field' \in Fields \ {"capturing"}
  BY DEF Keep, SaveOutcomes, Fields
<1> QED BY <1>1, <1>2, IdleInv DEF Keep

LEMMA DeliverInv == ASSUME IInv, Deliver PROVE IInv'
<1>1. queue \in Seq(Events) /\ queue # <<>> /\ queue' = Tail(queue) /\ UNCHANGED <<field, newest, grab>>
  BY DEF Deliver, IInv, TypeOK
<1>2. /\ Head(queue) \in Events /\ queue' \in Seq(Events)
      /\ Head(queue).action = "hint" => \A s : Told(s) => Told(s)'
  BY <1>1, TailFacts
<1>3. CASE field = "capturing" /\ Head(queue).action # "hint"
  <2>1. Head(queue).action \in After
    BY <1>2, <1>3 DEF Events, After
  <2> QED BY <1>1, <1>2, <1>3, <2>1, LeaveInv DEF Deliver
<1>4. CASE field # "capturing" \/ Head(queue).action = "hint"
  <2>1. UNCHANGED <<gui, owner, thread>> /\ gui = AtRest
    BY <1>4 DEF Deliver
  <2>2. TypeOK' /\ Owned' /\ Holds'
    BY <1>1, <1>2, <2>1 DEF IInv, TypeOK, Owned, Holds
  <2>3. field # "capturing" => owner = 0
    BY <2>1, GuiFacts DEF IInv, Owned
  <2>4. Sent' /\ Served'
    BY <1>1, <1>2, <1>4, <2>1, <2>3 DEF IInv, Sent, Served
  <2> QED BY <2>2, <2>4 DEF IInv
<1> QED BY <1>3, <1>4

-----------------------------------------------------------------------------
(* The steps of the watchdog of session s.                                 *)

\* What a step that gives the watchdog s the fields t does with the keyboard
Grabs(s, t) ==
  /\ grab' \in {grab, s} \/ (grab = s /\ grab' = 0)
  /\ grab' = s => grab \in {0, s}
  /\ t.active /\ t.pc \in {"loop", "ending"} => grab' = s

\* with its reasons
Reasons(t) ==
  /\ t.active => t.pc \in {"loop", "ending", "cut"}
  /\ t.pc = "loop" => t.active
  /\ t.active /\ t.pc \in {"ending", "cut"} => t.stop \/ t.why # ""

\* with the queue
Tells(s, t) ==
  /\ queue' \in Seq(Events)
  /\ \A r : Told(r) => Told(r)'
  /\ t.sent => thread[s].sent \/ Told(s)'

\* and on the way of a watchdog that serves the field
Serves(s, t) ==
  /\ thread[s].pc \in {"loop", "ending", "cut", "notify", "dead"}
  /\ thread[s].pc \in {"ending", "cut"} => thread[s].active
  /\ thread[s].pc = "notify" => thread[s].why # ""
  /\ thread[s].sent => Told(s)
  /\ ~thread[s].stop
  => /\ t.pc \in {"loop", "ending", "cut", "notify", "dead"}
     /\ t.pc \in {"ending", "cut"} => t.active
     /\ t.pc = "notify" => t.why # ""
     /\ t.pc = "dead" => thread[s].pc = "dead" \/ Told(s)'

LEMMA WatchInv ==
  ASSUME IInv, NEW s \in Sessions, NEW t \in Threads, thread' = [thread EXCEPT ![s] = t],
         UNCHANGED <<field, gui, owner, newest>>, thread[s].pc # "unborn", t.stop = thread[s].stop,
         Grabs(s, t), Reasons(t), Tells(s, t), Serves(s, t)
  PROVE  IInv'
<1>1. TypeOK /\ Owned /\ Sent /\ Holds /\ Served
  BY DEF IInv
<1>2. thread'[s] = t /\ \A r \in Sessions \ {s} : thread'[r] = thread[r]
  BY <1>1 DEF TypeOK
<1>b. /\ newest \in Nat /\ (\A r \in 1 .. newest : r \in Sessions) /\ (owner # 0 => owner \in Sessions)
      /\ owner \in 0 .. newest
  BY <1>1, BoundFacts DEF Owned
<1>3. s \in 1 .. newest
  <2>1. Unborn.pc = "unborn"
    BY DEF Unborn
  <2>2. ~(s > newest)
    BY <1>1, <2>1 DEF Owned
  <2> QED BY <1>b, <2>2 DEF Sessions
<1>4. grab' \in 0 .. newest
  BY <1>1, <1>3, <1>b DEF Owned, Grabs
<1>5. TypeOK'
  <2>1. grab' \in 0 .. SessionLimit
    BY <1>1, <1>4, BoundFacts
  <2>2. queue' \in Seq(Events) /\ thread' \in [Sessions -> Threads]
    BY <1>1 DEF Tells, TypeOK
  <2> QED BY <1>1, <2>1, <2>2 DEF TypeOK
<1>6. Owned'
  <2>1. \A r \in Sessions : thread'[r].stop = thread[r].stop /\ (r > newest => thread'[r] = thread[r])
    <3>1. ~(s > newest)
      BY <1>3, <1>b
    <3> QED BY <1>2, <3>1
  <2>2. owner # 0 => ~thread'[owner].stop
    BY <1>1, <1>b, <2>1 DEF Owned
  <2>3. \A r \in 1 .. newest : r # owner => thread'[r].stop
    BY <1>1, <1>b, <2>1 DEF Owned
  <2>4. \A r \in Sessions : r > newest => thread'[r] = Unborn
    BY <1>1, <2>1 DEF Owned
  <2> QED BY <1>1, <1>4, <2>2, <2>3, <2>4 DEF Owned
<1>7. Sent'
  <2>1. CASE owner = s
    BY <1>1, <1>2, <2>1 DEF Sent, Tells
  <2>2. CASE owner # s
    BY <1>1, <1>2, <1>b, <2>2 DEF Sent, Tells
  <2> QED BY <2>1, <2>2
<1>8. Holds'
  <2> SUFFICES ASSUME NEW r \in Sessions
               PROVE  /\ thread'[r].active => thread'[r].pc \in {"loop", "ending", "cut"}
                      /\ thread'[r].pc = "loop" => thread'[r].active
                      /\ thread'[r].active /\ thread'[r].pc \in {"loop", "ending"} => grab' = r
                      /\ thread'[r].active /\ thread'[r].pc \in {"ending", "cut"}
                           => thread'[r].stop \/ thread'[r].why # ""
    BY DEF Holds
  <2>1. CASE r = s
    BY <1>2, <2>1 DEF Grabs, Reasons
  <2>2. CASE r # s
    <3>1. grab = r => grab' = r
      BY <2>2 DEF Sessions, Grabs
    <3> QED BY <1>1, <1>2, <2>2, <3>1 DEF Holds
  <2> QED BY <2>1, <2>2
<1>9. Served'
  <2> SUFFICES ASSUME field = "capturing", gui = AtRest
               PROVE  /\ thread'[owner].pc \in {"loop", "ending", "cut", "notify", "dead"}
                      /\ thread'[owner].pc \in {"ending", "cut"} => thread'[owner].active
                      /\ thread'[owner].pc = "notify" => thread'[owner].why # ""
                      /\ thread'[owner].pc = "dead" => Told(owner)'
    BY DEF Served
  <2>1. owner \in Sessions /\ ~thread[owner].stop /\ (thread[owner].sent => Told(owner))
    BY <1>1, <1>b DEF Owned, Sent
  <2>2. /\ thread[owner].pc \in {"loop", "ending", "cut", "notify", "dead"}
        /\ thread[owner].pc \in {"ending", "cut"} => thread[owner].active
        /\ thread[owner].pc = "notify" => thread[owner].why # ""
        /\ thread[owner].pc = "dead" => Told(owner)
    BY <1>1 DEF Served
  <2>3. Told(owner) => Told(owner)'
    BY DEF Tells
  <2>4. CASE owner = s
    BY <1>2, <2>1, <2>2, <2>3, <2>4 DEF Serves
  <2>5. CASE owner # s
    BY <1>2, <2>1, <2>2, <2>3, <2>5
  <2> QED BY <2>4, <2>5
<1> QED BY <1>5, <1>6, <1>7, <1>8, <1>9 DEF IInv

\* The queue is left alone
LEMMA QueueKept ==
  ASSUME TypeOK, UNCHANGED queue, NEW s, NEW t, t.sent => thread[s].sent
  PROVE  Tells(s, t)
BY DEF Tells, TypeOK, Told

LEMMA OpenDisplayInv == ASSUME IInv, NEW s \in Sessions, OpenDisplay(s) PROVE IInv'
<1>1. /\ thread[s].pc = "born" /\ UNCHANGED <<field, gui, owner, newest, grab, queue>>
      /\ \E to \in {"opened", "ending"} : thread' = [thread EXCEPT ![s].pc = to]
  BY DEF OpenDisplay, Goes
<1>2. PICK to \in {"opened", "ending"} : thread' = [thread EXCEPT ![s].pc = to]
  BY <1>1
<1> DEFINE t == [thread[s] EXCEPT !.pc = to]
<1>3. thread[s] \in Threads
  BY DEF IInv, TypeOK
<1>4. /\ t \in Threads /\ thread' = [thread EXCEPT ![s] = t] /\ t.pc = to
      /\ t.stop = thread[s].stop /\ t.active = thread[s].active /\ t.sent = thread[s].sent
  BY <1>2, <1>3 DEF Threads
<1> HIDE DEF t
<1>5. ~t.active
  BY <1>1, <1>4 DEF IInv, Holds
<1>6. Grabs(s, t) /\ Reasons(t) /\ Tells(s, t) /\ Serves(s, t)
  BY <1>1, <1>4, <1>5, QueueKept DEF IInv, Grabs, Reasons, Serves
<1> QED BY <1>1, <1>4, <1>6, WatchInv

LEMMA GrabInv == ASSUME IInv, NEW s \in Sessions, Grab(s) PROVE IInv'
<1>1. thread[s].pc = "opened" /\ UNCHANGED <<field, gui, owner, newest, queue>> /\ ~thread[s].active
  BY DEF Grab, IInv, Holds
<1>2. thread[s] \in Threads
  BY DEF IInv, TypeOK
<1>3. CASE thread' = [thread EXCEPT ![s].pc = "ending"] /\ grab' = grab
  <2> DEFINE t == [thread[s] EXCEPT !.pc = "ending"]
  <2>1. /\ t \in Threads /\ thread' = [thread EXCEPT ![s] = t] /\ t.pc = "ending"
        /\ t.stop = thread[s].stop /\ ~t.active /\ t.sent = thread[s].sent
    BY <1>1, <1>2, <1>3 DEF Threads
  <2> HIDE DEF t
  <2>2. Grabs(s, t) /\ Reasons(t) /\ Tells(s, t) /\ Serves(s, t)
    BY <1>1, <1>3, <2>1, QueueKept DEF IInv, Grabs, Reasons, Serves
  <2> QED BY <1>1, <2>1, <2>2, WatchInv
<1>4. CASE /\ grab = 0 /\ grab' = s
           /\ thread' = [thread EXCEPT ![s].pc = "loop", ![s].active = TRUE, ![s].ready = TRUE]
  <2> DEFINE t == [thread[s] EXCEPT !.pc = "loop", !.active = TRUE, !.ready = TRUE]
  <2>1. /\ t \in Threads /\ thread' = [thread EXCEPT ![s] = t] /\ t.pc = "loop"
        /\ t.stop = thread[s].stop /\ t.active /\ t.sent = thread[s].sent
    BY <1>2, <1>4 DEF Threads
  <2> HIDE DEF t
  <2>2. Grabs(s, t) /\ Reasons(t) /\ Tells(s, t) /\ Serves(s, t)
    BY <1>1, <1>4, <2>1, QueueKept DEF IInv, Grabs, Reasons, Serves
  <2> QED BY <1>1, <2>1, <2>2, WatchInv
<1> QED BY <1>3, <1>4 DEF Grab, Goes

LEMMA DeadlineInv == ASSUME IInv, NEW s \in Sessions, Deadline(s) PROVE IInv'
<1> DEFINE t == [thread[s] EXCEPT !.late = TRUE]
<1>1. thread[s].pc = "loop" /\ thread[s].active /\ grab = s /\ UNCHANGED <<field, gui, owner, newest, grab, queue>>
  BY DEF Deadline, IInv, Holds
<1>2. thread[s] \in Threads
  BY DEF IInv, TypeOK
<1>3. /\ t \in Threads /\ thread' = [thread EXCEPT ![s] = t] /\ t.pc = "loop"
      /\ t.stop = thread[s].stop /\ t.active /\ t.sent = thread[s].sent
  BY <1>1, <1>2 DEF Deadline, Threads
<1> HIDE DEF t
<1>4. Grabs(s, t) /\ Reasons(t) /\ Tells(s, t) /\ Serves(s, t)
  BY <1>1, <1>3, QueueKept DEF IInv, Grabs, Reasons, Serves
<1> QED BY <1>1, <1>3, <1>4, WatchInv

\* The loop is left with a reason, or because of a stop
LEMMA LeaveLoopInv == ASSUME IInv, NEW s \in Sessions, LeaveLoop(s) \/ FocusLost(s) PROVE IInv'
<1>1. /\ thread[s].pc = "loop" /\ thread[s].active /\ grab = s
      /\ UNCHANGED <<field, gui, owner, newest, grab, queue>>
  BY DEF LeaveLoop, FocusLost, Polling, IInv, Holds
<1>2. thread[s] \in Threads
  BY DEF IInv, TypeOK
<1>3. PICK why \in {"", "expired", "focus"} :
        /\ thread' = [thread EXCEPT ![s].pc = "ending", ![s].why = why]
        /\ thread[s].stop \/ why # ""
  BY DEF LeaveLoop, FocusLost
<1> DEFINE t == [thread[s] EXCEPT !.pc = "ending", !.why = why]
<1>4. /\ t \in Threads /\ thread' = [thread EXCEPT ![s] = t] /\ t.pc = "ending" /\ t.why = why
      /\ t.stop = thread[s].stop /\ t.active /\ t.sent = thread[s].sent
  BY <1>1, <1>2, <1>3 DEF Threads
<1> HIDE DEF t
<1>5. Grabs(s, t) /\ Reasons(t) /\ Tells(s, t) /\ Serves(s, t)
  BY <1>1, <1>3, <1>4, QueueKept DEF IInv, Grabs, Reasons, Serves
<1> QED BY <1>1, <1>4, <1>5, WatchInv

LEMMA KeyPressInv ==
  ASSUME IInv, NEW s \in Sessions, NEW action \in {"combo", "cancel", "hint"}, KeyPress(s, action)
  PROVE  IInv'
<1> DEFINE e == [s |-> s, action |-> action]
<1>1. /\ thread[s].pc = "loop" /\ thread[s].active /\ grab = s /\ queue' = Append(queue, e)
      /\ UNCHANGED <<field, gui, owner, newest, grab>>
  BY DEF KeyPress, Polling, Post, IInv, Holds
<1>2. thread[s] \in Threads /\ queue \in Seq(Events)
  BY DEF IInv, TypeOK
<1>3. e \in Events /\ e.s = s /\ e.action = action
  BY DEF Events
<1> HIDE DEF e
<1> DEFINE t == IF action = "hint" THEN thread[s] ELSE [thread[s] EXCEPT !.sent = TRUE]
<1>4. /\ t \in Threads /\ thread' = [thread EXCEPT ![s] = t] /\ t.pc = "loop"
      /\ t.stop = thread[s].stop /\ t.active /\ (t.sent => action # "hint")
  <2>1. ~thread[s].sent /\ thread \in [Sessions -> Threads]
    BY DEF KeyPress, IInv, TypeOK
  <2>2. CASE action = "hint"
    <3>1. t = thread[s] /\ thread' = thread
      BY <2>2 DEF KeyPress
    <3>2. [thread EXCEPT ![s] = thread[s]] = thread
      BY <2>1
    <3> QED BY <1>1, <1>2, <2>1, <2>2, <3>1, <3>2
  <2>3. CASE action # "hint"
    <3>1. /\ t = [thread[s] EXCEPT !.sent = TRUE]
          /\ thread' = [thread EXCEPT ![s].sent = TRUE]
      BY <2>3 DEF KeyPress
    <3> QED BY <1>1, <1>2, <2>1, <2>3, <3>1 DEF Threads
  <2> QED BY <2>2, <2>3
<1> HIDE DEF t
<1>5. Tells(s, t)
  BY <1>1, <1>2, <1>3, <1>4, AppendFacts DEF Tells
<1>6. Grabs(s, t) /\ Reasons(t) /\ Serves(s, t)
  BY <1>1, <1>4 DEF Grabs, Reasons, Serves
<1> QED BY <1>1, <1>4, <1>5, <1>6, WatchInv

LEMMA CloseDisplayInv == ASSUME IInv, NEW s \in Sessions, CloseDisplay(s) PROVE IInv'
<1> DEFINE t == [thread[s] EXCEPT !.pc = "cut"]
<1>1. /\ thread[s].pc = "ending" /\ grab' = (IF grab = s THEN 0 ELSE grab)
      /\ UNCHANGED <<field, gui, owner, newest, queue>>
      /\ thread[s].active => thread[s].stop \/ thread[s].why # ""
  BY DEF CloseDisplay, IInv, Holds
<1>2. thread[s] \in Threads /\ s # 0
  BY DEF IInv, TypeOK, Sessions
<1>3. /\ t \in Threads /\ thread' = [thread EXCEPT ![s] = t] /\ t.pc = "cut" /\ t.why = thread[s].why
      /\ t.stop = thread[s].stop /\ t.active = thread[s].active /\ t.sent = thread[s].sent
  BY <1>2 DEF CloseDisplay, Goes, Threads
<1> HIDE DEF t
<1>4. Grabs(s, t) /\ Reasons(t) /\ Tells(s, t) /\ Serves(s, t)
  BY <1>1, <1>2, <1>3, QueueKept DEF IInv, Grabs, Reasons, Serves
<1> QED BY <1>1, <1>3, <1>4, WatchInv

LEMMA ClearActiveInv == ASSUME IInv, NEW s \in Sessions, ClearActive(s) PROVE IInv'
<1> DEFINE t == [thread[s] EXCEPT !.pc = "notify", !.active = FALSE, !.ready = TRUE]
<1>1. /\ thread[s].pc = "cut" /\ UNCHANGED <<field, gui, owner, newest, grab, queue>>
      /\ thread[s].active => thread[s].stop \/ thread[s].why # ""
  BY DEF ClearActive, IInv, Holds
<1>2. thread[s] \in Threads
  BY DEF IInv, TypeOK
<1>3. /\ t \in Threads /\ thread' = [thread EXCEPT ![s] = t] /\ t.pc = "notify" /\ t.why = thread[s].why
      /\ t.stop = thread[s].stop /\ ~t.active /\ t.sent = thread[s].sent
  BY <1>2 DEF ClearActive, Threads
<1> HIDE DEF t
<1>4. Grabs(s, t) /\ Reasons(t) /\ Tells(s, t) /\ Serves(s, t)
  BY <1>1, <1>3, QueueKept DEF IInv, Grabs, Reasons, Serves
<1> QED BY <1>1, <1>3, <1>4, WatchInv

LEMMA NotifyInv == ASSUME IInv, NEW s \in Sessions, Notify(s) PROVE IInv'
<1> DEFINE t == [thread[s] EXCEPT !.pc = "dead"]
           e(action) == [s |-> s, action |-> action]
<1>1. thread[s].pc = "notify" /\ ~thread[s].active /\ UNCHANGED <<field, gui, owner, newest, grab>>
  BY DEF Notify, IInv, Holds
<1>2. thread[s] \in Threads /\ queue \in Seq(Events) /\ TypeOK
  BY DEF IInv, TypeOK
<1>3. /\ t \in Threads /\ thread' = [thread EXCEPT ![s] = t] /\ t.pc = "dead"
      /\ t.stop = thread[s].stop /\ ~t.active /\ t.sent = thread[s].sent
  BY <1>1, <1>2 DEF Notify, Goes, Threads
<1> HIDE DEF t
<1>4. Tells(s, t) /\ (thread[s].why # "" /\ ~thread[s].sent => Told(s)')
      /\ (thread[s].why = "expired" => Told(s)')
  <2>1. ASSUME NEW action \in {"expired", "cancel"}, queue' = Append(queue, e(action))
        PROVE  Tells(s, t) /\ Told(s)'
    <3>1. e(action) \in Events /\ e(action).s = s /\ e(action).action # "hint"
      BY DEF Events
    <3> HIDE DEF e
    <3> QED BY <1>2, <1>3, <2>1, <3>1, AppendFacts DEF Tells
  <2>2. CASE thread[s].why = "expired"
    <3>1. queue' = Append(queue, e("expired"))
      BY <2>2 DEF Notify, Post
    <3> QED BY <2>1, <3>1
  <2>3. CASE thread[s].why = "focus" /\ ~thread[s].sent
    <3>1. queue' = Append(queue, e("cancel"))
      BY <2>3 DEF Notify, Post
    <3> QED BY <2>1, <2>3, <3>1
  <2>4. CASE thread[s].why # "expired" /\ ~(thread[s].why = "focus" /\ ~thread[s].sent)
    <3>1. UNCHANGED queue
      BY <2>4 DEF Notify
    <3>2. thread[s].why = "" \/ thread[s].sent
      BY <1>2, <2>4 DEF Threads
    <3> QED BY <1>2, <1>3, <2>4, <3>1, <3>2, QueueKept
  <2> QED BY <2>2, <2>3, <2>4
<1>5. Grabs(s, t) /\ Reasons(t)
  BY <1>1, <1>3 DEF Grabs, Reasons
<1>6. Serves(s, t)
  <2>1. Told(s) => Told(s)'
    BY <1>4 DEF Tells
  <2> QED BY <1>1, <1>3, <1>4, <2>1 DEF Serves
<1> QED BY <1>1, <1>3, <1>4, <1>5, <1>6, WatchInv

LEMMA NextInv == ASSUME IInv, [Next]_vars PROVE IInv'
<1>1. CASE Gui
  BY <1>1, BeginInv, RefuseInv, OpenInv, OpenedInv, JoinedInv, KeepInv, DeliverInv DEF Gui
<1>2. CASE \E s \in Sessions : Watch(s)
  BY <1>2, OpenDisplayInv, GrabInv, DeadlineInv, LeaveLoopInv, KeyPressInv, CloseDisplayInv, ClearActiveInv, NotifyInv
     DEF Watch, Advance
<1>3. CASE UNCHANGED vars
  BY <1>3 DEF vars, IInv, TypeOK, Owned, Sent, Holds, Served, Told
<1> QED BY <1>1, <1>2, <1>3 DEF Next

THEOREM Invariance == Spec => []IInv
<1> QED BY InitInv, NextInv, PTL DEF Spec

-----------------------------------------------------------------------------
\* Every variable has its type (HotkeyCapture, DictationRuntime, CaptureFieldWatchdog).
THEOREM CaptureTyped == Spec => []TypeOK
<1>1. IInv => TypeOK
  BY DEF IInv
<1> QED BY <1>1, Invariance, PTL

LEMMA ServedField == IInv => FieldServed
<1> SUFFICES ASSUME IInv, field = "capturing", gui = AtRest
             PROVE  /\ owner # 0
                    /\ \/ grab = owner
                       \/ Told(owner)
                       \/ thread[owner].pc \in {"cut", "notify"} /\ thread[owner].why # ""
  BY DEF FieldServed
<1>1. owner # 0 /\ ~thread[owner].stop /\ owner \in Sessions
  BY BoundFacts DEF IInv, Owned
<1>2. /\ thread[owner].pc \in {"loop", "ending", "cut", "notify", "dead"}
      /\ thread[owner].pc \in {"ending", "cut"} => thread[owner].active
      /\ thread[owner].pc = "notify" => thread[owner].why # ""
      /\ thread[owner].pc = "dead" => Told(owner)
  BY DEF IInv, Served
<1> QED BY <1>1, <1>2 DEF IInv, Holds

LEMMA WantedGrab == IInv => GrabIsWanted
<1> SUFFICES ASSUME IInv, grab # 0, gui = AtRest, field # "capturing" \/ owner # grab
             PROVE  thread[grab].stop
  BY DEF GrabIsWanted
<1>1. grab \in 1 .. newest
  BY BoundFacts DEF IInv, Owned
<1>2. owner # grab
  BY <1>1, GuiFacts DEF IInv, Owned
<1> QED BY <1>1, <1>2 DEF IInv, Owned

\* What is appended to a sequence can be read from it
LEMMA AppendIsInjective ==
  ASSUME NEW q \in Seq(Events), NEW d \in Events, NEW e \in Events
  PROVE  /\ Append(q, d) = Append(q, e) => d = e
         /\ q # Append(q, e) /\ (q # <<>> => Tail(q) # Append(q, e))
<1>1. /\ Append(q, d)[Len(q) + 1] = d /\ Append(q, e)[Len(q) + 1] = e
      /\ Len(Append(q, e)) = Len(q) + 1 /\ Len(q) \in Nat
  BY AppendProperties, LenProperties
<1>2. q # <<>> => Len(Tail(q)) = Len(q) - 1
  BY HeadTailProperties
<1> QED BY <1>1, <1>2

LEMMA AnswersOnce ==
  ASSUME IInv, [Next]_vars, NEW s \in Sessions, NEW action \in {"combo", "cancel"},
         queue' = Append(queue, [s |-> s, action |-> action])
  PROVE  ~thread[s].sent
<1> DEFINE e == [s |-> s, action |-> action]
<1>1. queue \in Seq(Events) /\ e \in Events
  BY DEF IInv, TypeOK, Events
<1>2. queue' # queue /\ (queue # <<>> => queue' # Tail(queue))
  BY <1>1, AppendIsInjective
<1>3. ASSUME NEW r \in Sessions, NEW did \in {"combo", "cancel", "hint", "expired"},
             queue' = Append(queue, [s |-> r, action |-> did])
      PROVE  r = s /\ did = action
  <2> DEFINE d == [s |-> r, action |-> did]
  <2>1. d \in Events /\ d.s = r /\ d.action = did /\ e.s = s /\ e.action = action
    BY DEF Events
  <2>2. d = e
    BY <1>1, <1>3, <2>1, AppendIsInjective
  <2> QED BY <2>1, <2>2
<1>4. ~Gui
  BY <1>2 DEF Gui, Begin, Refuse, Open, Opened, OpenFailed, Joined, Cancel, Keep, Deliver
<1>5. PICK r \in Sessions : Watch(r)
  BY <1>2, <1>4 DEF Next, vars
<1>6. CASE \E did \in {"combo", "cancel", "hint"} : KeyPress(r, did)
  BY <1>3, <1>6 DEF KeyPress, Post
<1>7. CASE Notify(r)
  <2>1. CASE thread[r].why = "expired"
    <3>1. queue' = Append(queue, [s |-> r, action |-> "expired"])
      BY <1>7, <2>1 DEF Notify, Post
    <3> QED BY <1>3, <3>1
  <2>2. CASE thread[r].why # "expired" /\ thread[r].why = "focus" /\ ~thread[r].sent
    <3>1. queue' = Append(queue, [s |-> r, action |-> "cancel"])
      BY <1>7, <2>2 DEF Notify, Post
    <3> QED BY <1>3, <2>2, <3>1
  <2>3. CASE thread[r].why # "expired" /\ ~(thread[r].why = "focus" /\ ~thread[r].sent)
    BY <1>2, <1>7, <2>3 DEF Notify
  <2> QED BY <2>1, <2>2, <2>3
<1> QED BY <1>2, <1>5, <1>6, <1>7
     DEF Watch, Advance, OpenDisplay, Grab, LeaveLoop, CloseDisplay, ClearActive, Deadline, FocusLost

\* A field that shows "capturing" is served, the keyboard is held for no other, and a recording
\* answers once: whatever the deadlines, lost focuses, refusals and hung threads.
THEOREM FieldIsHonest == Spec => FieldHonest
<1>1. ASSUME IInv, [Next]_vars
      PROVE  \A s \in Sessions : \A action \in {"combo", "cancel"} :
               queue' = Append(queue, [s |-> s, action |-> action]) => ~thread[s].sent
  BY <1>1, AnswersOnce
<1> QED BY <1>1, ServedField, WantedGrab, Invariance, PTL DEF Spec, FieldHonest, OneAnswer
================================================================================
