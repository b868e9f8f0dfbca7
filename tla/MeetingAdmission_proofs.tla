----------------------- MODULE MeetingAdmission_proofs -----------------------
(* Proofs about MeetingAdmission, checked by TLAPS for every number of changes and signals. *)
EXTENDS MeetingAdmission, TLAPS, SequenceTheorems

Admission ==
  [value : Values, reason : Reasons \cup {NoReason}, epoch : Nat, generation : Nat,
   lockRequested : BOOLEAN, unlockRequested : BOOLEAN, hintSeen : BOOLEAN]

-----------------------------------------------------------------------------
(* What the operators of SessionAdmission return.                          *)

LEMMA ReasonType == ASSUME NEW v \in Values PROVE Reason(v) \in Reasons \cup {NoReason}
BY DEF Values, Reason, Reasons

\* A system that sleeps is never recorded.
LEMMA ReasonAsleep == ASSUME NEW v \in Values, v.sleeping PROVE Reason(v) = "sleep"
BY DEF Values, Reason

\* On KDE nothing is recorded behind a locked screen, whatever else is known.
LEMMA ReasonLocked == ASSUME NEW v \in Values, v.locked, desktop = "KDE" PROVE Reason(v) \in Reasons
BY DEF Values, Reason, Reasons

LEMMA PublishFields ==
  ASSUME NEW x \in Admission, NEW v \in Values
  PROVE  /\ Publish(x, v) \in Admission
         /\ Publish(x, v).value = v /\ Publish(x, v).reason = Reason(v)
         /\ Publish(x, v).generation = x.generation /\ Publish(x, v).lockRequested = x.lockRequested
         /\ Publish(x, v).unlockRequested = x.unlockRequested /\ Publish(x, v).hintSeen = x.hintSeen
<1> DEFINE r == Reason(v)
           e == IF r \notin {NoReason, x.reason} THEN x.epoch + 1 ELSE x.epoch
<1>1. r \in Reasons \cup {NoReason}
  BY ReasonType
<1>2. Publish(x, v) = [x EXCEPT !.value = v, !.reason = r, !.epoch = e]
  BY DEF Publish
<1>3. e \in Nat
  BY DEF Admission
<1> HIDE DEF r, e
<1>4. r = Reason(v)
  BY DEF r
<1> QED BY <1>1, <1>2, <1>3, <1>4 DEF Admission

\* A signal makes everything asked before it older than it is.
LEMMA SignalFields ==
  ASSUME NEW x \in Admission, NEW name \in Signals, x.reason = Reason(x.value)
  PROVE  LET y == Signal(x, name)
         IN /\ y \in Admission /\ y.reason = Reason(y.value) /\ y.generation = x.generation + 1
            /\ y.value.sleeping = IF name \in {"Sleep", "Wake"} THEN name = "Sleep" ELSE x.value.sleeping
            /\ y.value.locked = IF name = "Lock" THEN TRUE ELSE x.value.locked
            /\ y.lockRequested = IF name = "Lock" THEN TRUE ELSE x.lockRequested
            /\ y.hintSeen = IF name = "Lock" THEN FALSE ELSE x.hintSeen
            /\ name # "Unlock" => y.unlockRequested = IF name = "Lock" THEN FALSE ELSE x.unlockRequested
<1> DEFINE next == [x EXCEPT !.generation = @ + 1]
           lock == [next EXCEPT !.lockRequested = TRUE, !.unlockRequested = FALSE, !.hintSeen = FALSE]
           lv == [x.value EXCEPT !.locked = TRUE]
           sv == [x.value EXCEPT !.sleeping = name = "Sleep"]
<1>1. next \in Admission /\ lock \in Admission
  <2>1. next \in Admission
    BY DEF Admission
  <2> HIDE DEF next
  <2> QED BY <2>1 DEF Admission
<1>2. lv \in Values /\ sv \in Values
  BY DEF Admission, Values
<1>3. x.value \in Values
  BY DEF Admission
<1>4. CASE name = "Lock"
  <2>1. Signal(x, name) = Publish(lock, lv)
    BY <1>4 DEF Signal
  <2>2. lv.locked = TRUE /\ lv.sleeping = x.value.sleeping
    BY <1>3 DEF Values
  <2>3. lock.generation = x.generation + 1 /\ lock.lockRequested = TRUE /\ lock.hintSeen = FALSE /\ lock.unlockRequested = FALSE
    BY DEF Admission
  <2> DEFINE y == Publish(lock, lv)
  <2> HIDE DEF next, lock, lv, sv
  <2>4. /\ y \in Admission /\ y.value = lv /\ y.reason = Reason(lv)
        /\ y.generation = lock.generation /\ y.lockRequested = lock.lockRequested
        /\ y.unlockRequested = lock.unlockRequested /\ y.hintSeen = lock.hintSeen
    BY <1>1, <1>2, PublishFields
  <2> HIDE DEF y
  <2> QED BY <1>4, <2>1, <2>2, <2>3, <2>4 DEF y
<1>5. CASE name = "Unlock"
  <2>1. Signal(x, name) = [next EXCEPT !.unlockRequested = TRUE]
    BY <1>5 DEF Signal
  <2> QED BY <1>1, <1>3, <1>5, <2>1 DEF Admission
<1>6. CASE name \in {"Sleep", "Wake"}
  <2>1. Signal(x, name) = Publish(next, sv)
    BY <1>6 DEF Signal
  <2>2. sv.locked = x.value.locked /\ sv.sleeping = (name = "Sleep")
    BY <1>3 DEF Values
  <2>3. /\ next.generation = x.generation + 1 /\ next.lockRequested = x.lockRequested
        /\ next.hintSeen = x.hintSeen /\ next.unlockRequested = x.unlockRequested
    BY DEF Admission
  <2> DEFINE y == Publish(next, sv)
  <2> HIDE DEF next, lock, lv, sv
  <2>4. /\ y \in Admission /\ y.value = sv /\ y.reason = Reason(sv)
        /\ y.generation = next.generation /\ y.lockRequested = next.lockRequested
        /\ y.unlockRequested = next.unlockRequested /\ y.hintSeen = next.hintSeen
    BY <1>1, <1>2, PublishFields
  <2>5. name # "Lock"
    BY <1>6
  <2> HIDE DEF y
  <2> QED BY <1>6, <2>1, <2>2, <2>3, <2>4, <2>5 DEF y
<1> QED BY <1>4, <1>5, <1>6 DEF Signals

\* An answer counts only when no signal has come since it was asked for; it ends a lock that was
\* announced only when it was confirmed.
LEMMA UpdateFields ==
  ASSUME NEW x \in Admission, NEW v \in Values, NEW g \in Nat
  PROVE  LET y == Update(x, v, g)
         IN /\ y \in Admission /\ y.generation = x.generation
            /\ g # x.generation => y = x
            /\ g = x.generation =>
                 /\ y.reason = Reason(y.value) /\ y.value.sleeping = v.sleeping
                 /\ y.lockRequested => y.value.locked
                 /\ x.lockRequested /\ ~y.lockRequested
                      => v.known /\ ~v.locked /\ (x.unlockRequested \/ x.hintSeen)
                 /\ y.hintSeen => x.hintSeen \/ v.locked
                 /\ y.unlockRequested => x.unlockRequested
<1> DEFINE confirmed == v.known /\ ~v.locked /\ (x.unlockRequested \/ x.hintSeen)
           seen == [x EXCEPT !.hintSeen = TRUE]
           ended == [x EXCEPT !.lockRequested = FALSE, !.unlockRequested = FALSE, !.hintSeen = FALSE]
           z == CASE x.lockRequested /\ v.locked -> seen [] x.lockRequested /\ confirmed -> ended [] OTHER -> x
           w == [v EXCEPT !.locked = v.locked \/ z.lockRequested]
<1>1. Update(x, v, g) = IF g # x.generation THEN x ELSE Publish(z, w)
  BY DEF Update
<1>2. /\ z \in Admission /\ z.generation = x.generation
      /\ x.lockRequested /\ ~z.lockRequested => confirmed
      /\ z.hintSeen => x.hintSeen \/ v.locked
      /\ z.unlockRequested => x.unlockRequested
  <2>1. CASE x.lockRequested /\ v.locked
    <3>1. z = seen
      BY <2>1
    <3> QED BY <2>1, <3>1 DEF Admission
  <2>2. CASE x.lockRequested /\ confirmed
    <3>1. z = ended
      BY <2>2
    <3> QED BY <2>2, <3>1 DEF Admission
  <2>3. CASE ~(x.lockRequested /\ v.locked) /\ ~(x.lockRequested /\ confirmed)
    <3>1. z = x
      BY <2>3
    <3> QED BY <2>3, <3>1 DEF Admission
  <2> QED BY <2>1, <2>2, <2>3
<1> HIDE DEF z
<1>3. w \in Values /\ w.sleeping = v.sleeping /\ (z.lockRequested => w.locked)
  BY <1>2 DEF Values, Admission
<1> HIDE DEF w
<1> QED BY <1>1, <1>2, <1>3, PublishFields

\* Nothing is known any more, but of the lock and the sleep.
LEMMA LostFields ==
  ASSUME NEW x \in Admission
  PROVE  /\ Lost(x) \in Admission /\ Lost(x).reason = Reason(Lost(x).value)
         /\ Lost(x).generation = x.generation + 1
         /\ Lost(x).value.sleeping = x.value.sleeping /\ Lost(x).value.locked = x.value.locked
         /\ Lost(x).lockRequested = x.lockRequested /\ Lost(x).hintSeen = x.hintSeen
         /\ Lost(x).unlockRequested = x.unlockRequested
<1> DEFINE next == [x EXCEPT !.generation = @ + 1]
           v == [x.value EXCEPT !.known = FALSE]
<1>1. /\ next \in Admission /\ next.generation = x.generation + 1 /\ next.lockRequested = x.lockRequested
      /\ next.hintSeen = x.hintSeen /\ next.unlockRequested = x.unlockRequested
  BY DEF Admission
<1>2. v \in Values /\ v.sleeping = x.value.sleeping /\ v.locked = x.value.locked
  BY DEF Admission, Values
<1>3. Lost(x) = Publish(next, v)
  BY DEF Lost
<1> HIDE DEF next, v
<1> QED BY <1>1, <1>2, <1>3, PublishFields

-----------------------------------------------------------------------------
(* The inductive invariant: what an answer on its way, or a signal not yet  *)
(* heard, may still do to what is believed.                                 *)

\* An s in the queue q is always followed by a t
Has(q, s) == \E i \in 1..Len(q) : q[i] = s
Followed(q, s, t) == \A i \in 1..Len(q) : q[i] = s => \E j \in i + 1..Len(q) : q[j] = t

Current == tick.generation = a.generation
Announced == signals /\ desktop = "KDE" /\ world.announced /\ world.screen # "open" /\ ~Pending("Lock")
Asleep == signals /\ world.sleeping /\ ~Pending("Sleep")

\* The admission agrees with itself, the questions with theirs, and the desktop with its announcements
Sane ==
  /\ a.reason = Reason(a.value) /\ (a.lockRequested => a.value.locked)
  /\ tick.generation <= a.generation
  /\ tick.pc \in {"sleep", "session"} => ~tick.got.known /\ ~tick.got.locked
  /\ world.screen = "open" => ~world.announced
  /\ ~signals => bus = <<>>

\* Of a system that sleeps no wake-up is the last news, and no answer that counts says otherwise
SleepKnown ==
  /\ signals /\ world.sleeping => Followed(bus, "Wake", "Sleep")
  /\ Asleep => a.value.sleeping
  /\ Asleep /\ tick.pc \in {"session", "got"} /\ Current => tick.got.sleeping

\* Until the screen has been locked nothing confirms the end of a lock that was announced; after
\* that, only an answer which was asked for since
LockKnown ==
  /\ signals /\ world.announced /\ world.screen = "locking" => Followed(bus, "Unlock", "Lock")
  /\ Announced => a.lockRequested
  /\ Announced /\ world.screen = "locking" => ~a.hintSeen /\ ~a.unlockRequested
  /\ Announced /\ world.screen = "locking" /\ tick.pc = "got" /\ Current => ~tick.got.locked
  /\ Announced /\ tick.pc = "got" /\ Current /\ tick.got.known /\ ~tick.got.locked
       => ~a.hintSeen /\ ~a.unlockRequested

IInv == AdmissionTypeOK /\ Sane /\ SleepKnown /\ LockKnown

-----------------------------------------------------------------------------
(* Signals on their way.                                                    *)

LEMMA HasTail ==
  ASSUME NEW q \in Seq(Signals), q # <<>>, NEW s, Has(q, s), Head(q) # s
  PROVE  Has(Tail(q), s)
<1>1. PICK i \in 1..Len(q) : q[i] = s
  BY DEF Has
<1>2. i # 1
  BY <1>1
<1>3. i - 1 \in 1..Len(Tail(q)) /\ Tail(q)[i - 1] = s
  BY <1>1, <1>2
<1> QED BY <1>3 DEF Has

LEMMA HasAppend ==
  ASSUME NEW q \in Seq(Signals), NEW e \in Signals, NEW s
  PROVE  Has(Append(q, e), s) <=> Has(q, s) \/ e = s
<1>1. /\ Len(Append(q, e)) = Len(q) + 1 /\ Append(q, e)[Len(q) + 1] = e
      /\ \A i \in 1..Len(q) : Append(q, e)[i] = q[i]
  OBVIOUS
<1> QED BY <1>1 DEF Has

LEMMA FollowedTail ==
  ASSUME NEW q \in Seq(Signals), q # <<>>, NEW s, NEW t, Followed(q, s, t)
  PROVE  Followed(Tail(q), s, t) /\ (Head(q) = s => Has(Tail(q), t))
<1>1. Len(Tail(q)) = Len(q) - 1 /\ \A i \in 1..Len(q) - 1 : Tail(q)[i] = q[i + 1]
  OBVIOUS
<1>2. ASSUME NEW i \in 1..Len(q), q[i] = s
      PROVE  \E k \in i..Len(q) - 1 : Tail(q)[k] = t
  <2>1. PICK j \in i + 1..Len(q) : q[j] = t
    BY <1>2 DEF Followed
  <2>2. j - 1 \in i..Len(q) - 1 /\ Tail(q)[j - 1] = t
    BY <1>1, <2>1
  <2> QED BY <2>2
<1>3. Followed(Tail(q), s, t)
  <2> SUFFICES ASSUME NEW i \in 1..Len(Tail(q)), Tail(q)[i] = s
               PROVE  \E k \in i + 1..Len(Tail(q)) : Tail(q)[k] = t
    BY DEF Followed
  <2>1. i + 1 \in 1..Len(q) /\ q[i + 1] = s
    BY <1>1
  <2> QED BY <1>1, <1>2, <2>1
<1>4. ASSUME Head(q) = s PROVE Has(Tail(q), t)
  <2>1. 1 \in 1..Len(q) /\ q[1] = s
    BY <1>4
  <2> QED BY <1>1, <1>2, <2>1 DEF Has
<1> QED BY <1>3, <1>4

LEMMA FollowedAppend ==
  ASSUME NEW q \in Seq(Signals), NEW e \in Signals, NEW s, NEW t, s # t,
         e = t \/ (e # s /\ Followed(q, s, t))
  PROVE  Followed(Append(q, e), s, t)
<1> DEFINE r == Append(q, e)
<1>1. /\ Len(r) = Len(q) + 1 /\ r[Len(q) + 1] = e
      /\ \A i \in 1..Len(q) : r[i] = q[i]
  OBVIOUS
<1> SUFFICES ASSUME NEW i \in 1..Len(r), r[i] = s
             PROVE  \E j \in i + 1..Len(r) : r[j] = t
  BY DEF Followed
<1> HIDE DEF r
<1>2. CASE e = t
  <2>1. i \in 1..Len(q)
    BY <1>1, <1>2
  <2> QED BY <1>1, <1>2, <2>1
<1>3. CASE e # s /\ Followed(q, s, t)
  <2>1. i \in 1..Len(q) /\ q[i] = s
    BY <1>1, <1>3
  <2>2. PICK j \in i + 1..Len(q) : q[j] = t
    BY <1>3, <2>1 DEF Followed
  <2>3. j \in i + 1..Len(r) /\ r[j] = t
    BY <1>1, <2>1, <2>2
  <2> QED BY <2>3
<1> QED BY <1>2, <1>3

LEMMA HeadTailType ==
  ASSUME NEW q \in Seq(Signals), q # <<>>
  PROVE  Head(q) \in Signals /\ Tail(q) \in Seq(Signals)
BY HeadTailProperties

-----------------------------------------------------------------------------
(* One step of the system.                                                  *)

LEMMA TypesOK == AdmissionTypeOK => a \in Admission /\ bus \in Seq(Signals)
BY DEF AdmissionTypeOK, Admission

LEMMA InitInv == AdmissionInit => IInv
<1> SUFFICES ASSUME AdmissionInit PROVE IInv
  OBVIOUS
<1>1. NoValues \in Values /\ NoValues.sleeping = FALSE /\ NoValues.known = FALSE /\ NoValues.locked = FALSE
  BY DEF NoValues, Values
<1>2. a \in Admission /\ a.reason = Reason(a.value) /\ a.lockRequested = FALSE /\ a.generation = 0
  BY <1>1 DEF AdmissionInit, Admission, Reason, Reasons
<1>3. NoTick \in [pc : {"idle", "sleep", "session", "got"}, generation : Nat, got : Values]
      /\ NoTick.pc = "idle" /\ NoTick.generation = 0
  BY <1>1 DEF NoTick
<1>0. /\ world \in [screen : Screens, announced : BOOLEAN, active : BOOLEAN, sleeping : BOOLEAN]
      /\ world.announced = FALSE /\ world.sleeping = FALSE
  BY DEF AdmissionInit, Screens
<1>4. AdmissionTypeOK
  BY <1>0, <1>2, <1>3 DEF AdmissionInit, AdmissionTypeOK, Admission
<1>5. Sane
  <2>1. tick = NoTick /\ bus = <<>>
    BY DEF AdmissionInit
  <2> QED BY <1>0, <1>2, <1>3, <2>1 DEF Sane
<1>6. SleepKnown /\ LockKnown
  BY <1>3 DEF AdmissionInit, SleepKnown, LockKnown, Asleep, Announced
<1> QED BY <1>4, <1>5, <1>6 DEF IInv

\* A signal is heard: what was asked before counts no more.
LEMMA DeliverInv == IInv /\ Deliver => IInv'
<1> SUFFICES ASSUME IInv, Deliver PROVE IInv'
  OBVIOUS
<1> DEFINE h == Head(bus)
<1>1. /\ a \in Admission /\ bus \in Seq(Signals) /\ bus # <<>> /\ h \in Signals
      /\ bus' \in Seq(Signals) /\ bus' = Tail(bus)
  BY TypesOK, HeadTailType DEF IInv, Deliver
<1>2. /\ a' \in Admission /\ a'.reason = Reason(a'.value) /\ a'.generation = a.generation + 1
      /\ a'.value.sleeping = IF h \in {"Sleep", "Wake"} THEN h = "Sleep" ELSE a.value.sleeping
      /\ a'.value.locked = IF h = "Lock" THEN TRUE ELSE a.value.locked
      /\ a'.lockRequested = IF h = "Lock" THEN TRUE ELSE a.lockRequested
      /\ a'.hintSeen = IF h = "Lock" THEN FALSE ELSE a.hintSeen
      /\ h # "Unlock" => a'.unlockRequested = IF h = "Lock" THEN FALSE ELSE a.unlockRequested
  <2>1. a.reason = Reason(a.value) /\ a' = Signal(a, h)
    BY DEF IInv, Sane, Deliver
  <2> HIDE DEF h
  <2> QED BY <1>1, <2>1, SignalFields
<1>3. UNCHANGED <<desktop, signals, world, tick, changes>>
  BY DEF Deliver
<1>4. a.generation \in Nat /\ tick.generation \in Nat
  BY DEF IInv, AdmissionTypeOK
<1>5. ~Current'
  BY <1>2, <1>3, <1>4 DEF Current, IInv, Sane
<1>6. AdmissionTypeOK'
  BY <1>1, <1>2, <1>3 DEF IInv, AdmissionTypeOK, Admission
<1> HIDE DEF h
<1>7. Sane'
  BY <1>1, <1>2, <1>3, <1>4, HeadTailProperties DEF IInv, Sane, Reason
<1>8. SleepKnown'
  <2>1. (signals /\ world.sleeping => Followed(bus, "Wake", "Sleep"))'
    BY <1>1, <1>3, FollowedTail DEF IInv, SleepKnown
  <2>2. ASSUME Asleep' PROVE a'.value.sleeping
    <3>1. signals /\ world.sleeping /\ ~Has(bus', "Sleep")
      BY <1>3, <2>2 DEF Asleep, Pending, Has
    <3>2. h # "Wake"
      BY <1>1, <3>1, FollowedTail DEF h, IInv, SleepKnown
    <3>3. CASE h = "Sleep"
      BY <1>2, <3>3
    <3>4. CASE h # "Sleep"
      <4>1. ~Has(bus, "Sleep")
        BY <1>1, <3>1, <3>4, HasTail DEF h
      <4>2. a.value.sleeping
        BY <3>1, <4>1 DEF IInv, SleepKnown, Asleep, Pending, Has
      <4> QED BY <1>2, <3>2, <3>4, <4>2
    <3> QED BY <3>3, <3>4
  <2> QED BY <1>5, <2>1, <2>2 DEF SleepKnown
<1>9. LockKnown'
  <2>1. (signals /\ world.announced /\ world.screen = "locking" => Followed(bus, "Unlock", "Lock"))'
    BY <1>1, <1>3, FollowedTail DEF IInv, LockKnown
  <2>2. ASSUME Announced', h # "Lock" PROVE Announced
    <3>0. ~Has(bus', "Lock")
      BY <2>2 DEF Announced, Pending, Has
    <3>1. ~Has(bus, "Lock")
      BY <1>1, <2>2, <3>0, HasTail DEF h
    <3> QED BY <1>3, <2>2, <3>1 DEF Announced, Pending, Has
  <2>3. Announced' => a'.lockRequested
    BY <1>2, <2>2 DEF IInv, LockKnown
  <2>4. ASSUME Announced', world.screen = "locking" PROVE ~a'.hintSeen /\ ~a'.unlockRequested
    <3>1. CASE h = "Lock"
      BY <1>2, <3>1
    <3>2. CASE h # "Lock"
      <4>1. signals /\ world.announced /\ ~Has(bus', "Lock")
        BY <1>3, <2>4 DEF Announced, Pending, Has
      <4>2. h # "Unlock"
        BY <1>1, <2>4, <4>1, FollowedTail DEF h, IInv, LockKnown
      <4>3. ~a.hintSeen /\ ~a.unlockRequested
        BY <2>2, <2>4, <3>2 DEF IInv, LockKnown
      <4> QED BY <1>2, <3>2, <4>2, <4>3
    <3> QED BY <3>1, <3>2
  <2> QED BY <1>3, <1>5, <2>1, <2>3, <2>4 DEF LockKnown
<1> QED BY <1>6, <1>7, <1>8, <1>9 DEF IInv

\* A question, or its failure: only what the thread has learnt changes.
LEMMA QuestionInv == IInv /\ (Ask \/ ReadSleep \/ ReadSession \/ ReadFails) => IInv'
<1> SUFFICES ASSUME IInv, Ask \/ ReadSleep \/ ReadSession \/ ReadFails PROVE IInv'
  OBVIOUS
<1>1. /\ UNCHANGED <<desktop, signals, world, bus, a>>
      /\ changes' \in Nat
  BY DEF Ask, ReadSleep, ReadSession, ReadFails, Change, IInv, AdmissionTypeOK
<1>2. /\ a.generation \in Nat /\ a.value.sleeping \in BOOLEAN
      /\ tick \in [pc : {"idle", "sleep", "session", "got"}, generation : Nat, got : Values]
      /\ world.sleeping \in BOOLEAN /\ world.active \in BOOLEAN
  BY DEF IInv, AdmissionTypeOK, Values
<1>3. CASE Ask
  <2>1. /\ tick' \in [pc : {"idle", "sleep", "session", "got"}, generation : Nat, got : Values]
        /\ tick'.pc = "sleep" /\ tick'.generation = a.generation /\ tick'.got = NoValues
    BY <1>2, <1>3 DEF Ask, NoTick, NoValues, Values
  <2>2. ~tick'.got.known /\ ~tick'.got.locked
    BY <2>1 DEF NoValues
  <2>3. AdmissionTypeOK' /\ Sane'
    BY <1>1, <1>2, <2>1, <2>2 DEF IInv, AdmissionTypeOK, Sane, Reason
  <2>4. SleepKnown' /\ LockKnown'
    BY <1>1, <2>1 DEF IInv, SleepKnown, LockKnown, Asleep, Announced, Pending, Followed
  <2> QED BY <2>3, <2>4 DEF IInv
<1>4. CASE ReadSleep
  <2>1. /\ tick' \in [pc : {"idle", "sleep", "session", "got"}, generation : Nat, got : Values]
        /\ tick'.pc \in {"session", "got"} /\ tick'.generation = tick.generation
        /\ tick'.got.sleeping = world.sleeping /\ ~tick'.got.known /\ ~tick'.got.locked
    BY <1>2, <1>4 DEF ReadSleep, Values, IInv, Sane
  <2> QED BY <1>1, <1>2, <2>1 DEF IInv, AdmissionTypeOK, Sane, SleepKnown, LockKnown, Asleep, Announced, Pending,
                                  Followed, Current, Reason
<1>5. CASE ReadSession
  <2>1. /\ tick' \in [pc : {"idle", "sleep", "session", "got"}, generation : Nat, got : Values]
        /\ tick'.pc = "got" /\ tick'.generation = tick.generation /\ tick.pc = "session"
        /\ tick'.got.sleeping = tick.got.sleeping /\ tick'.got.locked = Hint
    <3> DEFINE g == [known |-> TRUE, active |-> world.active, locked |-> Hint, sleeping |-> tick.got.sleeping]
    <3>1. g \in Values /\ g.sleeping = tick.got.sleeping /\ g.locked = Hint
      BY <1>2 DEF Values, Hint
    <3>2. tick' = [tick EXCEPT !.pc = "got", !.got = g] /\ tick.pc = "session"
      BY <1>5 DEF ReadSession
    <3> HIDE DEF g
    <3> QED BY <1>2, <3>1, <3>2
  <2>2. AdmissionTypeOK' /\ Sane'
    BY <1>1, <1>2, <2>1 DEF IInv, AdmissionTypeOK, Sane, Reason
  <2>3. SleepKnown'
    BY <1>1, <1>2, <2>1 DEF IInv, SleepKnown, Asleep, Pending, Followed, Current
  <2>4. Announced /\ ~Hint => world.screen = "locking"
    BY DEF Announced, Hint, IInv, AdmissionTypeOK, Screens
  <2>5. LockKnown'
    BY <1>1, <1>2, <2>1, <2>4 DEF IInv, LockKnown, Announced, Pending, Followed, Current, Hint
  <2> QED BY <2>2, <2>3, <2>5 DEF IInv
<1>6. CASE ReadFails
  <2>1. /\ tick' \in [pc : {"idle", "sleep", "session", "got"}, generation : Nat, got : Values]
        /\ tick'.pc = "got" /\ tick'.generation = tick.generation
        /\ tick'.got.sleeping = a.value.sleeping /\ ~tick'.got.known /\ ~tick'.got.locked
    BY <1>2, <1>6 DEF ReadFails, NoValues, Values
  <2> QED BY <1>1, <1>2, <2>1 DEF IInv, AdmissionTypeOK, Sane, SleepKnown, LockKnown, Asleep, Announced, Pending,
                                  Followed, Current, Reason
<1> QED BY <1>3, <1>4, <1>5, <1>6

\* An answer is believed, unless a signal has come since it was asked for.
LEMMA ApplyInv == IInv /\ Apply => IInv'
<1> SUFFICES ASSUME IInv, Apply PROVE IInv'
  OBVIOUS
<1>1. /\ UNCHANGED <<desktop, signals, world, bus, changes>> /\ tick.pc = "got"
      /\ a' = Update(a, tick.got, tick.generation) /\ tick' = NoTick
  BY DEF Apply
<1>2. /\ a \in Admission /\ tick.got \in Values /\ tick.generation \in Nat /\ a.generation \in Nat
  BY DEF IInv, AdmissionTypeOK, Admission
<1>3. /\ tick' \in [pc : {"idle", "sleep", "session", "got"}, generation : Nat, got : Values]
      /\ tick'.pc = "idle" /\ tick'.generation = 0
  BY <1>1 DEF NoTick, NoValues, Values
<1>4. /\ a' \in Admission /\ a'.generation = a.generation
      /\ ~Current => a' = a
      /\ Current =>
           /\ a'.reason = Reason(a'.value) /\ a'.value.sleeping = tick.got.sleeping
           /\ a'.lockRequested => a'.value.locked
           /\ a.lockRequested /\ ~a'.lockRequested
                => tick.got.known /\ ~tick.got.locked /\ (a.unlockRequested \/ a.hintSeen)
           /\ a'.hintSeen => a.hintSeen \/ tick.got.locked
           /\ a'.unlockRequested => a.unlockRequested
  BY <1>1, <1>2, UpdateFields DEF Current
<1>5. AdmissionTypeOK'
  BY <1>1, <1>3, <1>4 DEF IInv, AdmissionTypeOK, Admission
<1>6. Sane'
  BY <1>1, <1>2, <1>3, <1>4 DEF IInv, Sane, Reason
<1>7. SleepKnown'
  BY <1>1, <1>3, <1>4 DEF IInv, SleepKnown, Asleep, Pending, Followed
<1>8. LockKnown'
  BY <1>1, <1>3, <1>4 DEF IInv, LockKnown, Announced, Pending, Followed
<1> QED BY <1>5, <1>6, <1>7, <1>8 DEF IInv

\* What was known of the desktop is lost, or the GUI tells of a lock: both are newer than any answer.
LEMMA UnaskedInv == IInv /\ (Unknown \/ GuiLock) => IInv'
<1> SUFFICES ASSUME IInv, Unknown \/ GuiLock PROVE IInv'
  OBVIOUS
<1>1. /\ UNCHANGED <<desktop, signals, world, bus, tick>> /\ changes' \in Nat
  BY DEF Unknown, GuiLock, Change, IInv, AdmissionTypeOK
<1>2. /\ a \in Admission /\ a.generation \in Nat /\ tick.generation \in Nat /\ "Lock" \in Signals
      /\ a.reason = Reason(a.value)
  BY DEF IInv, AdmissionTypeOK, Admission, Sane, Signals
<1>3. /\ a' \in Admission /\ a'.reason = Reason(a'.value) /\ a'.generation = a.generation + 1
      /\ a'.value.sleeping = a.value.sleeping
      /\ a.lockRequested => a'.lockRequested
      /\ a'.lockRequested => a'.value.locked
      /\ a'.hintSeen => a.hintSeen
      /\ a'.unlockRequested => a.unlockRequested
  <2>1. CASE Unknown
    BY <1>2, <2>1, LostFields DEF Unknown, IInv, Sane
  <2>2. CASE GuiLock
    <3>1. a' = Signal(a, "Lock")
      BY <2>2 DEF GuiLock
    <3> QED BY <1>2, <3>1, SignalFields
  <2> QED BY <2>1, <2>2
<1>4. ~Current'
  BY <1>1, <1>2, <1>3 DEF Current, IInv, Sane
<1>5. AdmissionTypeOK'
  BY <1>1, <1>3 DEF IInv, AdmissionTypeOK, Admission
<1>6. Sane'
  BY <1>1, <1>2, <1>3 DEF IInv, Sane, Reason
<1>7. SleepKnown'
  BY <1>1, <1>3, <1>4 DEF IInv, SleepKnown, Asleep, Pending, Followed
<1>8. LockKnown'
  BY <1>1, <1>3, <1>4 DEF IInv, LockKnown, Announced, Pending, Followed
<1> QED BY <1>5, <1>6, <1>7, <1>8 DEF IInv

\* The desktop changes, and login1 says so where there is something to say.
LEMMA SendType ==
  ASSUME bus \in Seq(Signals), NEW s \in Signals, Announce(s)
  PROVE  bus' \in Seq(Signals)
BY DEF Announce

LEMMA AnnounceLockInv == IInv /\ AnnounceLock => IInv'
<1> SUFFICES ASSUME IInv, AnnounceLock PROVE IInv'
  OBVIOUS
<1>1. /\ UNCHANGED <<desktop, signals, a, tick>> /\ changes' \in Nat /\ Announce("Lock") /\ "Lock" \in Signals
      /\ bus \in Seq(Signals) /\ bus' \in Seq(Signals)
  BY SendType DEF AnnounceLock, Change, IInv, AdmissionTypeOK, Signals
<1>2. /\ world' \in [screen : Screens, announced : BOOLEAN, active : BOOLEAN, sleeping : BOOLEAN]
      /\ world'.screen # "open" /\ world'.sleeping = world.sleeping
  BY DEF AnnounceLock, IInv, AdmissionTypeOK, Screens
<1>3. ASSUME signals
      PROVE  /\ bus' = Append(bus, "Lock") /\ Has(bus', "Lock")
             /\ Has(bus, "Sleep") => Has(bus', "Sleep")
             /\ Followed(bus', "Unlock", "Lock")
             /\ Followed(bus, "Wake", "Sleep") => Followed(bus', "Wake", "Sleep")
  <2>1. bus' = Append(bus, "Lock")
    BY <1>1, <1>3 DEF Announce
  <2>2. Has(bus', "Lock") /\ (Has(bus, "Sleep") => Has(bus', "Sleep"))
    BY <1>1, <2>1, HasAppend
  <2>3. Followed(bus', "Unlock", "Lock")
    BY <1>1, <2>1, FollowedAppend
  <2>4. Followed(bus, "Wake", "Sleep") => Followed(bus', "Wake", "Sleep")
    BY <1>1, <2>1, FollowedAppend
  <2> QED BY <2>1, <2>2, <2>3, <2>4
<1>4. AdmissionTypeOK'
  BY <1>1, <1>2 DEF IInv, AdmissionTypeOK
<1>5. Sane'
  BY <1>1, <1>2 DEF IInv, Sane, Reason, Announce
<1>6. SleepKnown'
  BY <1>1, <1>2, <1>3 DEF IInv, SleepKnown, Asleep, Pending, Has, Current
<1>7. LockKnown'
  BY <1>1, <1>2, <1>3 DEF IInv, LockKnown, Announced, Pending, Has
<1> QED BY <1>4, <1>5, <1>6, <1>7 DEF IInv

LEMMA AnnounceUnlockInv == IInv /\ AnnounceUnlock => IInv'
<1> SUFFICES ASSUME IInv, AnnounceUnlock PROVE IInv'
  OBVIOUS
<1>1. /\ UNCHANGED <<desktop, signals, a, tick>> /\ changes' \in Nat /\ Announce("Unlock") /\ "Unlock" \in Signals
      /\ bus \in Seq(Signals) /\ bus' \in Seq(Signals)
  BY SendType DEF AnnounceUnlock, Change, IInv, AdmissionTypeOK, Signals
<1>2. /\ world' \in [screen : Screens, announced : BOOLEAN, active : BOOLEAN, sleeping : BOOLEAN]
      /\ world.screen = "locked" /\ world'.screen = "unlocking"
      /\ world'.sleeping = world.sleeping /\ world'.announced = world.announced
  BY DEF AnnounceUnlock, IInv, AdmissionTypeOK, Screens
<1>3. ASSUME signals
      PROVE  /\ bus' = Append(bus, "Unlock")
             /\ Has(bus, "Sleep") => Has(bus', "Sleep")
             /\ Has(bus, "Lock") => Has(bus', "Lock")
             /\ Followed(bus, "Wake", "Sleep") => Followed(bus', "Wake", "Sleep")
  <2>1. bus' = Append(bus, "Unlock")
    BY <1>1, <1>3 DEF Announce
  <2>2. (Has(bus, "Sleep") => Has(bus', "Sleep")) /\ (Has(bus, "Lock") => Has(bus', "Lock"))
    BY <1>1, <2>1, HasAppend
  <2>3. Followed(bus, "Wake", "Sleep") => Followed(bus', "Wake", "Sleep")
    BY <1>1, <2>1, FollowedAppend
  <2> QED BY <2>1, <2>2, <2>3
<1>4. AdmissionTypeOK'
  BY <1>1, <1>2 DEF IInv, AdmissionTypeOK
<1>5. Sane'
  BY <1>1, <1>2 DEF IInv, Sane, Reason, Announce
<1>6. SleepKnown'
  BY <1>1, <1>2, <1>3 DEF IInv, SleepKnown, Asleep, Pending, Has, Current
<1>7. LockKnown'
  BY <1>1, <1>2, <1>3 DEF IInv, LockKnown, Announced, Pending, Has, Current
<1> QED BY <1>4, <1>5, <1>6, <1>7 DEF IInv

LEMMA ScreenInv == IInv /\ (ScreenLocks \/ ScreenOpens) => IInv'
<1> SUFFICES ASSUME IInv, ScreenLocks \/ ScreenOpens PROVE IInv'
  OBVIOUS
<1>1. UNCHANGED <<desktop, signals, bus, a, tick>> /\ changes' \in Nat
  BY DEF ScreenLocks, ScreenOpens, Change, IInv, AdmissionTypeOK
<1>2. /\ world' \in [screen : Screens, announced : BOOLEAN, active : BOOLEAN, sleeping : BOOLEAN]
      /\ world'.screen # "locking" /\ world'.sleeping = world.sleeping
      /\ world'.screen = "open" => ~world'.announced
      /\ world'.announced => world.announced /\ world.screen # "open"
  BY DEF ScreenLocks, ScreenOpens, IInv, AdmissionTypeOK, Screens, Sane
<1>3. AdmissionTypeOK'
  BY <1>1, <1>2 DEF IInv, AdmissionTypeOK
<1>4. Sane'
  BY <1>1, <1>2 DEF IInv, Sane, Reason
<1>5. SleepKnown'
  BY <1>1, <1>2 DEF IInv, SleepKnown, Asleep, Pending, Current
<1>6. LockKnown'
  BY <1>1, <1>2 DEF IInv, LockKnown, Announced, Pending, Current
<1> QED BY <1>3, <1>4, <1>5, <1>6 DEF IInv

LEMMA SleepInv == IInv /\ Sleep => IInv'
<1> SUFFICES ASSUME IInv, Sleep PROVE IInv'
  OBVIOUS
<1> DEFINE s == IF world.sleeping THEN "Wake" ELSE "Sleep"
<1>1. /\ UNCHANGED <<desktop, signals, a, tick>> /\ changes' \in Nat /\ Announce(s) /\ s \in Signals
      /\ bus \in Seq(Signals) /\ bus' \in Seq(Signals)
  BY SendType DEF Sleep, Change, IInv, AdmissionTypeOK, Signals
<1>2. /\ world' \in [screen : Screens, announced : BOOLEAN, active : BOOLEAN, sleeping : BOOLEAN]
      /\ world'.sleeping = ~world.sleeping
      /\ world'.announced = world.announced /\ world'.screen = world.screen
  BY DEF Sleep, IInv, AdmissionTypeOK, Screens
<1>3. ASSUME signals
      PROVE  /\ bus' = Append(bus, s)
             /\ s = "Sleep" => Has(bus', "Sleep") /\ Followed(bus', "Wake", "Sleep")
             /\ Has(bus, "Lock") => Has(bus', "Lock")
             /\ Followed(bus, "Unlock", "Lock") => Followed(bus', "Unlock", "Lock")
  <2>1. bus' = Append(bus, s)
    BY <1>1, <1>3 DEF Announce
  <2>2. s # "Unlock" /\ (s = "Sleep" \/ s = "Wake")
    OBVIOUS
  <2> HIDE DEF s
  <2>3. (s = "Sleep" => Has(bus', "Sleep")) /\ (Has(bus, "Lock") => Has(bus', "Lock"))
    BY <1>1, <2>1, HasAppend
  <2>4. s = "Sleep" => Followed(bus', "Wake", "Sleep")
    BY <1>1, <2>1, FollowedAppend
  <2>5. Followed(bus, "Unlock", "Lock") => Followed(bus', "Unlock", "Lock")
    BY <1>1, <2>1, <2>2, FollowedAppend
  <2> QED BY <2>1, <2>3, <2>4, <2>5
<1>4. AdmissionTypeOK'
  BY <1>1, <1>2 DEF IInv, AdmissionTypeOK
<1>5. Sane'
  BY <1>1, <1>2 DEF IInv, Sane, Reason, Announce
<1>6. SleepKnown'
  BY <1>1, <1>2, <1>3 DEF IInv, AdmissionTypeOK, SleepKnown, Asleep, Pending, Has
<1>7. LockKnown'
  BY <1>1, <1>2, <1>3 DEF IInv, LockKnown, Announced, Pending, Has, Current
<1> QED BY <1>4, <1>5, <1>6, <1>7 DEF IInv

LEMMA SwitchInv == IInv /\ Switch => IInv'
<1> SUFFICES ASSUME IInv, Switch PROVE IInv'
  OBVIOUS
<1>1. UNCHANGED <<desktop, signals, bus, a, tick>> /\ changes' \in Nat
  BY DEF Switch, Change, IInv, AdmissionTypeOK
<1>2. /\ world' \in [screen : Screens, announced : BOOLEAN, active : BOOLEAN, sleeping : BOOLEAN]
      /\ world'.screen = world.screen /\ world'.announced = world.announced /\ world'.sleeping = world.sleeping
  BY DEF Switch, IInv, AdmissionTypeOK
<1>3. AdmissionTypeOK' /\ Sane'
  BY <1>1, <1>2 DEF IInv, AdmissionTypeOK, Sane, Reason
<1>4. SleepKnown' /\ LockKnown'
  BY <1>1, <1>2 DEF IInv, SleepKnown, LockKnown, Asleep, Announced, Pending, Current, Followed
<1> QED BY <1>3, <1>4 DEF IInv

-----------------------------------------------------------------------------
LEMMA StepInv == IInv /\ [AdmissionNext]_admissionVars => IInv'
<1> SUFFICES ASSUME IInv, [AdmissionNext]_admissionVars PROVE IInv'
  OBVIOUS
<1>1. CASE UNCHANGED admissionVars
  <2> USE <1>1 DEF admissionVars
  <2>1. AdmissionTypeOK' /\ Sane'
    BY DEF IInv, AdmissionTypeOK, Sane, Reason
  <2>2. SleepKnown' /\ LockKnown'
    BY DEF IInv, SleepKnown, LockKnown, Asleep, Announced, Pending, Current, Followed
  <2> QED BY <2>1, <2>2 DEF IInv
<1> QED BY <1>1, DeliverInv, QuestionInv, ApplyInv, UnaskedInv, AnnounceLockInv, AnnounceUnlockInv, ScreenInv,
           SleepInv, SwitchInv DEF AdmissionNext, Question

LEMMA Invariance == AdmissionSpec => []IInv
BY InitInv, StepInv, PTL DEF AdmissionSpec

\* The state of the admission, of the question in progress and of the signals keeps its form.
THEOREM AdmissionTyped == AdmissionSpec => []AdmissionTypeOK
<1>1. IInv => AdmissionTypeOK
  BY DEF IInv
<1> QED BY Invariance, <1>1, PTL

\* Whatever the order in which late answers, signals and failures reach the two threads of
\* worker/meeting_session.py: once a lock has been heard of nothing is admitted before the screen is
\* open again, and nothing while the system sleeps.
THEOREM SessionIsHonest == AdmissionSpec => []SessionHonest
<1>1. ASSUME IInv PROVE LockHolds
  <2>1. SUFFICES ASSUME signals, desktop = "KDE", world.announced, world.screen # "open", ~Pending("Lock")
                 PROVE  a.reason \in Reasons
    BY DEF LockHolds
  <2>2. a.value \in Values /\ a.value.locked /\ a.reason = Reason(a.value)
    BY <1>1, <2>1 DEF IInv, AdmissionTypeOK, Sane, LockKnown, Announced
  <2> QED BY <2>1, <2>2, ReasonLocked
<1>2. ASSUME IInv PROVE SleepHolds
  <2>1. SUFFICES ASSUME signals, world.sleeping, ~Pending("Sleep") PROVE a.reason = "sleep"
    BY DEF SleepHolds
  <2>2. a.value \in Values /\ a.value.sleeping /\ a.reason = Reason(a.value)
    BY <1>2, <2>1 DEF IInv, AdmissionTypeOK, Sane, SleepKnown, Asleep
  <2> QED BY <2>2, ReasonAsleep
<1>3. IInv => SessionHonest
  BY <1>1, <1>2 DEF SessionHonest
<1> QED BY Invariance, <1>3, PTL

==============================================================================

