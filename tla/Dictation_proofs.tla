-------------------------- MODULE Dictation_proofs ---------------------------
(***************************************************************************)
(* What the phrase queue of the GUI promises for any number of phrases,    *)
(* generations of the worker, deferred events and nested calls.            *)
(*                                                                         *)
(* A handler is a chain of operators on a state s.  The steps of a chain   *)
(* are classed by what they may do: Full keeps the invariant and begins    *)
(* nothing, Mend ends a phrase that is under way, Fine leads from a state  *)
(* in which all is well to another; each is transitive, so that a handler  *)
(* is proved one operator at a time.  A press, a result and a paste begin  *)
(* something, and are proved from the parts of the invariant themselves.   *)
(*                                                                         *)
(* The invariant, Right, says more than the properties: which phrases have *)
(* a capture, a cancellation, a request or a timer (Well), and in which    *)
(* order they are at work, in frames of nested calls and pasted (Turn).    *)
(***************************************************************************)
EXTENDS Dictation, TLAPS, FiniteSetTheorems, SequenceTheorems, WellFoundedInduction

-----------------------------------------------------------------------------
Nums == 0..PhraseLimit
Outcomes == {"none", "text", "blank"}
\* The fields of a phrase and their values
PhraseType ==
  [phase: Phases, gen: Nat, timers: SUBSET Timers, cancelled: BOOLEAN, pending: BOOLEAN, job: BOOLEAN,
   capture: BOOLEAN, shown: BOOLEAN, outcome: BOOLEAN, awaits: BOOLEAN, tail: BOOLEAN, delivered: BOOLEAN,
   retried: BOOLEAN, result: Outcomes, waiting: BOOLEAN]
PhraseFields == DOMAIN Blank
Words == UserEvents \cup Endings \cup
         {"hello", "changed", "changed early", "limit", "text", "blank", "nothing to stop"}
\* Events as they are deferred, and frames of nested calls
EventType == [what: Words, uid: Nums, gen: Nat]
KindNames == {"pasted", "unsent", "refused", "busy"}
FrameType == [tag: {"paste", "pump", "pumping"}, uid: Nums] \cup
             [tag: {"drain"}, uid: Nums, kind: KindNames, overlap: BOOLEAN, before: SUBSET Nums]
HotkeyType == [state: {"idle", "recording", "processing"}, overlap: BOOLEAN]
Links == {"starting", "up", "restarting", "stopped", "terminated"}
\* The fields of a state, and those of a phrase, by name
Fields == {"phrases", "items", "contexts", "last", "hotkey", "indicator", "deferred", "stack", "generation",
           "link", "waits", "closing", "source", "pasted", "fault"}

LEMMA FieldsAre ==
  /\ Fields = {"phrases", "items", "contexts", "last", "hotkey", "indicator", "deferred", "stack", "generation",
               "link", "waits", "closing", "source", "pasted", "fault"}
  /\ PhraseFields = {"phase", "gen", "timers", "cancelled", "pending", "job", "capture", "shown", "outcome", "awaits",
                     "tail", "delivered", "retried", "result", "waiting"}
BY DEF Fields, PhraseFields, Blank

LEMMA NowFields == DOMAIN Now = Fields
BY DEF Fields, Now

(* The types.  TypedQueue holds the fields of the queue, TypedRest the others. *)

TypedQueue(s) ==
  /\ s.phrases \in [Nums -> PhraseType] /\ \A u \in Nums : s.phrases[u].gen <= s.generation
  /\ s.items \subseteq s.contexts /\ s.contexts \subseteq Nums /\ s.last \in s.contexts
TypedRest(s) ==
  /\ s.hotkey \in HotkeyType /\ s.indicator \in BOOLEAN
  /\ s.deferred \in Seq(EventType) /\ s.stack \in Seq(FrameType)
  /\ s.generation \in Nat \ {0} /\ s.generation <= GenerationLimit /\ s.link \in Links
  /\ s.waits \in [Ids -> SUBSET (Requests \cup {"lost"})] /\ s.closing \in BOOLEAN
  /\ s.source \in [Ids -> {"none", "open", "closed", "told"}]
  /\ s.pasted \in Seq(Ids)
  /\ s.fault \in {"none", "now", "later"}
  /\ s.fault = "now" /\ s.link = "up" => s.generation < GenerationLimit
Typed(s) == DOMAIN s = Fields /\ TypedQueue(s) /\ TypedRest(s)

-----------------------------------------------------------------------------
(* What changes.  Keeps: no field but those of S; PhraseOnly: the phrase u and whether it is in the *)
(* queue; Changes: the fields of S of the phrase u.                                                *)

Keeps(x, y, S) == DOMAIN y = Fields /\ \A f \in Fields \ S : y[f] = x[f]
Same(p, q, S) == \A f \in PhraseFields \ S : q[f] = p[f]
PhraseOnly(x, y, u) ==
  /\ Keeps(x, y, {"phrases", "items", "last"})
  /\ y.phrases \in [Nums -> PhraseType]
  /\ \A v \in Nums \ {u} : y.phrases[v] = x.phrases[v]
  /\ y.phrases[u].gen = x.phrases[u].gen
  /\ y.items \in {x.items, x.items \ {u}}
  /\ y.last \in x.contexts

LEMMA PhraseOnlyRefl == ASSUME NEW x, Typed(x), NEW u \in Nums PROVE PhraseOnly(x, x, u)
BY DEF PhraseOnly, Keeps, Typed, TypedQueue

LEMMA PhraseOnlyTrans == ASSUME NEW x, NEW y, NEW z, NEW u \in Nums, PhraseOnly(x, y, u), PhraseOnly(y, z, u) PROVE PhraseOnly(x, z, u)
<1>1. Keeps(x, z, {"phrases", "items", "last"}) /\ y.contexts = x.contexts
  BY FieldsAre DEF PhraseOnly, Keeps
<1> QED
  BY <1>1 DEF PhraseOnly

LEMMA PhraseOnlyTyped == ASSUME NEW x, NEW y, Typed(x), NEW u \in Nums, PhraseOnly(x, y, u) PROVE Typed(y)
<1>1. TypedRest(y)
  BY FieldsAre DEF PhraseOnly, Keeps, Typed, TypedRest
<1>2. TypedQueue(y)
  BY FieldsAre DEF PhraseOnly, Keeps, Typed, TypedQueue
<1> QED
  BY <1>1, <1>2 DEF Typed, PhraseOnly, Keeps

\* One phrase rewritten
Changes(x, y, u, S) ==
  /\ PhraseOnly(x, y, u) /\ y.items = x.items /\ y.last = x.last /\ Same(x.phrases[u], y.phrases[u], S)
With(s, u, q) == [s EXCEPT !.phrases = [s.phrases EXCEPT ![u] = q]]

\* One phrase is rewritten, and nothing else
LEMMA Rewritten ==
  ASSUME NEW s, Typed(s), NEW u \in Nums, NEW q \in PhraseType, q.gen = s.phrases[u].gen
  PROVE LET y == With(s, u, q) IN PhraseOnly(s, y, u) /\ y.items = s.items /\ y.last = s.last /\ y.phrases[u] = q
<1> DEFINE y == With(s, u, q)
<1>0. y = [s EXCEPT !.phrases = [s.phrases EXCEPT ![u] = q]]
  BY DEF With
<1> HIDE DEF y
<1> SUFFICES PhraseOnly(s, y, u) /\ y.items = s.items /\ y.last = s.last /\ y.phrases[u] = q
  BY DEF y
<1>1. Keeps(s, y, {"phrases"})
  BY <1>0 DEF Keeps, Typed
<1>2. y.phrases = [s.phrases EXCEPT ![u] = q]
  BY <1>0, FieldsAre DEF Typed
<1>3. s.phrases \in [Nums -> PhraseType] /\ s.last \in s.contexts
  BY DEF Typed, TypedQueue
<1>4. Keeps(s, y, {"phrases", "items", "last"}) /\ y.items = s.items /\ y.last = s.last
  BY <1>1, FieldsAre DEF Keeps
<1> QED
  BY <1>2, <1>3, <1>4 DEF PhraseOnly

LEMMA WithChanges ==
  ASSUME NEW s, Typed(s), NEW u \in Nums, NEW q \in PhraseType, NEW S, "gen" \notin S, Same(s.phrases[u], q, S)
  PROVE Changes(s, With(s, u, q), u, S) /\ With(s, u, q).phrases[u] = q
<1>1. q.gen = s.phrases[u].gen
  BY FieldsAre DEF Same
<1> QED
  BY <1>1, Rewritten DEF Changes

LEMMA PhraseTyped == ASSUME NEW s, Typed(s), NEW u \in Nums PROVE s.phrases[u] \in PhraseType
BY DEF Typed, TypedQueue

LEMMA LaterIs ==
  ASSUME NEW s, Typed(s), NEW u \in Nums, NEW timer \in Timers
  PROVE LET y == Later(s, u, timer) IN
    Changes(s, y, u, {"timers"}) /\ y.phrases[u].timers = s.phrases[u].timers \cup {timer}
<1> DEFINE p == s.phrases[u]
           q == [p EXCEPT !.timers = p.timers \cup {timer}]
<1>1. p \in PhraseType
  BY PhraseTyped
<1>2. q \in PhraseType /\ Same(p, q, {"timers"}) /\ q.timers = p.timers \cup {timer}
  BY <1>1, FieldsAre DEF PhraseType, Same
<1>3. Later(s, u, timer) = With(s, u, q)
  BY DEF Later, With
<1> HIDE DEF q
<1> QED
  BY <1>2, <1>3, WithChanges

-----------------------------------------------------------------------------
(* The invariant.  Common is about the captures of the worker, the events deferred and the requests  *)
(* that wait, PhraseOK about one phrase.                                                           *)

Current(s, u) == s.phrases[u].gen = s.generation
\* The timers that end a cancellation
Alarm(s, u) == s.phrases[u].timers \cap {"cancel", "restart"}
Busy == {"recording", "processing", "pasting"}
\* A phrase is in the queue while it is at work; what has ended with an open capture is pending
\* (_begin_finish, _ensure_capture_closed); each timer belongs to a phase
PhraseOK(s, u) ==
  /\ u \in s.items <=> s.phrases[u].phase \in Busy
  /\ u \in s.items => u # 0 /\ ~s.phrases[u].awaits
  /\ u \in s.contexts /\ u # 0 => s.phrases[u].gen > 0
  /\ s.phrases[u].pending => u # 0 /\ u \in s.contexts
  /\ u \in s.contexts /\ u \notin s.items /\ s.phrases[u].capture /\ Current(s, u) => s.phrases[u].pending
  /\ s.phrases[u].timers # {} => u \in s.contexts
  /\ s.phrases[u].timers \cap {"tail", "watchdog", "busy"} # {} => u \in s.items
  /\ "done" \in s.phrases[u].timers => u \notin s.items
  /\ "busy" \in s.phrases[u].timers => s.phrases[u].phase = "pasting"
  /\ s.phrases[u].result # "none" => s.phrases[u].phase = "processing"
\* The GUI takes an open capture for open, in this generation, and shows an indicator
SourceOK(s, u) ==
  s.source[u] = "open" => /\ u \in s.contexts /\ s.phrases[u].capture /\ Current(s, u)
                          /\ s.link \in {"up", "restarting"} /\ s.indicator
OneOpen(s) == \A u, v \in Open(s) : u = v
\* With a phrase of this generation at work, nothing of an earlier one is
Together(s) ==
  (\E v \in s.items : Current(s, v)) =>
     \A c \in s.contexts : s.phrases[c].pending \/ c \in s.items => Current(s, c)
Results == {"text", "blank"}
Acks == {"cancelled", "nothing to cancel"}
\* What an event that waits may tell
EventOK(s, e) ==
  /\ e.gen <= s.generation
  /\ e.what = "crashed" => e.gen < s.generation \/ s.link \in {"stopped", "terminated"}
  /\ e.what \in {"cancelled", "nothing to cancel"} =>
       e.uid \in Ids /\ (e.gen = s.generation => s.source[e.uid] # "open")
  /\ e.what \in Results => e.uid \in Ids
EventsOK(s) == \A i \in DOMAIN s.deferred : EventOK(s, s.deferred[i])
Heard(s, u) == {i \in DOMAIN s.deferred : s.deferred[i].what \in Results /\ s.deferred[i].uid = u}
Records(s, u) == u \in s.items /\ s.phrases[u].phase = "recording"

\* No recognition has been asked for yet, or its result has come
Closed(s, u) == s.phrases[u].gen = 0 \/ Records(s, u) \/ (u \in s.items /\ s.phrases[u].result # "none")

\* A phrase is recognized only once
OnceOK(s, u) ==
  /\ Closed(s, u) => "recognize" \notin s.waits[u]
  /\ Closed(s, u) \/ "recognize" \in s.waits[u] => Heard(s, u) = {}
  /\ \A i, j \in Heard(s, u) : i = j
  /\ s.phrases[u].gen = 0 =>
       "record.cancel" \notin s.waits[u] /\ \A i \in DOMAIN s.deferred : s.deferred[i].uid = u => s.deferred[i].what \notin Acks
Once(s) == \A u \in Ids : OnceOK(s, u)
Common(s) == (\A u \in Ids : SourceOK(s, u)) /\ OneOpen(s) /\ Together(s) /\ EventsOK(s) /\ Once(s)
GoodBut(s, u) == Common(s) /\ \A v \in Nums \ {u} : PhraseOK(s, v)
Good(s) == Common(s) /\ \A v \in Nums : PhraseOK(s, v)

(* Ebb: what a handler may do short of a new phrase, a result or a paste.  Nothing begins, the queue  *)
(* only shrinks, and what is over stays over; it is transitive (EbbTrans).                          *)

EbbPhrase(x, y, u) ==
  /\ y.phrases[u].gen = x.phrases[u].gen
  /\ y.phrases[u].capture => x.phrases[u].capture
  /\ y.phrases[u].pending => x.phrases[u].pending \/ u \in x.items \/ Current(x, u)
  /\ u \in y.items =>
       /\ y.phrases[u].phase = x.phrases[u].phase \/ (x.phrases[u].phase = "recording" /\ y.phrases[u].phase = "processing")
       /\ y.phrases[u].waiting = x.phrases[u].waiting /\ y.phrases[u].delivered = x.phrases[u].delivered
       /\ "busy" \in y.phrases[u].timers => "busy" \in x.phrases[u].timers
       /\ y.phrases[u].cancelled /\ ~x.phrases[u].cancelled => ~x.phrases[u].delivered /\ ~Suspended(x)
       /\ x.phrases[u].cancelled => y.phrases[u].cancelled
       /\ y.phrases[u].result = x.phrases[u].result

\* Only events that are no results are deferred
News(x, y) ==
  /\ \A i \in DOMAIN x.deferred : i \in DOMAIN y.deferred /\ y.deferred[i] = x.deferred[i]
  /\ \A i \in DOMAIN y.deferred \ DOMAIN x.deferred : EventOK(y, y.deferred[i]) /\ y.deferred[i].what \notin Results \cup Acks
Unasked(s, u) == u \in s.items /\ s.phrases[u].gen # 0 /\ s.phrases[u].result = "none" /\ ~s.phrases[u].cancelled /\ Heard(s, u) = {}
\* A recognition is asked for once, a cancellation of a phrase that has begun
Asks(x, y) ==
  \A u \in Ids :
    /\ "recognize" \in y.waits[u] => "recognize" \in x.waits[u] \/ (Unasked(x, u) /\ ~Records(y, u))
    /\ "record.cancel" \in y.waits[u] => "record.cancel" \in x.waits[u] \/ x.phrases[u].gen # 0
\* No frame, no paste, no capture begins; the generation does not go back
Steady(x, y) ==
  /\ y.contexts = x.contexts /\ y.stack = x.stack /\ y.pasted = x.pasted
  /\ x.generation <= y.generation
  /\ y.generation = x.generation => y.link = x.link \/ (x.link \in {"starting", "up"} /\ y.link = "restarting")
  /\ \A u \in Ids : y.source[u] = "open" => x.source[u] = "open" /\ y.generation = x.generation
Ebb(x, y) ==
  /\ Steady(x, y) /\ News(x, y) /\ Asks(x, y)
  /\ y.items \subseteq x.items
  /\ \A u \in Nums : EbbPhrase(x, y, u)
\* A step that keeps types and invariant
Sound(x, y) == Typed(y) /\ Ebb(x, y) /\ (Good(x) => Good(y))

LEMMA TypedFacts ==
  ASSUME NEW x, Typed(x)
  PROVE /\ x.generation \in Nat /\ \A u \in Nums : x.phrases[u].gen \in Nat /\ x.phrases[u].gen <= x.generation
        /\ \A i \in DOMAIN x.deferred : x.deferred[i] \in EventType
        /\ x.items \subseteq Nums /\ x.contexts \subseteq Nums /\ x.items \subseteq x.contexts
<1>1. \A i \in DOMAIN x.deferred : x.deferred[i] \in EventType
  BY ElementOfSeq DEF Typed, TypedRest
<1>2. \A u \in Nums : x.phrases[u].gen \in Nat
  BY PhraseTyped DEF PhraseType
<1> QED
  BY <1>1, <1>2 DEF Typed, TypedRest, TypedQueue

\* What an event may tell, it may tell later
LEMMA EventLater == ASSUME NEW x, NEW y, NEW e \in EventType, Typed(x), Typed(y), Steady(x, y), EventOK(x, e) PROVE EventOK(y, e)
<1>1. e.gen \in Nat /\ x.generation \in Nat /\ y.generation \in Nat
  BY TypedFacts DEF EventType
<1>0. e.gen <= x.generation /\ x.generation <= y.generation
  BY DEF EventOK, Steady
<1>2. e.gen <= y.generation
  BY <1>0, <1>1
<1>3. e.what = "crashed" => e.gen < y.generation \/ y.link \in {"stopped", "terminated"}
  BY <1>1 DEF EventOK, Steady
<1>4. e.what \in {"cancelled", "nothing to cancel"} =>
       e.uid \in Ids /\ (e.gen = y.generation => y.source[e.uid] # "open")
  <2>1. e.gen = y.generation => y.generation = x.generation /\ e.gen = x.generation
    BY <1>0, <1>1
  <2>2. \A u \in Ids : y.source[u] = "open" => x.source[u] = "open"
    BY DEF Steady
  <2> QED
    BY <2>1, <2>2 DEF EventOK
<1>5. e.what \in Results => e.uid \in Ids
  BY DEF EventOK
<1> QED
  BY <1>2, <1>3, <1>4, <1>5 DEF EventOK

LEMMA EbbRefl == ASSUME NEW x, Typed(x) PROVE Ebb(x, x)
BY DEF Ebb, Steady, News, Asks, EbbPhrase, Typed, TypedRest

LEMMA SteadyTrans == ASSUME NEW x, NEW y, NEW z, Typed(x), Typed(y), Typed(z), Steady(x, y), Steady(y, z) PROVE Steady(x, z)
BY DEF Steady, Typed, TypedRest

LEMMA EbbTrans ==
  ASSUME NEW x, NEW y, NEW z, Typed(x), Typed(y), Typed(z), Ebb(x, y), Ebb(y, z) PROVE Ebb(x, z)
<1>1. Steady(x, z)
  BY SteadyTrans DEF Ebb
<1>2. News(x, z)
  <2>1. ASSUME NEW i \in DOMAIN z.deferred \ DOMAIN x.deferred
        PROVE EventOK(z, z.deferred[i]) /\ z.deferred[i].what \notin Results \cup Acks
    <3>1. CASE i \notin DOMAIN y.deferred
      BY <2>1, <3>1 DEF Ebb, News
    <3>2. CASE i \in DOMAIN y.deferred
      <4>1. z.deferred[i] = y.deferred[i] /\ EventOK(y, y.deferred[i]) /\ y.deferred[i].what \notin Results \cup Acks
            /\ y.deferred[i] \in EventType /\ Steady(y, z)
        BY <2>1, <3>2, TypedFacts DEF Ebb, News
      <4> QED
        BY <4>1, EventLater
    <3> QED
      BY <3>1, <3>2
  <2> QED
    BY <2>1 DEF Ebb, News
<1>3. z.items \subseteq x.items
  BY DEF Ebb
<1>4. ASSUME NEW u \in Nums PROVE EbbPhrase(x, z, u)
  <2>1. EbbPhrase(x, y, u) /\ EbbPhrase(y, z, u) /\ z.items \subseteq y.items /\ y.items \subseteq x.items
    BY DEF Ebb
  <2>2. Current(y, u) => Current(x, u)
    BY <2>1, TypedFacts DEF Current, EbbPhrase, Ebb, Steady
  <2>3. Suspended(y) = Suspended(x)
    BY DEF Suspended, Ebb, Steady
  <2> QED
    BY <2>1, <2>2, <2>3 DEF EbbPhrase
<1>5. \A u \in Ids : Heard(y, u) = {} => Heard(x, u) = {}
  BY DEF Ebb, News, Heard
<1>6. Asks(x, z)
  <2>3. \A u \in Ids : "record.cancel" \in z.waits[u] => "record.cancel" \in x.waits[u] \/ x.phrases[u].gen # 0
    <3>1. \A u \in Ids : y.phrases[u].gen = x.phrases[u].gen
      BY DEF Ebb, EbbPhrase, Ids, Nums
    <3> QED
      BY <3>1 DEF Ebb, Asks
  <2> SUFFICES ASSUME NEW u \in Ids, "recognize" \in z.waits[u], "recognize" \notin x.waits[u]
               PROVE Unasked(x, u) /\ ~Records(z, u)
    BY <2>3 DEF Asks
  <2>0. u \in Nums /\ EbbPhrase(x, y, u) /\ EbbPhrase(y, z, u) /\ y.items \subseteq x.items /\ z.items \subseteq y.items
    BY DEF Ids, Nums, Ebb
  <2>1. CASE "recognize" \in y.waits[u]
    <3>1. Unasked(x, u) /\ ~Records(y, u)
      BY <2>1 DEF Ebb, Asks
    <3>2. Records(z, u) => Records(y, u)
      BY <2>0 DEF EbbPhrase, Records
    <3> QED
      BY <3>1, <3>2
  <2>2. CASE "recognize" \notin y.waits[u]
    <3>1. Unasked(y, u) /\ ~Records(z, u)
      BY <2>2 DEF Ebb, Asks
    <3>2. Unasked(x, u)
      BY <1>5, <2>0, <3>1 DEF EbbPhrase, Unasked
    <3> QED
      BY <3>1, <3>2
  <2> QED
    BY <2>1, <2>2
<1> QED
  BY <1>1, <1>2, <1>3, <1>4, <1>6 DEF Ebb

LEMMA SoundRefl == ASSUME NEW x, Typed(x) PROVE Sound(x, x)
BY EbbRefl DEF Sound

LEMMA SoundTrans == ASSUME NEW x, NEW y, NEW z, Typed(x), Sound(x, y), Sound(y, z) PROVE Sound(x, z)
BY EbbTrans DEF Sound

\* No recognition is told of twice
LEMMA OnceEbb == ASSUME NEW x, NEW y, Ebb(x, y), NEW u \in Ids, OnceOK(x, u) PROVE OnceOK(y, u)
<1>0. u \in Nums /\ EbbPhrase(x, y, u) /\ y.items \subseteq x.items
  BY DEF Ids, Nums, Ebb
<1>1. Heard(y, u) = Heard(x, u)
  BY DEF Ebb, News, Heard
<1>2. Closed(y, u) => Closed(x, u)
  BY <1>0 DEF Closed, Records, EbbPhrase
<1>3. "recognize" \in y.waits[u] => "recognize" \in x.waits[u] \/ (Unasked(x, u) /\ ~Records(y, u))
  BY DEF Ebb, Asks
<1>4. Unasked(x, u) /\ ~Records(y, u) => ~Closed(y, u)
  BY <1>0 DEF Unasked, Closed, EbbPhrase
<1>5. Unasked(x, u) => Heard(x, u) = {}
  BY DEF Unasked
<1>6. y.phrases[u].gen = 0 =>
        "record.cancel" \notin y.waits[u] /\ \A i \in DOMAIN y.deferred : y.deferred[i].uid = u => y.deferred[i].what \notin Acks
  <2>1. y.phrases[u].gen = x.phrases[u].gen
    BY <1>0 DEF EbbPhrase
  <2>2. "record.cancel" \in y.waits[u] => "record.cancel" \in x.waits[u] \/ x.phrases[u].gen # 0
    BY DEF Ebb, Asks
  <2>3. \A i \in DOMAIN y.deferred :
          y.deferred[i].what \notin Acks \/ (i \in DOMAIN x.deferred /\ x.deferred[i] = y.deferred[i])
    BY DEF Ebb, News
  <2> QED
    BY <2>1, <2>2, <2>3 DEF OnceOK
<1> QED
  BY <1>1, <1>2, <1>3, <1>4, <1>5, <1>6 DEF OnceOK

\* What the parts of Common need
LEMMA CommonEbb ==
  ASSUME NEW x, NEW y, Typed(x), Typed(y), Ebb(x, y), Common(x),
         \A u \in Ids : y.source[u] = "open" => y.phrases[u].capture /\ y.indicator
  PROVE Common(y)
<1>1. ASSUME NEW u \in Ids PROVE SourceOK(y, u)
  <2> SUFFICES ASSUME y.source[u] = "open" PROVE SourceOK(y, u)
    BY DEF SourceOK
  <2>1. u \in Nums
    BY DEF Ids, Nums
  <2>2. x.source[u] = "open" /\ y.generation = x.generation /\ EbbPhrase(x, y, u) /\ y.contexts = x.contexts
    BY <2>1 DEF Ebb, Steady
  <2>3. SourceOK(x, u)
    BY DEF Common
  <2>4. y.link \in {"up", "restarting"}
    BY <2>2, <2>3 DEF Ebb, Steady, SourceOK
  <2> QED
    BY <2>2, <2>3, <2>4 DEF SourceOK, Current, EbbPhrase
<1>2. Open(y) \subseteq Open(x)
  <2> SUFFICES ASSUME NEW c \in Open(y) PROVE c \in Open(x)
    OBVIOUS
  <2>1. c \in x.contexts /\ c \in Nums /\ y.phrases[c].capture /\ y.phrases[c].gen = y.generation
    BY TypedFacts DEF Open, Ebb, Steady
  <2>2. EbbPhrase(x, y, c) /\ x.phrases[c].gen <= x.generation /\ x.phrases[c].gen \in Nat /\ x.generation \in Nat /\ y.generation \in Nat
    BY <2>1, TypedFacts DEF Ebb
  <2> QED
    BY <2>1, <2>2 DEF Open, Ebb, Steady, EbbPhrase
<1>3. OneOpen(y)
  BY <1>2 DEF OneOpen, Common
<1>4. Together(y)
  <2> SUFFICES ASSUME NEW v \in y.items, Current(y, v), NEW c \in y.contexts, y.phrases[c].pending \/ c \in y.items PROVE Current(y, c)
    BY DEF Together
  <2>1. v \in Nums /\ c \in Nums /\ v \in x.items /\ c \in x.contexts
    BY TypedFacts DEF Ebb, Steady
  <2>2. EbbPhrase(x, y, v) /\ EbbPhrase(x, y, c)
    BY <2>1 DEF Ebb
  <2>3. y.generation = x.generation /\ Current(x, v)
    BY <2>1, <2>2, TypedFacts DEF Ebb, Steady, EbbPhrase, Current
  <2>4. x.phrases[c].pending \/ c \in x.items => Current(x, c)
    BY <2>1, <2>3 DEF Common, Together
  <2>5. Current(x, c)
    BY <2>2, <2>4 DEF EbbPhrase, Ebb
  <2> QED
    BY <2>2, <2>3, <2>5 DEF Current, EbbPhrase
<1>5. EventsOK(y)
  <2> SUFFICES ASSUME NEW i \in DOMAIN y.deferred PROVE EventOK(y, y.deferred[i])
    BY DEF EventsOK
  <2>1. CASE i \notin DOMAIN x.deferred
    BY <2>1 DEF Ebb, News
  <2>2. CASE i \in DOMAIN x.deferred
    <3>1. y.deferred[i] = x.deferred[i] /\ EventOK(x, x.deferred[i]) /\ x.deferred[i] \in EventType /\ Steady(x, y)
      BY <2>2, TypedFacts DEF Ebb, News, Common, EventsOK
    <3> QED
      BY <3>1, EventLater
  <2> QED
    BY <2>1, <2>2
<1>6. Once(y)
  BY OnceEbb DEF Common, Once
<1> QED
  BY <1>1, <1>3, <1>4, <1>5, <1>6 DEF Common

\* A cancellation that is awaited in this generation has a timer, and none is left without one
Wake(s, u) ==
  /\ u \in s.contexts /\ s.phrases[u].pending /\ Current(s, u) => Alarm(s, u) # {}
  /\ Alarm(s, u) # {} => s.phrases[u].pending
  /\ s.phrases[u].awaits /\ Current(s, u) => "restart" \in s.phrases[u].timers /\ "cancel" \notin s.phrases[u].timers
  /\ u \in s.items /\ s.phrases[u].job => s.phrases[u].cancelled
  /\ s.phrases[u].result # "none" => ~s.phrases[u].cancelled
Awake(s) == \A u \in Nums : Wake(s, u)
Wakes(x, y) == \A u \in Nums : Wake(x, u) => Wake(y, u)
\* A phrase that is recognized with an open capture has been shown
Glow(s, u) == s.phrases[u].phase = "processing" /\ s.phrases[u].capture => s.phrases[u].shown
Glows(x, y) == \A u \in Nums : Glow(x, u) => Glow(y, u)
\* The indicator burns for a capture that the GUI takes for open or has yet to find dead
Burns(s, c) == c \in s.contexts /\ s.phrases[c].capture /\ (Current(s, c) \/ c \in s.items \/ Alarm(s, c) # {})
Lamp(s) == s.indicator => \E c \in Nums : Burns(s, c)
Whole(x, y) == (Good(x) => Wakes(x, y) /\ Glows(x, y)) /\ (Good(x) /\ Awake(x) /\ Lamp(x) => Lamp(y))
\* A step that keeps the timers and the indicator as well
Full(x, y) == Sound(x, y) /\ Whole(x, y)

LEMMA FullRefl == ASSUME NEW x, Typed(x) PROVE Full(x, x)
BY SoundRefl DEF Full, Whole, Wakes, Glows

LEMMA FullTrans == ASSUME NEW x, NEW y, NEW z, Typed(x), Full(x, y), Full(y, z) PROVE Full(x, z)
<1>1. Sound(x, z)
  BY SoundTrans DEF Full
<1>2. Good(x) => Wakes(x, z) /\ Glows(x, z)
  BY DEF Full, Whole, Sound, Wakes, Glows
<1>3. Good(x) /\ Awake(x) /\ Lamp(x) => Lamp(z)
  BY DEF Full, Whole, Sound, Wakes, Awake
<1> QED
  BY <1>1, <1>2, <1>3 DEF Full, Whole

LEMMA FullTyped == ASSUME NEW x, NEW y, Full(x, y) PROVE Typed(y)
BY DEF Full, Sound

\* Steps that leave the phrases alone
Alike(x, y) ==
  /\ Keeps(x, y, {"hotkey", "deferred", "waits", "closing", "indicator", "last", "fault", "stack", "link", "source"})

\* What the invariant says of phrases only depends on them
LEMMA AlikePhrases ==
  ASSUME NEW x, NEW y, Alike(x, y)
  PROVE /\ \A u \in Nums : (PhraseOK(x, u) => PhraseOK(y, u)) /\ (Wake(x, u) => Wake(y, u)) /\ (Glow(x, u) => Glow(y, u)) /\ (Burns(x, u) => Burns(y, u))
        /\ y.phrases = x.phrases /\ y.items = x.items /\ y.contexts = x.contexts /\ y.generation = x.generation /\ y.pasted = x.pasted
<1>1. y.phrases = x.phrases /\ y.items = x.items /\ y.contexts = x.contexts /\ y.generation = x.generation /\ y.pasted = x.pasted
  BY FieldsAre DEF Alike, Keeps
<1>2. ASSUME NEW u \in Nums PROVE (PhraseOK(x, u) => PhraseOK(y, u)) /\ (Wake(x, u) => Wake(y, u)) /\ (Glow(x, u) => Glow(y, u)) /\ (Burns(x, u) => Burns(y, u))
  BY <1>1 DEF PhraseOK, Wake, Glow, Burns, Current, Alarm
<1> QED
  BY <1>1, <1>2

LEMMA AlikeFull ==
  ASSUME NEW x, NEW y, Typed(x), Typed(y), Alike(x, y), News(x, y), y.stack = x.stack,
         y.link = x.link \/ (x.link \in {"starting", "up"} /\ y.link = "restarting"), Asks(x, y),
         \A u \in Ids : y.source[u] = "open" => x.source[u] = "open",
         y.indicator = x.indicator \/ (~y.indicator /\ Open(x) = {})
  PROVE Full(x, y)
<1>1. y.phrases = x.phrases /\ y.items = x.items /\ y.contexts = x.contexts /\ y.generation = x.generation /\ y.pasted = x.pasted
  BY AlikePhrases
<1>2. Ebb(x, y)
  <2>1. Steady(x, y)
    BY <1>1, TypedFacts DEF Steady
  <2>2. \A u \in Nums : EbbPhrase(x, y, u)
    BY <1>1 DEF EbbPhrase
  <2> QED
    BY <1>1, <2>1, <2>2 DEF Ebb
<1>3. Good(x) => Common(y)
  <2> SUFFICES ASSUME Common(x), NEW u \in Ids, y.source[u] = "open" PROVE y.phrases[u].capture /\ y.indicator
    BY <1>2, CommonEbb DEF Good
  <2>1. SourceOK(x, u) /\ x.source[u] = "open"
    BY DEF Common
  <2>2. u \in Open(x)
    BY <2>1 DEF SourceOK, Open, Current
  <2> QED
    BY <1>1, <2>1, <2>2 DEF SourceOK
<1>4. Sound(x, y)
  BY <1>2, <1>3, AlikePhrases DEF Sound, Good
<1>5. Wakes(x, y) /\ Glows(x, y)
  BY AlikePhrases DEF Wakes, Glows
<1>6. Lamp(x) => Lamp(y)
  BY AlikePhrases DEF Lamp
<1> QED
  BY <1>4, <1>5, <1>6 DEF Full, Whole

\* One phrase changes
LEMMA LocalEbb ==
  ASSUME NEW x, NEW y, NEW u \in Nums, Typed(x), PhraseOnly(x, y, u), EbbPhrase(x, y, u)
  PROVE Typed(y) /\ Ebb(x, y) /\ y.source = x.source /\ y.indicator = x.indicator /\ y.generation = x.generation
<1>1. Typed(y)
  BY PhraseOnlyTyped
<1>2. /\ y.contexts = x.contexts /\ y.stack = x.stack /\ y.pasted = x.pasted /\ y.generation = x.generation
      /\ y.link = x.link /\ y.source = x.source /\ y.deferred = x.deferred /\ y.indicator = x.indicator
      /\ y.waits = x.waits
  BY FieldsAre DEF PhraseOnly, Keeps
<1>3. Steady(x, y) /\ News(x, y) /\ Asks(x, y)
  BY <1>2, TypedFacts DEF Steady, News, Asks
<1>4. \A v \in Nums \ {u} : EbbPhrase(x, y, v)
  BY DEF PhraseOnly, EbbPhrase
<1>5. y.items \subseteq x.items
  BY DEF PhraseOnly
<1> QED
  BY <1>1, <1>2, <1>3, <1>4, <1>5 DEF Ebb

\* A change of one phrase is none to the others
LEMMA LocalOthers ==
  ASSUME NEW x, NEW y, NEW u \in Nums, PhraseOnly(x, y, u), NEW v \in Nums \ {u}
  PROVE (PhraseOK(x, v) => PhraseOK(y, v)) /\ (Wake(x, v) => Wake(y, v)) /\ (Glow(x, v) => Glow(y, v)) /\ (Burns(x, v) => Burns(y, v))
<1>1. /\ y.phrases[v] = x.phrases[v] /\ (v \in y.items <=> v \in x.items)
      /\ y.contexts = x.contexts /\ y.generation = x.generation
  BY FieldsAre DEF PhraseOnly, Keeps
<1> QED
  BY <1>1 DEF PhraseOK, Wake, Glow, Burns, Current, Alarm

LEMMA LocalGood ==
  ASSUME NEW x, NEW y, NEW u \in Nums, Typed(x), PhraseOnly(x, y, u), EbbPhrase(x, y, u),
         u \in Ids /\ x.source[u] = "open" /\ x.phrases[u].capture => y.phrases[u].capture,
         GoodBut(x, u), PhraseOK(y, u)
  PROVE Good(y)
<1>1. Typed(y) /\ Ebb(x, y) /\ y.source = x.source /\ y.indicator = x.indicator
  BY LocalEbb
<1>2. Common(y)
  <2> SUFFICES ASSUME NEW v \in Ids, y.source[v] = "open" PROVE y.phrases[v].capture /\ y.indicator
    BY <1>1, CommonEbb DEF GoodBut
  <2>1. SourceOK(x, v) /\ x.source[v] = "open" /\ v \in Nums
    BY <1>1 DEF GoodBut, Common, Ids, Nums
  <2>2. v # u => y.phrases[v] = x.phrases[v]
    BY <2>1 DEF PhraseOnly
  <2> QED
    BY <1>1, <2>1, <2>2 DEF SourceOK
<1>3. ASSUME NEW v \in Nums PROVE PhraseOK(y, v)
  BY LocalOthers DEF GoodBut
<1> QED
  BY <1>2, <1>3 DEF Good

\* What a change of one phrase has to keep
LEMMA LocalFull ==
  ASSUME NEW x, NEW y, NEW u \in Nums, Typed(x), PhraseOnly(x, y, u), EbbPhrase(x, y, u),
         u \in Ids /\ x.source[u] = "open" /\ x.phrases[u].capture => y.phrases[u].capture,
         Good(x) => PhraseOK(y, u),
         Good(x) /\ Wake(x, u) => Wake(y, u),
         Good(x) /\ Glow(x, u) => Glow(y, u),
         Burns(x, u) => Burns(y, u)
  PROVE Full(x, y)
<1>1. Typed(y) /\ Ebb(x, y) /\ y.indicator = x.indicator
  BY LocalEbb
<1>2. Good(x) => Good(y)
  BY LocalGood DEF Good, GoodBut
<1>3. Good(x) => Wakes(x, y) /\ Glows(x, y)
  BY LocalOthers DEF Wakes, Glows
<1>4. Lamp(x) => Lamp(y)
  BY <1>1, LocalOthers DEF Lamp
<1> QED
  BY <1>1, <1>2, <1>3, <1>4 DEF Full, Whole, Sound

LEMMA ChangesTrans ==
  ASSUME NEW x, NEW y, NEW z, NEW u \in Nums, NEW S, NEW T, Changes(x, y, u, S), Changes(y, z, u, T)
  PROVE Changes(x, z, u, S \cup T)
<1>1. PhraseOnly(x, z, u)
  BY PhraseOnlyTrans DEF Changes
<1> QED
  BY <1>1 DEF Changes, Same

LEMMA ChangesTyped == ASSUME NEW x, NEW y, Typed(x), NEW u \in Nums, NEW S, Changes(x, y, u, S) PROVE Typed(y)
BY PhraseOnlyTyped DEF Changes

LEMMA ChangesRest ==
  ASSUME NEW x, NEW y, NEW u \in Nums, PhraseOnly(x, y, u)
  PROVE /\ y.contexts = x.contexts /\ y.stack = x.stack /\ y.pasted = x.pasted /\ y.generation = x.generation
        /\ y.link = x.link /\ y.source = x.source /\ y.deferred = x.deferred /\ y.indicator = x.indicator
        /\ y.hotkey = x.hotkey /\ y.waits = x.waits /\ y.closing = x.closing /\ y.fault = x.fault
BY FieldsAre DEF PhraseOnly, Keeps

LEMMA LaterFull ==
  ASSUME NEW s, Typed(s), NEW u \in s.contexts, NEW timer \in Timers \ {"busy"},
         timer \in {"tail", "watchdog"} => u \in s.items,
         timer = "done" => u \notin s.items,
         timer \in {"cancel", "restart"} => s.phrases[u].pending,
         timer = "cancel" => ~s.phrases[u].awaits
  PROVE Full(s, Later(s, u, timer))
<1> DEFINE y == Later(s, u, timer)
<1>1. u \in Nums
  BY TypedFacts
<1>2. Changes(s, y, u, {"timers"}) /\ y.phrases[u].timers = s.phrases[u].timers \cup {timer}
  BY <1>1, LaterIs
<1> HIDE DEF y
<1>3. PhraseOnly(s, y, u) /\ y.items = s.items
  BY <1>2 DEF Changes
<1>4. /\ y.phrases[u].phase = s.phrases[u].phase /\ y.phrases[u].gen = s.phrases[u].gen
      /\ y.phrases[u].cancelled = s.phrases[u].cancelled /\ y.phrases[u].pending = s.phrases[u].pending
      /\ y.phrases[u].job = s.phrases[u].job /\ y.phrases[u].capture = s.phrases[u].capture
      /\ y.phrases[u].shown = s.phrases[u].shown /\ y.phrases[u].awaits = s.phrases[u].awaits
      /\ y.phrases[u].delivered = s.phrases[u].delivered /\ y.phrases[u].result = s.phrases[u].result
      /\ y.phrases[u].waiting = s.phrases[u].waiting
  BY <1>2, FieldsAre DEF Changes, Same
<1>5. y.contexts = s.contexts /\ y.generation = s.generation
  BY <1>1, <1>3, ChangesRest
<1>6. EbbPhrase(s, y, u)
  BY <1>2, <1>3, <1>4 DEF EbbPhrase
<1>7. Good(s) => PhraseOK(y, u)
  BY <1>1, <1>2, <1>3, <1>4, <1>5 DEF Good, PhraseOK, Current
<1>8. Good(s) /\ Wake(s, u) => Wake(y, u)
  BY <1>2, <1>3, <1>4, <1>5 DEF Wake, Current, Alarm
<1>9. Burns(s, u) => Burns(y, u)
  BY <1>2, <1>3, <1>4, <1>5 DEF Burns, Current, Alarm
<1>10. Glow(s, u) => Glow(y, u)
  BY <1>4 DEF Glow
<1>11. Full(s, y)
  BY <1>1, <1>3, <1>4, <1>6, <1>7, <1>8, <1>9, <1>10, LocalFull
<1> QED
  BY <1>11 DEF y

LEMMA KeepIs ==
  ASSUME NEW s, Typed(s), NEW u \in Nums, NEW K
  PROVE LET y == Keep(s, u, K) IN
    Changes(s, y, u, {"timers"}) /\ y.phrases[u].timers = s.phrases[u].timers \cap K
<1> DEFINE p == s.phrases[u]
           q == [p EXCEPT !.timers = p.timers \cap K]
<1>1. p \in PhraseType
  BY PhraseTyped
<1>2. q \in PhraseType /\ Same(p, q, {"timers"}) /\ q.timers = p.timers \cap K
  BY <1>1, FieldsAre DEF PhraseType, Same
<1>3. Keep(s, u, K) = With(s, u, q)
  BY DEF Keep, With
<1> HIDE DEF q
<1> QED
  BY <1>2, <1>3, WithChanges

Over == {"idle", "finishing"}

\* _change_phase: a phrase that ends leaves the queue
LEMMA PhaseIs ==
  ASSUME NEW s, Typed(s), NEW u \in s.contexts, NEW phase \in Phases
  PROVE LET y == Phase(s, u, phase) IN
    /\ PhraseOnly(s, y, u) /\ y.phrases[u].phase = phase
    /\ y.items = IF phase \in Over THEN s.items \ {u} ELSE s.items
    /\ Same(s.phrases[u], y.phrases[u], {"phase", "delivered", "retried", "shown"})
    /\ phase \notin Over \/ u \notin s.items => Same(s.phrases[u], y.phrases[u], {"phase"}) /\ y.last = s.last
    /\ phase \in Over /\ u \in s.items => ~y.phrases[u].shown
<1> DEFINE p == [s.phrases[u] EXCEPT !.phase = phase]
           ends == phase \in Over /\ u \in s.items
           q == IF ends THEN Rest(p) ELSE p
           y == Phase(s, u, phase)
<1>1. u \in Nums /\ s.phrases[u] \in PhraseType
  BY TypedFacts, PhraseTyped
<1>2. p \in PhraseType /\ Same(s.phrases[u], p, {"phase"}) /\ p.phase = phase
  BY <1>1, FieldsAre DEF PhraseType, Same
<1>3. /\ q \in PhraseType /\ q.phase = phase /\ Same(s.phrases[u], q, {"phase", "delivered", "retried", "shown"})
      /\ ~ends => Same(s.phrases[u], q, {"phase"})
      /\ ends => ~q.shown
  <2> HIDE DEF p
  <2>1. Rest(p) \in PhraseType /\ Rest(p).phase = phase /\ Same(p, Rest(p), {"delivered", "retried", "shown"}) /\ ~Rest(p).shown
    BY <1>2, FieldsAre DEF Rest, PhraseType, Same
  <2>2. Same(s.phrases[u], Rest(p), {"phase", "delivered", "retried", "shown"})
    BY <1>2, <2>1 DEF Same
  <2> QED
    BY <1>2, <2>1, <2>2 DEF Same
<1>4. y = [s EXCEPT !.phrases = [s.phrases EXCEPT ![u] = q], !.items = IF ends THEN s.items \ {u} ELSE s.items,
                    !.last = IF ends /\ s.items = {u} THEN u ELSE s.last]
  BY DEF Phase, Over
<1> HIDE DEF q, y, p
<1>5. /\ Keeps(s, y, {"phrases", "items", "last"}) /\ y.phrases = [s.phrases EXCEPT ![u] = q]
      /\ y.items = (IF ends THEN s.items \ {u} ELSE s.items)
      /\ y.last = (IF ends /\ s.items = {u} THEN u ELSE s.last)
  BY <1>4, FieldsAre DEF Keeps, Typed
<1>6. y.items = IF phase \in Over THEN s.items \ {u} ELSE s.items
  BY <1>5
<1>7. y.phrases[u] = q /\ y.phrases \in [Nums -> PhraseType] /\ (\A v \in Nums \ {u} : y.phrases[v] = s.phrases[v])
  BY <1>1, <1>3, <1>5 DEF Typed, TypedQueue
<1>8. q.gen = s.phrases[u].gen
  BY <1>3, FieldsAre DEF Same
<1>9. y.last \in s.contexts
  BY <1>5 DEF Typed, TypedQueue
<1>10. PhraseOnly(s, y, u)
  BY <1>5, <1>6, <1>7, <1>8, <1>9 DEF PhraseOnly
<1> QED
  BY <1>3, <1>5, <1>6, <1>7, <1>10 DEF y

\* The end of a phrase (_begin_finish)
ConcludedFields == {"phase", "delivered", "retried", "shown", "pending", "tail", "result", "waiting", "timers"}

\* _begin_finish up to the request that closes the capture
LEMMA ConcludeIs ==
  ASSUME NEW s, Typed(s), NEW u \in s.contexts
  PROVE LET y == Conclude(s, u)
            p == s.phrases[u]
            q == y.phrases[u] IN
    /\ PhraseOnly(s, y, u) /\ y.items = s.items \ {u} /\ q.phase = "finishing"
    /\ q.pending = (p.capture \/ p.awaits \/ p.job)
    /\ q.timers = p.timers \cap (IF q.pending THEN {"restart"} ELSE {})
    /\ q.result = "none" /\ ~q.waiting /\ ~q.tail /\ Same(p, q, ConcludedFields)
<1> DEFINE p == s.phrases[u]
           pending == p.capture \/ p.awaits \/ p.job
           q == [p EXCEPT !.pending = pending, !.tail = FALSE, !.result = "none", !.waiting = FALSE]
           t == [s EXCEPT !.phrases[u].pending = pending, !.phrases[u].tail = FALSE,
                     !.phrases[u].result = "none", !.phrases[u].waiting = FALSE]
           K == IF pending THEN {"restart"} ELSE {}
<1>1. u \in Nums /\ p \in PhraseType
  BY TypedFacts, PhraseTyped
<1>2. /\ q \in PhraseType /\ Same(p, q, {"pending", "tail", "result", "waiting"})
      /\ q.pending = pending /\ q.result = "none" /\ ~q.waiting /\ ~q.tail
  BY <1>1, FieldsAre DEF PhraseType, Same, Outcomes
<1>3. t = With(s, u, q)
  <2>1. pending \in BOOLEAN
    BY <1>1 DEF PhraseType
  <2> HIDE DEF pending
  <2> QED
    BY ZenonT(60), <1>1, <2>1 DEF With, Typed, TypedQueue, PhraseType
<1>4. Conclude(s, u) = Phase(Keep(t, u, K), u, "finishing")
  BY DEF Conclude
<1> HIDE DEF q, t, K, pending
<1>5. Changes(s, t, u, {"pending", "tail", "result", "waiting"}) /\ t.phrases[u] = q
  BY <1>1, <1>2, <1>3, WithChanges
<1> DEFINE k == Keep(t, u, K)
<1>6. Typed(t)
  BY <1>1, <1>5, ChangesTyped
<1>7. Changes(t, k, u, {"timers"}) /\ k.phrases[u].timers = t.phrases[u].timers \cap K
  BY <1>1, <1>6, KeepIs
<1> HIDE DEF k
<1>8. Typed(k) /\ u \in k.contexts /\ k.items = s.items
  <2>1. Typed(k)
    BY <1>1, <1>6, <1>7, ChangesTyped
  <2>2. k.contexts = t.contexts /\ t.contexts = s.contexts
    BY <1>1, <1>5, <1>7, ChangesRest DEF Changes
  <2> QED
    BY <2>1, <2>2, <1>5, <1>7 DEF Changes
<1> DEFINE y == Phase(k, u, "finishing")
<1>9. /\ PhraseOnly(k, y, u) /\ y.phrases[u].phase = "finishing" /\ y.items = k.items \ {u}
      /\ Same(k.phrases[u], y.phrases[u], {"phase", "delivered", "retried", "shown"})
  BY <1>8, PhaseIs DEF Over, Phases
<1> HIDE DEF y
<1>10. PhraseOnly(s, k, u)
  BY <1>1, <1>5, <1>7, PhraseOnlyTrans DEF Changes
<1>11. PhraseOnly(s, y, u)
  BY <1>1, <1>9, <1>10, PhraseOnlyTrans
<1>12. /\ y.phrases[u].pending = pending /\ y.phrases[u].result = "none" /\ ~y.phrases[u].waiting /\ ~y.phrases[u].tail
       /\ y.phrases[u].timers = p.timers \cap K
  BY <1>2, <1>5, <1>7, <1>9, FieldsAre DEF Changes, Same
<1>13. Same(p, y.phrases[u], ConcludedFields)
  BY <1>2, <1>5, <1>7, <1>9 DEF Changes, Same, ConcludedFields
<1> QED
  BY Zenon, <1>4, <1>8, <1>9, <1>11, <1>12, <1>13 DEF y, k, K, pending

LEMMA FullGood == ASSUME NEW x, NEW y, Full(x, y), Good(x) PROVE Typed(y) /\ Good(y)
BY DEF Full, Sound

LEMMA FullRest == ASSUME NEW x, NEW y, Full(x, y)
  PROVE y.contexts = x.contexts /\ y.items \subseteq x.items /\ y.stack = x.stack /\ Suspended(y) = Suspended(x)
        /\ \A u \in Ids : y.source[u] = "open" => x.source[u] = "open"
BY DEF Full, Sound, Ebb, Steady, Suspended

\* fields that no invariant reads
LEMMA QuietFull ==
  ASSUME NEW s, NEW y, Typed(s), NEW u \in Nums, Changes(s, y, u, {"outcome", "tail", "retried"})
  PROVE Full(s, y)
<1>1. PhraseOnly(s, y, u) /\ y.items = s.items /\ y.last = s.last
  BY DEF Changes
<1>2. y.contexts = s.contexts /\ y.generation = s.generation
  BY <1>1, ChangesRest
<1>3. /\ y.phrases[u].phase = s.phrases[u].phase /\ y.phrases[u].gen = s.phrases[u].gen
      /\ y.phrases[u].timers = s.phrases[u].timers
      /\ y.phrases[u].cancelled = s.phrases[u].cancelled /\ y.phrases[u].pending = s.phrases[u].pending
      /\ y.phrases[u].job = s.phrases[u].job /\ y.phrases[u].capture = s.phrases[u].capture
      /\ y.phrases[u].shown = s.phrases[u].shown /\ y.phrases[u].awaits = s.phrases[u].awaits
      /\ y.phrases[u].delivered = s.phrases[u].delivered /\ y.phrases[u].result = s.phrases[u].result
      /\ y.phrases[u].waiting = s.phrases[u].waiting
  BY FieldsAre DEF Changes, Same
<1>4. EbbPhrase(s, y, u)
  BY <1>1, <1>3 DEF EbbPhrase
<1>5. Good(s) => PhraseOK(y, u)
  BY <1>1, <1>2, <1>3 DEF Good, PhraseOK, Current
<1>6. (Wake(s, u) => Wake(y, u)) /\ (Burns(s, u) => Burns(y, u)) /\ (Glow(s, u) => Glow(y, u))
  BY <1>1, <1>2, <1>3 DEF Wake, Burns, Glow, Current, Alarm
<1> QED
  BY <1>1, <1>3, <1>4, <1>5, <1>6, LocalFull

LEMMA AnnounceIs ==
  ASSUME NEW s, Typed(s), NEW u \in Nums
  PROVE LET y == Announce(s, u) IN
    Changes(Later(s, u, "done"), y, u, {"outcome"}) /\ Changes(s, y, u, {"timers", "outcome"})
    /\ y.phrases[u].timers = s.phrases[u].timers \cup {"done"}
<1> DEFINE l == Later(s, u, "done")
           p == l.phrases[u]
           a == p.outcome \/ s.phrases[u].capture
           q == [p EXCEPT !.outcome = a]
           y == Announce(s, u)
<1>1. Changes(s, l, u, {"timers"}) /\ l.phrases[u].timers = s.phrases[u].timers \cup {"done"} /\ Typed(l)
  BY LaterIs, ChangesTyped DEF Timers
<1>2. y = [l EXCEPT !.phrases[u].outcome = a]
  BY DEF Announce
<1> HIDE DEF l, y
<1>3. p \in PhraseType /\ s.phrases[u] \in PhraseType
  BY <1>1, PhraseTyped
<1>4. a \in BOOLEAN
  BY <1>3 DEF PhraseType
<1> HIDE DEF a
<1>5. q \in PhraseType /\ Same(p, q, {"outcome"}) /\ q.timers = p.timers
  BY <1>3, <1>4, FieldsAre DEF PhraseType, Same
<1>6. y = With(l, u, q)
  BY <1>2 DEF With
<1> HIDE DEF q
<1>7. Changes(l, y, u, {"outcome"}) /\ y.phrases[u] = q
  BY <1>1, <1>3, <1>5, <1>6, WithChanges
<1>8. Changes(s, y, u, {"timers"} \cup {"outcome"})
  BY <1>1, <1>7, ChangesTrans
<1>9. {"timers"} \cup {"outcome"} = {"timers", "outcome"}
  OBVIOUS
<1>10. y.phrases[u].timers = s.phrases[u].timers \cup {"done"}
  BY <1>1, <1>5, <1>7
<1>11. Changes(s, y, u, {"timers", "outcome"})
  BY <1>8, <1>9
<1> QED
  BY <1>7, <1>10, <1>11 DEF l, y

\* _end_finish shows the outcome
LEMMA AnnounceFull ==
  ASSUME NEW s, Typed(s), NEW u \in s.contexts \ s.items PROVE Full(s, Announce(s, u))
<1> DEFINE l == Later(s, u, "done")
           y == Announce(s, u)
<1>1. u \in Nums
  BY TypedFacts
<1>2. Full(s, l)
  BY LaterFull DEF Timers
<1>3. Changes(l, y, u, {"outcome"})
  BY <1>1, AnnounceIs
<1>4. Changes(l, y, u, {"outcome", "tail", "retried"})
  BY <1>3 DEF Changes, Same
<1> HIDE DEF l, y
<1>5. Typed(l)
  BY <1>2, FullTyped
<1>6. Full(l, y)
  BY <1>1, <1>4, <1>5, QuietFull
<1>7. Full(s, y)
  BY <1>2, <1>5, <1>6, FullTrans, FullTyped
<1> QED
  BY <1>7 DEF y

\* What only the key, the lamp and the queue of events may change.
Handset(x, y) ==
  /\ Keeps(x, y, {"hotkey", "deferred", "indicator"}) /\ Typed(y)

LEMMA HandsetRest == ASSUME NEW x, NEW y, Handset(x, y)
  PROVE /\ y.phrases = x.phrases /\ y.items = x.items /\ y.contexts = x.contexts /\ y.generation = x.generation
        /\ y.last = x.last /\ y.link = x.link /\ y.source = x.source /\ y.waits = x.waits /\ y.closing = x.closing
        /\ y.stack = x.stack /\ y.pasted = x.pasted /\ y.fault = x.fault /\ Alike(x, y)
BY FieldsAre DEF Handset, Keeps, Alike

LEMMA HandsetTrans == ASSUME NEW x, NEW y, NEW z, Handset(x, y), Handset(y, z) PROVE Handset(x, z)
BY DEF Handset, Keeps

LEMMA HandsetRefl == ASSUME NEW x, Typed(x) PROVE Handset(x, x)
BY DEF Handset, Keeps, Typed

\* Key, lamp and deferred events disturb no phrase
LEMMA HandsetFull ==
  ASSUME NEW x, NEW y, Typed(x), Handset(x, y), News(x, y), y.indicator = x.indicator \/ (~y.indicator /\ Open(x) = {})
  PROVE Full(x, y)
<1>1. Typed(y)
  BY DEF Handset
<1>2. Asks(x, y)
  BY HandsetRest DEF Asks
<1> QED
  BY <1>1, <1>2, HandsetRest, AlikeFull

LEMMA SetHotkeyFull ==
  ASSUME NEW s, Typed(s), NEW state \in {"idle", "recording", "processing"}, NEW overlap \in BOOLEAN
  PROVE Full(s, SetHotkey(s, state, overlap)) /\ Handset(s, SetHotkey(s, state, overlap))
<1> DEFINE h == [state |-> state, overlap |-> overlap]
           y == SetHotkey(s, state, overlap)
<1>1. y = [s EXCEPT !.hotkey = h] /\ h \in HotkeyType
  BY DEF SetHotkey, HotkeyType
<1> HIDE DEF y, h
<1>2. Keeps(s, y, {"hotkey"}) /\ y.hotkey = h
  BY <1>1, FieldsAre DEF Keeps, Typed
<1>3. Keeps(s, y, {"hotkey", "deferred", "indicator"}) /\ y.deferred = s.deferred /\ y.indicator = s.indicator
  BY <1>2, FieldsAre DEF Keeps
<1>4. Typed(y)
  <2>1. TypedRest(y)
    BY <1>1, <1>2, FieldsAre DEF Keeps, Typed, TypedRest
  <2>2. TypedQueue(y)
    BY <1>2, FieldsAre DEF Keeps, Typed, TypedQueue
  <2> QED
    BY <1>2, <2>1, <2>2 DEF Typed, Keeps
<1>5. Handset(s, y) /\ News(s, y)
  BY <1>3, <1>4 DEF Handset, News
<1> QED
  BY <1>3, <1>5, HandsetFull DEF y

LEMMA DeferIs ==
  ASSUME NEW s, Typed(s), NEW e \in EventType
  PROVE LET y == Defer(s, e) IN
    /\ Typed(y) /\ Keeps(s, y, {"deferred"}) /\ Handset(s, y)
    /\ y.deferred = Append(s.deferred, e)
    /\ \A i \in DOMAIN s.deferred : i \in DOMAIN y.deferred /\ y.deferred[i] = s.deferred[i]
    /\ \A i \in DOMAIN y.deferred \ DOMAIN s.deferred : y.deferred[i] = e
<1> DEFINE y == Defer(s, e)
<1>1. y = [s EXCEPT !.deferred = Append(s.deferred, e)]
  BY DEF Defer
<1> HIDE DEF y
<1>2. Keeps(s, y, {"deferred"}) /\ y.deferred = Append(s.deferred, e) /\ s.deferred \in Seq(EventType)
  BY <1>1, FieldsAre DEF Keeps, Typed, TypedRest
<1>3. y.deferred \in Seq(EventType)
  BY <1>2, AppendProperties
<1>4. Typed(y)
  <2>1. TypedRest(y)
    BY <1>2, <1>3, FieldsAre DEF Keeps, Typed, TypedRest
  <2>2. TypedQueue(y)
    BY <1>2, FieldsAre DEF Keeps, Typed, TypedQueue
  <2> QED
    BY <1>2, <2>1, <2>2 DEF Typed, Keeps
<1>5. /\ \A i \in DOMAIN s.deferred : i \in DOMAIN y.deferred /\ y.deferred[i] = s.deferred[i]
      /\ \A i \in DOMAIN y.deferred \ DOMAIN s.deferred : y.deferred[i] = e
  BY <1>2, AppendProperties
<1>6. Handset(s, y)
  BY <1>2, <1>4 DEF Handset, Keeps
<1> QED
  BY <1>2, <1>4, <1>5, <1>6 DEF y

LEMMA DeferFull ==
  ASSUME NEW s, Typed(s), NEW e \in EventType, EventOK(Defer(s, e), e), e.what \notin Results \cup Acks
  PROVE Full(s, Defer(s, e)) /\ Handset(s, Defer(s, e))
<1> DEFINE y == Defer(s, e)
<1>1. News(s, y)
  BY DeferIs DEF News
<1>2. Handset(s, y) /\ Keeps(s, y, {"deferred"})
  BY DeferIs
<1>3. y.indicator = s.indicator
  BY <1>2, FieldsAre DEF Keeps
<1> QED
  BY <1>1, <1>2, <1>3, HandsetFull

\* What the user does may always be deferred
LEMMA DueOK == ASSUME NEW s, Typed(s), NEW what \in UserEvents 
  PROVE Due(what) \in EventType /\ EventOK(s, Due(what)) /\ Due(what).what \notin Results \cup Acks
<1>1. Due(what) \in EventType
  <2>1. 0 \in Nums
    BY LimitAssumption DEF Nums
  <2>2. what \in Words
    BY DEF Words
  <2> QED
    BY <2>1, <2>2 DEF Due, EventType
<1>2. s.generation \in Nat
  BY DEF Typed, TypedRest
<1>3. what \notin {"crashed", "cancelled", "nothing to cancel"} /\ what \notin Results \cup Acks
  BY DEF UserEvents, Results, Acks
<1>4. Due(what).gen = 0 /\ Due(what).what = what
  BY DEF Due
<1>5. Due(what).gen <= s.generation
  BY <1>2, <1>4
<1> QED
  BY <1>1, <1>3, <1>4, <1>5 DEF EventOK

LEMMA HotkeyCancelFull ==
  ASSUME NEW s, Typed(s) PROVE Full(s, HotkeyCancel(s)) /\ Handset(s, HotkeyCancel(s))
<1> DEFINE t == SetHotkey(s, "idle", FALSE)
<1>1. Full(s, t) /\ Handset(s, t)
  BY SetHotkeyFull
<1>2. Typed(t)
  BY <1>1, FullTyped
<1>3. Full(t, Defer(t, Due("escape"))) /\ Handset(t, Defer(t, Due("escape")))
  <2>1. Due("escape") \in EventType /\ Typed(Defer(t, Due("escape")))
    BY <1>2, DueOK, DeferIs DEF UserEvents
  <2>2. EventOK(Defer(t, Due("escape")), Due("escape")) /\ Due("escape").what \notin Results \cup Acks
    BY <2>1, DueOK DEF UserEvents
  <2> QED
    BY <1>2, <2>1, <2>2, DeferFull
<1>4. HotkeyCancel(s) \in {s, t, Defer(t, Due("escape"))}
  BY DEF HotkeyCancel
<1> HIDE DEF t
<1>5. Full(s, Defer(t, Due("escape"))) /\ Handset(s, Defer(t, Due("escape")))
  BY <1>1, <1>2, <1>3, FullTrans, FullTyped, HandsetTrans
<1> QED
  BY <1>1, <1>4, <1>5, FullRefl, HandsetRefl

LEMMA ReturnHotkeyFull ==
  ASSUME NEW s, Typed(s) PROVE Full(s, ReturnHotkey(s)) /\ Handset(s, ReturnHotkey(s))
<1>1. ReturnHotkey(s) \in {s, SetHotkey(s, "processing", FALSE), HotkeyCancel(s)}
  BY DEF ReturnHotkey
<1> QED
  BY <1>1, FullRefl, HandsetRefl, SetHotkeyFull, HotkeyCancelFull

LEMMA HotkeyDoneFull ==
  ASSUME NEW s, Typed(s) PROVE Full(s, HotkeyDone(s)) /\ Handset(s, HotkeyDone(s))
<1>1. HotkeyDone(s) \in {s, SetHotkey(s, "idle", FALSE)}
  BY DEF HotkeyDone
<1> QED
  BY <1>1, FullRefl, HandsetRefl, SetHotkeyFull

\* Dim puts the lamp right.
LEMMA DimFull ==
  ASSUME NEW s, Typed(s) PROVE Full(s, Dim(s)) /\ Lamp(Dim(s)) /\ Handset(s, Dim(s))
<1> DEFINE y == [s EXCEPT !.indicator = FALSE]
<1>1. CASE Open(s) # {}
  <2>1. PICK c \in Open(s) : TRUE
    BY <1>1
  <2>2. Burns(s, c) /\ c \in Nums
    BY <2>1, TypedFacts DEF Open, Burns, Current
  <2>3. Dim(s) = s
    BY <1>1 DEF Dim
  <2> QED
    BY <2>2, <2>3, FullRefl, HandsetRefl DEF Lamp
<1>2. CASE Open(s) = {}
  <2>1. Dim(s) = y
    BY <1>2 DEF Dim
  <2>2. Keeps(s, y, {"indicator"}) /\ y.indicator = FALSE
    BY FieldsAre DEF Keeps, Typed
  <2> HIDE DEF y
  <2>3. Typed(y)
    <3>1. TypedRest(y)
      BY <2>2, FieldsAre DEF Keeps, Typed, TypedRest
    <3>2. TypedQueue(y)
      BY <2>2, FieldsAre DEF Keeps, Typed, TypedQueue
    <3> QED
      BY <2>2, <3>1, <3>2 DEF Typed, Keeps
  <2>4. Handset(s, y) /\ News(s, y)
    BY <2>2, <2>3, FieldsAre DEF Handset, News, Keeps
  <2> QED
    BY <1>2, <2>1, <2>2, <2>4, HandsetFull DEF Lamp
<1> QED
  BY <1>1, <1>2

\* _end_finish
LEMMA EndFinishFull ==
  ASSUME NEW s, Typed(s), NEW u \in s.contexts \ s.items
  PROVE Full(s, EndFinish(s, u)) /\ Handset(Announce(s, u), EndFinish(s, u))
<1> DEFINE t == Announce(s, u)
           d == HotkeyDone(t)
           c == HotkeyCancel(d)
<1>1. Full(s, t) /\ Typed(t)
  BY AnnounceFull, FullTyped
<1>2. EndFinish(s, u) \in {t, c}
  BY DEF EndFinish
<1> HIDE DEF t, d, c
<1>3. Full(t, d) /\ Handset(t, d) /\ Typed(d)
  BY <1>1, HotkeyDoneFull, FullTyped DEF d
<1>4. Full(d, c) /\ Handset(d, c) /\ Typed(c)
  BY <1>3, HotkeyCancelFull, FullTyped DEF c
<1>5. Full(s, d) /\ Full(s, c)
  BY <1>1, <1>3, <1>4, FullTrans
<1>6. Handset(t, c) /\ Handset(t, t)
  BY <1>1, <1>3, <1>4, HandsetTrans, HandsetRefl
<1> QED
  BY <1>1, <1>2, <1>5, <1>6 DEF t

\* What has to be cancelled of a phrase that ends
Cause(s, u) == s.phrases[u].capture \/ s.phrases[u].awaits \/ s.phrases[u].job

\* What has ended with an open capture is pending
LEMMA ConcludeGood ==
  ASSUME NEW s, Typed(s), NEW u \in s.contexts, GoodBut(s, u), u # 0 => s.phrases[u].gen > 0,
         Cause(s, u) => u # 0 /\ u \in s.items
  PROVE LET y == Conclude(s, u) IN
    /\ Typed(y) /\ Ebb(s, y) /\ Good(y)
    /\ \A v \in Nums \ {u} : (Wake(s, v) => Wake(y, v)) /\ (Glow(s, v) => Glow(y, v))
<1> DEFINE y == Conclude(s, u)
           p == s.phrases[u]
           q == y.phrases[u]
<1>0. u \in Nums
  BY TypedFacts
<1>1. /\ PhraseOnly(s, y, u) /\ y.items = s.items \ {u} /\ q.phase = "finishing"
      /\ q.pending = Cause(s, u)
      /\ q.timers = p.timers \cap (IF q.pending THEN {"restart"} ELSE {})
      /\ q.result = "none" /\ Same(p, q, ConcludedFields)
  BY ConcludeIs DEF Cause
<1> HIDE DEF y
<1>2. q.gen = p.gen /\ q.capture = p.capture
  BY <1>1, FieldsAre DEF Same, ConcludedFields
<1>3. y.contexts = s.contexts /\ y.generation = s.generation
  BY <1>0, <1>1, ChangesRest
<1>4. EbbPhrase(s, y, u)
  BY <1>1, <1>2 DEF EbbPhrase
<1>5. PhraseOK(y, u)
  <2>1. q.timers \subseteq {"restart"}
    BY <1>1
  <2> QED
    BY <1>1, <1>2, <1>3, <2>1 DEF PhraseOK, Busy, Cause, Current
<1>6. Typed(y) /\ Ebb(s, y)
  BY <1>0, <1>1, <1>4, LocalEbb
<1>7. Good(y)
  BY <1>0, <1>1, <1>2, <1>4, <1>5, LocalGood
<1>8. \A v \in Nums \ {u} : (Wake(s, v) => Wake(y, v)) /\ (Glow(s, v) => Glow(y, v))
  BY <1>0, <1>1, LocalOthers
<1> QED
  BY <1>6, <1>7, <1>8 DEF y

\* The phrases whose capture died
Dead(s, u) == \A v \in s.items \cup {u} : v \in Ids => s.source[v] # "open"

\* A phrase of an earlier generation has no capture in the worker
LEMMA LossOld ==
  ASSUME NEW s, Typed(s), Good(s), NEW u \in s.contexts, ~Current(s, u), s.phrases[u].pending \/ u \in s.items
  PROVE Dead(s, u)
<1> SUFFICES ASSUME NEW v \in s.items \cup {u}, v \in Ids, s.source[v] = "open" PROVE FALSE
  BY DEF Dead
<1>1. SourceOK(s, v)
  BY DEF Good, Common
<1>2. Current(s, v)
  BY <1>1 DEF SourceOK
<1>3. v \in s.items
  BY <1>2
<1>4. Together(s)
  BY DEF Good, Common
<1> QED
  BY <1>2, <1>3, <1>4 DEF Together

\* _fail_restarted: a phrase that is lost, and the one it is told of
Lose(p) == [p EXCEPT !.timers = {}, !.phase = "idle", !.capture = FALSE, !.pending = FALSE,
                     !.tail = FALSE, !.result = "none", !.waiting = FALSE]
Calm(p) == [p EXCEPT !.capture = FALSE, !.job = FALSE, !.pending = FALSE, !.awaits = FALSE]

LEMMA LoseType == ASSUME NEW p \in PhraseType
  PROVE /\ Lose(p) \in PhraseType /\ Lose(p).gen = p.gen /\ Lose(p).timers = {} /\ Lose(p).phase = "idle"
        /\ ~Lose(p).capture /\ ~Lose(p).pending /\ Lose(p).result = "none" /\ Lose(p).awaits = p.awaits
        /\ Lose(p).job = p.job
BY FieldsAre DEF PhraseType, Lose, Phases, Outcomes

LEMMA CalmType == ASSUME NEW p \in PhraseType
  PROVE Calm(p) \in PhraseType /\ Same(p, Calm(p), {"capture", "job", "pending", "awaits"})
        /\ ~Calm(p).capture /\ ~Calm(p).job /\ ~Calm(p).pending /\ ~Calm(p).awaits
BY FieldsAre DEF PhraseType, Calm, Same
Lossy(s, u) ==
  [s EXCEPT !.items = s.items \cap {u},
            !.phrases = [v \in DOMAIN s.phrases |->
               IF v \in s.items \ {u} THEN Lose(s.phrases[v])
               ELSE IF v = u THEN Calm(s.phrases[v]) ELSE s.phrases[v]]]

LEMMA LossyIs ==
  ASSUME NEW s, Typed(s), NEW u \in s.contexts
  PROVE LET t == Lossy(s, u) IN
    /\ Keeps(s, t, {"items", "phrases"}) /\ t.items = s.items \cap {u} /\ Typed(t)
    /\ t.phrases[u] = Calm(s.phrases[u])
    /\ \A v \in s.items \ {u} : t.phrases[v] = Lose(s.phrases[v])
    /\ \A v \in Nums \ ({u} \cup s.items) : t.phrases[v] = s.phrases[v]
<1> DEFINE f == [v \in DOMAIN s.phrases |->
               IF v \in s.items \ {u} THEN Lose(s.phrases[v])
               ELSE IF v = u THEN Calm(s.phrases[v]) ELSE s.phrases[v]]
           t == Lossy(s, u)
<1>0. u \in Nums /\ s.items \subseteq Nums /\ s.phrases \in [Nums -> PhraseType]
  BY TypedFacts DEF Typed, TypedQueue
<1>1. t = [s EXCEPT !.items = s.items \cap {u}, !.phrases = f]
  BY DEF Lossy
<1>2. f = [v \in Nums |->
               IF v \in s.items \ {u} THEN Lose(s.phrases[v])
               ELSE IF v = u THEN Calm(s.phrases[v]) ELSE s.phrases[v]]
  BY <1>0
<1> HIDE DEF f, t
<1>3. f \in [Nums -> PhraseType] /\ \A v \in Nums : f[v].gen = s.phrases[v].gen
  <2>1. ASSUME NEW v \in Nums PROVE f[v] \in PhraseType /\ f[v].gen = s.phrases[v].gen
    BY <1>0, <1>2, LoseType, CalmType, FieldsAre DEF Same
  <2> QED
    BY <1>2, <2>1
<1>4. Keeps(s, t, {"items", "phrases"}) /\ t.items = s.items \cap {u} /\ t.phrases = f
  BY <1>1, FieldsAre DEF Keeps, Typed
<1>5. Typed(t)
  <2>1. TypedRest(t)
    BY <1>4, FieldsAre DEF Keeps, Typed, TypedRest
  <2>2. TypedQueue(t)
    BY <1>3, <1>4, FieldsAre DEF Keeps, Typed, TypedQueue
  <2> QED
    BY <1>4, <2>1, <2>2 DEF Typed, Keeps
<1> QED
  BY <1>0, <1>2, <1>4, <1>5 DEF t

\* The queue without the phrases that were lost
LEMMA LossyGood ==
  ASSUME NEW s, Typed(s), Good(s), NEW u \in s.contexts, Dead(s, u)
  PROVE LET t == Lossy(s, u) IN
    /\ Ebb(s, t) /\ Good(t)
    /\ \A v \in Nums \ {u} : (Wake(s, v) => Wake(t, v)) /\ (Glow(s, v) => Glow(t, v))
<1> DEFINE t == Lossy(s, u)
<1>1. /\ Keeps(s, t, {"items", "phrases"}) /\ t.items = s.items \cap {u} /\ Typed(t)
      /\ t.phrases[u] = Calm(s.phrases[u])
      /\ \A v \in s.items \ {u} : t.phrases[v] = Lose(s.phrases[v])
      /\ \A v \in Nums \ ({u} \cup s.items) : t.phrases[v] = s.phrases[v]
  BY LossyIs
<1> HIDE DEF t
<1>2. /\ t.contexts = s.contexts /\ t.stack = s.stack /\ t.pasted = s.pasted /\ t.generation = s.generation
      /\ t.link = s.link /\ t.source = s.source /\ t.deferred = s.deferred /\ t.indicator = s.indicator
      /\ t.waits = s.waits
  BY <1>1, FieldsAre DEF Keeps
<1>3. u \in Nums /\ s.items \subseteq Nums /\ \A v \in Nums : s.phrases[v] \in PhraseType
  BY TypedFacts, PhraseTyped
<1>4. /\ t.phrases[u].phase = s.phrases[u].phase /\ t.phrases[u].gen = s.phrases[u].gen
      /\ t.phrases[u].timers = s.phrases[u].timers
      /\ t.phrases[u].cancelled = s.phrases[u].cancelled /\ ~t.phrases[u].pending
      /\ ~t.phrases[u].job /\ ~t.phrases[u].capture /\ ~t.phrases[u].awaits
      /\ t.phrases[u].delivered = s.phrases[u].delivered /\ t.phrases[u].result = s.phrases[u].result
      /\ t.phrases[u].waiting = s.phrases[u].waiting
  BY <1>1, <1>3, CalmType, FieldsAre DEF Same
<1>5. ASSUME NEW v \in s.items \ {u}
      PROVE /\ t.phrases[v].gen = s.phrases[v].gen /\ t.phrases[v].timers = {} /\ t.phrases[v].phase = "idle"
            /\ ~t.phrases[v].capture /\ ~t.phrases[v].pending /\ t.phrases[v].result = "none"
            /\ t.phrases[v].awaits = s.phrases[v].awaits
  BY <1>1, <1>3, LoseType
<1>6. Ebb(s, t)
  <2>1. Steady(s, t) /\ News(s, t) /\ Asks(s, t)
    BY <1>2, TypedFacts DEF Steady, News, Asks
  <2>2. ASSUME NEW v \in Nums PROVE EbbPhrase(s, t, v)
    <3>1. CASE v = u
      BY <1>1, <1>4, <3>1 DEF EbbPhrase
    <3>2. CASE v \in s.items \ {u}
      BY <1>1, <1>5, <3>2 DEF EbbPhrase
    <3>3. CASE v \notin s.items \cup {u}
      BY <1>1, <3>3 DEF EbbPhrase
    <3> QED
      BY <3>1, <3>2, <3>3
  <2> QED
    BY <1>1, <2>1, <2>2 DEF Ebb
<1>7. Common(t)
  <2> SUFFICES ASSUME NEW v \in Ids, t.source[v] = "open" PROVE t.phrases[v].capture /\ t.indicator
    BY <1>1, <1>6, CommonEbb DEF Good
  <2>1. v \notin s.items \cup {u} /\ v \in Nums
    BY <1>2 DEF Dead, Ids, Nums
  <2>2. SourceOK(s, v) /\ s.source[v] = "open"
    BY <1>2 DEF Good, Common
  <2> QED
    BY <1>1, <1>2, <2>1, <2>2 DEF SourceOK
<1>8. ASSUME NEW v \in Nums PROVE PhraseOK(t, v)
  <2>0. PhraseOK(s, v)
    BY DEF Good
  <2>1. CASE v = u
    BY <1>1, <1>2, <1>4, <2>0, <2>1 DEF PhraseOK, Current
  <2>2. CASE v \in s.items \ {u}
    BY <1>1, <1>2, <1>5, <2>0, <2>2 DEF PhraseOK, Current, Busy
  <2>3. CASE v \notin s.items \cup {u}
    BY <1>1, <1>2, <2>0, <2>3 DEF PhraseOK, Current
  <2> QED
    BY <2>1, <2>2, <2>3
<1>9. ASSUME NEW v \in Nums \ {u} PROVE (Wake(s, v) => Wake(t, v)) /\ (Glow(s, v) => Glow(t, v))
  <2>0. PhraseOK(s, v)
    BY DEF Good
  <2>1. CASE v \in s.items
    <3>1. ~s.phrases[v].awaits
      BY <2>0, <2>1 DEF PhraseOK
    <3> QED
      BY <1>1, <1>2, <1>5, <2>1, <3>1 DEF Wake, Glow, Current, Alarm
  <2>2. CASE v \notin s.items
    BY <1>1, <1>2, <2>2 DEF Wake, Glow, Current, Alarm
  <2> QED
    BY <2>1, <2>2
<1> QED
  BY <1>6, <1>7, <1>8, <1>9 DEF Good, t

\* A restart ends the whole queue or leaves the phrases alone
Forgets(x, y) ==
  /\ y.items = {} \/ (y.phrases = x.phrases /\ y.items = x.items)
  /\ \A v \in Nums \ x.items : y.phrases[v] = x.phrases[v] \/ ~y.phrases[v].job
  /\ y.items \subseteq x.items

LEMMA ForgetsRefl == ASSUME NEW x PROVE Forgets(x, x)
BY DEF Forgets

LEMMA ForgetsTrans == ASSUME NEW x, NEW y, NEW z, Forgets(x, y), Forgets(y, z) PROVE Forgets(x, z)
<1>1. z.items = {} \/ (z.phrases = x.phrases /\ z.items = x.items)
  BY DEF Forgets
<1>2. ASSUME NEW v \in Nums \ x.items PROVE z.phrases[v] = x.phrases[v] \/ ~z.phrases[v].job
  BY DEF Forgets
<1> QED
  BY <1>1, <1>2 DEF Forgets

\* _fail_restarted
LEMMA FailRestartedFull ==
  ASSUME NEW s, Typed(s), Good(s), NEW u \in s.contexts, Dead(s, u)
  PROVE LET y == FailRestarted(s, u) IN
    Full(s, y) /\ Lamp(y) /\ Wake(y, u) /\ Forgets(s, y) /\ y.items = {} /\ y.generation = s.generation /\ y.link = s.link
<1> DEFINE t == Lossy(s, u)
           k == Conclude(t, u)
           d == Dim(k)
           y == EndFinish(d, u)
<1>1. FailRestarted(s, u) = y
  BY DEF FailRestarted, Lossy, Lose, Calm
<1>2. /\ Keeps(s, t, {"items", "phrases"}) /\ t.items = s.items \cap {u} /\ Typed(t)
      /\ t.phrases[u] = Calm(s.phrases[u])
      /\ \A v \in Nums \ ({u} \cup s.items) : t.phrases[v] = s.phrases[v]
  BY LossyIs
<1>3. /\ Ebb(s, t) /\ Good(t)
      /\ \A v \in Nums \ {u} : (Wake(s, v) => Wake(t, v)) /\ (Glow(s, v) => Glow(t, v))
  BY LossyGood
<1> HIDE DEF t, k, d, y
<1>4. u \in Nums /\ s.phrases[u] \in PhraseType /\ t.contexts = s.contexts /\ t.generation = s.generation /\ t.link = s.link
  BY <1>2, TypedFacts, PhraseTyped, FieldsAre DEF Keeps
<1>5. ~Cause(t, u) /\ (u # 0 => t.phrases[u].gen > 0) /\ GoodBut(t, u)
  BY <1>2, <1>3, <1>4, CalmType DEF Cause, Good, GoodBut, PhraseOK
<1>6. /\ Typed(k) /\ Ebb(t, k) /\ Good(k)
      /\ \A v \in Nums \ {u} : (Wake(t, v) => Wake(k, v)) /\ (Glow(t, v) => Glow(k, v))
  BY <1>2, <1>4, <1>5, ConcludeGood DEF k
<1>7. /\ PhraseOnly(t, k, u) /\ k.items = t.items \ {u} /\ k.phrases[u].phase = "finishing"
      /\ k.phrases[u].pending = Cause(t, u)
      /\ k.phrases[u].timers = t.phrases[u].timers \cap (IF k.phrases[u].pending THEN {"restart"} ELSE {})
      /\ k.phrases[u].result = "none" /\ Same(t.phrases[u], k.phrases[u], ConcludedFields)
  BY <1>2, <1>4, ConcludeIs DEF k, Cause
<1>8. k.items = {} /\ k.phrases[u].timers = {} /\ ~k.phrases[u].pending
  BY <1>2, <1>5, <1>7
<1>9. ~k.phrases[u].awaits /\ ~k.phrases[u].job
  BY <1>5, <1>7, FieldsAre DEF Same, ConcludedFields, Cause
<1>10. Wake(k, u) /\ Glow(k, u)
  BY <1>7, <1>8, <1>9 DEF Wake, Glow, Alarm
<1>11. Full(k, d) /\ Lamp(d) /\ Handset(k, d) /\ Typed(d)
  BY <1>6, DimFull, FullTyped DEF d
<1>12. d.items = {} /\ u \in d.contexts /\ d.phrases = k.phrases /\ d.generation = s.generation /\ d.link = s.link
  BY <1>4, <1>7, <1>8, <1>11, HandsetRest, ChangesRest
<1>13. Full(d, y) /\ Handset(Announce(d, u), y)
  BY <1>11, <1>12, EndFinishFull DEF y
<1>14. Full(k, y) /\ Typed(y)
  BY <1>6, <1>11, <1>13, FullTrans, FullTyped
<1>15. Ebb(s, y)
  <2>1. Ebb(s, k)
    BY <1>2, <1>3, <1>6, EbbTrans
  <2>2. Ebb(k, y)
    BY <1>14 DEF Full, Sound
  <2> QED
    BY <1>6, <1>14, <2>1, <2>2, EbbTrans
<1>16. Good(y)
  BY <1>6, <1>14, FullGood
<1>17. (\A v \in Nums : Wake(k, v) => Wake(y, v)) /\ (\A v \in Nums : Glow(k, v) => Glow(y, v))
  BY <1>6, <1>14 DEF Full, Whole, Wakes, Glows
<1>18. Wakes(s, y) /\ Glows(s, y) /\ Wake(y, u)
  BY <1>3, <1>4, <1>6, <1>10, <1>17 DEF Wakes, Glows
<1>19. Lamp(y)
  <2>1. Good(d)
    BY <1>6, <1>11, FullGood
  <2>2. y.indicator = d.indicator /\ \A v \in Nums : Burns(d, v) => Burns(y, v)
    <3>0. Full(d, Announce(d, u)) /\ Typed(Announce(d, u))
      BY <1>11, <1>12, AnnounceFull, FullTyped
    <3>1. Changes(d, Announce(d, u), u, {"timers", "outcome"}) /\ Announce(d, u).phrases[u].timers = d.phrases[u].timers \cup {"done"}
      BY <1>4, <1>11, AnnounceIs
    <3>2. \A v \in Nums \ {u} : Burns(d, v) => Burns(Announce(d, u), v)
      BY <1>4, <3>1, LocalOthers DEF Changes
    <3>3. ~d.phrases[u].capture
      BY <1>5, <1>7, <1>12, FieldsAre DEF Same, ConcludedFields, Cause
    <3>4. \A v \in Nums : Burns(Announce(d, u), v) => Burns(y, v)
      BY <1>13, HandsetRest, AlikePhrases
    <3>5. \A v \in Nums : Burns(d, v) => Burns(y, v)
      BY <3>2, <3>3, <3>4 DEF Burns
    <3>6. y.indicator = d.indicator
      <4>1. Announce(d, u).indicator = d.indicator
        BY <1>4, <3>1, ChangesRest DEF Changes
      <4>2. HotkeyCancel(HotkeyDone(Announce(d, u))).indicator = Announce(d, u).indicator
        BY FieldsAre DEF HotkeyCancel, HotkeyDone, SetHotkey, Defer
      <4> QED
        BY <4>1, <4>2 DEF y, EndFinish
    <3> QED
      BY <3>5, <3>6
  <2> QED
    BY <1>11, <2>2 DEF Lamp
<1>20. y.items = {} /\ y.generation = s.generation /\ y.link = s.link
  <2>0. Typed(Announce(d, u)) /\ Changes(d, Announce(d, u), u, {"timers", "outcome"})
    BY <1>4, <1>11, <1>12, AnnounceFull, FullTyped, AnnounceIs
  <2>1. Announce(d, u).items = d.items /\ Announce(d, u).generation = d.generation /\ Announce(d, u).link = d.link
    BY <1>4, <2>0, ChangesRest DEF Changes
  <2> QED
    BY <1>12, <1>13, <2>1, HandsetRest
<1>21. Forgets(s, y)
  <2>0. Changes(d, Announce(d, u), u, {"timers", "outcome"})
    BY <1>4, <1>11, AnnounceIs
  <2>1. ASSUME NEW v \in Nums \ s.items PROVE y.phrases[v] = s.phrases[v] \/ ~y.phrases[v].job
    <3>1. y.phrases = Announce(d, u).phrases
      BY <1>13, HandsetRest
    <3>2. CASE v = u
      BY <1>9, <1>12, <2>0, <3>1, <3>2, FieldsAre DEF Changes, Same
    <3>3. CASE v # u
      BY <1>2, <1>7, <1>12, <2>0, <3>1, <3>3 DEF Changes, PhraseOnly
    <3> QED
      BY <3>2, <3>3
  <2> QED
    BY <1>20, <2>1 DEF Forgets
<1>22. Full(s, y)
  BY <1>14, <1>15, <1>16, <1>18, <1>19 DEF Full, Sound, Whole
<1> QED
  BY <1>1, <1>18, <1>19, <1>20, <1>21, <1>22

\* A set of numbers has a least one
LEMMA LeastNumber == ASSUME NEW S, S \subseteq Nat, S # {} PROVE \E m \in S : \A k \in S : m <= k
<1>1. PICK m \in S : \A k \in S : ~(<<k, m>> \in OpToRel(<, Nat))
  BY WFMin, NatLessThanWellFounded
<1>2. ASSUME NEW k \in S, k < m PROVE FALSE
  <2>1. k \in Nat /\ m \in Nat
    BY <1>1
  <2>2. <<k, m>> \in OpToRel(<, Nat)
    BY <1>2, <2>1 DEF OpToRel
  <2> QED
    BY <1>1, <2>2
<1>3. ASSUME NEW k \in S PROVE m <= k
  <2>1. k \in Nat /\ m \in Nat
    BY <1>1
  <2>2. ~(k < m)
    BY <1>2
  <2> QED
    BY <2>1, <2>2
<1> QED
  BY <1>3

LEMMA MinIs == ASSUME NEW S, S \subseteq Nums, S # {} PROVE Min(S) \in S /\ \A k \in S : Min(S) <= k
<1>1. S \subseteq Nat
  BY DEF Nums
<1>2. \E m \in S : \A k \in S : m <= k
  BY <1>1, LeastNumber
<1> QED
  BY <1>2 DEF Min

LEMMA MaxIs == ASSUME NEW S, S \subseteq Nums, S # {} PROVE Max(S) \in S /\ \A k \in S : Max(S) >= k
<1> DEFINE T == {PhraseLimit - k : k \in S}
<1>1. PhraseLimit \in Nat /\ \A k \in S : k \in Nat /\ k <= PhraseLimit
  BY LimitAssumption DEF Nums
<1>2. T \subseteq Nat /\ T # {}
  BY <1>1
<1>3. PICK m \in T : \A k \in T : m <= k
  BY <1>2, LeastNumber
<1>4. PICK j \in S : m = PhraseLimit - j
  BY <1>3
<1>5. ASSUME NEW k \in S PROVE j >= k
  <2>1. m <= PhraseLimit - k
    BY <1>3
  <2> QED
    BY <1>1, <1>4, <2>1
<1> QED
  BY <1>5 DEF Max

LEMMA DefaultIs == ASSUME NEW s, Typed(s) PROVE Default(s) \in s.contexts /\ (s.items # {} => Default(s) \in s.items)
<1>1. s.items \subseteq Nums /\ s.items \subseteq s.contexts /\ s.last \in s.contexts
  BY TypedFacts DEF Typed, TypedQueue
<1> QED
  BY <1>1, MaxIs DEF Default

LEMMA NewestIs == ASSUME NEW s, Typed(s)
  PROVE /\ Newest(s) \in s.contexts
        /\ Recording(s) # {} => Newest(s) \in Recording(s) /\ Min(Recording(s)) \in Recording(s)
        /\ Recording(s) \subseteq s.items
<1>1. Recording(s) \subseteq s.items /\ Recording(s) \subseteq Nums /\ s.items \subseteq s.contexts
  BY TypedFacts DEF Recording
<1> QED
  BY <1>1, MinIs, DefaultIs DEF Newest

\* _route finds a phrase that is remembered
LEMMA RouteIs == ASSUME NEW s, Typed(s), NEW u PROVE Route(s, u) \in s.contexts
BY NewestIs, DefaultIs DEF Route

LEMMA RestOnly ==
  ASSUME NEW x, NEW y, Typed(x),
         Keeps(x, y, {"hotkey", "indicator", "deferred", "stack", "link", "waits", "closing", "source", "pasted", "fault"}),
         TypedRest(y)
  PROVE Typed(y)
<1>1. TypedQueue(y)
  BY FieldsAre DEF Keeps, Typed, TypedQueue
<1> QED
  BY <1>1 DEF Typed, Keeps

\* No capture is open in the worker
Mute(s) == \A v \in Ids : s.source[v] # "open"

\* In the next generation nothing waits and no capture is open
LEMMA NextWorkerFull ==
  ASSUME NEW s, Typed(s), s.generation < GenerationLimit
  PROVE LET y == NextWorker(s) IN
    /\ Full(s, y) /\ Mute(y) /\ y.phrases = s.phrases /\ y.items = s.items /\ y.generation = s.generation + 1
    /\ y.link = "starting"
<1> DEFINE y == NextWorker(s)
<1>1. y = [s EXCEPT !.generation = s.generation + 1, !.link = "starting", !.waits = NoWaits,
            !.closing = FALSE, !.source = Silenced(s)]
  BY DEF NextWorker
<1> HIDE DEF y
<1>2. /\ Keeps(s, y, {"generation", "link", "waits", "closing", "source"})
      /\ y.generation = s.generation + 1 /\ y.link = "starting" /\ y.waits = NoWaits /\ y.closing = FALSE
      /\ y.source = Silenced(s)
  BY <1>1, FieldsAre DEF Keeps, Typed
<1>3. /\ y.contexts = s.contexts /\ y.stack = s.stack /\ y.pasted = s.pasted /\ y.phrases = s.phrases
      /\ y.items = s.items /\ y.deferred = s.deferred /\ y.indicator = s.indicator /\ y.last = s.last
  BY <1>2, FieldsAre DEF Keeps
<1>4. Mute(y) /\ y.source \in [Ids -> {"none", "open", "closed", "told"}]
  BY <1>2 DEF Mute, Silenced
<1>5. y.waits \in [Ids -> SUBSET (Requests \cup {"lost"})]
  BY <1>2 DEF NoWaits
<1>6. s.generation \in Nat \ {0} /\ y.generation \in Nat \ {0} /\ y.generation <= GenerationLimit /\ s.generation < y.generation
      /\ GenerationLimit \in Nat
  BY <1>2, LimitAssumption DEF Typed, TypedRest
<1>7. TypedRest(y)
  BY <1>2, <1>4, <1>5, <1>6, FieldsAre DEF Keeps, Typed, TypedRest, Links
<1>8. \A u \in Nums : s.phrases[u].gen \in Nat /\ s.phrases[u].gen <= s.generation
  BY TypedFacts
<1>9. \A u \in Nums : y.phrases[u].gen <= y.generation /\ y.phrases[u].gen # y.generation
  BY <1>3, <1>6, <1>8
<1>10. TypedQueue(y)
  BY <1>3, <1>9 DEF Typed, TypedQueue
<1>11. Typed(y)
  BY <1>2, <1>7, <1>10 DEF Typed, Keeps
<1>12. Ebb(s, y)
  <2>1. s.generation <= y.generation /\ y.generation # s.generation
    BY <1>6
  <2>2. Steady(s, y)
    BY <1>3, <1>4, <2>1 DEF Steady, Mute
  <2>3. News(s, y) /\ \A u \in Nums : EbbPhrase(s, y, u)
    BY <1>3 DEF News, EbbPhrase
  <2>4. Asks(s, y)
    BY <1>2 DEF Asks, NoWaits
  <2> QED
    BY <1>3, <2>2, <2>3, <2>4 DEF Ebb
<1>13. Good(s) => Common(y)
  BY <1>4, <1>11, <1>12, CommonEbb DEF Good, Mute
<1>14. ASSUME NEW u \in Nums PROVE (PhraseOK(s, u) => PhraseOK(y, u)) /\ (Wake(s, u) => Wake(y, u)) /\ (Glow(s, u) => Glow(y, u))
  BY <1>3, <1>9 DEF PhraseOK, Wake, Glow, Current, Alarm
<1>15. ASSUME Good(s), Awake(s), NEW c \in Nums, Burns(s, c) PROVE Burns(y, c)
  <2>1. PhraseOK(s, c) /\ Wake(s, c)
    BY <1>15 DEF Good, Awake
  <2>2. s.phrases[c].capture /\ c \in s.contexts /\ (c \in s.items \/ Alarm(s, c) # {})
    BY <1>15, <2>1 DEF Burns, PhraseOK, Wake
  <2> QED
    BY <1>3, <2>2 DEF Burns, Alarm
<1>16. Full(s, y)
  BY <1>3, <1>11, <1>12, <1>13, <1>14, <1>15 DEF Full, Sound, Whole, Good, Wakes, Glows, Lamp
<1> QED
  BY <1>2, <1>3, <1>4, <1>16 DEF y

LEMMA FullMute == ASSUME NEW x, NEW y, Full(x, y), Mute(x) PROVE Mute(y)
BY FullRest DEF Mute

\* A loss is told of, at once or after the paste
LEMMA HearLossFull ==
  ASSUME NEW s, Typed(s), Good(s), Mute(s), NEW u \in Nums, s.generation > 1
  PROVE Full(s, HearLoss(s, u)) /\ Forgets(s, HearLoss(s, u))
<1> DEFINE v == Route(s, u)
           e == Said("crashed", u, s.generation - 1)
<1>1. v \in s.contexts /\ Dead(s, v)
  BY RouteIs DEF Dead, Mute
<1>2. s.generation \in Nat /\ s.generation - 1 \in Nat /\ s.generation - 1 < s.generation /\ s.generation - 1 <= s.generation
  BY DEF Typed, TypedRest
<1>3. e \in EventType
  <2>1. "crashed" \in Words
    BY DEF Words, Endings
  <2> QED
    BY <1>2, <2>1 DEF Said, EventType
<1>4. e.what = "crashed" /\ e.gen = s.generation - 1
  BY DEF Said
<1>5. HearLoss(s, u) \in {s, Defer(s, e), FailRestarted(s, v)}
  BY DEF HearLoss
<1> HIDE DEF v, e
<1>6. Full(s, FailRestarted(s, v)) /\ Forgets(s, FailRestarted(s, v))
  BY <1>1, FailRestartedFull
<1>7. Full(s, Defer(s, e)) /\ Forgets(s, Defer(s, e))
  <2>1. Handset(s, Defer(s, e))
    BY <1>3, DeferIs
  <2>2. Defer(s, e).generation = s.generation /\ Defer(s, e).phrases = s.phrases /\ Defer(s, e).items = s.items
    BY <2>1, HandsetRest
  <2>3. EventOK(Defer(s, e), e)
    BY <1>2, <1>4, <2>2 DEF EventOK, Results
  <2>4. e.what \notin Results \cup Acks
    BY <1>4 DEF Results, Acks
  <2> QED
    BY <1>3, <2>2, <2>3, <2>4, DeferFull DEF Forgets
<1>8. Full(s, s) /\ Forgets(s, s)
  BY FullRefl, ForgetsRefl
<1> QED
  BY <1>5, <1>6, <1>7, <1>8

\* The losses one after the other
LEMMA RelaunchedFull ==
  ASSUME NEW s, Typed(s), Good(s), s.generation < GenerationLimit
  PROVE LET y == Relaunched(s) IN Full(s, y) /\ Mute(y) /\ Forgets(s, y) /\ y.generation # s.generation
<1> DEFINE base == NextWorker(s)
           S == Lost(s)
           N == PhraseLimit + 1
           IsAfter(g, m) == g = [n \in 0..m |-> IF n = 0 THEN base
                                   ELSE IF n - 1 \in S THEN HearLoss(g[n - 1], n - 1) ELSE g[n - 1]]
           Missing == {m \in Nat : ~\E g : IsAfter(g, m)}
<1>1. PhraseLimit \in Nat /\ N \in Nat
  BY LimitAssumption
<1>2. Missing = {}
  <2> SUFFICES ASSUME Missing # {} PROVE FALSE
    OBVIOUS
  <2>1. PICK m \in Missing : \A k \in Missing : m <= k
    BY LeastNumber
  <2>2. CASE m = 0
    <3>1. IsAfter([n \in 0..0 |-> base], 0)
      OBVIOUS
    <3> QED
      BY <2>2, <3>1
  <2>3. CASE m # 0
    <3>a. m \in Nat
      OBVIOUS
    <3>0. m - 1 \in Nat /\ m - 1 < m
      BY <2>3, <3>a
    <3>b. m - 1 \notin Missing
      <4> HIDE DEF Missing
      <4> QED
        BY <2>1, <3>a, <3>0
    <3>1. m \in Nat /\ m - 1 \in Nat /\ m - 1 \notin Missing
      BY <3>a, <3>0, <3>b
    <3>2. PICK g : IsAfter(g, m - 1)
      BY <3>1
    <3> DEFINE next == IF m - 1 \in S THEN HearLoss(g[m - 1], m - 1) ELSE g[m - 1]
               h == [n \in 0..m |-> IF n = m THEN next ELSE g[n]]
    <3>3. \A n \in 0..(m - 1) : g[n] = IF n = 0 THEN base ELSE IF n - 1 \in S THEN HearLoss(g[n - 1], n - 1) ELSE g[n - 1]
      BY <3>1, <3>2
    <3>c. \A n \in 0..m : h[n] = IF n = m THEN next ELSE g[n]
      OBVIOUS
    <3>4. \A n \in 0..m : h[n] = IF n = 0 THEN base ELSE IF n - 1 \in S THEN HearLoss(h[n - 1], n - 1) ELSE h[n - 1]
      <4> SUFFICES ASSUME NEW n \in 0..m PROVE h[n] = IF n = 0 THEN base ELSE IF n - 1 \in S THEN HearLoss(h[n - 1], n - 1) ELSE h[n - 1]
        OBVIOUS
      <4>0. next = IF m - 1 \in S THEN HearLoss(g[m - 1], m - 1) ELSE g[m - 1]
        OBVIOUS
      <4> HIDE DEF h, base, next, S
      <4>1. CASE n = 0
        BY <2>3, <3>1, <3>3, <3>c, <4>1
      <4>2. CASE n # 0 /\ n = m
        <5>1. n - 1 \in 0..m /\ n - 1 # m
          BY <3>1, <4>2
        <5>2. h[n] = next /\ h[n - 1] = g[m - 1]
          BY <3>c, <4>2, <5>1
        <5> QED
          BY <4>0, <4>2, <5>2
      <4>3. CASE n # 0 /\ n # m
        <5>1. n \in 0..(m - 1) /\ n - 1 \in 0..m /\ n - 1 # m
          BY <3>1, <4>3
        <5> QED
          BY <3>3, <3>c, <4>3, <5>1
      <4> QED
        BY <4>1, <4>2, <4>3
    <3>5. IsAfter(h, m)
      BY <3>4
    <3> QED
      BY <2>1, <3>5
  <2> QED
    BY <2>2, <2>3
<1> DEFINE after == CHOOSE g : IsAfter(g, N)
<1>3. IsAfter(after, N)
  BY <1>1, <1>2
<1>4. Relaunched(s) = after[N]
  BY DEF Relaunched, InOrder
<1> HIDE DEF after
<1>5. \A n \in 0..N : after[n] = IF n = 0 THEN base ELSE IF n - 1 \in S THEN HearLoss(after[n - 1], n - 1) ELSE after[n - 1]
  BY <1>3
<1>6. Full(s, base) /\ Mute(base) /\ base.phrases = s.phrases /\ base.items = s.items /\ base.generation = s.generation + 1
  BY NextWorkerFull
<1> HIDE DEF base, S
<1>7. Typed(base) /\ Good(base) /\ base.generation \in Nat /\ s.generation \in Nat \ {0} /\ Forgets(s, base)
  <2>1. Typed(base) /\ Good(base)
    BY <1>6, FullGood
  <2> QED
    BY <1>6, <2>1, TypedFacts DEF Forgets, Typed, TypedRest
<1> DEFINE Reads(n) == Full(base, after[n]) /\ Forgets(base, after[n])
           Wrong == {n \in 0..N : ~Reads(n)}
<1>8. Reads(0)
  BY <1>1, <1>5, <1>7, FullRefl, ForgetsRefl
<1>9. ASSUME NEW n \in 1..N, Reads(n - 1) PROVE Reads(n)
  <2>1. n \in 0..N /\ n - 1 \in 0..N /\ n # 0 /\ n - 1 \in Nums
    BY <1>1 DEF Nums
  <2> DEFINE x == after[n - 1]
  <2>2. Typed(x) /\ Good(x) /\ Mute(x)
    BY <1>6, <1>7, <1>9, FullGood, FullMute
  <2>3. x.generation > 1
    <3>1. base.generation <= x.generation
      BY <1>9 DEF Full, Sound, Ebb, Steady
    <3>2. x.generation \in Nat
      BY <2>2, TypedFacts
    <3> QED
      BY <1>6, <1>7, <3>1, <3>2
  <2>4. Full(x, HearLoss(x, n - 1)) /\ Forgets(x, HearLoss(x, n - 1))
    BY <2>1, <2>2, <2>3, HearLossFull
  <2>5. after[n] = HearLoss(x, n - 1) \/ after[n] = x
    BY <1>5, <2>1
  <2> HIDE DEF x
  <2>6. Full(x, after[n]) /\ Forgets(x, after[n])
    BY <2>2, <2>4, <2>5, FullRefl, ForgetsRefl
  <2>7. Full(base, x) /\ Forgets(base, x)
    BY <1>9 DEF x
  <2>8. Typed(after[n])
    BY <2>6, FullTyped
  <2>9. Full(base, after[n])
    BY <1>7, <2>2, <2>6, <2>7, <2>8, FullTrans
  <2>10. Forgets(base, after[n])
    BY <2>6, <2>7, ForgetsTrans
  <2> QED
    BY <2>9, <2>10
<1>10. Wrong = {}
  <2> SUFFICES ASSUME Wrong # {} PROVE FALSE
    OBVIOUS
  <2>1. Wrong \subseteq Nat
    BY <1>1
  <2>2. PICK m \in Wrong : \A k \in Wrong : m <= k
    BY <2>1, LeastNumber
  <2>3. m # 0
    BY <1>8, <2>2
  <2>4. m \in 1..N /\ m - 1 \in 0..N /\ m \in Nat /\ m - 1 \in Nat /\ m - 1 < m
    BY <1>1, <2>2, <2>3
  <2>5. m - 1 \notin Wrong
    BY <2>2, <2>4
  <2>6. Reads(m - 1)
    BY <2>4, <2>5
  <2> QED
    BY <1>9, <2>2, <2>4, <2>6
<1> DEFINE y == after[N]
<1>11. Full(base, y) /\ Forgets(base, y)
  BY <1>1, <1>10
<1> HIDE DEF y
<1>12. Typed(y)
  BY <1>11, FullTyped
<1>13. Full(s, y) /\ Mute(y) /\ Forgets(s, y)
  BY <1>6, <1>7, <1>11, <1>12, FullTrans, FullMute, ForgetsTrans
<1>14. y.generation # s.generation
  <2>1. base.generation <= y.generation
    BY <1>11 DEF Full, Sound, Ebb, Steady
  <2>2. y.generation \in Nat
    BY <1>12, TypedFacts
  <2> QED
    BY <1>6, <1>7, <2>1, <2>2
<1> QED
  BY <1>4, <1>13, <1>14 DEF y

\* The process is killed (_restart)
LEMMA RestartingFull ==
  ASSUME NEW s, Typed(s), s.link \in {"starting", "up"}
  PROVE Full(s, Restarting(s)) /\ Forgets(s, Restarting(s)) /\ Restarting(s).phrases = s.phrases
        /\ Restarting(s).generation = s.generation
<1> DEFINE w == [u \in Ids |-> IF s.waits[u] = {} THEN {} ELSE {"lost"}]
           c == [u \in Ids |-> IF s.source[u] = "closed" THEN "told" ELSE s.source[u]]
           y == Restarting(s)
<1>0. s.waits \in [Ids -> SUBSET (Requests \cup {"lost"})] /\ s.source \in [Ids -> {"none", "open", "closed", "told"}]
  BY DEF Typed, TypedRest
<1>1. y = [s EXCEPT !.link = "restarting", !.closing = FALSE, !.waits = w, !.source = c]
  BY <1>0 DEF Restarting
<1>2. w \in [Ids -> SUBSET (Requests \cup {"lost"})] /\ c \in [Ids -> {"none", "open", "closed", "told"}]
  BY <1>0
<1>3. \A u \in Ids : c[u] = "open" => s.source[u] = "open"
  OBVIOUS
<1> HIDE DEF y, w, c
<1>4. /\ Keeps(s, y, {"link", "closing", "waits", "source"})
      /\ y.link = "restarting" /\ y.closing = FALSE /\ y.waits = w /\ y.source = c
  BY <1>1, FieldsAre DEF Keeps, Typed
<1>5. y.stack = s.stack /\ y.deferred = s.deferred /\ y.indicator = s.indicator /\ y.phrases = s.phrases /\ y.items = s.items
      /\ y.generation = s.generation
  BY <1>4, FieldsAre DEF Keeps
<1>6. TypedRest(y)
  BY <1>2, <1>4, FieldsAre DEF Keeps, Typed, TypedRest, Links
<1>7. Typed(y)
  <2>1. Keeps(s, y, {"hotkey", "indicator", "deferred", "stack", "link", "waits", "closing", "source", "pasted", "fault"})
    BY <1>4 DEF Keeps
  <2> QED
    BY <1>6, <2>1, RestOnly
<1>8. Alike(s, y) /\ News(s, y)
  BY <1>4, <1>5 DEF Alike, Keeps, News
<1>10. Asks(s, y)
  <2>1. \A u \in Ids : "recognize" \notin w[u] /\ "record.cancel" \notin w[u]
    BY DEF w
  <2> QED
    BY <1>4, <2>1 DEF Asks
<1>9. Full(s, y)
  BY <1>3, <1>4, <1>5, <1>7, <1>8, <1>10, AlikeFull
<1> QED
  BY <1>5, <1>9 DEF y, Forgets

LEMMA MendedFull ==
  ASSUME NEW s, Typed(s)
  PROVE LET y == [s EXCEPT !.fault = "none"] IN
    Full(s, y) /\ Forgets(s, y) /\ Keeps(s, y, {"fault"}) /\ y.fault = "none"
<1> DEFINE y == [s EXCEPT !.fault = "none"]
<1>1. Keeps(s, y, {"fault"}) /\ y.fault = "none"
  BY FieldsAre DEF Keeps, Typed
<1> HIDE DEF y
<1>2. y.stack = s.stack /\ y.deferred = s.deferred /\ y.indicator = s.indicator /\ y.phrases = s.phrases /\ y.items = s.items
      /\ y.link = s.link /\ y.source = s.source /\ y.waits = s.waits
  BY <1>1, FieldsAre DEF Keeps
<1>3. TypedRest(y)
  BY <1>1, FieldsAre DEF Keeps, Typed, TypedRest
<1>4. Typed(y)
  <2>1. Keeps(s, y, {"hotkey", "indicator", "deferred", "stack", "link", "waits", "closing", "source", "pasted", "fault"})
    BY <1>1 DEF Keeps
  <2> QED
    BY <1>3, <2>1, RestOnly
<1>5. Alike(s, y) /\ News(s, y) /\ Asks(s, y)
  BY <1>1, <1>2 DEF Alike, Keeps, News, Asks
<1>6. Full(s, y)
  BY <1>2, <1>4, <1>5, AlikeFull
<1> QED
  BY <1>1, <1>2, <1>6 DEF y, Forgets

\* A request whose socket may break, now or later
LEMMA SentFull ==
  ASSUME NEW s, Typed(s), Good(s), s.link = "up"
  PROVE LET y == Sent(s) IN
    /\ Full(s, y) /\ Forgets(s, y)
    /\ y.generation = s.generation => y.phrases = s.phrases
<1> DEFINE m == [s EXCEPT !.fault = "none"]
           y == Sent(s)
<1>1. Full(s, m) /\ Forgets(s, m) /\ m.link = "up" /\ m.generation = s.generation /\ m.phrases = s.phrases /\ Typed(m) /\ Good(m)
  BY MendedFull, FullGood, FieldsAre DEF Keeps
<1>2. CASE s.fault = "later"
  <2>1. y = Restarting(m)
    BY <1>2 DEF Sent
  <2> HIDE DEF m
  <2>2. Full(m, y) /\ Forgets(m, y) /\ y.phrases = m.phrases
    BY <1>1, <2>1, RestartingFull
  <2>3. Full(s, y) /\ Forgets(s, y)
    BY <1>1, <2>2, FullTrans, FullTyped, ForgetsTrans
  <2> QED
    BY <1>1, <2>2, <2>3
<1>3. CASE s.fault = "now"
  <2>1. y = Relaunched(m)
    BY <1>3 DEF Sent
  <2>2. m.generation < GenerationLimit
    BY <1>1, <1>3 DEF Typed, TypedRest
  <2> HIDE DEF m
  <2>3. Full(m, y) /\ Forgets(m, y) /\ y.generation # m.generation
    BY <1>1, <2>1, <2>2, RelaunchedFull
  <2>4. Full(s, y) /\ Forgets(s, y)
    BY <1>1, <2>3, FullTrans, FullTyped, ForgetsTrans
  <2> QED
    BY <1>1, <2>3, <2>4
<1>4. CASE s.fault \notin {"now", "later"}
  <2>1. y = s
    BY <1>4 DEF Sent
  <2> QED
    BY <2>1, FullRefl, ForgetsRefl
<1> QED
  BY <1>2, <1>3, <1>4

\* A request that the socket lets through
Asking(s, u, request) ==
  [s EXCEPT !.waits[u] = {request} \cup (IF request = "record.cancel" THEN @ ELSE @ \ {"record.start"}),
            !.source[u] = IF request = "record.start" THEN "open" ELSE @]

LEMMA AskingIs ==
  ASSUME NEW s, Typed(s), NEW u \in Ids, NEW request \in Requests
  PROVE LET y == Asking(s, u, request) IN
    /\ Typed(y) /\ Keeps(s, y, {"waits", "source"})
    /\ y.source[u] = IF request = "record.start" THEN "open" ELSE s.source[u]
    /\ \A v \in Ids \ {u} : y.source[v] = s.source[v] /\ y.waits[v] = s.waits[v]
    /\ request # "recognize" /\ "recognize" \in y.waits[u] => "recognize" \in s.waits[u]
    /\ request # "record.cancel" /\ "record.cancel" \in y.waits[u] => "record.cancel" \in s.waits[u]
<1> DEFINE w == {request} \cup (IF request = "record.cancel" THEN s.waits[u] ELSE s.waits[u] \ {"record.start"})
           o == IF request = "record.start" THEN "open" ELSE s.source[u]
           y == Asking(s, u, request)
<1>0. s.waits \in [Ids -> SUBSET (Requests \cup {"lost"})] /\ s.source \in [Ids -> {"none", "open", "closed", "told"}]
  BY DEF Typed, TypedRest
<1>1. y = [s EXCEPT !.waits = [s.waits EXCEPT ![u] = w], !.source = [s.source EXCEPT ![u] = o]]
  BY DEF Asking
<1>2. w \in SUBSET (Requests \cup {"lost"}) /\ o \in {"none", "open", "closed", "told"}
  BY <1>0
<1>8. /\ request # "recognize" /\ "recognize" \in w => "recognize" \in s.waits[u]
      /\ request # "record.cancel" /\ "record.cancel" \in w => "record.cancel" \in s.waits[u]
  OBVIOUS
<1> HIDE DEF y, w
<1>3. /\ Keeps(s, y, {"waits", "source"})
      /\ y.waits = [s.waits EXCEPT ![u] = w] /\ y.source = [s.source EXCEPT ![u] = o]
  BY <1>1, FieldsAre DEF Keeps, Typed
<1>4. y.waits \in [Ids -> SUBSET (Requests \cup {"lost"})]
  BY <1>0, <1>2, <1>3
<1>5. y.source \in [Ids -> {"none", "open", "closed", "told"}]
  BY <1>0, <1>2, <1>3
<1>6. TypedRest(y)
  BY <1>3, <1>4, <1>5, FieldsAre DEF Keeps, Typed, TypedRest
<1>7. Typed(y)
  <2>1. Keeps(s, y, {"hotkey", "indicator", "deferred", "stack", "link", "waits", "closing", "source", "pasted", "fault"})
    BY <1>3 DEF Keeps
  <2> QED
    BY <1>6, <2>1, RestOnly
<1> QED
  BY <1>0, <1>3, <1>7, <1>8 DEF y

\* A request of the queue that only closes
LEMMA AskFull ==
  ASSUME NEW s, Typed(s), Good(s), s.link = "up", NEW u \in Ids, NEW request \in Requests \ {"record.start"},
         request = "recognize" => Unasked(s, u) /\ ~Records(s, u),
         request = "record.cancel" => u \in s.contexts
  PROVE LET y == Ask(s, u, request) IN
    /\ Full(s, y) /\ Forgets(s, y)
    /\ y.generation = s.generation => y.phrases = s.phrases
<1> DEFINE a == Asking(s, u, request)
           y == Ask(s, u, request)
<1>1. y = Sent(a)
  BY DEF Ask, Asking
<1>2. /\ Typed(a) /\ Keeps(s, a, {"waits", "source"})
      /\ \A v \in Ids : a.source[v] = s.source[v]
      /\ \A v \in Ids \ {u} : a.waits[v] = s.waits[v]
      /\ request # "recognize" /\ "recognize" \in a.waits[u] => "recognize" \in s.waits[u]
      /\ request # "record.cancel" /\ "record.cancel" \in a.waits[u] => "record.cancel" \in s.waits[u]
  BY AskingIs
<1> HIDE DEF a, y
<1>3. /\ a.stack = s.stack /\ a.deferred = s.deferred /\ a.indicator = s.indicator /\ a.phrases = s.phrases /\ a.items = s.items
      /\ a.generation = s.generation /\ a.link = "up"
  BY <1>2, FieldsAre DEF Keeps
<1>4. Alike(s, a) /\ News(s, a)
  BY <1>2, <1>3 DEF Alike, Keeps, News
<1>9. Asks(s, a)
  <2>1. Records(a, u) => Records(s, u)
    BY <1>3 DEF Records
  <2>2. ASSUME NEW v \in Ids, "recognize" \in a.waits[v]
        PROVE "recognize" \in s.waits[v] \/ (Unasked(s, v) /\ ~Records(a, v))
    <3>1. CASE v # u
      BY <1>2, <2>2, <3>1
    <3>2. CASE v = u /\ request # "recognize"
      BY <1>2, <2>2, <3>2
    <3>3. CASE v = u /\ request = "recognize"
      BY <2>1, <3>3
    <3> QED
      BY <3>1, <3>2, <3>3
  <2>3. ASSUME NEW v \in Ids, "record.cancel" \in a.waits[v]
        PROVE "record.cancel" \in s.waits[v] \/ s.phrases[v].gen # 0
    <3>1. CASE v # u
      BY <1>2, <2>3, <3>1
    <3>2. CASE v = u /\ request # "record.cancel"
      BY <1>2, <2>3, <3>2
    <3>3. CASE v = u /\ request = "record.cancel"
      <4>1. u \in Nums /\ u # 0 /\ u \in s.contexts /\ s.phrases[u].gen \in Nat
        BY <3>3, TypedFacts DEF Ids, Nums
      <4>2. s.phrases[u].gen > 0
        BY <4>1 DEF Good, PhraseOK
      <4> QED
        BY <3>3, <4>1, <4>2
    <3> QED
      BY <3>1, <3>2, <3>3
  <2> QED
    BY <2>2, <2>3 DEF Asks
<1>5. Full(s, a)
  BY <1>2, <1>3, <1>4, <1>9, AlikeFull
<1>6. Full(a, y) /\ Forgets(a, y) /\ (y.generation = a.generation => y.phrases = a.phrases)
  BY <1>1, <1>2, <1>3, <1>5, SentFull, FullGood
<1>7. Full(s, y)
  BY <1>2, <1>5, <1>6, FullTrans, FullTyped
<1>8. Forgets(s, y)
  BY <1>3, <1>6 DEF Forgets
<1> QED
  BY <1>3, <1>6, <1>7, <1>8 DEF y

\* _send_cancel_for
LEMMA SendCancelFull ==
  ASSUME NEW s, Typed(s), Good(s), NEW u \in Ids, u \in s.contexts
  PROVE Full(s, SendCancel(s, u)) /\ Forgets(s, SendCancel(s, u))
<1>1. CASE CanSend(s)
  <2>1. SendCancel(s, u) = Ask(s, u, "record.cancel") /\ s.link = "up"
    BY <1>1 DEF SendCancel, CanSend
  <2>2. "record.cancel" \in Requests \ {"record.start"}
    BY DEF Requests
  <2> QED
    BY <2>1, <2>2, AskFull
<1>2. CASE ~CanSend(s)
  <2>1. SendCancel(s, u) = s
    BY <1>2 DEF SendCancel
  <2> QED
    BY <2>1, FullRefl, ForgetsRefl
<1> QED
  BY <1>1, <1>2

\* A step from a state in which the phrase u is under way to one in which all is well again
Mend(s, y, u) ==
  /\ Typed(y) /\ Ebb(s, y) /\ Good(y)
  /\ \A v \in Nums \ {u} : (Wake(s, v) => Wake(y, v)) /\ (Glow(s, v) => Glow(y, v))

\* A phrase brought to its end stays there
LEMMA MendThen == ASSUME NEW s, NEW y, NEW z, NEW u, Typed(s), Mend(s, y, u), Full(y, z) PROVE Mend(s, z, u)
<1>1. Typed(z) /\ Ebb(y, z) /\ Good(z) /\ Wakes(y, z) /\ Glows(y, z)
  BY DEF Mend, Full, Sound, Whole
<1>2. Ebb(s, z)
  BY <1>1, EbbTrans DEF Mend
<1> QED
  BY <1>1, <1>2 DEF Mend, Wakes, Glows

LEMMA MendAfter == ASSUME NEW s, NEW y, NEW z, NEW u, Typed(s), Mend(s, y, u), Mend(y, z, u) PROVE Mend(s, z, u)
<1>1. Ebb(s, z)
  BY EbbTrans DEF Mend
<1> QED
  BY <1>1 DEF Mend

LEMMA MendFull ==
  ASSUME NEW s, NEW y, NEW u \in Nums, Mend(s, y, u), Wake(s, u) => Wake(y, u), Glow(s, u) => Glow(y, u),
         Awake(s) /\ Lamp(s) => Lamp(y)
  PROVE Full(s, y)
<1>1. Wakes(s, y) /\ Glows(s, y)
  BY DEF Mend, Wakes, Glows
<1> QED
  BY <1>1 DEF Mend, Full, Sound, Whole

LEMMA FullMend == ASSUME NEW s, NEW y, NEW u, Good(s), Full(s, y) PROVE Mend(s, y, u)
BY DEF Full, Sound, Whole, Mend, Wakes, Glows

\* What has ended needs no more to be shown
LEMMA NoItemGlows == ASSUME NEW s, Good(s), NEW u \in Nums, u \notin s.items PROVE Glow(s, u)
BY DEF Good, PhraseOK, Busy, Glow

LEMMA EbbRest == ASSUME NEW x, NEW y, Ebb(x, y)
  PROVE y.contexts = x.contexts /\ y.items \subseteq x.items /\ y.stack = x.stack /\ Suspended(y) = Suspended(x)
BY DEF Ebb, Steady, Suspended

LEMMA AwaitFull ==
  ASSUME NEW s, Typed(s), NEW u \in s.contexts \ s.items,
         s.phrases[u].pending /\ Current(s, u) => "restart" \in s.phrases[u].timers /\ "cancel" \notin s.phrases[u].timers
  PROVE Full(s, Await(s, u))
<1> DEFINE p == s.phrases[u]
           a == p.awaits \/ (p.pending /\ p.gen = s.generation)
           q == [p EXCEPT !.awaits = a]
           y == Await(s, u)
<1>0. u \in Nums /\ p \in PhraseType
  BY TypedFacts, PhraseTyped
<1>1. y = With(s, u, q)
  BY DEF Await, With
<1>2. a \in BOOLEAN
  BY <1>0 DEF PhraseType
<1>a. a => p.awaits \/ (p.pending /\ Current(s, u))
  BY DEF Current
<1> HIDE DEF y, a
<1>3. q \in PhraseType /\ Same(p, q, {"awaits"}) /\ q.awaits = a
  BY <1>0, <1>2, FieldsAre DEF PhraseType, Same
<1> HIDE DEF q
<1>4. Changes(s, y, u, {"awaits"}) /\ y.phrases[u] = q
  BY <1>0, <1>1, <1>3, WithChanges
<1>5. PhraseOnly(s, y, u) /\ y.items = s.items /\ y.contexts = s.contexts /\ y.generation = s.generation
  BY <1>0, <1>4, ChangesRest DEF Changes
<1>6. /\ y.phrases[u].phase = s.phrases[u].phase /\ y.phrases[u].gen = s.phrases[u].gen
      /\ y.phrases[u].cancelled = s.phrases[u].cancelled /\ y.phrases[u].pending = s.phrases[u].pending
      /\ y.phrases[u].job = s.phrases[u].job /\ y.phrases[u].capture = s.phrases[u].capture
      /\ y.phrases[u].shown = s.phrases[u].shown /\ y.phrases[u].timers = s.phrases[u].timers
      /\ y.phrases[u].delivered = s.phrases[u].delivered /\ y.phrases[u].result = s.phrases[u].result
      /\ y.phrases[u].waiting = s.phrases[u].waiting
  BY <1>3, <1>4, FieldsAre DEF Same
<1>7. EbbPhrase(s, y, u)
  BY <1>5, <1>6 DEF EbbPhrase
<1>8. Good(s) => PhraseOK(y, u)
  BY <1>0, <1>5, <1>6 DEF Good, PhraseOK, Current
<1>9. Wake(s, u) => Wake(y, u)
  BY <1>a, <1>3, <1>4, <1>5, <1>6 DEF Wake, Current, Alarm
<1>10. (Burns(s, u) => Burns(y, u)) /\ (Glow(s, u) => Glow(y, u))
  BY <1>5, <1>6 DEF Burns, Glow, Current, Alarm
<1>11. Full(s, y)
  BY <1>0, <1>5, <1>6, <1>7, <1>8, <1>9, <1>10, LocalFull
<1> QED
  BY <1>11 DEF y

LEMMA EbbGen == ASSUME NEW x, NEW y, Typed(x), Typed(y), Ebb(x, y), NEW u \in Nums
  PROVE y.phrases[u].gen = x.phrases[u].gen /\ (Current(y, u) => Current(x, u) /\ y.generation = x.generation)
<1>1. y.phrases[u].gen = x.phrases[u].gen /\ x.generation <= y.generation
  BY DEF Ebb, EbbPhrase, Steady
<1> QED
  BY <1>1, TypedFacts DEF Current

\* _send_audio_close
LEMMA SendAudioCloseFull ==
  ASSUME NEW s, Typed(s), Good(s), NEW u \in s.contexts \ s.items,
         "restart" \in s.phrases[u].timers, "cancel" \notin s.phrases[u].timers
  PROVE Full(s, SendAudioClose(s, u))
<1> DEFINE t == [s EXCEPT !.closing = TRUE]
           x == Sent(t)
           y == Await(x, u)
<1>0. u \in Nums
  BY TypedFacts
<1>1. CASE ~CanSend(s) \/ s.closing
  <2>1. SendAudioClose(s, u) = s
    BY <1>1 DEF SendAudioClose
  <2> QED
    BY <2>1, FullRefl
<1>2. CASE CanSend(s) /\ ~s.closing
  <2>1. SendAudioClose(s, u) = y /\ s.link = "up"
    BY <1>2 DEF SendAudioClose, CanSend
  <2>2. Keeps(s, t, {"closing"}) /\ t.closing = TRUE
    BY FieldsAre DEF Keeps, Typed
  <2> HIDE DEF t, x, y
  <2>3. /\ t.stack = s.stack /\ t.deferred = s.deferred /\ t.indicator = s.indicator /\ t.link = s.link /\ t.source = s.source
        /\ t.phrases = s.phrases /\ t.generation = s.generation /\ t.waits = s.waits
    BY <2>2, FieldsAre DEF Keeps
  <2>4. TypedRest(t)
    BY <2>2, FieldsAre DEF Keeps, Typed, TypedRest
  <2>5. Typed(t)
    <3>1. Keeps(s, t, {"hotkey", "indicator", "deferred", "stack", "link", "waits", "closing", "source", "pasted", "fault"})
      BY <2>2 DEF Keeps
    <3> QED
      BY <2>4, <3>1, RestOnly
  <2>6. Alike(s, t) /\ News(s, t) /\ Asks(s, t)
    BY <2>2, <2>3 DEF Alike, Keeps, News, Asks
  <2>7. Full(s, t) /\ Good(t)
    BY <2>3, <2>5, <2>6, AlikeFull, FullGood
  <2>8. Full(t, x) /\ (x.generation = t.generation => x.phrases = t.phrases) /\ Typed(x)
    BY <2>1, <2>3, <2>5, <2>7, SentFull, FullTyped DEF x
  <2>9. Full(s, x) /\ u \in x.contexts \ x.items
    <3>1. Full(s, x)
      BY <2>5, <2>7, <2>8, FullTrans
    <3> QED
      BY <3>1, FullRest
  <2>10. Current(x, u) => x.phrases = s.phrases
    <3>1. Current(x, u) => x.generation = s.generation
      BY <1>0, <2>8, <2>9, EbbGen DEF Full, Sound
    <3> QED
      BY <2>3, <2>8, <3>1
  <2>11. Full(x, y)
    BY <2>8, <2>9, <2>10, AwaitFull DEF y
  <2>12. Full(s, y)
    BY <2>8, <2>9, <2>11, FullTrans, FullTyped
  <2> QED
    BY <2>1, <2>12
<1> QED
  BY <1>1, <1>2

\* u has ended
Half(s, u) ==
  /\ Alarm(s, u) # {} => s.phrases[u].pending
  /\ s.phrases[u].awaits /\ Current(s, u) => "restart" \in s.phrases[u].timers /\ "cancel" \notin s.phrases[u].timers

\* The timers of a phrase that has ended
LEMMA HalfWakes ==
  ASSUME NEW s, Good(s), NEW u \in Nums, u \notin s.items, Half(s, u),
         s.phrases[u].pending /\ Current(s, u) => Alarm(s, u) # {}
  PROVE Wake(s, u)
BY DEF Good, PhraseOK, Wake, Half, Busy

MadeOwing(s, u) == With(s, u, [s.phrases[u] EXCEPT !.pending = TRUE])

LEMMA OwingIs ==
  ASSUME NEW s, Typed(s), Good(s), NEW u \in Ids, u \in s.contexts \ s.items,
         s.phrases[u].pending \/ Current(s, u)
  PROVE LET y == MadeOwing(s, u) IN
    /\ Mend(s, y, u) /\ Changes(s, y, u, {"pending"}) /\ y.phrases[u].pending
    /\ y.contexts = s.contexts /\ y.generation = s.generation /\ y.link = s.link
<1> DEFINE p == s.phrases[u]
           q == [p EXCEPT !.pending = TRUE]
           y == MadeOwing(s, u)
<1>0. u \in Nums /\ p \in PhraseType /\ u # 0
  BY PhraseTyped, LimitAssumption DEF Ids, Nums
<1>1. q \in PhraseType /\ Same(p, q, {"pending"}) /\ q.pending
  BY <1>0, FieldsAre DEF PhraseType, Same
<1>2. y = With(s, u, q)
  BY DEF MadeOwing
<1> HIDE DEF q, y
<1>3. Changes(s, y, u, {"pending"}) /\ y.phrases[u] = q
  BY <1>0, <1>1, <1>2, WithChanges
<1>4. PhraseOnly(s, y, u) /\ y.items = s.items /\ y.contexts = s.contexts /\ y.generation = s.generation /\ y.link = s.link
  BY <1>0, <1>3, ChangesRest DEF Changes
<1>5. /\ y.phrases[u].phase = s.phrases[u].phase /\ y.phrases[u].gen = s.phrases[u].gen
      /\ y.phrases[u].cancelled = s.phrases[u].cancelled /\ y.phrases[u].pending
      /\ y.phrases[u].capture = s.phrases[u].capture /\ y.phrases[u].timers = s.phrases[u].timers
      /\ y.phrases[u].result = s.phrases[u].result /\ y.phrases[u].awaits = s.phrases[u].awaits
  BY <1>1, <1>3, FieldsAre DEF Same
<1>6. EbbPhrase(s, y, u)
  BY <1>4, <1>5 DEF EbbPhrase
<1>7. PhraseOK(y, u)
  BY <1>0, <1>4, <1>5 DEF Good, PhraseOK, Current
<1>8. Typed(y) /\ Ebb(s, y)
  BY <1>0, <1>4, <1>6, LocalEbb
<1>9. Good(y)
  BY <1>0, <1>4, <1>5, <1>6, <1>7, LocalGood DEF Good, GoodBut
<1>10. Mend(s, y, u)
  BY <1>0, <1>4, <1>8, <1>9, LocalOthers DEF Mend
<1> QED
  BY <1>3, <1>4, <1>5, <1>10 DEF y

\* The timer of a cancellation is set before it is sent
MadeAlarmed(s, u) == Later(MadeOwing(s, u), u, "cancel")

LEMMA Alarmed ==
  ASSUME NEW s, Typed(s), Good(s), NEW u \in Ids, u \in s.contexts \ s.items,
         s.phrases[u].pending \/ Current(s, u), ~s.phrases[u].awaits
  PROVE LET y == MadeAlarmed(s, u) IN
    /\ Mend(s, y, u) /\ Wake(y, u) /\ y.items = s.items /\ y.contexts = s.contexts /\ y.link = s.link
    /\ Same(s.phrases[u], y.phrases[u], {"pending", "timers"}) /\ y.phrases[u].pending
    /\ y.phrases[u].timers = s.phrases[u].timers \cup {"cancel"}
    /\ \A v \in Nums : Burns(s, v) => Burns(y, v)
    /\ y.indicator = s.indicator
<1> DEFINE t == MadeOwing(s, u)
           y == MadeAlarmed(s, u)
<1>0. u \in Nums
  BY DEF Ids, Nums
<1>1. /\ Mend(s, t, u) /\ Changes(s, t, u, {"pending"}) /\ t.phrases[u].pending
      /\ t.contexts = s.contexts /\ t.generation = s.generation /\ t.link = s.link
  BY OwingIs
<1>2. y = Later(t, u, "cancel")
  BY DEF MadeAlarmed
<1> HIDE DEF t, y
<1>3. Typed(t) /\ Good(t) /\ t.items = s.items /\ ~t.phrases[u].awaits /\ t.phrases[u].timers = s.phrases[u].timers
  BY <1>1, FieldsAre DEF Mend, Changes, Same
<1>4. Full(t, y)
  BY <1>1, <1>2, <1>3, LaterFull DEF Timers
<1>5. Changes(t, y, u, {"timers"}) /\ y.phrases[u].timers = t.phrases[u].timers \cup {"cancel"}
  BY <1>0, <1>2, <1>3, LaterIs DEF Timers
<1>6. Mend(s, y, u)
  BY <1>1, <1>4, MendThen
<1>7. Same(s.phrases[u], y.phrases[u], {"pending", "timers"}) /\ y.phrases[u].pending /\ ~y.phrases[u].awaits /\ y.items = s.items
      /\ y.phrases[u].capture = s.phrases[u].capture /\ y.phrases[u].gen = s.phrases[u].gen
  BY <1>1, <1>3, <1>5, FieldsAre DEF Changes, Same
<1>8. y.contexts = s.contexts /\ y.link = s.link /\ y.generation = s.generation /\ y.indicator = s.indicator
  BY <1>0, <1>1, <1>5, ChangesRest DEF Changes
<1>9. Wake(y, u)
  <2>1. Good(y) /\ u \notin y.items
    BY <1>6, <1>7 DEF Mend
  <2>2. Half(y, u) /\ Alarm(y, u) # {}
    BY <1>3, <1>5, <1>7 DEF Half, Alarm
  <2> QED
    BY <1>0, <2>1, <2>2, HalfWakes
<1>10. ASSUME NEW v \in Nums, Burns(s, v) PROVE Burns(y, v)
  <2>1. CASE v = u
    BY <1>3, <1>5, <1>7, <1>8, <1>10, <2>1 DEF Burns, Alarm, Current
  <2>2. CASE v # u
    BY <1>0, <1>1, <1>5, <1>10, <2>2, LocalOthers DEF Changes
  <2> QED
    BY <2>1, <2>2
<1> QED
  BY <1>3, <1>5, <1>6, <1>7, <1>8, <1>9, <1>10 DEF y

\* A job without a capture has to be taken back (_fail_recognition)
Jobless(s, u) == s.phrases[u].job /\ ~s.phrases[u].capture

\* _ensure_capture_closed: a timer comes with the request
LEMMA EnsureClosedMend ==
  ASSUME NEW s, Typed(s), Good(s), NEW u \in Ids, u \in s.contexts \ s.items, Half(s, u)
  PROVE LET y == EnsureClosed(s, u)
            asks == s.phrases[u].capture /\ Current(s, u) IN
    /\ Mend(s, y, u)
    /\ ~asks => y = s
    /\ asks => Wake(y, u) /\ ~Jobless(y, u)
    /\ asks /\ "restart" \in s.phrases[u].timers =>
         y.phrases[u].timers = s.phrases[u].timers /\ y.phrases[u].awaits = s.phrases[u].awaits
<1> DEFINE p == s.phrases[u]
           asks == p.capture /\ Current(s, u)
           t == MadeOwing(s, u)
           l == MadeAlarmed(s, u)
           y == EnsureClosed(s, u)
<1>0. u \in Nums /\ p \in PhraseType
  BY PhraseTyped DEF Ids, Nums
<1>1. CASE ~asks
  <2>1. y = s
    BY <1>1 DEF EnsureClosed, Current
  <2>2. Mend(s, s, u)
    BY EbbRefl DEF Mend
  <2> QED
    BY <1>1, <2>1, <2>2
<1>2. CASE asks /\ (p.awaits \/ "restart" \in p.timers)
  <2>1. y = t
    BY <1>2 DEF EnsureClosed, Current, MadeOwing, With
  <2>2. /\ Mend(s, t, u) /\ Changes(s, t, u, {"pending"}) /\ t.phrases[u].pending
        /\ t.contexts = s.contexts /\ t.generation = s.generation
    BY <1>2, OwingIs
  <2> HIDE DEF t
  <2>3. /\ t.phrases[u].timers = p.timers /\ t.phrases[u].awaits = p.awaits /\ t.phrases[u].capture
        /\ u \notin t.items /\ t.phrases[u].gen = p.gen
    BY <1>2, <2>2, FieldsAre DEF Changes, Same
  <2>4. Half(t, u) /\ Alarm(t, u) # {}
    BY <1>2, <2>2, <2>3 DEF Half, Alarm, Current
  <2>5. Wake(t, u)
    BY <1>0, <2>2, <2>3, <2>4, HalfWakes DEF Mend
  <2> QED
    BY <1>2, <2>1, <2>2, <2>3, <2>5 DEF Jobless
<1>3. CASE asks /\ ~(p.awaits \/ "restart" \in p.timers)
  <2>1. y = SendCancel(l, u)
    BY <1>3 DEF EnsureClosed, Current, MadeAlarmed, MadeOwing, With
  <2>2. /\ Mend(s, l, u) /\ Wake(l, u) /\ l.items = s.items
        /\ Same(s.phrases[u], l.phrases[u], {"pending", "timers"})
    BY <1>3, Alarmed
  <2> HIDE DEF l, y
  <2>3. Full(l, y) /\ Forgets(l, y)
    <3>1. Typed(l) /\ Good(l) /\ l.contexts = s.contexts
      BY <2>2, EbbRest DEF Mend
    <3> QED
      BY <2>1, <3>1, SendCancelFull
  <2>4. Mend(s, y, u)
    BY <2>2, <2>3, MendThen
  <2>5. Wake(y, u)
    BY <1>0, <2>2, <2>3 DEF Mend, Full, Whole, Wakes
  <2>6. ~Jobless(y, u)
    <3>1. l.phrases[u].capture
      BY <1>3, <2>2, FieldsAre DEF Same
    <3> QED
      BY <1>0, <2>2, <2>3, <3>1 DEF Forgets, Jobless
  <2>7. p.capture /\ Current(s, u) /\ "restart" \notin p.timers
    BY <1>3
  <2> QED
    BY <2>4, <2>5, <2>6, <2>7 DEF y
<1> QED
  BY <1>1, <1>2, <1>3

\* The key goes back to the phrases that are left
LEMMA ReleaseFull == ASSUME NEW s, Typed(s), NEW recorded PROVE Full(s, Release(s, recorded)) /\ Handset(s, Release(s, recorded))
<1>1. Release(s, recorded) \in {s, ReturnHotkey(s)}
  BY DEF Release
<1> QED
  BY <1>1, FullRefl, HandsetRefl, ReturnHotkeyFull

LEMMA ReleaseLamp == ASSUME NEW s, Typed(s), NEW recorded, Lamp(s) PROVE Lamp(Release(s, recorded))
<1> DEFINE y == Release(s, recorded)
<1>1. Handset(s, y)
  BY ReleaseFull
<1>2. y.indicator = s.indicator
  BY FieldsAre DEF Release, ReturnHotkey, HotkeyCancel, SetHotkey, Defer
<1> HIDE DEF y
<1>3. \A v \in Nums : Burns(s, v) => Burns(y, v)
  BY <1>1, HandsetRest, AlikePhrases
<1>4. Lamp(y)
  BY <1>2, <1>3 DEF Lamp
<1> QED
  BY <1>4 DEF y

\* _begin_finish
LEMMA BeginFinishMend ==
  ASSUME NEW s, Typed(s), NEW u \in Ids, GoodBut(s, u), u \in s.items, s.phrases[u].gen > 0, ~s.phrases[u].awaits
  PROVE LET y == BeginFinish(s, u) IN
    /\ Mend(s, y, u) /\ u \in y.contexts \ y.items /\ Lamp(y)
    /\ Wake(y, u) \/ Jobless(y, u)
    /\ Jobless(y, u) => y.phrases[u].pending /\ ~y.phrases[u].awaits
    /\ ~s.phrases[u].job \/ s.phrases[u].capture \/ "restart" \in s.phrases[u].timers => Wake(y, u)
    /\ "restart" \in s.phrases[u].timers =>
         y.phrases[u].timers \subseteq {"restart"} /\ ~y.phrases[u].awaits
<1> DEFINE p == s.phrases[u]
           k == Conclude(s, u)
           e == EnsureClosed(k, u)
           d == Dim(e)
           y == BeginFinish(s, u)
<1>0. u \in Nums /\ p \in PhraseType /\ u # 0 /\ u \in s.contexts
  BY PhraseTyped, TypedFacts, LimitAssumption DEF Ids, Nums
<1>1. Mend(s, k, u)
  BY <1>0, ConcludeGood DEF Mend
<1>2. /\ PhraseOnly(s, k, u) /\ k.items = s.items \ {u} /\ k.phrases[u].phase = "finishing"
      /\ k.phrases[u].pending = (p.capture \/ p.awaits \/ p.job)
      /\ k.phrases[u].timers = p.timers \cap (IF k.phrases[u].pending THEN {"restart"} ELSE {})
      /\ Same(p, k.phrases[u], ConcludedFields)
  BY <1>0, ConcludeIs
<1>3. y = Release(d, p.phase = "recording")
  BY DEF BeginFinish
<1> HIDE DEF k, e, d, y
<1>4. k.contexts = s.contexts /\ k.generation = s.generation
  BY <1>0, <1>2, ChangesRest
<1>5. /\ k.phrases[u].capture = p.capture /\ k.phrases[u].job = p.job /\ ~k.phrases[u].awaits
      /\ k.phrases[u].gen = p.gen
  BY <1>2, FieldsAre DEF Same, ConcludedFields
<1>6. k.phrases[u].timers \subseteq {"restart"} /\ (k.phrases[u].timers # {} => k.phrases[u].pending)
      /\ k.phrases[u].pending = (p.capture \/ p.job)
      /\ ("restart" \in p.timers /\ k.phrases[u].pending => "restart" \in k.phrases[u].timers)
  BY <1>2
<1>7. Half(k, u) /\ u \in k.contexts \ k.items
  BY <1>0, <1>2, <1>4, <1>5, <1>6 DEF Half, Alarm
<1>8. /\ Mend(k, e, u)
      /\ ~(p.capture /\ Current(k, u)) => e = k
      /\ p.capture /\ Current(k, u) => Wake(e, u) /\ ~Jobless(e, u)
      /\ p.capture /\ Current(k, u) /\ "restart" \in k.phrases[u].timers =>
         e.phrases[u].timers = k.phrases[u].timers /\ e.phrases[u].awaits = k.phrases[u].awaits
  BY <1>1, <1>5, <1>7, EnsureClosedMend DEF Mend, e
<1>9. Mend(s, e, u)
  BY <1>1, <1>8, MendAfter
<1>10. Full(e, d) /\ Lamp(d) /\ Handset(e, d) /\ Typed(d)
  BY <1>9, DimFull DEF Mend, Handset, d
<1>11. Full(d, y) /\ Lamp(y) /\ Handset(d, y)
  BY <1>3, <1>10, ReleaseFull, ReleaseLamp
<1>12. Handset(e, y) /\ Full(e, y)
  BY <1>9, <1>10, <1>11, HandsetTrans, FullTrans, FullTyped DEF Mend
<1>13. Mend(s, y, u)
  BY <1>9, <1>12, MendThen
<1>14. y.phrases = e.phrases /\ y.items = e.items /\ y.contexts = e.contexts /\ y.generation = e.generation
  BY <1>12, HandsetRest
<1>15. u \in y.contexts \ y.items
  <2>1. Ebb(k, e)
    BY <1>8 DEF Mend
  <2> QED
    BY <1>7, <1>14, <2>1, EbbRest
<1>16. Wake(e, u) => Wake(y, u)
  BY <1>0, <1>9, <1>12 DEF Mend, Full, Whole, Wakes
<1>17. CASE p.capture /\ Current(k, u)
  <2>1. Wake(y, u) /\ ~Jobless(y, u)
    BY <1>8, <1>14, <1>16, <1>17 DEF Jobless
  <2>2. "restart" \in p.timers => y.phrases[u].timers \subseteq {"restart"} /\ ~y.phrases[u].awaits
    BY <1>5, <1>6, <1>8, <1>14, <1>17
  <2> QED
    BY <1>11, <1>13, <1>15, <2>1, <2>2 DEF y
<1>18. CASE ~(p.capture /\ Current(k, u))
  <2>1. y.phrases = k.phrases /\ e = k
    BY <1>8, <1>14, <1>18
  <2>2. Jobless(y, u) => y.phrases[u].pending /\ ~y.phrases[u].awaits
    BY <1>5, <1>6, <2>1 DEF Jobless
  <2>3. "restart" \in p.timers => y.phrases[u].timers \subseteq {"restart"} /\ ~y.phrases[u].awaits
    BY <1>5, <1>6, <2>1
  <2>4. Wake(k, u) \/ (Jobless(k, u) /\ "restart" \notin p.timers)
    <3>1. Wake(k, u) \/ ~(k.phrases[u].pending /\ Current(k, u) => Alarm(k, u) # {})
      BY <1>0, <1>1, <1>7, HalfWakes DEF Mend
    <3> QED
      BY <1>5, <1>6, <1>18, <3>1 DEF Jobless, Alarm
  <2>5. Jobless(k, u) => p.job /\ ~p.capture
    BY <1>5 DEF Jobless
  <2>6. Jobless(k, u) = Jobless(y, u)
    BY <2>1 DEF Jobless
  <2> QED
    BY <1>11, <1>13, <1>15, <1>16, <2>1, <2>2, <2>3, <2>4, <2>5, <2>6 DEF y
<1> QED
  BY <1>17, <1>18

\* The lamp is right once the outcome is shown
LEMMA EndFinishLamp == ASSUME NEW s, Typed(s), NEW u \in s.contexts \ s.items, Lamp(s) PROVE Lamp(EndFinish(s, u))
<1> DEFINE a == Announce(s, u)
           y == EndFinish(s, u)
<1>0. u \in Nums
  BY TypedFacts
<1>1. Changes(s, a, u, {"timers", "outcome"}) /\ a.phrases[u].timers = s.phrases[u].timers \cup {"done"}
  BY <1>0, AnnounceIs
<1>2. Handset(a, y) /\ y \in {a, HotkeyCancel(HotkeyDone(a))}
  BY EndFinishFull DEF EndFinish
<1> HIDE DEF a, y
<1>3. HotkeyCancel(HotkeyDone(a)).indicator = a.indicator
  BY FieldsAre DEF HotkeyCancel, HotkeyDone, SetHotkey, Defer
<1>4. y.indicator = s.indicator
  <2>1. a.indicator = s.indicator
    BY <1>0, <1>1, ChangesRest DEF Changes
  <2> QED
    BY <1>2, <1>3, <2>1
<1>5. ASSUME NEW v \in Nums, Burns(s, v) PROVE Burns(a, v)
  <2>1. CASE v = u
    <3>1. a.phrases[u].capture = s.phrases[u].capture /\ a.phrases[u].gen = s.phrases[u].gen /\ a.items = s.items
      BY <1>1, FieldsAre DEF Changes, Same
    <3>2. a.contexts = s.contexts /\ a.generation = s.generation
      BY <1>0, <1>1, ChangesRest DEF Changes
    <3> QED
      BY <1>1, <1>5, <2>1, <3>1, <3>2 DEF Burns, Alarm, Current
  <2>2. CASE v # u
    BY <1>0, <1>1, <1>5, <2>2, LocalOthers DEF Changes
  <2> QED
    BY <2>1, <2>2
<1>6. \A v \in Nums : Burns(a, v) => Burns(y, v)
  BY <1>2, HandsetRest, AlikePhrases
<1>7. Lamp(y)
  BY <1>4, <1>5, <1>6 DEF Lamp
<1> QED
  BY <1>7 DEF y

\* After EndFinish: only the timer "done" and the outcome
LEMMA EndFinishPhrase == ASSUME NEW s, Typed(s), NEW u \in s.contexts \ s.items
  PROVE LET y == EndFinish(s, u) IN
    /\ y.phrases[u].timers = s.phrases[u].timers \cup {"done"}
    /\ y.phrases[u].awaits = s.phrases[u].awaits /\ y.items = s.items
<1> DEFINE a == Announce(s, u)
           y == EndFinish(s, u)
<1>0. u \in Nums
  BY TypedFacts
<1>1. Changes(s, a, u, {"timers", "outcome"}) /\ a.phrases[u].timers = s.phrases[u].timers \cup {"done"}
  BY <1>0, AnnounceIs
<1>2. Handset(a, y)
  BY EndFinishFull
<1> HIDE DEF a, y
<1>3. y.phrases = a.phrases /\ y.items = a.items
  BY <1>2, HandsetRest
<1>4. a.phrases[u].awaits = s.phrases[u].awaits /\ a.items = s.items
  BY <1>1, FieldsAre DEF Changes, Same
<1> QED
  BY <1>1, <1>3, <1>4 DEF y

\* _finish
LEMMA FinishMend ==
  ASSUME NEW s, Typed(s), NEW u \in Ids, GoodBut(s, u), u \in s.items, s.phrases[u].gen > 0, ~s.phrases[u].awaits,
         ~s.phrases[u].job \/ s.phrases[u].capture \/ "restart" \in s.phrases[u].timers
  PROVE LET y == Finish(s, u) IN
    /\ Mend(s, y, u) /\ u \in y.contexts \ y.items /\ Lamp(y) /\ Wake(y, u)
    /\ "restart" \in s.phrases[u].timers =>
         y.phrases[u].timers \subseteq {"restart", "done"} /\ ~y.phrases[u].awaits
<1> DEFINE b == BeginFinish(s, u)
           y == EndFinish(b, u)
<1>0. u \in Nums
  BY DEF Ids, Nums
<1>1. /\ Mend(s, b, u) /\ u \in b.contexts \ b.items /\ Lamp(b) /\ Wake(b, u)
      /\ "restart" \in s.phrases[u].timers =>
         b.phrases[u].timers \subseteq {"restart"} /\ ~b.phrases[u].awaits
  BY BeginFinishMend
<1> HIDE DEF b, y
<1>2. Full(b, y) /\ Lamp(y)
  BY <1>1, EndFinishFull, EndFinishLamp DEF Mend, y
<1>3. Mend(s, y, u) /\ Wake(y, u)
  BY <1>0, <1>1, <1>2, MendThen DEF Full, Whole, Wakes, Mend
<1>4. y.phrases[u].timers = b.phrases[u].timers \cup {"done"} /\ y.phrases[u].awaits = b.phrases[u].awaits /\ y.items = b.items
  BY <1>1, EndFinishPhrase DEF Mend, y
<1>5. y.contexts = b.contexts
  BY <1>2, FullRest
<1>6. "restart" \in s.phrases[u].timers => y.phrases[u].timers \subseteq {"restart", "done"} /\ ~y.phrases[u].awaits
  BY <1>1, <1>4
<1> QED
  BY <1>1, <1>2, <1>3, <1>4, <1>5, <1>6 DEF Finish, b, y

\* The job of a failed phrase is taken back
LEMMA TakeJobBackMend ==
  ASSUME NEW s, Typed(s), Good(s), NEW u \in Ids, u \in s.contexts \ s.items,
         Wake(s, u) \/ Jobless(s, u), Jobless(s, u) => s.phrases[u].pending /\ ~s.phrases[u].awaits
  PROVE LET y == TakeJobBack(s, u) IN
    Mend(s, y, u) /\ Wake(y, u) /\ u \in y.contexts \ y.items /\ ((\A v \in Nums \ {u} : Wake(s, v)) /\ Lamp(s) => Lamp(y))
<1> DEFINE l == MadeAlarmed(s, u)
           y == TakeJobBack(s, u)
<1>0. u \in Nums
  BY DEF Ids, Nums
<1>1. CASE ~Jobless(s, u)
  <2>1. y = s
    BY <1>1 DEF TakeJobBack, Jobless
  <2>2. Mend(s, s, u)
    BY EbbRefl DEF Mend
  <2> QED
    BY <1>1, <2>1, <2>2
<1>2. CASE Jobless(s, u)
  <2>1. y = SendCancel(l, u)
    BY <1>2 DEF TakeJobBack, Jobless, MadeAlarmed, MadeOwing, With
  <2>2. /\ Mend(s, l, u) /\ Wake(l, u) /\ l.items = s.items /\ l.contexts = s.contexts /\ l.indicator = s.indicator
        /\ \A v \in Nums : Burns(s, v) => Burns(l, v)
    BY <1>2, Alarmed
  <2> HIDE DEF l, y
  <2>3. Full(l, y)
    BY <2>1, <2>2, SendCancelFull DEF Mend
  <2>4. Mend(s, y, u)
    BY <2>2, <2>3, MendThen
  <2>5. Wake(y, u)
    BY <1>0, <2>2, <2>3 DEF Mend, Full, Whole, Wakes
  <2>6. u \in y.contexts \ y.items
    BY <2>2, <2>3, FullRest
  <2>7. ASSUME \A v \in Nums \ {u} : Wake(s, v), Lamp(s) PROVE Lamp(y)
    <3>1. Lamp(l)
      BY <2>2, <2>7 DEF Lamp
    <3>2. Awake(l)
      BY <2>2, <2>7 DEF Mend, Awake
    <3> QED
      BY <2>2, <2>3, <3>1, <3>2 DEF Mend, Full, Whole
  <2> QED
    BY <2>4, <2>5, <2>6, <2>7 DEF y
<1> QED
  BY <1>1, <1>2

\* _fail_recognition, of a phrase under way
LEMMA FailRecognitionMend ==
  ASSUME NEW s, Typed(s), NEW u \in Ids, GoodBut(s, u), u \in s.items, s.phrases[u].gen > 0, ~s.phrases[u].awaits,
         NEW cancelWorker \in BOOLEAN
  PROVE LET y == FailRecognition(s, u, cancelWorker) IN
    Mend(s, y, u) /\ Wake(y, u) /\ u \in y.contexts \ y.items /\ ((\A v \in Nums \ {u} : Wake(s, v)) => Lamp(y))
<1> DEFINE p == s.phrases[u]
           job == cancelWorker /\ p.phase = "processing"
           q == [p EXCEPT !.job = job]
           t == With(s, u, q)
           b == BeginFinish(t, u)
           j == TakeJobBack(b, u)
           y == EndFinish(j, u)
<1>0. u \in Nums /\ p \in PhraseType
  BY PhraseTyped DEF Ids, Nums
<1>1. FailRecognition(s, u, cancelWorker) = y
  BY DEF FailRecognition, With
<1>2. job \in BOOLEAN
  OBVIOUS
<1> HIDE DEF job
<1>3. q \in PhraseType /\ Same(p, q, {"job"})
  BY <1>0, <1>2, FieldsAre DEF PhraseType, Same
<1> HIDE DEF q
<1>4. Changes(s, t, u, {"job"}) /\ t.phrases[u] = q
  BY <1>0, <1>3, WithChanges
<1> HIDE DEF t, b, j, y
<1>5. PhraseOnly(s, t, u) /\ t.items = s.items /\ t.contexts = s.contexts /\ t.generation = s.generation
  BY <1>0, <1>4, ChangesRest DEF Changes
<1>6. /\ t.phrases[u].phase = p.phase /\ t.phrases[u].gen = p.gen /\ t.phrases[u].pending = p.pending
      /\ t.phrases[u].capture = p.capture /\ t.phrases[u].timers = p.timers /\ t.phrases[u].waiting = p.waiting
      /\ t.phrases[u].awaits = p.awaits /\ t.phrases[u].delivered = p.delivered /\ t.phrases[u].cancelled = p.cancelled
      /\ t.phrases[u].result = p.result
  BY <1>3, <1>4, FieldsAre DEF Same
<1>7. EbbPhrase(s, t, u)
  BY <1>5, <1>6 DEF EbbPhrase
<1>8. Typed(t) /\ Ebb(s, t) /\ t.source = s.source /\ t.indicator = s.indicator
  BY <1>0, <1>5, <1>7, LocalEbb
<1>9. GoodBut(t, u)
  <2>1. Common(t)
    <3> SUFFICES ASSUME NEW v \in Ids, t.source[v] = "open" PROVE t.phrases[v].capture /\ t.indicator
      BY <1>8, CommonEbb DEF GoodBut
    <3>1. SourceOK(s, v) /\ s.source[v] = "open" /\ v \in Nums
      BY <1>8 DEF GoodBut, Common, Ids, Nums
    <3>2. v # u => t.phrases[v] = s.phrases[v]
      BY <1>5, <3>1 DEF PhraseOnly
    <3> QED
      BY <1>6, <1>8, <3>1, <3>2 DEF SourceOK
  <2>2. \A v \in Nums \ {u} : PhraseOK(t, v)
    BY <1>0, <1>5, LocalOthers DEF GoodBut
  <2> QED
    BY <2>1, <2>2 DEF GoodBut
<1>10. /\ Mend(t, b, u) /\ u \in b.contexts \ b.items /\ Lamp(b)
       /\ Wake(b, u) \/ Jobless(b, u)
       /\ Jobless(b, u) => b.phrases[u].pending /\ ~b.phrases[u].awaits
  BY <1>5, <1>6, <1>8, <1>9, BeginFinishMend DEF b
<1>11. Mend(b, j, u) /\ Wake(j, u) /\ u \in j.contexts \ j.items /\ ((\A v \in Nums \ {u} : Wake(b, v)) /\ Lamp(b) => Lamp(j))
  BY <1>10, TakeJobBackMend DEF Mend, j
<1>12. Full(j, y) /\ (Lamp(j) => Lamp(y))
  BY <1>11, EndFinishFull, EndFinishLamp DEF Mend, y
<1>13. Mend(t, y, u)
  BY <1>8, <1>10, <1>11, <1>12, MendAfter, MendThen
<1>14. Mend(s, y, u)
  <2>1. Ebb(s, y)
    BY <1>8, <1>13, EbbTrans DEF Mend
  <2>2. \A v \in Nums \ {u} : (Wake(s, v) => Wake(t, v)) /\ (Glow(s, v) => Glow(t, v))
    BY <1>0, <1>5, LocalOthers
  <2> QED
    BY <1>13, <2>1, <2>2 DEF Mend
<1>15. Wake(y, u)
  BY <1>0, <1>11, <1>12 DEF Mend, Full, Whole, Wakes
<1>16. u \in y.contexts \ y.items
  <2>1. y.items = j.items
    BY <1>11, EndFinishPhrase DEF Mend, y
  <2> QED
    BY <1>11, <1>12, <2>1, FullRest
<1>17. ASSUME \A v \in Nums \ {u} : Wake(s, v) PROVE Lamp(y)
  <2>1. \A v \in Nums \ {u} : Wake(t, v)
    BY <1>0, <1>5, <1>17, LocalOthers
  <2>2. \A v \in Nums \ {u} : Wake(b, v)
    BY <1>10, <2>1 DEF Mend
  <2> QED
    BY <1>10, <1>11, <1>12, <2>2
<1> QED
  BY <1>1, <1>14, <1>15, <1>16, <1>17

LEMMA ItemFacts == ASSUME NEW s, Typed(s), Good(s), NEW u \in s.items
  PROVE u \in Nums /\ u \in Ids /\ u # 0 /\ u \in s.contexts /\ s.phrases[u].gen > 0 /\ ~s.phrases[u].awaits /\ GoodBut(s, u)
        /\ s.phrases[u].phase \in Busy
<1>1. u \in Nums /\ u \in s.contexts
  BY TypedFacts
<1>2. PhraseOK(s, u)
  BY <1>1 DEF Good
<1>3. u # 0 /\ s.phrases[u].gen > 0 /\ ~s.phrases[u].awaits /\ s.phrases[u].phase \in Busy
  BY <1>1, <1>2 DEF PhraseOK
<1>4. u \in Ids
  BY <1>1, <1>3, LimitAssumption DEF Nums, Ids
<1> QED
  BY <1>1, <1>3, <1>4 DEF Good, GoodBut

\* A phrase has ended if it is not in the queue
LEMMA EndedFacts == ASSUME NEW s, Typed(s), Good(s), NEW u \in s.contexts
  PROVE /\ Ended(s, u) <=> u \notin s.items
        /\ u \in Nums
        /\ \A phase \in Busy : s.phrases[u].phase = phase => u \in s.items
<1>1. u \in Nums /\ s.phrases[u] \in PhraseType
  BY TypedFacts, PhraseTyped
<1>2. PhraseOK(s, u) /\ s.phrases[u].phase \in Phases
  BY <1>1 DEF Good, PhraseType
<1> QED
  BY <1>1, <1>2 DEF Ended, PhraseOK, Phases, Busy

-----------------------------------------------------------------------------
(* Fine: a handler that leads from a state in which all is well to another.                          *)

Glowing(s) == \A u \in Nums : Glow(s, u)
Well(s) == Typed(s) /\ Good(s) /\ Awake(s) /\ Glowing(s) /\ Lamp(s)
Fine(s, y) == Well(y) /\ Ebb(s, y)

LEMMA FullFine == ASSUME NEW s, NEW y, Well(s), Full(s, y) PROVE Fine(s, y)
BY DEF Well, Fine, Full, Sound, Whole, Wakes, Glows, Awake, Glowing

LEMMA MendFine ==
  ASSUME NEW s, NEW y, NEW u \in Nums, \A v \in Nums \ {u} : Wake(s, v) /\ Glow(s, v), Mend(s, y, u), Wake(y, u), Glow(y, u), Lamp(y)
  PROVE Fine(s, y)
BY DEF Mend, Well, Fine, Awake, Glowing

LEMMA FineTrans == ASSUME NEW x, NEW y, NEW z, Typed(x), Fine(x, y), Fine(y, z) PROVE Fine(x, z)
BY EbbTrans DEF Fine, Well

LEMMA FineRefl == ASSUME NEW x, Well(x) PROVE Fine(x, x)
BY EbbRefl DEF Fine, Well

LEMMA OnceUnder ==
  ASSUME NEW s, NEW t, NEW u \in Nums, PhraseOnly(s, t, u), t.items = s.items, NEW v \in Ids, OnceOK(s, v),
         v # u \/ (Closed(t, u) => Closed(s, u))
  PROVE OnceOK(t, v)
<1>0. v \in Nums
  BY DEF Ids, Nums
<1>1. t.waits = s.waits /\ t.deferred = s.deferred
  BY ChangesRest
<1>2. Heard(t, v) = Heard(s, v)
  BY <1>1 DEF Heard
<1>3. v # u => t.phrases[v] = s.phrases[v]
  BY <1>0 DEF PhraseOnly
<1>4. Closed(t, v) => Closed(s, v)
  BY <1>3 DEF Closed, Records
<1>5. t.phrases[v].gen = s.phrases[v].gen
  BY <1>3 DEF PhraseOnly
<1> QED
  BY <1>1, <1>2, <1>4, <1>5 DEF OnceOK

\* A phrase that ends may be cancelled first
LEMMA MendUnder ==
  ASSUME NEW s, NEW t, NEW y, Typed(s), NEW u \in Nums, PhraseOnly(s, t, u), t.items = s.items,
         t.phrases[u].capture => s.phrases[u].capture,
         t.phrases[u].pending => s.phrases[u].pending,
         t.phrases[u].cancelled, u \notin y.items, Mend(t, y, u)
  PROVE Mend(s, y, u)
<1>0. t.phrases[u].gen = s.phrases[u].gen
  BY DEF PhraseOnly
<1>1. /\ t.contexts = s.contexts /\ t.stack = s.stack /\ t.pasted = s.pasted /\ t.generation = s.generation
      /\ t.link = s.link /\ t.source = s.source /\ t.deferred = s.deferred /\ t.waits = s.waits
  BY ChangesRest
<1>5. Asks(s, y)
  <2>9. \A v \in Ids : "record.cancel" \in y.waits[v] => "record.cancel" \in s.waits[v] \/ s.phrases[v].gen # 0
    <3>1. \A v \in Nums : t.phrases[v].gen = s.phrases[v].gen
      BY <1>0 DEF PhraseOnly
    <3> QED
      BY <1>1, <3>1 DEF Mend, Ebb, Asks, Ids, Nums
  <2> SUFFICES ASSUME NEW v \in Ids, "recognize" \in y.waits[v], "recognize" \notin s.waits[v]
               PROVE Unasked(s, v) /\ ~Records(y, v)
    BY <2>9 DEF Asks
  <2>1. v \in Nums /\ Unasked(t, v) /\ ~Records(y, v)
    BY <1>1 DEF Mend, Ebb, Asks, Ids, Nums
  <2>2. v # u
    BY <2>1 DEF Unasked
  <2>3. t.phrases[v] = s.phrases[v]
    BY <2>1, <2>2 DEF PhraseOnly
  <2> QED
    BY <1>1, <2>1, <2>3 DEF Unasked, Heard
<1>2. Steady(s, y) /\ News(s, y) /\ y.items \subseteq s.items
  BY <1>1 DEF Mend, Ebb, Steady, News
<1>3. ASSUME NEW v \in Nums PROVE EbbPhrase(s, y, v)
  <2>1. EbbPhrase(t, y, v)
    BY DEF Mend, Ebb
  <2>2. CASE v = u
    BY <1>0, <1>1, <2>1, <2>2 DEF EbbPhrase, Current
  <2>3. CASE v # u
    <3>1. t.phrases[v] = s.phrases[v] /\ Suspended(t) = Suspended(s)
      BY <1>1, <2>3 DEF PhraseOnly, Suspended
    <3> QED
      BY <1>1, <2>1, <3>1 DEF EbbPhrase, Current
  <2> QED
    BY <2>2, <2>3
<1>4. \A v \in Nums \ {u} : (Wake(s, v) => Wake(t, v)) /\ (Glow(s, v) => Glow(t, v))
  BY LocalOthers
<1> QED
  BY <1>2, <1>3, <1>4, <1>5 DEF Mend, Ebb

LEMMA IdleFull ==
  ASSUME NEW s, Typed(s), Good(s), NEW u \in s.contexts \ s.items
  PROVE LET y == Phase(s, u, "idle") IN Full(s, y) /\ (Lamp(s) => Lamp(y)) /\ y.items = s.items
<1> DEFINE y == Phase(s, u, "idle")
<1>0. u \in Nums /\ PhraseOK(s, u) /\ s.phrases[u] \in PhraseType
  BY TypedFacts, PhraseTyped DEF Good
<1>1. /\ PhraseOnly(s, y, u) /\ y.phrases[u].phase = "idle" /\ y.items = s.items \ {u}
      /\ Same(s.phrases[u], y.phrases[u], {"phase"})
  BY PhaseIs DEF Over, Phases
<1> HIDE DEF y
<1>2. y.items = s.items /\ y.contexts = s.contexts /\ y.generation = s.generation /\ y.indicator = s.indicator
  BY <1>0, <1>1, ChangesRest
<1>3. /\ y.phrases[u].gen = s.phrases[u].gen /\ y.phrases[u].timers = s.phrases[u].timers
      /\ y.phrases[u].cancelled = s.phrases[u].cancelled /\ y.phrases[u].pending = s.phrases[u].pending
      /\ y.phrases[u].job = s.phrases[u].job /\ y.phrases[u].capture = s.phrases[u].capture
      /\ y.phrases[u].shown = s.phrases[u].shown /\ y.phrases[u].awaits = s.phrases[u].awaits
      /\ y.phrases[u].result = s.phrases[u].result
  BY <1>1, FieldsAre DEF Same
<1>4. EbbPhrase(s, y, u)
  BY <1>2, <1>3 DEF EbbPhrase
<1>5. PhraseOK(y, u)
  BY <1>0, <1>1, <1>2, <1>3 DEF PhraseOK, Current, Busy
<1>6. (Wake(s, u) => Wake(y, u)) /\ Glow(y, u) /\ (Burns(s, u) => Burns(y, u))
  BY <1>1, <1>2, <1>3 DEF Wake, Glow, Burns, Current, Alarm
<1>7. Full(s, y)
  BY <1>0, <1>1, <1>3, <1>4, <1>5, <1>6, LocalFull
<1>8. Lamp(s) => Lamp(y)
  BY <1>0, <1>1, <1>2, <1>6, LocalOthers DEF Lamp
<1> QED
  BY <1>2, <1>7, <1>8 DEF y

\* The key follows a cancellation
LEMMA WithdrawFull == ASSUME NEW s, Typed(s), NEW u PROVE Full(s, Withdraw(s, u))
<1>1. Withdraw(s, u) \in {s, HotkeyCancel(s), ReturnHotkey(s)}
  BY DEF Withdraw
<1> QED
  BY <1>1, FullRefl, HotkeyCancelFull, ReturnHotkeyFull

\* _cancel_one, where the worker has to be asked
LEMMA AskCancelFull ==
  ASSUME NEW s, Typed(s), Good(s), NEW u \in s.items, ~s.phrases[u].delivered, ~Suspended(s), s.phrases[u].result = "none"
  PROVE Full(s, AskCancel(s, u))
<1> DEFINE p == s.phrases[u]
           job == (p.phase = "processing")
           q == [p EXCEPT !.cancelled = TRUE, !.pending = TRUE, !.job = job, !.tail = FALSE, !.timers = {"cancel"}]
           t == With(s, u, q)
           c == SendCancel(t, u)
           w == Withdraw(c, u)
           y == Dim(w)
<1>0. u \in Nums /\ u \in Ids /\ p \in PhraseType /\ u # 0 /\ u \in s.contexts /\ ~p.awaits /\ PhraseOK(s, u)
  BY ItemFacts, PhraseTyped DEF Good
<1>1. AskCancel(s, u) = y
  BY DEF AskCancel, With
<1>2. job \in BOOLEAN
  OBVIOUS
<1> HIDE DEF job
<1>3. q \in PhraseType /\ Same(p, q, {"cancelled", "pending", "job", "tail", "timers"})
      /\ q.cancelled /\ q.pending /\ q.timers = {"cancel"}
  BY <1>0, <1>2, FieldsAre DEF PhraseType, Same, Timers
<1> HIDE DEF q
<1>4. Changes(s, t, u, {"cancelled", "pending", "job", "tail", "timers"}) /\ t.phrases[u] = q
  BY <1>0, <1>3, WithChanges
<1> HIDE DEF t, c, w, y
<1>5. PhraseOnly(s, t, u) /\ t.items = s.items /\ t.contexts = s.contexts /\ t.generation = s.generation
  BY <1>0, <1>4, ChangesRest DEF Changes
<1>6. /\ t.phrases[u].phase = p.phase /\ t.phrases[u].gen = p.gen
      /\ t.phrases[u].capture = p.capture /\ t.phrases[u].waiting = p.waiting /\ t.phrases[u].shown = p.shown
      /\ t.phrases[u].awaits = p.awaits /\ t.phrases[u].delivered = p.delivered /\ t.phrases[u].result = p.result
      /\ t.phrases[u].cancelled /\ t.phrases[u].pending /\ t.phrases[u].timers = {"cancel"}
  BY <1>3, <1>4, FieldsAre DEF Same
<1>7. EbbPhrase(s, t, u)
  BY <1>5, <1>6 DEF EbbPhrase
<1>8. PhraseOK(t, u)
  BY <1>0, <1>5, <1>6 DEF PhraseOK, Current
<1>9. Wake(t, u) /\ (Glow(s, u) => Glow(t, u)) /\ (Burns(s, u) => Burns(t, u))
  BY <1>0, <1>5, <1>6 DEF Wake, Glow, Burns, Current, Alarm
<1>10. Full(s, t)
  BY <1>0, <1>5, <1>6, <1>7, <1>8, <1>9, LocalFull
<1>11. Full(s, c)
  <2>1. Typed(t) /\ Good(t)
    BY <1>10, FullGood
  <2>2. Full(t, c)
    BY <1>0, <1>5, <2>1, SendCancelFull DEF c
  <2> QED
    BY <1>10, <2>1, <2>2, FullTrans, FullTyped
<1>12. Full(s, w)
  BY <1>11, WithdrawFull, FullTrans, FullTyped DEF w
<1>13. Full(s, y)
  BY <1>12, DimFull, FullTrans, FullTyped DEF y
<1> QED
  BY <1>1, <1>13

\* _cancel_one
LEMMA CancelOneFine ==
  ASSUME NEW s, Well(s), NEW u \in s.contexts, ~Suspended(s)
  PROVE Fine(s, CancelOne(s, u))
<1> DEFINE p == s.phrases[u]
           y == CancelOne(s, u)
<1>0. u \in Nums /\ Typed(s) /\ Good(s) /\ Wake(s, u) /\ p \in PhraseType
  BY TypedFacts, PhraseTyped DEF Well, Awake
<1>1. CASE p.delivered \/ Ended(s, u) \/ p.cancelled
  <2>1. y = s
    BY <1>1 DEF CancelOne
  <2> QED
    BY <2>1, FineRefl
<1>2. CASE ~(p.delivered \/ Ended(s, u) \/ p.cancelled) /\ p.result = "none"
  <2>1. y = AskCancel(s, u) /\ u \in s.items
    BY <1>0, <1>2, EndedFacts DEF CancelOne
  <2> QED
    BY <1>0, <1>2, <2>1, AskCancelFull, FullFine
<1>3. CASE ~(p.delivered \/ Ended(s, u) \/ p.cancelled) /\ p.result # "none"
  <2> DEFINE q == [p EXCEPT !.cancelled = TRUE, !.result = "none"]
             t == With(s, u, q)
  <2>1. y = Finish(t, u) /\ u \in s.items
    BY <1>0, <1>3, EndedFacts DEF CancelOne, With
  <2>2. q \in PhraseType /\ Same(p, q, {"cancelled", "result"}) /\ q.cancelled
    BY <1>0, FieldsAre DEF PhraseType, Same, Outcomes
  <2> HIDE DEF q
  <2>3. Changes(s, t, u, {"cancelled", "result"}) /\ t.phrases[u] = q
    BY <1>0, <2>2, WithChanges
  <2> HIDE DEF t, y
  <2>4. PhraseOnly(s, t, u) /\ t.items = s.items /\ t.contexts = s.contexts /\ t.generation = s.generation /\ t.source = s.source
        /\ t.indicator = s.indicator
    BY <1>0, <2>3, ChangesRest DEF Changes
  <2>5. /\ t.phrases[u].gen = p.gen /\ t.phrases[u].capture = p.capture /\ t.phrases[u].pending = p.pending
        /\ t.phrases[u].awaits = p.awaits /\ t.phrases[u].job = p.job /\ t.phrases[u].cancelled
    BY <2>2, <2>3, FieldsAre DEF Same
  <2>6. Typed(t)
    BY <1>0, <2>4, PhraseOnlyTyped
  <2>7. GoodBut(t, u)
    <3>1. \A v \in Nums \ {u} : PhraseOK(t, v)
      BY <1>0, <2>4, LocalOthers DEF Good
    <3>2. ASSUME NEW v \in Nums
          PROVE t.phrases[v].gen = s.phrases[v].gen /\ t.phrases[v].capture = s.phrases[v].capture /\ t.phrases[v].pending = s.phrases[v].pending
      BY <2>4, <2>5 DEF PhraseOnly
    <3>3. \A v \in Nums : Current(t, v) = Current(s, v)
      BY <2>4, <3>2 DEF Current
    <3>4. t.deferred = s.deferred /\ t.link = s.link
      BY <1>0, <2>4, ChangesRest
    <3>5. \A v \in Ids : SourceOK(t, v)
      <4> SUFFICES ASSUME NEW v \in Ids PROVE SourceOK(t, v)
        OBVIOUS
      <4>1. SourceOK(s, v) /\ v \in Nums
        BY <1>0 DEF Good, Common, Ids, Nums
      <4> QED
        BY <2>4, <3>2, <3>3, <3>4, <4>1 DEF SourceOK
    <3>6. OneOpen(t)
      <4>1. Open(t) \subseteq Open(s)
        BY <1>0, <2>4, <3>2, TypedFacts DEF Open
      <4> QED
        BY <1>0, <4>1 DEF OneOpen, Good, Common
    <3>7. Together(t)
      BY <1>0, <2>4, <3>2, <3>3, TypedFacts DEF Together, Good, Common
    <3>8. EventsOK(t)
      BY <1>0, <2>4, <3>4 DEF EventsOK, EventOK, Good, Common
    <3>9. ASSUME NEW v \in Ids PROVE OnceOK(t, v)
      <4>1. Closed(s, u)
        BY <1>3, <2>1 DEF Closed
      <4> QED
        BY <1>0, <2>4, <4>1, OnceUnder DEF Good, Common, Once
    <3> QED
      BY <3>1, <3>5, <3>6, <3>7, <3>8, <3>9 DEF GoodBut, Common, Once
  <2>8. u \in Ids /\ p.gen > 0 /\ ~p.awaits /\ ~p.job
    BY <1>0, <1>3, <2>1, ItemFacts DEF Wake
  <2>9. Mend(t, y, u) /\ u \in y.contexts \ y.items /\ Lamp(y) /\ Wake(y, u)
    BY <2>1, <2>4, <2>5, <2>6, <2>7, <2>8, FinishMend
  <2>10. Mend(s, y, u)
    BY <1>0, <2>4, <2>5, <2>9, MendUnder
  <2>11. Glow(y, u)
    BY <1>0, <2>9, NoItemGlows DEF Mend
  <2>12. \A v \in Nums \ {u} : Wake(s, v) /\ Glow(s, v)
    BY DEF Well, Awake, Glowing
  <2>13. Fine(s, y)
    BY <1>0, <2>9, <2>10, <2>11, <2>12, MendFine
  <2> QED
    BY <2>13 DEF y
<1> QED
  BY <1>1, <1>2, <1>3

LEMMA GoodUnder ==
  ASSUME NEW s, NEW t, Typed(s), NEW u \in Nums, PhraseOnly(s, t, u), t.items = s.items, GoodBut(s, u),
         t.phrases[u].capture => s.phrases[u].capture,
         t.phrases[u].pending => s.phrases[u].pending,
         u \in Ids /\ s.source[u] = "open" /\ s.phrases[u].capture => t.phrases[u].capture,
         u \in Ids => OnceOK(t, u)
  PROVE Typed(t) /\ GoodBut(t, u)
<1>0. Typed(t)
  BY PhraseOnlyTyped
<1>a. /\ t.contexts = s.contexts /\ t.generation = s.generation /\ t.source = s.source
      /\ t.indicator = s.indicator /\ t.deferred = s.deferred /\ t.link = s.link
  BY ChangesRest
<1>1. \A v \in Nums \ {u} : PhraseOK(t, v)
  BY LocalOthers DEF GoodBut
<1>2. ASSUME NEW v \in Nums
      PROVE /\ t.phrases[v].gen = s.phrases[v].gen /\ (t.phrases[v].capture => s.phrases[v].capture)
            /\ t.phrases[v].pending => s.phrases[v].pending
            /\ v \in Ids /\ s.source[v] = "open" /\ s.phrases[v].capture => t.phrases[v].capture
  BY DEF PhraseOnly
<1>3. \A v \in Nums : Current(t, v) = Current(s, v)
  BY <1>a, <1>2 DEF Current
<1>4. \A v \in Ids : SourceOK(t, v)
  <2> SUFFICES ASSUME NEW v \in Ids PROVE SourceOK(t, v)
    OBVIOUS
  <2>1. SourceOK(s, v) /\ v \in Nums
    BY DEF GoodBut, Common, Ids, Nums
  <2> QED
    BY <1>a, <1>2, <1>3, <2>1 DEF SourceOK
<1>5. OneOpen(t)
  <2>1. Open(t) \subseteq Open(s)
    BY <1>a, <1>2, TypedFacts DEF Open
  <2> QED
    BY <2>1 DEF OneOpen, GoodBut, Common
<1>6. Together(t)
  BY <1>a, <1>2, <1>3, TypedFacts DEF Together, GoodBut, Common
<1>7. EventsOK(t)
  BY <1>a DEF EventsOK, EventOK, GoodBut, Common
<1>8. Once(t)
  BY OnceUnder DEF GoodBut, Common, Once
<1> QED
  BY <1>0, <1>1, <1>4, <1>5, <1>6, <1>7, <1>8 DEF GoodBut, Common

\* The worker has no capture of u (_cancelled)
Shut(s, u) == u \in Ids => s.source[u] # "open"

\* _cancelled
LEMMA CancelledMend ==
  ASSUME NEW s, Typed(s), Good(s), NEW u \in s.contexts, Shut(s, u)
  PROVE LET y == Cancelled(s, u) IN Mend(s, y, u) /\ Wake(y, u) /\ Glow(y, u) /\ Lamp(y)
<1> DEFINE p == s.phrases[u]
           q == [p EXCEPT !.job = FALSE, !.outcome = FALSE, !.capture = FALSE, !.awaits = FALSE, !.pending = FALSE]
           t == With(s, u, q)
           r == [q EXCEPT !.cancelled = TRUE]
           x == With(t, u, r)
           k == KeepTail(t, u, p.outcome)
           d == Dim(k)
           i == Phase(d, u, "idle")
           y == Cancelled(s, u)
<1>0. u \in Nums /\ p \in PhraseType /\ PhraseOK(s, u)
  BY TypedFacts, PhraseTyped DEF Good
<1>1. q \in PhraseType /\ Same(p, q, {"job", "outcome", "capture", "awaits", "pending"})
      /\ ~q.job /\ ~q.capture /\ ~q.awaits /\ ~q.pending
  BY <1>0, FieldsAre DEF PhraseType, Same
<1> HIDE DEF q
<1>2. Changes(s, t, u, {"job", "outcome", "capture", "awaits", "pending"}) /\ t.phrases[u] = q
  BY <1>0, <1>1, WithChanges
<1>a. t = [s EXCEPT !.phrases[u].job = FALSE, !.phrases[u].outcome = FALSE,
                     !.phrases[u].capture = FALSE, !.phrases[u].awaits = FALSE,
                     !.phrases[u].pending = FALSE]
  BY <1>0 DEF With, Typed, TypedQueue, PhraseType, q
<1>b. [t EXCEPT !.phrases[u].cancelled = TRUE] = x
  BY <1>2 DEF With
<1>c. y = IF ~Ended(s, u) THEN Finish(x, u) ELSE IF p.outcome THEN d ELSE i
  BY <1>a, <1>b DEF Cancelled
<1> HIDE DEF t, r, x, k, d, i, y
<1>3. PhraseOnly(s, t, u) /\ t.items = s.items /\ t.contexts = s.contexts /\ t.generation = s.generation
  BY <1>0, <1>2, ChangesRest DEF Changes
<1>4. /\ t.phrases[u].gen = p.gen /\ ~t.phrases[u].capture /\ ~t.phrases[u].pending /\ ~t.phrases[u].awaits /\ ~t.phrases[u].job
      /\ t.phrases[u].phase = p.phase /\ t.phrases[u].timers = p.timers /\ t.phrases[u].cancelled = p.cancelled
      /\ t.phrases[u].result = p.result /\ t.phrases[u].waiting = p.waiting /\ t.phrases[u].delivered = p.delivered
  BY <1>1, <1>2, FieldsAre DEF Same
<1>5. EbbPhrase(s, t, u)
  BY <1>3, <1>4 DEF EbbPhrase
<1>6. PhraseOK(t, u)
  BY <1>0, <1>3, <1>4 DEF PhraseOK, Current
<1>7. Typed(t) /\ Ebb(s, t)
  BY <1>0, <1>3, <1>5, LocalEbb
<1>8. Good(t)
  BY <1>0, <1>3, <1>4, <1>5, <1>6, LocalGood DEF Good, GoodBut, Shut
<1>9. Mend(s, t, u)
  BY <1>0, <1>3, <1>7, <1>8, LocalOthers DEF Mend
<1>10. CASE ~Ended(s, u)
  <2>1. u \in s.items /\ u \in Ids /\ p.gen > 0
    BY <1>10, EndedFacts, ItemFacts
  <2>2. r \in PhraseType /\ Same(q, r, {"cancelled"}) /\ r.cancelled
    BY <1>1, FieldsAre DEF PhraseType, Same, r
  <2>3. Changes(t, x, u, {"cancelled"}) /\ x.phrases[u] = r
    BY <1>0, <1>2, <1>7, <2>2, WithChanges DEF x
  <2>4. PhraseOnly(t, x, u) /\ x.items = t.items
    BY <2>3 DEF Changes
  <2>5. ~x.phrases[u].capture /\ ~x.phrases[u].pending /\ ~x.phrases[u].awaits /\ ~x.phrases[u].job /\ x.phrases[u].gen = p.gen
        /\ x.phrases[u].cancelled
    BY <1>2, <1>4, <2>2, <2>3, FieldsAre DEF Same
  <2>a. u \in Ids => OnceOK(x, u)
    <3>1. x.phrases[u].phase = t.phrases[u].phase /\ x.phrases[u].gen = t.phrases[u].gen /\ x.phrases[u].result = t.phrases[u].result
      BY <1>2, <2>2, <2>3, FieldsAre DEF Same
    <3>2. Closed(x, u) => Closed(t, u)
      BY <2>4, <3>1 DEF Closed, Records
    <3> QED
      BY <1>0, <1>8, <2>4, <3>2, OnceUnder DEF Good, Common, Once
  <2>6. Typed(x) /\ GoodBut(x, u)
    BY <1>0, <1>4, <1>7, <1>8, <2>4, <2>5, <2>a, GoodUnder DEF Good, GoodBut
  <2>7. y = Finish(x, u)
    BY <1>c, <1>10
  <2>8. Mend(x, y, u) /\ u \in y.contexts \ y.items /\ Lamp(y) /\ Wake(y, u)
    BY <1>3, <2>1, <2>4, <2>5, <2>6, <2>7, FinishMend
  <2>9. Mend(t, y, u)
    BY <1>0, <1>7, <2>4, <2>5, <2>8, MendUnder
  <2>10. Mend(s, y, u)
    BY <1>9, <2>9, MendAfter
  <2>11. Glow(y, u)
    BY <1>0, <2>8, NoItemGlows DEF Mend
  <2> QED
    BY <2>8, <2>10, <2>11 DEF y
<1>11. CASE Ended(s, u)
  <2>1. u \in s.contexts \ s.items
    BY <1>11, EndedFacts
  <2>2. Changes(t, k, u, {"timers"}) /\ k.phrases[u].timers = t.phrases[u].timers \cap (IF p.outcome THEN {"done"} ELSE {})
    BY <1>0, <1>7, KeepIs DEF KeepTail, k
  <2>3. PhraseOnly(t, k, u) /\ k.items = s.items /\ k.contexts = s.contexts /\ k.generation = s.generation
    BY <1>0, <1>3, <2>2, ChangesRest DEF Changes
  <2>4. /\ k.phrases[u].gen = p.gen /\ ~k.phrases[u].capture /\ ~k.phrases[u].pending /\ ~k.phrases[u].awaits
        /\ k.phrases[u].phase = p.phase /\ k.phrases[u].timers \subseteq p.timers \cap {"done"} /\ k.phrases[u].result = p.result
    BY <1>4, <2>2, FieldsAre DEF Changes, Same
  <2>5. EbbPhrase(t, k, u)
    BY <1>3, <1>4, <2>1, <2>3, <2>4 DEF EbbPhrase
  <2>6. PhraseOK(k, u)
    BY <1>0, <2>1, <2>3, <2>4 DEF PhraseOK, Current
  <2>7. Typed(k) /\ Ebb(t, k)
    BY <1>0, <1>7, <2>3, <2>5, LocalEbb
  <2>8. Good(k)
    BY <1>0, <1>4, <1>7, <1>8, <2>3, <2>5, <2>6, LocalGood DEF Good, GoodBut
  <2>9. Mend(t, k, u)
    BY <1>0, <2>3, <2>7, <2>8, LocalOthers DEF Mend
  <2>10. Mend(s, k, u)
    BY <1>9, <2>9, MendAfter
  <2>11. Wake(k, u)
    <3>1. Half(k, u)
      BY <2>4 DEF Half, Alarm
    <3> QED
      BY <1>0, <2>1, <2>3, <2>4, <2>8, <3>1, HalfWakes
  <2>12. Full(k, d) /\ Lamp(d) /\ Handset(k, d) /\ d.items = s.items /\ d.contexts = s.contexts /\ Typed(d) /\ Good(d)
    <3>1. Full(k, d) /\ Lamp(d) /\ Handset(k, d)
      BY <2>7, DimFull DEF d
    <3> QED
      BY <2>3, <2>8, <3>1, HandsetRest, FullGood
  <2>13. Full(d, i) /\ Lamp(i) /\ i.items = s.items
    BY <2>1, <2>12, IdleFull DEF i
  <2>14. y = d \/ y = i
    BY <1>c, <1>11
  <2>15. Full(k, y) /\ Lamp(y) /\ u \notin y.items
    <3>1. Full(k, i)
      BY <2>7, <2>12, <2>13, FullTrans, FullTyped
    <3> QED
      BY <2>1, <2>12, <2>13, <2>14, <3>1
  <2>16. Mend(s, y, u) /\ Wake(y, u)
    BY <1>0, <2>8, <2>10, <2>11, <2>15, MendThen DEF Full, Whole, Wakes
  <2>17. Glow(y, u)
    BY <1>0, <2>15, <2>16, NoItemGlows DEF Mend
  <2> QED
    BY <2>15, <2>16, <2>17 DEF y
<1> QED
  BY <1>10, <1>11

\* _capture_closed
LEMMA CaptureClosedFine ==
  ASSUME NEW s, Well(s), NEW u \in s.contexts, Shut(s, u)
  PROVE Fine(s, CaptureClosed(s, u))
<1> DEFINE p == s.phrases[u]
           q == [p EXCEPT !.capture = FALSE, !.awaits = FALSE]
           t == With(s, u, q)
           settled == p.pending /\ ~p.job
           n == With(t, u, [q EXCEPT !.pending = FALSE])
           k == KeepTail(n, u, p.outcome)
           r == IF settled THEN k ELSE t
           dim == [r EXCEPT !.phrases[u].shown = FALSE, !.phrases[u].outcome = FALSE]
           dark == Dim(dim)
           y == CaptureClosed(s, u)
<1>0. u \in Nums /\ p \in PhraseType /\ PhraseOK(s, u) /\ Typed(s) /\ Good(s) /\ Wake(s, u) /\ Glow(s, u) /\ Lamp(s)
      /\ \A v \in Nums : Wake(s, v) /\ Glow(s, v)
  BY TypedFacts, PhraseTyped DEF Good, Well, Awake, Glowing
<1>1. q \in PhraseType /\ Same(p, q, {"capture", "awaits"}) /\ ~q.capture /\ ~q.awaits
  BY <1>0, FieldsAre DEF PhraseType, Same
<1> HIDE DEF q
<1>2. Changes(s, t, u, {"capture", "awaits"}) /\ t.phrases[u] = q
  BY <1>0, <1>1, WithChanges
<1>a. t = [s EXCEPT !.phrases[u].capture = FALSE, !.phrases[u].awaits = FALSE]
  BY <1>0 DEF With, Typed, TypedQueue, PhraseType, q
<1>b. [t EXCEPT !.phrases[u].pending = FALSE] = n
  BY <1>2 DEF With
<1> HIDE DEF t, n
<1>d. r = IF settled THEN KeepTail([t EXCEPT !.phrases[u].pending = FALSE], u, p.outcome) ELSE t
  BY <1>b
<1> HIDE DEF k, r
<1>c. y = IF settled /\ p.cancelled THEN Cancelled(t, u)
          ELSE IF Open(r) # {} \/ (p.phase = "processing" /\ ~p.shown) THEN r
          ELSE IF ~p.outcome /\ Ended(r, u) THEN Phase(dark, u, "idle")
          ELSE dark
  BY <1>a, <1>d DEF CaptureClosed
<1> HIDE DEF settled, dim, dark, y
<1>3. PhraseOnly(s, t, u) /\ t.items = s.items /\ t.contexts = s.contexts /\ t.generation = s.generation
      /\ t.indicator = s.indicator /\ t.source = s.source
  BY <1>0, <1>2, ChangesRest DEF Changes
<1>4. /\ t.phrases[u].gen = p.gen /\ ~t.phrases[u].capture /\ t.phrases[u].pending = p.pending /\ ~t.phrases[u].awaits
      /\ t.phrases[u].job = p.job
      /\ t.phrases[u].phase = p.phase /\ t.phrases[u].timers = p.timers /\ t.phrases[u].cancelled = p.cancelled
      /\ t.phrases[u].result = p.result /\ t.phrases[u].waiting = p.waiting /\ t.phrases[u].delivered = p.delivered
  BY <1>1, <1>2, FieldsAre DEF Same
<1>5. EbbPhrase(s, t, u)
  BY <1>3, <1>4 DEF EbbPhrase
<1>6. PhraseOK(t, u)
  BY <1>0, <1>3, <1>4 DEF PhraseOK, Current
<1>7. Typed(t) /\ Ebb(s, t)
  BY <1>0, <1>3, <1>5, LocalEbb
<1>8. Good(t)
  BY <1>0, <1>3, <1>4, <1>5, <1>6, LocalGood DEF Good, GoodBut, Shut
<1>9. Mend(s, t, u) /\ Wake(t, u) /\ Glow(t, u)
  <2>1. Mend(s, t, u)
    BY <1>0, <1>3, <1>7, <1>8, LocalOthers DEF Mend
  <2>2. Wake(t, u) /\ Glow(t, u)
    BY <1>0, <1>3, <1>4 DEF Wake, Glow, Current, Alarm
  <2> QED
    BY <2>1, <2>2
<1>10. CASE settled /\ p.cancelled
  <2>1. y = Cancelled(t, u) /\ Shut(t, u)
    BY <1>c, <1>3, <1>10 DEF Shut
  <2>2. Mend(t, y, u) /\ Wake(y, u) /\ Glow(y, u) /\ Lamp(y)
    BY <1>3, <1>7, <1>8, <2>1, CancelledMend
  <2>3. Mend(s, y, u)
    BY <1>0, <1>9, <2>2, MendAfter
  <2> QED
    BY <1>0, <2>2, <2>3, MendFine DEF y
<1>11. /\ Mend(s, r, u) /\ Wake(r, u) /\ Glow(r, u)
       /\ PhraseOnly(s, r, u) /\ r.items = s.items
       /\ ~r.phrases[u].capture /\ r.phrases[u].phase = p.phase
  <2>1. CASE ~settled
    BY <1>3, <1>4, <1>9, <2>1 DEF r
  <2>2. CASE settled
    <3>1. r = k
      BY <2>2 DEF r
    <3> DEFINE m == [q EXCEPT !.pending = FALSE]
    <3>2. m \in PhraseType /\ Same(q, m, {"pending"}) /\ ~m.pending
      BY <1>1, FieldsAre DEF PhraseType, Same
    <3>3. n = With(t, u, m)
      BY DEF n
    <3> HIDE DEF m
    <3>4. Changes(t, n, u, {"pending"}) /\ n.phrases[u] = m
      BY <1>0, <1>2, <1>7, <3>2, <3>3, WithChanges
    <3>5. Typed(n)
      BY <1>0, <1>7, <3>4, ChangesTyped
    <3>6. Changes(n, k, u, {"timers"}) /\ k.phrases[u].timers = n.phrases[u].timers \cap (IF p.outcome THEN {"done"} ELSE {})
      BY <1>0, <3>5, KeepIs DEF KeepTail, k
    <3>7. PhraseOnly(t, k, u) /\ k.items = s.items
      BY <1>0, <1>3, <3>4, <3>6, PhraseOnlyTrans DEF Changes
    <3>8. PhraseOnly(s, k, u)
      BY <1>0, <1>3, <3>7, PhraseOnlyTrans
    <3>a. k.contexts = s.contexts /\ k.generation = s.generation
      BY <1>0, <3>8, ChangesRest
    <3>9. /\ k.phrases[u].gen = p.gen /\ ~k.phrases[u].capture /\ ~k.phrases[u].pending /\ ~k.phrases[u].awaits
          /\ k.phrases[u].phase = p.phase /\ k.phrases[u].timers \subseteq p.timers \cap {"done"} /\ k.phrases[u].result = p.result
          /\ k.phrases[u].waiting = p.waiting /\ k.phrases[u].delivered = p.delivered /\ k.phrases[u].cancelled = p.cancelled
          /\ k.phrases[u].job = p.job
      BY <1>2, <1>4, <3>2, <3>4, <3>6, FieldsAre DEF Changes, Same
    <3>10. EbbPhrase(s, k, u)
      BY <3>7, <3>9 DEF EbbPhrase
    <3>11. PhraseOK(k, u)
      BY <1>0, <3>7, <3>9, <3>a DEF PhraseOK, Current
    <3>12. Typed(k) /\ Ebb(s, k)
      BY <1>0, <3>8, <3>10, LocalEbb
    <3>13. Good(k)
      BY <1>0, <3>8, <3>10, <3>11, LocalGood DEF Good, GoodBut, Shut
    <3>14. Wake(k, u) /\ Glow(k, u)
      BY <1>0, <3>7, <3>9 DEF Wake, Glow, Current, Alarm
    <3>15. Mend(s, k, u)
      BY <1>0, <3>8, <3>12, <3>13, LocalOthers DEF Mend
    <3> QED
      BY <3>1, <3>7, <3>8, <3>9, <3>14, <3>15
  <2> QED
    BY <2>1, <2>2
<1>12. Typed(r) /\ Good(r) /\ r.contexts = s.contexts /\ r.indicator = s.indicator
  BY <1>0, <1>11, ChangesRest DEF Mend
<1>13. CASE ~(settled /\ p.cancelled) /\ (Open(r) # {} \/ (p.phase = "processing" /\ ~p.shown))
  <2>1. y = r
    BY <1>c, <1>13
  <2>2. CASE Open(r) # {}
    <3>1. PICK c \in Open(r) : TRUE
      BY <2>2
    <3>2. Burns(r, c) /\ c \in Nums
      BY <1>12, <3>1, TypedFacts DEF Open, Burns, Current
    <3>3. Lamp(r)
      BY <3>2 DEF Lamp
    <3> QED
      BY <1>0, <1>11, <2>1, <3>3, MendFine DEF y
  <2>3. CASE p.phase = "processing" /\ ~p.shown
    <3>1. ~p.capture
      BY <1>0, <2>3 DEF Glow
    <3>2. \A v \in Nums : Burns(s, v) => Burns(r, v)
      BY <1>0, <1>11, <3>1, LocalOthers DEF Burns
    <3>3. Lamp(r)
      BY <1>0, <1>12, <3>2 DEF Lamp
    <3> QED
      BY <1>0, <1>11, <2>1, <3>3, MendFine DEF y
  <2> QED
    BY <1>13, <2>2, <2>3
<1>14. CASE ~(settled /\ p.cancelled) /\ ~(Open(r) # {} \/ (p.phase = "processing" /\ ~p.shown))
  <2>1. y = dark \/ (y = Phase(dark, u, "idle") /\ Ended(r, u))
    BY <1>c, <1>14
  <2> DEFINE o == r.phrases[u]
             z == [o EXCEPT !.shown = FALSE, !.outcome = FALSE]
  <2>2. o \in PhraseType
    BY <1>0, <1>12, PhraseTyped
  <2>3. z \in PhraseType /\ Same(o, z, {"shown", "outcome"})
    BY <2>2, FieldsAre DEF PhraseType, Same
  <2>4. dim = With(r, u, z)
    BY <1>0, <1>12 DEF With, Typed, TypedQueue, PhraseType, dim
  <2> HIDE DEF z
  <2>5. Changes(r, dim, u, {"shown", "outcome"}) /\ dim.phrases[u] = z
    BY <1>0, <1>12, <2>2, <2>3, <2>4, WithChanges
  <2>6. PhraseOnly(r, dim, u) /\ dim.items = r.items /\ dim.contexts = r.contexts /\ dim.generation = r.generation
    BY <1>0, <2>5, ChangesRest DEF Changes
  <2>7. /\ dim.phrases[u].gen = o.gen /\ dim.phrases[u].capture = o.capture /\ dim.phrases[u].pending = o.pending
        /\ dim.phrases[u].awaits = o.awaits /\ dim.phrases[u].job = o.job
        /\ dim.phrases[u].phase = o.phase /\ dim.phrases[u].timers = o.timers /\ dim.phrases[u].cancelled = o.cancelled
        /\ dim.phrases[u].result = o.result /\ dim.phrases[u].waiting = o.waiting /\ dim.phrases[u].delivered = o.delivered
    BY <2>3, <2>5, FieldsAre DEF Same
  <2>8. EbbPhrase(r, dim, u)
    BY <2>6, <2>7 DEF EbbPhrase
  <2>9. PhraseOK(r, u) => PhraseOK(dim, u)
    BY <2>6, <2>7 DEF PhraseOK, Current
  <2>10. (Wake(r, u) => Wake(dim, u)) /\ Glow(dim, u) /\ (Burns(r, u) => Burns(dim, u))
    BY <1>11, <2>6, <2>7 DEF Wake, Glow, Burns, Current, Alarm
  <2>11. Full(r, dim)
    BY <1>0, <1>12, <2>6, <2>7, <2>8, <2>9, <2>10, LocalFull DEF Good
  <2>12. Full(dim, dark) /\ Lamp(dark) /\ Handset(dim, dark)
    BY <2>11, DimFull, FullTyped DEF dark
  <2>13. Full(r, dark) /\ Typed(dark) /\ Good(dark)
    BY <1>12, <2>11, <2>12, FullTrans, FullTyped, FullGood
  <2>14. dark.items = s.items /\ dark.contexts = s.contexts
    BY <1>11, <1>12, <2>6, <2>12, HandsetRest
  <2>15. Full(r, y) /\ Lamp(y)
    <3>1. CASE y = dark
      BY <2>12, <2>13, <3>1
    <3>2. CASE y = Phase(dark, u, "idle") /\ Ended(r, u)
      <4>1. u \in dark.contexts \ dark.items
        BY <1>11, <1>12, <2>14, <3>2, EndedFacts
      <4>2. Full(dark, y) /\ Lamp(y)
        BY <2>12, <2>13, <3>2, <4>1, IdleFull
      <4> QED
        BY <1>12, <2>13, <4>2, FullTrans, FullTyped
    <3> QED
      BY <2>1, <3>1, <3>2
  <2>16. Mend(s, y, u) /\ Wake(y, u) /\ Glow(y, u)
    BY <1>0, <1>11, <1>12, <2>15, MendThen DEF Full, Whole, Wakes, Glows
  <2> QED
    BY <1>0, <2>15, <2>16, MendFine DEF y
<1> QED
  BY <1>10, <1>13, <1>14

\* _cancel_timeout, after the phrase has ended
LEMMA CloseAudioFull ==
  ASSUME NEW s, Typed(s), Good(s), NEW u \in s.contexts \ s.items, ~s.phrases[u].awaits, "cancel" \notin s.phrases[u].timers
  PROVE Full(s, CloseAudio(s, u))
<1> DEFINE p == s.phrases[u]
           l == Later(s, u, "restart")
           y == CloseAudio(s, u)
<1>0. u \in Nums
  BY TypedFacts
<1>1. CASE ~p.pending
  <2>1. y = s
    BY <1>1 DEF CloseAudio
  <2> QED
    BY <2>1, FullRefl
<1>2. CASE p.pending /\ p.gen # s.generation
  <2>1. y = FailRestarted(s, u)
    BY <1>2 DEF CloseAudio
  <2>2. Dead(s, u)
    BY <1>2, LossOld DEF Current
  <2> QED
    BY <2>1, <2>2, FailRestartedFull
<1>3. CASE p.pending /\ ~(p.gen # s.generation) /\ OtherOpen(s, u)
  <2>1. y = Later(s, u, "cancel")
    BY <1>3 DEF CloseAudio
  <2> QED
    BY <1>3, <2>1, LaterFull DEF Timers
<1>4. CASE p.pending /\ ~(p.gen # s.generation) /\ ~OtherOpen(s, u)
  <2>1. y = SendAudioClose(l, u)
    BY <1>4 DEF CloseAudio
  <2>2. Full(s, l)
    BY <1>4, LaterFull DEF Timers
  <2>3. Changes(s, l, u, {"timers"}) /\ l.phrases[u].timers = p.timers \cup {"restart"}
    BY <1>0, LaterIs DEF Timers
  <2> HIDE DEF l, y
  <2>4. Typed(l) /\ Good(l) /\ u \in l.contexts \ l.items /\ "restart" \in l.phrases[u].timers /\ "cancel" \notin l.phrases[u].timers
    BY <2>2, <2>3, FullGood, FullRest
  <2>5. Full(l, y)
    BY <2>1, <2>4, SendAudioCloseFull
  <2>6. Full(s, y)
    BY <2>2, <2>4, <2>5, FullTrans, FullTyped
  <2> QED
    BY <2>6 DEF y
<1> QED
  BY <1>1, <1>2, <1>3, <1>4

\* A timer of u has just fired
Loose(s, u) ==
  /\ Typed(s) /\ Good(s) /\ Glowing(s) /\ u \in s.contexts
  /\ \A v \in Nums \ {u} : Wake(s, v)
  /\ s.phrases[u].pending
  /\ s.phrases[u].awaits /\ Current(s, u) => "cancel" \notin s.phrases[u].timers
  /\ u \in s.items /\ s.phrases[u].job => s.phrases[u].cancelled
  /\ s.phrases[u].result # "none" => ~s.phrases[u].cancelled
  /\ s.indicator => \E c \in Nums : Burns(s, c) \/ (c = u /\ s.phrases[u].capture)

\* A timer may find that the generation is over
LEMMA LooseFail ==
  ASSUME NEW s, NEW u, Loose(s, u), ~Current(s, u) PROVE Fine(s, FailRestarted(s, u))
<1>1. Typed(s) /\ Good(s) /\ u \in s.contexts /\ u \in Nums
  BY TypedFacts DEF Loose
<1>2. Dead(s, u)
  BY <1>1, LossOld DEF Loose
<1> DEFINE y == FailRestarted(s, u)
<1>3. Full(s, y) /\ Lamp(y) /\ Wake(y, u)
  BY <1>1, <1>2, FailRestartedFull
<1> HIDE DEF y
<1>4. Mend(s, y, u) /\ Glow(y, u)
  BY <1>1, <1>3, FullMend DEF Full, Whole, Glows, Loose, Glowing
<1>5. Fine(s, y)
  BY <1>1, <1>3, <1>4, MendFine DEF Loose, Glowing
<1> QED
  BY <1>5 DEF y

LEMMA RearmFine ==
  ASSUME NEW s, NEW u, Loose(s, u), Current(s, u), ~s.phrases[u].awaits, NEW timer \in {"cancel", "restart"}
  PROVE LET y == Later(KeepTail(s, u, s.phrases[u].outcome), u, timer) IN
    /\ Fine(s, y) /\ y.items = s.items /\ y.contexts = s.contexts
    /\ y.phrases[u].timers \subseteq {"done", timer} /\ timer \in y.phrases[u].timers /\ ~y.phrases[u].awaits
    /\ y.phrases[u].phase = s.phrases[u].phase
<1> DEFINE p == s.phrases[u]
           t == KeepTail(s, u, p.outcome)
           y == Later(t, u, timer)
<1>0. Typed(s) /\ Good(s) /\ u \in s.contexts /\ u \in Nums /\ PhraseOK(s, u) /\ p \in PhraseType /\ timer \in Timers
  BY TypedFacts, PhraseTyped DEF Loose, Good, Timers
<1>1. Changes(s, t, u, {"timers"}) /\ t.phrases[u].timers = p.timers \cap (IF p.outcome THEN {"done"} ELSE {})
  BY <1>0, KeepIs DEF KeepTail
<1> HIDE DEF t
<1>2. Typed(t)
  BY <1>0, <1>1, ChangesTyped
<1>3. Changes(t, y, u, {"timers"}) /\ y.phrases[u].timers = t.phrases[u].timers \cup {timer}
  BY <1>0, <1>2, LaterIs
<1> HIDE DEF y
<1>4. Changes(s, y, u, {"timers"})
  <2>1. Changes(s, y, u, {"timers"} \cup {"timers"})
    BY <1>0, <1>1, <1>3, ChangesTrans
  <2> QED
    BY <2>1
<1>5. PhraseOnly(s, y, u) /\ y.items = s.items /\ y.contexts = s.contexts /\ y.generation = s.generation /\ y.indicator = s.indicator
  BY <1>0, <1>4, ChangesRest DEF Changes
<1>6. y.phrases[u].timers \subseteq (p.timers \cap {"done"}) \cup {timer} /\ timer \in y.phrases[u].timers
  BY <1>1, <1>3
<1>7. /\ y.phrases[u].gen = p.gen /\ y.phrases[u].capture = p.capture /\ y.phrases[u].pending = p.pending
      /\ y.phrases[u].awaits = p.awaits /\ y.phrases[u].job = p.job
      /\ y.phrases[u].phase = p.phase /\ y.phrases[u].cancelled = p.cancelled /\ y.phrases[u].shown = p.shown
      /\ y.phrases[u].result = p.result /\ y.phrases[u].waiting = p.waiting /\ y.phrases[u].delivered = p.delivered
  BY <1>4, FieldsAre DEF Changes, Same
<1>8. EbbPhrase(s, y, u)
  BY <1>5, <1>6, <1>7 DEF EbbPhrase
<1>9. PhraseOK(y, u)
  BY <1>0, <1>5, <1>6, <1>7 DEF PhraseOK, Current
<1>10. Typed(y) /\ Ebb(s, y)
  BY <1>0, <1>5, <1>8, LocalEbb
<1>11. Good(y)
  BY <1>0, <1>5, <1>7, <1>8, <1>9, LocalGood DEF Good, GoodBut
<1>12. Mend(s, y, u)
  BY <1>0, <1>5, <1>10, <1>11, LocalOthers DEF Mend
<1>13. Wake(y, u) /\ Glow(y, u)
  BY <1>0, <1>5, <1>6, <1>7 DEF Wake, Glow, Current, Alarm, Loose, Glowing
<1>14. Lamp(y)
  <2> SUFFICES ASSUME y.indicator PROVE \E c \in Nums : Burns(y, c)
    BY DEF Lamp
  <2>1. PICK c \in Nums : Burns(s, c) \/ (c = u /\ p.capture)
    BY <1>5 DEF Loose
  <2>2. CASE c = u
    <3>1. p.capture
      BY <2>1, <2>2 DEF Burns
    <3> QED
      BY <1>0, <1>5, <1>7, <3>1 DEF Burns, Current
  <2>3. CASE c # u
    BY <1>0, <1>5, <2>1, <2>3, LocalOthers
  <2> QED
    BY <2>2, <2>3
<1>15. Fine(s, y)
  BY <1>0, <1>12, <1>13, <1>14, MendFine DEF Loose, Glowing
<1> QED
  BY Zenon, <1>5, <1>6, <1>7, <1>15 DEF y, t

\* _cancel_timeout
LEMMA CancelTimeoutFine ==
  ASSUME NEW s, NEW u, Loose(s, u), Current(s, u) => ~s.phrases[u].awaits
  PROVE Fine(s, CancelTimeout(s, u))
<1> DEFINE p == s.phrases[u]
           t == KeepTail(s, u, p.outcome)
           armed == Later(t, u, "restart")
           y == CancelTimeout(s, u)
<1>0. p.pending /\ Typed(s) /\ Good(s) /\ u \in s.contexts /\ u \in Nums
  BY TypedFacts DEF Loose
<1>1. CASE p.gen # s.generation
  <2>1. y = FailRestarted(s, u)
    BY <1>0, <1>1 DEF CancelTimeout
  <2> QED
    BY <1>1, <2>1, LooseFail DEF Current
<1>2. CASE p.gen = s.generation /\ OtherOpen(s, u)
  <2>1. y = Later(t, u, "cancel")
    BY <1>0, <1>2 DEF CancelTimeout
  <2> QED
    BY <1>2, <2>1, RearmFine DEF Current
<1>3. CASE p.gen = s.generation /\ ~OtherOpen(s, u)
  <2>1. y = CloseAudio(IF Ended(s, u) THEN armed ELSE Finish(armed, u), u)
    BY <1>0, <1>3 DEF CancelTimeout
  <2>2. /\ Fine(s, armed) /\ armed.items = s.items /\ armed.contexts = s.contexts
        /\ armed.phrases[u].timers \subseteq {"done", "restart"} /\ "restart" \in armed.phrases[u].timers /\ ~armed.phrases[u].awaits
    BY <1>3, RearmFine DEF Current
  <2> HIDE DEF t, armed, y
  <2>3. Well(armed) /\ Typed(armed) /\ Good(armed) /\ "cancel" \notin armed.phrases[u].timers
    BY <2>2 DEF Fine, Well
  <2>4. CASE Ended(s, u)
    <3>1. u \in armed.contexts \ armed.items
      BY <1>0, <2>2, <2>4, EndedFacts
    <3>2. y = CloseAudio(armed, u)
      BY <2>1, <2>4
    <3>3. Full(armed, y)
      BY <2>2, <2>3, <3>1, <3>2, CloseAudioFull
    <3>4. Fine(s, y)
      BY <1>0, <2>2, <2>3, <3>3, FullFine, FineTrans
    <3> QED
      BY <3>4 DEF y
  <2>5. CASE ~Ended(s, u)
    <3> DEFINE f == Finish(armed, u)
    <3>1. u \in armed.items
      BY <1>0, <2>2, <2>5, EndedFacts
    <3>2. u \in Ids /\ GoodBut(armed, u) /\ armed.phrases[u].gen > 0
      BY <2>3, <3>1, ItemFacts
    <3>3. /\ Mend(armed, f, u) /\ u \in f.contexts \ f.items /\ Lamp(f) /\ Wake(f, u)
          /\ f.phrases[u].timers \subseteq {"restart", "done"} /\ ~f.phrases[u].awaits
      BY <2>2, <2>3, <3>1, <3>2, FinishMend
    <3>4. y = CloseAudio(f, u)
      BY <2>1, <2>5
    <3> HIDE DEF f
    <3>5. Fine(armed, f)
      <4>1. Glow(f, u)
        BY <1>0, <3>3, NoItemGlows DEF Mend
      <4> QED
        BY <1>0, <2>3, <3>3, <4>1, MendFine DEF Well, Awake, Glowing
    <3>6. Full(f, y)
      BY <3>3, <3>4, CloseAudioFull DEF Mend
    <3>7. Fine(f, y)
      BY <3>5, <3>6, FullFine DEF Fine
    <3>8. Fine(s, y)
      BY <1>0, <2>2, <2>3, <3>5, <3>7, FineTrans
    <3> QED
      BY <3>8 DEF y
  <2> QED
    BY <2>4, <2>5
<1> QED
  BY <1>1, <1>2, <1>3

\* _restart_after_cancel
LEMMA RestartAfterCancelFine ==
  ASSUME NEW s, NEW u, Loose(s, u), NEW replaced \in BOOLEAN, replaced => s.generation < GenerationLimit
  PROVE Fine(s, RestartAfterCancel(s, u, replaced))
<1> DEFINE p == s.phrases[u]
           new == p.gen # s.generation
           l == Later(s, u, "restart")
           n == NextWorker(s)
           y == RestartAfterCancel(s, u, replaced)
<1>0. p.pending /\ Typed(s) /\ Good(s) /\ u \in s.contexts /\ u \in Nums /\ PhraseOK(s, u)
  BY TypedFacts DEF Loose, Good
<1>1. CASE s.link = "restarting" \/ OtherOpen(s, u) \/ ~(new \/ replaced)
  <2>1. y = l
    BY <1>1 DEF RestartAfterCancel
  <2>2. Full(s, l)
    BY <1>0, LaterFull DEF Timers
  <2>3. Changes(s, l, u, {"timers"}) /\ l.phrases[u].timers = p.timers \cup {"restart"}
    BY <1>0, LaterIs DEF Timers
  <2> HIDE DEF l
  <2>4. /\ l.phrases[u].gen = p.gen /\ l.phrases[u].capture = p.capture /\ l.phrases[u].pending
        /\ l.phrases[u].awaits = p.awaits /\ l.phrases[u].job = p.job
        /\ l.phrases[u].phase = p.phase /\ l.phrases[u].cancelled = p.cancelled
        /\ l.phrases[u].result = p.result
    BY <1>0, <2>3, FieldsAre DEF Changes, Same
  <2>5. PhraseOnly(s, l, u) /\ l.items = s.items /\ l.contexts = s.contexts /\ l.generation = s.generation /\ l.indicator = s.indicator
    BY <1>0, <2>3, ChangesRest DEF Changes
  <2>6. Wake(l, u)
    BY <2>3, <2>4, <2>5 DEF Wake, Alarm, Current, Loose
  <2>7. Lamp(l)
    <3> SUFFICES ASSUME l.indicator PROVE \E c \in Nums : Burns(l, c)
      BY DEF Lamp
    <3>1. PICK c \in Nums : Burns(s, c) \/ (c = u /\ p.capture)
      BY <2>5 DEF Loose
    <3>2. CASE c = u
      <4>1. p.capture
        BY <3>1, <3>2 DEF Burns
      <4> QED
        BY <1>0, <2>3, <2>4, <2>5, <4>1 DEF Burns, Alarm
    <3>3. CASE c # u
      BY <1>0, <2>5, <3>1, <3>3, LocalOthers
    <3> QED
      BY <3>2, <3>3
  <2>8. Mend(s, l, u) /\ Glow(l, u)
    BY <1>0, <2>2, FullMend DEF Full, Whole, Glows, Loose, Glowing
  <2> QED
    BY <1>0, <2>1, <2>6, <2>7, <2>8, MendFine DEF Loose, Glowing
<1>2. CASE ~(s.link = "restarting" \/ OtherOpen(s, u) \/ ~(new \/ replaced))
  <2>1. y = Cancelled(IF new THEN s ELSE n, u)
    BY <1>2 DEF RestartAfterCancel
  <2>2. CASE new
    <3>1. y = Cancelled(s, u)
      BY <2>1, <2>2
    <3>2. Shut(s, u)
      BY <1>0, <2>2 DEF Shut, Good, Common, SourceOK, Current
    <3>3. Mend(s, y, u) /\ Wake(y, u) /\ Glow(y, u) /\ Lamp(y)
      BY <1>0, <3>1, <3>2, CancelledMend
    <3> HIDE DEF y
    <3>4. Fine(s, y)
      BY <1>0, <3>3, MendFine DEF Loose, Glowing
    <3> QED
      BY <3>4 DEF y
  <2>3. CASE ~new
    <3>1. y = Cancelled(n, u) /\ s.generation < GenerationLimit
      BY <1>2, <2>1, <2>3
    <3>2. Full(s, n) /\ Mute(n)
      BY <1>0, <3>1, NextWorkerFull
    <3> HIDE DEF n, y
    <3>3. Typed(n) /\ Good(n) /\ u \in n.contexts /\ Shut(n, u)
      BY <1>0, <3>2, FullGood, FullRest DEF Shut, Mute
    <3>4. Mend(n, y, u) /\ Wake(y, u) /\ Glow(y, u) /\ Lamp(y)
      BY <3>1, <3>3, CancelledMend
    <3>5. Mend(s, n, u)
      BY <1>0, <3>2, FullMend
    <3>6. Mend(s, y, u)
      BY <1>0, <3>4, <3>5, MendAfter
    <3>7. Fine(s, y)
      BY <1>0, <3>4, <3>6, MendFine DEF Loose, Glowing
    <3> QED
      BY <3>7 DEF y
  <2> QED
    BY <2>2, <2>3
<1> QED
  BY <1>1, <1>2

\* u is being recognized, and nothing has been shown yet
Bare(s, u) ==
  /\ Typed(s) /\ Good(s) /\ Awake(s) /\ Lamp(s) /\ u \in s.contexts
  /\ \A v \in Nums \ {u} : Glow(s, v)
  /\ Still(s, u, "processing") \/ u \notin s.items
  /\ u \in s.items => s.phrases[u].result = "none" /\ Heard(s, u) = {}

LEMMA HeardEbb == ASSUME NEW x, NEW y, Ebb(x, y), NEW u PROVE Heard(y, u) = Heard(x, u)
BY DEF Ebb, News, Heard

LEMMA BareEnded == ASSUME NEW s, NEW u, Bare(s, u), u \notin s.items PROVE Well(s)
<1>1. u \in Nums
  BY TypedFacts DEF Bare
<1>2. Glow(s, u)
  BY <1>1, NoItemGlows DEF Bare
<1> QED
  BY <1>2 DEF Bare, Well, Glowing

LEMMA BareStill == ASSUME NEW s, NEW u, Bare(s, u) PROVE u \in Nums /\ (Still(s, u, "processing") <=> u \in s.items)
<1>1. u \in Nums
  BY TypedFacts DEF Bare
<1> QED
  BY <1>1 DEF Bare, Good, PhraseOK, Still, Busy

\* A restart inside the request ends the phrase or leaves it alone
LEMMA BareForgets ==
  ASSUME NEW s, NEW y, NEW u, Bare(s, u), Full(s, y), Forgets(s, y)
  PROVE Bare(y, u) /\ Ebb(s, y)
<1>1. Typed(s) /\ Typed(y) /\ Good(y) /\ Lamp(y) /\ Ebb(s, y) /\ y.contexts = s.contexts
  BY FullRest DEF Bare, Full, Sound, Whole
<1>2. Awake(y) /\ \A v \in Nums \ {u} : Glow(y, v)
  BY DEF Bare, Full, Whole, Wakes, Glows, Awake
<1>3. Still(y, u, "processing") \/ u \notin y.items
  BY DEF Bare, Forgets, Still
<1>4. u \in y.items => y.phrases[u].result = "none" /\ Heard(y, u) = {}
  BY <1>1, HeardEbb DEF Bare, Forgets
<1> QED
  BY <1>1, <1>2, <1>3, <1>4 DEF Bare

\* The phrase is shown, unless the request has ended it
LEMMA AskedFine == ASSUME NEW s, NEW u, Bare(s, u) PROVE Fine(s, Asked(s, u))
<1> DEFINE p == s.phrases[u]
           l == Later(s, u, "watchdog")
           h == [l EXCEPT !.phrases[u].shown = s.phrases[u].capture]
           y == Dim(h)
<1>0. u \in Nums /\ Typed(s) /\ Good(s) /\ p \in PhraseType /\ u \in s.contexts /\ Wake(s, u) /\ PhraseOK(s, u)
  BY BareStill, PhraseTyped DEF Bare, Awake, Good
<1>1. CASE ~Still(s, u, "processing")
  <2>1. Asked(s, u) = s
    BY <1>1 DEF Asked
  <2>2. Well(s)
    BY <1>1, BareEnded DEF Bare
  <2> QED
    BY <2>1, <2>2, FineRefl
<1>2. CASE Still(s, u, "processing")
  <2>1. Asked(s, u) = y
    BY <1>2 DEF Asked
  <2>2. Changes(s, l, u, {"timers"}) /\ l.phrases[u].timers = p.timers \cup {"watchdog"}
    BY <1>0, LaterIs DEF Timers
  <2> HIDE DEF l
  <2>3. Typed(l)
    BY <1>0, <2>2, ChangesTyped
  <2> DEFINE q == l.phrases[u]
             c == p.capture
             z == [q EXCEPT !.shown = c]
  <2>4. q \in PhraseType /\ c \in BOOLEAN
    BY <1>0, <2>3, PhraseTyped DEF PhraseType
  <2>5. h = With(l, u, z)
    BY DEF With
  <2> HIDE DEF c, q, h, y
  <2>6. z \in PhraseType /\ Same(q, z, {"shown"}) /\ z.shown = c
    BY <2>4, FieldsAre DEF PhraseType, Same
  <2> HIDE DEF z
  <2>7. Changes(l, h, u, {"shown"}) /\ h.phrases[u] = z
    BY <1>0, <2>3, <2>5, <2>6, WithChanges DEF q
  <2>8. PhraseOnly(s, h, u) /\ h.items = s.items
    BY <1>0, <2>2, <2>7, PhraseOnlyTrans DEF Changes
  <2>9. h.contexts = s.contexts /\ h.generation = s.generation /\ h.indicator = s.indicator
    BY <1>0, <2>8, ChangesRest
  <2>10. /\ h.phrases[u].gen = p.gen /\ h.phrases[u].capture = p.capture /\ h.phrases[u].pending = p.pending
         /\ h.phrases[u].awaits = p.awaits /\ h.phrases[u].job = p.job
         /\ h.phrases[u].phase = p.phase /\ h.phrases[u].cancelled = p.cancelled /\ h.phrases[u].shown = p.capture
         /\ h.phrases[u].result = p.result /\ h.phrases[u].waiting = p.waiting /\ h.phrases[u].delivered = p.delivered
         /\ h.phrases[u].timers = p.timers \cup {"watchdog"}
    BY <2>2, <2>6, <2>7, FieldsAre DEF Changes, Same, q, c
  <2>11. u \in s.items
    BY <1>2, BareStill
  <2>12. EbbPhrase(s, h, u)
    BY <2>8, <2>10 DEF EbbPhrase
  <2>13. PhraseOK(h, u)
    BY <1>0, <2>8, <2>9, <2>10, <2>11 DEF PhraseOK, Current
  <2>14. Typed(h) /\ Ebb(s, h)
    BY <1>0, <2>8, <2>12, LocalEbb
  <2>15. Good(h)
    BY <1>0, <2>8, <2>10, <2>12, <2>13, LocalGood DEF Good, GoodBut
  <2>16. Mend(s, h, u)
    BY <1>0, <2>8, <2>14, <2>15, LocalOthers DEF Mend
  <2>17. Wake(h, u) /\ Glow(h, u)
    BY <1>0, <2>8, <2>9, <2>10 DEF Wake, Glow, Current, Alarm
  <2>18. Full(h, y) /\ Lamp(y)
    BY <2>14, DimFull DEF y
  <2>19. Mend(s, y, u)
    BY <1>0, <2>16, <2>18, MendThen
  <2>20. Wake(y, u) /\ Glow(y, u)
    BY <1>0, <2>15, <2>17, <2>18 DEF Full, Whole, Wakes, Glows
  <2>21. Fine(s, y)
    BY <1>0, <2>18, <2>19, <2>20, MendFine DEF Bare, Awake
  <2> QED
    BY <2>1, <2>21
<1> QED
  BY <1>1, <1>2

LEMMA FailRecognitionFine ==
  ASSUME NEW s, Typed(s), NEW u \in Ids, GoodBut(s, u), u \in s.items, s.phrases[u].gen > 0, ~s.phrases[u].awaits,
         NEW cancelWorker \in BOOLEAN, \A v \in Nums \ {u} : Wake(s, v) /\ Glow(s, v)
  PROVE Fine(s, FailRecognition(s, u, cancelWorker))
<1> DEFINE y == FailRecognition(s, u, cancelWorker)
<1>0. u \in Nums
  BY DEF Ids, Nums
<1>1. Mend(s, y, u) /\ Wake(y, u) /\ u \in y.contexts \ y.items /\ Lamp(y)
  BY FailRecognitionMend
<1> HIDE DEF y
<1>2. Glow(y, u)
  BY <1>0, <1>1, NoItemGlows DEF Mend
<1>3. Fine(s, y)
  BY <1>0, <1>1, <1>2, MendFine
<1> QED
  BY <1>3 DEF y

\* The request to recognize
LEMMA RecognizeFine == ASSUME NEW s, NEW u, Bare(s, u) PROVE Fine(s, Recognize(s, u))
<1>0. Typed(s) /\ Good(s) /\ u \in Nums
  BY BareStill DEF Bare
<1>1. CASE ~Still(s, u, "processing")
  <2>1. Recognize(s, u) = s
    BY <1>1 DEF Recognize
  <2>2. Well(s)
    BY <1>1, BareEnded DEF Bare
  <2> QED
    BY <2>1, <2>2, FineRefl
<1>2. CASE Still(s, u, "processing") /\ CanSend(s)
  <2> DEFINE a == Ask(s, u, "recognize")
  <2>1. Recognize(s, u) = Asked(a, u)
    BY <1>2 DEF Recognize
  <2>2. u \in Ids
    BY <1>0, <1>2, BareStill, ItemFacts
  <2>3. Full(s, a) /\ Forgets(s, a)
    <3>1. Unasked(s, u) /\ ~Records(s, u)
      <4>1. u \in s.items /\ s.phrases[u].gen > 0
        BY <1>0, <1>2, BareStill, ItemFacts
      <4> QED
        BY <1>2, <4>1 DEF Unasked, Records, Bare, Still
    <3> QED
      BY <1>0, <1>2, <2>2, <3>1, AskFull DEF CanSend, Requests
  <2> HIDE DEF a
  <2>4. Bare(a, u) /\ Ebb(s, a)
    BY <2>3, BareForgets
  <2>5. Fine(a, Asked(a, u))
    BY <2>4, AskedFine
  <2>6. Fine(s, Asked(a, u))
    BY <1>0, <2>4, <2>5, EbbTrans DEF Fine, Bare, Well
  <2> QED
    BY <2>1, <2>6
<1>3. CASE Still(s, u, "processing") /\ ~CanSend(s)
  <2>1. Recognize(s, u) = FailRecognition(s, u, FALSE)
    BY <1>3 DEF Recognize
  <2>2. u \in s.items
    BY <1>3, BareStill
  <2>3. \A v \in Nums \ {u} : Wake(s, v) /\ Glow(s, v)
    BY DEF Bare, Awake
  <2>4. u \in Ids /\ s.phrases[u].gen > 0 /\ ~s.phrases[u].awaits /\ GoodBut(s, u)
    BY <1>0, <2>2, ItemFacts
  <2> QED
    BY <1>0, <2>1, <2>2, <2>3, <2>4, FailRecognitionFine
<1> QED
  BY <1>1, <1>2, <1>3

\* _finish_recording
LEMMA FinishRecordingFine ==
  ASSUME NEW s, Well(s), NEW u \in s.contexts, Still(s, u, "recording"), NEW stopped \in BOOLEAN
  PROVE Fine(s, FinishRecording(s, u, stopped))
<1> DEFINE p == s.phrases[u]
           q == [p EXCEPT !.tail = FALSE]
           f == With(s, u, q)
           t == Phase(f, u, "processing")
           x == IF stopped \/ ~CanSend(t) THEN t ELSE Sent(t)
           y == Recognize(x, u)
<1>0. u \in Nums /\ p \in PhraseType /\ PhraseOK(s, u) /\ Typed(s) /\ Good(s) /\ Wake(s, u) /\ Lamp(s)
      /\ \A v \in Nums : Wake(s, v) /\ Glow(s, v)
  BY TypedFacts, PhraseTyped DEF Good, Well, Awake, Glowing
<1>1. FinishRecording(s, u, stopped) = y
  BY DEF FinishRecording, With
<1>2. q \in PhraseType /\ Same(p, q, {"tail"})
  BY <1>0, FieldsAre DEF PhraseType, Same
<1> HIDE DEF q
<1>3. Changes(s, f, u, {"tail"}) /\ f.phrases[u] = q
  BY <1>0, <1>2, WithChanges
<1> HIDE DEF f
<1>4. Typed(f) /\ u \in f.contexts /\ f.items = s.items /\ PhraseOnly(s, f, u)
  BY <1>0, <1>3, ChangesTyped, ChangesRest DEF Changes
<1>5. /\ PhraseOnly(f, t, u) /\ t.phrases[u].phase = "processing" /\ t.items = f.items
      /\ Same(f.phrases[u], t.phrases[u], {"phase"})
  BY <1>4, PhaseIs DEF Over, Phases
<1> HIDE DEF t, x, y
<1>6. PhraseOnly(s, t, u) /\ t.items = s.items
  BY <1>0, <1>4, <1>5, PhraseOnlyTrans
<1>7. t.contexts = s.contexts /\ t.generation = s.generation /\ t.indicator = s.indicator
  BY <1>0, <1>6, ChangesRest
<1>8. /\ t.phrases[u].gen = p.gen /\ t.phrases[u].capture = p.capture /\ t.phrases[u].pending = p.pending
      /\ t.phrases[u].awaits = p.awaits /\ t.phrases[u].job = p.job
      /\ t.phrases[u].cancelled = p.cancelled /\ t.phrases[u].timers = p.timers
      /\ t.phrases[u].result = p.result /\ t.phrases[u].waiting = p.waiting /\ t.phrases[u].delivered = p.delivered
  BY <1>3, <1>2, <1>5, FieldsAre DEF Changes, Same
<1>9. p.phase = "recording" /\ ~p.cancelled
  BY DEF Still
<1>10. EbbPhrase(s, t, u)
  BY <1>5, <1>6, <1>8, <1>9 DEF EbbPhrase
<1>11. PhraseOK(t, u)
  BY <1>0, <1>5, <1>6, <1>7, <1>8, <1>9 DEF PhraseOK, Current, Busy
<1>12. Typed(t) /\ Ebb(s, t)
  BY <1>0, <1>6, <1>10, LocalEbb
<1>13. Good(t)
  BY <1>0, <1>6, <1>8, <1>10, <1>11, LocalGood DEF Good, GoodBut
<1>14. Wake(t, u) /\ (Burns(s, u) => Burns(t, u))
  BY <1>0, <1>6, <1>7, <1>8 DEF Wake, Burns, Current, Alarm
<1>20. u \in s.items /\ p.result = "none" /\ Heard(t, u) = {}
  <2>1. u \in s.items /\ p.result = "none"
    BY <1>0, <1>9 DEF PhraseOK, Busy
  <2>2. u \in Ids
    BY <1>0, <2>1, ItemFacts
  <2>3. Heard(s, u) = {}
    BY <1>0, <1>9, <2>1, <2>2 DEF Good, Common, Once, OnceOK, Closed, Records
  <2> QED
    BY <1>12, <2>1, <2>3, HeardEbb
<1>15. Bare(t, u)
  <2>1. \A v \in Nums \ {u} : Wake(t, v) /\ Glow(t, v) /\ (Burns(s, v) => Burns(t, v))
    BY <1>0, <1>6, LocalOthers
  <2>2. Awake(t) /\ Lamp(t)
    BY <1>0, <1>7, <1>14, <2>1 DEF Awake, Lamp
  <2> QED
    BY <1>5, <1>7, <1>8, <1>9, <1>12, <1>13, <1>20, <2>1, <2>2 DEF Bare, Still
<1>16. Bare(x, u) /\ Ebb(t, x)
  <2>1. CASE x = t
    BY <1>12, <1>15, <2>1, EbbRefl
  <2>2. CASE x = Sent(t) /\ CanSend(t)
    <3>1. Full(t, x) /\ Forgets(t, x)
      BY <1>12, <1>13, <2>2, SentFull DEF CanSend
    <3> QED
      BY <1>15, <3>1, BareForgets
  <2>3. x = t \/ (x = Sent(t) /\ CanSend(t))
    BY DEF x
  <2> QED
    BY <2>1, <2>2, <2>3
<1>17. Fine(x, y)
  BY <1>16, RecognizeFine DEF y
<1>18. Ebb(s, y)
  <2>1. Typed(x) /\ Typed(y) /\ Ebb(x, y)
    BY <1>16, <1>17 DEF Bare, Fine, Well
  <2>2. Ebb(s, x)
    BY <1>0, <1>12, <1>16, <2>1, EbbTrans
  <2> QED
    BY <1>0, <2>1, <2>2, EbbTrans
<1>19. Fine(s, y)
  BY <1>17, <1>18 DEF Fine
<1> QED
  BY <1>1, <1>19

LEMMA TailIs ==
  ASSUME NEW s, Typed(s), NEW u \in Nums, NEW tail \in BOOLEAN
  PROVE LET y == [s EXCEPT !.phrases[u].tail = tail] IN
    Full(s, y) /\ y.items = s.items /\ y.contexts = s.contexts /\ (\A phase : Still(y, u, phase) <=> Still(s, u, phase))
<1> DEFINE p == s.phrases[u]
           q == [p EXCEPT !.tail = tail]
           y == With(s, u, q)
<1>0. p \in PhraseType
  BY PhraseTyped
<1>1. q \in PhraseType /\ Same(p, q, {"tail"})
  BY <1>0, FieldsAre DEF PhraseType, Same
<1>a. [s EXCEPT !.phrases[u].tail = tail] = y
  BY DEF With
<1> HIDE DEF q
<1>2. Changes(s, y, u, {"tail"}) /\ y.phrases[u] = q
  BY <1>0, <1>1, WithChanges
<1> HIDE DEF y
<1>3. Changes(s, y, u, {"outcome", "tail", "retried"})
  BY <1>2 DEF Changes, Same
<1>4. Full(s, y)
  BY <1>3, QuietFull
<1>5. y.items = s.items /\ y.contexts = s.contexts
  BY <1>2, ChangesRest DEF Changes
<1>6. y.phrases[u].phase = p.phase /\ y.phrases[u].cancelled = p.cancelled
  BY <1>2, FieldsAre DEF Changes, Same
<1>7. \A phase : Still(y, u, phase) <=> Still(s, u, phase)
  BY <1>6 DEF Still
<1> QED
  BY <1>a, <1>4, <1>5, <1>7

\* _stop
LEMMA StopFine ==
  ASSUME NEW s, Well(s), NEW u \in s.contexts, NEW stopped \in BOOLEAN, NEW tail \in BOOLEAN
  PROVE Fine(s, Stop(s, u, stopped, tail))
<1>0. u \in Nums /\ Typed(s) /\ Good(s)
  BY TypedFacts DEF Well
<1>1. CASE ~Still(s, u, "recording")
  <2>1. Stop(s, u, stopped, tail) = s
    BY <1>1 DEF Stop
  <2> QED
    BY <2>1, FineRefl
<1>2. CASE Still(s, u, "recording") /\ (~tail \/ stopped)
  <2>1. Stop(s, u, stopped, tail) = FinishRecording(s, u, stopped)
    BY <1>2 DEF Stop
  <2> QED
    BY <1>2, <2>1, FinishRecordingFine
<1>3. CASE Still(s, u, "recording") /\ ~(~tail \/ stopped) /\ s.phrases[u].tail
  <2>1. Stop(s, u, stopped, tail) = s
    BY <1>3 DEF Stop
  <2> QED
    BY <2>1, FineRefl
<1>4. CASE Still(s, u, "recording") /\ ~(~tail \/ stopped) /\ ~s.phrases[u].tail
  <2> DEFINE t == [s EXCEPT !.phrases[u].tail = TRUE]
             l == Later(t, u, "tail")
  <2>1. Stop(s, u, stopped, tail) = l
    BY <1>4 DEF Stop
  <2>2. Full(s, t) /\ t.items = s.items /\ t.contexts = s.contexts
    BY <1>0, TailIs
  <2>3. u \in s.items
    BY <1>0, <1>4, EndedFacts DEF Still, Busy
  <2> HIDE DEF t
  <2>4. Typed(t) /\ Full(t, l)
    BY <2>2, <2>3, FullTyped, LaterFull DEF Timers
  <2>5. Full(s, l)
    BY <1>0, <2>2, <2>4, FullTrans
  <2>6. Fine(s, l)
    BY <2>5, FullFine
  <2> QED
    BY <2>1, <2>6
<1> QED
  BY <1>1, <1>2, <1>3, <1>4

\* _release_tail_elapsed
LEMMA TailElapsedFine ==
  ASSUME NEW s, Well(s), NEW u \in s.contexts PROVE Fine(s, TailElapsed(s, u))
<1> DEFINE t == [s EXCEPT !.phrases[u].tail = FALSE]
<1>0. u \in Nums /\ Typed(s)
  BY TypedFacts DEF Well
<1>1. Full(s, t) /\ t.contexts = s.contexts /\ (Still(t, u, "recording") <=> Still(s, u, "recording"))
  BY <1>0, TailIs
<1>2. TailElapsed(s, u) = IF s.phrases[u].tail /\ Still(s, u, "recording") THEN FinishRecording(t, u, FALSE) ELSE t
  BY DEF TailElapsed
<1> HIDE DEF t
<1>3. Fine(s, t) /\ Well(t)
  BY <1>1, FullFine DEF Fine
<1>4. CASE s.phrases[u].tail /\ Still(s, u, "recording")
  <2>1. Fine(t, FinishRecording(t, u, FALSE))
    BY <1>1, <1>3, <1>4, FinishRecordingFine
  <2> QED
    BY <1>0, <1>2, <1>3, <1>4, <2>1, FineTrans
<1>5. CASE ~(s.phrases[u].tail /\ Still(s, u, "recording"))
  BY <1>2, <1>3, <1>5
<1> QED
  BY <1>4, <1>5

LEMMA HotkeyFine == ASSUME NEW s, Well(s)
  PROVE Fine(s, HotkeyCancel(s)) /\ Fine(s, ReturnHotkey(s)) /\ Suspended(HotkeyCancel(s)) = Suspended(s)
        /\ HotkeyCancel(s).contexts = s.contexts
<1>1. Full(s, HotkeyCancel(s)) /\ Full(s, ReturnHotkey(s))
  BY HotkeyCancelFull, ReturnHotkeyFull DEF Well
<1> QED
  BY <1>1, FullFine, FullRest

\* _refuse_press
LEMMA RefusePressFine == ASSUME NEW s, Well(s), ~Suspended(s) PROVE Fine(s, RefusePress(s))
<1> DEFINE h == HotkeyCancel(s)
           c == CancelOne(h, Default(s))
<1>1. Fine(s, h) /\ Well(h) /\ ~Suspended(h) /\ h.contexts = s.contexts /\ Typed(s)
  BY HotkeyFine DEF Fine, Well
<1>2. RefusePress(s) \in {s, c, h, ReturnHotkey(s)}
  BY DEF RefusePress
<1> HIDE DEF h
<1>3. Fine(h, c)
  BY <1>1, CancelOneFine, DefaultIs
<1>4. Fine(s, c)
  BY <1>1, <1>3, FineTrans
<1> HIDE DEF c
<1> QED
  BY <1>1, <1>2, <1>4, HotkeyFine, FineRefl DEF h

\* A phrase that a change of device leaves too short
LEMMA CutShortFine == ASSUME NEW s, Well(s), NEW u \in Ids, u \in s.contexts \ s.items PROVE Fine(s, CutShort(s, u))
<1> DEFINE t == IF s.phrases[u].pending THEN s ELSE SendCancel(s, u)
           y == EndFinish(t, u)
<1>1. CutShort(s, u) = y
  BY DEF CutShort
<1>2. Full(s, t)
  BY FullRefl, SendCancelFull DEF Well
<1> HIDE DEF t
<1>3. Full(t, y)
  BY <1>2, FullRest, FullTyped, EndFinishFull
<1> HIDE DEF y
<1>4. Full(s, y)
  BY <1>2, <1>3, FullTrans DEF Well
<1> QED
  BY <1>1, <1>4, FullFine

\* _device_change
LEMMA DeviceChangeFine ==
  ASSUME NEW s, Well(s), NEW u \in s.contexts, ~s.phrases[u].cancelled, NEW long \in BOOLEAN
  PROVE Fine(s, DeviceChange(s, u, long))
<1>0. u \in Nums /\ Typed(s) /\ Good(s) /\ Wake(s, u)
  BY TypedFacts DEF Well, Awake
<1>1. CASE s.phrases[u].phase # "recording"
  <2>1. DeviceChange(s, u, long) = s
    BY <1>1 DEF DeviceChange
  <2> QED
    BY <2>1, FineRefl
<1>2. CASE s.phrases[u].phase = "recording" /\ long
  <2>1. DeviceChange(s, u, long) = Stop(s, u, TRUE, TRUE)
    BY <1>2 DEF DeviceChange
  <2> QED
    BY <2>1, StopFine
<1>3. CASE s.phrases[u].phase = "recording" /\ ~long
  <2> DEFINE b == BeginFinish(s, u)
             y == CutShort(b, u)
  <2>1. DeviceChange(s, u, long) = y
    BY <1>3 DEF DeviceChange
  <2>2. u \in s.items
    BY <1>0, <1>3, EndedFacts DEF Busy
  <2>3. u \in Ids /\ s.phrases[u].gen > 0 /\ ~s.phrases[u].awaits /\ GoodBut(s, u) /\ ~s.phrases[u].job
    BY <1>0, <2>2, ItemFacts DEF Wake
  <2>4. Mend(s, b, u) /\ u \in b.contexts \ b.items /\ Lamp(b) /\ Wake(b, u)
    BY <1>0, <2>2, <2>3, BeginFinishMend
  <2> HIDE DEF b
  <2>5. Glow(b, u)
    BY <1>0, <2>4, NoItemGlows DEF Mend
  <2>6. Fine(s, b)
    BY <1>0, <2>4, <2>5, MendFine DEF Well, Awake, Glowing
  <2>7. Fine(b, y)
    BY <2>3, <2>4, <2>6, CutShortFine DEF Fine
  <2> HIDE DEF y
  <2> QED
    BY <1>0, <2>1, <2>6, <2>7, FineTrans
<1> QED
  BY <1>1, <1>2, <1>3

LEMMA JobOver ==
  ASSUME NEW s, Typed(s), NEW u \in s.contexts
  PROVE LET y == [s EXCEPT !.phrases[u].job = FALSE] IN Full(s, y)
<1> DEFINE p == s.phrases[u]
           q == [p EXCEPT !.job = FALSE]
           y == With(s, u, q)
<1>0. u \in Nums /\ p \in PhraseType
  BY TypedFacts, PhraseTyped
<1>a. [s EXCEPT !.phrases[u].job = FALSE] = y
  BY DEF With
<1>1. q \in PhraseType /\ Same(p, q, {"job"}) /\ ~q.job
  BY <1>0, FieldsAre DEF PhraseType, Same
<1> HIDE DEF q
<1>2. Changes(s, y, u, {"job"}) /\ y.phrases[u] = q
  BY <1>0, <1>1, WithChanges
<1> HIDE DEF y
<1>3. PhraseOnly(s, y, u) /\ y.items = s.items /\ y.contexts = s.contexts /\ y.generation = s.generation
  BY <1>0, <1>2, ChangesRest DEF Changes
<1>4. /\ y.phrases[u].gen = p.gen /\ y.phrases[u].capture = p.capture /\ y.phrases[u].pending = p.pending
      /\ y.phrases[u].awaits = p.awaits /\ ~y.phrases[u].job /\ y.phrases[u].phase = p.phase
      /\ y.phrases[u].cancelled = p.cancelled /\ y.phrases[u].timers = p.timers /\ y.phrases[u].shown = p.shown
      /\ y.phrases[u].result = p.result /\ y.phrases[u].waiting = p.waiting /\ y.phrases[u].delivered = p.delivered
  BY <1>1, <1>2, FieldsAre DEF Same
<1>5. EbbPhrase(s, y, u)
  BY <1>3, <1>4 DEF EbbPhrase
<1>6. PhraseOK(s, u) => PhraseOK(y, u)
  BY <1>3, <1>4 DEF PhraseOK, Current
<1>7. (Wake(s, u) => Wake(y, u)) /\ (Glow(s, u) => Glow(y, u)) /\ (Burns(s, u) => Burns(y, u))
  BY <1>3, <1>4 DEF Wake, Glow, Burns, Current, Alarm
<1>8. Full(s, y)
  BY <1>0, <1>3, <1>4, <1>5, <1>6, <1>7, LocalFull DEF Good
<1> QED
  BY <1>a, <1>8

\* _worker_event: what ends a cancellation, a phrase or its job
LEMMA EndingFine ==
  ASSUME NEW s, Well(s), NEW u \in s.contexts, u \in s.items \/ s.phrases[u].pending, ~Suspended(s), NEW what,
         what = "crashed" => Dead(s, u),
         what \in {"cancelled", "nothing to cancel"} => Shut(s, u)
  PROVE Fine(s, Ending(s, u, what))
<1>0. u \in Nums /\ Typed(s) /\ Good(s) /\ \A v \in Nums \ {u} : Wake(s, v) /\ Glow(s, v)
  BY TypedFacts DEF Well, Awake, Glowing
<1>1. CASE what = "crashed"
  <2>1. Ending(s, u, what) = FailRestarted(s, u)
    BY <1>1 DEF Ending
  <2> QED
    BY <1>0, <1>1, <2>1, FailRestartedFull, FullFine
<1>2. CASE what = "cancelled"
  <2> DEFINE y == Cancelled(s, u)
  <2>1. Ending(s, u, what) = y
    BY <1>2 DEF Ending
  <2>2. Mend(s, y, u) /\ Wake(y, u) /\ Glow(y, u) /\ Lamp(y)
    BY <1>0, <1>2, CancelledMend
  <2> HIDE DEF y
  <2> QED
    BY <1>0, <2>1, <2>2, MendFine
<1>3. CASE what = "job cancelled"
  <2>1. Ending(s, u, what) = CancelOne(s, u)
    BY <1>3 DEF Ending
  <2> QED
    BY <2>1, CancelOneFine
<1>4. CASE what = "nothing to cancel"
  <2> DEFINE t == [s EXCEPT !.phrases[u].job = FALSE]
             y == CaptureClosed(t, u)
  <2>1. Ending(s, u, what) = y
    BY <1>4 DEF Ending
  <2>2. Full(s, t)
    BY <1>0, JobOver
  <2>3. t.contexts = s.contexts /\ t.source = s.source
    BY FieldsAre, <1>0 DEF Typed
  <2> HIDE DEF t
  <2>4. Fine(s, t) /\ Well(t) /\ Shut(t, u)
    BY <1>4, <2>2, <2>3, FullFine DEF Fine, Shut
  <2>5. Fine(t, y)
    BY <2>3, <2>4, CaptureClosedFine
  <2> HIDE DEF y
  <2> QED
    BY <1>0, <2>1, <2>4, <2>5, FineTrans
<1>5. CASE what \in {"timeout", "error"} /\ ~s.phrases[u].pending
  <2>1. Ending(s, u, what) = FailRecognition(s, u, what = "timeout")
    BY <1>5 DEF Ending
  <2>2. u \in s.items
    BY <1>5
  <2>3. u \in Ids /\ s.phrases[u].gen > 0 /\ ~s.phrases[u].awaits /\ GoodBut(s, u)
    BY <1>0, <2>2, ItemFacts
  <2>4. ASSUME NEW c \in BOOLEAN PROVE Fine(s, FailRecognition(s, u, c))
    BY <1>0, <2>2, <2>3, FailRecognitionFine
  <2> DEFINE c == what = "timeout"
  <2>5. c \in BOOLEAN
    OBVIOUS
  <2>6. Ending(s, u, what) = FailRecognition(s, u, c)
    BY <2>1
  <2> HIDE DEF c
  <2> QED
    BY <2>4, <2>5, <2>6
<1>6. CASE what \notin {"crashed", "cancelled", "job cancelled", "nothing to cancel"} /\ ~(what \in {"timeout", "error"} /\ ~s.phrases[u].pending)
  <2>1. Ending(s, u, what) = s
    BY <1>6 DEF Ending
  <2> QED
    BY <2>1, FineRefl
<1>7. ASSUME what \in {"crashed", "cancelled", "job cancelled", "nothing to cancel"} PROVE Fine(s, Ending(s, u, what))
  BY <1>1, <1>2, <1>3, <1>4, <1>7
<1> QED
  BY <1>5, <1>6, <1>7

\* A result: neither cancelled nor owed
Resulting(s, u, what) ==
  what \in {"text", "blank"} /\ s.phrases[u].phase = "processing" /\ ~s.phrases[u].pending /\ ~s.phrases[u].cancelled

\* _worker_event: what happens to a phrase at work, short of its result
LEMMA ProgressFine ==
  ASSUME NEW s, Well(s), NEW u \in s.contexts, NEW what
  PROVE \/ Fine(s, Progress(s, u, what))
        \/ Resulting(s, u, what) /\ Progress(s, u, what) = Result(s, u, what)
<1>1. CASE s.phrases[u].pending \/ s.phrases[u].cancelled
  <2>1. Progress(s, u, what) = s
    BY <1>1 DEF Progress
  <2> QED
    BY <2>1, FineRefl
<1>2. CASE ~(s.phrases[u].pending \/ s.phrases[u].cancelled) /\ what \in {"changed", "changed early"}
  <2>1. Progress(s, u, what) = DeviceChange(s, u, what = "changed")
    BY <1>2 DEF Progress
  <2>2. (what = "changed") \in BOOLEAN
    OBVIOUS
  <2> QED
    BY <1>2, <2>1, <2>2, DeviceChangeFine
<1>3. CASE ~(s.phrases[u].pending \/ s.phrases[u].cancelled) /\ what = "limit"
  <2>1. Progress(s, u, what) = Stop(s, u, TRUE, TRUE)
    BY <1>3 DEF Progress
  <2> QED
    BY <2>1, StopFine
<1>4. CASE ~(s.phrases[u].pending \/ s.phrases[u].cancelled) /\ what \in {"text", "blank"} /\ s.phrases[u].phase = "processing"
  <2>1. Progress(s, u, what) = Result(s, u, what)
    BY <1>4 DEF Progress
  <2> QED
    BY <1>4, <2>1 DEF Resulting
<1>5. CASE /\ ~(s.phrases[u].pending \/ s.phrases[u].cancelled) /\ what \notin {"changed", "changed early", "limit"}
           /\ ~(what \in {"text", "blank"} /\ s.phrases[u].phase = "processing")
  <2>1. Progress(s, u, what) = s
    BY <1>5 DEF Progress
  <2> QED
    BY <2>1, FineRefl
<1> QED
  BY <1>1, <1>2, <1>3, <1>4, <1>5

\* _worker_event
LEMMA WorkerEventFine ==
  ASSUME NEW s, Well(s), ~Suspended(s), NEW e \in EventType, EventOK(s, e), NEW u \in s.contexts
  PROVE \/ Fine(s, WorkerEvent(s, u, e))
        \/ e.uid = u /\ Resulting(s, u, e.what) /\ WorkerEvent(s, u, e) = Result(s, u, e.what)
<1> DEFINE p == s.phrases[u]
           stale == e.gen < p.gen \/ e.uid \notin {0, u}
           new == p.gen # s.generation
<1>0. u \in Nums /\ Typed(s) /\ Good(s)
  BY TypedFacts DEF Well
<1>1. CASE (Ended(s, u) /\ ~p.pending) \/ (stale /\ ~new)
  <2>1. WorkerEvent(s, u, e) = s
    BY <1>1 DEF WorkerEvent
  <2> QED
    BY <2>1, FineRefl
<1>2. CASE ~((Ended(s, u) /\ ~p.pending) \/ (stale /\ ~new)) /\ new
  <2>1. WorkerEvent(s, u, e) = Ending(s, u, "crashed")
    BY <1>2 DEF WorkerEvent
  <2>2. u \in s.items \/ p.pending
    BY <1>0, <1>2, EndedFacts
  <2>3. Dead(s, u)
    BY <1>0, <1>2, <2>2, LossOld DEF Current
  <2> QED
    BY <2>1, <2>2, <2>3, EndingFine
<1>3. CASE ~((Ended(s, u) /\ ~p.pending) \/ (stale /\ ~new)) /\ ~new /\ e.what \in Endings
  <2>1. WorkerEvent(s, u, e) = Ending(s, u, e.what)
    BY <1>3 DEF WorkerEvent
  <2>2. u \in s.items \/ p.pending
    BY <1>0, <1>3, EndedFacts
  <2>3. e.gen = s.generation /\ e.uid \in {0, u}
    <3>1. e.gen \in Nat /\ p.gen \in Nat /\ s.generation \in Nat /\ e.gen <= s.generation /\ p.gen = s.generation
          /\ ~(e.gen < p.gen) /\ e.uid \in {0, u}
      BY <1>0, <1>3, TypedFacts DEF EventType, EventOK
    <3> QED
      BY <3>1
  <2>4. e.what = "crashed" => Dead(s, u)
    <3>1. s.generation \in Nat
      BY <1>0, TypedFacts
    <3>2. e.what = "crashed" => s.link \in {"stopped", "terminated"}
      BY <2>3, <3>1 DEF EventOK
    <3> QED
      BY <1>0, <3>2 DEF Dead, Good, Common, SourceOK
  <2>5. e.what \in {"cancelled", "nothing to cancel"} => Shut(s, u)
    <3>1. 0 \notin Ids
      BY LimitAssumption DEF Ids
    <3> QED
      BY <2>3, <3>1 DEF EventOK, Shut
  <2> QED
    BY <2>1, <2>2, <2>4, <2>5, EndingFine
<1>4. CASE ~((Ended(s, u) /\ ~p.pending) \/ (stale /\ ~new)) /\ ~new /\ e.what \notin Endings
  <2>1. WorkerEvent(s, u, e) = Progress(s, u, e.what)
    BY <1>4 DEF WorkerEvent
  <2>2. Resulting(s, u, e.what) => e.uid = u
    <3>1. e.uid \in {0, u} /\ 0 \notin Ids
      BY <1>4, LimitAssumption DEF Ids
    <3>2. Resulting(s, u, e.what) => e.uid \in Ids
      BY DEF Resulting, EventOK, Results
    <3> QED
      BY <3>1, <3>2
  <2> QED
    BY <2>1, <2>2, ProgressFine
<1> QED
  BY <1>1, <1>2, <1>3, <1>4

-----------------------------------------------------------------------------
(* The order of the phrases.  A frame of a paste is about the oldest phrase at work, what is pasted   *)
(* was begun before what is at work, and a phrase is pasted by one frame.                            *)

Begun(s, u) == s.phrases[u].gen # 0
Delivers(f) == f.tag \in {"paste", "drain"}
Typing(f) == f.tag = "drain" /\ f.kind = "pasted"
\* u is the oldest at work, and nothing begun after it has been pasted
PasteOK(s, u) ==
  /\ \A j \in DOMAIN s.pasted : s.pasted[j] < u
  /\ \A v \in s.items : u <= v /\ (s.phrases[v].phase = "pasting" => v = u)
\* The frame f still delivers its phrase, or the phrase has ended
FrameOK(s, f) ==
  /\ f.uid \in Ids /\ Begun(s, f.uid)
  /\ f.uid \in s.items =>
       /\ s.phrases[f.uid].phase = "pasting" /\ ~s.phrases[f.uid].waiting /\ "busy" \notin s.phrases[f.uid].timers
       /\ f.tag = "paste" => ~s.phrases[f.uid].cancelled
       /\ Typing(f) => ~s.phrases[f.uid].cancelled /\ s.phrases[f.uid].delivered
  /\ f.tag = "paste" => PasteOK(s, f.uid)

\* The order of the phrases begun, of those at work and of those pasted
InOrderOfPress(s) ==
  /\ \A u, v \in Ids : u < v /\ Begun(s, v) => Begun(s, u)
  /\ \A u, v \in s.items : s.phrases[u].phase = "pasting" => u <= v
  /\ \A u \in s.items : s.phrases[u].waiting => s.phrases[u].phase = "pasting" /\ "busy" \notin s.phrases[u].timers
PastedOK(s) ==
  /\ \A i, j \in DOMAIN s.pasted : i < j => s.pasted[i] < s.pasted[j]
  /\ \A i \in DOMAIN s.pasted : Begun(s, s.pasted[i])
FramesOK(s) ==
  /\ \A i \in DOMAIN s.stack : Delivers(s.stack[i]) => FrameOK(s, s.stack[i])
  /\ \A i \in DOMAIN s.stack : s.stack[i].tag = "paste" => i = 1
  /\ \A i, j \in DOMAIN s.stack :
       Delivers(s.stack[i]) /\ Delivers(s.stack[j]) /\ s.stack[i].uid = s.stack[j].uid /\ s.stack[i].uid \in s.items => i = j

\* A phrase is pasted before those at work; it may itself be w, which is about to end
Behind(s, w) ==
  \A i \in DOMAIN s.pasted : \A u \in s.items :
    \/ s.pasted[i] < u
    \/ s.pasted[i] = u /\ (u = w \/ \E j \in DOMAIN s.stack : Typing(s.stack[j]) /\ s.stack[j].uid = u)
Turn(s, w) == InOrderOfPress(s) /\ PastedOK(s) /\ FramesOK(s) /\ Behind(s, w)

\* A handler that begins nothing keeps the order
LEMMA TurnEbb == ASSUME NEW s, NEW y, NEW w, Typed(s), Typed(y), Turn(s, w), Ebb(s, y) PROVE Turn(y, w)
<1>1. y.stack = s.stack /\ y.pasted = s.pasted /\ y.items \subseteq s.items
  BY DEF Ebb, Steady
<1>2. Ids \subseteq Nums /\ s.items \subseteq Nums /\ y.items \subseteq Nums
  BY TypedFacts DEF Ids, Nums
<1>3. \A u \in Nums : Begun(y, u) <=> Begun(s, u)
  BY DEF Ebb, EbbPhrase, Begun
<1>4. \A u \in y.items : y.phrases[u].phase = "pasting" => s.phrases[u].phase = "pasting"
  BY <1>2 DEF Ebb, EbbPhrase
<1>5. InOrderOfPress(y)
  <2>1. \A u \in y.items : y.phrases[u].waiting => y.phrases[u].phase = "pasting" /\ "busy" \notin y.phrases[u].timers
    BY <1>1, <1>2 DEF Ebb, EbbPhrase, Turn, InOrderOfPress
  <2> QED
    BY <1>1, <1>2, <1>3, <1>4, <2>1 DEF Turn, InOrderOfPress
<1>6. PastedOK(y)
  <2>1. \A i \in DOMAIN s.pasted : s.pasted[i] \in Ids
    BY ElementOfSeq DEF Typed, TypedRest
  <2> QED
    BY <1>1, <1>2, <1>3, <2>1 DEF Turn, PastedOK
<1>7. FramesOK(y)
  <2>1. ASSUME NEW i \in DOMAIN s.stack, Delivers(s.stack[i]) PROVE FrameOK(y, s.stack[i])
    <3> DEFINE f == s.stack[i]
    <3>1. FrameOK(s, f) /\ (f.tag = "paste" => i = 1)
      BY <2>1 DEF Turn, FramesOK
    <3>2. f.uid \in Ids /\ f.uid \in Nums /\ Begun(y, f.uid)
      BY <1>2, <1>3, <3>1 DEF FrameOK
    <3>3. EbbPhrase(s, y, f.uid)
      BY <3>2 DEF Ebb
    <3>4. f.tag = "paste" => Suspended(s)
      BY <3>1 DEF Suspended
    <3> HIDE DEF f
    <3>5. f.tag = "paste" => PasteOK(y, f.uid)
      BY <1>1, <1>4, <3>1 DEF FrameOK, PasteOK
    <3>6. f.uid \in y.items => y.phrases[f.uid].phase = "pasting"
      BY <1>1, <3>1, <3>3 DEF FrameOK, EbbPhrase
    <3>7. f.uid \in y.items => ~y.phrases[f.uid].waiting /\ "busy" \notin y.phrases[f.uid].timers
      BY <1>1, <3>1, <3>3 DEF FrameOK, EbbPhrase
    <3>8. f.uid \in y.items => (f.tag = "paste" => ~y.phrases[f.uid].cancelled)
      BY <1>1, <3>1, <3>3, <3>4 DEF FrameOK, EbbPhrase
    <3>9. f.uid \in y.items => (Typing(f) => ~y.phrases[f.uid].cancelled /\ y.phrases[f.uid].delivered)
      BY <1>1, <3>1, <3>3 DEF FrameOK, EbbPhrase
    <3>10. FrameOK(y, f)
      BY <3>2, <3>5, <3>6, <3>7, <3>8, <3>9 DEF FrameOK
    <3> QED
      BY <3>10 DEF f
  <2> QED
    BY <1>1, <2>1 DEF Turn, FramesOK
<1>8. Behind(y, w)
  BY <1>1 DEF Turn, Behind
<1> QED
  BY <1>5, <1>6, <1>7, <1>8 DEF Turn

\* The phrase that was about to end is gone
LEMMA TurnEnds == ASSUME NEW s, NEW w, Turn(s, w), w \notin s.items PROVE Turn(s, 0)
BY DEF Turn, Behind

\* The invariant of every state between two steps
Right(s) == Well(s) /\ Turn(s, 0)

LEMMA FineRight == ASSUME NEW s, NEW y, Right(s), Fine(s, y) PROVE Right(y)
BY TurnEbb DEF Right, Fine, Well

\* Steps that leave the phrases, the delivery and the source alone
LEMMA AlikeWell ==
  ASSUME NEW x, NEW y, Well(x), Typed(y), Alike(x, y), Common(y), Lamp(y) PROVE Well(y)
BY AlikePhrases DEF Well, Good, Awake, Glowing

\* The order only depends on phrases, frames and pastes
LEMMA AlikeTurn ==
  ASSUME NEW x, NEW y, NEW w, Turn(x, w), Alike(x, y), y.stack = x.stack PROVE Turn(y, w)
BY AlikePhrases DEF Turn, InOrderOfPress, PastedOK, FramesOK, Behind, FrameOK, PasteOK, Begun

LEMMA StackWell ==
  ASSUME NEW x, NEW y, Well(x), Keeps(x, y, {"stack"}), y.stack \in Seq(FrameType) PROVE Well(y)
<1>1. /\ y.phrases = x.phrases /\ y.items = x.items /\ y.contexts = x.contexts /\ y.generation = x.generation
      /\ y.link = x.link /\ y.source = x.source /\ y.deferred = x.deferred /\ y.indicator = x.indicator
      /\ y.hotkey = x.hotkey /\ y.waits = x.waits /\ y.closing = x.closing /\ y.fault = x.fault
      /\ y.pasted = x.pasted /\ y.last = x.last
  BY FieldsAre DEF Keeps
<1>2. Typed(y)
  BY <1>1 DEF Well, Typed, TypedQueue, TypedRest, Keeps
<1>3. Alike(x, y)
  BY DEF Alike, Keeps
<1>4. Common(y)
  <2>1. Common(x)
    BY DEF Well, Good
  <2>2. \A u \in Ids : SourceOK(y, u)
    BY <1>1, <2>1 DEF Common, SourceOK, Current
  <2>3. OneOpen(y)
    BY <1>1, <2>1 DEF Common, OneOpen, Open
  <2>4. Together(y)
    BY <1>1, <2>1 DEF Common, Together, Current
  <2>5. EventsOK(y)
    BY <1>1, <2>1 DEF Common, EventsOK, EventOK
  <2>6. Once(y)
    BY <1>1, <2>1 DEF Common, Once, OnceOK, Closed, Records, Heard
  <2> QED
    BY <2>2, <2>3, <2>4, <2>5, <2>6 DEF Common
<1>5. Lamp(y)
  BY <1>1, <1>3, AlikePhrases DEF Well, Lamp
<1> QED
  BY <1>2, <1>3, <1>4, <1>5, AlikeWell

LEMMA Pushed == ASSUME NEW S, NEW q \in Seq(S), NEW f \in S
  PROVE LET y == <<f>> \o q IN
    /\ y \in Seq(S) /\ Len(y) = Len(q) + 1 /\ y[1] = f /\ 1 \in DOMAIN y
    /\ \A j \in DOMAIN q : j + 1 \in DOMAIN y /\ y[j + 1] = q[j]
    /\ \A i \in DOMAIN y : i = 1 \/ \E j \in DOMAIN q : i = j + 1
<1> DEFINE y == <<f>> \o q
<1>1. y \in Seq(S) /\ Len(y) = Len(q) + 1 /\ \A i \in 1..Len(q) + 1 : y[i] = IF i = 1 THEN f ELSE q[i - 1]
  OBVIOUS
<1>2. Len(q) \in Nat /\ DOMAIN q = 1..Len(q) /\ DOMAIN y = 1..Len(y)
  BY <1>1
<1> HIDE DEF y
<1>3. ASSUME NEW j \in DOMAIN q PROVE j + 1 \in DOMAIN y /\ y[j + 1] = q[j]
  <2>1. j \in Int /\ 1 <= j /\ j <= Len(q)
    BY <1>2
  <2>2. j + 1 \in 1..(Len(q) + 1) /\ j + 1 # 1 /\ (j + 1) - 1 = j
    BY <1>2, <2>1
  <2> QED
    BY <1>1, <1>2, <2>2
<1>4. ASSUME NEW i \in DOMAIN y, i # 1 PROVE \E j \in DOMAIN q : i = j + 1
  <2>1. i \in Int /\ 1 <= i /\ i <= Len(q) + 1
    BY <1>1, <1>2
  <2>2. i - 1 \in 1..Len(q) /\ i = (i - 1) + 1
    BY <1>2, <1>4, <2>1
  <2> QED
    BY <1>2, <2>2
<1>5. y[1] = f /\ 1 \in DOMAIN y
  BY <1>1, <1>2
<1> QED
  BY <1>1, <1>3, <1>4, <1>5 DEF y

\* The delivery loop is entered
LEMMA EnterRight == ASSUME NEW s, Right(s) PROVE Right(Enter(s)) /\ Suspended(Enter(s)) = Suspended(s)
      /\ Enter(s).phrases = s.phrases /\ Enter(s).items = s.items /\ Enter(s).contexts = s.contexts
      /\ Enter(s).generation = s.generation /\ Enter(s).link = s.link /\ Enter(s).source = s.source
      /\ Enter(s).indicator = s.indicator /\ Enter(s).hotkey = s.hotkey
<1> DEFINE f == [tag |-> "pump", uid |-> 0]
           y == [s EXCEPT !.stack = <<f>> \o s.stack]
<1>1. CASE Suspended(s) \/ Pumping(s)
  BY <1>1 DEF Enter
<1>2. CASE ~(Suspended(s) \/ Pumping(s))
  <2>1. Enter(s) = y
    BY <1>2 DEF Enter
  <2>2. f \in FrameType /\ f.tag = "pump"
    <3>1. 0 \in Nums
      BY LimitAssumption DEF Nums
    <3> QED
      BY <3>1 DEF FrameType
  <2> HIDE DEF f
  <2>3. DOMAIN s = Fields /\ s.stack \in Seq(FrameType)
    BY DEF Right, Well, Typed, TypedRest
  <2>4. Keeps(s, y, {"stack"}) /\ y.stack = <<f>> \o s.stack
    BY <2>3, FieldsAre DEF Keeps
  <2>5. /\ y.stack \in Seq(FrameType) /\ y.stack[1] = f /\ 1 \in DOMAIN y.stack
        /\ \A j \in DOMAIN s.stack : j + 1 \in DOMAIN y.stack /\ y.stack[j + 1] = s.stack[j]
        /\ \A i \in DOMAIN y.stack : i = 1 \/ \E j \in DOMAIN s.stack : i = j + 1
    BY <2>2, <2>3, <2>4, Pushed
  <2>6. Well(y)
    BY <2>4, <2>5, StackWell DEF Right
  <2>7. /\ y.phrases = s.phrases /\ y.items = s.items /\ y.contexts = s.contexts /\ y.generation = s.generation /\ y.pasted = s.pasted
        /\ y.link = s.link /\ y.source = s.source /\ y.indicator = s.indicator /\ y.hotkey = s.hotkey
    BY <2>4, FieldsAre DEF Keeps
  <2> HIDE DEF y
  <2>8. \A i \in DOMAIN y.stack : y.stack[i] = f \/ \E j \in DOMAIN s.stack : i = j + 1 /\ y.stack[i] = s.stack[j]
    BY <2>5
  <2>9. \A j \in DOMAIN s.stack : j + 1 \in DOMAIN y.stack /\ y.stack[j + 1] = s.stack[j]
    BY <2>5
  <2>10. \A j \in DOMAIN s.stack : s.stack[j].tag # "paste"
    BY <1>2 DEF Right, Turn, FramesOK, Suspended
  <2>11. FramesOK(y)
    <3>1. ASSUME NEW i \in DOMAIN y.stack, Delivers(y.stack[i])
          PROVE \E j \in DOMAIN s.stack : i = j + 1 /\ y.stack[i] = s.stack[j] /\ Delivers(s.stack[j]) /\ y.stack[i].tag # "paste"
      <4>1. y.stack[i] # f
        BY <2>2, <3>1 DEF Delivers
      <4> QED
        BY <2>8, <2>10, <3>1, <4>1
    <3>2. \A i \in DOMAIN y.stack : Delivers(y.stack[i]) => FrameOK(y, y.stack[i])
      BY <2>7, <3>1 DEF Right, Turn, FramesOK, FrameOK, PasteOK, Begun
    <3>3. \A i \in DOMAIN y.stack : y.stack[i].tag = "paste" => i = 1
      BY <3>1 DEF Delivers
    <3>4. \A i, j \in DOMAIN y.stack :
       Delivers(y.stack[i]) /\ Delivers(y.stack[j]) /\ y.stack[i].uid = y.stack[j].uid /\ y.stack[i].uid \in y.items => i = j
      BY <2>7, <3>1 DEF Right, Turn, FramesOK
    <3> QED
      BY <3>2, <3>3, <3>4 DEF FramesOK
  <2>12. Behind(y, 0)
    BY <2>7, <2>9 DEF Right, Turn, Behind
  <2>13. InOrderOfPress(y) /\ PastedOK(y)
    BY <2>7 DEF Right, Turn, InOrderOfPress, PastedOK, Begun
  <2>14. Suspended(y) = Suspended(s)
    <3>1. ~Suspended(y)
      BY <2>2, <2>5 DEF Suspended
    <3>2. ~Suspended(s)
      BY <1>2
    <3>3. Suspended(y) \in BOOLEAN /\ Suspended(s) \in BOOLEAN
      BY DEF Suspended
    <3> QED
      BY <3>1, <3>2, <3>3
  <2>15. Right(y)
    BY <2>6, <2>11, <2>12, <2>13 DEF Right, Turn
  <2> QED
    BY <2>1, <2>7, <2>14, <2>15
<1> QED
  BY <1>1, <1>2

\* The phrase u gets on, everything else is as it was
LEMMA RiseWell ==
  ASSUME NEW s, NEW t, Well(s), NEW u \in Nums, PhraseOnly(s, t, u), t.items = s.items,
         t.phrases[u].capture = s.phrases[u].capture, t.phrases[u].pending = s.phrases[u].pending,
         PhraseOK(t, u), Wake(t, u), Glow(t, u), Burns(s, u) => Burns(t, u), u \in Ids => OnceOK(t, u)
  PROVE Well(t)
<1>1. Typed(t) /\ GoodBut(t, u)
  BY GoodUnder DEF Well, Good, GoodBut
<1>2. Good(t)
  BY <1>1 DEF Good, GoodBut
<1>3. \A v \in Nums \ {u} : Wake(t, v) /\ Glow(t, v) /\ (Burns(s, v) => Burns(t, v))
  BY LocalOthers DEF Well, Awake, Glowing
<1>4. t.indicator = s.indicator
  BY ChangesRest
<1>5. Lamp(t)
  BY <1>3, <1>4 DEF Well, Lamp
<1> QED
  BY <1>1, <1>2, <1>3, <1>5 DEF Well, Awake, Glowing

\* No frame delivers u; no paste is under way
Unframed(s, u) == \A i \in DOMAIN s.stack : Delivers(s.stack[i]) => s.stack[i].uid # u
Pasteless(s) == \A i \in DOMAIN s.stack : s.stack[i].tag # "paste"

\* The phrase u gets on in its turn
LEMMA RiseTurn ==
  ASSUME NEW s, NEW t, NEW w, Typed(s), Turn(s, w), NEW u \in Nums, PhraseOnly(s, t, u), t.items = s.items, Unframed(s, u),
         t.phrases[u].waiting => t.phrases[u].phase = "pasting" /\ "busy" \notin t.phrases[u].timers,
         t.phrases[u].phase = "pasting" =>
           \/ s.phrases[u].phase = "pasting"
           \/ (\A v \in s.items : u <= v) /\ (\A v \in s.items \ {u} : s.phrases[v].phase # "pasting") /\ Pasteless(s)
  PROVE Turn(t, w) /\ Unframed(t, u)
<1>1. t.stack = s.stack /\ t.pasted = s.pasted
  BY ChangesRest
<1>2. Ids \subseteq Nums /\ s.items \subseteq Nums
  BY TypedFacts DEF Ids, Nums
<1>3. \A v \in Nums : Begun(t, v) <=> Begun(s, v)
  BY DEF PhraseOnly, Begun
<1>4. \A v \in Nums \ {u} : t.phrases[v] = s.phrases[v]
  BY DEF PhraseOnly
<1>5. InOrderOfPress(t)
  <2>1. \A v, z \in t.items : t.phrases[v].phase = "pasting" => v <= z
    BY <1>2, <1>4 DEF Turn, InOrderOfPress
  <2>2. \A v \in t.items : t.phrases[v].waiting => t.phrases[v].phase = "pasting" /\ "busy" \notin t.phrases[v].timers
    BY <1>2, <1>4 DEF Turn, InOrderOfPress
  <2>3. \A v, z \in Ids : v < z /\ Begun(t, z) => Begun(t, v)
    BY <1>2, <1>3 DEF Turn, InOrderOfPress
  <2> QED
    BY <2>1, <2>2, <2>3 DEF InOrderOfPress
<1>6. PastedOK(t)
  <2>1. \A i \in DOMAIN s.pasted : s.pasted[i] \in Ids
    BY ElementOfSeq DEF Typed, TypedRest
  <2> QED
    BY <1>1, <1>2, <1>3, <2>1 DEF Turn, PastedOK
<1>7. FramesOK(t)
  <2>1. ASSUME NEW i \in DOMAIN s.stack, Delivers(s.stack[i]) PROVE FrameOK(t, s.stack[i])
    <3> DEFINE f == s.stack[i]
    <3>1. FrameOK(s, f) /\ f.uid # u
      BY <2>1 DEF Turn, FramesOK, Unframed
    <3>2. f.uid \in Ids /\ f.uid \in Nums /\ Begun(t, f.uid) /\ t.phrases[f.uid] = s.phrases[f.uid]
      BY <1>2, <1>3, <1>4, <3>1 DEF FrameOK
    <3>3. f.tag = "paste" => ~Pasteless(s)
      BY DEF Pasteless
    <3> HIDE DEF f
    <3>4. f.tag = "paste" => PasteOK(t, f.uid)
      BY <1>1, <1>2, <1>4, <3>1, <3>3 DEF FrameOK, PasteOK
    <3>5. FrameOK(t, f)
      BY <3>1, <3>2, <3>4 DEF FrameOK
    <3> QED
      BY <3>5 DEF f
  <2> QED
    BY <1>1, <2>1 DEF Turn, FramesOK
<1>8. Behind(t, w)
  BY <1>1 DEF Turn, Behind
<1> QED
  BY <1>1, <1>5, <1>6, <1>7, <1>8 DEF Turn, Unframed

\* The frame of a paste
LEMMA PasteRight ==
  ASSUME NEW s, Right(s), NEW u \in s.items, Still(s, u, "pasting"), Unframed(s, u),
         ~s.phrases[u].waiting, "busy" \notin s.phrases[u].timers
  PROVE Right([s EXCEPT !.stack = <<[tag |-> "paste", uid |-> u]>> \o @])
<1> DEFINE f == [tag |-> "paste", uid |-> u]
           y == [s EXCEPT !.stack = <<f>> \o s.stack]
<1>0. Typed(s) /\ Good(s) /\ u \in Nums /\ u \in Ids /\ u # 0 /\ Begun(s, u) /\ s.items \subseteq Nums
  BY ItemFacts, TypedFacts DEF Right, Well, Begun
<1>1. f \in FrameType /\ f.tag = "paste" /\ f.uid = u
  BY <1>0 DEF FrameType
<1> HIDE DEF f
<1>2. DOMAIN s = Fields /\ s.stack \in Seq(FrameType)
  BY <1>0 DEF Typed, TypedRest
<1>3. Keeps(s, y, {"stack"}) /\ y.stack = <<f>> \o s.stack
  BY <1>2, FieldsAre DEF Keeps
<1>4. /\ y.stack \in Seq(FrameType) /\ y.stack[1] = f /\ 1 \in DOMAIN y.stack
      /\ \A j \in DOMAIN s.stack : j + 1 \in DOMAIN y.stack /\ y.stack[j + 1] = s.stack[j]
      /\ \A i \in DOMAIN y.stack : i = 1 \/ \E j \in DOMAIN s.stack : i = j + 1
  BY <1>1, <1>2, <1>3, Pushed
<1>5. Well(y)
  BY <1>3, <1>4, StackWell DEF Right
<1>6. /\ y.phrases = s.phrases /\ y.items = s.items /\ y.pasted = s.pasted
  BY <1>3, FieldsAre DEF Keeps
<1> HIDE DEF y
<1>7. \A i \in DOMAIN y.stack : (i = 1 /\ y.stack[i] = f) \/ \E j \in DOMAIN s.stack : i = j + 1 /\ y.stack[i] = s.stack[j]
  BY <1>4
<1>8. \A v \in s.items : u <= v /\ (s.phrases[v].phase = "pasting" => v = u)
  <2>1. \A v \in s.items : u <= v /\ (s.phrases[v].phase = "pasting" => v <= u)
    BY <1>0 DEF Right, Turn, InOrderOfPress, Still
  <2> QED
    BY <1>0, <2>1 DEF Nums
<1>9. \A j \in DOMAIN s.pasted : s.pasted[j] < u
  BY <1>0 DEF Right, Turn, Behind, Unframed, Typing, Delivers
<1>10. FrameOK(y, f)
  <2>1. PasteOK(y, u)
    BY <1>6, <1>8, <1>9 DEF PasteOK
  <2>2. ~Typing(f)
    BY <1>1 DEF Typing
  <2> QED
    BY <1>0, <1>1, <1>6, <2>1, <2>2 DEF FrameOK, Begun, Still
<1>11. ASSUME NEW j \in DOMAIN s.stack, s.stack[j].tag = "paste" PROVE FALSE
  <2>1. FrameOK(s, s.stack[j]) /\ s.stack[j].uid # u
    BY <1>11 DEF Right, Turn, FramesOK, Delivers, Unframed
  <2> QED
    BY <1>11, <2>1 DEF FrameOK, PasteOK, Still
<1>12. FramesOK(y)
  <2>1. ASSUME NEW i \in DOMAIN y.stack, Delivers(y.stack[i]) PROVE FrameOK(y, y.stack[i])
    <3>1. CASE y.stack[i] = f
      BY <1>10, <3>1
    <3>2. CASE \E j \in DOMAIN s.stack : i = j + 1 /\ y.stack[i] = s.stack[j]
      BY <1>6, <2>1, <3>2 DEF Right, Turn, FramesOK, FrameOK, PasteOK, Begun
    <3> QED
      BY <1>7, <3>1, <3>2
  <2>2. \A i \in DOMAIN y.stack : y.stack[i].tag = "paste" => i = 1
    BY <1>7, <1>11
  <2>3. ASSUME NEW i \in DOMAIN y.stack, NEW k \in DOMAIN y.stack, Delivers(y.stack[i]), Delivers(y.stack[k]),
               y.stack[i].uid = y.stack[k].uid, y.stack[i].uid \in y.items
        PROVE i = k
    <3>1. CASE i = 1 /\ y.stack[i] = f
      BY <1>1, <1>7, <2>3, <3>1 DEF Unframed
    <3>2. CASE k = 1 /\ y.stack[k] = f
      BY <1>1, <1>7, <2>3, <3>2 DEF Unframed
    <3>3. CASE (\E j \in DOMAIN s.stack : i = j + 1 /\ y.stack[i] = s.stack[j]) /\ (\E j \in DOMAIN s.stack : k = j + 1 /\ y.stack[k] = s.stack[j])
      BY <1>6, <2>3, <3>3 DEF Right, Turn, FramesOK
    <3> QED
      BY <1>7, <3>1, <3>2, <3>3
  <2> QED
    BY <2>1, <2>2, <2>3 DEF FramesOK
<1>13. Behind(y, 0)
  BY <1>4, <1>6 DEF Right, Turn, Behind
<1>14. InOrderOfPress(y) /\ PastedOK(y)
  BY <1>6 DEF Right, Turn, InOrderOfPress, PastedOK, Begun
<1>15. Right(y)
  BY <1>5, <1>12, <1>13, <1>14 DEF Right, Turn
<1> QED
  BY <1>15 DEF y, f

\* _attempt_paste up to the paste
LEMMA AttemptPasteRight ==
  ASSUME NEW s, Right(s), NEW u \in s.contexts, Unframed(s, u), ~s.phrases[u].waiting, "busy" \notin s.phrases[u].timers
  PROVE Right(AttemptPaste(s, u))
<1> DEFINE p == s.phrases[u]
<1>0. Typed(s) /\ Good(s) /\ u \in Nums /\ Well(s) /\ p \in PhraseType /\ PhraseOK(s, u) /\ Wake(s, u) /\ Glow(s, u)
  BY TypedFacts, PhraseTyped DEF Right, Well, Good, Awake, Glowing
<1>1. CASE ~Still(s, u, "pasting")
  <2>1. AttemptPaste(s, u) = s
    BY <1>1 DEF AttemptPaste
  <2> QED
    BY <2>1
<1>a. Still(s, u, "pasting") => u \in s.items
  BY <1>0, EndedFacts DEF Still, Busy
<1>2. CASE Still(s, u, "pasting") /\ p.gen # s.generation
  <2>1. AttemptPaste(s, u) = FailRestarted(s, u)
    BY <1>2 DEF AttemptPaste
  <2>2. Dead(s, u)
    BY <1>0, <1>a, <1>2, LossOld DEF Current
  <2>3. Fine(s, FailRestarted(s, u))
    BY <1>0, <2>2, FailRestartedFull, FullFine
  <2> QED
    BY <2>1, <2>3, FineRight
<1>3. CASE Still(s, u, "pasting") /\ p.gen = s.generation /\ OtherRecording(s, u)
  <2> DEFINE q == [p EXCEPT !.waiting = TRUE]
             t == With(s, u, q)
  <2>1. AttemptPaste(s, u) = t
    BY <1>3 DEF AttemptPaste, With
  <2>2. q \in PhraseType /\ Same(p, q, {"waiting"})
    BY <1>0, FieldsAre DEF PhraseType, Same
  <2> HIDE DEF q
  <2>3. Changes(s, t, u, {"waiting"}) /\ t.phrases[u] = q
    BY <1>0, <2>2, WithChanges
  <2> HIDE DEF t
  <2>4. PhraseOnly(s, t, u) /\ t.items = s.items /\ t.contexts = s.contexts /\ t.generation = s.generation
    BY <1>0, <2>3, ChangesRest DEF Changes
  <2>5. /\ t.phrases[u].gen = p.gen /\ t.phrases[u].capture = p.capture /\ t.phrases[u].pending = p.pending
        /\ t.phrases[u].awaits = p.awaits /\ t.phrases[u].job = p.job /\ t.phrases[u].phase = p.phase
        /\ t.phrases[u].cancelled = p.cancelled /\ t.phrases[u].timers = p.timers /\ t.phrases[u].shown = p.shown
        /\ t.phrases[u].result = p.result /\ t.phrases[u].delivered = p.delivered
    BY <2>2, <2>3, FieldsAre DEF Same
  <2>6. PhraseOK(t, u)
    BY <1>0, <2>4, <2>5 DEF PhraseOK, Current
  <2>7. Wake(t, u) /\ Glow(t, u) /\ (Burns(s, u) => Burns(t, u))
    BY <1>0, <2>4, <2>5 DEF Wake, Glow, Burns, Current, Alarm
  <2>a. u \in Ids => OnceOK(t, u)
    <3>1. Closed(t, u) => Closed(s, u)
      BY <2>4, <2>5 DEF Closed, Records
    <3> QED
      BY <1>0, <2>4, <3>1, OnceUnder DEF Good, Common, Once
  <2>8. Well(t)
    BY <1>0, <2>4, <2>5, <2>6, <2>7, <2>a, RiseWell
  <2>9. Turn(t, 0)
    BY <1>0, <1>3, <2>4, <2>5, RiseTurn DEF Right, Still
  <2> QED
    BY <2>1, <2>8, <2>9 DEF Right
<1>4. CASE Still(s, u, "pasting") /\ p.gen = s.generation /\ ~OtherRecording(s, u)
  <2>1. AttemptPaste(s, u) = [s EXCEPT !.stack = <<[tag |-> "paste", uid |-> u]>> \o @]
    BY <1>4 DEF AttemptPaste
  <2> QED
    BY <1>4, <1>a, <2>1, PasteRight
<1> QED
  BY <1>1, <1>2, <1>3, <1>4

LEMMA FinishFine ==
  ASSUME NEW s, Well(s), NEW u \in s.items, ~s.phrases[u].cancelled
  PROVE Fine(s, Finish(s, u)) /\ u \notin Finish(s, u).items
<1> DEFINE y == Finish(s, u)
<1>0. Typed(s) /\ Good(s) /\ Wake(s, u) /\ u \in Ids /\ u \in Nums
  BY ItemFacts DEF Well, Awake
<1>1. s.phrases[u].gen > 0 /\ ~s.phrases[u].awaits /\ GoodBut(s, u) /\ ~s.phrases[u].job
  BY <1>0, ItemFacts DEF Wake
<1>2. Mend(s, y, u) /\ u \in y.contexts \ y.items /\ Lamp(y) /\ Wake(y, u)
  BY <1>0, <1>1, FinishMend
<1> HIDE DEF y
<1>3. Glow(y, u)
  BY <1>0, <1>2, NoItemGlows DEF Mend
<1>4. Fine(s, y)
  BY <1>0, <1>2, <1>3, MendFine DEF Well, Awake, Glowing
<1> QED
  BY <1>2, <1>4 DEF y

\* Nobody has told of a result of u yet
Unheard(s, u) == "recognize" \notin s.waits[u] /\ Heard(s, u) = {} /\ ~Closed(s, u)

LEMMA RightOnce == ASSUME NEW s, Right(s), NEW u \in s.items PROVE u \in Ids /\ u \in Nums /\ OnceOK(s, u)
BY ItemFacts DEF Right, Well, Good, Common, Once

\* A phrase in a frame is being pasted
LEMMA Framed == ASSUME NEW s, Right(s), NEW u \in s.items, ~Unframed(s, u)
  PROVE s.phrases[u].phase = "pasting" /\ ~s.phrases[u].waiting /\ "busy" \notin s.phrases[u].timers
BY DEF Right, Turn, FramesOK, FrameOK, Unframed

\* Without a paste on top there is none
LEMMA Unsuspended == ASSUME NEW s, Right(s), ~Suspended(s) PROVE Pasteless(s)
BY DEF Right, Turn, FramesOK, Suspended, Pasteless

\* _deliver_result
LEMMA DeliverRight ==
  ASSUME NEW s, Right(s), Pasteless(s), NEW u \in s.items, Still(s, u, "processing"), s.phrases[u].result = "none",
         \A v \in s.items : u <= v, NEW what \in Results
  PROVE Right(DeliverResult(s, u, what))
<1> DEFINE p == s.phrases[u]
           a == Phase(s, u, "pasting")
<1>0. Typed(s) /\ Good(s) /\ u \in Nums /\ Well(s) /\ p \in PhraseType /\ PhraseOK(s, u) /\ Wake(s, u) /\ Glow(s, u)
      /\ u \in s.contexts
  BY TypedFacts, PhraseTyped DEF Right, Well, Good, Awake, Glowing
<1>1. CASE what = "blank"
  <2>1. DeliverResult(s, u, what) = Finish(s, u)
    BY <1>1 DEF DeliverResult
  <2> QED
    BY <1>0, <2>1, FinishFine, FineRight DEF Still
<1>2. CASE what # "blank"
  <2>1. DeliverResult(s, u, what) = AttemptPaste(a, u)
    BY <1>2 DEF DeliverResult
  <2>2. PhraseOnly(s, a, u) /\ a.phrases[u].phase = "pasting" /\ a.items = s.items /\ Same(p, a.phrases[u], {"phase"})
    BY <1>0, PhaseIs DEF Over, Phases
  <2> HIDE DEF a
  <2>3. a.contexts = s.contexts /\ a.generation = s.generation
    BY <1>0, <2>2, ChangesRest
  <2>4. /\ a.phrases[u].gen = p.gen /\ a.phrases[u].capture = p.capture /\ a.phrases[u].pending = p.pending
        /\ a.phrases[u].awaits = p.awaits /\ a.phrases[u].job = p.job
        /\ a.phrases[u].cancelled = p.cancelled /\ a.phrases[u].timers = p.timers /\ a.phrases[u].shown = p.shown
        /\ a.phrases[u].result = p.result /\ a.phrases[u].delivered = p.delivered /\ a.phrases[u].waiting = p.waiting
    BY <2>2, FieldsAre DEF Same
  <2>5. p.phase = "processing" /\ "busy" \notin p.timers /\ ~p.waiting /\ Unframed(s, u)
    <3>1. p.phase = "processing"
      BY DEF Still
    <3>2. ~p.waiting
      BY <3>1 DEF Right, Turn, InOrderOfPress
    <3>3. Unframed(s, u)
      BY <3>1, Framed
    <3> QED
      BY <1>0, <3>1, <3>2, <3>3 DEF PhraseOK
  <2>6. PhraseOK(a, u)
    BY <1>0, <2>2, <2>3, <2>4, <2>5 DEF PhraseOK, Current, Busy
  <2>7. Wake(a, u) /\ Glow(a, u) /\ (Burns(s, u) => Burns(a, u))
    BY <1>0, <2>2, <2>3, <2>4 DEF Wake, Glow, Burns, Current, Alarm
  <2>8. OnceOK(a, u)
    <3>1. Closed(a, u) => Closed(s, u)
      BY <2>2, <2>4 DEF Closed, Records
    <3> QED
      BY <1>0, <2>2, <3>1, RightOnce, OnceUnder
  <2>9. Well(a)
    BY <1>0, <2>2, <2>4, <2>6, <2>7, <2>8, RiseWell
  <2>10. \A v \in s.items \ {u} : s.phrases[v].phase # "pasting"
    <3> SUFFICES ASSUME NEW v \in s.items \ {u}, s.phrases[v].phase = "pasting" PROVE FALSE
      OBVIOUS
    <3>1. v <= u /\ u <= v
      BY DEF Right, Turn, InOrderOfPress
    <3>2. v \in Nat /\ u \in Nat
      BY <1>0, TypedFacts DEF Nums
    <3> QED
      BY <3>1, <3>2
  <2>11. Turn(a, 0) /\ Unframed(a, u)
    BY <1>0, <2>2, <2>4, <2>5, <2>10, RiseTurn DEF Right
  <2>12. Right(AttemptPaste(a, u))
    BY <1>0, <2>3, <2>4, <2>5, <2>9, <2>11, AttemptPasteRight DEF Right
  <2> QED
    BY <2>1, <2>12
<1> QED
  BY <1>1, <1>2

LEMMA KeepNone ==
  ASSUME NEW s, Typed(s), NEW u \in s.items, ~s.phrases[u].pending
  PROVE LET y == Keep(s, u, {}) IN Full(s, y) /\ Changes(s, y, u, {"timers"})
<1> DEFINE y == Keep(s, u, {})
<1>1. u \in Nums /\ u \in s.contexts
  BY TypedFacts
<1>2. Changes(s, y, u, {"timers"}) /\ y.phrases[u].timers = {}
  BY <1>1, KeepIs
<1> HIDE DEF y
<1>3. PhraseOnly(s, y, u) /\ y.items = s.items /\ y.contexts = s.contexts /\ y.generation = s.generation
  BY <1>1, <1>2, ChangesRest DEF Changes
<1>4. /\ y.phrases[u].phase = s.phrases[u].phase /\ y.phrases[u].gen = s.phrases[u].gen
      /\ y.phrases[u].cancelled = s.phrases[u].cancelled /\ y.phrases[u].pending = s.phrases[u].pending
      /\ y.phrases[u].job = s.phrases[u].job /\ y.phrases[u].capture = s.phrases[u].capture
      /\ y.phrases[u].shown = s.phrases[u].shown /\ y.phrases[u].awaits = s.phrases[u].awaits
      /\ y.phrases[u].delivered = s.phrases[u].delivered /\ y.phrases[u].result = s.phrases[u].result
      /\ y.phrases[u].waiting = s.phrases[u].waiting
  BY <1>2, FieldsAre DEF Changes, Same
<1>5. EbbPhrase(s, y, u)
  BY <1>2, <1>3, <1>4 DEF EbbPhrase
<1>6. Good(s) => PhraseOK(y, u)
  BY <1>1, <1>2, <1>3, <1>4 DEF Good, PhraseOK, Current
<1>7. Good(s) /\ Wake(s, u) => Wake(y, u)
  BY <1>1, <1>2, <1>3, <1>4 DEF Good, PhraseOK, Wake, Current, Alarm
<1>8. (Burns(s, u) => Burns(y, u)) /\ (Glow(s, u) => Glow(y, u))
  BY <1>2, <1>3, <1>4 DEF Burns, Current, Alarm, Glow
<1>9. Full(s, y)
  BY <1>1, <1>3, <1>4, <1>5, <1>6, <1>7, <1>8, LocalFull
<1> QED
  BY <1>2, <1>9 DEF y

LEMMA InTurnIs == ASSUME NEW s, Typed(s), NEW u \in s.items, InTurn(s, u) PROVE \A v \in s.items : u <= v
<1>1. s.items \subseteq Nums /\ s.items # {}
  BY TypedFacts
<1>2. Min(s.items) = u
  BY <1>1 DEF InTurn
<1> QED
  BY <1>1, <1>2, MinIs

\* One phrase gets another result
LEMMA ResultSet ==
  ASSUME NEW s, Right(s), NEW u \in s.items, Still(s, u, "processing"), NEW r \in Outcomes,
         r # "none" => "recognize" \notin s.waits[u] /\ Heard(s, u) = {}
  PROVE LET a == [s EXCEPT !.phrases[u].result = r] IN
    /\ Right(a) /\ a.items = s.items /\ a.stack = s.stack /\ Still(a, u, "processing") /\ a.phrases[u].result = r
<1> DEFINE p == s.phrases[u]
           q == [p EXCEPT !.result = r]
           a == With(s, u, q)
<1>0. Typed(s) /\ Good(s) /\ u \in Nums /\ Well(s) /\ p \in PhraseType /\ PhraseOK(s, u) /\ Wake(s, u) /\ Glow(s, u)
  BY TypedFacts, PhraseTyped DEF Right, Well, Good, Awake, Glowing
<1>1. q \in PhraseType /\ Same(p, q, {"result"}) /\ q.result = r
  BY <1>0, FieldsAre DEF PhraseType, Same
<1>2. [s EXCEPT !.phrases[u].result = r] = a
  BY DEF With
<1> HIDE DEF q
<1>3. Changes(s, a, u, {"result"}) /\ a.phrases[u] = q
  BY <1>0, <1>1, WithChanges
<1> HIDE DEF a
<1>4. PhraseOnly(s, a, u) /\ a.items = s.items /\ a.contexts = s.contexts /\ a.generation = s.generation
      /\ a.waits = s.waits /\ a.deferred = s.deferred /\ a.stack = s.stack
  BY <1>0, <1>3, ChangesRest DEF Changes
<1>5. /\ a.phrases[u].gen = p.gen /\ a.phrases[u].capture = p.capture /\ a.phrases[u].pending = p.pending
      /\ a.phrases[u].awaits = p.awaits /\ a.phrases[u].job = p.job /\ a.phrases[u].phase = p.phase
      /\ a.phrases[u].cancelled = p.cancelled /\ a.phrases[u].timers = p.timers /\ a.phrases[u].shown = p.shown
      /\ a.phrases[u].waiting = p.waiting /\ a.phrases[u].delivered = p.delivered
  BY <1>1, <1>3, FieldsAre DEF Same
<1>6. p.phase = "processing" /\ ~p.cancelled
  BY DEF Still
<1>7. PhraseOK(a, u)
  BY <1>0, <1>4, <1>5, <1>6 DEF PhraseOK, Current
<1>8. Wake(a, u) /\ Glow(a, u) /\ (Burns(s, u) => Burns(a, u))
  BY <1>0, <1>4, <1>5, <1>6 DEF Wake, Glow, Burns, Current, Alarm
<1>9. OnceOK(a, u)
  <2>1. OnceOK(s, u)
    BY RightOnce
  <2>2. Heard(a, u) = Heard(s, u)
    BY <1>4 DEF Heard
  <2>3. Closed(a, u) => Closed(s, u) \/ ("recognize" \notin s.waits[u] /\ Heard(s, u) = {})
    BY <1>1, <1>3, <1>4, <1>5 DEF Closed, Records
  <2> QED
    BY <1>4, <1>5, <2>1, <2>2, <2>3 DEF OnceOK
<1>10. Well(a)
  BY <1>0, <1>4, <1>5, <1>7, <1>8, <1>9, RiseWell
<1>11. Unframed(s, u)
  BY <1>6, Framed
<1>12. Turn(a, 0)
  <2>1. ~p.waiting
    BY <1>6 DEF Right, Turn, InOrderOfPress
  <2> QED
    BY <1>0, <1>4, <1>5, <1>6, <1>11, <2>1, RiseTurn DEF Right
<1> QED
  BY <1>1, <1>2, <1>3, <1>4, <1>5, <1>6, <1>10, <1>12 DEF Right, Still

\* _result, in its turn or kept until then
LEMMA ResultRight ==
  ASSUME NEW s, Right(s), ~Suspended(s), NEW u \in s.contexts, NEW what, Resulting(s, u, what), Unheard(s, u)
  PROVE Right(Result(s, u, what))
<1> DEFINE t == Keep(s, u, {})
<1>0. Typed(s) /\ Good(s) /\ Well(s) /\ u \in s.items /\ u \in Nums /\ what \in Results /\ s.phrases[u].result = "none"
  <2>1. Typed(s) /\ Good(s) /\ Well(s)
    BY DEF Right, Well
  <2>2. u \in s.items /\ u \in Nums
    BY <2>1, EndedFacts DEF Resulting, Busy
  <2> QED
    BY <2>1, <2>2 DEF Resulting, Results, Unheard, Closed
<1>1. Full(s, t) /\ Changes(s, t, u, {"timers"})
  BY <1>0, KeepNone DEF Resulting
<1> HIDE DEF t
<1>2. Right(t)
  BY <1>0, <1>1, FullFine, FineRight
<1>3. t.items = s.items /\ t.waits = s.waits /\ t.deferred = s.deferred /\ Suspended(t) = Suspended(s)
  BY <1>0, <1>1, ChangesRest DEF Changes, Suspended
<1>4. t.phrases[u].result = "none" /\ Still(t, u, "processing") /\ u \in t.items
  BY <1>0, <1>1, FieldsAre DEF Changes, Same, Still, Resulting
<1>5. "recognize" \notin t.waits[u] /\ Heard(t, u) = {}
  BY <1>3 DEF Unheard, Heard
<1>6. CASE InTurn(s, u)
  <2>1. Result(s, u, what) = DeliverResult(t, u, what)
    BY <1>6 DEF Result, t
  <2>2. \A v \in t.items : u <= v
    BY <1>0, <1>3, <1>6, InTurnIs
  <2>3. Pasteless(t)
    BY <1>2, <1>3, Unsuspended
  <2> QED
    BY <1>0, <1>2, <1>4, <2>1, <2>2, <2>3, DeliverRight
<1>7. CASE ~InTurn(s, u)
  <2>1. Result(s, u, what) = [t EXCEPT !.phrases[u].result = what]
    BY <1>7 DEF Result, t
  <2>2. what \in Outcomes
    BY <1>0 DEF Results, Outcomes
  <2> QED
    BY <1>2, <1>4, <1>5, <2>1, <2>2, ResultSet
<1> QED
  BY <1>6, <1>7

\* The frames but for what they remember
Twin(f, g) == f.tag = g.tag /\ f.uid = g.uid /\ (f.tag = "drain" => f.kind = g.kind)

\* Frames may go or change what they remember
LEMMA Reframed ==
  ASSUME NEW x, NEW y, NEW w, NEW d \in {0, 1}, Right(x), Keeps(x, y, {"stack"}), y.stack \in Seq(FrameType),
         \A i \in DOMAIN y.stack : Delivers(y.stack[i]) => i + d \in DOMAIN x.stack /\ Twin(x.stack[i + d], y.stack[i]),
         \A j \in DOMAIN x.stack : Typing(x.stack[j]) => x.stack[j].uid = w \/ \E i \in DOMAIN y.stack : Twin(x.stack[j], y.stack[i])
  PROVE Well(y) /\ Turn(y, w)
<1>1. /\ y.phrases = x.phrases /\ y.items = x.items /\ y.contexts = x.contexts /\ y.generation = x.generation
      /\ y.pasted = x.pasted
  BY FieldsAre DEF Keeps
<1>2. Well(y)
  BY StackWell DEF Right
<1>3. InOrderOfPress(y) /\ PastedOK(y)
  BY <1>1 DEF Right, Turn, InOrderOfPress, PastedOK, Begun
<1>4. FramesOK(y)
  <2>0. DOMAIN y.stack = 1..Len(y.stack) /\ Len(y.stack) \in Nat
    OBVIOUS
  <2>1. \A i \in DOMAIN y.stack : Delivers(y.stack[i]) => FrameOK(y, y.stack[i])
    <3> SUFFICES ASSUME NEW i \in DOMAIN y.stack, Delivers(y.stack[i]) PROVE FrameOK(y, y.stack[i])
      OBVIOUS
    <3>1. i + d \in DOMAIN x.stack /\ Twin(x.stack[i + d], y.stack[i])
      OBVIOUS
    <3>2. FrameOK(x, x.stack[i + d])
      BY <3>1 DEF Right, Turn, FramesOK, Twin, Delivers
    <3> QED
      BY <1>1, <3>1, <3>2 DEF FrameOK, PasteOK, Begun, Twin, Typing
  <2>2. \A i \in DOMAIN y.stack : y.stack[i].tag = "paste" => i = 1
    <3> SUFFICES ASSUME NEW i \in DOMAIN y.stack, y.stack[i].tag = "paste" PROVE i = 1
      OBVIOUS
    <3>1. i + d \in DOMAIN x.stack /\ Twin(x.stack[i + d], y.stack[i])
      BY DEF Delivers
    <3>2. i + d = 1
      BY <3>1 DEF Right, Turn, FramesOK, Twin
    <3> QED
      BY <2>0, <3>2
  <2>3. \A i, j \in DOMAIN y.stack :
       Delivers(y.stack[i]) /\ Delivers(y.stack[j]) /\ y.stack[i].uid = y.stack[j].uid /\ y.stack[i].uid \in y.items => i = j
    <3> SUFFICES ASSUME NEW i \in DOMAIN y.stack, NEW j \in DOMAIN y.stack, Delivers(y.stack[i]), Delivers(y.stack[j]),
                        y.stack[i].uid = y.stack[j].uid, y.stack[i].uid \in y.items
                 PROVE i = j
      OBVIOUS
    <3>1. i + d \in DOMAIN x.stack /\ Twin(x.stack[i + d], y.stack[i]) /\ j + d \in DOMAIN x.stack /\ Twin(x.stack[j + d], y.stack[j])
      OBVIOUS
    <3>2. i + d = j + d
      BY <1>1, <3>1 DEF Right, Turn, FramesOK, Twin, Delivers
    <3> QED
      BY <2>0, <3>2
  <2> QED
    BY <2>1, <2>2, <2>3 DEF FramesOK
<1>5. Behind(y, w)
  <2> SUFFICES ASSUME NEW i \in DOMAIN y.pasted, NEW u \in y.items, ~(y.pasted[i] < u)
               PROVE y.pasted[i] = u /\ (u = w \/ \E j \in DOMAIN y.stack : Typing(y.stack[j]) /\ y.stack[j].uid = u)
    BY DEF Behind
  <2>1. x.pasted[i] = u /\ (u = 0 \/ \E j \in DOMAIN x.stack : Typing(x.stack[j]) /\ x.stack[j].uid = u)
    BY <1>1 DEF Right, Turn, Behind
  <2>2. u # 0
    BY <1>1, ItemFacts DEF Right, Well
  <2>3. PICK j \in DOMAIN x.stack : Typing(x.stack[j]) /\ x.stack[j].uid = u
    BY <2>1, <2>2
  <2>4. CASE u # w
    <3>1. PICK k \in DOMAIN y.stack : Twin(x.stack[j], y.stack[k])
      BY <2>3, <2>4
    <3>2. Typing(y.stack[k]) /\ y.stack[k].uid = u
      BY <2>3, <3>1 DEF Twin, Typing
    <3> QED
      BY <1>1, <2>1, <3>2
  <2> QED
    BY <1>1, <2>1, <2>4
<1> QED
  BY <1>2, <1>3, <1>4, <1>5 DEF Turn

LEMMA Popped ==
  ASSUME NEW S, NEW q \in Seq(S), q # <<>>
  PROVE /\ Tail(q) \in Seq(S) /\ q[1] \in S /\ Head(q) = q[1] /\ 1 \in DOMAIN q
        /\ \A i \in DOMAIN Tail(q) : i + 1 \in DOMAIN q /\ q[i + 1] = Tail(q)[i] /\ i \in Nat /\ i # 0
        /\ \A j \in DOMAIN q : j = 1 \/ \E i \in DOMAIN Tail(q) : j = i + 1
<1> DEFINE t == Tail(q)
<1>1. t \in Seq(S) /\ Len(t) = Len(q) - 1 /\ \A i \in 1..Len(t) : t[i] = q[i + 1]
  BY HeadTailProperties
<1>2. Len(q) \in Nat \ {0} /\ DOMAIN q = 1..Len(q) /\ DOMAIN t = 1..Len(t) /\ Len(t) \in Nat
  BY <1>1, EmptySeq, LenProperties
<1>3. 1 \in DOMAIN q /\ q[1] \in S /\ Head(q) = q[1]
  BY <1>2
<1> HIDE DEF t
<1>4. ASSUME NEW i \in DOMAIN t PROVE i + 1 \in DOMAIN q /\ q[i + 1] = t[i] /\ i \in Nat /\ i # 0
  BY <1>1, <1>2
<1>5. ASSUME NEW j \in DOMAIN q, j # 1 PROVE \E i \in DOMAIN t : j = i + 1
  <2>1. j - 1 \in DOMAIN t /\ j = (j - 1) + 1
    BY <1>1, <1>2, <1>5
  <2> QED
    BY <2>1
<1> QED
  BY <1>1, <1>3, <1>4, <1>5 DEF t

\* The innermost call returns
LEMMA ReturnFrame ==
  ASSUME NEW s, Right(s), s.stack # <<>>, NEW w, Typing(s.stack[1]) => w = s.stack[1].uid
  PROVE LET y == Return(s) IN
    /\ Well(y) /\ Turn(y, w) /\ y.items = s.items /\ y.phrases = s.phrases /\ y.contexts = s.contexts /\ y.generation = s.generation
    /\ y.pasted = s.pasted /\ Pasteless(y)
    /\ Delivers(s.stack[1]) /\ s.stack[1].uid \in s.items => Unframed(y, s.stack[1].uid)
<1> DEFINE y == Return(s)
<1>1. y = [s EXCEPT !.stack = Tail(s.stack)]
  BY DEF Return
<1> HIDE DEF y
<1>2. s.stack \in Seq(FrameType) /\ DOMAIN s = Fields
  BY DEF Right, Well, Typed, TypedRest
<1>3. Keeps(s, y, {"stack"}) /\ y.stack = Tail(s.stack)
  BY <1>1, <1>2, FieldsAre DEF Keeps
<1>4. y.stack \in Seq(FrameType) /\ 1 \in DOMAIN s.stack
  BY <1>2, <1>3, Popped
<1>5. \A i \in DOMAIN y.stack : i + 1 \in DOMAIN s.stack /\ s.stack[i + 1] = y.stack[i] /\ i + 1 # 1
  <2>1. \A i \in DOMAIN y.stack : i + 1 \in DOMAIN s.stack /\ s.stack[i + 1] = y.stack[i] /\ i \in Nat /\ i # 0
    BY <1>2, <1>3, Popped
  <2> QED
    BY <2>1
<1>6. \A j \in DOMAIN s.stack : j = 1 \/ \E i \in DOMAIN y.stack : s.stack[j] = y.stack[i]
  <2>1. \A j \in DOMAIN s.stack : j = 1 \/ \E i \in DOMAIN y.stack : j = i + 1
    BY <1>2, <1>3, Popped
  <2> QED
    BY <1>5, <2>1
<1>7. Well(y) /\ Turn(y, w)
  <2>1. \A i \in DOMAIN y.stack : Delivers(y.stack[i]) => i + 1 \in DOMAIN s.stack /\ Twin(s.stack[i + 1], y.stack[i])
    BY <1>5 DEF Twin
  <2>2. \A j \in DOMAIN s.stack : Typing(s.stack[j]) => s.stack[j].uid = w \/ \E i \in DOMAIN y.stack : Twin(s.stack[j], y.stack[i])
    BY <1>6 DEF Twin
  <2> QED
    BY <1>3, <1>4, <2>1, <2>2, Reframed
<1>8. Pasteless(y)
  BY <1>5 DEF Right, Turn, FramesOK, Pasteless
<1>9. Delivers(s.stack[1]) /\ s.stack[1].uid \in s.items => Unframed(y, s.stack[1].uid)
  BY <1>4, <1>5 DEF Right, Turn, FramesOK, Unframed
<1>10. y.items = s.items /\ y.phrases = s.phrases /\ y.contexts = s.contexts /\ y.generation = s.generation /\ y.pasted = s.pasted
  BY <1>3, FieldsAre DEF Keeps
<1> QED
  BY <1>7, <1>8, <1>9, <1>10 DEF y

\* The frame on top changes, not what it delivers
LEMMA TopFrame ==
  ASSUME NEW s, Right(s), s.stack # <<>>, NEW g \in FrameType, Twin(s.stack[1], g) \/ (~Delivers(s.stack[1]) /\ ~Delivers(g))
  PROVE LET y == [s EXCEPT !.stack = [s.stack EXCEPT ![1] = g]] IN
    /\ Right(y) /\ Keeps(s, y, {"stack"}) /\ y.stack[1] = g /\ y.stack # <<>>
    /\ \A i \in DOMAIN s.stack : s.stack[i].tag # "paste" => i \in DOMAIN y.stack /\ (i # 1 => y.stack[i] = s.stack[i])
<1> DEFINE q == [s.stack EXCEPT ![1] = g]
           y == [s EXCEPT !.stack = q]
<1>2. s.stack \in Seq(FrameType) /\ DOMAIN s = Fields
  BY DEF Right, Well, Typed, TypedRest
<1>3. Keeps(s, y, {"stack"}) /\ y.stack = q
  BY <1>2, FieldsAre DEF Keeps
<1>4. 1 \in 1..Len(s.stack) /\ DOMAIN s.stack = 1..Len(s.stack)
  BY <1>2, EmptySeq, LenProperties
<1>5. /\ q \in Seq(FrameType) /\ Len(q) = Len(s.stack)
      /\ \A j \in 1..Len(s.stack) : q[j] = IF j = 1 THEN g ELSE s.stack[j]
  BY <1>2, <1>4, ExceptSeq
<1> HIDE DEF q
<1>6. DOMAIN q = DOMAIN s.stack /\ q[1] = g /\ \A j \in DOMAIN q : j = 1 \/ q[j] = s.stack[j]
  BY <1>4, <1>5, LenProperties
<1> HIDE DEF y
<1>7. \A i \in DOMAIN y.stack : Delivers(y.stack[i]) => i + 0 \in DOMAIN s.stack /\ Twin(s.stack[i + 0], y.stack[i])
  <2> SUFFICES ASSUME NEW i \in DOMAIN y.stack, Delivers(y.stack[i])
               PROVE i + 0 \in DOMAIN s.stack /\ Twin(s.stack[i + 0], y.stack[i])
    OBVIOUS
  <2>1. i + 0 = i /\ i \in DOMAIN s.stack
    BY <1>3, <1>4, <1>6
  <2>2. Twin(s.stack[i], y.stack[i])
    BY <1>3, <1>6 DEF Twin
  <2> QED
    BY <2>1, <2>2
<1>8. \A j \in DOMAIN s.stack : Typing(s.stack[j]) => s.stack[j].uid = 0 \/ \E i \in DOMAIN y.stack : Twin(s.stack[j], y.stack[i])
  BY <1>3, <1>6 DEF Twin, Typing, Delivers
<1>9. y.stack \in Seq(FrameType) /\ 0 \in {0, 1}
  BY <1>3, <1>5
<1>10. Right(y)
  BY <1>3, <1>7, <1>8, <1>9, Reframed DEF Right
<1> QED
  BY <1>3, <1>4, <1>5, <1>6, <1>10, EmptySeq DEF y, q

\* One turn of _pump
LEMMA PumpTurnRight ==
  ASSUME NEW s, Right(s), s.stack # <<>>, ~Delivers(s.stack[1]), NEW u \in s.items, \A v \in s.items : u <= v
  PROVE Right(PumpTurn(s, u))
<1> DEFINE p == s.phrases[u]
<1>0. Typed(s) /\ Good(s) /\ Well(s) /\ u \in Nums /\ u \in s.contexts /\ PhraseOK(s, u) /\ Wake(s, u) /\ Glow(s, u)
      /\ p \in PhraseType /\ Pasteless(s)
  <2>1. Pasteless(s)
    BY Unsuspended DEF Suspended, Delivers
  <2> QED
    BY <2>1, TypedFacts, PhraseTyped DEF Right, Well, Good, Awake, Glowing
<1>1. CASE p.result # "none"
  <2> DEFINE a == [s EXCEPT !.phrases[u].result = "none"]
  <2>1. PumpTurn(s, u) = DeliverResult(a, u, p.result)
    BY <1>1 DEF PumpTurn
  <2>2. Still(s, u, "processing")
    BY <1>0, <1>1 DEF PhraseOK, Wake, Still
  <2>3. Right(a) /\ a.items = s.items /\ a.stack = s.stack /\ Still(a, u, "processing") /\ a.phrases[u].result = "none"
    BY <2>2, ResultSet DEF Outcomes
  <2> HIDE DEF a
  <2>4. p.result \in Results
    BY <1>0, <1>1 DEF PhraseType, Outcomes, Results
  <2>5. Pasteless(a)
    BY <1>0, <2>3 DEF Pasteless
  <2> QED
    BY <2>1, <2>3, <2>4, <2>5, DeliverRight
<1>2. CASE p.result = "none" /\ p.phase = "pasting" /\ p.waiting /\ Recording(s) = {}
  <2> DEFINE q == [p EXCEPT !.waiting = FALSE]
             a == With(s, u, q)
  <2>1. PumpTurn(s, u) = AttemptPaste(a, u)
    BY <1>2 DEF PumpTurn, With
  <2>2. q \in PhraseType /\ Same(p, q, {"waiting"}) /\ ~q.waiting
    BY <1>0, FieldsAre DEF PhraseType, Same
  <2> HIDE DEF q
  <2>3. Changes(s, a, u, {"waiting"}) /\ a.phrases[u] = q
    BY <1>0, <2>2, WithChanges
  <2> HIDE DEF a
  <2>4. PhraseOnly(s, a, u) /\ a.items = s.items /\ a.contexts = s.contexts /\ a.generation = s.generation
    BY <1>0, <2>3, ChangesRest DEF Changes
  <2>5. /\ a.phrases[u].gen = p.gen /\ a.phrases[u].capture = p.capture /\ a.phrases[u].pending = p.pending
        /\ a.phrases[u].awaits = p.awaits /\ a.phrases[u].job = p.job /\ a.phrases[u].phase = p.phase
        /\ a.phrases[u].cancelled = p.cancelled /\ a.phrases[u].timers = p.timers /\ a.phrases[u].shown = p.shown
        /\ a.phrases[u].result = p.result /\ a.phrases[u].delivered = p.delivered /\ ~a.phrases[u].waiting
    BY <2>2, <2>3, FieldsAre DEF Same
  <2>6. PhraseOK(a, u)
    BY <1>0, <2>4, <2>5 DEF PhraseOK, Current
  <2>7. Wake(a, u) /\ Glow(a, u) /\ (Burns(s, u) => Burns(a, u))
    BY <1>0, <2>4, <2>5 DEF Wake, Glow, Burns, Current, Alarm
  <2>8. OnceOK(a, u)
    <3>1. Closed(a, u) => Closed(s, u)
      BY <2>4, <2>5 DEF Closed, Records
    <3> QED
      BY <1>0, <2>4, <3>1, RightOnce, OnceUnder
  <2>9. Well(a)
    BY <1>0, <2>4, <2>5, <2>6, <2>7, <2>8, RiseWell
  <2>10. Unframed(s, u)
    BY <1>2, Framed
  <2>11. Turn(a, 0) /\ Unframed(a, u)
    BY <1>0, <1>2, <2>4, <2>5, <2>10, RiseTurn DEF Right
  <2>12. "busy" \notin a.phrases[u].timers
    BY <1>2, <2>5 DEF Right, Turn, InOrderOfPress
  <2>13. Right(AttemptPaste(a, u))
    BY <1>0, <2>4, <2>5, <2>9, <2>11, <2>12, AttemptPasteRight DEF Right
  <2> QED
    BY <2>1, <2>13
<1>3. CASE p.result = "none" /\ ~(p.phase = "pasting" /\ p.waiting /\ Recording(s) = {})
  <2>1. PumpTurn(s, u) = Return(s)
    BY <1>3 DEF PumpTurn
  <2>2. Typing(s.stack[1]) => 0 = s.stack[1].uid
    BY DEF Typing, Delivers
  <2> QED
    BY <2>1, <2>2, ReturnFrame DEF Right
<1> QED
  BY <1>1, <1>2, <1>3

\* What a step leads to is right if the state it takes over is
LEMMA Became == ASSUME NEW y, Right(y), Become(y) PROVE Right(Now')
<1> DEFINE z == [y EXCEPT !.fault = "none"]
<1>1. Typed(y) /\ Well(y) /\ DOMAIN y = Fields
  BY DEF Right, Well, Typed
<1>2. Full(y, z) /\ Keeps(y, z, {"fault"}) /\ z.fault = "none"
  BY <1>1, MendedFull
<1>3. Right(z)
  BY <1>1, <1>2, FullFine, FineRight
<1>4. Now' = z
  <2>1. /\ z.phrases = y.phrases /\ z.items = y.items /\ z.contexts = y.contexts /\ z.last = y.last /\ z.hotkey = y.hotkey
        /\ z.indicator = y.indicator /\ z.deferred = y.deferred /\ z.stack = y.stack /\ z.generation = y.generation
        /\ z.link = y.link /\ z.waits = y.waits /\ z.closing = y.closing /\ z.source = y.source /\ z.pasted = y.pasted
    BY <1>2, FieldsAre DEF Keeps
  <2> HIDE DEF z
  <2>2. DOMAIN z = Fields
    BY <1>2 DEF Keeps
  <2>3. z = [f \in DOMAIN z |-> z[f]]
    BY <1>3 DEF Right, Well, Typed, z
  <2> QED
    BY <1>2, <2>1, <2>2, <2>3, FieldsAre DEF Now, Become
<1> QED
  BY <1>3, <1>4

LEMMA NowIs == Now.phrases = phrases /\ Now.items = items /\ Now.contexts = contexts /\ Now.last = last /\ Now.hotkey = hotkey
  /\ Now.indicator = indicator /\ Now.deferred = deferred /\ Now.stack = stack /\ Now.generation = generation
  /\ Now.link = link /\ Now.waits = waits /\ Now.closing = closing /\ Now.source = source /\ Now.pasted = pasted
  /\ Now.fault = "none"
BY DEF Now

\* Pump
LEMMA PumpStep == ASSUME Right(Now), Pump PROVE Right(Now')
<1> DEFINE g == [stack[1] EXCEPT !.tag = "pumping"]
           s == [Now EXCEPT !.stack = [Now.stack EXCEPT ![1] = g]]
<1>1. stack # <<>> /\ stack[1].tag \in {"pump", "pumping"}
  BY DEF Pump, Top
<1>2. stack[1] \in FrameType
  BY <1>1, NowIs, Popped DEF Right, Well, Typed, TypedRest
<1>3. g \in FrameType /\ ~Delivers(stack[1]) /\ ~Delivers(g)
  BY <1>1, <1>2 DEF FrameType, Delivers
<1> HIDE DEF g
<1>4. Right(s) /\ Keeps(Now, s, {"stack"}) /\ s.stack[1] = g /\ s.stack # <<>>
  BY <1>1, <1>3, NowIs, TopFrame
<1>5. s = [Now EXCEPT !.stack[1].tag = "pumping"]
  BY NowIs DEF Now, g
<1> HIDE DEF s
<1>6. s.items = items
  BY <1>4, NowIs, FieldsAre DEF Keeps
<1>7. CASE items = {}
  <2>1. Become(Return(s))
    BY <1>5, <1>7 DEF Pump
  <2>2. Typing(s.stack[1]) => 0 = s.stack[1].uid
    BY <1>3, <1>4 DEF Typing, Delivers
  <2>3. Well(Return(s)) /\ Turn(Return(s), 0)
    BY <1>4, <2>2, ReturnFrame
  <2>4. Right(Return(s))
    BY <2>3 DEF Right
  <2> QED
    BY <2>1, <2>4, Became
<1>8. CASE items # {}
  <2>1. Become(PumpTurn(s, Min(items)))
    BY <1>5, <1>8 DEF Pump
  <2>2. items \subseteq Nums
    BY <1>4, <1>6, TypedFacts DEF Right, Well
  <2>3. Min(items) \in items /\ \A k \in items : Min(items) <= k
    BY <1>8, <2>2, MinIs
  <2>4. Right(PumpTurn(s, Min(items)))
    BY <1>3, <1>4, <1>6, <2>3, PumpTurnRight
  <2> QED
    BY <2>1, <2>4, Became
<1> QED
  BY <1>7, <1>8

\* The phrase w ends, and was the only one out of turn
LEMMA TurnEnded == ASSUME NEW x, NEW y, NEW w, Well(x), Turn(x, w), Fine(x, y), w = 0 \/ w \notin y.items PROVE Right(y)
<1>1. Well(y) /\ Turn(y, w)
  BY TurnEbb DEF Fine, Well
<1> QED
  BY <1>1, TurnEnds DEF Right

\* _attempt_paste after the deferred events
LEMMA SettleStep == ASSUME Right(Now), Settle PROVE Right(Now')
<1> DEFINE y == Return(Now)
           f == stack[1]
           u == f.uid
           kind == f.kind
           w == IF Typing(f) THEN u ELSE 0
           z == Settled(y, u, kind)
           p == phrases[u]
<1>1. stack # <<>> /\ f.tag = "drain" /\ Become(z)
  BY DEF Settle, Top
<1>2. f \in FrameType /\ 1 \in DOMAIN stack
  BY <1>1, NowIs, Popped DEF Right, Well, Typed, TypedRest
<1>3. u \in Nums /\ kind \in KindNames /\ Delivers(f) /\ (Typing(f) <=> kind = "pasted")
  BY <1>1, <1>2 DEF FrameType, Delivers, Typing
<1>4. FrameOK(Now, f)
  BY <1>2, <1>3, NowIs DEF Right, Turn, FramesOK
<1>5. /\ Well(y) /\ Turn(y, w) /\ y.items = items /\ y.phrases = phrases /\ y.contexts = contexts /\ y.generation = generation
      /\ Pasteless(y) /\ (u \in items => Unframed(y, u))
  BY <1>1, <1>3, NowIs, ReturnFrame
<1>6. Typed(y) /\ Good(y) /\ p \in PhraseType /\ u \in Ids /\ PhraseOK(y, u) /\ Wake(y, u) /\ Glow(y, u)
  BY <1>3, <1>4, <1>5, PhraseTyped DEF Well, Good, Awake, Glowing, FrameOK
<1> HIDE DEF y
<1>7. u \in items => p.phase = "pasting" /\ ~p.waiting /\ "busy" \notin p.timers /\ (Typing(f) => ~p.cancelled /\ p.delivered)
  BY <1>4, NowIs DEF FrameOK
<1>8. Still(y, u, "pasting") => u \in items
  BY <1>5, <1>6 DEF Still, PhraseOK, Busy
<1> HIDE DEF f, u, kind, p
<1>9. CASE ~Still(y, u, "pasting")
  <2>1. z = y
    BY <1>9 DEF Settled
  <2>2. w = 0 \/ w \notin items
    BY <1>5, <1>7, <1>9 DEF Still, p
  <2> QED
    BY <1>1, <1>5, <2>1, <2>2, TurnEnded, FineRefl, Became
<1>10. CASE Still(y, u, "pasting") /\ p.gen # generation
  <2>1. z = FailRestarted(y, u)
    BY <1>10 DEF Settled, p
  <2>2. ~Current(y, u)
    BY <1>5, <1>10 DEF Current, p
  <2>3. Dead(y, u) /\ u \in y.contexts
    BY <1>5, <1>6, <1>8, <1>10, <2>2, LossOld, TypedFacts
  <2>4. Full(y, z) /\ z.items = {}
    BY <1>6, <2>1, <2>3, FailRestartedFull
  <2> HIDE DEF z
  <2>5. Fine(y, z)
    BY <1>5, <2>4, FullFine
  <2> QED
    BY <1>1, <1>5, <2>4, <2>5, TurnEnded, Became
<1>11. CASE Still(y, u, "pasting") /\ p.gen = generation /\ kind = "unsent" /\ (OtherRecording(y, u) \/ OverlapCancelled)
  <2> DEFINE q == [p EXCEPT !.delivered = FALSE, !.waiting = TRUE]
             a == With(y, u, q)
  <2>1. z = [y EXCEPT !.phrases[u].delivered = FALSE, !.phrases[u].waiting = TRUE]
    BY <1>11 DEF Settled, p
  <2>2. [y EXCEPT !.phrases[u].delivered = FALSE, !.phrases[u].waiting = TRUE] = a
    BY <1>3, <1>5, <1>6 DEF With, Typed, TypedQueue, PhraseType, p
  <2>3. q \in PhraseType /\ Same(p, q, {"delivered", "waiting"}) /\ q.waiting
    BY <1>6, FieldsAre DEF PhraseType, Same
  <2> HIDE DEF q
  <2>4. Changes(y, a, u, {"delivered", "waiting"}) /\ a.phrases[u] = q
    BY <1>3, <1>5, <1>6, <2>3, WithChanges DEF p
  <2> HIDE DEF a, z
  <2>5. PhraseOnly(y, a, u) /\ a.items = y.items /\ a.contexts = y.contexts /\ a.generation = y.generation
    BY <1>3, <2>4, ChangesRest DEF Changes
  <2>6. /\ a.phrases[u].gen = p.gen /\ a.phrases[u].capture = p.capture /\ a.phrases[u].pending = p.pending
        /\ a.phrases[u].awaits = p.awaits /\ a.phrases[u].job = p.job /\ a.phrases[u].phase = p.phase
        /\ a.phrases[u].cancelled = p.cancelled /\ a.phrases[u].timers = p.timers /\ a.phrases[u].shown = p.shown
        /\ a.phrases[u].result = p.result /\ a.phrases[u].waiting /\ p = y.phrases[u]
    BY <1>5, <2>3, <2>4, FieldsAre DEF Same, p
  <2>7. PhraseOK(a, u)
    BY <1>6, <2>5, <2>6 DEF PhraseOK, Current
  <2>8. Wake(a, u) /\ Glow(a, u) /\ (Burns(y, u) => Burns(a, u))
    BY <1>6, <2>5, <2>6 DEF Wake, Glow, Burns, Current, Alarm
  <2>9. OnceOK(a, u)
    <3>1. Closed(a, u) => Closed(y, u)
      BY <2>5, <2>6 DEF Closed, Records
    <3>2. OnceOK(y, u)
      BY <1>6 DEF Good, Common, Once
    <3> QED
      BY <1>3, <1>6, <2>5, <3>1, <3>2, OnceUnder
  <2>10. Well(a)
    BY <1>3, <1>5, <2>5, <2>6, <2>7, <2>8, <2>9, RiseWell
  <2>11. Turn(a, w)
    BY <1>3, <1>5, <1>6, <1>7, <1>8, <1>11, <2>5, <2>6, RiseTurn DEF Still
  <2>12. w = 0
    BY <1>3, <1>11
  <2> QED
    BY <1>1, <2>1, <2>2, <2>10, <2>11, <2>12, Became DEF Right
<1>12. CASE Still(y, u, "pasting") /\ p.gen = generation /\ kind = "busy"
  <2> DEFINE q == [p EXCEPT !.retried = TRUE, !.timers = @ \cup {"busy"}]
             a == With(y, u, q)
  <2>1. z = Later([y EXCEPT !.phrases[u].retried = TRUE], u, "busy")
    BY <1>12 DEF Settled, p
  <2>2. Later([y EXCEPT !.phrases[u].retried = TRUE], u, "busy") = a
    BY <1>3, <1>5, <1>6 DEF Later, With, Typed, TypedQueue, PhraseType, p
  <2>3. q \in PhraseType /\ Same(p, q, {"retried", "timers"}) /\ q.timers = p.timers \cup {"busy"}
    BY <1>6, FieldsAre DEF PhraseType, Same, Timers
  <2> HIDE DEF q
  <2>4. Changes(y, a, u, {"retried", "timers"}) /\ a.phrases[u] = q
    BY <1>3, <1>5, <1>6, <2>3, WithChanges DEF p
  <2> HIDE DEF a, z
  <2>5. PhraseOnly(y, a, u) /\ a.items = y.items /\ a.contexts = y.contexts /\ a.generation = y.generation
    BY <1>3, <2>4, ChangesRest DEF Changes
  <2>6. /\ a.phrases[u].gen = p.gen /\ a.phrases[u].capture = p.capture /\ a.phrases[u].pending = p.pending
        /\ a.phrases[u].awaits = p.awaits /\ a.phrases[u].job = p.job /\ a.phrases[u].phase = p.phase
        /\ a.phrases[u].cancelled = p.cancelled /\ a.phrases[u].timers = p.timers \cup {"busy"} /\ a.phrases[u].shown = p.shown
        /\ a.phrases[u].result = p.result /\ a.phrases[u].waiting = p.waiting /\ p = y.phrases[u]
    BY <1>5, <2>3, <2>4, FieldsAre DEF Same, p
  <2>13. p.phase = "pasting" /\ u \in y.items /\ u \in y.contexts /\ ~p.waiting
    BY <1>5, <1>6, <1>7, <1>8, <1>12, TypedFacts
  <2>7. PhraseOK(a, u)
    BY <1>6, <2>5, <2>6, <2>13 DEF PhraseOK, Current, Busy
  <2>8. Wake(a, u) /\ Glow(a, u) /\ (Burns(y, u) => Burns(a, u))
    BY <1>6, <2>5, <2>6, <2>13 DEF Wake, Glow, Burns, Current, Alarm
  <2>9. OnceOK(a, u)
    <3>1. Closed(a, u) => Closed(y, u)
      BY <2>5, <2>6 DEF Closed, Records
    <3>2. OnceOK(y, u)
      BY <1>6 DEF Good, Common, Once
    <3> QED
      BY <1>3, <1>6, <2>5, <3>1, <3>2, OnceUnder
  <2>10. Well(a)
    BY <1>3, <1>5, <2>5, <2>6, <2>7, <2>8, <2>9, RiseWell
  <2>11. Turn(a, w)
    BY <1>3, <1>5, <1>6, <1>8, <1>12, <2>5, <2>6, <2>13, RiseTurn DEF Still
  <2>12. w = 0
    BY <1>3, <1>12
  <2> QED
    BY <1>1, <2>1, <2>2, <2>10, <2>11, <2>12, Became DEF Right
<1>13. CASE /\ Still(y, u, "pasting") /\ p.gen = generation /\ kind # "busy"
            /\ ~(kind = "unsent" /\ (OtherRecording(y, u) \/ OverlapCancelled))
  <2>1. z = Finish(y, u)
    BY <1>13 DEF Settled, p
  <2>2. Fine(y, z) /\ u \notin z.items
    BY <1>5, <1>8, <1>13, <2>1, FinishFine DEF Still
  <2> HIDE DEF z
  <2> QED
    BY <1>1, <1>5, <2>2, TurnEnded, Became
<1> QED
  BY <1>9, <1>10, <1>11, <1>12, <1>13

\* Only the order depends on what was pasted
LEMMA PastedWell ==
  ASSUME NEW x, NEW y, Well(x), Keeps(x, y, {"pasted"}), y.pasted \in Seq(Ids) PROVE Well(y)
<1>1. /\ y.phrases = x.phrases /\ y.items = x.items /\ y.contexts = x.contexts /\ y.generation = x.generation
      /\ y.link = x.link /\ y.source = x.source /\ y.deferred = x.deferred /\ y.indicator = x.indicator
      /\ y.hotkey = x.hotkey /\ y.waits = x.waits /\ y.closing = x.closing /\ y.fault = x.fault
      /\ y.stack = x.stack /\ y.last = x.last
  BY FieldsAre DEF Keeps
<1>2. Typed(y)
  BY <1>1 DEF Well, Typed, TypedQueue, TypedRest, Keeps
<1>3. \A u \in Nums : PhraseOK(y, u) /\ Wake(y, u) /\ Glow(y, u)
  BY <1>1 DEF Well, Good, Awake, Glowing, PhraseOK, Wake, Glow, Current, Alarm
<1>4. Common(y)
  <2>1. Common(x)
    BY DEF Well, Good
  <2>2. \A u \in Ids : SourceOK(y, u)
    BY <1>1, <2>1 DEF Common, SourceOK, Current
  <2>3. OneOpen(y)
    BY <1>1, <2>1 DEF Common, OneOpen, Open
  <2>4. Together(y)
    BY <1>1, <2>1 DEF Common, Together, Current
  <2>5. EventsOK(y)
    BY <1>1, <2>1 DEF Common, EventsOK, EventOK
  <2>6. Once(y)
    BY <1>1, <2>1 DEF Common, Once, OnceOK, Closed, Records, Heard
  <2> QED
    BY <2>2, <2>3, <2>4, <2>5, <2>6 DEF Common
<1>5. Lamp(y)
  BY <1>1 DEF Well, Lamp, Burns, Current, Alarm
<1> QED
  BY <1>2, <1>3, <1>4, <1>5 DEF Well, Good, Awake, Glowing

LEMMA Appended == ASSUME NEW S, NEW q \in Seq(S), NEW e \in S
  PROVE LET y == Append(q, e) IN
    /\ y \in Seq(S) /\ DOMAIN q \subseteq DOMAIN y /\ DOMAIN q \subseteq Nat
    /\ \A i \in DOMAIN q : y[i] = q[i]
    /\ \A i \in DOMAIN y \ DOMAIN q : y[i] = e /\ \A j \in DOMAIN y : j <= i /\ (j # i => j \in DOMAIN q)
<1> DEFINE y == Append(q, e)
<1>1. y \in Seq(S) /\ Len(y) = Len(q) + 1 /\ (\A i \in 1..Len(q) : y[i] = q[i]) /\ y[Len(q) + 1] = e
  BY AppendProperties
<1>2. Len(q) \in Nat /\ DOMAIN q = 1..Len(q) /\ DOMAIN y = 1..Len(y)
  BY <1>1, LenProperties
<1> HIDE DEF y
<1> QED
  BY <1>1, <1>2 DEF y

\* The paste of u has come to its end
DrainFrame(u, kind, overlap, before) == [tag |-> "drain", uid |-> u, kind |-> kind, overlap |-> overlap, before |-> before]

LEMMA PasteEnds ==
  ASSUME NEW s, Right(s), s.stack # <<>>, s.stack[1].tag = "paste", NEW u, u = s.stack[1].uid, NEW g \in FrameType,
         g.tag = "drain", g.uid = u, NEW delivered \in BOOLEAN, g.kind = "pasted" => delivered
  PROVE Right([s EXCEPT !.stack = <<g>> \o Tail(@), !.phrases[u].delivered = delivered,
                        !.pasted = IF g.kind = "pasted" THEN Append(@, u) ELSE @])
<1> DEFINE p == s.phrases[u]
           q == [p EXCEPT !.delivered = delivered]
           a == With(s, u, q)
           r == <<g>> \o Tail(s.stack)
           b == [a EXCEPT !.stack = r]
           P == IF g.kind = "pasted" THEN Append(s.pasted, u) ELSE s.pasted
           y == [b EXCEPT !.pasted = P]
<1>1. Well(s) /\ Typed(s) /\ Good(s) /\ s.stack \in Seq(FrameType) /\ s.pasted \in Seq(Ids) /\ DOMAIN s = Fields
  BY DEF Right, Well, Typed, TypedRest
<1>2. 1 \in DOMAIN s.stack /\ Tail(s.stack) \in Seq(FrameType)
  BY <1>1, Popped
<1>3. Delivers(s.stack[1]) /\ FrameOK(s, s.stack[1])
  BY <1>2 DEF Right, Turn, FramesOK, Delivers
<1>4. u \in Ids /\ Begun(s, u) /\ PasteOK(s, u) /\ u \in Nums
      /\ (u \in s.items => p.phase = "pasting" /\ ~p.waiting /\ "busy" \notin p.timers /\ ~p.cancelled)
  BY <1>3 DEF FrameOK, Ids, Nums
<1>5. p \in PhraseType /\ PhraseOK(s, u) /\ Wake(s, u) /\ Glow(s, u) /\ OnceOK(s, u)
  BY <1>1, <1>4, PhraseTyped DEF Right, Well, Good, Awake, Glowing, Common, Once
<1>6. q \in PhraseType /\ Same(p, q, {"delivered"}) /\ q.delivered = delivered
  BY <1>5, FieldsAre DEF PhraseType, Same
<1>7. y = [s EXCEPT !.stack = <<g>> \o Tail(@), !.phrases[u].delivered = delivered,
                    !.pasted = IF g.kind = "pasted" THEN Append(@, u) ELSE @]
  BY <1>1, <1>4, <1>5, FieldsAre DEF With, Typed, TypedQueue, PhraseType
<1> HIDE DEF q
<1>8. Changes(s, a, u, {"delivered"}) /\ a.phrases[u] = q
  BY <1>1, <1>4, <1>6, WithChanges
<1>9. PhraseOnly(s, a, u) /\ a.items = s.items /\ a.contexts = s.contexts /\ a.generation = s.generation
      /\ a.stack = s.stack /\ a.pasted = s.pasted
  BY <1>4, <1>8, ChangesRest DEF Changes
<1> HIDE DEF a
<1>10. /\ a.phrases[u].gen = p.gen /\ a.phrases[u].capture = p.capture /\ a.phrases[u].pending = p.pending
       /\ a.phrases[u].awaits = p.awaits /\ a.phrases[u].job = p.job /\ a.phrases[u].phase = p.phase
       /\ a.phrases[u].cancelled = p.cancelled /\ a.phrases[u].timers = p.timers /\ a.phrases[u].shown = p.shown
       /\ a.phrases[u].result = p.result /\ a.phrases[u].waiting = p.waiting /\ a.phrases[u].delivered = delivered
  BY <1>6, <1>8, FieldsAre DEF Same
<1>11. \A v \in Nums : v # u => a.phrases[v] = s.phrases[v]
  BY <1>9 DEF PhraseOnly
<1>12. Well(a)
  <2>1. PhraseOK(a, u)
    BY ZenonT(60), <1>5, <1>9, <1>10 DEF PhraseOK, Current
  <2>2. Wake(a, u) /\ Glow(a, u) /\ (Burns(s, u) => Burns(a, u))
    BY ZenonT(60), <1>5, <1>9, <1>10 DEF Wake, Glow, Burns, Current, Alarm
  <2>3. Closed(a, u) => Closed(s, u)
    BY <1>9, <1>10 DEF Closed, Records
  <2>4. OnceOK(a, u)
    BY <1>4, <1>5, <1>9, <2>3, OnceUnder
  <2> QED
    BY ZenonT(60), <1>1, <1>4, <1>9, <1>10, <2>1, <2>2, <2>4, RiseWell
<1>13. /\ r \in Seq(FrameType) /\ r[1] = g /\ 1 \in DOMAIN r
       /\ \A i \in DOMAIN r : i = 1 \/ (i \in DOMAIN s.stack /\ r[i] = s.stack[i])
       /\ \A i \in DOMAIN s.stack : i = 1 \/ (i \in DOMAIN r /\ r[i] = s.stack[i])
  <2> DEFINE t == Tail(s.stack)
  <2>3. t \in Seq(FrameType) /\ r = <<g>> \o t
    BY <1>2
  <2>2. /\ \A i \in DOMAIN t : i + 1 \in DOMAIN s.stack /\ s.stack[i + 1] = t[i]
        /\ \A j \in DOMAIN s.stack : j = 1 \/ \E i \in DOMAIN t : j = i + 1
    BY <1>1, Popped
  <2> HIDE DEF t, r
  <2>1. /\ r \in Seq(FrameType) /\ r[1] = g /\ 1 \in DOMAIN r
        /\ \A j \in DOMAIN t : j + 1 \in DOMAIN r /\ r[j + 1] = t[j]
        /\ \A i \in DOMAIN r : i = 1 \/ \E j \in DOMAIN t : i = j + 1
    BY <2>3, Pushed
  <2> QED
    BY <2>1, <2>2
<1> HIDE DEF r
<1>14. DOMAIN a = Fields
  BY <1>9 DEF PhraseOnly, Keeps
<1>15. Keeps(a, b, {"stack"}) /\ b.stack = r
  BY <1>14, FieldsAre DEF Keeps
<1>16. Well(b)
  BY <1>12, <1>13, <1>15, StackWell
<1> HIDE DEF b
<1>17. Keeps(b, y, {"pasted"}) /\ y.pasted = P
  BY <1>15, FieldsAre DEF Keeps
<1>18. P \in Seq(Ids) /\ (\A i \in DOMAIN P : (i \in DOMAIN s.pasted /\ P[i] = s.pasted[i]) \/ (g.kind = "pasted" /\ i \notin DOMAIN s.pasted /\ P[i] = u))
       /\ (\A i, j \in DOMAIN P : i < j => i \in DOMAIN s.pasted)
  <2>1. CASE g.kind = "pasted"
    <3> DEFINE R == Append(s.pasted, u)
    <3>1. /\ R \in Seq(Ids) /\ DOMAIN s.pasted \subseteq DOMAIN R /\ DOMAIN s.pasted \subseteq Nat
          /\ \A i \in DOMAIN s.pasted : R[i] = s.pasted[i]
          /\ \A i \in DOMAIN R \ DOMAIN s.pasted : R[i] = u /\ \A j \in DOMAIN R : j <= i /\ (j # i => j \in DOMAIN s.pasted)
      BY <1>1, <1>4, Appended
    <3>2. P = R
      BY <2>1
    <3> HIDE DEF P, R
    <3>3. \A i \in DOMAIN P : i \in Int
      BY <3>1, <3>2, LenProperties
    <3>4. ASSUME NEW i \in DOMAIN P, NEW j \in DOMAIN P, i < j PROVE i \in DOMAIN s.pasted
      BY <3>1, <3>2, <3>3, <3>4
    <3> QED
      BY <2>1, <3>1, <3>2, <3>4
  <2>2. CASE g.kind # "pasted"
    BY <1>1, <2>2
  <2> QED
    BY <2>1, <2>2
<1> HIDE DEF P, y
<1>19. Well(y)
  BY <1>16, <1>17, <1>18, PastedWell
<1>20. y.phrases = a.phrases /\ y.items = s.items /\ y.stack = r /\ y.pasted = P
  BY <1>9, <1>15, <1>17, FieldsAre DEF Keeps
<1>21. \A v \in Nums : Begun(y, v) <=> Begun(s, v)
  BY <1>4, <1>10, <1>11, <1>20 DEF Begun
<1>22. Ids \subseteq Nums /\ s.items \subseteq Nums /\ Nums \subseteq Int
  BY <1>1, TypedFacts DEF Ids, Nums
<1>23. InOrderOfPress(y)
  <2>1. \A v \in Nums : y.phrases[v].phase = s.phrases[v].phase /\ y.phrases[v].waiting = s.phrases[v].waiting
                        /\ y.phrases[v].timers = s.phrases[v].timers
    BY <1>10, <1>11, <1>20
  <2> QED
    BY <1>20, <1>21, <1>22, <2>1 DEF Right, Turn, InOrderOfPress
<1>24. PastedOK(y)
  <2>1. \A i \in DOMAIN s.pasted : s.pasted[i] < u /\ s.pasted[i] \in Ids
    BY <1>1, <1>4, ElementOfSeq DEF PasteOK
  <2>2. \A i \in DOMAIN P : Begun(y, P[i])
    BY <1>4, <1>18, <1>21, <1>22, <2>1 DEF Right, Turn, PastedOK
  <2>3. \A i, j \in DOMAIN P : i < j => P[i] < P[j]
    BY <1>18, <2>1 DEF Right, Turn, PastedOK
  <2> QED
    BY <1>20, <2>2, <2>3 DEF PastedOK
<1>25. FramesOK(y)
  <2>1. FrameOK(y, g)
    BY <1>4, <1>10, <1>20, <1>21 DEF FrameOK, Typing
  <2>2. ASSUME NEW i \in DOMAIN s.stack, i # 1, Delivers(s.stack[i]) PROVE FrameOK(y, s.stack[i])
    <3> DEFINE f == s.stack[i]
    <3>1. FrameOK(s, f) /\ f.tag # "paste"
      BY <2>2 DEF Right, Turn, FramesOK
    <3>2. f.uid \in s.items => f.uid # u
      BY <1>2, <1>3, <2>2 DEF Right, Turn, FramesOK
    <3>3. f.uid \in Ids /\ f.uid \in Nums /\ Begun(y, f.uid)
      BY <1>21, <1>22, <3>1 DEF FrameOK
    <3>4. f.uid \in s.items => y.phrases[f.uid] = s.phrases[f.uid]
      BY <1>11, <1>20, <3>2, <3>3
    <3> QED
      BY <1>20, <3>1, <3>3, <3>4 DEF FrameOK
  <2>3. \A i \in DOMAIN r : Delivers(r[i]) => FrameOK(y, r[i])
    BY <1>13, <2>1, <2>2
  <2>4. \A i \in DOMAIN r : r[i].tag # "paste"
    BY <1>13 DEF Right, Turn, FramesOK
  <2>5. ASSUME NEW i \in DOMAIN r, NEW j \in DOMAIN r, Delivers(r[i]), Delivers(r[j]), r[i].uid = r[j].uid, r[i].uid \in s.items
        PROVE i = j
    <3>1. i \in DOMAIN s.stack /\ j \in DOMAIN s.stack
      BY <1>2, <1>13
    <3>2. Delivers(s.stack[i]) /\ Delivers(s.stack[j]) /\ s.stack[i].uid = r[i].uid /\ s.stack[j].uid = r[j].uid
      BY <1>3, <1>13, <2>5
    <3> QED
      BY <2>5, <3>1, <3>2 DEF Right, Turn, FramesOK
  <2> QED
    BY <1>20, <2>3, <2>4, <2>5 DEF FramesOK
<1>26. Behind(y, 0)
  <2>1. \A i \in DOMAIN s.pasted : s.pasted[i] < u /\ s.pasted[i] \in Ids
    BY <1>1, <1>4, ElementOfSeq DEF PasteOK
  <2>2. \A v \in s.items : u <= v
    BY <1>4 DEF PasteOK
  <2>3. g.kind = "pasted" => Typing(r[1]) /\ r[1].uid = u
    BY <1>13 DEF Typing
  <2>4. ASSUME NEW i \in DOMAIN P, NEW v \in s.items
        PROVE P[i] < v \/ (P[i] = v /\ \E j \in DOMAIN r : Typing(r[j]) /\ r[j].uid = v)
    <3>1. v \in Int /\ u \in Int
      BY <1>4, <1>22
    <3>2. CASE i \in DOMAIN s.pasted /\ P[i] = s.pasted[i]
      BY <1>22, <2>1, <2>2, <3>1, <3>2
    <3>3. CASE g.kind = "pasted" /\ P[i] = u
      <4>1. u < v \/ u = v
        BY <2>2, <3>1
      <4> QED
        BY <1>13, <2>3, <3>3, <4>1
    <3> QED
      BY <1>18, <3>2, <3>3
  <2> QED
    BY <1>20, <2>4 DEF Behind
<1>27. Right(y)
  BY <1>19, <1>23, <1>24, <1>25, <1>26 DEF Right, Turn
<1> QED
  BY <1>7, <1>27

\* Paste
LEMMA PasteStep == ASSUME Right(Now), Paste PROVE Right(Now')
<1> DEFINE u == stack[1].uid
<1>1. stack # <<>> /\ stack[1].tag = "paste"
  BY DEF Paste, Top
<1>2. PICK kind \in Kinds(u) :
        LET overlap == PressDeferred(Now) /\ hotkey.state = "idle"
            frame == [tag |-> "drain", uid |-> u, kind |-> kind, overlap |-> overlap, before |-> contexts]
        IN  Become([Now EXCEPT
              !.stack = <<frame>> \o Tail(@),
              !.phrases[u].delivered = kind \in {"pasted", "unsent"},
              !.pasted = IF kind = "pasted" THEN Append(@, u) ELSE @])
  BY DEF Paste
<1> DEFINE overlap == PressDeferred(Now) /\ hotkey.state = "idle"
           g == DrainFrame(u, kind, overlap, contexts)
           d == kind \in {"pasted", "unsent"}
           y == [Now EXCEPT !.stack = <<g>> \o Tail(@), !.phrases[u].delivered = d,
                            !.pasted = IF g.kind = "pasted" THEN Append(@, u) ELSE @]
<1>3. overlap \in BOOLEAN /\ d \in BOOLEAN
  OBVIOUS
<1>4. g.kind = kind /\ g.tag = "drain" /\ g.uid = u
  BY DEF DrainFrame
<1>5. Become(y)
  BY <1>2 DEF DrainFrame
<1>6. contexts \subseteq Nums /\ u \in Nums /\ kind \in KindNames
  <2>1. stack \in Seq(FrameType) /\ contexts \subseteq Nums
    BY NowIs DEF Right, Well, Typed, TypedRest, TypedQueue
  <2>2. stack[1] \in FrameType
    BY <1>1, <2>1, Popped
  <2> QED
    BY <1>1, <2>1, <2>2 DEF FrameType, Kinds, KindNames
<1> HIDE DEF overlap, d
<1>7. g \in FrameType
  BY <1>3, <1>6 DEF DrainFrame, FrameType
<1>8. kind = "pasted" => d
  BY DEF d
<1> HIDE DEF g
<1>9. Right(y)
  BY <1>1, <1>3, <1>4, <1>7, <1>8, NowIs, PasteEnds
<1> HIDE DEF y
<1> QED
  BY <1>5, <1>9, Became

-----------------------------------------------------------------------------
(* A press: what is left behind has been forgotten and a phrase begins.                              *)

\* Nothing is owed, no capture is open, and all phrases at work are of this generation
Ready(t) ==
  /\ Typed(t) /\ Good(t) /\ Awake(t) /\ Glowing(t) /\ Turn(t, 0)
  /\ \A c \in t.contexts :
       /\ ~t.phrases[c].pending
       /\ c \notin t.items => t.phrases[c].timers = {} /\ t.phrases[c].phase = "idle"
  /\ Open(t) = {} /\ \A v \in t.items : Current(t, v)
\* What an earlier generation owed is forgotten
Idled(p) == [p EXCEPT !.pending = FALSE, !.timers = {}, !.phase = "idle"]
Cleared(s) ==
  [s EXCEPT !.phrases = [c \in DOMAIN @ |->
              IF c \notin s.contexts THEN @[c]
              ELSE IF c \in s.items THEN [@[c] EXCEPT !.pending = FALSE]
              ELSE [@[c] EXCEPT !.pending = FALSE, !.timers = {}, !.phase = "idle"]]]

LEMMA IdledType == ASSUME NEW p \in PhraseType
  PROVE /\ Idled(p) \in PhraseType /\ Idled(p).gen = p.gen /\ Idled(p).timers = {} /\ Idled(p).phase = "idle"
        /\ ~Idled(p).pending /\ Idled(p).capture = p.capture /\ Idled(p).awaits = p.awaits /\ Idled(p).result = p.result
BY FieldsAre DEF PhraseType, Idled, Phases

LEMMA PendingIs == ASSUME NEW p \in PhraseType, ~p.pending PROVE [p EXCEPT !.pending = FALSE] = p
BY DEF PhraseType

LEMMA ClearedIs ==
  ASSUME NEW s, Typed(s), \A v \in s.items : ~s.phrases[v].pending
  PROVE LET t == Cleared(s) IN
    /\ Keeps(s, t, {"phrases"}) /\ Typed(t)
    /\ \A v \in s.contexts \ s.items : t.phrases[v] = Idled(s.phrases[v])
    /\ \A v \in Nums : v \notin s.contexts \/ v \in s.items => t.phrases[v] = s.phrases[v]
<1> DEFINE P == [c \in DOMAIN s.phrases |->
                   IF c \notin s.contexts THEN s.phrases[c]
                   ELSE IF c \in s.items THEN [s.phrases[c] EXCEPT !.pending = FALSE]
                   ELSE Idled(s.phrases[c])]
           t == [s EXCEPT !.phrases = P]
<1>0. DOMAIN s = Fields /\ DOMAIN s.phrases = Nums /\ s.items \subseteq Nums /\ s.contexts \subseteq Nums /\ s.items \subseteq s.contexts
  BY TypedFacts DEF Typed, TypedQueue
<1>1. Cleared(s) = t
  BY DEF Cleared, Idled
<1>2. /\ DOMAIN P = Nums
      /\ \A v \in s.contexts \ s.items : P[v] = Idled(s.phrases[v])
      /\ \A v \in Nums : v \notin s.contexts \/ v \in s.items => P[v] = s.phrases[v]
  <2>1. \A v \in s.items : P[v] = s.phrases[v]
    BY <1>0, PendingIs, PhraseTyped
  <2> QED
    BY <1>0, <2>1
<1>3. P \in [Nums -> PhraseType] /\ \A v \in Nums : P[v].gen <= s.generation
  <2>0. P = [c \in Nums |-> P[c]]
    BY <1>0
  <2> HIDE DEF P
  <2>1. \A v \in Nums : P[v] \in PhraseType /\ P[v].gen = s.phrases[v].gen
    BY <1>0, <1>2, IdledType, PhraseTyped
  <2> QED
    BY <2>0, <2>1, TypedFacts
<1> HIDE DEF P
<1>4. Keeps(s, t, {"phrases"}) /\ t.phrases = P
  BY <1>0, FieldsAre DEF Keeps
<1> HIDE DEF t
<1>5. /\ t.items = s.items /\ t.contexts = s.contexts /\ t.last = s.last /\ t.generation = s.generation /\ t.hotkey = s.hotkey
      /\ t.indicator = s.indicator /\ t.deferred = s.deferred /\ t.stack = s.stack /\ t.link = s.link /\ t.waits = s.waits
      /\ t.closing = s.closing /\ t.source = s.source /\ t.pasted = s.pasted /\ t.fault = s.fault
  BY <1>4, FieldsAre DEF Keeps
<1>6. TypedQueue(t)
  BY <1>3, <1>4, <1>5 DEF Typed, TypedQueue
<1>7. TypedRest(t)
  BY <1>5 DEF Typed, TypedRest
<1>8. Typed(t)
  BY <1>4, <1>6, <1>7 DEF Typed, Keeps
<1> QED
  BY <1>1, <1>2, <1>4, <1>8

\* Nothing is owed after it, and a phrase may begin
LEMMA ClearedReady ==
  ASSUME NEW s, Right(s), s.items = {} \/ CanOverlap(s), ~Owing(s)
  PROVE LET t == Cleared(s) IN
    /\ Ready(t) /\ Fresh(t) = Fresh(s) /\ t.fault = s.fault /\ t.link = s.link /\ t.generation = s.generation
    /\ Suspended(t) = Suspended(s)
<1> DEFINE t == Cleared(s)
<1>0. Typed(s) /\ Good(s) /\ Awake(s) /\ Glowing(s) /\ Turn(s, 0) /\ s.items \subseteq s.contexts /\ s.contexts \subseteq Nums
  BY TypedFacts DEF Right, Well
<1>1. \A v \in s.items : ~s.phrases[v].pending /\ Current(s, v)
  BY <1>0 DEF CanOverlap, Current
<1>2. /\ Keeps(s, t, {"phrases"}) /\ Typed(t)
      /\ \A v \in s.contexts \ s.items : t.phrases[v] = Idled(s.phrases[v])
      /\ \A v \in Nums : v \notin s.contexts \/ v \in s.items => t.phrases[v] = s.phrases[v]
  BY <1>0, <1>1, ClearedIs
<1> HIDE DEF t
<1>3. /\ t.items = s.items /\ t.contexts = s.contexts /\ t.last = s.last /\ t.generation = s.generation
      /\ t.indicator = s.indicator /\ t.deferred = s.deferred /\ t.stack = s.stack /\ t.link = s.link /\ t.waits = s.waits
      /\ t.source = s.source /\ t.pasted = s.pasted /\ t.fault = s.fault
  BY <1>2, FieldsAre DEF Keeps
<1>4. ASSUME NEW v \in s.contexts \ s.items
      PROVE /\ t.phrases[v].gen = s.phrases[v].gen /\ t.phrases[v].timers = {} /\ t.phrases[v].phase = "idle"
            /\ ~t.phrases[v].pending /\ t.phrases[v].capture = s.phrases[v].capture /\ t.phrases[v].awaits = s.phrases[v].awaits
            /\ t.phrases[v].result = s.phrases[v].result
  BY <1>0, <1>2, IdledType, PhraseTyped
<1>5. \A v \in s.contexts : s.phrases[v].pending => ~Current(s, v)
  BY DEF Owing, Current
<1>6. ASSUME NEW v \in s.contexts \ s.items PROVE ~(s.phrases[v].capture /\ Current(s, v)) /\ ~(s.phrases[v].awaits /\ Current(s, v))
  <2>1. PhraseOK(s, v) /\ Wake(s, v)
    BY <1>0 DEF Good, Awake
  <2>2. s.phrases[v].awaits /\ Current(s, v) => s.phrases[v].pending
    BY <2>1 DEF Wake, Alarm
  <2> QED
    BY <1>5, <2>1, <2>2 DEF PhraseOK
<1>7. Ebb(s, t)
  <2>1. Steady(s, t) /\ News(s, t) /\ Asks(s, t)
    BY <1>0, <1>3, TypedFacts DEF Steady, News, Asks
  <2>2. ASSUME NEW v \in Nums PROVE EbbPhrase(s, t, v)
    <3>1. CASE v \in s.contexts \ s.items
      BY <1>3, <1>4, <3>1 DEF EbbPhrase
    <3>2. CASE v \notin s.contexts \/ v \in s.items
      BY <1>2, <1>3, <3>2 DEF EbbPhrase
    <3> QED
      BY <3>1, <3>2
  <2> QED
    BY <1>3, <2>1, <2>2 DEF Ebb
<1>8. Open(t) = {}
  <2>1. CASE s.items = {}
    BY <1>0, <1>3, <1>4, <1>6, <2>1 DEF Open, Current
  <2>2. CASE CanOverlap(s)
    <3>1. \A v \in s.contexts : t.phrases[v].capture = s.phrases[v].capture /\ t.phrases[v].gen = s.phrases[v].gen
      BY <1>0, <1>2, <1>4
    <3>2. Open(t) = Open(s)
      BY <1>3, <3>1 DEF Open
    <3> QED
      BY <2>2, <3>2 DEF CanOverlap
  <2> QED
    BY <2>1, <2>2
<1>9. Common(t)
  <2> SUFFICES ASSUME NEW v \in Ids, t.source[v] = "open" PROVE t.phrases[v].capture /\ t.indicator
    BY <1>0, <1>2, <1>7, CommonEbb DEF Good
  <2>1. SourceOK(s, v)
    BY <1>0 DEF Good, Common
  <2>2. v \in Nums
    BY DEF Ids, Nums
  <2> QED
    BY <1>2, <1>3, <1>4, <2>1, <2>2 DEF SourceOK
<1>10. ASSUME NEW v \in Nums PROVE PhraseOK(t, v) /\ Wake(t, v) /\ Glow(t, v)
  <2>0. PhraseOK(s, v) /\ Wake(s, v) /\ Glow(s, v)
    BY <1>0 DEF Good, Awake, Glowing
  <2>1. CASE v \in s.contexts \ s.items
    <3>1. s.phrases[v].result = "none"
      BY <2>0, <2>1 DEF PhraseOK, Busy
    <3>2. PhraseOK(t, v)
      BY <1>3, <1>4, <1>6, <2>0, <2>1, <3>1 DEF PhraseOK, Current, Busy
    <3>3. Wake(t, v)
      BY <1>3, <1>4, <1>6, <2>1, <3>1 DEF Wake, Current, Alarm
    <3>4. Glow(t, v)
      BY <1>4, <2>1 DEF Glow
    <3> QED
      BY <3>2, <3>3, <3>4
  <2>2. CASE v \notin s.contexts \/ v \in s.items
    BY <1>2, <1>3, <2>0, <2>2 DEF PhraseOK, Wake, Glow, Current, Alarm
  <2> QED
    BY <2>1, <2>2
<1>11. Turn(t, 0)
  BY <1>0, <1>2, <1>7, TurnEbb
<1>12. ASSUME NEW c \in t.contexts
       PROVE ~t.phrases[c].pending /\ (c \notin t.items => t.phrases[c].timers = {} /\ t.phrases[c].phase = "idle")
  BY <1>0, <1>1, <1>2, <1>3, <1>4
<1>13. \A v \in t.items : Current(t, v)
  BY <1>0, <1>1, <1>2, <1>3 DEF Current
<1>14. Ready(t)
  BY <1>2, <1>8, <1>9, <1>10, <1>11, <1>12, <1>13 DEF Ready, Good, Awake, Glowing
<1>15. Fresh(t) = Fresh(s)
  <2>1. \A v \in Nums : t.phrases[v].gen = s.phrases[v].gen
    BY <1>2, <1>4
  <2> QED
    BY <2>1 DEF Fresh, Ids, Nums
<1> QED
  BY <1>3, <1>14, <1>15 DEF t, Suspended

\* The phrase u begins as p, and what waits for nothing is forgotten
Forgotten(g) == [Blank EXCEPT !.gen = g]
Left(s) == s.items \cup {s.last}
Grown(s, u, p) ==
  [s EXCEPT !.contexts = Left(s) \cup {u}, !.items = s.items \cup {u}, !.last = u,
            !.phrases = [c \in DOMAIN s.phrases |->
               IF c = u THEN p
               ELSE IF c \in s.contexts \ Left(s) THEN Forgotten(s.phrases[c].gen)
               ELSE s.phrases[c]]]

\* A phrase of which nothing is known yet
Newborn(s, p) ==
  /\ p \in PhraseType /\ p.gen = s.generation /\ p.timers = {} /\ p.phase \in {"idle", "recording"}
  /\ ~p.cancelled /\ ~p.pending /\ ~p.job /\ ~p.awaits /\ ~p.waiting /\ p.result = "none"

LEMMA BlankType == ASSUME NEW g \in Nat
  PROVE /\ Forgotten(g) \in PhraseType /\ Forgotten(g).gen = g /\ Forgotten(g).timers = {} /\ Forgotten(g).phase = "idle"
        /\ ~Forgotten(g).pending /\ ~Forgotten(g).capture /\ ~Forgotten(g).awaits /\ Forgotten(g).result = "none"
        /\ ~Forgotten(g).job /\ ~Forgotten(g).cancelled /\ ~Forgotten(g).waiting
BY DEF Forgotten, Blank, PhraseType, Phases, Outcomes

LEMMA GrownIs ==
  ASSUME NEW s, Typed(s), NEW u \in Ids, NEW p, Newborn(s, p)
  PROVE LET y == Grown(s, u, p) IN
    /\ Typed(y) /\ Keeps(s, y, {"contexts", "items", "last", "phrases"})
    /\ y.contexts = Left(s) \cup {u} /\ y.items = s.items \cup {u} /\ y.last = u /\ y.phrases[u] = p
    /\ \A v \in Nums \ {u} : v \in s.contexts \ Left(s) => y.phrases[v] = Forgotten(s.phrases[v].gen)
    /\ \A v \in Nums \ {u} : v \notin s.contexts \ Left(s) => y.phrases[v] = s.phrases[v]
<1> DEFINE P == [c \in DOMAIN s.phrases |->
                   IF c = u THEN p
                   ELSE IF c \in s.contexts \ Left(s) THEN Forgotten(s.phrases[c].gen)
                   ELSE s.phrases[c]]
           y == Grown(s, u, p)
<1>0. DOMAIN s = Fields /\ DOMAIN s.phrases = Nums /\ s.items \subseteq Nums /\ s.contexts \subseteq Nums /\ s.items \subseteq s.contexts
      /\ u \in Nums /\ s.last \in s.contexts
  BY TypedFacts DEF Typed, TypedQueue, Ids, Nums
<1>1. y = [s EXCEPT !.contexts = Left(s) \cup {u}, !.items = s.items \cup {u}, !.last = u, !.phrases = P]
  BY DEF Grown
<1>2. /\ DOMAIN P = Nums /\ P[u] = p
      /\ \A v \in Nums \ {u} : v \in s.contexts \ Left(s) => P[v] = Forgotten(s.phrases[v].gen)
      /\ \A v \in Nums \ {u} : v \notin s.contexts \ Left(s) => P[v] = s.phrases[v]
      /\ P = [c \in Nums |-> P[c]]
  BY <1>0
<1> HIDE DEF P, y
<1>3. ASSUME NEW v \in Nums PROVE P[v] \in PhraseType /\ P[v].gen <= s.generation
  <2>0. s.phrases[v] \in PhraseType /\ s.phrases[v].gen \in Nat /\ s.phrases[v].gen <= s.generation /\ s.generation \in Nat
    BY TypedFacts, PhraseTyped
  <2>1. CASE v = u
    BY <1>2, <2>0, <2>1 DEF Newborn
  <2>2. CASE v # u /\ v \in s.contexts \ Left(s)
    BY <1>2, <2>0, <2>2, BlankType
  <2>3. CASE v # u /\ v \notin s.contexts \ Left(s)
    BY <1>2, <2>0, <2>3
  <2> QED
    BY <2>1, <2>2, <2>3
<1>4. /\ Keeps(s, y, {"contexts", "items", "last", "phrases"})
      /\ y.contexts = Left(s) \cup {u} /\ y.items = s.items \cup {u} /\ y.last = u /\ y.phrases = P
  BY <1>0, <1>1, FieldsAre DEF Keeps
<1>5. P \in [Nums -> PhraseType]
  BY <1>2, <1>3
<1>6. /\ y.generation = s.generation /\ y.hotkey = s.hotkey
      /\ y.indicator = s.indicator /\ y.deferred = s.deferred /\ y.stack = s.stack /\ y.link = s.link /\ y.waits = s.waits
      /\ y.closing = s.closing /\ y.source = s.source /\ y.pasted = s.pasted /\ y.fault = s.fault
  BY <1>4, FieldsAre DEF Keeps
<1>7. TypedQueue(y)
  BY <1>0, <1>3, <1>4, <1>5, <1>6 DEF TypedQueue, Left
<1>8. TypedRest(y)
  BY <1>6 DEF Typed, TypedRest
<1>9. Typed(y)
  BY <1>4, <1>7, <1>8 DEF Typed, Keeps
<1> QED
  BY <1>2, <1>4, <1>9 DEF y

\* The next phrase in the order of the presses
Youngest(s, u) == u \in Ids /\ ~Begun(s, u) /\ \A v \in Ids : v < u => Begun(s, v)

\* The next phrase is the smallest that has not begun
LEMMA FreshIs == ASSUME NEW s, Typed(s), Fresh(s) # {} PROVE Youngest(s, Min(Fresh(s)))
<1>1. Fresh(s) \subseteq Nums /\ Fresh(s) \subseteq Ids
  BY DEF Fresh, Ids, Nums
<1>2. Min(Fresh(s)) \in Fresh(s) /\ \A k \in Fresh(s) : Min(Fresh(s)) <= k
  BY <1>1, MinIs
<1> DEFINE m == Min(Fresh(s))
<1> HIDE DEF m
<1>3. m \in Fresh(s) /\ \A k \in Fresh(s) : m <= k
  BY <1>2 DEF m
<1>4. \A v \in Ids : v < m => v \notin Fresh(s)
  BY <1>1, <1>3 DEF Ids
<1>5. Youngest(s, m)
  BY <1>1, <1>3, <1>4 DEF Youngest, Begun, Fresh
<1> QED
  BY <1>5 DEF m

\* A phrase begins
LEMMA GrownGood ==
  ASSUME NEW s, Ready(s), NEW u, Youngest(s, u), NEW p, Newborn(s, p)
  PROVE LET y == Grown(s, u, p) IN
    /\ Typed(y) /\ GoodBut(y, u) /\ Mute(y) /\ Turn(y, 0) /\ Suspended(y) = Suspended(s)
    /\ \A v \in Nums \ {u} : Wake(y, v) /\ Glow(y, v)
    /\ y.generation = s.generation /\ y.link = s.link /\ y.fault = s.fault
    /\ y.phrases[u] = p /\ u \in y.items /\ u \in y.contexts /\ OnceOK(y, u)
<1> DEFINE y == Grown(s, u, p)
<1>0. Typed(s) /\ Good(s) /\ Awake(s) /\ Glowing(s) /\ Turn(s, 0) /\ u \in Ids /\ u \in Nums /\ Ids \subseteq Nums /\ u # 0
      /\ s.items \subseteq s.contexts /\ s.contexts \subseteq Nums /\ s.last \in s.contexts
  BY TypedFacts DEF Ready, Youngest, Ids, Nums, Typed, TypedQueue
<1>1. /\ Typed(y) /\ Keeps(s, y, {"contexts", "items", "last", "phrases"})
      /\ y.contexts = Left(s) \cup {u} /\ y.items = s.items \cup {u} /\ y.last = u /\ y.phrases[u] = p
      /\ \A v \in Nums \ {u} : v \in s.contexts \ Left(s) => y.phrases[v] = Forgotten(s.phrases[v].gen)
      /\ \A v \in Nums \ {u} : v \notin s.contexts \ Left(s) => y.phrases[v] = s.phrases[v]
  BY <1>0, GrownIs
<1> HIDE DEF y
<1>2. /\ y.generation = s.generation /\ y.hotkey = s.hotkey
      /\ y.indicator = s.indicator /\ y.deferred = s.deferred /\ y.stack = s.stack /\ y.link = s.link /\ y.waits = s.waits
      /\ y.closing = s.closing /\ y.source = s.source /\ y.pasted = s.pasted /\ y.fault = s.fault
  BY <1>1, FieldsAre DEF Keeps
<1>3. PhraseOK(s, u) /\ s.phrases[u].gen = 0 /\ u \notin s.contexts /\ u \notin s.items
  BY <1>0, TypedFacts DEF Good, PhraseOK, Youngest, Begun
<1>4. ASSUME NEW v \in Nums \ {u}, v \in s.contexts \ Left(s)
      PROVE /\ y.phrases[v].gen = s.phrases[v].gen /\ y.phrases[v].timers = {} /\ y.phrases[v].phase = "idle"
            /\ ~y.phrases[v].pending /\ ~y.phrases[v].capture /\ ~y.phrases[v].awaits /\ y.phrases[v].result = "none"
            /\ ~y.phrases[v].job /\ v \notin s.items /\ v \notin y.items /\ v \notin y.contexts
  BY <1>0, <1>1, <1>4, BlankType, TypedFacts DEF Left
<1>5. \A v \in Nums : v # u => y.phrases[v].gen = s.phrases[v].gen /\ (Begun(y, v) <=> Begun(s, v))
  BY <1>1, <1>4 DEF Begun
<1>6. \A v \in s.items : v # u /\ v \in Nums /\ y.phrases[v] = s.phrases[v]
  BY <1>0, <1>1, <1>3 DEF Left
<1>7. ASSUME NEW v \in Nums \ {u}, v \notin s.contexts \ Left(s)
      PROVE y.phrases[v] = s.phrases[v] /\ (v \in y.contexts <=> v \in s.contexts) /\ (v \in y.items <=> v \in s.items)
  BY <1>0, <1>1, <1>7 DEF Left
<1>8. Open(s) = {} /\ \A v \in Ids : s.source[v] # "open"
  <2>1. Open(s) = {}
    BY DEF Ready
  <2>2. \A v \in Ids : SourceOK(s, v)
    BY <1>0 DEF Good, Common
  <2> QED
    BY <2>1, <2>2 DEF SourceOK, Open, Current
<1>9. Common(y)
  <2>0. Common(s)
    BY <1>0 DEF Good
  <2>1. \A v \in Ids : SourceOK(y, v)
    BY <1>2, <1>8 DEF SourceOK
  <2>2. OneOpen(y)
    <3>1. \A c \in Open(y) : c = u
      BY <1>0, <1>1, <1>2, <1>7, <1>8 DEF Open, Left
    <3> QED
      BY <3>1 DEF OneOpen
  <2>3. Together(y)
    <3> SUFFICES ASSUME NEW c \in y.contexts, y.phrases[c].pending \/ c \in y.items PROVE Current(y, c)
      BY DEF Together
    <3>1. CASE c = u
      BY <1>1, <1>2, <3>1 DEF Newborn, Current
    <3>2. CASE c # u
      <4>1. c \in Nums \ {u} /\ c \in s.contexts /\ c \notin s.contexts \ Left(s)
        BY <1>0, <1>1, <3>2 DEF Left
      <4>2. y.phrases[c] = s.phrases[c] /\ (c \in y.items <=> c \in s.items)
        BY <1>7, <4>1
      <4>3. ~s.phrases[c].pending
        BY <4>1 DEF Ready
      <4>4. Current(s, c)
        BY <4>2, <4>3 DEF Ready
      <4> QED
        BY <1>2, <4>2, <4>4 DEF Current
    <3> QED
      BY <3>1, <3>2
  <2>4. EventsOK(y)
    BY <1>2, <2>0 DEF Common, EventsOK, EventOK
  <2>5. Once(y)
    <3> SUFFICES ASSUME NEW v \in Ids PROVE OnceOK(y, v)
      BY DEF Once
    <3>0. OnceOK(s, v) /\ v \in Nums
      BY <1>0, <2>0 DEF Common, Once
    <3>1. Closed(y, v) => Closed(s, v)
      <4>1. CASE v = u
        BY <1>3, <4>1 DEF Closed
      <4>2. CASE v # u
        BY <1>1, <1>5, <1>6, <3>0, <4>2 DEF Closed, Records
      <4> QED
        BY <4>1, <4>2
    <3>2. Heard(y, v) = Heard(s, v)
      BY <1>2 DEF Heard
    <3>3. y.phrases[v].gen = 0 => s.phrases[v].gen = 0
      BY <1>3, <1>5, <3>0
    <3> QED
      BY <1>2, <3>0, <3>1, <3>2, <3>3 DEF OnceOK
  <2> QED
    BY <2>1, <2>2, <2>3, <2>4, <2>5 DEF Common
<1>10. ASSUME NEW v \in Nums \ {u} PROVE PhraseOK(y, v) /\ Wake(y, v) /\ Glow(y, v)
  <2>0. PhraseOK(s, v) /\ Wake(s, v) /\ Glow(s, v)
    BY <1>0 DEF Good, Awake, Glowing
  <2>1. CASE v \in s.contexts \ Left(s)
    <3>1. PhraseOK(y, v)
      BY <1>4, <2>1 DEF PhraseOK, Busy
    <3>2. Wake(y, v) /\ Glow(y, v)
      BY <1>4, <2>1 DEF Wake, Glow, Alarm
    <3> QED
      BY <3>1, <3>2
  <2>2. CASE v \notin s.contexts \ Left(s)
    BY <1>2, <1>7, <2>0, <2>2 DEF PhraseOK, Wake, Glow, Current, Alarm
  <2> QED
    BY <2>1, <2>2
<1>11. Begun(y, u) /\ ~y.phrases[u].waiting /\ y.phrases[u].phase # "pasting"
  BY <1>0, <1>1 DEF Newborn, Begun, Typed, TypedRest
<1>12. \A v \in Ids : (v < u => Begun(s, v)) /\ (Begun(s, v) => v < u)
  <2>1. \A v, z \in Ids : v < z /\ Begun(s, z) => Begun(s, v)
    BY <1>0 DEF Turn, InOrderOfPress
  <2>2. \A v \in Ids : Begun(s, v) => v < u
    BY <1>0, <2>1 DEF Youngest, Ids
  <2> QED
    BY <2>2 DEF Youngest
<1>13. \A v \in s.items : v \in Ids /\ Begun(s, v) /\ v < u
  BY <1>0, <1>12, ItemFacts DEF Begun
<1>14. InOrderOfPress(y)
  <2>1. ASSUME NEW v \in Ids, NEW z \in Ids, v < z, Begun(y, z) PROVE Begun(y, v)
    <3>1. CASE v = u
      BY <1>11, <3>1
    <3>2. CASE v # u /\ z = u
      BY <1>0, <1>5, <1>12, <2>1, <3>2
    <3>3. CASE v # u /\ z # u
      BY <1>0, <1>5, <2>1, <3>3 DEF Turn, InOrderOfPress
    <3> QED
      BY <3>1, <3>2, <3>3
  <2>2. ASSUME NEW v \in y.items, NEW z \in y.items, y.phrases[v].phase = "pasting" PROVE v <= z
    <3>1. v \in s.items /\ s.phrases[v].phase = "pasting"
      BY <1>1, <1>6, <1>11, <2>2
    <3>2. CASE z = u
      BY <1>0, <1>13, <3>1, <3>2 DEF Ids
    <3>3. CASE z \in s.items
      BY <1>0, <3>1, <3>3 DEF Turn, InOrderOfPress
    <3> QED
      BY <1>1, <3>2, <3>3
  <2>3. ASSUME NEW v \in y.items, y.phrases[v].waiting PROVE y.phrases[v].phase = "pasting" /\ "busy" \notin y.phrases[v].timers
    BY <1>0, <1>1, <1>6, <1>11, <2>3 DEF Turn, InOrderOfPress
  <2> QED
    BY <2>1, <2>2, <2>3 DEF InOrderOfPress
<1>15. \A i \in DOMAIN s.pasted : s.pasted[i] \in Ids /\ Begun(s, s.pasted[i]) /\ s.pasted[i] < u
  <2>1. \A i \in DOMAIN s.pasted : s.pasted[i] \in Ids
    BY <1>0, ElementOfSeq DEF Typed, TypedRest
  <2> QED
    BY <1>0, <1>12, <2>1 DEF Turn, PastedOK
<1>16. PastedOK(y)
  BY <1>0, <1>2, <1>5, <1>11, <1>15 DEF Turn, PastedOK
<1>17. FramesOK(y)
  <2>1. ASSUME NEW i \in DOMAIN s.stack, Delivers(s.stack[i])
        PROVE FrameOK(y, s.stack[i]) /\ s.stack[i].uid # u
    <3> DEFINE f == s.stack[i]
    <3>1. FrameOK(s, f)
      BY <1>0, <2>1 DEF Turn, FramesOK
    <3>2. f.uid \in Ids /\ Begun(s, f.uid) /\ f.uid < u /\ f.uid # u /\ f.uid \in Nums
      BY <1>0, <1>3, <1>12, <3>1 DEF FrameOK, Begun
    <3>3. Begun(y, f.uid) /\ (f.uid \in y.items => f.uid \in s.items /\ y.phrases[f.uid] = s.phrases[f.uid])
      BY <1>1, <1>5, <1>6, <3>2
    <3>4. f.tag = "paste" => PasteOK(y, f.uid)
      <4> SUFFICES ASSUME f.tag = "paste" PROVE PasteOK(y, f.uid)
        OBVIOUS
      <4>1. PasteOK(s, f.uid)
        BY <3>1 DEF FrameOK
      <4>2. ASSUME NEW v \in y.items PROVE f.uid <= v /\ (y.phrases[v].phase = "pasting" => v = f.uid)
        <5>1. CASE v = u
          BY <1>0, <1>11, <3>2, <5>1 DEF Ids
        <5>2. CASE v \in s.items
          BY <1>6, <4>1, <5>2 DEF PasteOK
        <5> QED
          BY <1>1, <5>1, <5>2
      <4> QED
        BY <1>2, <4>1, <4>2 DEF PasteOK
    <3> QED
      BY <3>1, <3>2, <3>3, <3>4 DEF FrameOK
  <2>2. ASSUME NEW i \in DOMAIN s.stack, NEW j \in DOMAIN s.stack, Delivers(s.stack[i]), Delivers(s.stack[j]),
               s.stack[i].uid = s.stack[j].uid, s.stack[i].uid \in y.items
        PROVE i = j
    <3>1. s.stack[i].uid \in s.items
      BY <1>1, <2>1, <2>2
    <3> QED
      BY <1>0, <2>2, <3>1 DEF Turn, FramesOK
  <2>3. \A i \in DOMAIN s.stack : s.stack[i].tag = "paste" => i = 1
    BY <1>0 DEF Turn, FramesOK
  <2> QED
    BY <1>2, <2>1, <2>2, <2>3 DEF FramesOK
<1>18. Behind(y, 0)
  <2> SUFFICES ASSUME NEW i \in DOMAIN s.pasted, NEW v \in y.items
               PROVE s.pasted[i] < v \/ (s.pasted[i] = v /\ (v = 0 \/ \E j \in DOMAIN s.stack : Typing(s.stack[j]) /\ s.stack[j].uid = v))
    BY <1>2 DEF Behind
  <2>1. CASE v = u
    BY <1>15, <2>1
  <2>2. CASE v \in s.items
    BY <1>0, <2>2 DEF Turn, Behind
  <2> QED
    BY <1>1, <2>1, <2>2
<1>19. Turn(y, 0)
  BY <1>14, <1>16, <1>17, <1>18 DEF Turn
<1>20. GoodBut(y, u)
  BY <1>9, <1>10 DEF GoodBut
<1>21. OnceOK(y, u)
  BY <1>0, <1>9 DEF Common, Once
<1> QED
  BY <1>1, <1>2, <1>8, <1>10, <1>19, <1>20, <1>21 DEF y, Mute, Suspended

\* _new_context
LEMMA NewContextIs ==
  ASSUME NEW t, Ready(t), NEW u, Youngest(t, u)
  PROVE NewContext(t, u) = Grown(t, u, Forgotten(t.generation))
<1> DEFINE kept == {c \in t.contexts :
                      \/ c \in t.items \/ c = t.last \/ t.phrases[c].timers # {}
                      \/ t.phrases[c].pending \/ t.phrases[c].phase # "idle"}
<1>0. Typed(t) /\ t.items \subseteq t.contexts /\ t.last \in t.contexts /\ DOMAIN t = Fields /\ DOMAIN t.phrases = Nums
  BY DEF Ready, Typed, TypedQueue
<1>6. u \notin t.contexts
  BY <1>0, TypedFacts DEF Ready, Good, PhraseOK, Youngest, Begun, Ids, Nums
<1>1. kept = Left(t)
  BY <1>0 DEF Ready, Left
<1> HIDE DEF kept
<1>2. NewContext(t, u) =
        [t EXCEPT !.contexts = kept \cup {u}, !.items = @ \cup {u}, !.last = u,
                !.phrases = [c \in DOMAIN @ |->
                   CASE c = u -> [Blank EXCEPT !.gen = t.generation]
                     [] c \in t.contexts \ kept -> [Blank EXCEPT !.gen = t.phrases[c].gen]
                     [] OTHER -> @[c]]]
  BY DEF NewContext, kept
<1> DEFINE P == [c \in DOMAIN t.phrases |->
                   CASE c = u -> [Blank EXCEPT !.gen = t.generation]
                     [] c \in t.contexts \ kept -> [Blank EXCEPT !.gen = t.phrases[c].gen]
                     [] OTHER -> t.phrases[c]]
           Q == [c \in DOMAIN t.phrases |->
                  IF c = u THEN Forgotten(t.generation)
                  ELSE IF c \in t.contexts \ Left(t) THEN Forgotten(t.phrases[c].gen)
                  ELSE t.phrases[c]]
<1>3. P = Q
  <2>1. ASSUME NEW c \in DOMAIN t.phrases PROVE P[c] = Q[c]
    <3>1. CASE c = u
      <4>1. P[c] = [Blank EXCEPT !.gen = t.generation]
        BY <1>6, <3>1
      <4>2. Q[c] = Forgotten(t.generation)
        BY <3>1
      <4> HIDE DEF P, Q
      <4> QED
        BY <4>1, <4>2 DEF Forgotten
    <3>2. CASE c # u /\ c \in t.contexts \ kept
      BY <1>1, <3>2 DEF Forgotten
    <3>3. CASE c # u /\ c \notin t.contexts \ kept
      <4>1. P[c] = t.phrases[c]
        BY <3>3
      <4>2. Q[c] = t.phrases[c]
        BY <1>1, <3>3
      <4> QED
        BY <4>1, <4>2
    <3> QED
      BY <3>1, <3>2, <3>3
  <2> QED
    BY <2>1
<1>4. NewContext(t, u) = [t EXCEPT !.contexts = kept \cup {u}, !.items = t.items \cup {u}, !.last = u, !.phrases = P]
  BY <1>2
<1>5. Grown(t, u, Forgotten(t.generation)) = [t EXCEPT !.contexts = Left(t) \cup {u}, !.items = t.items \cup {u}, !.last = u, !.phrases = Q]
  BY DEF Grown
<1> HIDE DEF P, Q
<1> QED
  BY <1>1, <1>3, <1>4, <1>5

\* A phrase that is recorded
Recorder(g) == [Forgotten(g) EXCEPT !.phase = "recording", !.capture = TRUE]

LEMMA RecorderType == ASSUME NEW g \in Nat
  PROVE /\ Recorder(g) \in PhraseType /\ Recorder(g).gen = g /\ Recorder(g).timers = {} /\ Recorder(g).phase = "recording"
        /\ ~Recorder(g).pending /\ Recorder(g).capture /\ ~Recorder(g).awaits /\ Recorder(g).result = "none"
        /\ ~Recorder(g).job /\ ~Recorder(g).cancelled /\ ~Recorder(g).waiting
BY DEF Recorder, Forgotten, Blank, PhraseType, Phases, Outcomes

LEMMA Newborns == ASSUME NEW s, Typed(s) PROVE Newborn(s, Forgotten(s.generation)) /\ Newborn(s, Recorder(s.generation))
<1>1. s.generation \in Nat
  BY TypedFacts
<1> QED
  BY <1>1, BlankType, RecorderType DEF Newborn

LEMMA RecordedIs ==
  ASSUME NEW s, Typed(s), NEW u \in Ids
  PROVE [Phase(Grown(s, u, Forgotten(s.generation)), u, "recording") EXCEPT !.phrases[u].capture = TRUE]
          = Grown(s, u, Recorder(s.generation))
<1> DEFINE b == Forgotten(s.generation)
           r == Recorder(s.generation)
           n == Grown(s, u, b)
           y == Grown(s, u, r)
           x == Phase(n, u, "recording")
           z == [x EXCEPT !.phrases[u].capture = TRUE]
<1>0. Newborn(s, b) /\ Newborn(s, r) /\ u \in Nums
  BY Newborns DEF Ids, Nums
<1>1. /\ Typed(n) /\ Keeps(s, n, {"contexts", "items", "last", "phrases"})
      /\ n.contexts = Left(s) \cup {u} /\ n.items = s.items \cup {u} /\ n.last = u /\ n.phrases[u] = b
  BY <1>0, GrownIs
<1>2. /\ Typed(y) /\ Keeps(s, y, {"contexts", "items", "last", "phrases"})
      /\ y.contexts = Left(s) \cup {u} /\ y.items = s.items \cup {u} /\ y.last = u /\ y.phrases[u] = r
  BY <1>0, GrownIs
<1>3. \A v \in Nums \ {u} : y.phrases[v] = n.phrases[v]
  <2>1. /\ \A v \in Nums \ {u} : v \in s.contexts \ Left(s) => y.phrases[v] = Forgotten(s.phrases[v].gen)
        /\ \A v \in Nums \ {u} : v \notin s.contexts \ Left(s) => y.phrases[v] = s.phrases[v]
    BY <1>0, GrownIs
  <2>2. /\ \A v \in Nums \ {u} : v \in s.contexts \ Left(s) => n.phrases[v] = Forgotten(s.phrases[v].gen)
        /\ \A v \in Nums \ {u} : v \notin s.contexts \ Left(s) => n.phrases[v] = s.phrases[v]
    BY <1>0, GrownIs
  <2> QED
    BY <2>1, <2>2
<1> HIDE DEF n, y
<1>4. x = [n EXCEPT !.phrases[u] = [b EXCEPT !.phase = "recording"], !.items = n.items, !.last = n.last]
  BY <1>1 DEF Phase
<1>5. z = [n EXCEPT !.phrases = [n.phrases EXCEPT ![u] = r]]
  <2>1. DOMAIN n = Fields /\ DOMAIN n.phrases = Nums
    BY <1>1 DEF Typed, TypedQueue
  <2>2. r = [b EXCEPT !.phase = "recording", !.capture = TRUE]
    BY DEF Recorder
  <2>3. b \in PhraseType
    BY <1>0 DEF Newborn
  <2> DEFINE c == [b EXCEPT !.phase = "recording"]
  <2>4. r = [c EXCEPT !.capture = TRUE]
    BY <2>2, <2>3 DEF PhraseType
  <2>5. x = [n EXCEPT !.phrases = [n.phrases EXCEPT ![u] = c], !.items = n.items, !.last = n.last]
    BY <1>4, <2>1
  <2> HIDE DEF b, r, c, x
  <2>6. z = [x EXCEPT !.phrases = [x.phrases EXCEPT ![u] = [x.phrases[u] EXCEPT !.capture = TRUE]]]
    OBVIOUS
  <2>7. x.phrases = [n.phrases EXCEPT ![u] = c] /\ x.phrases[u] = c /\ DOMAIN x = Fields
    BY <1>0, <2>1, <2>5, FieldsAre
  <2>8. [x.phrases EXCEPT ![u] = r] = [n.phrases EXCEPT ![u] = r]
    BY <1>0, <2>1, <2>7
  <2>9. z = [x EXCEPT !.phrases = [n.phrases EXCEPT ![u] = r]]
    BY <2>4, <2>6, <2>7, <2>8
  <2> QED
    BY ZenonT(60), <2>1, <2>5, <2>9, FieldsAre
<1> HIDE DEF z
<1>6. DOMAIN z = Fields /\ DOMAIN y = Fields /\ \A f \in Fields : z[f] = y[f]
  <2>0. DOMAIN n = Fields /\ n.phrases \in [Nums -> PhraseType] /\ y.phrases \in [Nums -> PhraseType] /\ DOMAIN y = Fields
    BY <1>1, <1>2 DEF Typed, TypedQueue
  <2>1. DOMAIN z = Fields /\ z.phrases = [n.phrases EXCEPT ![u] = r] /\ \A f \in Fields \ {"phrases"} : z[f] = n[f]
    BY <1>5, <2>0, FieldsAre
  <2>2. z.phrases = y.phrases
    BY <1>0, <1>2, <1>3, <2>0, <2>1
  <2>3. \A f \in Fields \ {"phrases"} : n[f] = y[f]
    BY <1>1, <1>2, FieldsAre DEF Keeps
  <2> QED
    BY <2>0, <2>1, <2>2, <2>3
<1>7. z = [f \in Fields |-> z[f]] /\ y = [f \in Fields |-> y[f]]
  <2>1. z = [f \in DOMAIN z |-> z[f]]
    BY <1>5
  <2>2. y = [f \in DOMAIN y |-> y[f]]
    BY DEF y, Grown
  <2> QED
    BY <1>6, <2>1, <2>2
<1> QED
  BY <1>6, <1>7 DEF z, n, y

\* The lamp goes on for a capture that may be open
LEMMA LitWell == ASSUME NEW s, Well(s), NEW u \in Nums, Burns(s, u) PROVE Fine(s, [s EXCEPT !.indicator = TRUE])
<1> DEFINE y == [s EXCEPT !.indicator = TRUE]
<1>0. Typed(s) /\ Good(s) /\ DOMAIN s = Fields
  BY DEF Well, Typed
<1>1. Keeps(s, y, {"indicator"}) /\ y.indicator = TRUE
  BY <1>0, FieldsAre DEF Keeps
<1> HIDE DEF y
<1>2. /\ y.phrases = s.phrases /\ y.items = s.items /\ y.contexts = s.contexts /\ y.last = s.last /\ y.generation = s.generation
      /\ y.hotkey = s.hotkey /\ y.deferred = s.deferred /\ y.stack = s.stack /\ y.link = s.link /\ y.waits = s.waits
      /\ y.closing = s.closing /\ y.source = s.source /\ y.pasted = s.pasted /\ y.fault = s.fault
  BY <1>1, FieldsAre DEF Keeps
<1>3. Typed(y)
  BY <1>0, <1>1, <1>2 DEF Typed, TypedQueue, TypedRest, Keeps
<1>4. Ebb(s, y)
  BY <1>0, <1>2, TypedFacts DEF Ebb, Steady, News, Asks, EbbPhrase
<1>5. Common(y)
  <2> SUFFICES ASSUME NEW v \in Ids, y.source[v] = "open" PROVE y.phrases[v].capture /\ y.indicator
    BY <1>0, <1>3, <1>4, CommonEbb DEF Good
  <2>1. SourceOK(s, v)
    BY <1>0 DEF Good, Common
  <2> QED
    BY <1>1, <1>2, <2>1 DEF SourceOK
<1>6. Lamp(y)
  BY <1>2 DEF Lamp, Burns, Current, Alarm
<1>7. Alike(s, y)
  BY <1>1 DEF Alike, Keeps
<1>8. Well(y)
  BY <1>3, <1>5, <1>6, <1>7, AlikeWell
<1> QED
  BY <1>4, <1>8 DEF Fine, y

LEMMA RightRest == ASSUME NEW s, Right(s) PROVE Typed(s) /\ Well(s) /\ Good(s) /\ Turn(s, 0) /\ DOMAIN s = Fields
BY DEF Right, Well, Typed

LEMMA AlikeRight ==
  ASSUME NEW x, NEW y, Right(x), Typed(y), Alike(x, y), y.stack = x.stack, Common(y), Lamp(y) PROVE Right(y)
BY AlikeWell, AlikeTurn DEF Right

\* The indicator burns for a recording that has just been asked for
LEMMA StartedRight ==
  ASSUME NEW y, ~Suspended(y), NEW u, NEW shown \in BOOLEAN, Right([y EXCEPT !.indicator = TRUE]), DOMAIN y = Fields, Still(y, u, "recording")
  PROVE Right(Started(y, u, shown))
<1> DEFINE l == [y EXCEPT !.indicator = TRUE]
<1>1. Suspended(l) = Suspended(y)
  <2>1. l.stack = y.stack
    BY FieldsAre
  <2> QED
    BY <2>1 DEF Suspended
<1>2. Started(y, u, shown) = IF shown THEN l ELSE CancelOne(l, Newest(l))
  BY DEF Started
<1>3. Right(l)
  OBVIOUS
<1> HIDE DEF l
<1>4. Fine(l, CancelOne(l, Newest(l)))
  BY <1>1, <1>3, RightRest, NewestIs, CancelOneFine
<1> QED
  BY <1>2, <1>3, <1>4, FineRight

\* A phrase of this generation records, and no capture is open yet
Recorded(s, u) ==
  /\ Right(s) /\ Mute(s) /\ u \in Ids /\ u \in Nums /\ u \in s.items /\ u \in s.contexts
  /\ s.phrases[u].phase = "recording" /\ s.phrases[u].capture /\ ~s.phrases[u].cancelled /\ Current(s, u)
  /\ OnceOK(s, u) /\ \A i \in DOMAIN s.deferred : s.deferred[i].uid = u => s.deferred[i].what \notin Acks

\* The request has been made and the indicator burns
LEMMA LitRight ==
  ASSUME NEW s, NEW u, Recorded(s, u), s.link = "up"
  PROVE LET a == Asking(s, u, "record.start") IN Right([a EXCEPT !.indicator = TRUE])
<1> DEFINE a == Asking(s, u, "record.start")
           l == [a EXCEPT !.indicator = TRUE]
<1>0. Typed(s) /\ Good(s) /\ u \in Ids
  BY RightRest DEF Recorded
<1>1. /\ Typed(a) /\ Keeps(s, a, {"waits", "source"}) /\ a.source[u] = "open"
      /\ \A v \in Ids \ {u} : a.source[v] = s.source[v] /\ a.waits[v] = s.waits[v]
      /\ "recognize" \in a.waits[u] => "recognize" \in s.waits[u]
      /\ "record.cancel" \in a.waits[u] => "record.cancel" \in s.waits[u]
  <2>1. "record.start" \in Requests
    BY DEF Requests
  <2> QED
    BY <1>0, <2>1, AskingIs
<1> HIDE DEF a
<1>2. Keeps(a, l, {"indicator"}) /\ l.indicator = TRUE
  BY <1>1, FieldsAre DEF Keeps
<1> HIDE DEF l
<1>3. /\ l.phrases = s.phrases /\ l.items = s.items /\ l.contexts = s.contexts /\ l.last = s.last /\ l.generation = s.generation
      /\ l.hotkey = s.hotkey /\ l.deferred = s.deferred /\ l.stack = s.stack /\ l.link = s.link /\ l.waits = a.waits
      /\ l.closing = s.closing /\ l.source = a.source /\ l.pasted = s.pasted /\ l.fault = s.fault
  BY <1>1, <1>2, FieldsAre DEF Keeps
<1>4. Typed(l)
  <2>1. a.waits \in [Ids -> SUBSET (Requests \cup {"lost"})] /\ a.source \in [Ids -> {"none", "open", "closed", "told"}]
    BY <1>1 DEF Typed, TypedRest
  <2>2. TypedQueue(l)
    BY <1>0, <1>3 DEF Typed, TypedQueue
  <2>3. TypedRest(l)
    BY <1>0, <1>2, <1>3, <2>1 DEF Typed, TypedRest
  <2> QED
    BY <1>2, <2>2, <2>3 DEF Typed, Keeps
<1>5. Alike(s, l)
  BY <1>1, <1>2 DEF Alike, Keeps
<1>6. Common(l)
  <2>0. Common(s)
    BY <1>0 DEF Good
  <2>1. ASSUME NEW v \in Ids PROVE SourceOK(l, v)
    <3>1. CASE v = u
      BY <1>2, <1>3, <3>1 DEF Recorded, SourceOK, Current
    <3>2. CASE v # u
      BY <1>1, <1>3, <3>2 DEF Recorded, Mute, SourceOK
    <3> QED
      BY <3>1, <3>2
  <2>2. OneOpen(l)
    BY <1>3, <2>0 DEF Common, OneOpen, Open
  <2>3. Together(l)
    BY <1>3, <2>0 DEF Common, Together, Current
  <2>4. EventsOK(l)
    <3> SUFFICES ASSUME NEW i \in DOMAIN s.deferred PROVE EventOK(l, s.deferred[i])
      BY <1>3 DEF EventsOK
    <3> DEFINE e == s.deferred[i]
    <3>1. EventOK(s, e)
      BY <2>0 DEF Common, EventsOK
    <3>2. e.uid = u => e.what \notin {"cancelled", "nothing to cancel"}
      BY DEF Recorded, Acks
    <3> QED
      BY <1>1, <1>3, <3>1, <3>2 DEF EventOK
  <2>5. Once(l)
    <3> SUFFICES ASSUME NEW v \in Ids PROVE OnceOK(l, v)
      BY DEF Once
    <3>0. OnceOK(s, v)
      BY <2>0 DEF Common, Once
    <3>1. Closed(l, v) <=> Closed(s, v)
      BY <1>3 DEF Closed, Records
    <3>2. Heard(l, v) = Heard(s, v)
      BY <1>3 DEF Heard
    <3>3. /\ "recognize" \in l.waits[v] => "recognize" \in s.waits[v]
          /\ "record.cancel" \in l.waits[v] => "record.cancel" \in s.waits[v]
      BY <1>1, <1>3
    <3> QED
      BY <1>3, <3>0, <3>1, <3>2, <3>3 DEF OnceOK
  <2> QED
    BY <2>1, <2>2, <2>3, <2>4, <2>5 DEF Common
<1>7. Lamp(l)
  <2>1. Burns(l, u)
    BY <1>3 DEF Recorded, Burns, Current
  <2> QED
    BY <2>1 DEF Lamp, Recorded
<1> QED
  BY <1>3, <1>4, <1>5, <1>6, <1>7, AlikeRight DEF Recorded, l, a

LEMMA AskingRest ==
  ASSUME NEW s, NEW u, Recorded(s, u), s.link = "up"
  PROVE LET a == Asking(s, u, "record.start") IN
    /\ Typed(a) /\ Keeps(s, a, {"waits", "source"})
    /\ a.phrases = s.phrases /\ a.items = s.items /\ a.contexts = s.contexts /\ a.link = "up" /\ a.stack = s.stack /\ a.fault = s.fault
    /\ Suspended(a) = Suspended(s) /\ DOMAIN a = Fields /\ a.generation = s.generation
<1> DEFINE a == Asking(s, u, "record.start")
<1>1. Typed(a) /\ Keeps(s, a, {"waits", "source"})
  <2>1. "record.start" \in Requests /\ Typed(s) /\ u \in Ids
    BY RightRest DEF Requests, Recorded
  <2> QED
    BY <2>1, AskingIs
<1> HIDE DEF a
<1>2. /\ a.phrases = s.phrases /\ a.items = s.items /\ a.contexts = s.contexts /\ a.link = "up" /\ a.stack = s.stack /\ a.fault = s.fault
      /\ DOMAIN a = Fields /\ a.generation = s.generation
  BY <1>1, FieldsAre DEF Keeps
<1> QED
  BY <1>1, <1>2 DEF a, Suspended

\* The socket breaks in the request, and the process is replaced at once
LEMMA BrokenRight ==
  ASSUME NEW s, NEW u, Recorded(s, u), s.link = "up", s.fault = "now"
  PROVE LET y == Ask(s, u, "record.start") IN
    Right(y) /\ Suspended(y) = Suspended(s) /\ (Still(y, u, "recording") => Burns(y, u))
<1> DEFINE a == Asking(s, u, "record.start")
           b == [a EXCEPT !.fault = "none"]
           r == [b EXCEPT !.source = [b.source EXCEPT ![u] = "told"]]
           y == Relaunched(r)
<1>0. Typed(s) /\ Good(s) /\ Well(s) /\ Right(s) /\ u \in Ids /\ s.generation < GenerationLimit
  <2>1. Right(s) /\ u \in Ids
    BY DEF Recorded
  <2>2. Typed(s) /\ Good(s) /\ Well(s)
    BY <2>1, RightRest
  <2> QED
    BY <2>1, <2>2 DEF Typed, TypedRest
<1>1. Ask(s, u, "record.start") = Sent(a)
  BY DEF Ask, Asking
<1>2. /\ Typed(a) /\ Keeps(s, a, {"waits", "source"}) /\ DOMAIN a = Fields
      /\ a.fault = "now" /\ a.link = "up"
  BY AskingRest
<1>3. Sent(a) = Relaunched(b)
  BY <1>2 DEF Sent
<1>7. \A v \in Ids \ {u} : a.source[v] = s.source[v] /\ a.waits[v] = s.waits[v]
  <2>1. "record.start" \in Requests
    BY DEF Requests
  <2> QED
    BY <1>0, <2>1, AskingIs
<1>8. ("recognize" \in a.waits[u] => "recognize" \in s.waits[u]) /\ ("record.cancel" \in a.waits[u] => "record.cancel" \in s.waits[u])
  <2>1. "record.start" \in Requests
    BY DEF Requests
  <2> QED
    BY <1>0, <2>1, AskingIs
<1>18. a.source[u] = "open"
  <2>1. "record.start" \in Requests
    BY DEF Requests
  <2> QED
    BY <1>0, <2>1, AskingIs
<1> HIDE DEF a
<1>4. Keeps(a, b, {"fault"}) /\ b.fault = "none"
  BY <1>2, FieldsAre DEF Keeps
<1> HIDE DEF b
<1>5. b.source \in [Ids -> {"none", "open", "closed", "told"}] /\ b.source = a.source /\ b.waits = a.waits /\ b.waits \in [Ids -> SUBSET (Requests \cup {"lost"})]
  BY <1>2, <1>4, FieldsAre DEF Keeps, Typed, TypedRest
<1>6. Keeps(b, r, {"source"}) /\ r.source = [b.source EXCEPT ![u] = "told"] /\ DOMAIN b = Fields
  BY <1>4, FieldsAre DEF Keeps
<1> HIDE DEF r
<1>9. /\ r.phrases = s.phrases /\ r.items = s.items /\ r.contexts = s.contexts /\ r.last = s.last /\ r.generation = s.generation
      /\ r.hotkey = s.hotkey /\ r.deferred = s.deferred /\ r.stack = s.stack /\ r.link = s.link /\ r.waits = a.waits
      /\ r.closing = s.closing /\ r.pasted = s.pasted /\ r.fault = "none" /\ r.indicator = s.indicator
  BY <1>2, <1>4, <1>6, FieldsAre DEF Keeps
<1>10. Keeps(s, r, {"waits", "source", "fault"})
  BY <1>2, <1>4, <1>6 DEF Keeps
<1>11. Typed(r)
  <2>1. r.source \in [Ids -> {"none", "open", "closed", "told"}]
    BY <1>0, <1>5, <1>6
  <2>2. TypedRest(r)
    BY <1>0, <1>9, <2>1, <1>5 DEF Typed, TypedRest
  <2>3. Keeps(s, r, {"hotkey", "indicator", "deferred", "stack", "link", "waits", "closing", "source", "pasted", "fault"})
    BY <1>10 DEF Keeps
  <2> QED
    BY <1>0, <2>2, <2>3, RestOnly
<1>12. Full(s, r)
  <2>1. Alike(s, r) /\ News(s, r)
    BY <1>9, <1>10 DEF Alike, Keeps, News
  <2>2. Asks(s, r)
    BY <1>7, <1>8, <1>9 DEF Asks
  <2>3. \A v \in Ids : r.source[v] = "open" => s.source[v] = "open"
    BY <1>0, <1>5, <1>6, <1>7
  <2> QED
    BY <1>0, <1>9, <1>11, <2>1, <2>2, <2>3, AlikeFull
<1>13. Relaunched(b) = y
  <2>1. Silenced(b) = Silenced(r)
    <3>1. \A v \in Ids : (b.source[v] = "none") <=> (r.source[v] = "none")
      BY <1>0, <1>5, <1>6, <1>18
    <3> QED
      BY <3>1 DEF Silenced
  <2>2. NextWorker(b) = NextWorker(r)
    <3>1. DOMAIN r = Fields /\ DOMAIN b = Fields
      BY <1>6 DEF Keeps
    <3> DEFINE S == Silenced(b)
               n == [b EXCEPT !.generation = @ + 1, !.link = "starting", !.waits = NoWaits, !.closing = FALSE, !.source = S]
               m == [r EXCEPT !.generation = @ + 1, !.link = "starting", !.waits = NoWaits, !.closing = FALSE, !.source = S]
    <3>2. NextWorker(b) = n /\ NextWorker(r) = m
      BY <2>1 DEF NextWorker
    <3> HIDE DEF S
    <3>3. b.generation = r.generation
      BY <1>6, FieldsAre DEF Keeps
    <3>4. \A f \in Fields : n[f] = m[f]
      BY <1>6, <3>1, <3>3, FieldsAre DEF Keeps
    <3>5. n = [f \in Fields |-> n[f]] /\ m = [f \in Fields |-> m[f]]
      BY <3>1
    <3> HIDE DEF n, m
    <3> QED
      BY <3>2, <3>4, <3>5
  <2>3. Lost(b) = Lost(r)
    <3>1. b.waits = r.waits
      BY <1>6, FieldsAre DEF Keeps
    <3> QED
      BY <3>1 DEF Lost, Waiting
  <2> QED
    BY <2>2, <2>3 DEF Relaunched
<1>14. Right(r) /\ Good(r) /\ Well(r)
  BY <1>0, <1>12, FullFine, FineRight, RightRest
<1>15. Full(r, y) /\ Forgets(r, y)
  BY <1>0, <1>9, <1>11, <1>14, RelaunchedFull
<1> HIDE DEF y
<1>16. Right(y) /\ Good(y) /\ Typed(y) /\ y.contexts = s.contexts /\ Suspended(y) = Suspended(s)
  <2>1. Right(y)
    BY <1>14, <1>15, FullFine, FineRight
  <2>2. y.contexts = r.contexts /\ Suspended(y) = Suspended(r)
    BY <1>15, FullRest
  <2> QED
    BY <1>9, <2>1, <2>2, RightRest DEF Suspended
<1>17. Still(y, u, "recording") => Burns(y, u)
  <2> HAVE Still(y, u, "recording")
  <2>1. u \in Nums /\ u \in y.contexts
    BY <1>16 DEF Recorded
  <2>2. u \in y.items
    BY <1>16, <2>1, EndedFacts DEF Still, Busy
  <2>3. y.phrases[u].capture
    BY <1>9, <1>15, <2>2 DEF Forgets, Recorded
  <2> QED
    BY <2>1, <2>2, <2>3 DEF Burns
<1> QED
  BY <1>1, <1>3, <1>13, <1>16, <1>17

\* record.start is sent, and the lamp is right afterwards
LEMMA AskStartRight ==
  ASSUME NEW s, NEW u, Recorded(s, u), s.link = "up", ~Suspended(s), NEW shown \in BOOLEAN
  PROVE Right(Started(Ask(s, u, "record.start"), u, shown))
<1> DEFINE a == Asking(s, u, "record.start")
           l == [a EXCEPT !.indicator = TRUE]
<1>0. Right(s) /\ u \in Ids /\ Typed(s) /\ s.fault \in {"none", "now", "later"}
  <2>1. Right(s) /\ u \in Ids
    BY DEF Recorded
  <2>2. Typed(s)
    BY <2>1, RightRest
  <2> QED
    BY <2>1, <2>2 DEF Typed, TypedRest
<1>1. Ask(s, u, "record.start") = Sent(a)
  BY DEF Ask, Asking
<1>2. /\ Typed(a) /\ DOMAIN a = Fields /\ a.phrases = s.phrases /\ a.items = s.items
      /\ a.fault = s.fault /\ a.link = "up" /\ ~Suspended(a)
  BY AskingRest
<1>3. Right(l)
  BY LitRight
<1>4. Still(a, u, "recording")
  BY <1>2 DEF Still, Recorded
<1>5. CASE s.fault = "none"
  <2>1. Sent(a) = a
    BY <1>2, <1>5 DEF Sent
  <2> HIDE DEF a
  <2> QED
    BY <1>1, <1>2, <1>3, <1>4, <2>1, StartedRight
<1>6. CASE s.fault = "later"
  <2> DEFINE b == [a EXCEPT !.fault = "none"]
             k == [l EXCEPT !.fault = "none"]
             y == Restarting(b)
  <2>1. Sent(a) = y
    BY <1>2, <1>6 DEF Sent
  <2> HIDE DEF a
  <2>2. Typed(l) /\ Well(l)
    BY <1>3, RightRest
  <2>3. Full(l, k) /\ Keeps(l, k, {"fault"}) /\ Keeps(a, l, {"indicator"})
    <3>1. Full(l, k) /\ Keeps(l, k, {"fault"})
      BY <2>2, MendedFull
    <3> QED
      BY <1>2, <3>1, FieldsAre DEF Keeps
  <2>4. k.link = "up" /\ Right(k)
    <3>1. k.link = l.link /\ l.link = a.link
      BY <2>3, FieldsAre DEF Keeps
    <3> QED
      BY <1>2, <1>3, <2>2, <2>3, <3>1, FullFine, FineRight
  <2>5. k = [b EXCEPT !.indicator = TRUE]
    BY <1>2, FieldsAre
  <2>6. DOMAIN b = Fields /\ b.stack = a.stack /\ b.phrases = a.phrases
    BY <1>2, FieldsAre
  <2> HIDE DEF b
  <2>7. [y EXCEPT !.indicator = TRUE] = Restarting(k)
    <3>1. k.waits = b.waits /\ k.source = b.source
      BY <2>5, <2>6, FieldsAre
    <3> HIDE DEF k
    <3> DEFINE w == [v \in Ids |-> IF b.waits[v] = {} THEN {} ELSE {"lost"}]
               c == [v \in Ids |-> IF b.source[v] = "closed" THEN "told" ELSE b.source[v]]
               q == [b EXCEPT !.link = "restarting", !.closing = FALSE, !.waits = w, !.source = c]
    <3>2. b.source = [v \in Ids |-> b.source[v]] /\ b.waits = [v \in Ids |-> b.waits[v]]
      <4>1. b.source = l.source /\ b.waits = l.waits
        <5>1. k.source = l.source /\ k.waits = l.waits
          BY <2>3, FieldsAre DEF Keeps
        <5> QED
          BY <3>1, <5>1
      <4>2. l.source \in [Ids -> {"none", "open", "closed", "told"}] /\ l.waits \in [Ids -> SUBSET (Requests \cup {"lost"})]
        BY <2>2 DEF Typed, TypedRest
      <4> HIDE DEF l
      <4> QED
        BY <4>1, <4>2
    <3>3. y = q
      BY <3>2 DEF Restarting
    <3>4. Restarting(k) = [k EXCEPT !.link = "restarting", !.closing = FALSE, !.waits = w, !.source = c]
      BY <3>1, <3>2 DEF Restarting
    <3> HIDE DEF w, c
    <3> QED
      BY ZenonT(60), <2>5, <2>6, <3>3, <3>4, FieldsAre
  <2>8. Right(Restarting(k))
    <3>1. Typed(k) /\ Well(k)
      BY <2>4, RightRest
    <3> HIDE DEF k
    <3>2. Full(k, Restarting(k))
      BY <2>4, <3>1, RestartingFull
    <3> QED
      BY <2>4, <3>1, <3>2, FullFine, FineRight
  <2>9. DOMAIN y = Fields /\ y.stack = b.stack /\ y.phrases = b.phrases
    <3> DEFINE w == [v \in Ids |-> IF b.waits[v] = {} THEN {} ELSE {"lost"}]
    <3> QED
      BY <2>6, FieldsAre DEF Restarting
  <2>10. ~Suspended(y) /\ Still(y, u, "recording")
    BY <1>2, <1>4, <2>6, <2>9 DEF Suspended, Still
  <2> HIDE DEF y
  <2> QED
    BY <1>1, <2>1, <2>7, <2>8, <2>9, <2>10, StartedRight
<1>7. CASE s.fault = "now"
  <2> DEFINE y == Ask(s, u, "record.start")
  <2>1. Right(y) /\ ~Suspended(y) /\ (Still(y, u, "recording") => Burns(y, u))
    BY <1>7, BrokenRight
  <2>2. Well(y) /\ DOMAIN y = Fields
    BY <2>1, RightRest
  <2> HIDE DEF y
  <2>3. CASE ~Still(y, u, "recording")
    BY <2>1, <2>3 DEF Started, y
  <2>4. CASE Still(y, u, "recording")
    <3>1. Fine(y, [y EXCEPT !.indicator = TRUE])
      <4>1. u \in Nums
        BY DEF Recorded
      <4> QED
        BY <2>1, <2>2, <2>4, <4>1, LitWell
    <3> QED
      BY <2>1, <2>2, <2>4, <3>1, FineRight, StartedRight DEF y
  <2> QED
    BY <2>3, <2>4
<1> QED
  BY <1>0, <1>5, <1>6, <1>7

\* A phrase that begins records
LEMMA RecordedStart ==
  ASSUME NEW t, Ready(t), NEW u, Youngest(t, u)
  PROVE Recorded(Grown(t, u, Recorder(t.generation)), u)
<1> DEFINE p == Recorder(t.generation)
           y == Grown(t, u, p)
<1>1. Typed(t) /\ Good(t) /\ u \in Ids /\ u \in Nums /\ u # 0 /\ t.generation \in Nat \ {0}
  <2>1. Typed(t) /\ Good(t) /\ u \in Ids
    BY DEF Ready, Youngest
  <2>2. u \in Nums /\ u # 0
    BY <2>1, LimitAssumption DEF Ids, Nums
  <2> QED
    BY <2>1, <2>2 DEF Typed, TypedRest
<1>2. /\ p \in PhraseType /\ p.gen = t.generation /\ p.timers = {} /\ p.phase = "recording"
      /\ ~p.pending /\ p.capture /\ ~p.awaits /\ p.result = "none" /\ ~p.job /\ ~p.cancelled /\ ~p.waiting
  BY <1>1, RecorderType
<1>3. Newborn(t, p)
  BY <1>1, Newborns
<1> HIDE DEF p
<1>4. /\ Typed(y) /\ GoodBut(y, u) /\ Mute(y) /\ Turn(y, 0)
      /\ \A v \in Nums \ {u} : Wake(y, v) /\ Glow(y, v)
      /\ y.generation = t.generation
      /\ y.phrases[u] = p /\ u \in y.items /\ u \in y.contexts /\ OnceOK(y, u)
  BY <1>3, GrownGood
<1>5. y.deferred = t.deferred
  <2>1. Keeps(t, y, {"contexts", "items", "last", "phrases"})
    BY <1>1, <1>3, GrownIs
  <2> HIDE DEF y
  <2> QED
    BY <2>1, FieldsAre DEF Keeps
<1> HIDE DEF y
<1>6. PhraseOK(y, u)
  BY <1>1, <1>2, <1>4 DEF PhraseOK, Busy
<1>7. Wake(y, u) /\ Glow(y, u) /\ Burns(y, u)
  BY <1>2, <1>4 DEF Wake, Alarm, Glow, Burns, Current
<1>8. Good(y)
  BY <1>4, <1>6 DEF Good, GoodBut
<1>9. Well(y)
  BY <1>1, <1>4, <1>7, <1>8 DEF Well, Awake, Glowing, Lamp
<1>10. \A i \in DOMAIN y.deferred : y.deferred[i].uid = u => y.deferred[i].what \notin Acks
  <2>1. OnceOK(t, u) /\ t.phrases[u].gen = 0
    BY <1>1 DEF Good, Common, Once, Youngest, Begun
  <2> QED
    BY <1>5, <2>1 DEF OnceOK
<1> QED
  BY <1>1, <1>2, <1>4, <1>9, <1>10 DEF Recorded, Right, Current, y, p

\* _start_phrase
LEMMA StartPhraseRight ==
  ASSUME NEW t, Ready(t), ~Suspended(t), NEW u, Youngest(t, u), NEW ready \in BOOLEAN, NEW shown \in BOOLEAN
  PROVE Right(StartPhrase(t, u, ready, shown))
<1> DEFINE new == Grown(t, u, Forgotten(t.generation))
           rec == Grown(t, u, Recorder(t.generation))
           x == IF ready THEN rec ELSE new
           y == FailRecognition(x, u, FALSE)
<1>1. Typed(t) /\ u \in Ids /\ u \in Nums /\ t.generation \in Nat \ {0}
  <2>1. Typed(t) /\ u \in Ids
    BY DEF Ready, Youngest
  <2> QED
    BY <2>1, LimitAssumption DEF Typed, TypedRest, Ids, Nums
<1>2. StartPhrase(t, u, ready, shown) =
        IF ready /\ CanSend(t) THEN Started(Ask(rec, u, "record.start"), u, shown) ELSE RefusePress(y)
  <2>1. NewContext(t, u) = new
    BY NewContextIs
  <2>2. [Phase(new, u, "recording") EXCEPT !.phrases[u].capture = TRUE] = rec
    BY <1>1, RecordedIs
  <2> HIDE DEF new, rec
  <2> DEFINE m == NewContext(t, u)
             k == [Phase(m, u, "recording") EXCEPT !.phrases[u].capture = TRUE]
             z == FailRecognition(IF ready THEN k ELSE m, u, FALSE)
  <2>3. StartPhrase(t, u, ready, shown) =
          IF ready /\ CanSend(t) THEN Started(Ask(k, u, "record.start"), u, shown) ELSE RefusePress(z)
    BY DEF StartPhrase
  <2>4. m = new
    BY <2>1
  <2> HIDE DEF m
  <2>5. k = rec
    BY <2>2, <2>4
  <2> HIDE DEF k
  <2>6. z = y
    BY <2>4, <2>5
  <2> HIDE DEF z, y
  <2> QED
    BY <2>3, <2>5, <2>6
<1>3. Recorded(rec, u)
  BY RecordedStart
<1>4. Newborn(t, Forgotten(t.generation)) /\ Newborn(t, Recorder(t.generation))
  BY <1>1, Newborns
<1>5. ~Suspended(rec) /\ ~Suspended(new)
  BY <1>4, GrownGood
<1>6. CASE ready /\ CanSend(t)
  <2>1. rec.link = "up"
    BY <1>4, <1>6, GrownGood DEF CanSend
  <2> HIDE DEF rec
  <2> QED
    BY <1>2, <1>3, <1>5, <1>6, <2>1, AskStartRight
<1>7. CASE ~(ready /\ CanSend(t))
  <2>1. PICK p : x = Grown(t, u, p) /\ Newborn(t, p)
    BY <1>4
  <2>2. /\ Typed(x) /\ GoodBut(x, u) /\ Turn(x, 0)
        /\ \A v \in Nums \ {u} : Wake(x, v) /\ Glow(x, v)
        /\ x.generation = t.generation /\ x.phrases[u] = p /\ u \in x.items
    BY <2>1, GrownGood
  <2>3. x.phrases[u].gen > 0 /\ ~x.phrases[u].awaits
    BY <1>1, <2>1, <2>2 DEF Newborn
  <2>4. ~Suspended(x)
    BY <1>5
  <2> HIDE DEF x, rec, new
  <2>5. Fine(x, y)
    BY <1>1, <2>2, <2>3, FailRecognitionFine
  <2>6. Right(y) /\ ~Suspended(y)
    <3>1. Well(y) /\ Ebb(x, y) /\ Typed(y)
      BY <2>5 DEF Fine, Well
    <3>2. Turn(y, 0)
      BY <2>2, <3>1, TurnEbb
    <3> QED
      BY <2>4, <3>1, <3>2, EbbRest DEF Right
  <2> HIDE DEF y
  <2>7. Right(RefusePress(y))
    BY <2>6, RightRest, RefusePressFine, FineRight
  <2> QED
    BY <1>2, <1>7, <2>7
<1> QED
  BY <1>6, <1>7

\* A press: a phrase begins, or it is refused
LEMMA PressRight ==
  ASSUME NEW s, Right(s), ~Suspended(s), NEW ready \in BOOLEAN, NEW shown \in BOOLEAN
  PROVE Right(Press(s, ready, shown))
<1>1. CASE ~((s.items = {} \/ CanOverlap(s)) /\ ~Owing(s) /\ Fresh(s) # {})
  <2>1. Press(s, ready, shown) = RefusePress(s)
    BY <1>1 DEF Press
  <2> QED
    BY <2>1, RightRest, RefusePressFine, FineRight
<1>2. CASE (s.items = {} \/ CanOverlap(s)) /\ ~Owing(s) /\ Fresh(s) # {}
  <2> DEFINE t == Cleared(s)
             u == Min(Fresh(s))
  <2>1. Press(s, ready, shown) = StartPhrase(t, u, ready, shown)
    BY <1>2 DEF Press, Start, Cleared
  <2>2. Ready(t) /\ Fresh(t) = Fresh(s) /\ ~Suspended(t)
    BY <1>2, ClearedReady
  <2>3. Youngest(t, u)
    <3>1. Typed(t)
      BY <2>2 DEF Ready
    <3> QED
      BY <1>2, <2>2, <3>1, FreshIs
  <2> QED
    BY <2>1, <2>2, <2>3, StartPhraseRight
<1> QED
  BY <1>1, <1>2

-----------------------------------------------------------------------------
(* The steps.  Each is a call of the queue, perhaps with a socket that breaks in it.                  *)

\* An event that may reach the queue
Timely(s, e) ==
  /\ e \in EventType /\ EventOK(s, e)
  /\ e.what \in Results => Unheard(s, e.uid)
  /\ e.what \in Acks => Begun(s, e.uid)

\* on_hotkey_state and cancel
LEMMA UserEventRight ==
  ASSUME NEW s, Right(s), ~Suspended(s), NEW what, NEW ready \in BOOLEAN, NEW shown \in BOOLEAN
  PROVE Right(UserEvent(s, what, ready, shown))
<1>1. Typed(s) /\ Well(s)
  BY RightRest
<1>2. Newest(s) \in s.contexts /\ CancelledBy(s, what) \in s.contexts
  BY <1>1, NewestIs, DefaultIs DEF CancelledBy
<1>3. CASE what = "press"
  <2>1. UserEvent(s, what, ready, shown) = Press(s, ready, shown)
    BY <1>3 DEF UserEvent
  <2> QED
    BY <2>1, PressRight
<1>4. CASE what # "press" /\ what \in {"release", "limit reached"}
  <2> DEFINE long == what = "release"
  <2>0. long \in BOOLEAN
    OBVIOUS
  <2>1. UserEvent(s, what, ready, shown) = Stop(s, Newest(s), FALSE, long)
    BY <1>4 DEF UserEvent
  <2> HIDE DEF long
  <2>2. Fine(s, Stop(s, Newest(s), FALSE, long))
    BY <1>1, <1>2, <2>0, StopFine
  <2> QED
    BY <2>1, <2>2, FineRight
<1>5. CASE what # "press" /\ what \notin {"release", "limit reached"}
  <2>1. UserEvent(s, what, ready, shown) \in {s, CancelOne(s, CancelledBy(s, what))}
    BY <1>5 DEF UserEvent
  <2>2. Fine(s, CancelOne(s, CancelledBy(s, what)))
    BY <1>1, <1>2, CancelOneFine
  <2> QED
    BY <2>1, <2>2, FineRight
<1> QED
  BY <1>3, <1>4, <1>5

\* An event is deferred during a paste
LEMMA DeferRight ==
  ASSUME NEW s, Right(s), NEW e, Timely(s, e)
  PROVE Right(Defer(s, e))
<1> DEFINE y == Defer(s, e)
<1>0. e \in EventType /\ EventOK(s, e) /\ Typed(s) /\ Well(s) /\ Good(s) /\ Common(s)
  BY RightRest DEF Timely, Good
<1>1. /\ Typed(y) /\ Keeps(s, y, {"deferred"}) /\ Handset(s, y)
      /\ y.deferred = Append(s.deferred, e)
  BY <1>0, DeferIs
<1> HIDE DEF y
<1>2. /\ y.phrases = s.phrases /\ y.items = s.items /\ y.contexts = s.contexts /\ y.generation = s.generation /\ y.last = s.last
      /\ y.link = s.link /\ y.source = s.source /\ y.waits = s.waits /\ y.stack = s.stack /\ Alike(s, y)
  BY <1>1, HandsetRest
<1>3. y.indicator = s.indicator
  BY <1>1, FieldsAre DEF Keeps
<1>4. /\ DOMAIN s.deferred \subseteq DOMAIN y.deferred /\ DOMAIN s.deferred \subseteq Nat
      /\ \A i \in DOMAIN s.deferred : y.deferred[i] = s.deferred[i]
      /\ \A i \in DOMAIN y.deferred \ DOMAIN s.deferred :
           y.deferred[i] = e /\ \A j \in DOMAIN y.deferred : j # i => j \in DOMAIN s.deferred
  <2>1. s.deferred \in Seq(EventType)
    BY <1>0 DEF Typed, TypedRest
  <2> QED
    BY <1>0, <1>1, <2>1, Appended
<1>5. Common(y)
  <2>1. \A v \in Ids : SourceOK(y, v)
    BY <1>0, <1>2, <1>3 DEF Common, SourceOK, Current
  <2>2. OneOpen(y) /\ Together(y)
    BY <1>0, <1>2 DEF Common, OneOpen, Open, Together, Current
  <2>3. EventsOK(y)
    <3>1. \A x : EventOK(s, x) => EventOK(y, x)
      BY <1>2 DEF EventOK
    <3> QED
      BY <1>0, <1>4, <3>1 DEF Common, EventsOK
  <2>4. ASSUME NEW v \in Ids PROVE OnceOK(y, v)
    <3>0. OnceOK(s, v)
      BY <1>0 DEF Common, Once
    <3>1. Closed(y, v) <=> Closed(s, v)
      BY <1>2 DEF Closed, Records
    <3>2. Heard(s, v) \subseteq Heard(y, v) /\ \A i \in Heard(y, v) : i \in Heard(s, v) \/ (i \notin DOMAIN s.deferred /\ e.what \in Results /\ e.uid = v)
      BY <1>4 DEF Heard
    <3>3. CASE e.what \in Results /\ e.uid = v
      <4>1. "recognize" \notin s.waits[v] /\ Heard(s, v) = {} /\ ~Closed(s, v)
        BY <3>3 DEF Timely, Unheard
      <4>2. \A i, j \in Heard(y, v) : i = j
        <5> SUFFICES ASSUME NEW i \in Heard(y, v), NEW j \in Heard(y, v) PROVE i = j
          OBVIOUS
        <5>1. i \in DOMAIN y.deferred /\ j \in DOMAIN y.deferred
          BY DEF Heard
        <5> QED
          BY <1>4, <3>2, <4>1, <5>1
      <4>3. y.phrases[v].gen # 0
        BY <1>2, <4>1 DEF Closed
      <4> QED
        BY <1>2, <3>1, <4>1, <4>2, <4>3 DEF OnceOK
    <3>4. CASE ~(e.what \in Results /\ e.uid = v)
      <4>1. Heard(y, v) = Heard(s, v)
        BY <3>2, <3>4
      <4>2. y.phrases[v].gen = 0 => \A i \in DOMAIN y.deferred : y.deferred[i].uid = v => y.deferred[i].what \notin Acks
        <5> HAVE y.phrases[v].gen = 0
        <5>1. e.uid = v => e.what \notin Acks
          BY <1>2 DEF Timely, Begun
        <5>2. \A i \in DOMAIN s.deferred : s.deferred[i].uid = v => s.deferred[i].what \notin Acks
          BY <1>2, <3>0 DEF OnceOK
        <5> QED
          BY <1>4, <5>1, <5>2
      <4> QED
        BY <1>2, <3>0, <3>1, <4>1, <4>2 DEF OnceOK
    <3> QED
      BY <3>3, <3>4
  <2> QED
    BY <2>1, <2>2, <2>3, <2>4 DEF Common, Once
<1>6. Lamp(y)
  <2>1. Lamp(s)
    BY <1>0 DEF Well
  <2>2. \A c : Burns(y, c) <=> Burns(s, c)
    BY <1>2 DEF Burns, Current, Alarm
  <2> QED
    BY <1>3, <2>1, <2>2 DEF Lamp
<1> QED
  BY <1>1, <1>2, <1>5, <1>6, AlikeRight DEF y

LEMMA EnterRest ==
  ASSUME NEW s, Right(s)
  PROVE Enter(s).waits = s.waits /\ Enter(s).deferred = s.deferred
<1>1. DOMAIN s = Fields
  BY RightRest
<1> QED
  BY <1>1, FieldsAre DEF Enter

\* An event is heard, at once or after the paste
LEMMA HearRight ==
  ASSUME NEW s, Right(s), NEW e, Timely(s, e), NEW ready \in BOOLEAN, NEW shown \in BOOLEAN
  PROVE Right(Hear(s, e, ready, shown))
<1> DEFINE t == Enter(s)
           u == Route(s, e.uid)
<1>1. Typed(s) /\ e \in EventType /\ EventOK(s, e)
  BY RightRest DEF Timely
<1>2. Right(t) /\ Suspended(t) = Suspended(s) /\ t.phrases = s.phrases /\ t.items = s.items /\ t.contexts = s.contexts
      /\ t.generation = s.generation /\ t.link = s.link /\ t.source = s.source
      /\ t.waits = s.waits /\ t.deferred = s.deferred
  BY EnterRight, EnterRest
<1> HIDE DEF t
<1>3. u \in t.contexts /\ Well(t) /\ EventOK(t, e)
  <2>1. u \in s.contexts
    BY <1>1, RouteIs
  <2> QED
    BY <1>1, <1>2, <2>1, RightRest DEF EventOK
<1>4. Hear(s, e, ready, shown) \in
        {s, Defer(s, e)} \cup (IF Suspended(s) THEN {} ELSE {UserEvent(t, e.what, ready, shown), WorkerEvent(t, u, e)})
  BY DEF Hear, t
<1>5. Right(s) /\ Right(Defer(s, e))
  BY DeferRight
<1>6. ~Suspended(s) => Right(UserEvent(t, e.what, ready, shown))
  BY <1>2, UserEventRight
<1>7. ~Suspended(s) => Right(WorkerEvent(t, u, e))
  <2> HAVE ~Suspended(s)
  <2>0. Unheard(s, e.uid) => Unheard(t, e.uid)
    BY <1>2 DEF Unheard, Heard, Closed, Records
  <2> DEFINE y == WorkerEvent(t, u, e)
  <2>1. \/ Fine(t, y)
        \/ e.uid = u /\ Resulting(t, u, e.what) /\ y = Result(t, u, e.what)
    BY <1>1, <1>2, <1>3, WorkerEventFine
  <2> HIDE DEF y, u
  <2>2. CASE Fine(t, y)
    BY <1>2, <2>2, FineRight DEF y
  <2>3. CASE e.uid = u /\ Resulting(t, u, e.what) /\ y = Result(t, u, e.what)
    <3>1. Unheard(t, u)
      BY <2>0, <2>3 DEF Timely, Resulting, Results
    <3> QED
      BY <1>2, <1>3, <2>3, <3>1, ResultRight DEF y
  <2> QED
    BY <2>1, <2>2, <2>3 DEF y
<1> QED
  BY <1>4, <1>5, <1>6, <1>7

LEMMA FullRight == ASSUME NEW x, NEW y, Right(x), Full(x, y) PROVE Right(y)
BY RightRest, FullFine, FineRight

\* Key, fault and audio.close are in no part of the invariant
LEMMA QuietRight ==
  ASSUME NEW x, NEW y, Right(x), Typed(y), Keeps(x, y, {"hotkey", "fault", "closing"}) PROVE Right(y)
<1>1. Typed(x)
  BY RightRest
<1>2. /\ y.stack = x.stack /\ y.deferred = x.deferred /\ y.indicator = x.indicator
      /\ y.link = x.link /\ y.source = x.source /\ y.waits = x.waits
  BY FieldsAre DEF Keeps
<1>3. Alike(x, y) /\ News(x, y) /\ Asks(x, y)
  BY <1>2 DEF Alike, Keeps, News, Asks
<1>4. Full(x, y)
  BY <1>1, <1>2, <1>3, AlikeFull
<1> QED
  BY <1>4, FullRight

\* The socket may break
Faulty(fault) == [Now EXCEPT !.fault = fault]

\* A call begins with a socket that will break
LEMMA FaultyRight ==
  ASSUME Right(Now), NEW fault \in Faults
  PROVE LET y == Faulty(fault) IN
    /\ Right(y) /\ Keeps(Now, y, {"fault"})
    /\ y.phrases = phrases /\ y.items = items /\ y.contexts = contexts /\ y.stack = stack /\ y.deferred = deferred
    /\ y.generation = generation /\ y.link = link /\ y.waits = waits /\ y.source = source /\ y.closing = closing
    /\ y.indicator = indicator /\ y.hotkey = hotkey
<1> DEFINE y == Faulty(fault)
<1>0. Typed(Now)
  BY RightRest
<1>1. Keeps(Now, y, {"fault"}) /\ y.fault = fault
  BY FieldsAre DEF Faulty, Keeps, Now
<1>2. fault \in {"none", "now", "later"} /\ (fault = "now" => link # "up" \/ generation < GenerationLimit)
  BY LimitAssumption DEF Faults
<1> HIDE DEF y
<1>3. /\ y.phrases = phrases /\ y.items = items /\ y.contexts = contexts /\ y.stack = stack /\ y.deferred = deferred
      /\ y.generation = generation /\ y.link = link /\ y.waits = waits /\ y.source = source /\ y.closing = closing
      /\ y.indicator = indicator /\ y.hotkey = hotkey /\ y.pasted = pasted /\ y.last = last
  BY <1>1, FieldsAre, NowIs DEF Keeps
<1>4. Typed(y)
  <2>1. TypedRest(y)
    BY <1>0, <1>1, <1>2, <1>3, NowIs DEF Typed, TypedRest
  <2>2. Keeps(Now, y, {"hotkey", "indicator", "deferred", "stack", "link", "waits", "closing", "source", "pasted", "fault"})
    BY <1>1 DEF Keeps
  <2> QED
    BY <1>0, <2>1, <2>2, RestOnly
<1>5. Right(y)
  <2>1. Keeps(Now, y, {"hotkey", "fault", "closing"})
    BY <1>1 DEF Keeps
  <2> QED
    BY <1>4, <2>1, QuietRight
<1> QED
  BY <1>1, <1>3, <1>5 DEF y

\* What the user does
LEMMA UserHeard ==
  ASSUME NEW s, Right(s), NEW what \in UserEvents, NEW ready \in BOOLEAN, NEW shown \in BOOLEAN
  PROVE Right(Hear(s, Due(what), ready, shown))
<1>1. Typed(s)
  BY RightRest
<1>2. Timely(s, Due(what))
  BY <1>1, DueOK DEF Timely
<1> QED
  BY <1>2, HearRight

\* The key changes and is heard
LEMMA KeyHeard ==
  ASSUME NEW s, Right(s), NEW state \in {"idle", "recording", "processing"}, NEW overlap \in BOOLEAN,
         NEW what \in UserEvents, NEW ready \in BOOLEAN, NEW shown \in BOOLEAN
  PROVE Right(Hear(SetHotkey(s, state, overlap), Due(what), ready, shown))
<1>1. Right(SetHotkey(s, state, overlap))
  BY RightRest, SetHotkeyFull, FullRight
<1> QED
  BY <1>1, UserHeard

LEMMA KeyPressStep == ASSUME Right(Now), KeyPress PROVE Right(Now')
<1> DEFINE b == hotkey.state = "processing"
<1>1. PICK ready \in BOOLEAN, shown \in BOOLEAN, fault \in Faults :
        Become(Hear(SetHotkey(Faulty(fault), "recording", b), Due("press"), ready, shown))
  BY DEF KeyPress, Call, Faulty
<1>2. b \in BOOLEAN /\ "press" \in UserEvents
  BY DEF UserEvents
<1> HIDE DEF b
<1> DEFINE y == Hear(SetHotkey(Faulty(fault), "recording", b), Due("press"), ready, shown)
<1>3. Right(Faulty(fault))
  BY FaultyRight
<1>4. Right(y)
  BY <1>2, <1>3, KeyHeard
<1> HIDE DEF y
<1> QED
  BY <1>1, <1>4, Became DEF y

LEMMA KeyStopStep == ASSUME Right(Now), NEW why \in {"release", "limit reached"}, KeyStop(why) PROVE Right(Now')
<1>1. PICK fault \in Faults : Become(Hear(SetHotkey(Faulty(fault), "processing", FALSE), Due(why), TRUE, TRUE))
  BY DEF KeyStop, Call, Faulty
<1> DEFINE y == Hear(SetHotkey(Faulty(fault), "processing", FALSE), Due(why), TRUE, TRUE)
<1>2. why \in UserEvents
  BY DEF UserEvents
<1>3. Right(Faulty(fault))
  BY FaultyRight
<1>4. Right(y)
  BY <1>2, <1>3, KeyHeard
<1> HIDE DEF y
<1> QED
  BY <1>1, <1>4, Became DEF y

LEMMA KeyTapStep == ASSUME Right(Now), KeyTap PROVE Right(Now')
<1> DEFINE state == IF hotkey.overlap THEN "processing" ELSE "idle"
<1>1. PICK fault \in Faults : Become(Hear(SetHotkey(Faulty(fault), state, FALSE), Due("tap"), TRUE, TRUE))
  BY DEF KeyTap, Call, Faulty
<1>2. "tap" \in UserEvents /\ state \in {"idle", "recording", "processing"}
  BY DEF UserEvents
<1> HIDE DEF state
<1> DEFINE y == Hear(SetHotkey(Faulty(fault), state, FALSE), Due("tap"), TRUE, TRUE)
<1>3. Right(Faulty(fault))
  BY FaultyRight
<1>4. Right(y)
  BY <1>2, <1>3, KeyHeard
<1> HIDE DEF y
<1> QED
  BY <1>1, <1>4, Became DEF y

LEMMA KeyEscapeStep == ASSUME Right(Now), KeyEscape PROVE Right(Now')
<1>1. PICK fault \in Faults : Become(Hear(SetHotkey(Faulty(fault), "idle", FALSE), Due("escape"), TRUE, TRUE))
  BY DEF KeyEscape, Call, Faulty
<1> DEFINE y == Hear(SetHotkey(Faulty(fault), "idle", FALSE), Due("escape"), TRUE, TRUE)
<1>2. "escape" \in UserEvents
  BY DEF UserEvents
<1>3. Right(Faulty(fault))
  BY FaultyRight
<1>4. Right(y)
  BY <1>2, <1>3, KeyHeard
<1> HIDE DEF y
<1> QED
  BY <1>1, <1>4, Became DEF y

LEMMA ClickStep == ASSUME Right(Now), NEW what \in {"escape", "indicators"}, Click(what) PROVE Right(Now')
<1>1. PICK fault \in Faults : Become(Hear(Faulty(fault), Due(what), TRUE, TRUE))
  BY DEF Click, Call, Faulty
<1> DEFINE y == Hear(Faulty(fault), Due(what), TRUE, TRUE)
<1>2. what \in UserEvents
  BY DEF UserEvents
<1>3. Right(Faulty(fault))
  BY FaultyRight
<1>4. Right(y)
  BY <1>2, <1>3, UserHeard
<1> HIDE DEF y
<1> QED
  BY <1>1, <1>4, Became DEF y

\* The first of the deferred events is taken
Taken(s) == [s EXCEPT !.deferred = Tail(s.deferred)]

\* What was deferred may reach the queue when it is taken
LEMMA TakenRight ==
  ASSUME NEW s, Right(s), s.deferred # <<>>
  PROVE Right(Taken(s)) /\ Timely(Taken(s), Head(s.deferred))
<1> DEFINE y == Taken(s)
           e == Head(s.deferred)
           q == Tail(s.deferred)
<1>0. Typed(s) /\ Well(s) /\ Good(s) /\ Common(s) /\ s.deferred \in Seq(EventType) /\ DOMAIN s = Fields
  <2>1. Typed(s) /\ Well(s) /\ Good(s)
    BY RightRest
  <2> QED
    BY <2>1 DEF Typed, TypedRest, Good
<1>1. /\ q \in Seq(EventType) /\ e \in EventType /\ e = s.deferred[1] /\ 1 \in DOMAIN s.deferred
      /\ \A i \in DOMAIN q : i + 1 \in DOMAIN s.deferred /\ s.deferred[i + 1] = q[i] /\ i \in Nat /\ i # 0
  BY <1>0, Popped
<1> HIDE DEF q, e
<1>2. Keeps(s, y, {"deferred"}) /\ y.deferred = q
  BY <1>0, FieldsAre DEF Keeps, Taken, q
<1> HIDE DEF y
<1>3. /\ y.phrases = s.phrases /\ y.items = s.items /\ y.contexts = s.contexts /\ y.generation = s.generation /\ y.last = s.last
      /\ y.link = s.link /\ y.source = s.source /\ y.waits = s.waits /\ y.stack = s.stack /\ y.indicator = s.indicator
      /\ y.hotkey = s.hotkey /\ y.closing = s.closing /\ y.pasted = s.pasted /\ y.fault = s.fault
  BY <1>2, FieldsAre DEF Keeps
<1>4. Typed(y)
  <2>1. TypedRest(y)
    BY <1>0, <1>1, <1>2, <1>3 DEF Typed, TypedRest
  <2>2. Keeps(s, y, {"hotkey", "indicator", "deferred", "stack", "link", "waits", "closing", "source", "pasted", "fault"})
    BY <1>2 DEF Keeps
  <2> QED
    BY <1>0, <2>1, <2>2, RestOnly
<1>5. Alike(s, y)
  BY <1>2 DEF Alike, Keeps
<1>6. \A x : EventOK(s, x) => EventOK(y, x)
  BY <1>3 DEF EventOK
<1>7. ASSUME NEW v \in Ids
      PROVE /\ \A i \in Heard(y, v) : i + 1 \in Heard(s, v) /\ i \in Nat /\ i # 0
            /\ (Closed(y, v) <=> Closed(s, v)) /\ OnceOK(s, v)
  <2>1. \A i \in Heard(y, v) : i + 1 \in Heard(s, v) /\ i \in Nat /\ i # 0
    BY <1>1, <1>2 DEF Heard
  <2>2. Closed(y, v) <=> Closed(s, v)
    BY <1>3 DEF Closed, Records
  <2> QED
    BY <1>0, <2>1, <2>2 DEF Common, Once
<1>8. Common(y)
  <2>1. \A v \in Ids : SourceOK(y, v)
    BY <1>0, <1>3 DEF Common, SourceOK, Current
  <2>2. OneOpen(y) /\ Together(y)
    BY <1>0, <1>3 DEF Common, OneOpen, Open, Together, Current
  <2>3. EventsOK(y)
    BY <1>0, <1>1, <1>2, <1>6 DEF Common, EventsOK
  <2>4. ASSUME NEW v \in Ids PROVE OnceOK(y, v)
    <3>1. Heard(s, v) = {} => Heard(y, v) = {}
      BY <1>7
    <3>2. \A i, j \in Heard(y, v) : i = j
      <4> SUFFICES ASSUME NEW i \in Heard(y, v), NEW j \in Heard(y, v) PROVE i = j
        OBVIOUS
      <4>1. i \in Nat /\ j \in Nat /\ i + 1 \in Heard(s, v) /\ j + 1 \in Heard(s, v)
        BY <1>7
      <4>2. i + 1 = j + 1
        BY <1>7, <4>1 DEF OnceOK
      <4> QED
        BY <4>1, <4>2
    <3>3. y.phrases[v].gen = 0 => \A i \in DOMAIN y.deferred : y.deferred[i].uid = v => y.deferred[i].what \notin Acks
      BY <1>1, <1>2, <1>3, <1>7 DEF OnceOK
    <3> QED
      BY <1>3, <1>7, <3>1, <3>2, <3>3 DEF OnceOK
  <2> QED
    BY <2>1, <2>2, <2>3, <2>4 DEF Common, Once
<1>9. Lamp(y)
  <2>1. Lamp(s)
    BY <1>0 DEF Well
  <2>2. \A c : Burns(y, c) <=> Burns(s, c)
    BY <1>3 DEF Burns, Current, Alarm
  <2> QED
    BY <1>3, <2>1, <2>2 DEF Lamp
<1>10. Right(y)
  BY <1>3, <1>4, <1>5, <1>8, <1>9, AlikeRight
<1>11. EventOK(s, e)
  BY <1>0, <1>1 DEF Common, EventsOK
<1>12. e.what \in Results => Unheard(y, e.uid)
  <2> HAVE e.what \in Results
  <2>1. e.uid \in Ids
    BY <1>11 DEF EventOK
  <2>2. 1 \in Heard(s, e.uid)
    BY <1>1 DEF Heard
  <2>3. ~Closed(y, e.uid) /\ "recognize" \notin y.waits[e.uid]
    BY <1>3, <1>7, <2>1, <2>2 DEF OnceOK
  <2>4. Heard(y, e.uid) = {}
    <3> SUFFICES ASSUME NEW i \in Heard(y, e.uid) PROVE FALSE
      OBVIOUS
    <3>1. i \in Nat /\ i # 0 /\ i + 1 \in Heard(s, e.uid)
      BY <1>7, <2>1
    <3>2. i + 1 = 1
      BY <1>7, <2>1, <2>2, <3>1 DEF OnceOK
    <3> QED
      BY <3>1, <3>2
  <2> QED
    BY <2>3, <2>4 DEF Unheard
<1>13. e.what \in Acks => Begun(y, e.uid)
  <2> HAVE e.what \in Acks
  <2>1. e.uid \in Ids
    BY <1>11 DEF EventOK, Acks
  <2>2. s.phrases[e.uid].gen # 0
    BY <1>1, <1>7, <2>1 DEF OnceOK
  <2> QED
    BY <1>3, <2>2 DEF Begun
<1>14. Timely(y, e)
  BY <1>1, <1>6, <1>11, <1>12, <1>13 DEF Timely
<1> QED
  BY <1>10, <1>14 DEF y, e

\* The next deferred event, and what the frame on top remembers of it
DrainedOf(s, b) == [s EXCEPT !.deferred = Tail(@), !.stack[1].overlap = b]

LEMMA DrainedRight ==
  ASSUME NEW s, Right(s), s.deferred # <<>>, s.stack # <<>>, s.stack[1].tag = "drain", NEW b \in BOOLEAN
  PROVE Right(DrainedOf(s, b)) /\ Timely(DrainedOf(s, b), Head(s.deferred))
<1> DEFINE g == [s.stack[1] EXCEPT !.overlap = b]
           k == [s.stack EXCEPT ![1] = g]
           x == [s EXCEPT !.stack = k]
<1>0. Typed(s) /\ DOMAIN s = Fields /\ s.stack \in Seq(FrameType)
  <2>1. Typed(s)
    BY RightRest
  <2> QED
    BY <2>1 DEF Typed, TypedRest
<1>1. s.stack[1] \in FrameType /\ 1 \in DOMAIN s.stack
  BY <1>0, Popped
<1>2. g \in FrameType /\ Twin(s.stack[1], g)
  BY <1>1 DEF FrameType, Twin
<1> HIDE DEF g
<1>3. Right(x) /\ Keeps(s, x, {"stack"})
  BY <1>2, TopFrame
<1>4. DrainedOf(s, b) = [s EXCEPT !.deferred = Tail(s.deferred), !.stack = k]
  BY <1>0, <1>1 DEF DrainedOf, g
<1> HIDE DEF k
<1>5. Taken(x) = [s EXCEPT !.deferred = Tail(s.deferred), !.stack = k]
  <2>1. x.deferred = s.deferred
    BY <1>0, FieldsAre
  <2>2. Taken(x) = [x EXCEPT !.deferred = Tail(s.deferred)]
    BY <2>1 DEF Taken
  <2> QED
    BY <1>0, <2>2, FieldsAre
<1>6. x.deferred = s.deferred
  BY <1>0, FieldsAre
<1> HIDE DEF x
<1>7. Right(Taken(x)) /\ Timely(Taken(x), Head(s.deferred))
  BY <1>3, <1>6, TakenRight
<1> QED
  BY <1>4, <1>5, <1>7

LEMMA DrainStep == ASSUME Right(Now), Drain PROVE Right(Now')
<1> DEFINE b == OverlapCancelled
           e == Head(deferred)
<1>1. b \in BOOLEAN
  <2>1. Typed(Now) /\ stack # <<>> /\ stack[1].tag = "drain"
    BY RightRest DEF Drain, Top
  <2>2. stack \in Seq(FrameType)
    BY <2>1, NowIs DEF Typed, TypedRest
  <2>3. stack[1] \in FrameType
    BY <2>1, <2>2, Popped
  <2>4. stack[1].overlap \in BOOLEAN
    BY <2>1, <2>3 DEF FrameType
  <2> DEFINE c == \E i \in contexts \ stack[1].before : phrases[i].cancelled
  <2>5. c \in BOOLEAN
    OBVIOUS
  <2>6. b = (stack[1].overlap \/ c)
    BY DEF OverlapCancelled
  <2> HIDE DEF b, c
  <2> QED
    BY <2>4, <2>5, <2>6
<1>2. stack # <<>> /\ stack[1].tag = "drain" /\ deferred # <<>>
  BY DEF Drain, Top
<1>3. \/ Become(DrainedOf(Now, b))
      \/ \E ready, shown \in BOOLEAN : \E fault \in Faults : Become(Hear(DrainedOf(Faulty(fault), b), e, ready, shown))
  BY DEF Drain, Call, Faulty, DrainedOf
<1> HIDE DEF b, e
<1>4. CASE Become(DrainedOf(Now, b))
  <2>1. Right(DrainedOf(Now, b))
    BY <1>1, <1>2, NowIs, DrainedRight
  <2> QED
    BY <1>4, <2>1, Became
<1>5. CASE \E ready, shown \in BOOLEAN : \E fault \in Faults : Become(Hear(DrainedOf(Faulty(fault), b), e, ready, shown))
  <2>1. PICK ready \in BOOLEAN, shown \in BOOLEAN, fault \in Faults : Become(Hear(DrainedOf(Faulty(fault), b), e, ready, shown))
    BY <1>5
  <2> DEFINE x == Faulty(fault)
             y == Hear(DrainedOf(x, b), e, ready, shown)
  <2>2. Right(x) /\ x.deferred = deferred /\ x.stack = stack
    BY FaultyRight
  <2> HIDE DEF x
  <2>3. Right(DrainedOf(x, b)) /\ Timely(DrainedOf(x, b), e)
    BY <1>1, <1>2, <2>2, DrainedRight DEF e
  <2>4. Right(y)
    BY <2>3, HearRight
  <2> HIDE DEF y
  <2> QED
    BY <2>1, <2>4, Became DEF y, x
<1> QED
  BY <1>3, <1>4, <1>5

\* A timer of u goes off
Rung(s, u, timer) == [s EXCEPT !.phrases[u].timers = @ \ {timer}]

LEMMA RungEnter ==
  ASSUME NEW s, Typed(s), NEW u \in Nums, NEW timer
  PROVE Enter(Rung(s, u, timer)) = Rung(Enter(s), u, timer)
<1> DEFINE q == [s.phrases EXCEPT ![u] = [s.phrases[u] EXCEPT !.timers = @ \ {timer}]]
           z == [s EXCEPT !.phrases = q]
           k == <<[tag |-> "pump", uid |-> 0]>> \o s.stack
<1>0. DOMAIN s = Fields /\ s.phrases \in [Nums -> PhraseType]
  BY DEF Typed, TypedQueue
<1>1. \A x : x.phrases = s.phrases /\ DOMAIN x = Fields => Rung(x, u, timer) = [x EXCEPT !.phrases = q]
  BY <1>0, FieldsAre DEF Rung
<1> HIDE DEF q
<1>2. Rung(s, u, timer) = z
  BY <1>0, <1>1
<1>3. z.stack = s.stack /\ DOMAIN z = Fields
  BY <1>0, FieldsAre
<1>4. (Suspended(z) <=> Suspended(s)) /\ (Pumping(z) <=> Pumping(s))
  BY <1>3 DEF Suspended, Pumping
<1>5. CASE Suspended(s) \/ Pumping(s)
  <2>1. Enter(s) = s /\ Enter(z) = z
    BY <1>4, <1>5 DEF Enter
  <2> QED
    BY <1>2, <2>1
<1>6. CASE ~(Suspended(s) \/ Pumping(s))
  <2>1. Enter(s) = [s EXCEPT !.stack = k] /\ Enter(z) = [z EXCEPT !.stack = k]
    BY <1>0, <1>3, <1>4, <1>6, FieldsAre DEF Enter
  <2> HIDE DEF k
  <2>2. Enter(s).phrases = s.phrases /\ DOMAIN Enter(s) = Fields
    BY <1>0, <2>1, FieldsAre
  <2>3. Rung(Enter(s), u, timer) = [Enter(s) EXCEPT !.phrases = q]
    BY <1>1, <2>2
  <2>4. [z EXCEPT !.stack = k] = [[s EXCEPT !.stack = k] EXCEPT !.phrases = q]
    BY <1>0, FieldsAre
  <2> QED
    BY <1>2, <2>1, <2>3, <2>4
<1> QED
  BY <1>5, <1>6

LEMMA RungIs ==
  ASSUME NEW s, Right(s), NEW u \in Ids, NEW timer \in s.phrases[u].timers
  PROVE LET z == Rung(s, u, timer) IN
    /\ Typed(z) /\ Ebb(s, z) /\ Good(z) /\ Turn(z, 0) /\ Changes(s, z, u, {"timers"}) /\ z.phrases[u].timers = s.phrases[u].timers \ {timer}
    /\ u \in Nums /\ u \in s.contexts
    /\ timer \notin {"cancel", "restart"} => Right(z)
<1> DEFINE p == s.phrases[u]
           q == [p EXCEPT !.timers = p.timers \ {timer}]
           z == Rung(s, u, timer)
<1>0. Typed(s) /\ Good(s) /\ Well(s) /\ Turn(s, 0) /\ u \in Nums
  BY RightRest DEF Ids, Nums
<1>1. p \in PhraseType
  BY <1>0, PhraseTyped
<1>2. q \in PhraseType /\ Same(p, q, {"timers"}) /\ q.timers = p.timers \ {timer}
  BY <1>1, FieldsAre DEF PhraseType, Same
<1>3. z = With(s, u, q)
  BY <1>0, <1>1 DEF Rung, With, Typed, TypedQueue, PhraseType
<1> HIDE DEF q
<1>4. Changes(s, z, u, {"timers"}) /\ z.phrases[u] = q
  BY <1>0, <1>2, <1>3, WithChanges
<1> HIDE DEF z
<1>5. /\ PhraseOnly(s, z, u) /\ z.items = s.items /\ z.generation = s.generation /\ z.contexts = s.contexts
      /\ z.link = s.link /\ z.source = s.source /\ z.stack = s.stack /\ z.indicator = s.indicator
  BY <1>0, <1>4, ChangesRest DEF Changes
<1>6. PhraseOK(s, u) /\ GoodBut(s, u)
  BY <1>0 DEF Good, GoodBut
<1>7. u \in s.contexts
  BY <1>6 DEF PhraseOK
<1>8. q.gen = p.gen /\ q.capture = p.capture /\ q.pending = p.pending /\ q.phase = p.phase /\ q.waiting = p.waiting /\ q.delivered = p.delivered
      /\ q.cancelled = p.cancelled /\ q.result = p.result /\ q.awaits = p.awaits /\ q.job = p.job /\ q.shown = p.shown
  BY <1>2, FieldsAre DEF Same
<1>9. EbbPhrase(s, z, u)
  BY <1>2, <1>4, <1>5, <1>8 DEF EbbPhrase
<1>10. PhraseOK(z, u)
  BY <1>2, <1>4, <1>5, <1>6, <1>8 DEF PhraseOK, Current
<1>11. Typed(z) /\ Ebb(s, z)
  BY <1>0, <1>5, <1>9, LocalEbb
<1>12. Good(z)
  BY <1>0, <1>4, <1>5, <1>6, <1>8, <1>9, <1>10, LocalGood
<1>13. Turn(z, 0)
  BY <1>0, <1>11, TurnEbb
<1>14. ASSUME timer \notin {"cancel", "restart"} PROVE Right(z)
  <2>1. Alarm(z, u) = Alarm(s, u)
    BY <1>2, <1>4, <1>14 DEF Alarm
  <2>2. Wake(s, u) => Wake(z, u)
    BY <1>2, <1>4, <1>5, <1>8, <1>14, <2>1 DEF Wake, Current
  <2>3. Glow(s, u) => Glow(z, u)
    BY <1>4, <1>8 DEF Glow
  <2>4. Burns(s, u) => Burns(z, u)
    BY <1>4, <1>5, <1>8, <2>1 DEF Burns, Current
  <2>5. Full(s, z)
    BY <1>0, <1>4, <1>5, <1>8, <1>9, <1>10, <2>2, <2>3, <2>4, LocalFull
  <2> QED
    BY <2>5, FullRight
<1> QED
  BY <1>0, <1>2, <1>4, <1>7, <1>11, <1>12, <1>13, <1>14 DEF z

LEMMA RungLoose ==
  ASSUME NEW s, Right(s), NEW u \in Ids, NEW timer \in s.phrases[u].timers, timer \in {"cancel", "restart"}
  PROVE Loose(Rung(s, u, timer), u)
<1> DEFINE z == Rung(s, u, timer)
<1>0. Typed(s) /\ Good(s) /\ Well(s)
  BY RightRest
<1>1. /\ Typed(z) /\ Good(z) /\ Changes(s, z, u, {"timers"}) /\ z.phrases[u].timers = s.phrases[u].timers \ {timer}
      /\ u \in Nums /\ u \in s.contexts
  BY RungIs
<1> HIDE DEF z
<1>2. /\ PhraseOnly(s, z, u) /\ z.items = s.items /\ z.generation = s.generation /\ z.contexts = s.contexts /\ z.indicator = s.indicator
      /\ Same(s.phrases[u], z.phrases[u], {"timers"})
  BY <1>1, ChangesRest DEF Changes
<1>3. /\ z.phrases[u].gen = s.phrases[u].gen /\ z.phrases[u].capture = s.phrases[u].capture /\ z.phrases[u].pending = s.phrases[u].pending
      /\ z.phrases[u].phase = s.phrases[u].phase /\ z.phrases[u].cancelled = s.phrases[u].cancelled /\ z.phrases[u].result = s.phrases[u].result
      /\ z.phrases[u].awaits = s.phrases[u].awaits /\ z.phrases[u].job = s.phrases[u].job /\ z.phrases[u].shown = s.phrases[u].shown
  BY <1>2, FieldsAre DEF Same
<1>4. \A v \in Nums \ {u} : Wake(z, v) /\ Glow(z, v) /\ (Burns(s, v) => Burns(z, v))
  BY <1>0, <1>1, <1>2, LocalOthers DEF Well, Awake, Glowing
<1>5. Wake(s, u) /\ Glow(s, u)
  BY <1>0, <1>1 DEF Well, Awake, Glowing
<1>6. Glowing(z)
  BY <1>1, <1>3, <1>4, <1>5 DEF Glowing, Glow
<1>7. Alarm(s, u) # {}
  BY DEF Alarm
<1>8. z.indicator => \E c \in Nums : Burns(z, c) \/ (c = u /\ z.phrases[u].capture)
  <2> HAVE z.indicator
  <2>1. PICK c \in Nums : Burns(s, c)
    BY <1>0, <1>2 DEF Well, Lamp
  <2>2. CASE c = u
    BY <1>3, <2>1, <2>2 DEF Burns
  <2>3. CASE c # u
    BY <1>4, <2>1, <2>3
  <2> QED
    BY <2>2, <2>3
<1>9. /\ z.phrases[u].pending
      /\ z.phrases[u].awaits /\ Current(z, u) => "cancel" \notin z.phrases[u].timers
      /\ u \in z.items /\ z.phrases[u].job => z.phrases[u].cancelled
      /\ z.phrases[u].result # "none" => ~z.phrases[u].cancelled
  BY <1>1, <1>2, <1>3, <1>5, <1>7 DEF Wake, Current
<1> QED
  BY <1>1, <1>2, <1>4, <1>6, <1>8, <1>9 DEF Loose, z

\* What a timer does
LEMMA FiredRight ==
  ASSUME NEW s, Right(s), NEW u \in Ids, NEW timer \in Timers, timer \in s.phrases[u].timers, NEW replaced \in BOOLEAN,
         replaced => timer = "restart" /\ s.generation < GenerationLimit
  PROVE Right(Fired(Rung(s, u, timer), u, timer, replaced))
<1> DEFINE z == Rung(s, u, timer)
           y == Fired(z, u, timer, replaced)
<1> SUFFICES Right(y)
  OBVIOUS
<1>0. Typed(s) /\ Good(s) /\ Well(s) /\ Turn(s, 0)
  BY RightRest
<1>1. /\ Typed(z) /\ Ebb(s, z) /\ Good(z) /\ Turn(z, 0) /\ Changes(s, z, u, {"timers"}) /\ z.phrases[u].timers = s.phrases[u].timers \ {timer}
      /\ u \in Nums /\ u \in s.contexts
  BY RungIs
<1>2. timer \notin {"cancel", "restart"} => Right(z)
  BY RungIs
<1>3. timer \in {"cancel", "restart"} => Loose(z, u)
  BY RungLoose
<1> HIDE DEF z
<1>4. z.contexts = s.contexts /\ z.items = s.items /\ z.generation = s.generation /\ z.stack = s.stack
  BY <1>1, ChangesRest DEF Changes
<1>5. PhraseOK(s, u) /\ Wake(s, u)
  BY <1>0, <1>1 DEF Good, Well, Awake
<1>6. z.phrases[u].awaits = s.phrases[u].awaits /\ z.phrases[u].gen = s.phrases[u].gen /\ z.phrases[u].waiting = s.phrases[u].waiting
  BY <1>1, FieldsAre DEF Changes, Same
<1>7. CASE timer = "tail"
  <2>1. y = TailElapsed(z, u)
    BY <1>7 DEF Fired
  <2>2. Right(z) /\ Well(z)
    BY <1>2, <1>7, RightRest
  <2> HIDE DEF y
  <2> QED
    BY <1>1, <1>4, <2>1, <2>2, TailElapsedFine, FineRight
<1>8. CASE timer = "watchdog"
  <2>1. y = FailRecognition(z, u, TRUE)
    BY <1>8 DEF Fired
  <2>2. Right(z) /\ Well(z) /\ u \in z.items
    BY <1>2, <1>4, <1>5, <1>8, RightRest DEF PhraseOK
  <2>3. GoodBut(z, u) /\ z.phrases[u].gen > 0 /\ ~z.phrases[u].awaits
    BY <1>1, <2>2, ItemFacts
  <2>4. \A v \in Nums \ {u} : Wake(z, v) /\ Glow(z, v)
    BY <2>2 DEF Well, Awake, Glowing
  <2> DEFINE x == FailRecognition(z, u, TRUE)
  <2> HIDE DEF y
  <2>5. Fine(z, x)
    BY <1>1, <2>2, <2>3, <2>4, FailRecognitionFine
  <2>6. y = x
    BY <2>1
  <2> HIDE DEF x
  <2> QED
    BY <2>2, <2>5, <2>6, FineRight
<1>9. CASE timer = "busy"
  <2>1. y = AttemptPaste(z, u)
    BY <1>9 DEF Fired
  <2>2. Right(z)
    BY <1>2, <1>9
  <2>3. "busy" \notin z.phrases[u].timers
    BY <1>1, <1>9
  <2>4. u \in s.items
    BY <1>5, <1>9 DEF PhraseOK
  <2>5. ~z.phrases[u].waiting
    BY <1>0, <1>6, <1>9, <2>4 DEF Turn, InOrderOfPress
  <2>6. Unframed(s, u)
    BY <1>9, <2>4, Framed
  <2>7. Unframed(z, u)
    BY <1>4, <2>6 DEF Unframed
  <2> HIDE DEF y
  <2> QED
    BY <1>1, <1>4, <2>1, <2>2, <2>3, <2>5, <2>7, AttemptPasteRight
<1>10. CASE timer = "done"
  <2>1. y = Phase(z, u, "idle")
    BY <1>10 DEF Fired
  <2>2. Right(z) /\ u \in z.contexts \ z.items
    BY <1>1, <1>2, <1>4, <1>5, <1>10 DEF PhraseOK
  <2> HIDE DEF y
  <2> QED
    BY <1>1, <2>1, <2>2, IdleFull, FullRight
<1>11. CASE timer \in {"cancel", "restart"}
  <2>1. Fine(z, y)
    <3>1. CASE timer = "cancel"
      <4>1. y = CancelTimeout(z, u)
        BY <3>1 DEF Fired
      <4>2. Current(z, u) => ~z.phrases[u].awaits
        BY <1>4, <1>5, <1>6, <3>1 DEF Wake, Current
      <4> HIDE DEF y
      <4> QED
        BY <1>3, <1>11, <4>1, <4>2, CancelTimeoutFine
    <3>2. CASE timer = "restart"
      <4>1. y = RestartAfterCancel(z, u, replaced)
        BY <3>2 DEF Fired
      <4> HIDE DEF y
      <4> QED
        BY <1>3, <1>4, <1>11, <4>1, RestartAfterCancelFine
    <3> QED
      BY <1>11, <3>1, <3>2
  <2> HIDE DEF y
  <2>2. Well(y) /\ Ebb(z, y) /\ Typed(y)
    BY <2>1 DEF Fine, Well
  <2>3. Turn(y, 0)
    BY <1>1, <2>2, TurnEbb
  <2> QED
    BY <2>2, <2>3 DEF Right
<1>12. timer \in {"tail", "watchdog", "busy", "done"} \/ timer \in {"cancel", "restart"}
  BY DEF Timers
<1> QED
  BY <1>7, <1>8, <1>9, <1>10, <1>11, <1>12

LEMMA FireStep ==
  ASSUME Right(Now), NEW u \in Ids, NEW timer \in Timers, NEW replaced \in BOOLEAN, Fire(u, timer, replaced)
  PROVE Right(Now')
<1>1. PICK fault \in Faults : Become(Fired(Enter(Rung(Faulty(fault), u, timer)), u, timer, replaced))
  BY DEF Fire, Call, Faulty, Rung
<1> DEFINE s == Faulty(fault)
           x == Enter(s)
           y == Fired(Rung(x, u, timer), u, timer, replaced)
<1>2. Right(s) /\ s.phrases = phrases /\ s.generation = generation
  BY FaultyRight
<1> HIDE DEF s
<1>3. Right(x) /\ x.phrases = phrases /\ x.generation = generation
  BY <1>2, EnterRight
<1>4. Enter(Rung(s, u, timer)) = Rung(x, u, timer)
  <2>1. Typed(s) /\ u \in Nums
    BY <1>2, RightRest DEF Ids, Nums
  <2> QED
    BY <2>1, RungEnter
<1> HIDE DEF x
<1>5. timer \in x.phrases[u].timers /\ (replaced => timer = "restart" /\ x.generation < GenerationLimit)
  BY <1>3 DEF Fire
<1>6. Right(y)
  BY <1>3, <1>5, FiredRight
<1> HIDE DEF y
<1> QED
  BY <1>1, <1>4, <1>6, Became DEF y, s

(* Handlers called for one phrase after the other: every state in between is right.                  *)

\* Losses of a restart, the end of audio.close, losses of the last process
HearLosses(s, S) == InOrder(HearLoss, s, S)

\* The states between the handlers
LEMMA LossesAfter ==
  ASSUME NEW s, NEW S
  PROVE \E after :
    /\ HearLosses(s, S) = after[PhraseLimit + 1]
    /\ \A n \in 0..PhraseLimit + 1 :
         after[n] = IF n = 0 THEN s ELSE IF n - 1 \in S THEN HearLoss(after[n - 1], n - 1) ELSE after[n - 1]
<1> DEFINE N == PhraseLimit + 1
           IsAfter(g, m) == g = [n \in 0..m |-> IF n = 0 THEN s
                                   ELSE IF n - 1 \in S THEN HearLoss(g[n - 1], n - 1) ELSE g[n - 1]]
           Missing == {m \in Nat : ~\E g : IsAfter(g, m)}
<1>1. PhraseLimit \in Nat /\ N \in Nat
  BY LimitAssumption
<1>2. Missing = {}
  <2> SUFFICES ASSUME Missing # {} PROVE FALSE
    OBVIOUS
  <2>1. PICK m \in Missing : \A k \in Missing : m <= k
    BY LeastNumber
  <2>2. CASE m = 0
    <3>1. IsAfter([n \in 0..0 |-> s], 0)
      OBVIOUS
    <3> QED
      BY <2>2, <3>1
  <2>3. CASE m # 0
    <3>a. m \in Nat
      OBVIOUS
    <3>0. m - 1 \in Nat /\ m - 1 < m
      BY <2>3, <3>a
    <3>b. m - 1 \notin Missing
      <4> HIDE DEF Missing
      <4> QED
        BY <2>1, <3>a, <3>0
    <3>1. m \in Nat /\ m - 1 \in Nat /\ m - 1 \notin Missing
      BY <3>a, <3>0, <3>b
    <3>2. PICK g : IsAfter(g, m - 1)
      BY <3>1
    <3> DEFINE next == IF m - 1 \in S THEN HearLoss(g[m - 1], m - 1) ELSE g[m - 1]
               h == [n \in 0..m |-> IF n = m THEN next ELSE g[n]]
    <3>3. \A n \in 0..(m - 1) : g[n] = IF n = 0 THEN s ELSE IF n - 1 \in S THEN HearLoss(g[n - 1], n - 1) ELSE g[n - 1]
      BY <3>1, <3>2
    <3>c. \A n \in 0..m : h[n] = IF n = m THEN next ELSE g[n]
      OBVIOUS
    <3>4. \A n \in 0..m : h[n] = IF n = 0 THEN s ELSE IF n - 1 \in S THEN HearLoss(h[n - 1], n - 1) ELSE h[n - 1]
      <4> SUFFICES ASSUME NEW n \in 0..m PROVE h[n] = IF n = 0 THEN s ELSE IF n - 1 \in S THEN HearLoss(h[n - 1], n - 1) ELSE h[n - 1]
        OBVIOUS
      <4>0. next = IF m - 1 \in S THEN HearLoss(g[m - 1], m - 1) ELSE g[m - 1]
        OBVIOUS
      <4> HIDE DEF h, next
      <4>1. CASE n = 0
        BY <2>3, <3>1, <3>3, <3>c, <4>1
      <4>2. CASE n # 0 /\ n = m
        <5>1. n - 1 \in 0..m /\ n - 1 # m
          BY <3>1, <4>2
        <5>2. h[n] = next /\ h[n - 1] = g[m - 1]
          BY <3>c, <4>2, <5>1
        <5> QED
          BY <4>0, <4>2, <5>2
      <4>3. CASE n # 0 /\ n # m
        <5>1. n \in 0..(m - 1) /\ n - 1 \in 0..m /\ n - 1 # m
          BY <3>1, <4>3
        <5> QED
          BY <3>3, <3>c, <4>3, <5>1
      <4> QED
        BY <4>1, <4>2, <4>3
    <3>5. IsAfter(h, m)
      BY <3>4
    <3> QED
      BY <2>1, <3>5
  <2> QED
    BY <2>2, <2>3
<1> DEFINE after == CHOOSE g : IsAfter(g, N)
<1>3. IsAfter(after, N)
  BY <1>1, <1>2
<1>4. HearLosses(s, S) = after[N]
  BY DEF HearLosses, InOrder
<1> HIDE DEF after
<1>5. \A n \in 0..N : after[n] = IF n = 0 THEN s ELSE IF n - 1 \in S THEN HearLoss(after[n - 1], n - 1) ELSE after[n - 1]
  BY <1>3
<1> QED
  BY <1>4, <1>5
HearCloses(s, S) == InOrder(HearClosed, s, S)

LEMMA ClosesAfter ==
  ASSUME NEW s, NEW S
  PROVE \E after :
    /\ HearCloses(s, S) = after[PhraseLimit + 1]
    /\ \A n \in 0..PhraseLimit + 1 :
         after[n] = IF n = 0 THEN s ELSE IF n - 1 \in S THEN HearClosed(after[n - 1], n - 1) ELSE after[n - 1]
<1> DEFINE N == PhraseLimit + 1
           IsAfter(g, m) == g = [n \in 0..m |-> IF n = 0 THEN s
                                   ELSE IF n - 1 \in S THEN HearClosed(g[n - 1], n - 1) ELSE g[n - 1]]
           Missing == {m \in Nat : ~\E g : IsAfter(g, m)}
<1>1. PhraseLimit \in Nat /\ N \in Nat
  BY LimitAssumption
<1>2. Missing = {}
  <2> SUFFICES ASSUME Missing # {} PROVE FALSE
    OBVIOUS
  <2>1. PICK m \in Missing : \A k \in Missing : m <= k
    BY LeastNumber
  <2>2. CASE m = 0
    <3>1. IsAfter([n \in 0..0 |-> s], 0)
      OBVIOUS
    <3> QED
      BY <2>2, <3>1
  <2>3. CASE m # 0
    <3>a. m \in Nat
      OBVIOUS
    <3>0. m - 1 \in Nat /\ m - 1 < m
      BY <2>3, <3>a
    <3>b. m - 1 \notin Missing
      <4> HIDE DEF Missing
      <4> QED
        BY <2>1, <3>a, <3>0
    <3>1. m \in Nat /\ m - 1 \in Nat /\ m - 1 \notin Missing
      BY <3>a, <3>0, <3>b
    <3>2. PICK g : IsAfter(g, m - 1)
      BY <3>1
    <3> DEFINE next == IF m - 1 \in S THEN HearClosed(g[m - 1], m - 1) ELSE g[m - 1]
               h == [n \in 0..m |-> IF n = m THEN next ELSE g[n]]
    <3>3. \A n \in 0..(m - 1) : g[n] = IF n = 0 THEN s ELSE IF n - 1 \in S THEN HearClosed(g[n - 1], n - 1) ELSE g[n - 1]
      BY <3>1, <3>2
    <3>c. \A n \in 0..m : h[n] = IF n = m THEN next ELSE g[n]
      OBVIOUS
    <3>4. \A n \in 0..m : h[n] = IF n = 0 THEN s ELSE IF n - 1 \in S THEN HearClosed(h[n - 1], n - 1) ELSE h[n - 1]
      <4> SUFFICES ASSUME NEW n \in 0..m PROVE h[n] = IF n = 0 THEN s ELSE IF n - 1 \in S THEN HearClosed(h[n - 1], n - 1) ELSE h[n - 1]
        OBVIOUS
      <4>0. next = IF m - 1 \in S THEN HearClosed(g[m - 1], m - 1) ELSE g[m - 1]
        OBVIOUS
      <4> HIDE DEF h, next
      <4>1. CASE n = 0
        BY <2>3, <3>1, <3>3, <3>c, <4>1
      <4>2. CASE n # 0 /\ n = m
        <5>1. n - 1 \in 0..m /\ n - 1 # m
          BY <3>1, <4>2
        <5>2. h[n] = next /\ h[n - 1] = g[m - 1]
          BY <3>c, <4>2, <5>1
        <5> QED
          BY <4>0, <4>2, <5>2
      <4>3. CASE n # 0 /\ n # m
        <5>1. n \in 0..(m - 1) /\ n - 1 \in 0..m /\ n - 1 # m
          BY <3>1, <4>3
        <5> QED
          BY <3>3, <3>c, <4>3, <5>1
      <4> QED
        BY <4>1, <4>2, <4>3
    <3>5. IsAfter(h, m)
      BY <3>4
    <3> QED
      BY <2>1, <3>5
  <2> QED
    BY <2>2, <2>3
<1> DEFINE after == CHOOSE g : IsAfter(g, N)
<1>3. IsAfter(after, N)
  BY <1>1, <1>2
<1>4. HearCloses(s, S) = after[N]
  BY DEF HearCloses, InOrder
<1> HIDE DEF after
<1>5. \A n \in 0..N : after[n] = IF n = 0 THEN s ELSE IF n - 1 \in S THEN HearClosed(after[n - 1], n - 1) ELSE after[n - 1]
  BY <1>3
<1> QED
  BY <1>4, <1>5
HearExits(s, S) == InOrder(HearExit, s, S)

LEMMA ExitsAfter ==
  ASSUME NEW s, NEW S
  PROVE \E after :
    /\ HearExits(s, S) = after[PhraseLimit + 1]
    /\ \A n \in 0..PhraseLimit + 1 :
         after[n] = IF n = 0 THEN s ELSE IF n - 1 \in S THEN HearExit(after[n - 1], n - 1) ELSE after[n - 1]
<1> DEFINE N == PhraseLimit + 1
           IsAfter(g, m) == g = [n \in 0..m |-> IF n = 0 THEN s
                                   ELSE IF n - 1 \in S THEN HearExit(g[n - 1], n - 1) ELSE g[n - 1]]
           Missing == {m \in Nat : ~\E g : IsAfter(g, m)}
<1>1. PhraseLimit \in Nat /\ N \in Nat
  BY LimitAssumption
<1>2. Missing = {}
  <2> SUFFICES ASSUME Missing # {} PROVE FALSE
    OBVIOUS
  <2>1. PICK m \in Missing : \A k \in Missing : m <= k
    BY LeastNumber
  <2>2. CASE m = 0
    <3>1. IsAfter([n \in 0..0 |-> s], 0)
      OBVIOUS
    <3> QED
      BY <2>2, <3>1
  <2>3. CASE m # 0
    <3>a. m \in Nat
      OBVIOUS
    <3>0. m - 1 \in Nat /\ m - 1 < m
      BY <2>3, <3>a
    <3>b. m - 1 \notin Missing
      <4> HIDE DEF Missing
      <4> QED
        BY <2>1, <3>a, <3>0
    <3>1. m \in Nat /\ m - 1 \in Nat /\ m - 1 \notin Missing
      BY <3>a, <3>0, <3>b
    <3>2. PICK g : IsAfter(g, m - 1)
      BY <3>1
    <3> DEFINE next == IF m - 1 \in S THEN HearExit(g[m - 1], m - 1) ELSE g[m - 1]
               h == [n \in 0..m |-> IF n = m THEN next ELSE g[n]]
    <3>3. \A n \in 0..(m - 1) : g[n] = IF n = 0 THEN s ELSE IF n - 1 \in S THEN HearExit(g[n - 1], n - 1) ELSE g[n - 1]
      BY <3>1, <3>2
    <3>c. \A n \in 0..m : h[n] = IF n = m THEN next ELSE g[n]
      OBVIOUS
    <3>4. \A n \in 0..m : h[n] = IF n = 0 THEN s ELSE IF n - 1 \in S THEN HearExit(h[n - 1], n - 1) ELSE h[n - 1]
      <4> SUFFICES ASSUME NEW n \in 0..m PROVE h[n] = IF n = 0 THEN s ELSE IF n - 1 \in S THEN HearExit(h[n - 1], n - 1) ELSE h[n - 1]
        OBVIOUS
      <4>0. next = IF m - 1 \in S THEN HearExit(g[m - 1], m - 1) ELSE g[m - 1]
        OBVIOUS
      <4> HIDE DEF h, next
      <4>1. CASE n = 0
        BY <2>3, <3>1, <3>3, <3>c, <4>1
      <4>2. CASE n # 0 /\ n = m
        <5>1. n - 1 \in 0..m /\ n - 1 # m
          BY <3>1, <4>2
        <5>2. h[n] = next /\ h[n - 1] = g[m - 1]
          BY <3>c, <4>2, <5>1
        <5> QED
          BY <4>0, <4>2, <5>2
      <4>3. CASE n # 0 /\ n # m
        <5>1. n \in 0..(m - 1) /\ n - 1 \in 0..m /\ n - 1 # m
          BY <3>1, <4>3
        <5> QED
          BY <3>3, <3>c, <4>3, <5>1
      <4> QED
        BY <4>1, <4>2, <4>3
    <3>5. IsAfter(h, m)
      BY <3>4
    <3> QED
      BY <2>1, <3>5
  <2> QED
    BY <2>2, <2>3
<1> DEFINE after == CHOOSE g : IsAfter(g, N)
<1>3. IsAfter(after, N)
  BY <1>1, <1>2
<1>4. HearExits(s, S) = after[N]
  BY DEF HearExits, InOrder
<1> HIDE DEF after
<1>5. \A n \in 0..N : after[n] = IF n = 0 THEN s ELSE IF n - 1 \in S THEN HearExit(after[n - 1], n - 1) ELSE after[n - 1]
  BY <1>3
<1> QED
  BY <1>4, <1>5

\* What holds at first and is kept up to N holds at N
LEMMA UpTo ==
  ASSUME NEW N \in Nat, NEW G, 0 \in G, \A n \in 1..N : n - 1 \in G => n \in G PROVE N \in G
<1> DEFINE Wrong == {n \in 0..N : n \notin G}
<1> SUFFICES ASSUME Wrong # {} PROVE FALSE
  OBVIOUS
<1>1. PICK m \in Wrong : \A k \in Wrong : m <= k
  <2>1. Wrong \subseteq Nat
    OBVIOUS
  <2> HIDE DEF Wrong
  <2> QED
    BY <2>1, LeastNumber
<1>2. m \in 0..N /\ m \notin G /\ m # 0
  OBVIOUS
<1>3. m \in 1..N /\ m - 1 \in 0..N /\ m \in Nat /\ m - 1 < m
  BY <1>2
<1>4. m - 1 \in G
  BY <1>1, <1>3
<1> QED
  BY <1>2, <1>3, <1>4

\* An event that may only tell of another generation
LEMMA CrashHeard ==
  ASSUME NEW s, Right(s), Mute(s), NEW e \in EventType, EventOK(s, e), e.what \in {"crashed", "hello"}
  PROVE LET y == Hear(s, e, TRUE, TRUE) IN Right(y) /\ Mute(y) /\ y.link = s.link /\ y.generation = s.generation
<1> DEFINE t == Enter(s)
           u == Route(s, e.uid)
           y == Hear(s, e, TRUE, TRUE)
<1>1. Typed(s)
  BY RightRest
<1>2. /\ Right(t) /\ t.contexts = s.contexts /\ t.generation = s.generation /\ t.link = s.link /\ t.source = s.source
      /\ t.phrases = s.phrases
  BY EnterRight
<1> HIDE DEF t
<1>3. u \in t.contexts /\ Mute(t) /\ Typed(t) /\ Good(t)
  BY <1>1, <1>2, RouteIs, RightRest DEF Mute
<1> HIDE DEF u
<1>4. e.what \notin UserEvents /\ e.what \notin {"cancelled", "job cancelled", "nothing to cancel", "timeout", "error"}
      /\ e.what \notin {"changed", "changed early", "limit", "text", "blank"} /\ e.what \notin Results \cup Acks
  BY DEF UserEvents, Results, Acks
<1>5. WorkerEvent(t, u, e) \in {t, FailRestarted(t, u)}
  <2>1. \A what : what \in {"crashed", "hello"} => Ending(t, u, what) \in {t, FailRestarted(t, u)}
    BY DEF Ending
  <2>2. Progress(t, u, e.what) = t
    BY <1>4 DEF Progress
  <2> QED
    BY <2>1, <2>2 DEF WorkerEvent
<1>6. y \in {s, Defer(s, e), t, FailRestarted(t, u)}
  BY <1>4, <1>5 DEF Hear, t, u
<1>7. Right(y)
  <2>1. Timely(s, e)
    BY <1>4 DEF Timely
  <2>2. TRUE \in BOOLEAN
    OBVIOUS
  <2> HIDE DEF y
  <2> QED
    BY <2>1, <2>2, HearRight DEF y
<1> HIDE DEF y
<1>8. Defer(s, e).link = s.link /\ Defer(s, e).generation = s.generation /\ Defer(s, e).source = s.source
  <2>1. Handset(s, Defer(s, e))
    BY <1>1, DeferIs
  <2> QED
    BY <2>1, HandsetRest
<1>9. LET z == FailRestarted(t, u) IN Mute(z) /\ z.link = t.link /\ z.generation = t.generation
  <2>1. Dead(t, u)
    BY <1>3 DEF Dead, Mute
  <2>2. LET z == FailRestarted(t, u) IN Full(t, z) /\ z.link = t.link /\ z.generation = t.generation
    BY <1>3, <2>1, FailRestartedFull
  <2> QED
    BY <1>3, <2>2, FullMute
<1>10. y.link = s.link /\ y.generation = s.generation /\ Mute(y)
  BY <1>2, <1>3, <1>6, <1>8, <1>9 DEF Mute
<1> QED
  BY <1>7, <1>10 DEF y
\* The supervisor has found its process, or gives up
Linked(s, newLink) == [s EXCEPT !.link = newLink, !.fault = "none"]

LEMMA LinkedRight ==
  ASSUME NEW s, Right(s), Mute(s), NEW newLink \in {"up", "stopped"}, s.link = "starting" \/ newLink = "stopped"
  PROVE Right(Linked(s, newLink))
<1> DEFINE y == Linked(s, newLink)
<1>0. Typed(s) /\ Well(s) /\ Good(s) /\ Common(s) /\ DOMAIN s = Fields
  BY RightRest DEF Good
<1>1. Keeps(s, y, {"link", "fault"}) /\ y.link = newLink /\ y.fault = "none"
  BY <1>0, FieldsAre DEF Keeps, Linked
<1> HIDE DEF y
<1>2. /\ y.phrases = s.phrases /\ y.items = s.items /\ y.contexts = s.contexts /\ y.generation = s.generation /\ y.last = s.last
      /\ y.deferred = s.deferred /\ y.source = s.source /\ y.waits = s.waits /\ y.stack = s.stack /\ y.indicator = s.indicator
      /\ y.hotkey = s.hotkey /\ y.closing = s.closing /\ y.pasted = s.pasted
  BY <1>1, FieldsAre DEF Keeps
<1>3. Typed(y)
  <2>1. TypedRest(y)
    BY <1>0, <1>1, <1>2 DEF Typed, TypedRest, Links
  <2>2. Keeps(s, y, {"hotkey", "indicator", "deferred", "stack", "link", "waits", "closing", "source", "pasted", "fault"})
    BY <1>1 DEF Keeps
  <2> QED
    BY <1>0, <2>1, <2>2, RestOnly
<1>4. Alike(s, y)
  BY <1>1 DEF Alike, Keeps
<1>5. Common(y)
  <2>1. \A v \in Ids : SourceOK(y, v)
    BY <1>2 DEF Mute, SourceOK
  <2>2. OneOpen(y) /\ Together(y)
    BY <1>0, <1>2 DEF Common, OneOpen, Open, Together, Current
  <2>3. EventsOK(y)
    <3>1. \A x : EventOK(s, x) => EventOK(y, x)
      BY <1>1, <1>2 DEF EventOK
    <3> QED
      BY <1>0, <1>2, <3>1 DEF Common, EventsOK
  <2>4. \A v \in Ids : OnceOK(s, v) => OnceOK(y, v)
    BY <1>2 DEF OnceOK, Closed, Records, Heard
  <2> QED
    BY <1>0, <2>1, <2>2, <2>3, <2>4 DEF Common, Once
<1>6. Lamp(y)
  <2>1. Lamp(s)
    BY <1>0 DEF Well
  <2>2. \A c : Burns(y, c) <=> Burns(s, c)
    BY <1>2 DEF Burns, Current, Alarm
  <2> QED
    BY <1>2, <2>1, <2>2 DEF Lamp
<1> QED
  BY <1>2, <1>3, <1>4, <1>5, <1>6, AlikeRight DEF y

\* A process that has not begun or has exited has no capture
LEMMA MuteIs == ASSUME NEW s, Right(s), s.link \notin {"up", "restarting"} PROVE Mute(s)
BY RightRest DEF Good, Common, SourceOK, Mute

LEMMA SaidType == ASSUME NEW what \in Words, NEW u \in Nums, NEW g \in Nat
  PROVE Said(what, u, g) \in EventType /\ Said(what, u, g).what = what /\ Said(what, u, g).uid = u /\ Said(what, u, g).gen = g
BY DEF Said, EventType

LEMMA HelloStep == ASSUME Right(Now), Hello PROVE Right(Now')
<1> DEFINE e == Said("hello", 0, generation)
           x == Hear(Now, e, TRUE, TRUE)
           y == [x EXCEPT !.link = "up"]
           z == Linked(x, "up")
<1>1. Become(y) /\ Now.link = "starting" /\ Now.generation = generation
  BY NowIs DEF Hello
<1>2. Mute(Now)
  BY <1>1, MuteIs
<1>3. e \in EventType /\ EventOK(Now, e) /\ e.what = "hello"
  <2>1. "hello" \in Words /\ 0 \in Nums /\ generation \in Nat
    BY <1>1, RightRest, LimitAssumption DEF Words, Nums, Typed, TypedRest
  <2> HIDE DEF e
  <2>2. e \in EventType /\ e.what = "hello" /\ e.gen = generation
    BY <2>1, SaidType DEF e
  <2> QED
    BY <1>1, <2>1, <2>2 DEF EventOK, Results
<1> HIDE DEF e
<1>4. Right(x) /\ Mute(x) /\ x.link = "starting"
  BY <1>1, <1>2, <1>3, CrashHeard
<1>5. DOMAIN x = Fields
  BY <1>4, RightRest
<1> HIDE DEF x
<1>6. Right(z)
  BY <1>4, LinkedRight
<1>7. \A f \in Fields \ {"fault"} : z[f] = y[f]
  BY <1>5, FieldsAre DEF Linked
<1> HIDE DEF z, y
<1>8. Become(z)
  BY <1>1, <1>7, FieldsAre DEF Become
<1> QED
  BY <1>6, <1>8, Became

\* The waits of u shrink, or its capture closes
Told(s, u, w, c) == [s EXCEPT !.waits[u] = w, !.source[u] = c]

\* The worker answers or closes a capture
LEMMA ToldIs ==
  ASSUME NEW s, Right(s), NEW u \in Ids, NEW w, w \subseteq s.waits[u], NEW c \in {s.source[u], "told", "closed"}
  PROVE LET y == Told(s, u, w, c) IN
    /\ Right(y) /\ y.waits[u] = w /\ y.source[u] = c /\ y.phrases = s.phrases /\ y.items = s.items /\ y.contexts = s.contexts
    /\ y.deferred = s.deferred /\ y.generation = s.generation /\ y.link = s.link /\ y.stack = s.stack
<1> DEFINE k == [s.waits EXCEPT ![u] = w]
           m == [s.source EXCEPT ![u] = c]
           y == Told(s, u, w, c)
<1>0. Typed(s) /\ DOMAIN s = Fields
  BY RightRest
<1>1. s.waits \in [Ids -> SUBSET (Requests \cup {"lost"})] /\ s.source \in [Ids -> {"none", "open", "closed", "told"}]
  BY <1>0 DEF Typed, TypedRest
<1>2. k \in [Ids -> SUBSET (Requests \cup {"lost"})] /\ m \in [Ids -> {"none", "open", "closed", "told"}]
      /\ k[u] = w /\ m[u] = c /\ (\A v \in Ids : k[v] \subseteq s.waits[v] /\ (m[v] = "open" => s.source[v] = "open"))
  BY <1>1
<1>3. y = [s EXCEPT !.waits = k, !.source = m]
  BY DEF Told
<1> HIDE DEF k, m
<1>4. Keeps(s, y, {"waits", "source"}) /\ y.waits = k /\ y.source = m
  BY <1>0, <1>3, FieldsAre DEF Keeps
<1> HIDE DEF y
<1>5. /\ y.phrases = s.phrases /\ y.items = s.items /\ y.contexts = s.contexts /\ y.generation = s.generation /\ y.last = s.last
      /\ y.deferred = s.deferred /\ y.stack = s.stack /\ y.indicator = s.indicator
      /\ y.hotkey = s.hotkey /\ y.closing = s.closing /\ y.pasted = s.pasted /\ y.link = s.link /\ y.fault = s.fault
  BY <1>4, FieldsAre DEF Keeps
<1>6. Typed(y)
  <2>1. TypedRest(y)
    BY <1>0, <1>2, <1>4, <1>5 DEF Typed, TypedRest
  <2>2. Keeps(s, y, {"hotkey", "indicator", "deferred", "stack", "link", "waits", "closing", "source", "pasted", "fault"})
    BY <1>4 DEF Keeps
  <2> QED
    BY <1>0, <2>1, <2>2, RestOnly
<1>7. Alike(s, y) /\ News(s, y) /\ Asks(s, y)
  BY <1>2, <1>4, <1>5 DEF Alike, Keeps, News, Asks
<1>8. Full(s, y)
  BY <1>0, <1>2, <1>4, <1>5, <1>6, <1>7, AlikeFull
<1> QED
  BY <1>2, <1>4, <1>5, <1>8, FullRight DEF y

\* What an answer may tell, and the waits it leaves
LEMMA AnsweredIs ==
  ASSUME NEW u \in Ids, NEW request \in Requests, NEW meant \in Meant(request), NEW what \in AnswersTo(u, meant)
  PROVE /\ Answered(u, request, meant, what) \subseteq waits[u]
        /\ what \in Words /\ what # "crashed"
        /\ what \in Acks => meant = "record.cancel" /\ source[u] # "open" /\ request = "record.cancel"
        /\ what \in Results => request = "recognize" /\ "recognize" \notin Answered(u, request, meant, what)
<1>1. Answered(u, request, meant, what) \subseteq waits[u]
  BY DEF Answered
<1>2. meant \in {"record.start", "record.stop", "recognize", "record.cancel"}
  BY DEF Meant, Requests
<1>3. /\ what \in Acks => meant = "record.cancel" /\ source[u] # "open"
      /\ what \in Results => meant = "recognize"
      /\ what \in {"timeout", "error", "nothing to stop", "job cancelled", "text", "blank", "cancelled", "nothing to cancel"}
  <2>1. CASE meant = "record.start"
    BY <2>1 DEF AnswersTo, Acks, Results
  <2>2. CASE meant = "record.stop"
    BY <2>2 DEF AnswersTo, Acks, Results
  <2>3. CASE meant = "recognize"
    BY <2>3 DEF AnswersTo, Acks, Results
  <2>4. CASE meant = "record.cancel"
    BY <2>4 DEF AnswersTo, Acks, Results
  <2> QED
    BY <1>2, <2>1, <2>2, <2>3, <2>4
<1>4. /\ meant = "record.cancel" => request = "record.cancel"
      /\ meant = "recognize" => request = "recognize"
  BY DEF Meant, Requests
<1>5. what \in Words /\ what # "crashed"
  BY <1>3 DEF Words, Endings
<1>6. meant = "recognize" /\ what \in Results => "recognize" \notin Answered(u, request, meant, what)
  BY <1>4 DEF Answered, Results
<1> QED
  BY <1>1, <1>3, <1>4, <1>5, <1>6

LEMMA AnswerStep ==
  ASSUME Right(Now), NEW u \in Ids, NEW request \in Requests, Answer(u, request) PROVE Right(Now')
<1>a. PICK meant \in Meant(request) : \E what \in AnswersTo(u, meant) : \E fault \in Faults :
        Become(Hear(
          [Faulty(fault) EXCEPT !.waits[u] = Answered(u, request, meant, what),
             !.source[u] = IF meant = "record.start" /\ what = "error" THEN "told" ELSE @],
          Said(what, u, generation), TRUE, TRUE))
  BY DEF Answer, Call, Faulty
<1>1. PICK what \in AnswersTo(u, meant), fault \in Faults :
        Become(Hear(
          [Faulty(fault) EXCEPT !.waits[u] = Answered(u, request, meant, what),
             !.source[u] = IF meant = "record.start" /\ what = "error" THEN "told" ELSE @],
          Said(what, u, generation), TRUE, TRUE))
  BY <1>a
<1> DEFINE s == Faulty(fault)
           w == Answered(u, request, meant, what)
           c == IF meant = "record.start" /\ what = "error" THEN "told" ELSE s.source[u]
           x == Told(s, u, w, c)
           e == Said(what, u, generation)
           y == Hear(x, e, TRUE, TRUE)
<1>0. request \in waits[u]
  BY DEF Answer
<1>2. /\ Right(s) /\ s.phrases = phrases /\ s.items = items /\ s.deferred = deferred /\ s.generation = generation
      /\ s.waits = waits /\ s.source = source
  BY FaultyRight
<1>12. DOMAIN s = Fields /\ s.source \in [Ids -> {"none", "open", "closed", "told"}]
  BY <1>2, RightRest DEF Typed, TypedRest
<1> HIDE DEF s
<1>3. /\ w \subseteq waits[u] /\ what \in Words /\ what # "crashed"
      /\ what \in Acks => meant = "record.cancel" /\ source[u] # "open" /\ request = "record.cancel"
      /\ what \in Results => request = "recognize" /\ "recognize" \notin w
  BY AnsweredIs
<1>13. [s EXCEPT !.waits[u] = w, !.source[u] = IF meant = "record.start" /\ what = "error" THEN "told" ELSE @] = x
  BY <1>12, FieldsAre DEF Told
<1> HIDE DEF w
<1>4. c \in {s.source[u], "told", "closed"} /\ (what \in Acks => c = s.source[u])
  BY <1>3
<1> HIDE DEF c
<1>5. /\ Right(x) /\ x.waits[u] = w /\ x.source[u] = c /\ x.phrases = s.phrases /\ x.items = s.items /\ x.deferred = s.deferred
      /\ x.generation = s.generation
  BY <1>2, <1>3, <1>4, ToldIs
<1> HIDE DEF x
<1>6. OnceOK(s, u)
  BY <1>2, RightRest DEF Good, Common, Once
<1>7. e \in EventType /\ e.what = what /\ e.uid = u /\ e.gen = generation
  <2>1. generation \in Nat /\ u \in Nums
    BY <1>2, RightRest DEF Typed, TypedRest, Ids, Nums
  <2> QED
    BY <1>3, <2>1, SaidType
<1> HIDE DEF e
<1>8. EventOK(x, e)
  <2>1. e.gen <= x.generation
    BY <1>2, <1>5, <1>7, RightRest DEF Typed, TypedRest
  <2> QED
    BY <1>2, <1>3, <1>4, <1>5, <1>7, <2>1 DEF EventOK, Acks
<1>9. what \in Results => Unheard(x, u)
  <2> HAVE what \in Results
  <2>1. "recognize" \in s.waits[u] /\ "recognize" \notin x.waits[u]
    BY <1>0, <1>2, <1>3, <1>5
  <2>2. ~Closed(s, u) /\ Heard(s, u) = {}
    BY <1>6, <2>1 DEF OnceOK
  <2>3. ~Closed(x, u) /\ Heard(x, u) = {}
    BY <1>5, <2>2 DEF Closed, Records, Heard
  <2> QED
    BY <2>1, <2>3 DEF Unheard
<1>10. what \in Acks => Begun(x, u)
  BY <1>0, <1>2, <1>3, <1>5, <1>6 DEF OnceOK, Begun
<1>11. Timely(x, e)
  BY <1>7, <1>8, <1>9, <1>10 DEF Timely
<1>14. Right(y)
  BY <1>5, <1>11, HearRight
<1> HIDE DEF y
<1>15. Become(y)
  BY <1>1, <1>13 DEF y, s, w, e
<1> QED
  BY <1>14, <1>15, Became

\* An event of the capture
LEMMA CaptureTold ==
  ASSUME NEW s, Right(s), NEW u \in Ids, NEW what \in Words, what # "crashed", what \notin Results \cup Acks,
         NEW kept, kept \subseteq s.waits[u]
  PROVE Right(Hear([s EXCEPT !.source[u] = IF what = "error" THEN "closed" ELSE @, !.waits[u] = kept],
                   Said(what, u, s.generation), TRUE, TRUE))
<1> DEFINE c == IF what = "error" THEN "closed" ELSE s.source[u]
           x == Told(s, u, kept, c)
           e == Said(what, u, s.generation)
<1>3. DOMAIN s = Fields /\ s.source \in [Ids -> {"none", "open", "closed", "told"}] /\ Typed(s)
  BY RightRest DEF Typed, TypedRest
<1>5. [s EXCEPT !.source[u] = IF what = "error" THEN "closed" ELSE @, !.waits[u] = kept] = x
  BY <1>3, FieldsAre DEF Told
<1>6. c \in {s.source[u], "told", "closed"}
  OBVIOUS
<1> HIDE DEF c
<1>7. Right(x) /\ x.generation = s.generation
  BY <1>6, ToldIs
<1> HIDE DEF x
<1>8. s.generation \in Nat /\ u \in Nums /\ what \in Words
  <2>2. u \in Nums
    BY DEF Ids, Nums
  <2>3. s.generation \in Nat
    BY <1>3 DEF Typed, TypedRest
  <2> QED
    BY <2>2, <2>3
<1>9. e \in EventType /\ e.what = what /\ e.uid = u /\ e.gen = s.generation
  BY <1>8, SaidType
<1> HIDE DEF e
<1>10. Timely(x, e)
  <2>1. e.gen <= x.generation
    BY <1>7, <1>8, <1>9
  <2> QED
    BY <1>9, <2>1 DEF Timely, EventOK, Results, Acks
<1>11. Right(Hear(x, e, TRUE, TRUE))
  BY <1>7, <1>10, HearRight
<1> QED
  BY <1>5, <1>11 DEF e

LEMMA CaptureEventStep == ASSUME Right(Now), NEW u \in Ids, CaptureEvent(u) PROVE Right(Now')
<1>1. \E what \in {"error", "changed", "changed early", "limit"} : \E kept \in LeftBy(u, what) : \E fault \in Faults :
        Become(Hear(
           [Faulty(fault) EXCEPT !.source[u] = IF what = "error" THEN "closed" ELSE @, !.waits[u] = kept],
           Said(what, u, generation), TRUE, TRUE))
  BY DEF CaptureEvent, Call, Faulty
<1>2. \A what : \A kept \in LeftBy(u, what) : kept \subseteq waits[u]
  BY DEF LeftBy
<1>3. \A what \in {"error", "changed", "changed early", "limit"} :
         what \in Words /\ what # "crashed" /\ what \notin Results \cup Acks
  BY DEF Words, Endings, Results, Acks
<1> SUFFICES ASSUME NEW what \in Words, what # "crashed", what \notin Results \cup Acks, NEW kept, kept \subseteq waits[u], NEW fault \in Faults,
        Become(Hear(
           [Faulty(fault) EXCEPT !.source[u] = IF what = "error" THEN "closed" ELSE @, !.waits[u] = kept],
           Said(what, u, generation), TRUE, TRUE))
    PROVE Right(Now')
  BY <1>1, <1>2, <1>3
<1> DEFINE y == Hear([Faulty(fault) EXCEPT !.source[u] = IF what = "error" THEN "closed" ELSE @, !.waits[u] = kept],
                     Said(what, u, generation), TRUE, TRUE)
<1>4. Right(y)
  <2> DEFINE s == Faulty(fault)
  <2>1. Right(s) /\ s.generation = generation /\ s.waits = waits
    BY FaultyRight
  <2> HIDE DEF s
  <2>2. Right(Hear([s EXCEPT !.source[u] = IF what = "error" THEN "closed" ELSE @, !.waits[u] = kept],
                     Said(what, u, generation), TRUE, TRUE))
    BY <2>1, CaptureTold
  <2> QED
    BY <2>2 DEF s
<1> HIDE DEF y
<1> QED
  BY <1>4, Became DEF y

LEMMA CloseStep == ASSUME Right(Now), NEW u \in Ids, Close(u) PROVE Right(Now')
<1> DEFINE c == IF link = "up" THEN "closed" ELSE "told"
           y == Told(Now, u, Now.waits[u], c)
<1>1. Become([Now EXCEPT !.source[u] = c])
  BY DEF Close
<1>2. c \in {Now.source[u], "told", "closed"}
  OBVIOUS
<1> HIDE DEF c
<1>3. Right(y)
  BY <1>2, ToldIs
<1>4. [Now EXCEPT !.source[u] = c] = y
  <2>1. Now.waits = [v \in Ids |-> Now.waits[v]] /\ DOMAIN Now = Fields
    BY RightRest DEF Typed, TypedRest
  <2> QED
    BY <2>1, FieldsAre DEF Told
<1> HIDE DEF y
<1> QED
  BY <1>1, <1>3, <1>4, Became

LEMMA StoppedStep == ASSUME Right(Now), NEW u \in Ids, Stopped(u) PROVE Right(Now')
<1> DEFINE open == u \in contexts /\ phrases[u].gen = generation
<1>1. PICK fault \in Faults :
        LET t == Enter([Faulty(fault) EXCEPT !.source[u] = "told"])
        IN  Become(IF open THEN CaptureClosed(t, u) ELSE t)
  BY DEF Stopped, Call, Faulty
<1> DEFINE s == Faulty(fault)
           x == Told(s, u, s.waits[u], "told")
           t == Enter(x)
           y == IF open THEN CaptureClosed(t, u) ELSE t
<1>2. Right(s) /\ s.contexts = contexts
  BY FaultyRight
<1>3. DOMAIN s = Fields /\ s.waits = [v \in Ids |-> s.waits[v]]
  BY <1>2, RightRest DEF Typed, TypedRest
<1> HIDE DEF s
<1>4. [s EXCEPT !.source[u] = "told"] = x
  BY <1>3, FieldsAre DEF Told
<1>5. Right(x) /\ x.source[u] = "told" /\ x.contexts = contexts
  BY <1>2, ToldIs
<1> HIDE DEF x
<1>6. Right(t) /\ t.source[u] = "told" /\ t.contexts = contexts
  BY <1>5, EnterRight
<1>7. Become(y)
  BY <1>1, <1>4 DEF s
<1> HIDE DEF t
<1>8. open => Right(CaptureClosed(t, u))
  <2> HAVE open
  <2>1. u \in t.contexts /\ Shut(t, u) /\ Well(t)
    BY <1>6, RightRest DEF Shut
  <2> QED
    BY <1>6, <2>1, CaptureClosedFine, FineRight
<1>9. Right(y)
  BY <1>6, <1>8
<1> HIDE DEF y
<1> QED
  BY <1>7, <1>9, Became

LEMMA AudioClosedStep == ASSUME Right(Now), AudioClosed PROVE Right(Now')
<1>1. \/ Become([Now EXCEPT !.closing = FALSE])
      \/ /\ \A u \in Ids : source[u] # "open"
         /\ \E fault \in Faults : Become(HearCloses([Faulty(fault) EXCEPT !.closing = FALSE], contexts))
  BY DEF AudioClosed, Call, Faulty, HearCloses, InOrder
<1> DEFINE Calmed(s) == [s EXCEPT !.closing = FALSE]
<1>2. ASSUME NEW s, Right(s)
      PROVE Right(Calmed(s)) /\ Calmed(s).source = s.source /\ Calmed(s).contexts = s.contexts
  <2> DEFINE y == Calmed(s)
  <2>0. Typed(s) /\ DOMAIN s = Fields
    BY <1>2, RightRest
  <2>1. Keeps(s, y, {"closing"}) /\ y.closing = FALSE
    BY <2>0, FieldsAre DEF Keeps
  <2> HIDE DEF y
  <2>2. TypedRest(y)
    BY <2>0, <2>1, FieldsAre DEF Keeps, Typed, TypedRest
  <2>3. Keeps(s, y, {"hotkey", "indicator", "deferred", "stack", "link", "waits", "closing", "source", "pasted", "fault"})
        /\ Keeps(s, y, {"hotkey", "fault", "closing"})
    BY <2>1 DEF Keeps
  <2>4. Typed(y)
    BY <2>0, <2>2, <2>3, RestOnly
  <2>5. y.source = s.source /\ y.contexts = s.contexts
    BY <2>1, FieldsAre DEF Keeps
  <2>6. Right(y)
    BY <1>2, <2>3, <2>4, QuietRight
  <2> QED
    BY <2>5, <2>6 DEF y
<1>3. CASE Become([Now EXCEPT !.closing = FALSE])
  BY <1>2, <1>3, Became
<1>4. CASE /\ \A u \in Ids : source[u] # "open"
           /\ \E fault \in Faults : Become(HearCloses([Faulty(fault) EXCEPT !.closing = FALSE], contexts))
  <2>1. PICK fault \in Faults : Become(HearCloses([Faulty(fault) EXCEPT !.closing = FALSE], contexts))
    BY <1>4
  <2> DEFINE s == Calmed(Faulty(fault))
             N == PhraseLimit + 1
  <2>2. Right(s) /\ Mute(s) /\ s.contexts = contexts
    <3>1. Right(Faulty(fault)) /\ Faulty(fault).source = source /\ Faulty(fault).contexts = contexts
      BY FaultyRight
    <3> QED
      BY <1>2, <1>4, <3>1 DEF Mute
  <2> HIDE DEF s
  <2>3. PICK after :
    /\ HearCloses(s, contexts) = after[N]
    /\ \A n \in 0..N : after[n] = IF n = 0 THEN s ELSE IF n - 1 \in contexts THEN HearClosed(after[n - 1], n - 1) ELSE after[n - 1]
    BY ClosesAfter
  <2> DEFINE G == {n \in 0..N : Right(after[n]) /\ Mute(after[n]) /\ after[n].contexts = contexts}
  <2>4. N \in Nat
    BY LimitAssumption
  <2>5. 0 \in G
    BY <2>2, <2>3, <2>4
  <2>6. ASSUME NEW n \in 1..N, n - 1 \in G PROVE n \in G
    <3> DEFINE x == after[n - 1]
    <3>1. n \in 0..N /\ n # 0 /\ Right(x) /\ Mute(x) /\ x.contexts = contexts
      BY <2>4, <2>6
    <3>2. after[n] \in {x} \cup (IF n - 1 \in contexts THEN {HearClosed(x, n - 1)} ELSE {})
      BY <2>3, <3>1
    <3> HIDE DEF x
    <3>3. ASSUME n - 1 \in contexts PROVE LET y == HearClosed(x, n - 1) IN Right(y) /\ Mute(y) /\ y.contexts = contexts
      <4> DEFINE z == CaptureClosed(x, n - 1)
      <4>1. Fine(x, z)
        BY <3>1, <3>3, RightRest, CaptureClosedFine DEF Shut, Mute
      <4> HIDE DEF z
      <4>2. Right(z) /\ z.contexts = x.contexts /\ Mute(z)
        BY <3>1, <4>1, FineRight DEF Fine, Ebb, Steady, Mute
      <4>3. HearClosed(x, n - 1) \in {x, z}
        BY DEF HearClosed, z
      <4> QED
        BY <3>1, <4>2, <4>3
    <3> QED
      BY <3>1, <3>2, <3>3
  <2> HIDE DEF G
  <2>7. N \in G
    BY <2>4, <2>5, <2>6, UpTo
  <2>8. Right(after[N])
    BY <2>7 DEF G
  <2> QED
    BY <2>1, <2>3, <2>8, Became DEF s
<1> QED
  BY <1>1, <1>3, <1>4

LEMMA CrashStep == ASSUME Right(Now), Crash PROVE Right(Now')
<1>1. Become(Restarting(Now)) /\ Now.link \in {"starting", "up"}
  BY NowIs DEF Crash
<1>2. Right(Restarting(Now))
  BY <1>1, RightRest, RestartingFull, FullRight
<1> QED
  BY <1>1, <1>2, Became

LEMMA RelaunchStep == ASSUME Right(Now), Relaunch PROVE Right(Now')
<1> DEFINE x == Enter(Now)
           y == Relaunched(x)
<1>1. Become(y) /\ generation < GenerationLimit
  BY DEF Relaunch
<1>2. Right(x) /\ x.generation = generation
  BY EnterRight, NowIs
<1> HIDE DEF x
<1>3. Full(x, y)
  BY <1>1, <1>2, RightRest, RelaunchedFull
<1> HIDE DEF y
<1> QED
  BY <1>1, <1>2, <1>3, FullRight, Became

LEMMA RestartWorkerStep == ASSUME Right(Now), RestartWorker PROVE Right(Now')
<1> DEFINE y == NextWorker(Now)
<1>1. Become(y) /\ Now.generation < GenerationLimit
  BY NowIs DEF RestartWorker
<1>2. Full(Now, y)
  BY <1>1, RightRest, NextWorkerFull
<1> HIDE DEF y
<1> QED
  BY <1>1, <1>2, FullRight, Became

\* A process that has exited
Silent(s) == [s EXCEPT !.waits = NoWaits, !.source = Silenced(s)]

LEMMA SilentRight ==
  ASSUME NEW s, Right(s) PROVE Right(Silent(s)) /\ Mute(Silent(s)) /\ Silent(s).generation = s.generation /\ Silent(s).link = s.link
<1> DEFINE y == Silent(s)
           c == Silenced(s)
<1>0. Typed(s) /\ DOMAIN s = Fields
  BY RightRest
<1>1. c \in [Ids -> {"none", "open", "closed", "told"}] /\ (\A u \in Ids : c[u] # "open")
      /\ NoWaits \in [Ids -> SUBSET (Requests \cup {"lost"})] /\ \A u \in Ids : NoWaits[u] = {}
  BY DEF Silenced, NoWaits
<1>2. y = [s EXCEPT !.waits = NoWaits, !.source = c]
  BY DEF Silent
<1> HIDE DEF c
<1>3. Keeps(s, y, {"waits", "source"}) /\ y.waits = NoWaits /\ y.source = c
  BY <1>0, <1>2, FieldsAre DEF Keeps
<1> HIDE DEF y
<1>4. /\ y.phrases = s.phrases /\ y.items = s.items /\ y.contexts = s.contexts /\ y.generation = s.generation /\ y.last = s.last
      /\ y.deferred = s.deferred /\ y.stack = s.stack /\ y.indicator = s.indicator
      /\ y.hotkey = s.hotkey /\ y.closing = s.closing /\ y.pasted = s.pasted /\ y.link = s.link /\ y.fault = s.fault
  BY <1>3, FieldsAre DEF Keeps
<1>5. Typed(y)
  <2>1. TypedRest(y)
    BY <1>0, <1>1, <1>3, <1>4 DEF Typed, TypedRest
  <2>2. Keeps(s, y, {"hotkey", "indicator", "deferred", "stack", "link", "waits", "closing", "source", "pasted", "fault"})
    BY <1>3 DEF Keeps
  <2> QED
    BY <1>0, <2>1, <2>2, RestOnly
<1>6. Alike(s, y) /\ News(s, y) /\ Asks(s, y)
  BY <1>1, <1>3, <1>4 DEF Alike, Keeps, News, Asks
<1>7. Full(s, y)
  BY <1>0, <1>1, <1>3, <1>4, <1>5, <1>6, AlikeFull
<1> QED
  BY <1>1, <1>3, <1>4, <1>7, FullRight DEF y, Mute

LEMMA GiveUpStep == ASSUME Right(Now), GiveUp PROVE Right(Now')
<1>1. PICK what \in {"crashed", "error"} :
        LET s == [Now EXCEPT !.link = "stopped", !.waits = NoWaits, !.source = Silenced(Now)]
        IN  Become(Hear(HearExits(s, Waiting(Now)), Said(what, 0, generation), TRUE, TRUE))
  BY DEF GiveUp, HearExits, InOrder
<1> DEFINE s == [Now EXCEPT !.link = "stopped", !.waits = NoWaits, !.source = Silenced(Now)]
           k == Linked(Silent(Now), "stopped")
           S == Waiting(Now)
           N == PhraseLimit + 1
<1>2. Right(k) /\ Mute(k) /\ k.link = "stopped" /\ k.generation = generation
  <2>1. Right(Silent(Now)) /\ Mute(Silent(Now)) /\ Silent(Now).generation = generation
    BY SilentRight, NowIs
  <2>2. DOMAIN Silent(Now) = Fields
    BY <2>1, RightRest
  <2> HIDE DEF k
  <2>3. k.link = "stopped" /\ k.generation = Silent(Now).generation /\ k.source = Silent(Now).source
    BY <2>2, FieldsAre DEF Linked, k
  <2> QED
    BY <2>1, <2>3, LinkedRight DEF Mute, k
<1>3. s = k
  <2>1. DOMAIN Now = Fields /\ Now.fault = "none"
    BY NowIs, RightRest
  <2> DEFINE c == Silenced(Now)
  <2>2. k = [[Now EXCEPT !.waits = NoWaits, !.source = c] EXCEPT !.link = "stopped", !.fault = "none"]
    BY DEF Linked, Silent
  <2>3. s = [Now EXCEPT !.link = "stopped", !.waits = NoWaits, !.source = c]
    OBVIOUS
  <2> DEFINE a == [Now EXCEPT !.link = "stopped", !.waits = NoWaits, !.source = c]
             b == [[Now EXCEPT !.waits = NoWaits, !.source = c] EXCEPT !.link = "stopped", !.fault = "none"]
  <2> HIDE DEF c
  <2>4. \A f \in Fields : a[f] = b[f]
    BY <2>1, FieldsAre
  <2>5. a = [f \in Fields |-> a[f]] /\ b = [f \in Fields |-> b[f]]
    BY <2>1
  <2> HIDE DEF a, b
  <2>6. a = b
    BY <2>4, <2>5
  <2> QED
    BY <2>2, <2>3, <2>6 DEF a, b
<1> HIDE DEF s, k
<1>4. PICK after :
    /\ HearExits(k, S) = after[N]
    /\ \A n \in 0..N : after[n] = IF n = 0 THEN k ELSE IF n - 1 \in S THEN HearExit(after[n - 1], n - 1) ELSE after[n - 1]
  BY ExitsAfter
<1> HIDE DEF S
<1> DEFINE Gone(x) == Right(x) /\ Mute(x) /\ x.link = "stopped" /\ x.generation = generation
           G == {n \in 0..N : Gone(after[n])}
<1>5. N \in Nat /\ PhraseLimit \in Nat
  BY LimitAssumption
<1>6. 0 \in G
  BY <1>2, <1>4, <1>5
<1>7. generation \in Nat
  BY <1>2, RightRest DEF Typed, TypedRest
<1>8. ASSUME NEW n \in 1..N, n - 1 \in G PROVE n \in G
  <2> DEFINE x == after[n - 1]
             e == Said("crashed", n - 1, generation)
             y == Hear(x, e, TRUE, TRUE)
  <2>1. n \in 0..N /\ n # 0 /\ n - 1 \in Nums /\ Gone(x)
    BY <1>5, <1>8 DEF Nums
  <2>2. after[n] \in {x, HearExit(x, n - 1)}
    BY <1>4, <2>1
  <2> HIDE DEF x
  <2>3. HearExit(x, n - 1) = y
    BY <2>1 DEF HearExit
  <2>4. e \in EventType /\ e.what = "crashed" /\ e.gen = generation
    <3>1. "crashed" \in Words
      BY DEF Words, Endings
    <3> QED
      BY <1>7, <2>1, <3>1, SaidType
  <2> HIDE DEF e
  <2>5. EventOK(x, e)
    BY <1>7, <2>1, <2>4 DEF EventOK, Results
  <2>6. Gone(y)
    BY <2>1, <2>4, <2>5, CrashHeard
  <2> HIDE DEF y, Gone
  <2> QED
    BY <2>1, <2>2, <2>3, <2>6
<1> HIDE DEF G
<1>9. N \in G
  BY <1>5, <1>6, <1>8, UpTo
<1>10. Gone(after[N])
  BY <1>9 DEF G
<1> DEFINE x == after[N]
           e == Said(what, 0, generation)
           y == Hear(x, e, TRUE, TRUE)
<1>11. e \in EventType /\ e.what = what /\ e.gen = generation
  <2>1. what \in Words
    BY DEF Words, Endings
  <2>2. 0 \in Nums
    BY <1>5 DEF Nums
  <2> QED
    BY <1>7, <2>1, <2>2, SaidType
<1>12. Become(y)
  BY <1>1, <1>3, <1>4 DEF s, S
<1> HIDE DEF e
<1>13. Timely(x, e)
  <2>1. e.gen <= x.generation
    BY <1>7, <1>10, <1>11
  <2> HIDE DEF x
  <2>2. e.what \notin Results \cup Acks
    BY <1>11 DEF Results, Acks
  <2>3. EventOK(x, e)
    BY <1>10, <1>11, <2>1, <2>2 DEF EventOK, Results, Acks, x
  <2> QED
    BY <1>11, <2>2, <2>3 DEF Timely
<1>14. Right(x)
  BY <1>10
<1> HIDE DEF x
<1>15. Right(y)
  BY <1>13, <1>14, HearRight
<1> HIDE DEF y
<1> QED
  BY <1>12, <1>15, Became

\* A phrase after worker_terminated
Buried(p) == [p EXCEPT !.cancelled = TRUE, !.pending = FALSE, !.job = FALSE,
                           !.capture = FALSE, !.awaits = FALSE, !.shown = FALSE,
                           !.tail = FALSE, !.outcome = FALSE, !.result = "none",
                           !.waiting = FALSE, !.phase = "idle", !.timers = {}]

LEMMA BuriedType == ASSUME NEW p \in PhraseType
  PROVE /\ Buried(p) \in PhraseType /\ Buried(p).gen = p.gen /\ Buried(p).timers = {} /\ Buried(p).phase = "idle"
        /\ ~Buried(p).pending /\ ~Buried(p).capture /\ ~Buried(p).awaits /\ Buried(p).result = "none"
<1>1. "idle" \in Phases /\ "none" \in Outcomes
  BY DEF Phases, Outcomes
<1> QED
  BY ZenonT(60), <1>1 DEF Buried, PhraseType

LEMMA TerminateStep == ASSUME Right(Now), Terminate PROVE Right(Now')
<1> DEFINE q == [u \in Nums |-> IF u \in contexts THEN Buried(phrases[u]) ELSE phrases[u]]
           c == Silenced(Now)
           k == [state |-> "idle", overlap |-> FALSE]
           y == [Now EXCEPT !.hotkey = k, !.link = "terminated", !.waits = NoWaits, !.closing = FALSE,
                            !.source = c, !.items = {}, !.deferred = <<>>, !.indicator = FALSE, !.phrases = q]
<1>0. /\ Typed(Now) /\ Good(Now) /\ Awake(Now) /\ Glowing(Now) /\ Turn(Now, 0) /\ DOMAIN Now = Fields
  BY RightRest DEF Well
<1>1. /\ phrases \in [Nums -> PhraseType] /\ contexts \subseteq Nums /\ last \in contexts
      /\ \A u \in Nums : phrases[u].gen <= generation
  BY <1>0, NowIs DEF Typed, TypedQueue
<1>2. Become(y)
  <2>1. DOMAIN phrases = Nums
    BY <1>1
  <2> DEFINE x == SetHotkey(Now, "idle", FALSE)
             z == [x EXCEPT !.link = "terminated", !.waits = NoWaits, !.closing = FALSE,
                            !.source = c, !.items = {}, !.deferred = <<>>, !.indicator = FALSE, !.phrases = q]
  <2>2. x.phrases = phrases /\ x = [Now EXCEPT !.hotkey = k]
    BY <1>0, FieldsAre, NowIs DEF SetHotkey
  <2> HIDE DEF c, k, x
  <2>3. Become(z)
    BY <2>1, <2>2 DEF Terminate, Buried, x, c
  <2> HIDE DEF q
  <2>4. \A f \in Fields : z[f] = y[f]
    BY <1>0, <2>2, FieldsAre
  <2> HIDE DEF z, y
  <2> QED
    BY <2>3, <2>4, FieldsAre DEF Become
<1>3. /\ q \in [Nums -> PhraseType]
      /\ \A v \in Nums : v \in contexts => q[v] = Buried(phrases[v])
      /\ \A v \in Nums : v \notin contexts => q[v] = phrases[v]
  BY <1>1, BuriedType
<1>4. c \in [Ids -> {"none", "open", "closed", "told"}] /\ (\A u \in Ids : c[u] # "open")
      /\ NoWaits \in [Ids -> SUBSET (Requests \cup {"lost"})] /\ \A u \in Ids : NoWaits[u] = {}
  BY DEF Silenced, NoWaits
<1>5. k \in HotkeyType
  BY DEF HotkeyType
<1> HIDE DEF q, c, k
<1>6. /\ DOMAIN y = Fields
      /\ y.hotkey = k /\ y.link = "terminated" /\ y.waits = NoWaits /\ y.closing = FALSE /\ y.source = c /\ y.items = {}
      /\ y.deferred = <<>> /\ y.indicator = FALSE /\ y.phrases = q
      /\ y.contexts = contexts /\ y.last = last /\ y.stack = stack /\ y.generation = generation /\ y.pasted = pasted /\ y.fault = "none"
  BY <1>0, FieldsAre, NowIs
<1> HIDE DEF y
<1>7. \A v \in Nums :
        /\ v \in contexts => /\ y.phrases[v].gen = phrases[v].gen /\ y.phrases[v].timers = {} /\ y.phrases[v].phase = "idle"
                             /\ ~y.phrases[v].pending /\ ~y.phrases[v].capture /\ ~y.phrases[v].awaits /\ y.phrases[v].result = "none"
        /\ v \notin contexts => y.phrases[v] = phrases[v]
  BY <1>1, <1>3, <1>6, BuriedType
<1>8. Typed(y)
  <2>1. \A v \in Nums : y.phrases[v].gen = phrases[v].gen
    BY <1>7
  <2>2. TypedQueue(y)
    BY <1>1, <1>3, <1>6, <2>1 DEF TypedQueue
  <2>3. <<>> \in Seq(EventType)
    OBVIOUS
  <2>4. "terminated" \in Links /\ "none" \in {"none", "now", "later"}
    BY DEF Links
  <2>5. TypedRest(y)
    BY <1>0, <1>4, <1>5, <1>6, <2>3, <2>4, NowIs DEF Typed, TypedRest
  <2> QED
    BY <1>6, <2>2, <2>5 DEF Typed
<1>9. \A v \in Nums : PhraseOK(Now, v) /\ Wake(Now, v) /\ Glow(Now, v)
  BY <1>0 DEF Good, Awake, Glowing
<1>10. Common(y)
  <2>1. \A v \in Ids : SourceOK(y, v)
    BY <1>4, <1>6 DEF SourceOK
  <2>2. OneOpen(y) /\ Together(y)
    <3>1. Open(y) = {}
      BY <1>1, <1>6, <1>7 DEF Open
    <3> QED
      BY <1>6, <3>1 DEF OneOpen, Together
  <2>3. DOMAIN y.deferred = {}
    BY <1>6
  <2>4. EventsOK(y)
    BY <2>3 DEF EventsOK
  <2>5. ASSUME NEW v \in Ids PROVE OnceOK(y, v)
    <3>1. Heard(y, v) = {}
      BY <2>3 DEF Heard
    <3>2. y.waits[v] = {}
      BY <1>4, <1>6
    <3> QED
      BY <2>3, <3>1, <3>2 DEF OnceOK
  <2> QED
    BY <2>1, <2>2, <2>4, <2>5 DEF Common, Once
<1>11. ASSUME NEW v \in Nums PROVE PhraseOK(y, v) /\ Wake(y, v) /\ Glow(y, v)
  <2>1. CASE v \in contexts
    <3>1. PhraseOK(y, v)
      BY <1>6, <1>7, <1>9, <2>1, NowIs DEF PhraseOK, Busy
    <3>2. Wake(y, v)
      BY <1>6, <1>7, <2>1 DEF Wake, Alarm
    <3>3. Glow(y, v)
      BY <1>7, <2>1 DEF Glow
    <3> QED
      BY <3>1, <3>2, <3>3
  <2>2. CASE v \notin contexts
    <3>1. y.phrases[v] = phrases[v] /\ v \notin items
      BY <1>0, <1>7, <2>2, NowIs DEF Typed, TypedQueue
    <3>2. PhraseOK(y, v)
      BY <1>6, <1>9, <2>2, <3>1, NowIs DEF PhraseOK
    <3>3. Wake(y, v)
      BY <1>6, <1>9, <2>2, <3>1, NowIs DEF Wake, Alarm, Current
    <3>4. Glow(y, v)
      BY <1>9, <3>1, NowIs DEF Glow
    <3> QED
      BY <3>2, <3>3, <3>4
  <2> QED
    BY <2>1, <2>2
<1>12. Well(y)
  BY <1>6, <1>8, <1>10, <1>11 DEF Well, Good, Awake, Glowing, Lamp
<1>13. Turn(y, 0)
  <2>1. \A v \in Nums : Begun(y, v) <=> Begun(Now, v)
    BY <1>7, NowIs DEF Begun
  <2>2. Ids \subseteq Nums
    BY DEF Ids, Nums
  <2>3. InOrderOfPress(y)
    BY <1>0, <1>6, <2>1, <2>2 DEF Turn, InOrderOfPress
  <2>4. pasted \in Seq(Ids)
    BY <1>0, NowIs DEF Typed, TypedRest
  <2>5. PastedOK(y)
    <3>1. \A i \in DOMAIN pasted : pasted[i] \in Nums
      BY <2>2, <2>4
    <3> QED
      BY <1>0, <1>6, <2>1, <3>1, NowIs DEF Turn, PastedOK
  <2>6. ASSUME NEW f, FrameOK(Now, f) PROVE FrameOK(y, f)
    <3>1. f.tag = "paste" => PasteOK(y, f.uid)
      BY <1>6, <2>6, NowIs DEF FrameOK, PasteOK
    <3> QED
      BY <1>6, <2>1, <2>2, <2>6, <3>1 DEF FrameOK
  <2>7. FramesOK(y)
    BY <1>0, <1>6, <2>6, NowIs DEF Turn, FramesOK
  <2>8. Behind(y, 0)
    BY <1>6 DEF Behind
  <2> QED
    BY <2>3, <2>5, <2>7, <2>8 DEF Turn
<1> QED
  BY <1>2, <1>12, <1>13, Became DEF Right

\* The initial state
LEMMA InitIs ==
  ASSUME Init
  PROVE /\ phrases = [u \in Nums |-> Forgotten(0)] /\ items = {} /\ contexts = {0} /\ last = 0
        /\ ~indicator /\ indicator \in BOOLEAN /\ hotkey \in HotkeyType
        /\ deferred = <<>> /\ stack = <<>> /\ generation = 1 /\ link = "starting"
        /\ waits = [u \in Ids |-> {}] /\ closing = FALSE /\ source = [u \in Ids |-> "none"] /\ pasted = <<>>
<1>1. Forgotten(0) = Blank
  BY DEF Forgotten, Blank
<1>2. hotkey \in HotkeyType
  BY DEF Init, HotkeyType
<1> HIDE DEF Forgotten
<1> QED
  BY <1>1, <1>2 DEF Init, Nums

\* The first state is right
LEMMA InitRight == ASSUME Init PROVE Right(Now)
<1>1. DOMAIN Now = Fields /\ 0 \in Nums /\ Ids \subseteq Nums
  BY NowFields, LimitAssumption DEF Nums, Ids
<1>2. /\ Forgotten(0) \in PhraseType /\ Forgotten(0).gen = 0 /\ Forgotten(0).timers = {} /\ Forgotten(0).phase = "idle"
      /\ ~Forgotten(0).pending /\ ~Forgotten(0).capture /\ ~Forgotten(0).awaits /\ Forgotten(0).result = "none"
      /\ ~Forgotten(0).job /\ ~Forgotten(0).cancelled /\ ~Forgotten(0).waiting
  BY BlankType
<1>3. /\ Now.phrases = [u \in Nums |-> Forgotten(0)] /\ Now.items = {} /\ Now.contexts = {0} /\ Now.last = 0
      /\ ~Now.indicator /\ Now.indicator \in BOOLEAN /\ Now.hotkey \in HotkeyType
      /\ Now.deferred = <<>> /\ Now.stack = <<>> /\ Now.generation = 1 /\ Now.link = "starting" /\ Now.fault = "none"
      /\ Now.waits = [u \in Ids |-> {}] /\ Now.closing = FALSE /\ Now.source = [u \in Ids |-> "none"] /\ Now.pasted = <<>>
  BY InitIs, NowIs
<1> DEFINE s == Now
<1>4. \A u \in Nums : s.phrases[u] = Forgotten(0)
  BY <1>3
<1> HIDE DEF s
<1>5. Typed(s)
  <2>1. TypedQueue(s)
    BY <1>1, <1>2, <1>3 DEF TypedQueue, s
  <2>2. "starting" \in Links /\ "none" \in {"none", "now", "later"}
    BY DEF Links
  <2>3. 1 \in Nat \ {0} /\ 1 <= GenerationLimit
    BY LimitAssumption
  <2>4. <<>> \in Seq(EventType) /\ <<>> \in Seq(FrameType) /\ <<>> \in Seq(Ids)
    OBVIOUS
  <2>5. TypedRest(s)
    BY <1>3, <2>2, <2>3, <2>4 DEF TypedRest, s
  <2> QED
    BY <1>1, <2>1, <2>5 DEF Typed, s
<1>6. \A v \in Nums : PhraseOK(s, v) /\ Wake(s, v) /\ Glow(s, v)
  <2> TAKE v \in Nums
  <2>1. PhraseOK(s, v)
    BY <1>2, <1>3, <1>4 DEF PhraseOK, Busy, s
  <2>2. Wake(s, v) /\ Glow(s, v)
    BY <1>2, <1>3, <1>4 DEF Wake, Glow, Alarm, s
  <2> QED
    BY <2>1, <2>2
<1>7. Common(s)
  <2>1. \A v \in Ids : SourceOK(s, v)
    BY <1>3 DEF SourceOK, s
  <2>2. OneOpen(s) /\ Together(s)
    BY <1>1, <1>2, <1>3, <1>4 DEF OneOpen, Open, Together, s
  <2>3. DOMAIN s.deferred = {}
    BY <1>3 DEF s
  <2>4. EventsOK(s)
    BY <2>3 DEF EventsOK
  <2>5. Once(s)
    BY <1>3, <2>3 DEF Once, OnceOK, Heard, s
  <2> QED
    BY <2>1, <2>2, <2>4, <2>5 DEF Common
<1>8. Well(s)
  BY <1>3, <1>5, <1>6, <1>7 DEF Well, Good, Awake, Glowing, Lamp, s
<1>9. Turn(s, 0)
  BY <1>1, <1>2, <1>3, <1>4 DEF Turn, InOrderOfPress, PastedOK, FramesOK, Behind, Begun, s
<1> QED
  BY <1>8, <1>9 DEF Right, s

LEMMA UserStep == ASSUME Right(Now), User PROVE Right(Now')
BY KeyPressStep, KeyStopStep, KeyTapStep, KeyEscapeStep, ClickStep DEF User

LEMMA WorkerStep == ASSUME Right(Now), Worker PROVE Right(Now')
BY HelloStep, CrashStep, RelaunchStep, GiveUpStep, TerminateStep, RestartWorkerStep, AudioClosedStep,
   CaptureEventStep, CloseStep, StoppedStep, AnswerStep DEF Worker

\* Every step keeps the invariant
LEMMA NextRight == Right(Now) /\ [Next]_vars => Right(Now')
<1> SUFFICES ASSUME Right(Now), [Next]_vars PROVE Right(Now')
  OBVIOUS
<1>1. CASE User
  BY <1>1, UserStep
<1>2. CASE Time
  BY <1>2, FireStep DEF Time
<1>3. CASE Worker
  BY <1>3, WorkerStep
<1>4. CASE Unwind
  BY <1>4, PumpStep, PasteStep, DrainStep, SettleStep DEF Unwind
<1>5. CASE UNCHANGED vars
  <2>1. Now' = Now
    BY <1>5 DEF vars, Now
  <2> QED
    BY <2>1
<1> QED
  BY <1>1, <1>2, <1>3, <1>4, <1>5 DEF Next

-----------------------------------------------------------------------------
(* The theorems.                                                                                       *)

\* The inductive invariant
QueueRight == Right(Now)

\* Every reachable state is right, however many phrases, events, timers, restarts of the worker and
\* nested pastes there are (DictationOrchestrator, core/dictation.py)
THEOREM InductiveInvariant == Spec => []QueueRight
<1>1. Init => QueueRight
  BY InitRight DEF QueueRight
<1>2. QueueRight /\ [Next]_vars => QueueRight'
  BY NextRight DEF QueueRight
<1> QED
  BY <1>1, <1>2, PTL DEF Spec

\* An open capture is known to the queue and shown
LEMMA RightOpen == ASSUME QueueRight, NEW u \in Ids, source[u] = "open" PROVE u \in Open(Now) /\ indicator
<1>1. SourceOK(Now, u)
  BY DEF QueueRight, Right, Well, Good, Common
<1> QED
  BY <1>1, NowIs DEF SourceOK, Open, Current

\* Every variable has its type, and a phrase is in _items exactly while it is recorded, recognized
\* or pasted (_change_phase)
THEOREM TypeCorrect == Spec => []TypeOK
<1>1. QueueRight => TypeOK
  <2> SUFFICES ASSUME QueueRight PROVE TypeOK
    OBVIOUS
  <2>1. Typed(Now) /\ \A u \in Nums : PhraseOK(Now, u)
    BY DEF QueueRight, Right, Well, Good
  <2>2. generation \in 1..GenerationLimit
    BY <2>1, NowIs, LimitAssumption DEF Typed, TypedRest
  <2>3. ASSUME NEW u \in Nums
        PROVE /\ phrases[u].phase \in Phases /\ phrases[u].timers \subseteq Timers
              /\ phrases[u].gen \in 0..generation
              /\ u \in items <=> phrases[u].phase \in {"recording", "processing", "pasting"}
    <3>1. phrases[u] \in PhraseType /\ phrases[u].gen <= generation
      BY <2>1, NowIs DEF Typed, TypedQueue
    <3>2. phrases[u].phase \in Phases /\ phrases[u].timers \subseteq Timers /\ phrases[u].gen \in Nat
      BY <3>1 DEF PhraseType
    <3>3. phrases[u].gen \in 0..generation
      BY <2>2, <3>1, <3>2
    <3>4. u \in items <=> phrases[u].phase \in Busy
      BY <2>1, NowIs DEF PhraseOK
    <3> QED
      BY <3>2, <3>3, <3>4 DEF Busy
  <2>4. items \subseteq contexts /\ contexts \subseteq Nums /\ last \in contexts
    BY <2>1, NowIs DEF Typed, TypedQueue
  <2>5. /\ hotkey \in HotkeyType /\ link \in Links
        /\ waits \in [Ids -> SUBSET (Requests \cup {"lost"})]
        /\ source \in [Ids -> {"none", "open", "closed", "told"}]
    BY <2>1, NowIs DEF Typed, TypedRest
  <2>6. hotkey.state \in {"idle", "recording", "processing"}
    BY <2>5 DEF HotkeyType
  <2> QED
    BY <2>2, <2>3, <2>4, <2>5, <2>6 DEF TypeOK, Nums, Links
<1> QED
  BY <1>1, InductiveInvariant, PTL

\* The queue never asks for a second capture while one may be open in the worker, whatever a cancelled
\* or lost phrase still owes (_start_phrase, _ensure_capture_closed, _capture_closed)
THEOREM CaptureAlone == Spec => []OneCapture
<1>1. QueueRight => OneCapture
  <2> SUFFICES ASSUME QueueRight PROVE OneCapture
    OBVIOUS
  <2> DEFINE S == {u \in Ids : source[u] = "open"}
  <2>1. \A u, v \in S : u = v
    <3>1. S \subseteq Open(Now)
      BY RightOpen
    <3>2. OneOpen(Now)
      BY DEF QueueRight, Right, Well, Good, Common
    <3> QED
      BY <3>1, <3>2 DEF OneOpen
  <2>2. S = {} \/ \E u : S = {u}
    BY <2>1
  <2>3. Cardinality(S) <= 1
    <3> HIDE DEF S
    <3>1. CASE S = {}
      BY <3>1, FS_EmptySet
    <3>2. ASSUME NEW u, S = {u} PROVE Cardinality(S) <= 1
      <4>1. Cardinality({u}) = 1
        BY FS_Singleton
      <4> QED
        BY <3>2, <4>1
    <3> QED
      BY <2>2, <3>1, <3>2
  <2> QED
    BY <2>3 DEF OneCapture
<1> QED
  BY <1>1, InductiveInvariant, PTL

\* While a capture of a running worker may be open an indicator is shown, and it burns only for a
\* capture that may be open or whose phrase has yet to find it dead (set_recording, _dim)
THEOREM IndicatorIsTrue == Spec => []IndicatorTrue
<1>1. QueueRight => IndicatorTrue
  <2> SUFFICES ASSUME QueueRight PROVE IndicatorTrue
    OBVIOUS
  <2>1. IndicatorLit
    BY RightOpen DEF IndicatorLit
  <2>2. IndicatorDims
    <3>1. Lamp(Now) /\ Typed(Now)
      BY DEF QueueRight, Right, Well
    <3>2. contexts \subseteq Nums
      BY <3>1, NowIs DEF Typed, TypedQueue
    <3> QED
      BY <3>1, <3>2, NowIs DEF Lamp, Burns, Current, Alarm, IndicatorDims
  <2> QED
    BY <2>1, <2>2 DEF IndicatorTrue
<1> QED
  BY <1>1, InductiveInvariant, PTL

\* A cancellation that blocks new phrases has a timer that ends it (_ensure_capture_closed,
\* _cancel_timeout, _restart_after_cancel)
THEOREM CancellationsTimed == Spec => []NoOrphanWait
<1>1. QueueRight => NoOrphanWait
  <2> SUFFICES ASSUME QueueRight PROVE NoOrphanWait
    OBVIOUS
  <2>1. Awake(Now) /\ contexts \subseteq Nums
    BY NowIs DEF QueueRight, Right, Well, Typed, TypedQueue
  <2> QED
    BY <2>1, NowIs DEF Awake, Wake, Current, Alarm, NoOrphanWait
<1> QED
  BY <1>1, InductiveInvariant, PTL

\* Texts are pasted in the order of the presses and none twice, although a paste runs a nested event
\* loop in which phrases are cancelled, begun and lost (_pump, _attempt_paste)
THEOREM PastedInOrder == Spec => []PastesInOrder
<1>1. QueueRight => PastesInOrder
  BY NowIs DEF QueueRight, Right, Turn, PastedOK, PastesInOrder
<1> QED
  BY <1>1, InductiveInvariant, PTL
=============================================================================
