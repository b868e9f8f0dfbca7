-------------------------- MODULE Supervisor_proofs --------------------------
(***************************************************************************)
(* What the supervisor promises to the GUI, for any utterances, requests   *)
(* and limits.                                                             *)
(*                                                                         *)
(* The account of the waits is the heart of it: owed[k] is raised where a  *)
(* request is accepted and lowered where an event is given to a callback.  *)
(* IInv says what lies between the two: an event that is prepared (a batch *)
(* of the stack todo, or of the restart that waits) settles waits that no  *)
(* other event of its batch settles, and of its own request only.  Say is  *)
(* the one place where events leave; SayFacts states what it does to the   *)
(* account, and every handler is then a line of arithmetic.                *)
(***************************************************************************)
EXTENDS Supervisor, TLAPS, FiniteSetTheorems, SequenceTheorems

-----------------------------------------------------------------------------
(* Keys and events.                                                        *)

LEMMA KeyFacts ==
  /\ \A k \in Keys : /\ k = Key(k.uid, k.kind) /\ k.kind # None
                     /\ k.uid \in Utts \/ (k.uid = None /\ k.kind \in Replies)
  /\ Key(None, None) \notin Keys
<1>1. ASSUME NEW k \in Keys
      PROVE  /\ k = Key(k.uid, k.kind) /\ k.kind # None
             /\ k.uid \in Utts \/ (k.uid = None /\ k.kind \in Replies)
  BY NoneAssumption DEF Keys, Chains, Cancels, Key
<1>2. Key(None, None).kind = None
  BY DEF Key
<1> QED BY <1>1, <1>2

\* An event settles waits of its own request only, and comes from its own generation
Named(e) ==
  /\ \A k \in e.settles : k.uid = e.uid /\ (k.kind = "record.cancel" => e.kind = k.kind)
  /\ e.from \in {0, e.gen}

\* The events of a batch: no wait is settled by two of them
BatchOK(S) ==
  /\ S \in SUBSET Event
  /\ \A e \in S : Named(e)
  /\ \A e, f \in S : e # f => e.settles \cap f.settles = {}

\* What the worker writes; an answer without an id names no phrase
Messages == {m \in Message : m.type = "done" => m.uid = None}

\* What may lie on the stack
Items ==
  [tag : {"frame"}, msg : Messages]
    \cup {x \in [tag : {"events"}, batch : SUBSET Event] : x.batch # {} /\ BatchOK(x.batch)}
    \cup [tag : {"broken"}, gen : 1..generation]

LEMMA OneEvent ==
  ASSUME NEW e \in Event, Named(e)
  PROVE  BatchOK({e})
BY DEF BatchOK

LEMMA OwnFacts ==
  ASSUME NEW type \in {"timeout", "lost", "stopped", "error"}, NEW k \in Keys \cup {Key(None, None)},
         NEW g \in 1..GenerationLimit
  PROVE  /\ Own(type, k, g) \in Event /\ Named(Own(type, k, g))
         /\ Own(type, k, g).settles = {k} \cap Keys
<1>1. k.uid \in Utts \cup {None} /\ k.kind \in {j.kind : j \in Keys} \cup {None}
  BY KeyFacts DEF Key
<1>2. 0 \in 0..GenerationLimit
  BY LimitAssumption
<1> QED BY <1>1, <1>2 DEF Own, Event, Named

LEMMA GeneralFacts ==
  ASSUME NEW type \in {"timeout", "lost", "stopped", "error"}, NEW g \in 1..GenerationLimit
  PROVE  /\ General(type, g) \in Event /\ Named(General(type, g)) /\ General(type, g).settles = {}
         /\ BatchOK({General(type, g)})
BY OwnFacts, KeyFacts, OneEvent DEF General

-----------------------------------------------------------------------------
(* The stack, and what is announced on it.                                 *)

\* The items of s that announce the outcome of k
Marks(s, k) == {i \in DOMAIN s : s[i].tag = "events" /\ Announces(s[i].batch, k)}
Count(s, k) == Cardinality(Marks(s, k))
Says1(x, k) == IF x.tag = "events" /\ Announces(x.batch, k) THEN 1 ELSE 0

\* Whether the batch S settles k
Tells(S, k) == IF Announces(S, k) THEN 1 ELSE 0

LEMMA CountType ==
  ASSUME NEW T, NEW s \in Seq(T), NEW k
  PROVE  IsFiniteSet(Marks(s, k)) /\ Count(s, k) \in Nat
<1>1. IsFiniteSet(1..Len(s)) /\ DOMAIN s = 1..Len(s)
  BY LenProperties, FS_Interval
<1>2. Marks(s, k) \in SUBSET (1..Len(s))
  BY <1>1 DEF Marks
<1> QED BY <1>1, <1>2, FS_Subset, FS_CardinalityType DEF Count

LEMMA PushFacts ==
  ASSUME NEW T, NEW x \in T, NEW s \in Seq(T)
  PROVE  /\ <<x>> \o s \in Seq(T) /\ Len(<<x>> \o s) = Len(s) + 1
         /\ (<<x>> \o s)[1] = x /\ \A i \in 1..Len(s) : (<<x>> \o s)[i + 1] = s[i]
<1>1. <<x>> \in Seq(T) /\ Len(<<x>>) = 1 /\ <<x>>[1] = x
  OBVIOUS
<1>2. Len(s) \in Nat
  BY LenProperties
<1> QED BY <1>1, <1>2, ConcatProperties

LEMMA CountPush ==
  ASSUME NEW T, NEW x \in T, NEW s \in Seq(T), NEW k
  PROVE  Count(<<x>> \o s, k) = Count(s, k) + Says1(x, k)
<1> DEFINE t == <<x>> \o s
           I == Marks(s, k)
           J == Marks(t, k)
           f == [i \in I |-> i + 1]
<1>1. t \in Seq(T) /\ Len(t) = Len(s) + 1 /\ t[1] = x /\ \A i \in 1..Len(s) : t[i + 1] = s[i]
  BY PushFacts
<1>2. Len(s) \in Nat /\ DOMAIN s = 1..Len(s) /\ DOMAIN t = 1..(Len(s) + 1)
  BY <1>1, LenProperties
<1>3. IsFiniteSet(I) /\ IsFiniteSet(J) /\ Cardinality(I) \in Nat /\ Cardinality(J) \in Nat
  BY <1>1, CountType DEF Count
<1> HIDE DEF t
<1>4. f \in [I -> J \ {1}]
  BY <1>1, <1>2 DEF Marks
<1>5. \A i, j \in I : f[i] = f[j] => i = j
  BY <1>2 DEF Marks
<1>6. \A j \in J \ {1} : \E i \in I : f[i] = j
  <2> SUFFICES ASSUME NEW j \in J \ {1} PROVE \E i \in I : f[i] = j
    OBVIOUS
  <2>1. j - 1 \in 1..Len(s) /\ (j - 1) + 1 = j
    BY <1>2 DEF Marks
  <2>2. t[j] = s[j - 1]
    BY <1>1, <2>1
  <2>3. j - 1 \in I
    BY <1>2, <2>1, <2>2 DEF Marks
  <2> QED BY <2>1, <2>3
<1>7. ExistsBijection(I, J \ {1})
  <2>1. f \in Bijection(I, J \ {1})
    BY <1>4, <1>5, <1>6 DEF Bijection, Injection, Surjection, IsInjective
  <2> QED BY <2>1 DEF ExistsBijection
<1>8. Cardinality(J \ {1}) = Cardinality(I)
  BY <1>3, <1>7, FS_Bijection
<1>9. Cardinality(J \ {1}) = IF 1 \in J THEN Cardinality(J) - 1 ELSE Cardinality(J)
  BY <1>3, FS_RemoveElement
<1>10. 1 \in J <=> x.tag = "events" /\ Announces(x.batch, k)
  BY <1>1, <1>2 DEF Marks
<1> HIDE DEF I, J
<1>11. Cardinality(J) = Cardinality(I) + Says1(x, k)
  BY <1>3, <1>8, <1>9, <1>10 DEF Says1
<1> QED BY <1>11 DEF I, J, t, Count

LEMMA CountPop ==
  ASSUME NEW T, NEW s \in Seq(T), s # <<>>, NEW k
  PROVE  /\ s[1] \in T /\ Tail(s) \in Seq(T)
         /\ Count(s, k) = Count(Tail(s), k) + Says1(s[1], k)
<1>1. Tail(s) \in Seq(T) /\ Len(Tail(s)) = Len(s) - 1 /\ \A i \in 1..Len(Tail(s)) : Tail(s)[i] = s[i + 1]
  BY HeadTailProperties
<1>2. Len(s) \in Nat \ {0} /\ s \in [1..Len(s) -> T]
  BY EmptySeq, LenProperties
<1>3. s[1] \in T
  BY <1>2
<1> DEFINE t == <<s[1]>> \o Tail(s)
<1>4. t \in Seq(T) /\ Len(t) = Len(s) /\ t[1] = s[1] /\ \A i \in 1..Len(Tail(s)) : t[i + 1] = s[i + 1]
  BY <1>1, <1>2, <1>3, PushFacts
<1> HIDE DEF t
<1>5. \A i \in 1..Len(s) : s[i] = t[i]
  <2> SUFFICES ASSUME NEW i \in 1..Len(s) PROVE s[i] = t[i]
    OBVIOUS
  <2>1. CASE i = 1
    BY <1>4, <2>1
  <2>2. CASE i # 1
    <3>1. i - 1 \in 1..Len(Tail(s)) /\ (i - 1) + 1 = i
      BY <1>1, <1>2, <2>2
    <3> QED BY <1>4, <3>1
  <2> QED BY <2>1, <2>2
<1>6. s = t
  BY <1>4, <1>5, SeqEqual
<1>7. Count(t, k) = Count(Tail(s), k) + Says1(s[1], k)
  BY <1>1, <1>3, CountPush DEF t
<1> QED BY <1>1, <1>3, <1>6, <1>7

-----------------------------------------------------------------------------
(* The inductive invariant.                                                *)

\* The types of everything but the restart, the stack and the account
Types ==
  /\ state \in {"new", "running", "stopped"} /\ generation \in 1..GenerationLimit
  /\ hello \in BOOLEAN /\ restarts \in 0..MaxRestarts
  /\ due \subseteq timed /\ timed \subseteq pending /\ pending \subseteq Keys
  /\ quiet \subseteq pending /\ finished \subseteq Utts \cup Replies
  /\ proc \in {"none", "starting", "alive", "killed", "exited"}
  /\ asked \in [Keys -> 0..AskLimit]
  /\ over \subseteq Utts \cup Replies

RestartOK ==
  restart # None => /\ restart.gen = generation /\ restart.relaunch \in BOOLEAN
                    /\ BatchOK(restart.batch)

\* A process counts as living until its exit is seen; none before the start
Lives ==
  /\ living = IF proc \in {"starting", "alive", "killed"} THEN 1 ELSE 0
  /\ state = "new" => proc = "none"

\* Only a supervisor that runs is to start another process
Relaunches == restart # None => (restart.relaunch => state = "running")

InRestart(k) == IF restart # None /\ Announces(restart.batch, k) THEN 1 ELSE 0
Waits(k) == IF k \in pending THEN 1 ELSE 0
Balanced == \A k \in Keys : owed[k] = Waits(k) + Count(todo, k) + InRestart(k)

IInv ==
  /\ Types /\ RestartOK /\ todo \in Seq(Items)
  /\ out \subseteq Event /\ (\A e \in out : Named(e))
  /\ Lives /\ Relaunches
  /\ owed \in [Keys -> Nat] /\ Balanced

\* The account is a number of waits as soon as it balances
LEMMA BalanceTyped ==
  ASSUME NEW s \in Seq(Items), NEW k \in Keys
  PROVE  Waits(k) + Count(s, k) + InRestart(k) \in Nat
BY CountType DEF Waits, InRestart

\* Of a batch S, one event is told and the rest goes onto the stack
LEMMA SayFacts ==
  ASSUME NEW S, BatchOK(S), NEW rest \in Seq(Items), owed \in [Keys -> Nat], Say(S, rest)
  PROVE  /\ todo' \in Seq(Items)
         /\ out' \subseteq Event /\ \A e \in out' : Named(e)
         /\ owed' \in [Keys -> Int]
         /\ \A k \in Keys : owed'[k] - Count(todo', k)
                            = owed[k] - Count(rest, k) - Tells(S, k)
<1>1. CASE S = {}
  <2>1. todo' = rest /\ out' = {} /\ owed' = owed
    BY <1>1 DEF Say
  <2>2. \A k : Tells(S, k) = 0
    BY <1>1 DEF Tells, Announces
  <2>3. \A k \in Keys : Count(rest, k) \in Nat /\ owed[k] \in Nat
    BY CountType
  <2> QED BY <2>1, <2>2, <2>3
<1>2. CASE S # {}
  <2>1. PICK e \in S :
          /\ out' = {e}
          /\ owed' = [k \in Keys |-> IF k \in e.settles THEN owed[k] - 1 ELSE owed[k]]
          /\ todo' = Events(S \ {e}) \o rest
    BY <1>2 DEF Say
  <2>2. e \in Event /\ Named(e)
    BY DEF BatchOK
  <2>3. \A k : Tells(S \ {e}, k) \in Nat /\ Tells(S, k) \in Nat
    BY DEF Tells
  <2>4. \A k : Tells(S, k) = Tells(S \ {e}, k) + (IF k \in e.settles THEN 1 ELSE 0)
    <3> SUFFICES ASSUME NEW k
                 PROVE  Tells(S, k) = Tells(S \ {e}, k) + (IF k \in e.settles THEN 1 ELSE 0)
      OBVIOUS
    <3>1. CASE k \in e.settles
      BY <3>1 DEF Tells, Announces, BatchOK
    <3>2. CASE k \notin e.settles
      BY <3>2 DEF Tells, Announces
    <3> QED BY <3>1, <3>2
  <2>5. /\ todo' \in Seq(Items)
        /\ \A k : Count(todo', k) = Count(rest, k) + Tells(S \ {e}, k)
    <3>1. CASE S \ {e} = {}
      <4>1. todo' = rest
        BY <2>1, <3>1, ConcatEmptySeq DEF Events
      <4>2. \A k : Tells(S \ {e}, k) = 0
        BY <3>1 DEF Tells, Announces
      <4>3. \A k : Count(rest, k) \in Nat
        BY CountType
      <4>4. \A k : Count(rest, k) = Count(rest, k) + Tells(S \ {e}, k)
        <5> SUFFICES ASSUME NEW k PROVE Count(rest, k) = Count(rest, k) + Tells(S \ {e}, k)
          OBVIOUS
        <5>1. Count(rest, k) \in Nat /\ Tells(S \ {e}, k) = 0
          BY <4>2, <4>3
        <5> QED BY <5>1
      <4> QED BY <4>1, <4>4
    <3>2. CASE S \ {e} # {}
      <4> DEFINE x == [tag |-> "events", batch |-> S \ {e}]
      <4>1. x \in Items
        BY <3>2 DEF Items, BatchOK
      <4>2. todo' = <<x>> \o rest
        BY <2>1, <3>2 DEF Events
      <4>3. \A k : Says1(x, k) = Tells(S \ {e}, k)
        BY DEF Says1, Tells
      <4> HIDE DEF x
      <4>4. \A k : Count(<<x>> \o rest, k) = Count(rest, k) + Says1(x, k)
        BY <4>1, CountPush
      <4> QED BY <4>1, <4>2, <4>3, <4>4, PushFacts
    <3> QED BY <3>1, <3>2
  <2>6. \A k \in Keys : Count(rest, k) \in Nat /\ owed[k] \in Nat
    BY CountType
  <2>7. \A k \in Keys : owed'[k] = owed[k] - (IF k \in e.settles THEN 1 ELSE 0)
    BY <2>1, <2>6
  <2>8. owed' \in [Keys -> Int]
    BY <2>1, <2>6
  <2>9. ASSUME NEW k \in Keys
        PROVE  owed'[k] - Count(todo', k) = owed[k] - Count(rest, k) - Tells(S, k)
    <3>1. owed'[k] = owed[k] - (IF k \in e.settles THEN 1 ELSE 0)
      BY <2>7
    <3>2. Count(todo', k) = Count(rest, k) + Tells(S \ {e}, k)
      BY <2>5
    <3>3. Tells(S, k) = Tells(S \ {e}, k) + (IF k \in e.settles THEN 1 ELSE 0)
      BY <2>4
    <3> DEFINE c == Count(rest, k)
               a == Tells(S \ {e}, k)
               t == Tells(S, k)
               d == IF k \in e.settles THEN 1 ELSE 0
               o == owed[k]
    <3>4. c \in Nat /\ a \in Nat /\ t \in Nat /\ d \in Nat /\ o \in Nat
      BY <2>3, <2>6
    <3>5. owed'[k] = o - d /\ Count(todo', k) = c + a /\ t = a + d
      BY <3>1, <3>2, <3>3
    <3> HIDE DEF c, a, t, d, o
    <3>6. owed'[k] - Count(todo', k) = o - c - t
      BY <3>4, <3>5
    <3> QED BY <3>6 DEF c, t, o
  <2> QED BY <2>1, <2>2, <2>5, <2>8, <2>9
<1> QED BY <1>1, <1>2

\* A step that says S and takes just the waits and the restart that S settles keeps the account
LEMMA SayBalance ==
  ASSUME IInv, NEW S, BatchOK(S), NEW rest \in Seq(Items), Say(S, rest), generation' \in {generation, generation + 1},
         \A k \in Keys : Waits(k)' + InRestart(k)' + Count(rest, k) + Tells(S, k)
                          = Waits(k) + InRestart(k) + Count(todo, k)
  PROVE  /\ todo' \in Seq(Items') /\ out' \subseteq Event /\ (\A e \in out' : Named(e))
         /\ owed' \in [Keys -> Nat] /\ Balanced'
<1>1. /\ todo' \in Seq(Items) /\ out' \subseteq Event /\ (\A e \in out' : Named(e))
      /\ owed' \in [Keys -> Int]
      /\ \A k \in Keys : owed'[k] - Count(todo', k)
                         = owed[k] - Count(rest, k) - Tells(S, k)
  BY SayFacts DEF IInv
<1>2. todo' \in Seq(Items')
  <2>1. generation \in Nat
    BY LimitAssumption DEF IInv, Types
  <2>2. 1..generation \subseteq 1..generation'
    BY <2>1
  <2>3. Items \subseteq Items'
    BY <2>2 DEF Items, BatchOK, Named, Event, Messages, Message
  <2> QED BY <1>1, <2>3, SeqMonotonic
<1>3. ASSUME NEW k \in Keys
      PROVE  owed'[k] = Waits(k)' + Count(todo, k)' + InRestart(k)' /\ owed'[k] \in Nat
  <2>1. Count(todo', k) \in Nat /\ Count(todo, k) \in Nat /\ Count(rest, k) \in Nat
    BY <1>1, CountType DEF IInv
  <2>2. owed[k] = Waits(k) + Count(todo, k) + InRestart(k)
    BY DEF IInv, Balanced
  <2>3. Waits(k) \in Nat /\ InRestart(k) \in Nat /\ Waits(k)' \in Nat /\ InRestart(k)' \in Nat
    BY DEF Waits, InRestart
  <2>t. Tells(S, k) \in Nat
    BY DEF Tells
  <2>4. owed'[k] \in Int /\ owed[k] \in Nat
    BY <1>1 DEF IInv
  <2>5. owed'[k] - Count(todo', k) = owed[k] - Count(rest, k) - Tells(S, k)
    BY <1>1
  <2>6. Count(todo, k)' = Count(todo', k)
    BY DEF Count, Marks, Announces
  <2>7. Waits(k)' + InRestart(k)' + Count(rest, k) + Tells(S, k)
          = Waits(k) + InRestart(k) + Count(todo, k)
    OBVIOUS
  <2> DEFINE a == Tells(S, k)
             w == Waits(k)'
             r == InRestart(k)'
             c == Count(todo', k)
             d == Count(rest, k)
             o == owed'[k]
             w0 == Waits(k)
             r0 == InRestart(k)
             c0 == Count(todo, k)
             o0 == owed[k]
  <2>8. a \in Nat /\ w \in Nat /\ r \in Nat /\ c \in Nat /\ d \in Nat /\ o \in Int /\ w0 \in Nat
          /\ r0 \in Nat /\ c0 \in Nat /\ o0 \in Nat
    BY <2>1, <2>3, <2>4, <2>t
  <2>9. o0 = w0 + c0 + r0 /\ o - c = o0 - d - a /\ w + r + d + a = w0 + r0 + c0
    BY <2>2, <2>5, <2>7
  <2>10. Count(todo, k)' = c
    BY <2>6
  <2> HIDE DEF a, w, r, c, d, o, w0, r0, c0, o0
  <2>11. o = w + c + r /\ o \in Nat
    BY <2>8, <2>9
  <2> QED BY <2>10, <2>11 DEF o, w, r
<1>4. owed' \in [Keys -> Nat]
  BY <1>1, <1>3
<1> QED BY <1>1, <1>2, <1>3, <1>4 DEF Balanced

-----------------------------------------------------------------------------
(* The parts that the handlers share.                                      *)

\* What is left alone keeps its part of the invariant
LEMMA LifeKept ==
  ASSUME IInv, UNCHANGED <<life, process>>
  PROVE  /\ RestartOK' /\ Lives' /\ Relaunches' /\ generation' = generation
         /\ \A k : InRestart(k)' = InRestart(k)
BY DEF IInv, RestartOK, Lives, Relaunches, InRestart, BatchOK, Named, Event, Announces, life, process

LEMMA WaitsKept ==
  ASSUME IInv, UNCHANGED <<waits, life, process>>
  PROVE  Types' /\ \A k : Waits(k)' = Waits(k)
BY DEF IInv, Types, Waits, waits, life, process

\* The answers that end the waits S
LEMMA FinishFacts ==
  ASSUME IInv, NEW S \in SUBSET pending, Finish(S), quiet' \subseteq quiet \ S, UNCHANGED <<life, process>>
  PROVE  /\ Types'
         /\ \A k : Waits(k)' + (IF k \in S THEN 1 ELSE 0) = Waits(k)
<1>1. ASSUME NEW k \in S PROVE Topic(k) \in Utts \cup Replies
  <2>1. k \in Keys
    BY DEF IInv, Types
  <2> QED BY <2>1, KeyFacts, NoneAssumption DEF Topic
<1>2. finished' \subseteq Utts \cup Replies /\ over' \subseteq Utts \cup Replies
  BY <1>1 DEF IInv, Types, Finish
<1>3. Types'
  BY <1>2 DEF IInv, Types, Finish, life, process
<1>4. \A k : Waits(k)' + (IF k \in S THEN 1 ELSE 0) = Waits(k)
  BY DEF Finish, Waits
<1> QED BY <1>3, <1>4

\* A restart takes all waits and announces those of P
LEMMA RestartFacts ==
  ASSUME IInv, restart = None, NEW P \in SUBSET Keys, NEW r \in BOOLEAN, r => state = "running", Restart(P, r)
  PROVE  /\ Types' /\ RestartOK' /\ Lives' /\ Relaunches' /\ generation' = generation
         /\ \A k : Waits(k)' = 0 /\ InRestart(k) = 0 /\ InRestart(k)' = (IF k \in P THEN 1 ELSE 0)
<1> DEFINE B == {Own("lost", k, generation) : k \in P} \cup IF r THEN {} ELSE {General("lost", generation)}
           record == [gen |-> generation, relaunch |-> r, batch |-> B]
<1>1. /\ Disconnect /\ restart' = record /\ state' = (IF r THEN state ELSE "stopped") /\ proc' = Killed
      /\ UNCHANGED <<generation, restarts, living>>
  BY DEF Restart
<1>2. generation \in 1..GenerationLimit
  BY DEF IInv, Types
<1>3. BatchOK(B)
  <2>1. \A k \in P : /\ Own("lost", k, generation) \in Event /\ Named(Own("lost", k, generation))
                     /\ Own("lost", k, generation).settles = {k}
    BY <1>2, OwnFacts
  <2>2. /\ General("lost", generation) \in Event /\ Named(General("lost", generation))
        /\ General("lost", generation).settles = {}
    BY <1>2, GeneralFacts
  <2>3. B \in SUBSET Event /\ \A e \in B : Named(e)
    BY <2>1, <2>2
  <2>4. \A e, f \in B : e # f => e.settles \cap f.settles = {}
    BY <2>1, <2>2
  <2> QED BY <2>3, <2>4 DEF BatchOK
<1>4. \A k : Announces(B, k) <=> k \in P
  <2>1. \A k \in P : Own("lost", k, generation).settles = {k}
    BY <1>2, OwnFacts
  <2>2. General("lost", generation).settles = {}
    BY <1>2, GeneralFacts
  <2> QED BY <2>1, <2>2 DEF Announces
<1>5. record \in Restarts /\ record.batch = B /\ record.gen = generation /\ record.relaunch = r
  BY <1>2, <1>3 DEF Restarts, BatchOK
<1> HIDE DEF B, record
<1>6. restart' # None /\ restart'.batch = B /\ restart'.gen = generation /\ restart'.relaunch = r
  BY <1>1, <1>5, RestartAssumption
<1>7. RestartOK'
  BY <1>1, <1>3, <1>6 DEF RestartOK, BatchOK, Named, Event
<1>8. Types'
  <2>1. asked' \in [Keys -> 0..AskLimit]
    BY <1>1, LimitAssumption DEF Disconnect, NoAsked
  <2> QED BY <1>1, <2>1 DEF IInv, Types, Disconnect, Killed
<1>9. Lives' /\ Relaunches'
  BY <1>1, <1>6 DEF IInv, Types, Lives, Relaunches, Killed
<1>10. \A k : Waits(k)' = 0
  BY <1>1 DEF Disconnect, Waits
<1>11. \A k : InRestart(k) = 0
  BY DEF InRestart
<1>12. ASSUME NEW k PROVE InRestart(k)' = (IF k \in P THEN 1 ELSE 0)
  <2>1. Announces(restart.batch, k)' <=> k \in P
    BY <1>4, <1>6 DEF Announces
  <2> QED BY <1>6, <2>1 DEF InRestart
<1> QED BY <1>1, <1>7, <1>8, <1>9, <1>10, <1>11, <1>12

\* What the worker writes is a message, and answers what it was asked
LEMMA WritesFacts ==
  ASSUME Types, NEW q \in [Keys -> 0..AskLimit], NEW m \in Writes(q)
  PROVE  m \in Messages /\ Unanswered(q, m) \in [Keys -> 0..AskLimit]
<1>1. generation \in 1..GenerationLimit
  BY DEF Types
<1>2. CASE \E type \in {"hello", "mismatch"} : m = Says(type, Key(None, None))
  BY <1>1, <1>2 DEF Says, Key, Messages, Message, Unanswered
<1>3. CASE \E u \in Utts, type \in {"notice", "error"} : m = Says(type, Key(u, None))
  BY <1>1, <1>3 DEF Says, Key, Messages, Message, Unanswered
<1>4. CASE m = Says("error", Key(None, None))
  BY <1>1, <1>4 DEF Says, Key, Messages, Message, Unanswered
<1>5. CASE \E k \in Keys : q[k] > 0 /\ \E type \in Answers(k) : m = Says(type, k)
  <2>1. PICK k \in Keys : q[k] > 0 /\ \E type \in Answers(k) : m = Says(type, k)
    BY <1>5
  <2>2. PICK type \in {"result", "cancelled", "done", "error"} : m = Says(type, k)
    BY <2>1 DEF Answers
  <2>3. m.uid = k.uid /\ m.kind = k.kind
    BY <2>2 DEF Says
  <2>4. k = Key(m.uid, m.kind) /\ k.uid \in Utts \cup {None}
    BY <2>3, KeyFacts
  <2>5. m \in Message
    BY <1>1, <2>2, <2>4 DEF Says, Message
  <2>7. m.type = "done" => m.uid = None
    BY <2>1, <2>2, <2>3, NoneAssumption DEF Says, Answers
  <2>6. \A j \in Keys : j = Key(m.uid, m.kind) => q[j] - 1 \in 0..AskLimit
    BY <2>1, <2>4, LimitAssumption
  <2> QED BY <2>5, <2>6, <2>7 DEF Unanswered, Messages
<1>6. CASE proc = "starting"
  BY <1>2, <1>6 DEF Writes
<1>7. CASE proc # "starting"
  <2>1. CASE m \in Unasked
    BY <1>3, <1>4, <2>1 DEF Unasked
  <2>2. CASE m \in UNION {{Says(type, k) : type \in Answers(k)} : k \in {k \in Keys : q[k] > 0}}
    BY <1>5, <2>2
  <2> QED BY <1>7, <2>1, <2>2 DEF Writes
<1> QED BY <1>6, <1>7

-----------------------------------------------------------------------------
(* Starting, stopping, restarting.                                         *)

\* What SayBalance concludes
Said ==
  /\ todo' \in Seq(Items') /\ out' \subseteq Event /\ (\A e \in out' : Named(e))
  /\ owed' \in [Keys -> Nat] /\ Balanced'

LEMMA TellsNone ==
  /\ BatchOK({}) /\ \A k : Tells({}, k) = 0
  /\ \A g \in 1..GenerationLimit, type \in {"timeout", "lost", "stopped", "error"} : \A k :
       Tells({General(type, g)}, k) = 0
<1>1. BatchOK({}) /\ \A k : Tells({}, k) = 0
  BY DEF BatchOK, Tells, Announces
<1>2. ASSUME NEW g \in 1..GenerationLimit, NEW type \in {"timeout", "lost", "stopped", "error"}, NEW k
      PROVE  Tells({General(type, g)}, k) = 0
  <2>1. General(type, g).settles = {}
    BY GeneralFacts
  <2> QED BY <2>1 DEF Tells, Announces
<1> QED BY <1>1, <1>2

LEMMA SmallNumbers ==
  ASSUME IInv, NEW k
  PROVE  Waits(k) \in Nat /\ InRestart(k) \in Nat /\ Count(todo, k) \in Nat
BY CountType DEF IInv, Waits, InRestart

LEMMA LossesFacts ==
  ASSUME IInv, restart # None, NEW g \in 1..GenerationLimit
  PROVE  BatchOK(Losses(g)) /\ \A k : Tells(Losses(g), k) = InRestart(k)
<1>1. CASE restart.batch = {}
  <2>1. Losses(g) = {General("lost", g)} /\ \A k : InRestart(k) = 0
    BY <1>1 DEF Losses, InRestart, Announces
  <2> QED BY <2>1, GeneralFacts, TellsNone
<1>2. CASE restart.batch # {}
  BY <1>2 DEF Losses, IInv, RestartOK, InRestart, Tells
<1> QED BY <1>1, <1>2

\* The events of the restart leave, and it is over
LEMMA LossesSaid ==
  ASSUME IInv, restart # None, restart' = None, NEW g \in 1..GenerationLimit, UNCHANGED pending,
         generation' \in {generation, generation + 1}, Say(Losses(g), todo)
  PROVE  Said
<1>1. BatchOK(Losses(g)) /\ \A k : Tells(Losses(g), k) = InRestart(k)
  BY LossesFacts
<1>2. \A k : Waits(k)' = Waits(k) /\ InRestart(k)' = 0
  BY DEF Waits, InRestart
<1>3. \A k \in Keys : Waits(k)' + InRestart(k)' + Count(todo, k) + Tells(Losses(g), k)
                     = Waits(k) + InRestart(k) + Count(todo, k)
  BY <1>1, <1>2, SmallNumbers
<1> QED BY <1>1, <1>3, SayBalance DEF IInv, Said

\* and so they do before an event that settles nothing
LEMMA ConcludeSaid ==
  ASSUME IInv, restart # None, restart' = None, NEW g \in 1..GenerationLimit, UNCHANGED pending,
         generation' \in {generation, generation + 1}, Conclude(General("stopped", g))
  PROVE  Said
<1> DEFINE e == General("stopped", g)
<1>1. BatchOK({e}) /\ \A k : Tells({e}, k) = 0
  BY GeneralFacts, TellsNone
<1>2. \A k : Waits(k)' = Waits(k) /\ InRestart(k)' = 0
  BY DEF Waits, InRestart
<1>3. CASE restart.batch = {}
  <2>1. \A k : InRestart(k) = 0
    BY <1>3 DEF InRestart, Announces
  <2>2. Say({e}, todo)
    BY <1>3 DEF Conclude
  <2>3. \A k \in Keys : Waits(k)' + InRestart(k)' + Count(todo, k) + Tells({e}, k)
                       = Waits(k) + InRestart(k) + Count(todo, k)
    BY <1>1, <1>2, <2>1, SmallNumbers
  <2> QED BY <1>1, <2>2, <2>3, SayBalance DEF IInv, Said
<1>4. CASE restart.batch # {}
  <2> DEFINE S == restart.batch
             x == [tag |-> "events", batch |-> {e}]
             rest == <<x>> \o todo
  <2>1. Say(S, rest)
    BY <1>4 DEF Conclude, Events
  <2>2. x \in Items
    BY <1>1 DEF Items, BatchOK
  <2>3. \A k : Says1(x, k) = 0
    BY <1>1 DEF Says1, Tells
  <2> HIDE DEF x
  <2>4. rest \in Seq(Items) /\ \A k : Count(rest, k) = Count(todo, k) + Says1(x, k)
    BY <2>2, PushFacts, CountPush DEF IInv
  <2>5. BatchOK(S) /\ \A k : Tells(S, k) = InRestart(k)
    BY DEF IInv, RestartOK, Tells, InRestart
  <2> HIDE DEF rest, S
  <2>6. ASSUME NEW k \in Keys
        PROVE  Waits(k)' + InRestart(k)' + Count(rest, k) + Tells(S, k)
                       = Waits(k) + InRestart(k) + Count(todo, k)
    <3>1. Count(rest, k) = Count(todo, k) + 0
      BY <2>3, <2>4
    <3> QED BY <1>2, <2>5, <3>1, SmallNumbers
  <2> QED BY <2>1, <2>4, <2>5, <2>6, SayBalance DEF Said
<1> QED BY <1>3, <1>4

\* A step that says nothing and leaves the account alone
LEMMA NothingSaid ==
  ASSUME IInv, UNCHANGED <<todo, owed, generation>>, out' = {},
         \A k \in Keys : Waits(k)' + InRestart(k)' = Waits(k) + InRestart(k)
  PROVE  Said
<1>1. todo' \in Seq(Items') /\ out' \subseteq Event /\ (\A e \in out' : Named(e)) /\ owed' \in [Keys -> Nat]
  BY DEF IInv, Items, BatchOK, Named, Event, Messages, Message
<1>2. ASSUME NEW k \in Keys
      PROVE  owed'[k] = Waits(k)' + Count(todo, k)' + InRestart(k)'
  <2>1. Count(todo, k)' = Count(todo, k)
    BY DEF Count, Marks, Announces
  <2>2. Waits(k)' \in Nat /\ InRestart(k)' \in Nat /\ owed[k] = Waits(k) + Count(todo, k) + InRestart(k)
    BY DEF Waits, InRestart, IInv, Balanced
  <2> QED BY <2>1, <2>2, SmallNumbers
<1> QED BY <1>1, <1>2 DEF Said, Balanced

LEMMA InitInv == Init => IInv
<1> SUFFICES ASSUME Init PROVE IInv
  OBVIOUS
<1>1. Types
  <2>1. generation \in 1..GenerationLimit /\ restarts \in 0..MaxRestarts
    BY LimitAssumption DEF Init
  <2>2. asked \in [Keys -> 0..AskLimit]
    BY LimitAssumption DEF Init, NoAsked
  <2> QED BY <2>1, <2>2 DEF Init, Types
<1>2. RestartOK /\ Lives /\ Relaunches /\ out = {} /\ owed \in [Keys -> Nat] /\ todo = <<>>
  BY DEF Init, RestartOK, Lives, Relaunches, NoAsked
<1>3. todo \in Seq(Items) /\ \A k : Marks(todo, k) = {}
  BY <1>2 DEF Marks
<1>4. Balanced
  BY <1>3, FS_EmptySet DEF Init, Balanced, Count, Waits, InRestart, NoAsked
<1> QED BY <1>1, <1>2, <1>3, <1>4 DEF IInv

LEMMA StartInv == ASSUME IInv, Start PROVE IInv'
<1>1. /\ UNCHANGED <<waits, generation, hello, restarts, restart, asked>> /\ state = "new"
      /\ \/ proc' = "starting" /\ living' = living + 1 /\ state' = "running" /\ Say({}, todo)
         \/ state' = "stopped" /\ UNCHANGED <<proc, living>> /\ Say({General("stopped", generation)}, todo)
  BY DEF Start, Launch
<1>2. proc = "none" /\ living = 0
  BY <1>1 DEF IInv, Lives
<1>3. Types' /\ RestartOK' /\ Lives' /\ (\A k : Waits(k)' = Waits(k) /\ InRestart(k)' = InRestart(k))
  BY <1>1, <1>2 DEF IInv, Types, RestartOK, Lives, Waits, InRestart, BatchOK, Named, Event, Announces, waits
<1>4. Relaunches'
  BY <1>1 DEF IInv, Relaunches
<1>5. Said
  <2>1. ASSUME NEW S, BatchOK(S), \A k : Tells(S, k) = 0, Say(S, todo) PROVE Said
    <3>1. \A k \in Keys : Waits(k)' + InRestart(k)' + Count(todo, k) + Tells(S, k)
                         = Waits(k) + InRestart(k) + Count(todo, k)
      BY <1>3, <2>1, SmallNumbers
    <3> QED BY <1>1, <2>1, <3>1, SayBalance DEF IInv, Said
  <2>2. generation \in 1..GenerationLimit
    BY DEF IInv, Types
  <2>3. CASE Say({}, todo)
    BY <2>1, <2>3, TellsNone
  <2>4. CASE Say({General("stopped", generation)}, todo)
    BY <2>1, <2>2, <2>4, TellsNone, GeneralFacts
  <2> QED BY <1>1, <2>3, <2>4
<1> QED BY <1>3, <1>4, <1>5 DEF IInv, Said

LEMMA HaltInv == ASSUME IInv, Halt PROVE IInv'
<1>1. /\ state # "new" /\ state' = "stopped" /\ restart' = None /\ Disconnect /\ out' = {}
      /\ proc' \in {Killed, IF proc = "none" THEN proc ELSE "exited"}
      /\ living' = (IF proc' = "exited" /\ ~Gone THEN living - 1 ELSE living)
      /\ UNCHANGED <<generation, restarts, todo>>
  BY DEF Halt, Forsaken
<1>2. asked' \in [Keys -> 0..AskLimit]
  BY <1>1, LimitAssumption DEF Disconnect, NoAsked
<1>3. proc' \in {"none", "killed", "exited"}
  BY <1>1 DEF IInv, Types, Killed
<1>4. Types'
  BY <1>1, <1>2, <1>3 DEF IInv, Types, Disconnect
<1>5. RestartOK' /\ Relaunches'
  BY <1>1 DEF RestartOK, Relaunches
<1>6. Lives'
  BY <1>1 DEF IInv, Types, Lives, Killed, Gone
<1>7. todo' \in Seq(Items') /\ out' \subseteq Event /\ (\A e \in out' : Named(e))
  BY <1>1 DEF IInv, Items, BatchOK, Named, Event, Messages, Message
<1>8. ASSUME NEW k \in Keys
      PROVE  owed'[k] = owed[k] - Waits(k) - InRestart(k)
  BY DEF Halt, Waits, InRestart, Announces
<1>9. ASSUME NEW k \in Keys
      PROVE  owed'[k] = Waits(k)' + Count(todo, k)' + InRestart(k)' /\ owed'[k] \in Nat
  <2>1. Waits(k)' = 0 /\ InRestart(k)' = 0 /\ Count(todo, k)' = Count(todo, k)
    BY <1>1 DEF Disconnect, Waits, InRestart, Count, Marks, Announces
  <2>2. owed[k] = Waits(k) + Count(todo, k) + InRestart(k)
    BY DEF IInv, Balanced
  <2> QED BY <1>8, <2>1, <2>2, SmallNumbers
<1>10. owed' \in [Keys -> Nat]
  BY <1>9 DEF Halt
<1> QED BY <1>4, <1>5, <1>6, <1>7, <1>9, <1>10 DEF IInv, Balanced

LEMMA GiveUpInv == ASSUME IInv, GiveUp PROVE IInv'
<1>1. /\ restart # None /\ Gone /\ restart' = None /\ state' = "stopped"
      /\ UNCHANGED <<waits, generation, hello, restarts, process>>
      /\ Say(Losses(restart.gen), todo) \/ Conclude(General("stopped", generation))
  BY DEF GiveUp
<1>2. Types' /\ RestartOK' /\ Relaunches'
  BY <1>1 DEF IInv, Types, RestartOK, Relaunches, waits, process
<1>3. Lives'
  BY <1>1 DEF IInv, Types, Lives, process
<1>4. restart.gen = generation /\ generation \in 1..GenerationLimit /\ UNCHANGED pending
  BY <1>1 DEF IInv, RestartOK, Types, waits
<1>5. Said
  BY <1>1, <1>4, LossesSaid, ConcludeSaid
<1> QED BY <1>2, <1>3, <1>5 DEF IInv, Said

LEMMA RelaunchInv == ASSUME IInv, Relaunch PROVE IInv'
<1>1. /\ restart # None /\ restart.relaunch /\ Gone /\ restart' = None
      /\ restarts < MaxRestarts /\ generation < GenerationLimit
      /\ restarts' = restarts + 1 /\ generation' = generation + 1
      /\ UNCHANGED <<waits, hello, asked>>
      /\ \/ proc' = "starting" /\ living' = living + 1 /\ state' = state /\ Say(Losses(generation'), todo)
         \/ state' = "stopped" /\ UNCHANGED <<proc, living>> /\ Conclude(General("stopped", generation'))
  BY DEF Relaunch, Launch
<1>2. generation' \in 1..GenerationLimit /\ restarts' \in 0..MaxRestarts
  BY <1>1, LimitAssumption DEF IInv, Types
<1>3. Types'
  BY <1>1, <1>2 DEF IInv, Types, waits
<1>4. RestartOK' /\ Relaunches'
  BY <1>1 DEF RestartOK, Relaunches
<1>5. state = "running"
  BY <1>1 DEF IInv, Relaunches
<1>6. Lives'
  BY <1>1, <1>5 DEF IInv, Types, Lives, Gone
<1>7. UNCHANGED pending
  BY <1>1 DEF waits
<1>8. Said
  BY <1>1, <1>2, <1>7, LossesSaid, ConcludeSaid
<1> QED BY <1>3, <1>4, <1>6, <1>8 DEF IInv, Said

\* A step that only replaces the process, and may say nothing
LEMMA RestartingInv ==
  ASSUME IInv, restart = None, NEW rest \in Seq(Items), \A k : Count(rest, k) = Count(todo, k),
         state = "running", NEW r \in BOOLEAN, Restart(pending, r), Say({}, rest)
  PROVE  IInv'
<1>1. pending \in SUBSET Keys
  BY DEF IInv, Types
<1>2. /\ Types' /\ RestartOK' /\ Lives' /\ Relaunches' /\ generation' = generation
      /\ \A k : Waits(k)' = 0 /\ InRestart(k) = 0 /\ InRestart(k)' = (IF k \in pending THEN 1 ELSE 0)
  BY <1>1, RestartFacts
<1>3. \A k \in Keys : Waits(k)' + InRestart(k)' + Count(rest, k) + Tells({}, k)
                     = Waits(k) + InRestart(k) + Count(todo, k)
  <2> SUFFICES ASSUME NEW k \in Keys
               PROVE  Waits(k)' + InRestart(k)' + Count(rest, k) + Tells({}, k)
                        = Waits(k) + InRestart(k) + Count(todo, k)
    OBVIOUS
  <2>1. InRestart(k)' = Waits(k) /\ Waits(k)' = 0 /\ InRestart(k) = 0 /\ Tells({}, k) = 0
          /\ Count(rest, k) = Count(todo, k)
    BY <1>2, TellsNone DEF Waits
  <2> QED BY <2>1, SmallNumbers
<1>4. Said
  BY <1>2, <1>3, TellsNone, SayBalance DEF Said
<1> QED BY <1>2, <1>4 DEF IInv, Said

LEMMA NoticeExitInv == ASSUME IInv, NoticeExit PROVE IInv'
BY RestartingInv DEF NoticeExit, IInv

-----------------------------------------------------------------------------
(* Requests and their deadlines.                                           *)

LEMMA AwaitFacts ==
  ASSUME IInv, NEW k \in Keys, NEW timeout \in BOOLEAN, asked[k] < AskLimit, Await(k, timeout)
  PROVE  /\ Types' /\ RestartOK' /\ Lives' /\ Relaunches' /\ generation' = generation
         /\ \A j : InRestart(j)' = InRestart(j)
         /\ \A j : Waits(j)' = IF j = k THEN 1 ELSE Waits(j)
<1>1. /\ pending' = pending \cup {k} /\ finished' \subseteq finished
      /\ asked' = [asked EXCEPT ![k] = @ + 1] /\ UNCHANGED <<over, life, proc, living>>
  BY DEF Await
<1>2. asked' \in [Keys -> 0..AskLimit]
  BY <1>1, LimitAssumption DEF IInv, Types
<1>3. due' \subseteq timed' /\ timed' \subseteq pending' /\ quiet' \subseteq pending'
  BY DEF Await, IInv, Types
<1>4. Types'
  BY <1>1, <1>2, <1>3 DEF IInv, Types, life
<1>5. RestartOK' /\ Lives' /\ Relaunches' /\ generation' = generation /\ \A j : InRestart(j)' = InRestart(j)
  BY <1>1 DEF IInv, RestartOK, Lives, Relaunches, InRestart, BatchOK, Named, Event, Announces, life
<1>6. \A j : Waits(j)' = IF j = k THEN 1 ELSE Waits(j)
  BY <1>1 DEF Waits
<1> QED BY <1>4, <1>5, <1>6

LEMMA SendInv == ASSUME IInv, NEW k \in Keys, NEW timeout \in BOOLEAN, Send(k, timeout) PROVE IInv'
<1>1. /\ state = "running" /\ restart = None /\ asked[k] < AskLimit
      /\ IF Gone THEN Restart(pending \cup {k}, TRUE) ELSE Await(k, timeout)
      /\ owed' = IF k \in pending THEN owed ELSE [owed EXCEPT ![k] = @ + 1]
      /\ out' = {} /\ todo' = todo
  BY DEF Send, Admitted
<1>2. pending \cup {k} \in SUBSET Keys
  BY DEF IInv, Types
<1>3. /\ Types' /\ RestartOK' /\ Lives' /\ Relaunches' /\ generation' = generation
      /\ \A j : Waits(j)' + InRestart(j)' = (IF j = k THEN 1 ELSE Waits(j)) + InRestart(j)
  <2>1. CASE Gone
    <3>1. Restart(pending \cup {k}, TRUE)
      BY <1>1, <2>1
    <3> HIDE DEF Restart
    <3>2. /\ Types' /\ RestartOK' /\ Lives' /\ Relaunches' /\ generation' = generation
          /\ \A j : Waits(j)' = 0 /\ InRestart(j) = 0 /\ InRestart(j)' = (IF j \in pending \cup {k} THEN 1 ELSE 0)
      BY <1>1, <1>2, <3>1, RestartFacts
    <3>3. ASSUME NEW j PROVE Waits(j)' + InRestart(j)' = (IF j = k THEN 1 ELSE Waits(j)) + InRestart(j)
      <4>1. Waits(j)' = 0 /\ InRestart(j) = 0 /\ InRestart(j)' = (IF j = k THEN 1 ELSE Waits(j))
        BY <3>2 DEF Waits
      <4> QED BY <4>1, SmallNumbers
    <3> QED BY <3>2, <3>3
  <2>2. CASE ~Gone
    <3>1. /\ Types' /\ RestartOK' /\ Lives' /\ Relaunches' /\ generation' = generation
          /\ \A j : InRestart(j)' = InRestart(j)
          /\ \A j : Waits(j)' = IF j = k THEN 1 ELSE Waits(j)
      BY <1>1, <2>2, AwaitFacts
    <3> QED BY <3>1
  <2> QED BY <2>1, <2>2
<1>4. todo' \in Seq(Items') /\ out' \subseteq Event /\ (\A e \in out' : Named(e))
  BY <1>1, <1>3 DEF IInv, Items, BatchOK, Named, Event, Messages, Message
<1>5. \A j \in Keys : owed'[j] = owed[j] + (IF j = k THEN 1 - Waits(j) ELSE 0)
  BY <1>1 DEF IInv, Waits
<1>6. ASSUME NEW j \in Keys
      PROVE  owed'[j] = Waits(j)' + Count(todo, j)' + InRestart(j)' /\ owed'[j] \in Nat
  <2>1. Count(todo, j)' = Count(todo, j)
    BY <1>1 DEF Count, Marks, Announces
  <2>2. owed[j] = Waits(j) + Count(todo, j) + InRestart(j)
    BY DEF IInv, Balanced
  <2>3. Waits(j)' \in Nat /\ InRestart(j)' \in Nat /\ (j = k => 1 - Waits(j) \in Nat)
    BY DEF Waits, InRestart
  <2>4. Waits(j)' + InRestart(j)' = (IF j = k THEN 1 ELSE Waits(j)) + InRestart(j)
    BY <1>3
  <2>5. owed'[j] = owed[j] + (IF j = k THEN 1 - Waits(j) ELSE 0)
    BY <1>5
  <2>6. CASE j = k
    BY <2>1, <2>2, <2>3, <2>4, <2>5, <2>6, SmallNumbers
  <2>7. CASE j # k
    BY <2>1, <2>2, <2>3, <2>4, <2>5, <2>7, SmallNumbers
  <2> QED BY <2>6, <2>7
<1>7. owed' \in [Keys -> Nat]
  BY <1>1, <1>6 DEF IInv
<1> QED BY <1>3, <1>4, <1>6, <1>7 DEF IInv, Balanced

LEMMA QuietStepsInv ==
  ASSUME IInv, WindowPasses \/ Die \/ (\E k \in Keys : Tick(k))
  PROVE  IInv'
<1>1. UNCHANGED <<pending, restart, generation, state, todo, owed>> /\ out' = {}
  BY DEF WindowPasses, Die, Tick, waits, life
<1>2. Types'
  <2>1. CASE WindowPasses
    <3>1. restarts' \in 0..MaxRestarts
      BY <2>1, LimitAssumption DEF WindowPasses, IInv, Types
    <3> QED BY <2>1, <3>1 DEF WindowPasses, waits, process, IInv, Types
  <2>2. CASE Die
    BY <2>2 DEF Die, waits, life, IInv, Types
  <2>3. CASE \E k \in Keys : Tick(k)
    BY <2>3 DEF Tick, life, process, IInv, Types
  <2> QED BY <2>1, <2>2, <2>3
<1>3. Lives'
  BY DEF WindowPasses, Die, Tick, waits, life, process, IInv, Lives
<1>4. RestartOK' /\ Relaunches' /\ \A k : Waits(k)' = Waits(k) /\ InRestart(k)' = InRestart(k)
  BY <1>1 DEF IInv, RestartOK, Relaunches, Waits, InRestart, BatchOK, Named, Event, Announces
<1>5. Said
  BY <1>1, <1>4, NothingSaid
<1> QED BY <1>2, <1>3, <1>4, <1>5 DEF IInv, Said

LEMMA StutterInv == ASSUME IInv, UNCHANGED vars PROVE IInv'
<1>1. UNCHANGED <<waits, life, process, todo, out, owed>>
  BY DEF vars
<1>2. Types' /\ \A k : Waits(k)' = Waits(k)
  BY <1>1, WaitsKept
<1>3. RestartOK' /\ Lives' /\ Relaunches' /\ generation' = generation /\ \A k : InRestart(k)' = InRestart(k)
  BY <1>1, LifeKept
<1>4. /\ todo' \in Seq(Items') /\ out' \subseteq Event /\ (\A e \in out' : Named(e)) /\ owed' \in [Keys -> Nat]
      /\ \A k : Count(todo, k)' = Count(todo, k)
  BY <1>1, <1>3 DEF IInv, Items, BatchOK, Named, Event, Messages, Message, Count, Marks, Announces
<1>5. Balanced'
  BY <1>1, <1>2, <1>3, <1>4 DEF IInv, Balanced
<1> QED BY <1>2, <1>3, <1>4, <1>5 DEF IInv

LEMMA ExpireInv == ASSUME IInv, Expire PROVE IInv'
<1>1. state = "running" /\ restart = None
  BY DEF Expire
<1>2. CASE Restart(pending, TRUE) /\ Say({}, todo)
  BY <1>1, <1>2, RestartingInv DEF IInv
<1>3. CASE /\ Finish(due) /\ quiet' = quiet \ due /\ UNCHANGED <<life, process>>
           /\ Say({Own("timeout", k, generation) : k \in due}, todo)
  <2> DEFINE S == {Own("timeout", k, generation) : k \in due}
  <2>1. due \in SUBSET pending /\ due \subseteq Keys /\ generation \in 1..GenerationLimit
    BY DEF IInv, Types
  <2>2. \A k \in due : /\ Own("timeout", k, generation) \in Event /\ Named(Own("timeout", k, generation))
                       /\ Own("timeout", k, generation).settles = {k}
    BY <2>1, OwnFacts
  <2>3. BatchOK(S)
    BY <2>2 DEF BatchOK
  <2>4. \A k : Tells(S, k) = IF k \in due THEN 1 ELSE 0
    BY <2>2 DEF Tells, Announces
  <2> HIDE DEF S
  <2>5. Types' /\ \A k : Waits(k)' + (IF k \in due THEN 1 ELSE 0) = Waits(k)
    BY <1>3, <2>1, FinishFacts
  <2>6. RestartOK' /\ Lives' /\ Relaunches' /\ generation' = generation /\ \A k : InRestart(k)' = InRestart(k)
    BY <1>3, LifeKept
  <2>7. ASSUME NEW k \in Keys
        PROVE  Waits(k)' + InRestart(k)' + Count(todo, k) + Tells(S, k) = Waits(k) + InRestart(k) + Count(todo, k)
    <3>1. Waits(k)' + Tells(S, k) = Waits(k) /\ InRestart(k)' = InRestart(k)
      BY <2>4, <2>5, <2>6
    <3>2. Waits(k)' \in Nat /\ Tells(S, k) \in Nat
      BY DEF Waits, Tells
    <3> QED BY <3>1, <3>2, SmallNumbers
  <2>8. Said
    BY <1>3, <2>3, <2>6, <2>7, SayBalance DEF IInv, Said, S
  <2> QED BY <2>5, <2>6, <2>8 DEF IInv, Said
<1> QED BY <1>2, <1>3 DEF Expire

-----------------------------------------------------------------------------
(* What the worker says.                                                   *)

\* What lies on top of the stack
LEMMA TopFacts ==
  ASSUME IInv, Called
  PROVE  /\ todo[1] \in Items /\ Pop \in Seq(Items)
         /\ \A k : Count(todo, k) = Count(Pop, k) + Says1(todo[1], k)
         /\ todo[1].tag = "frame" => todo[1].msg \in Messages
         /\ todo[1].tag # "events" => \A k : Says1(todo[1], k) = 0
         /\ todo[1].tag = "events" => BatchOK(todo[1].batch) /\ \A k : Says1(todo[1], k) = Tells(todo[1].batch, k)
<1>1. todo[1] \in Items /\ Pop \in Seq(Items) /\ \A k : Count(todo, k) = Count(Pop, k) + Says1(todo[1], k)
  BY CountPop DEF IInv, Called, Pop
<1> QED BY <1>1 DEF Items, Says1, Tells

\* A frame that says nothing and ends no wait
LEMMA PopInv ==
  ASSUME IInv, Called, NEW S, BatchOK(S), \A k : Tells(S, k) = Says1(todo[1], k),
         UNCHANGED pending, Types', UNCHANGED <<state, generation, restart, process>>, Say(S, Pop)
  PROVE  IInv'
<1>1. Pop \in Seq(Items) /\ \A k : Count(todo, k) = Count(Pop, k) + Says1(todo[1], k)
  BY TopFacts
<1>2. RestartOK' /\ Lives' /\ Relaunches' /\ \A k : InRestart(k)' = InRestart(k) /\ Waits(k)' = Waits(k)
  BY DEF IInv, RestartOK, Lives, Relaunches, InRestart, Waits, BatchOK, Named, Event, Announces, process
<1>3. ASSUME NEW k \in Keys
      PROVE  Waits(k)' + InRestart(k)' + Count(Pop, k) + Tells(S, k) = Waits(k) + InRestart(k) + Count(todo, k)
  <2>1. Count(Pop, k) \in Nat /\ Tells(S, k) \in Nat
    BY <1>1, CountType DEF Tells
  <2>2. Count(todo, k) = Count(Pop, k) + Tells(S, k)
    BY <1>1
  <2> QED BY <1>2, <2>1, <2>2, SmallNumbers
<1>4. Said
  BY <1>1, <1>3, SayBalance DEF Said
<1> QED BY <1>2, <1>4 DEF IInv, Said

\* The answer e of a frame ends the waits it settles
LEMMA AnswerInv ==
  ASSUME IInv, Called, todo[1].tag = "frame", NEW S \in SUBSET pending, Finish(S), quiet' = {},
         NEW B, BatchOK(B), \A k : Tells(B, k) = (IF k \in S THEN 1 ELSE 0),
         UNCHANGED <<life, process>>, Say(B, Pop)
  PROVE  IInv'
<1>1. Pop \in Seq(Items) /\ \A k : Count(todo, k) = Count(Pop, k) + 0
  BY TopFacts
<1>2. Types' /\ \A k : Waits(k)' + (IF k \in S THEN 1 ELSE 0) = Waits(k)
  BY FinishFacts
<1>3. RestartOK' /\ Lives' /\ Relaunches' /\ generation' = generation /\ \A k : InRestart(k)' = InRestart(k)
  BY LifeKept
<1>4. ASSUME NEW k \in Keys
      PROVE  Waits(k)' + InRestart(k)' + Count(Pop, k) + Tells(B, k) = Waits(k) + InRestart(k) + Count(todo, k)
  <2>1. Count(Pop, k) \in Nat /\ Tells(B, k) \in Nat /\ Waits(k)' \in Nat
    BY <1>1, CountType DEF Tells, Waits
  <2>2. Waits(k)' + Tells(B, k) = Waits(k) /\ Count(todo, k) = Count(Pop, k) + 0
    BY <1>1, <1>2
  <2> QED BY <1>3, <2>1, <2>2, SmallNumbers
<1>5. Said
  BY <1>1, <1>3, <1>4, SayBalance DEF Said
<1> QED BY <1>2, <1>3, <1>5 DEF IInv, Said

LEMMA PassFacts ==
  ASSUME IInv, NEW m \in Message, m.type # "mismatch", m.gen = generation, NEW S \in SUBSET Keys,
         \A k \in S : k.uid = m.uid /\ (k.kind = "record.cancel" => m.kind = k.kind)
  PROVE  BatchOK({Pass(m, S)}) /\ \A k : Tells({Pass(m, S)}, k) = (IF k \in S THEN 1 ELSE 0)
<1> DEFINE e == Pass(m, S)
<1>1. e.settles = S /\ e.uid = m.uid /\ e.kind = m.kind /\ e.from = e.gen
  BY DEF Pass
<1>2. e \in Event
  BY LimitAssumption DEF Pass, Event, Message
<1> HIDE DEF e
<1>3. Named(e)
  BY <1>1 DEF Named
<1>4. \A k : Tells({e}, k) = (IF k \in S THEN 1 ELSE 0)
  BY <1>1 DEF Tells, Announces
<1> QED BY <1>2, <1>3, <1>4, OneEvent DEF e

LEMMA ForwardInv ==
  ASSUME IInv, Called, todo[1].tag = "frame", NEW m \in Message, m.type # "mismatch", m.gen = generation,
         NEW S \in SUBSET pending, \A k \in S : k.uid = m.uid /\ (k.kind = "record.cancel" => m.kind = k.kind),
         NEW retired \in {Retired(m.uid), {}}, Forward(m, S, retired)
  PROVE  IInv'
<1> DEFINE T == S \cup retired
<1>1. T \in SUBSET pending /\ retired \cap Chain(m.uid) = retired
  BY DEF Retired, Chain
<1>2. \A k \in T : k.uid = m.uid /\ (k.kind = "record.cancel" => m.kind = k.kind)
  BY DEF Retired, Chain
<1>3. Finish(T) /\ quiet' = {} /\ UNCHANGED <<life, process>> /\ Say({Pass(m, T)}, Pop)
  BY <1>1 DEF Forward
<1>4. T \in SUBSET Keys
  BY <1>1 DEF IInv, Types
<1> HIDE DEF T
<1>5. BatchOK({Pass(m, T)}) /\ \A k : Tells({Pass(m, T)}, k) = (IF k \in T THEN 1 ELSE 0)
  BY <1>2, <1>4, PassFacts
<1> QED BY <1>1, <1>3, <1>5, AnswerInv

LEMMA DropInv == ASSUME IInv, Called, todo[1].tag # "events", Drop PROVE IInv'
<1>1. UNCHANGED <<waits, life, process>> /\ Say({}, Pop)
  BY DEF Drop
<1>2. Types' /\ UNCHANGED pending /\ UNCHANGED <<state, generation, restart, process>>
  BY <1>1, WaitsKept DEF waits, life
<1>3. \A k : Tells({}, k) = Says1(todo[1], k)
  BY TopFacts, TellsNone
<1> QED BY <1>1, <1>2, <1>3, TellsNone, PopInv

\* A restart that is due while the callback's own is under way does nothing
LEMMA RestartPoppedInv ==
  ASSUME IInv, Called, todo[1].tag # "events", state = "running", NEW r \in BOOLEAN,
         Restart(pending, r), Say({}, Pop)
  PROVE  IInv'
<1>1. CASE restart = None
  <2>1. Pop \in Seq(Items) /\ \A k : Count(todo, k) = Count(Pop, k) + 0
    BY TopFacts
  <2>2. \A k : Count(Pop, k) = Count(todo, k)
    <3> SUFFICES ASSUME NEW k PROVE Count(Pop, k) = Count(todo, k)
      OBVIOUS
    <3>1. Count(Pop, k) \in Nat
      BY <2>1, CountType
    <3> QED BY <2>1, <3>1
  <2> QED BY <1>1, <2>1, <2>2, RestartingInv
<1>2. CASE restart # None
  <2>1. UNCHANGED <<waits, life, process>>
    BY <1>2 DEF Restart
  <2> QED BY <2>1, DropInv DEF Drop
<1> QED BY <1>1, <1>2

LEMMA AcceptInv == ASSUME IInv, Accept PROVE IInv'
<1> DEFINE m == todo[1].msg
<1>1. /\ Called /\ todo[1].tag = "frame"
      /\ IF ~Fresh(m.gen) THEN Drop
         ELSE \/ AcceptHello(m) \/ AcceptMismatch(m) \/ AcceptNotice(m)
              \/ AcceptAnswer(m) \/ AcceptDone(m)
              \/ AcceptAudioError(m) \/ AcceptError(m)
  BY DEF Accept
<1>2. m \in Message /\ (m.type = "done" => m.uid = None)
  BY <1>1, TopFacts DEF Messages
<1>3. CASE Drop
  BY <1>1, <1>3, DropInv
<1> HIDE DEF m
<1> SUFFICES ASSUME Fresh(m.gen) PROVE IInv'
  BY <1>1, <1>3
<1>4. m.gen = generation /\ state = "running"
  BY DEF Fresh
<1>5. pending \subseteq Keys
  BY DEF IInv, Types
<1>6. \A k : Tells({}, k) = Says1(todo[1], k)
  BY <1>1, TopFacts, TellsNone
<1>7. CASE AcceptHello(m) \/ AcceptNotice(m)
  <2>1. m.type # "mismatch" /\ Say({Pass(m, {})}, Pop) /\ UNCHANGED <<pending, state, generation, restart, process>>
    BY <1>7 DEF AcceptHello, AcceptNotice, waits, life
  <2>2. Types'
    BY <1>7 DEF AcceptHello, AcceptNotice, waits, life, process, IInv, Types
  <2>3. BatchOK({Pass(m, {})}) /\ \A k : Tells({Pass(m, {})}, k) = (IF k \in {} THEN 1 ELSE 0)
    BY <1>2, <1>4, <2>1, PassFacts
  <2>4. \A k : Tells({Pass(m, {})}, k) = Says1(todo[1], k)
    BY <1>1, <2>3, TopFacts
  <2> QED BY <1>1, <2>1, <2>2, <2>3, <2>4, PopInv
<1>8. CASE AcceptMismatch(m)
  BY <1>1, <1>4, <1>8, RestartPoppedInv DEF AcceptMismatch
<1>9. CASE AcceptAnswer(m)
  <2> DEFINE k == Key(m.uid, m.kind)
  <2>1. m.type # "mismatch" /\ k.uid = m.uid /\ k.kind = m.kind
    BY <1>9 DEF AcceptAnswer, Key
  <2>2. CASE k \in pending
    <3>1. PICK retired \in Ended(m) : Forward(m, {k}, retired)
      BY <1>9, <2>2 DEF AcceptAnswer
    <3>2. retired \in {Retired(m.uid), {}}
      BY DEF Ended
    <3> QED BY <1>1, <1>2, <1>4, <2>1, <2>2, <3>1, <3>2, ForwardInv
  <2>3. CASE k \notin pending
    BY <1>3, <1>9, <2>3 DEF AcceptAnswer
  <2> QED BY <2>2, <2>3
<1>10. CASE AcceptDone(m)
  <2> DEFINE k == Key(None, m.kind)
  <2>1. m.type # "mismatch" /\ k.uid = None /\ k.kind = m.kind
    BY <1>10 DEF AcceptDone, Key
  <2>2. CASE k \in pending
    <3>1. Forward(m, {k}, {})
      BY <1>10, <2>2 DEF AcceptDone
    <3>2. m.uid = None
      BY <1>2, <1>10 DEF AcceptDone
    <3> QED BY <1>1, <1>2, <1>4, <2>1, <2>2, <3>1, <3>2, ForwardInv
  <2>3. CASE k \notin pending /\ Forward(m, {}, {})
    BY <1>1, <1>2, <1>4, <2>1, <2>3, ForwardInv
  <2> QED BY <1>3, <1>10, <2>2, <2>3 DEF AcceptDone
<1>11. CASE AcceptAudioError(m)
  <2>1. m.type # "mismatch"
    BY <1>11 DEF AcceptAudioError
  <2>2. CASE Drop
    BY <1>3, <2>2
  <2>3. CASE \E S \in {Chain(m.uid), {}} : Forward(m, S, {})
    <3>1. PICK S \in {Chain(m.uid), {}} : Forward(m, S, {})
      BY <2>3
    <3>2. S \in SUBSET pending /\ \A k \in S : k.uid = m.uid /\ (k.kind = "record.cancel" => m.kind = k.kind)
      BY DEF Chain
    <3> QED BY <1>1, <1>2, <1>4, <2>1, <3>1, <3>2, ForwardInv
  <2> QED BY <1>11, <2>2, <2>3 DEF AcceptAudioError
<1>12. CASE AcceptError(m)
  <2>1. m.type = "error" /\ m.uid = None /\ m.kind = None
    BY <1>12 DEF AcceptError
  <2>2. CASE Nameless = {}
    <3>1. Forward(m, {}, {})
      BY <1>12, <2>2 DEF AcceptError
    <3> QED BY <1>1, <1>2, <1>4, <2>1, <3>1, ForwardInv
  <2>3. CASE Nameless # {}
    <3> DEFINE B == {[Pass(m, {k}) EXCEPT !.kind = k.kind] : k \in Nameless}
    <3>1. /\ Finish(Nameless) /\ quiet' = {} /\ UNCHANGED <<life, process>> /\ Say(B, Pop)
      BY <1>12, <2>3 DEF AcceptError
    <3>2. Nameless \in SUBSET pending /\ Nameless \subseteq Keys
      BY <1>5 DEF Nameless
    <3> DEFINE E(k) == [Pass(m, {k}) EXCEPT !.kind = k.kind]
    <3>3. ASSUME NEW k \in Nameless PROVE E(k) \in Event /\ Named(E(k)) /\ E(k).settles = {k}
      <4>1. E(k) = [type |-> m.type, uid |-> m.uid, kind |-> k.kind, gen |-> generation, from |-> m.gen, settles |-> {k}]
        BY DEF Pass
      <4> DEFINE e == [type |-> m.type, uid |-> m.uid, kind |-> k.kind, gen |-> generation, from |-> m.gen,
                       settles |-> {k}]
      <4>2. k.uid = None /\ k \in Keys
        BY <3>2 DEF Nameless
      <4>3. e \in Event
        BY <1>2, <1>4, <2>1, <4>2, LimitAssumption DEF Event, Message
      <4>4. Named(e) /\ e.settles = {k}
        BY <1>4, <2>1, <4>2 DEF Named
      <4> QED BY <4>1, <4>3, <4>4
    <3>4. B = {E(k) : k \in Nameless}
      OBVIOUS
    <3> HIDE DEF B, E
    <3>5. BatchOK(B)
      BY <3>3, <3>4 DEF BatchOK
    <3>6. \A k : Tells(B, k) = (IF k \in Nameless THEN 1 ELSE 0)
      BY <3>3, <3>4 DEF Tells, Announces
    <3> QED BY <1>1, <3>1, <3>2, <3>5, <3>6, AnswerInv
  <2> QED BY <2>2, <2>3
<1> QED BY <1>1, <1>7, <1>8, <1>9, <1>10, <1>11, <1>12

LEMMA BreakInv == ASSUME IInv, Break PROVE IInv'
<1>1. Called /\ todo[1].tag = "broken" /\ Say({}, Pop)
  BY DEF Break
<1>2. CASE Fresh(todo[1].gen)
  BY <1>1, <1>2, RestartPoppedInv DEF Break, Fresh
<1>3. CASE ~Fresh(todo[1].gen)
  BY <1>1, <1>3, DropInv DEF Break, Drop
<1> QED BY <1>2, <1>3

LEMMA EmitInv == ASSUME IInv, Emit PROVE IInv'
<1>1. Called /\ todo[1].tag = "events" /\ UNCHANGED <<waits, life, process>> /\ Say(todo[1].batch, Pop)
  BY DEF Emit
<1>2. Types' /\ UNCHANGED pending /\ UNCHANGED <<state, generation, restart, process>>
  BY <1>1, WaitsKept DEF waits, life
<1> QED BY <1>1, <1>2, TopFacts, PopInv

LEMMA PairFacts == ASSUME NEW T, NEW a \in T, NEW b \in T PROVE <<a>> \o <<b>> = <<a, b>>
<1>1. <<a>> \in Seq(T) /\ Len(<<a>>) = 1 /\ <<a>>[1] = a /\ <<b>> \in Seq(T) /\ Len(<<b>>) = 1 /\ <<b>>[1] = b
  OBVIOUS
<1>2. <<a, b>> \in Seq(T) /\ Len(<<a, b>>) = 2 /\ <<a, b>>[1] = a /\ <<a, b>>[2] = b
  OBVIOUS
<1> DEFINE s == <<a>> \o <<b>>
<1>3. s \in Seq(T) /\ Len(s) = 2 /\ s[1] = a /\ s[2] = b
  BY <1>1, ConcatProperties
<1> HIDE DEF s
<1>4. \A i \in 1..2 : s[i] = <<a, b>>[i]
  BY <1>2, <1>3
<1> QED BY <1>2, <1>3, <1>4, SeqEqual DEF s

\* A frame is put onto the stack: nothing is announced
LEMMA FramePushed ==
  ASSUME NEW m \in Messages, NEW s \in Seq(Items)
  PROVE  <<Frame(m)>> \o s \in Seq(Items) /\ \A k : Count(<<Frame(m)>> \o s, k) = Count(s, k)
<1>1. Frame(m) \in Items /\ \A k : Says1(Frame(m), k) = 0
  BY DEF Frame, Items, Says1
<1>2. ASSUME NEW k PROVE Count(<<Frame(m)>> \o s, k) = Count(s, k)
  <2>1. Count(<<Frame(m)>> \o s, k) = Count(s, k) + 0 /\ Count(s, k) \in Nat
    BY <1>1, CountPush, CountType
  <2> QED BY <2>1
<1> QED BY <1>1, <1>2, PushFacts

\* What is read is put onto the stack, and the process that has spoken is alive
LEMMA ReadInv ==
  ASSUME IInv, state = "running", asked' \in [Keys -> 0..AskLimit],
         proc' = (IF proc = "starting" THEN "alive" ELSE proc), UNCHANGED <<waits, life, living>>,
         NEW S, BatchOK(S), \A k : Tells(S, k) = 0,
         NEW rest \in Seq(Items), \A k : Count(rest, k) = Count(todo, k), Say(S, rest)
  PROVE  IInv'
<1>1. Types' /\ Lives'
  BY DEF IInv, Types, Lives, waits, life
<1>2. RestartOK' /\ Relaunches' /\ generation' = generation
  BY DEF IInv, RestartOK, Relaunches, BatchOK, Named, Event, life
<1>3. \A k : Waits(k)' = Waits(k) /\ InRestart(k)' = InRestart(k)
  BY DEF Waits, InRestart, Announces, waits, life
<1>4. \A k \in Keys : Waits(k)' + InRestart(k)' + Count(rest, k) + Tells(S, k)
                     = Waits(k) + InRestart(k) + Count(todo, k)
  BY <1>3, SmallNumbers
<1>5. Said
  BY <1>2, <1>4, SayBalance DEF Said
<1> QED BY <1>1, <1>2, <1>5 DEF IInv, Said

LEMMA ReceiveInv == ASSUME IInv, Receive PROVE IInv'
<1>1. state = "running" /\ proc' = (IF proc = "starting" THEN "alive" ELSE proc) /\ UNCHANGED <<waits, life, living>>
  BY DEF Receive
<1>2. PICK m \in Writes(asked) :
        \/ asked' = Unanswered(asked, m) /\ Say({}, <<Frame(m)>> \o todo)
        \/ \E n \in Writes(Unanswered(asked, m)) :
             /\ asked' = Unanswered(Unanswered(asked, m), n)
             /\ Say({}, <<Frame(m), Frame(n)>> \o todo)
  BY DEF Receive
<1> DEFINE q == Unanswered(asked, m)
<1>3. Types /\ asked \in [Keys -> 0..AskLimit] /\ todo \in Seq(Items)
  BY DEF IInv, Types
<1>4. m \in Messages /\ q \in [Keys -> 0..AskLimit]
  BY <1>3, WritesFacts
<1> HIDE DEF q
<1>5. CASE asked' = q /\ Say({}, <<Frame(m)>> \o todo)
  BY <1>1, <1>3, <1>4, <1>5, FramePushed, TellsNone, ReadInv
<1>6. CASE \E n \in Writes(q) : asked' = Unanswered(q, n) /\ Say({}, <<Frame(m), Frame(n)>> \o todo)
  <2>1. PICK n \in Writes(q) : asked' = Unanswered(q, n) /\ Say({}, <<Frame(m), Frame(n)>> \o todo)
    BY <1>6
  <2>2. n \in Messages /\ asked' \in [Keys -> 0..AskLimit]
    BY <1>3, <1>4, <2>1, WritesFacts
  <2> DEFINE s == <<Frame(n)>> \o todo
             t == <<Frame(m)>> \o s
  <2>3. s \in Seq(Items) /\ \A k : Count(s, k) = Count(todo, k)
    BY <1>3, <2>2, FramePushed
  <2> HIDE DEF s
  <2>4. t \in Seq(Items) /\ \A k : Count(t, k) = Count(s, k)
    BY <1>4, <2>3, FramePushed
  <2>5. t = <<Frame(m), Frame(n)>> \o todo
    <3>1. Frame(m) \in Items /\ Frame(n) \in Items
      BY <1>4, <2>2 DEF Frame, Items
    <3>2. <<Frame(m)>> \in Seq(Items) /\ <<Frame(n)>> \in Seq(Items)
      BY <3>1
    <3>3. (<<Frame(m)>> \o <<Frame(n)>>) \o todo = <<Frame(m)>> \o (<<Frame(n)>> \o todo)
      BY <1>3, <3>2, ConcatAssociative
    <3>4. <<Frame(m)>> \o <<Frame(n)>> = <<Frame(m), Frame(n)>>
      BY <3>1, PairFacts
    <3> QED BY <3>3, <3>4 DEF s
  <2> HIDE DEF t
  <2> QED BY <1>1, <2>1, <2>2, <2>3, <2>4, <2>5, TellsNone, ReadInv
<1> QED BY <1>2, <1>5, <1>6 DEF q

LEMMA ReceiveGarbageInv == ASSUME IInv, ReceiveGarbage PROVE IInv'
<1> DEFINE x == Broken(generation)
           rest == <<x>> \o todo
           S == {General("error", generation)}
<1>1. /\ state = "running" /\ proc = "alive" /\ UNCHANGED <<waits, life, process>> /\ Say(S, rest)
  BY DEF ReceiveGarbage
<1>2. generation \in 1..GenerationLimit /\ asked \in [Keys -> 0..AskLimit] /\ todo \in Seq(Items)
  BY DEF IInv, Types
<1>3. x \in Items /\ \A k : Says1(x, k) = 0
  BY <1>2, LimitAssumption DEF Broken, Items, Says1
<1> HIDE DEF x
<1>4. rest \in Seq(Items) /\ \A k : Count(rest, k) = Count(todo, k) + Says1(x, k)
  BY <1>2, <1>3, PushFacts, CountPush
<1>5. \A k : Count(rest, k) = Count(todo, k)
  BY <1>3, <1>4, SmallNumbers
<1>6. BatchOK(S) /\ \A k : Tells(S, k) = 0
  BY <1>2, GeneralFacts, TellsNone
<1> HIDE DEF rest, S
<1>7. asked' \in [Keys -> 0..AskLimit] /\ proc' = (IF proc = "starting" THEN "alive" ELSE proc) /\ UNCHANGED living
  BY <1>1, <1>2 DEF process
<1> QED BY <1>1, <1>4, <1>5, <1>6, <1>7, ReadInv

LEMMA NextInv == ASSUME IInv, [Next]_vars PROVE IInv'
<1>1. CASE UNCHANGED vars
  BY <1>1, StutterInv
<1>2. CASE Gui
  BY <1>2, StartInv, HaltInv, SendInv DEF Gui
<1>3. CASE Pump
  BY <1>3, ExpireInv, ReceiveInv, ReceiveGarbageInv, NoticeExitInv, GiveUpInv, RelaunchInv DEF Pump
<1>4. CASE Unwind
  BY <1>4, AcceptInv, BreakInv, EmitInv DEF Unwind
<1>5. CASE Time \/ Die
  BY <1>5, QuietStepsInv DEF Time
<1> QED BY <1>1, <1>2, <1>3, <1>4, <1>5 DEF Next

THEOREM Invariance == Spec => []IInv
<1> QED BY InitInv, NextInv, PTL DEF Spec

-----------------------------------------------------------------------------
(* What the GUI may rely on.                                               *)

\* Every variable has its type (pump, send, stop and the callbacks of _emit).
THEOREM SupervisorTyped == Spec => []TypeOK
<1>1. ASSUME IInv PROVE TypeOK
  <2>1. \A i \in DOMAIN todo : todo[i] \in Items
    BY <1>1, LenProperties DEF IInv
  <2>2. \A i \in DOMAIN todo :
          \/ todo[i].tag = "frame" /\ todo[i].msg \in Message
          \/ todo[i].tag = "events" /\ todo[i].batch # {} /\ todo[i].batch \subseteq Event
          \/ todo[i].tag = "broken" /\ todo[i].gen \in 1..generation
    BY <2>1 DEF Items, Messages, BatchOK
  <2>3. restart = None \/ /\ restart.gen = generation /\ restart.relaunch \in BOOLEAN
                          /\ restart.batch \subseteq Event
    BY <1>1 DEF IInv, RestartOK, BatchOK
  <2>4. living \in Nat
    BY <1>1 DEF IInv, Lives
  <2> QED BY <1>1, <2>2, <2>3, <2>4 DEF IInv, Types, TypeOK
<1> QED BY <1>1, Invariance, PTL

\* Every request that send() has accepted is settled exactly once: by an answer, a repeat of
\* it, a timeout, a restart or the end, in whatever order they come and however callbacks nest.
THEOREM RequestsAreSettledOnce == Spec => []OutcomesCounted
<1>1. ASSUME IInv PROVE OutcomesCounted
  <2>1. ASSUME NEW k \in Keys PROVE owed[k] = (IF k \in pending THEN 1 ELSE 0) + UnderWay(k)
    <3>1. owed[k] = Waits(k) + Count(todo, k) + InRestart(k)
      BY <1>1, <2>1 DEF IInv, Balanced
    <3>2. UnderWay(k) = Count(todo, k) + InRestart(k)
      BY DEF UnderWay, Count, Marks, InRestart
    <3>3. Waits(k) + Count(todo, k) + InRestart(k) = Waits(k) + (Count(todo, k) + InRestart(k))
      BY <1>1, SmallNumbers
    <3> QED BY <3>1, <3>2, <3>3 DEF Waits
  <2> QED BY <2>1 DEF OutcomesCounted
<1> QED BY <1>1, Invariance, PTL

\* An event that _emit gives to the GUI settles waits of its own phrase or kind only, and
\* carries the generation of the process that wrote it.
THEOREM AnswersAreOwn == Spec => OwnAnswers
<1>1. ASSUME IInv' PROVE /\ \A e \in out' : \A k \in e.settles :
                              k.uid = e.uid /\ (k.kind = "record.cancel" => e.kind = k.kind)
                         /\ \A e \in out' : e.from \in {0, e.gen}
  BY <1>1 DEF IInv, Named
<1> QED BY <1>1, Invariance, PTL DEF OwnAnswers, AnswersNameTheirRequest, OwnGeneration

\* No step starts a process after the end: only _launch does, which start() calls in state
\* "new" and _poll_restart when the restart is to relaunch
LEMMA EndIsEnd == ASSUME IInv, state = "stopped", [Next]_vars PROVE state' = "stopped" /\ living' <= living
<1>1. living \in Nat /\ (proc \in {"starting", "alive", "killed"} => living = 1)
  BY DEF IInv, Lives
<1>2. CASE UNCHANGED vars
  BY <1>1, <1>2 DEF vars, life, process
<1>3. ~Start /\ ~Relaunch /\ ~Receive /\ ~ReceiveGarbage /\ ~NoticeExit /\ ~Expire
  BY DEF Start, Relaunch, Receive, ReceiveGarbage, NoticeExit, Expire, IInv, Relaunches
<1>4. \A k \in Keys, timeout \in BOOLEAN : ~Send(k, timeout)
  BY DEF Send, Admitted
<1>5. CASE Halt
  BY <1>1, <1>5 DEF Halt
<1>6. CASE GiveUp
  BY <1>1, <1>6 DEF GiveUp, process
<1>7. CASE Unwind
  <2>1. \A g : ~Fresh(g)
    BY DEF Fresh
  <2>2. UNCHANGED <<life, process>>
    BY <1>7, <2>1 DEF Unwind, Accept, Drop, Break, Emit
  <2> QED BY <1>1, <2>2 DEF life, process
<1>8. CASE Time
  BY <1>1, <1>8 DEF Time, WindowPasses, Tick, life, process
<1>9. CASE Die
  BY <1>1, <1>9 DEF Die, life
<1> QED BY <1>2, <1>3, <1>4, <1>5, <1>6, <1>7, <1>8, <1>9 DEF Next, Gui, Pump

\* At most one worker lives: the next one is started when poll() has confirmed the exit of the
\* one before; and after stop(), kill(), the limit or a mismatch none is started.
THEOREM OneWorkerEver == Spec => OneWorkerToTheEnd
<1>1. ASSUME IInv PROVE OneWorker
  BY <1>1 DEF IInv, Lives, OneWorker
<1>2. ASSUME IInv, [Next]_vars PROVE state = "stopped" => state' = "stopped" /\ living' <= living
  BY <1>2, EndIsEnd
<1> QED BY <1>1, <1>2, Invariance, PTL DEF OneWorkerToTheEnd, StoppedIsTerminal, Spec
===============================================================================
