------------------------- MODULE CatalogTrust_proofs -------------------------
(***************************************************************************)
(* What CatalogTrust promises, for any set of catalogues and revisions.    *)
(*                                                                         *)
(* Inv holds under any amount of damage and gives NeverBack: each of the   *)
(* three writers of the marker (boot, a prepared source, a publication)    *)
(* compares with the marker and with what memory accepted.  With at most   *)
(* one damaged file Survives is added: what was accepted is known to the   *)
(* model service or to the snapshot as well, so that an activation meets   *)
(* the newest catalogue in one of the places it consults.  Without damage  *)
(* every step is a step of CatalogRatchet.                                 *)
(***************************************************************************)
EXTENDS CatalogTrust, TLAPS

-----------------------------------------------------------------------------
(* The inductive invariant.                                                *)

Publishing == refresh.pc \in {"snapshot", "marker", "failed"}

\* A process that is not there holds nothing
DeadIsEmpty ==
  ~alive => /\ source = NoSource /\ refresh = NoRefresh
            /\ cache = None /\ service = None /\ news = None

\* A source is known exactly when it accepted a catalogue, which the marker has reached
KnownIsAccepted == source.known <=> source.accepted # None
SourceBehind == marker \in Catalogs /\ source.accepted # None => Newer(marker, source.accepted)

\* What is being published is ahead of everything accepted
CandidateAhead ==
  /\ refresh.pc # "idle" => refresh.cand \in Catalogs
  /\ Publishing => /\ Newer(refresh.cand, source.accepted)
                   /\ marker \in Catalogs => Newer(refresh.cand, marker)
  /\ refresh.pc = "marker" => snapshot = refresh.cand

\* Until the first damage a catalogue in memory has a marker on the disk
Undamaged ==
  damage = 0 => /\ marker # Bad
                /\ marker = None => source.accepted = None /\ service = None /\ news = None

\* Nothing in memory is older than the built-in catalogue
Above(c) == c # None => Rank[c] >= Rank[builtin]
Floor ==
  /\ Above(source.accepted) /\ Above(service) /\ Above(news)
  /\ refresh.pc # "idle" => Above(refresh.cand)

Inv == TypeOK /\ DeadIsEmpty /\ KnownIsAccepted /\ SourceBehind /\ CandidateAhead /\ Undamaged /\ Floor

AtLeast(h, x) == h \in Catalogs /\ Rank[h] >= Rank[x]
Kept(x, file) ==
  /\ service = None \/ AtLeast(service, x) \/ AtLeast(file, x)
  /\ news = None \/ AtLeast(news, x) \/ AtLeast(file, x)

\* While the marker is whole because nothing was damaged, or is the file that was damaged, what
\* it or memory accepted is known elsewhere; a publication keeps the old snapshot for that
Survives ==
  damage = 0 \/ marker \notin Catalogs =>
    \A x \in {marker, source.accepted} \intersect Catalogs:
      /\ Kept(x, snapshot)
      /\ Publishing /\ marker # refresh.cand => Kept(x, refresh.previous)

-----------------------------------------------------------------------------
(* The operators.                                                          *)

SourceType == [accepted: Maybe, known: BOOLEAN, blocked: BOOLEAN]

\* Newer is transitive
LEMMA NewerTransitive ==
  ASSUME ConstantsOK, NEW a \in Catalogs, NEW b \in Catalogs, NEW c \in Maybe, Newer(a, b), Newer(b, c)
  PROVE  Newer(a, c)
BY DEF ConstantsOK, Newer, Maybe

\* A catalogue that is newer than another has at least its rank
LEMMA NewerRank ==
  ASSUME ConstantsOK, NEW a \in Catalogs, NEW b \in Catalogs, Newer(a, b)
  PROVE  Rank[a] >= Rank[b]
BY DEF ConstantsOK, Newer

LEMMA VerifiedFacts ==
  ASSUME ConstantsOK, NEW r \in Verified
  PROVE  r = None \/ (r \in Catalogs /\ r = snapshot)
BY DEF Verified

\* What loading the effective catalogue above base answers and leaves on the disk
LoadKinds(l, base) ==
  \/ /\ l.code = "ok" /\ l.cat = l.mark /\ l.mark \in Catalogs
     /\ marker # Bad /\ Newer(l.mark, marker)
     /\ Rank[l.mark] >= Rank[base] /\ l.mark \in {base, snapshot}
  \/ l.code = "io" /\ l.cat = None /\ l.mark = marker
  \/ /\ l.code = "stale-catalog" /\ l.cat = None /\ l.mark = marker
     /\ marker \in Catalogs /\ Rank[marker] >= Rank[base]
  \/ l.code = "state-invalid" /\ l.cat = None /\ l.mark = marker /\ marker = Bad

LEMMA LoadsFacts ==
  ASSUME ConstantsOK, TypeOK, NEW base \in Catalogs, NEW l \in Loads(base)
  PROVE  LoadKinds(l, base)
<1>1. CASE marker = Bad
  BY <1>1 DEF Loads, LoadKinds
<1>2. CASE marker # Bad
  <2>1. PICK remote \in Verified: l \in Applied(Elected(base, remote))
    BY <1>2 DEF Loads
  <2> DEFINE c == Elected(base, remote)
  <2>2. c \in Catalogs /\ Rank[c] >= Rank[base] /\ c \in {base, snapshot}
    BY VerifiedFacts DEF Elected, Ahead, ConstantsOK
  <2>3. l \in Applied(c)
    BY <2>1
  <2>4. marker \in Maybe
    BY <1>2 DEF TypeOK, OnDisk, Maybe
  <2> HIDE DEF c
  <2>5. CASE ~Newer(c, marker)
    <3>1. l = [code |-> "stale-catalog", cat |-> None, mark |-> marker]
      BY <1>2, <2>3, <2>5 DEF Applied
    <3>2. marker \in Catalogs /\ Rank[marker] >= Rank[base]
      BY <2>2, <2>4, <2>5 DEF Newer, Maybe, ConstantsOK
    <3> QED BY <3>1, <3>2 DEF LoadKinds
  <2>6. CASE Newer(c, marker)
    <3>1. l \in {[code |-> "ok", cat |-> c, mark |-> c], [code |-> "io", cat |-> None, mark |-> marker]}
      BY <1>2, <2>3, <2>6 DEF Applied
    <3> QED BY <3>1, <1>2, <2>2, <2>6 DEF LoadKinds
  <2> QED BY <2>5, <2>6
<1> QED BY <1>1, <1>2

\* What preparing the source answers, leaves on the disk and in memory
PreparedKinds(p) ==
  \/ p.code = "state-invalid" /\ p.mark = marker /\ p.source = source /\ marker \notin Catalogs
  \/ /\ p.code = "ok" /\ p.mark = marker /\ p.source = source
     /\ marker \in Catalogs /\ marker = source.accepted
  \/ /\ p.code = "ok" /\ p.mark \in Catalogs
     /\ p.source = [accepted |-> p.mark, known |-> TRUE, blocked |-> FALSE]
     /\ marker # Bad /\ (marker = None => ~source.known) /\ Newer(p.mark, marker)
     /\ Rank[p.mark] >= Rank[builtin] /\ p.mark \in {builtin, snapshot}
  \/ p.code = "io" /\ p.mark = marker /\ p.source = source
  \/ /\ p.code = "stale-catalog" /\ p.mark = marker /\ p.source = source
     /\ marker \in Catalogs /\ Rank[marker] >= Rank[builtin]

LEMMA PreparedFacts ==
  ASSUME ConstantsOK, TypeOK, NEW p \in Prepared
  PROVE  PreparedKinds(p)
<1>1. CASE marker = Bad \/ (marker = None /\ source.known)
  <2>1. p = [code |-> "state-invalid", mark |-> marker, source |-> source]
    BY <1>1 DEF Prepared
  <2> QED BY <1>1, <2>1 DEF PreparedKinds, ConstantsOK
<1>2. CASE ~(marker = Bad \/ (marker = None /\ source.known)) /\ Agrees
  <2>1. p = [code |-> "ok", mark |-> marker, source |-> source]
    BY <1>2 DEF Prepared
  <2> QED BY <1>2, <2>1 DEF PreparedKinds, Agrees
<1>3. CASE ~(marker = Bad \/ (marker = None /\ source.known)) /\ ~Agrees
  <2>1. PICK l \in Loads(builtin):
          p = [code |-> l.code, mark |-> l.mark,
               source |-> IF l.code = "ok" THEN [accepted |-> l.mark, known |-> TRUE, blocked |-> FALSE]
                                           ELSE source]
    BY <1>3 DEF Prepared
  <2>2. p.code = l.code /\ p.mark = l.mark
    BY <2>1
  <2>3. p.source = IF l.code = "ok" THEN [accepted |-> l.mark, known |-> TRUE, blocked |-> FALSE] ELSE source
    BY <2>1
  <2>4. LoadKinds(l, builtin)
    BY LoadsFacts DEF TypeOK
  <2>5. CASE l.code = "ok"
    BY <1>3, <2>2, <2>3, <2>4, <2>5 DEF LoadKinds, PreparedKinds
  <2>6. CASE l.code # "ok"
    BY <1>3, <2>2, <2>3, <2>4, <2>6 DEF LoadKinds, PreparedKinds
  <2> QED BY <2>5, <2>6
<1> QED BY <1>1, <1>2, <1>3

\* Of the barrier of activation: the snapshot counts while it may be newer than the marker
LEMMA PendingFacts ==
  ASSUME ConstantsOK, TypeOK, NEW p \in Pending
  PROVE  /\ p.cache \in Maybe
         /\ snapshot \in Catalogs /\ (Marked = None \/ Ahead(snapshot, Marked)) =>
              p.snap = snapshot \/ p.unknown
<1> Remember(snapshot) \in {snapshot, cache}
  BY DEF Remember
<1>1. CASE snapshot = None
  BY <1>1 DEF Pending, TypeOK, ConstantsOK
<1>2. CASE snapshot = Bad
  BY <1>2 DEF Pending, TypeOK, ConstantsOK
<1>3. CASE snapshot \in Catalogs
  BY <1>3 DEF Pending, TypeOK, ConstantsOK, Maybe
<1> QED BY <1>1, <1>2, <1>3 DEF TypeOK, OnDisk

-----------------------------------------------------------------------------
(* Types.                                                                  *)

RefreshType == [pc: {"idle", "fetched", "snapshot", "marker", "failed"}, cand: Maybe,
                bounds: SUBSET Catalogs, previous: OnDisk]

LEMMA EmptyTypes == NoSource \in SourceType /\ NoRefresh \in RefreshType /\ NoAsk.cat \in Maybe
BY DEF NoSource, NoRefresh, NoAsk, SourceType, RefreshType, Maybe, OnDisk

LEMMA AcceptedTypes ==
  ASSUME NEW c \in Maybe, Accepted(c)
  PROVE  source' \in SourceType /\ refresh' \in RefreshType
BY EmptyTypes DEF Accepted, SourceType

LEMMA PreparedTypes ==
  ASSUME ConstantsOK, TypeOK, NEW p \in Prepared
  PROVE  p.mark \in OnDisk /\ p.source \in SourceType
<1>1. PreparedKinds(p)
  BY PreparedFacts
<1>2. marker \in OnDisk /\ source \in SourceType
  BY DEF TypeOK, SourceType
<1>3. CASE p.source = source /\ p.mark = marker
  BY <1>2, <1>3
<1>4. CASE p.mark \in Catalogs /\ p.source = [accepted |-> p.mark, known |-> TRUE, blocked |-> FALSE]
  BY <1>4 DEF OnDisk, SourceType, Maybe
<1> QED BY <1>1, <1>3, <1>4 DEF PreparedKinds

LEMMA InitTyped == ConstantsOK /\ Init => TypeOK
<1> SUFFICES ASSUME ConstantsOK, Init PROVE TypeOK
  OBVIOUS
<1>1. source \in SourceType /\ refresh \in RefreshType
  BY EmptyTypes DEF Init
<1>2. ask \in [rev: Revisions \union {None}, cat: Maybe]
  BY DEF Init, NoAsk, Maybe
<1>3. damage \in 0 .. DamageLimit
  BY DEF ConstantsOK, Init
<1>4. builtin \in Catalogs /\ snapshot \in OnDisk /\ marker \in OnDisk /\ current \in Revisions \union {None}
  BY DEF Init, OnDisk
<1>5. alive \in BOOLEAN /\ cache \in Maybe /\ service \in Maybe /\ news \in Maybe
  BY DEF Init, Maybe
<1> QED BY <1>1, <1>2, <1>3, <1>4, <1>5 DEF TypeOK, SourceType, RefreshType

LEMMA NextTyped == ConstantsOK /\ TypeOK /\ [Next]_vars => TypeOK'
<1> SUFFICES ASSUME ConstantsOK, TypeOK, [Next]_vars PROVE TypeOK'
  OBVIOUS
<1> USE DEF TypeOK
<1>1. CASE Boot
  <2>1. PICK l \in Loads(builtin'): marker' = l.mark /\ service' = l.cat
    BY <1>1 DEF Boot
  <2>2. LoadKinds(l, builtin')
    BY <1>1, LoadsFacts DEF Boot
  <2>3. marker' \in OnDisk /\ service' \in Maybe
    BY <2>1, <2>2 DEF LoadKinds, OnDisk, Maybe
  <2> QED BY <1>1, <2>3 DEF Boot
<1>2. CASE Crash
  BY <1>2 DEF Crash, files, NoSource, NoRefresh, NoAsk, Maybe, OnDisk
<1>3. CASE Damage
  BY <1>3 DEF Damage, memory, OnDisk, ConstantsOK
<1>4. CASE RefreshFetch
  <2>1. PICK p \in Prepared, remote \in Verified:
          /\ marker' = p.mark /\ source' = p.source
          /\ \/ refresh' = refresh
             \/ \E c \in Catalogs:
                  refresh' = [NoRefresh EXCEPT !.pc = "fetched", !.cand = c, !.bounds = Constraints(p, remote)]
    BY <1>4 DEF RefreshFetch
  <2>2. marker' \in OnDisk /\ source' \in SourceType
    BY <2>1, PreparedTypes
  <2>3. Constraints(p, remote) \subseteq Catalogs
    <3>1. p.source \in SourceType /\ remote \in Maybe
      BY PreparedTypes, VerifiedFacts DEF Maybe
    <3> QED BY <3>1 DEF Constraints, SourceType, Maybe
  <2>4. refresh' \in RefreshType
    BY <2>1, <2>3 DEF NoRefresh, RefreshType, Maybe, OnDisk
  <2> QED BY <1>4, <2>2, <2>4 DEF RefreshFetch, SourceType, RefreshType
<1>5. CASE RefreshLock
  <2>1. PICK p \in Prepared:
          /\ marker' = p.mark
          /\ \/ /\ refresh' = [refresh EXCEPT !.pc = "snapshot", !.bounds = {}, !.previous = snapshot]
                /\ source' = [p.source EXCEPT !.blocked = TRUE]
             \/ refresh' = NoRefresh /\ source' = p.source
    BY <1>5 DEF RefreshLock
  <2>2. p.mark \in OnDisk /\ p.source \in SourceType
    BY PreparedTypes
  <2>3. marker' \in OnDisk /\ source' \in SourceType
    BY <2>1, <2>2 DEF SourceType
  <2>4. refresh' \in RefreshType
    BY <2>1, EmptyTypes DEF RefreshType
  <2> QED BY <1>5, <2>3, <2>4 DEF RefreshLock, SourceType, RefreshType
<1>6. CASE WriteSnapshot
  BY <1>6 DEF WriteSnapshot, Maybe, OnDisk
<1>7. CASE WriteMarker
  <2>1. refresh.cand \in Maybe
    OBVIOUS
  <2>2. source' \in SourceType /\ refresh' \in RefreshType
    BY <1>7, <2>1, AcceptedTypes DEF WriteMarker, SourceType, RefreshType
  <2>3. marker' \in OnDisk
    BY <1>7, <2>1 DEF WriteMarker, Maybe, OnDisk
  <2> QED BY <1>7, <2>2, <2>3 DEF WriteMarker, SourceType, RefreshType
<1>8. CASE Recover
  <2>1. refresh.cand \in Maybe /\ refresh.previous \in OnDisk
    OBVIOUS
  <2>2. refresh' \in RefreshType
    BY <1>8, <2>1, AcceptedTypes, EmptyTypes DEF Recover
  <2>3. source' \in SourceType
    BY <1>8, <2>1, AcceptedTypes DEF Recover, SourceType
  <2>4. snapshot' \in OnDisk /\ cache' \in Maybe
    BY <1>8, <2>1 DEF Recover, Remember
  <2> QED BY <1>8, <2>2, <2>3, <2>4 DEF Recover, SourceType, RefreshType
<1>9. CASE Publish
  <2>1. PICK p \in Prepared: /\ marker' = p.mark /\ source' = p.source
                             /\ news' = IF p.code = "ok" THEN p.source.accepted ELSE None
    BY <1>9 DEF Publish
  <2>2. p.mark \in OnDisk /\ p.source \in SourceType
    BY PreparedTypes
  <2> QED BY <1>9, <2>1, <2>2 DEF Publish, SourceType, Maybe
<1>10. CASE Accept
  BY <1>10 DEF Accept, files, Maybe
<1>11. CASE \E rev \in Revisions: Ask(rev)
  BY <1>11 DEF Ask, files
<1>12. CASE Reread
  BY <1>12 DEF Reread, files
<1>13. CASE Activate
  <2>1. PICK p \in Pending: /\ cache' = p.cache
                            /\ current' = ask.rev \/ current' = current
    BY <1>13 DEF Activate
  <2>2. cache' \in Maybe
    BY <2>1, PendingFacts
  <2> QED BY <1>13, <2>1, <2>2 DEF Activate, NoAsk, Maybe
<1>14. CASE UNCHANGED vars
  BY <1>14 DEF vars, files, memory
<1> QED
  BY <1>1, <1>2, <1>3, <1>4, <1>5, <1>6, <1>7, <1>8, <1>9, <1>10, <1>11, <1>12, <1>13, <1>14 DEF Next

\* Every variable keeps its type
THEOREM CatalogTyped == ASSUME ConstantsOK PROVE Spec => []TypeOK
<1>1. Init => TypeOK
  BY InitTyped
<1>2. TypeOK /\ [Next]_vars => TypeOK'
  BY NextTyped
<1> QED BY <1>1, <1>2, PTL DEF Spec

-----------------------------------------------------------------------------
(* The invariant.                                                          *)

\* What preparing the source keeps true, whatever it answers
PreparedSound(p) ==
  /\ p.mark = marker \/ (marker # Bad /\ p.mark \in Catalogs /\ Newer(p.mark, marker))
  /\ p.mark # marker /\ source.accepted # None => Newer(p.mark, source.accepted)
  /\ p.source.known <=> p.source.accepted # None
  /\ p.mark \in Catalogs /\ p.source.accepted # None => Newer(p.mark, p.source.accepted)
  /\ damage = 0 => /\ p.mark # Bad
                   /\ p.mark = None => p.source.accepted = None /\ service = None /\ news = None
  /\ Above(p.source.accepted)
  /\ p.code = "ok" => p.source.accepted = p.mark /\ p.mark \in Catalogs
  /\ p.code \notin {"io", "state-invalid"} => p.mark \in Catalogs /\ Rank[p.mark] >= Rank[builtin]

LEMMA PreparedIsSound ==
  ASSUME ConstantsOK, Inv, NEW p \in Prepared
  PROVE  PreparedSound(p)
<1> USE DEF Inv
<1>1. PreparedKinds(p)
  BY PreparedFacts
<1>2. source \in SourceType /\ marker \in OnDisk /\ builtin \in Catalogs
  BY DEF TypeOK, SourceType
<1>3. CASE p.source = source /\ p.mark = marker /\ p.code \in {"io", "state-invalid"}
  BY <1>3 DEF PreparedSound, KnownIsAccepted, SourceBehind, Undamaged, Floor
<1>4. CASE p.source = source /\ p.mark = marker /\ p.code = "stale-catalog"
            /\ marker \in Catalogs /\ Rank[marker] >= Rank[builtin]
  BY <1>4, <1>2 DEF PreparedSound, KnownIsAccepted, SourceBehind, Undamaged, Floor
<1>5. CASE p.source = source /\ p.mark = marker /\ p.code = "ok"
            /\ marker \in Catalogs /\ marker = source.accepted
  BY <1>5, <1>2 DEF PreparedSound, KnownIsAccepted, SourceBehind, Undamaged, Floor, Above, ConstantsOK
<1>6. CASE /\ p.code = "ok" /\ p.mark \in Catalogs
           /\ p.source = [accepted |-> p.mark, known |-> TRUE, blocked |-> FALSE]
           /\ marker # Bad /\ (marker = None => ~source.known) /\ Newer(p.mark, marker)
           /\ Rank[p.mark] >= Rank[builtin]
  <2>1. p.source.accepted = p.mark /\ p.source.known = TRUE /\ p.mark # None /\ p.mark # Bad
    BY <1>6 DEF ConstantsOK
  <2>2. source.accepted # None => Newer(p.mark, source.accepted)
    <3>1. CASE source.accepted = None
      BY <3>1
    <3>2. CASE source.accepted # None
      <4>1. marker \in Catalogs /\ source.accepted \in Maybe
        BY <1>2, <1>6, <3>2 DEF OnDisk, SourceType, KnownIsAccepted
      <4> QED BY <1>6, <3>2, <4>1, NewerTransitive DEF SourceBehind
    <3> QED BY <3>1, <3>2
  <2> QED BY <1>6, <2>1, <2>2 DEF PreparedSound, Above, Newer
<1> QED BY <1>1, <1>3, <1>4, <1>5, <1>6 DEF PreparedKinds

\* A candidate within the constraints is ahead of what is accepted and not older than the program
LEMMA ConstraintsBound ==
  ASSUME ConstantsOK, Inv, NEW p \in Prepared, p.code # "io", NEW remote \in Verified, NEW c \in Catalogs,
         \A bound \in Constraints(p, remote): Newer(c, bound)
  PROVE  /\ Newer(c, p.source.accepted) /\ (p.mark \in Catalogs => Newer(c, p.mark))
         /\ Rank[c] >= Rank[builtin]
<1>1. PreparedSound(p)
  BY PreparedIsSound
<1>2. builtin \in Catalogs
  BY DEF Inv, TypeOK
<1>3. Newer(c, p.source.accepted)
  BY DEF Constraints, Newer
<1>4. p.mark \in Catalogs => Newer(c, p.mark)
  BY DEF Constraints, ConstantsOK
<1>5. CASE p.code = "state-invalid"
  <2>1. builtin \in Constraints(p, remote)
    BY <1>2, <1>5 DEF Constraints, ConstantsOK
  <2> QED BY <1>2, <1>3, <1>4, <2>1, NewerRank
<1>6. CASE p.code # "state-invalid"
  <2>1. p.mark \in Catalogs /\ Rank[p.mark] >= Rank[builtin]
    BY <1>1, <1>6 DEF PreparedSound
  <2>2. Rank[c] >= Rank[p.mark]
    BY <1>4, <2>1, NewerRank
  <2> QED BY <1>2, <1>3, <1>4, <2>1, <2>2 DEF ConstantsOK
<1> QED BY <1>5, <1>6

LEMMA InitInv == ConstantsOK /\ Init => Inv
<1> SUFFICES ASSUME ConstantsOK, Init PROVE Inv
  OBVIOUS
<1>1. TypeOK
  BY InitTyped
<1>2. source = NoSource /\ refresh = NoRefresh /\ service = None /\ news = None /\ cache = None /\ marker = None
  BY DEF Init
<1> QED
  BY <1>1, <1>2 DEF ConstantsOK, Inv, DeadIsEmpty, KnownIsAccepted, SourceBehind, CandidateAhead, Undamaged,
                    Floor, Above, Publishing, NoSource, NoRefresh

\* A step that leaves what the invariant speaks of alone
LEMMA QuietInv ==
  ASSUME Inv, TypeOK', UNCHANGED <<builtin, marker, alive, source, cache, service, news, refresh, damage>>,
         snapshot' = snapshot
  PROVE  Inv'
BY DEF Inv, DeadIsEmpty, KnownIsAccepted, SourceBehind, CandidateAhead, Undamaged, Floor, Above, Publishing, Newer

\* A step of the source that begins no publication
LEMMA PreparedInv ==
  ASSUME ConstantsOK, Inv, TypeOK', LockFree, NEW p \in Prepared, marker' = p.mark, source' = p.source,
         UNCHANGED <<builtin, alive, cache, service, damage>>,
         news' = news \/ (news' = p.source.accepted /\ p.code = "ok"),
         refresh' = refresh \/ refresh' = NoRefresh
  PROVE  Inv'
<1>1. PreparedSound(p)
  BY PreparedIsSound
<1>2. refresh'.pc \in {"idle", "fetched"} /\ (refresh'.pc # "idle" => refresh' = refresh)
  BY DEF LockFree, NoRefresh
<1>3. DeadIsEmpty' /\ KnownIsAccepted' /\ SourceBehind'
  BY <1>1 DEF PreparedSound, LockFree, DeadIsEmpty, KnownIsAccepted, SourceBehind, Newer
<1>4. CandidateAhead'
  BY <1>2 DEF Inv, CandidateAhead, Publishing
<1>5. Undamaged'
  BY <1>1 DEF PreparedSound, Undamaged, ConstantsOK
<1>6. Floor'
  BY <1>1, <1>2 DEF Inv, Floor, Above, PreparedSound
<1> QED BY <1>3, <1>4, <1>5, <1>6 DEF Inv

LEMMA NextInv == ConstantsOK /\ Inv /\ [Next]_vars => Inv'
<1> SUFFICES ASSUME ConstantsOK, Inv, [Next]_vars PROVE Inv'
  OBVIOUS
<1>t. TypeOK /\ TypeOK'
  BY NextTyped DEF Inv
<1>1. CASE Boot
  <2>1. PICK l \in Loads(builtin'): marker' = l.mark /\ service' = l.cat
    BY <1>1 DEF Boot
  <2>2. LoadKinds(l, builtin')
    BY <1>1, <1>t, LoadsFacts DEF Boot
  <2>3. /\ source = NoSource /\ refresh = NoRefresh /\ news = None
        /\ UNCHANGED <<snapshot, source, cache, news, refresh, damage>> /\ alive'
    BY <1>1 DEF Boot, Inv, DeadIsEmpty
  <2>4. DeadIsEmpty' /\ KnownIsAccepted' /\ SourceBehind' /\ CandidateAhead'
    BY <2>3 DEF DeadIsEmpty, KnownIsAccepted, SourceBehind, CandidateAhead, Publishing, NoSource, NoRefresh
  <2>5. Undamaged'
    BY <2>1, <2>2, <2>3 DEF LoadKinds, Inv, Undamaged, NoSource, ConstantsOK
  <2>6. Floor'
    BY <2>1, <2>2, <2>3 DEF LoadKinds, Floor, Above, NoSource, NoRefresh
  <2> QED BY <1>t, <2>4, <2>5, <2>6 DEF Inv
<1>2. CASE Crash
  BY <1>2, <1>t DEF Crash, files, Inv, DeadIsEmpty, KnownIsAccepted, SourceBehind, CandidateAhead, Undamaged,
                    Floor, Above, Publishing, NoSource, NoRefresh
<1>3. CASE Damage
  <2>1. /\ refresh.pc \in {"idle", "fetched"} /\ UNCHANGED <<builtin, alive, memory>>
        /\ damage' # 0 /\ (marker' = marker \/ marker' \notin Catalogs)
    BY <1>3, <1>t DEF Damage, ConstantsOK, TypeOK
  <2> QED BY <1>t, <2>1 DEF memory, Inv, DeadIsEmpty, KnownIsAccepted, SourceBehind, CandidateAhead, Undamaged,
                    Floor, Above, Publishing, Newer
<1>4. CASE RefreshFetch
  <2>1. PICK p \in Prepared, remote \in Verified:
          /\ marker' = p.mark /\ source' = p.source
          /\ \/ refresh' = refresh
             \/ \E c \in Catalogs:
                  /\ p.code # "io"
                  /\ \A bound \in Constraints(p, remote): Newer(c, bound)
                  /\ refresh' = [NoRefresh EXCEPT !.pc = "fetched", !.cand = c,
                                                  !.bounds = Constraints(p, remote)]
    BY <1>4 DEF RefreshFetch
  <2>2. LockFree /\ UNCHANGED <<builtin, snapshot, alive, cache, service, news, damage>>
    BY <1>4 DEF RefreshFetch
  <2>3. CASE refresh' = refresh
    BY <1>t, <2>1, <2>2, <2>3, PreparedInv
  <2>4. CASE \E c \in Catalogs:
               /\ p.code # "io"
               /\ \A bound \in Constraints(p, remote): Newer(c, bound)
               /\ refresh' = [NoRefresh EXCEPT !.pc = "fetched", !.cand = c,
                                               !.bounds = Constraints(p, remote)]
    <3>1. PICK c \in Catalogs:
            /\ p.code # "io" /\ (\A bound \in Constraints(p, remote): Newer(c, bound))
            /\ refresh'.pc = "fetched" /\ refresh'.cand = c
      BY <2>4 DEF NoRefresh
    <3>2. Rank[c] >= Rank[builtin]
      BY <3>1, ConstraintsBound
    <3>3. PreparedSound(p)
      BY PreparedIsSound
    <3>4. DeadIsEmpty' /\ KnownIsAccepted' /\ SourceBehind' /\ CandidateAhead' /\ Undamaged'
      BY <2>1, <2>2, <3>1, <3>3 DEF PreparedSound, LockFree, DeadIsEmpty, KnownIsAccepted, SourceBehind,
                                    CandidateAhead, Publishing, Undamaged, Newer
    <3>5. Floor'
      BY <2>1, <2>2, <3>1, <3>2, <3>3 DEF PreparedSound, Inv, Floor, Above
    <3> QED BY <1>t, <3>4, <3>5 DEF Inv
  <2> QED BY <2>1, <2>3, <2>4
<1>5. CASE RefreshLock
  <2>1. PICK p \in Prepared, remote \in Verified:
          /\ marker' = p.mark
          /\ IF p.code # "io" /\ \A bound \in refresh.bounds \union Constraints(p, remote):
                                   Newer(refresh.cand, bound)
               THEN /\ refresh' = [refresh EXCEPT !.pc = "snapshot", !.bounds = {}, !.previous = snapshot]
                    /\ source' = [p.source EXCEPT !.blocked = TRUE]
               ELSE refresh' = NoRefresh /\ source' = p.source
    BY <1>5 DEF RefreshLock
  <2>2. LockFree /\ UNCHANGED <<builtin, snapshot, alive, cache, service, news, damage>>
    BY <1>5 DEF RefreshLock
  <2>3. CASE refresh' = NoRefresh /\ source' = p.source
    BY <1>t, <2>1, <2>2, <2>3, PreparedInv
  <2>4. CASE /\ p.code # "io" /\ (\A bound \in Constraints(p, remote): Newer(refresh.cand, bound))
             /\ refresh' = [refresh EXCEPT !.pc = "snapshot", !.bounds = {}, !.previous = snapshot]
             /\ source' = [p.source EXCEPT !.blocked = TRUE]
    <3>1. refresh.cand \in Catalogs
      BY <1>5 DEF RefreshLock, Inv, CandidateAhead
    <3>2. /\ Newer(refresh.cand, p.source.accepted) /\ (p.mark \in Catalogs => Newer(refresh.cand, p.mark))
          /\ Rank[refresh.cand] >= Rank[builtin]
      BY <2>4, <3>1, ConstraintsBound
    <3>3. PreparedSound(p)
      BY PreparedIsSound
    <3>4. refresh'.pc = "snapshot" /\ refresh'.cand = refresh.cand
      BY <1>t, <2>4 DEF TypeOK
    <3>5. source'.accepted = p.source.accepted /\ source'.known = p.source.known
      BY <1>t, <2>4, PreparedTypes DEF SourceType
    <3>6. DeadIsEmpty' /\ KnownIsAccepted' /\ SourceBehind' /\ Undamaged'
      BY <2>1, <2>2, <3>3, <3>5 DEF PreparedSound, LockFree, DeadIsEmpty, KnownIsAccepted, SourceBehind,
                                    Undamaged, Newer
    <3>7. CandidateAhead'
      BY <2>1, <3>1, <3>2, <3>4, <3>5 DEF CandidateAhead, Publishing, Newer
    <3>8. Floor'
      BY <2>2, <3>2, <3>3, <3>4, <3>5 DEF PreparedSound, Inv, Floor, Above
    <3> QED BY <1>t, <3>6, <3>7, <3>8 DEF Inv
  <2> QED BY <2>1, <2>3, <2>4
<1>6. CASE WriteSnapshot
  <2>1. /\ alive /\ refresh.pc = "snapshot" /\ refresh'.pc \in {"marker", "failed"}
        /\ refresh'.cand = refresh.cand /\ (refresh'.pc = "marker" => snapshot' = refresh.cand)
        /\ UNCHANGED <<builtin, marker, alive, source, cache, service, news, damage>>
    BY <1>6, <1>t DEF WriteSnapshot, TypeOK
  <2> QED BY <1>t, <2>1 DEF Inv, DeadIsEmpty, KnownIsAccepted, SourceBehind, CandidateAhead, Undamaged,
                    Floor, Above, Publishing, Newer
<1>7. CASE WriteMarker
  <2>1. /\ alive /\ refresh.pc = "marker" /\ refresh.cand \in Catalogs
        /\ Newer(refresh.cand, source.accepted)
        /\ UNCHANGED <<builtin, snapshot, alive, cache, service, news, damage>>
    BY <1>7 DEF WriteMarker, Inv, CandidateAhead, Publishing
  <2>2. CASE marker' = refresh.cand /\ Accepted(refresh.cand)
    BY <1>t, <2>1, <2>2 DEF Accepted, NoRefresh, Inv, DeadIsEmpty, KnownIsAccepted, SourceBehind, CandidateAhead,
                    Undamaged, Floor, Above, Publishing, Newer, ConstantsOK
  <2>3. CASE marker' \in {marker, refresh.cand} /\ refresh' = [refresh EXCEPT !.pc = "failed"] /\ UNCHANGED source
    <3>1. refresh'.pc = "failed" /\ refresh'.cand = refresh.cand
      BY <1>t, <2>3 DEF TypeOK
    <3> QED
      BY <1>t, <2>1, <2>3, <3>1 DEF Inv, DeadIsEmpty, KnownIsAccepted, SourceBehind, CandidateAhead,
                    Undamaged, Floor, Above, Publishing, Newer, ConstantsOK
  <2> QED BY <1>7, <2>2, <2>3 DEF WriteMarker
<1>8. CASE Recover
  <2>1. /\ alive /\ refresh.pc = "failed" /\ refresh.cand \in Catalogs /\ refresh' = NoRefresh
        /\ UNCHANGED <<builtin, marker, alive, service, news, damage>>
    BY <1>8 DEF Recover, Accepted, Inv, CandidateAhead
  <2>2. CASE marker = refresh.cand /\ Accepted(refresh.cand)
    BY <1>t, <2>1, <2>2 DEF Accepted, NoRefresh, Inv, DeadIsEmpty, KnownIsAccepted, SourceBehind, CandidateAhead,
                    Undamaged, Floor, Above, Publishing, Newer, ConstantsOK
  <2>3. CASE source'.accepted = source.accepted /\ source'.known = source.known
    BY <1>t, <2>1, <2>3 DEF NoRefresh, Inv, DeadIsEmpty, KnownIsAccepted, SourceBehind, CandidateAhead,
                    Undamaged, Floor, Above, Publishing, Newer
  <2> QED BY <1>8, <1>t, <2>2, <2>3 DEF Recover, TypeOK
<1>9. CASE Publish
  <2>1. PICK p \in Prepared: /\ marker' = p.mark /\ source' = p.source
                             /\ news' = IF p.code = "ok" THEN p.source.accepted ELSE None
    BY <1>9 DEF Publish
  <2>2. LockFree /\ news = None /\ UNCHANGED <<builtin, alive, cache, service, refresh, damage>>
    BY <1>9 DEF Publish
  <2>3. news' = news \/ (news' = p.source.accepted /\ p.code = "ok")
    BY <2>1, <2>2
  <2> QED BY <1>t, <2>1, <2>2, <2>3, PreparedInv
<1>10. CASE Accept
  BY <1>10, <1>t DEF Accept, LockFree, files, Inv, DeadIsEmpty, KnownIsAccepted, SourceBehind, CandidateAhead,
                    Undamaged, Floor, Above, Publishing, Newer
<1>11. CASE (\E rev \in Revisions: Ask(rev)) \/ Reread
  BY <1>11, <1>t, QuietInv DEF Ask, Reread, files
<1>12. CASE Activate
  BY <1>12, <1>t DEF Activate, LockFree, Inv, DeadIsEmpty, KnownIsAccepted, SourceBehind, CandidateAhead,
                    Undamaged, Floor, Above, Publishing, Newer
<1>13. CASE UNCHANGED vars
  BY <1>13, <1>t, QuietInv DEF vars, files, memory
<1> QED
  BY <1>1, <1>2, <1>3, <1>4, <1>5, <1>6, <1>7, <1>8, <1>9, <1>10, <1>11, <1>12, <1>13 DEF Next

LEMMA Invariance == ASSUME ConstantsOK PROVE Spec => []Inv
<1>1. Init => Inv
  BY InitInv
<1>2. Inv /\ [Next]_vars => Inv'
  BY NextInv
<1> QED BY <1>1, <1>2, PTL DEF Spec

-----------------------------------------------------------------------------
(* The marker never goes back.                                             *)

LEMMA StepAhead == ConstantsOK /\ Inv /\ [Next]_vars => MarkerAhead
<1> SUFFICES ASSUME ConstantsOK, Inv, [Next]_vars PROVE MarkerAhead
  OBVIOUS
<1> DEFINE Moved == marker' # marker /\ marker' \in Catalogs =>
                      /\ marker \in Catalogs => Newer(marker', marker)
                      /\ source.accepted # None => Newer(marker', source.accepted)
<1>1. SUFFICES Moved
  <2>1. marker \in OnDisk
    BY DEF Inv, TypeOK
  <2> QED BY <2>1 DEF MarkerAhead, OnDisk
<1>2. CASE Boot
  <2>1. PICK l \in Loads(builtin'): marker' = l.mark
    BY <1>2 DEF Boot
  <2>2. LoadKinds(l, builtin')
    BY <1>2, LoadsFacts DEF Boot, Inv
  <2>3. source.accepted = None
    BY <1>2 DEF Boot, Inv, DeadIsEmpty, NoSource
  <2> QED BY <2>1, <2>2, <2>3 DEF LoadKinds
<1>3. CASE RefreshFetch \/ RefreshLock \/ Publish
  <2>1. PICK p \in Prepared: marker' = p.mark
    BY <1>3 DEF RefreshFetch, RefreshLock, Publish
  <2>2. PreparedSound(p)
    BY PreparedIsSound
  <2> QED BY <2>1, <2>2 DEF PreparedSound
<1>4. CASE WriteMarker
  <2>1. marker' \in {marker, refresh.cand} /\ refresh.pc = "marker"
    BY <1>4 DEF WriteMarker
  <2> QED BY <2>1 DEF Inv, CandidateAhead, Publishing
<1>5. CASE Damage
  BY <1>5 DEF Damage, ConstantsOK
<1>6. CASE Crash \/ WriteSnapshot \/ Recover \/ Accept \/ (\E rev \in Revisions: Ask(rev)) \/ Reread \/ Activate
  BY <1>6 DEF Crash, WriteSnapshot, Recover, Accept, Ask, Reread, Activate, files
<1>7. CASE UNCHANGED vars
  BY <1>7 DEF vars, files
<1> QED BY <1>2, <1>3, <1>4, <1>5, <1>6, <1>7 DEF Next

\* The mark of the accepted catalogue never goes back, neither behind the mark on the disk nor
\* behind what memory accepted, under any damage
THEOREM MarkNeverGoesBack == ASSUME ConstantsOK PROVE Spec => NeverBack
<1>1. Inv /\ [Next]_vars => [MarkerAhead]_vars
  BY StepAhead
<1> QED BY <1>1, Invariance, PTL DEF Spec, NeverBack

-----------------------------------------------------------------------------
(* Without damage: the ratchet.                                            *)

LEMMA RatchetStep ==
  ASSUME ConstantsOK, DamageLimit = 0, Inv, [Next]_vars
  PROVE  [Ratchet!Next]_<<marker, current>>
<1> DEFINE Goal == [Ratchet!Next]_<<marker, current>>
<1>0. damage = 0
  BY DEF Inv, TypeOK
<1>1. ASSUME current' = current, marker' \in Catalogs, Newer(marker', marker) PROVE Goal
  BY <1>1 DEF Newer, Ratchet!Next, Ratchet!Forward
<1>2. CASE Boot
  <2>1. PICK l \in Loads(builtin'): marker' = l.mark
    BY <1>2 DEF Boot
  <2>2. LoadKinds(l, builtin')
    BY <1>2, LoadsFacts DEF Boot, Inv
  <2>3. current' = current
    BY <1>2 DEF Boot
  <2> QED BY <1>1, <2>1, <2>2, <2>3 DEF LoadKinds
<1>3. CASE RefreshFetch \/ RefreshLock \/ Publish
  <2>1. PICK p \in Prepared: marker' = p.mark
    BY <1>3 DEF RefreshFetch, RefreshLock, Publish
  <2>2. PreparedSound(p)
    BY PreparedIsSound
  <2>3. current' = current
    BY <1>3 DEF RefreshFetch, RefreshLock, Publish
  <2> QED BY <1>1, <2>1, <2>2, <2>3 DEF PreparedSound
<1>4. CASE WriteMarker
  <2>1. marker' \in {marker, refresh.cand} /\ refresh.pc = "marker" /\ current' = current
    BY <1>4 DEF WriteMarker
  <2>2. CASE marker' = marker
    BY <2>1, <2>2
  <2>3. CASE marker' = refresh.cand
    <3>1. refresh.cand \in Catalogs /\ (marker \in Catalogs => Newer(refresh.cand, marker))
      BY <2>1 DEF Inv, CandidateAhead, Publishing
    <3>2. marker \in Catalogs \/ marker = None
      BY <1>0 DEF Inv, Undamaged, TypeOK, OnDisk
    <3> QED BY <1>1, <2>1, <2>3, <3>1, <3>2 DEF Newer
  <2> QED BY <2>1, <2>2, <2>3
<1>5. CASE Damage
  BY <1>5, <1>0 DEF Damage
<1>6. CASE Activate
  <2>1. marker' = marker
    BY <1>6 DEF Activate
  <2>2. CASE current' = current
    BY <2>1, <2>2
  <2>3. CASE current' # current
    <3>1. PICK p \in Pending: ask.cat # None /\ Cleared(ask.rev, ask.cat, p) /\ current' = ask.rev
      BY <1>6, <2>3 DEF Activate
    <3>2. ask.rev \in Revisions /\ ask.cat = service /\ LockFree
      BY <1>6, <3>1 DEF Activate, Inv, TypeOK
    <3>3. marker \in Catalogs
      BY <1>0, <3>1, <3>2 DEF Inv, Undamaged, TypeOK, OnDisk
    <3>4. ask.rev \notin Revokes[marker]
      BY <3>1, <3>3 DEF Cleared, Consulted, Marked, ConstantsOK
    <3> QED BY <2>1, <3>1, <3>2, <3>3, <3>4 DEF Ratchet!Next, Ratchet!Choose, ConstantsOK
  <2> QED BY <2>2, <2>3
<1>7. CASE Crash \/ WriteSnapshot \/ Recover \/ Accept \/ (\E rev \in Revisions: Ask(rev)) \/ Reread
  BY <1>7 DEF Crash, WriteSnapshot, Recover, Accept, Ask, Reread, files
<1>8. CASE UNCHANGED vars
  BY <1>8 DEF vars, files
<1> QED BY <1>2, <1>3, <1>4, <1>5, <1>6, <1>7, <1>8 DEF Next

\* As long as no file is damaged, the files, the memory and the threads with all their crashes
\* and failed writes implement the ratchet: the accepted catalogue only moves forward, and a
\* revision it revokes is never made the working one
THEOREM CatalogIsRatchet == ASSUME ConstantsOK, DamageLimit = 0 PROVE Spec => IsRatchet
<1>1. Init => Ratchet!Init
  BY DEF Init, Ratchet!Init
<1>2. Inv /\ [Next]_vars => [Ratchet!Next]_<<marker, current>>
  BY RatchetStep
<1> QED BY <1>1, <1>2, Invariance, PTL DEF Spec, IsRatchet, Ratchet!Spec

-----------------------------------------------------------------------------
(* With at most one damaged file: what was accepted survives elsewhere.    *)

Watched == {marker, source.accepted} \intersect Catalogs

LEMMA InitSurvives == ConstantsOK /\ Init => Survives
BY DEF ConstantsOK, Init, Survives, NoSource

\* A step that changes neither what is watched nor where it is known
LEMMA QuietSurvives ==
  ASSUME Survives, marker' = marker, source'.accepted = source.accepted, service' = service, news' = news,
         snapshot' = snapshot, refresh' = refresh \/ ~Publishing', damage' = damage
  PROVE  Survives'
BY DEF Survives, Kept, AtLeast, Publishing

\* A step of the source that begins no publication, or the one that begins it
LEMMA PreparedSurvives ==
  ASSUME ConstantsOK, Inv, Inv', Survives, LockFree, NEW p \in Prepared, marker' = p.mark,
         source'.accepted = p.source.accepted, UNCHANGED <<snapshot, service, damage>>,
         news' = news \/ (news' = p.source.accepted /\ p.code = "ok"),
         refresh'.pc \in {"idle", "fetched"} \/ refresh'.previous = snapshot
  PROVE  Survives'
<1> SUFFICES ASSUME damage' = 0 \/ marker' \notin Catalogs, NEW x \in Watched' PROVE Kept(x, snapshot)'
  BY DEF Survives, Watched, Kept, AtLeast, Publishing
<1>1. PreparedKinds(p) /\ PreparedSound(p)
  BY PreparedFacts, PreparedIsSound DEF Inv
<1>2. damage = 0 \/ marker \notin Catalogs
  BY <1>1 DEF PreparedSound
<1>3. x \in Catalogs /\ x \in {p.mark, p.source.accepted}
  BY DEF Watched
<1>4. service \in Maybe /\ builtin \in Catalogs /\ snapshot \in OnDisk
  BY DEF Inv, TypeOK
<1>5. Kept(x, snapshot)
  <2>1. CASE x \in {marker, source.accepted}
    BY <1>2, <1>3, <2>1 DEF Survives
  <2>2. CASE x \notin {marker, source.accepted}
    <3>1. x \in {builtin, snapshot}
      BY <1>1, <1>3, <2>2 DEF PreparedKinds
    <3>2. CASE x = snapshot
      BY <1>3, <3>2 DEF Kept, AtLeast, ConstantsOK
    <3>3. CASE x = builtin
      BY <1>3, <3>3 DEF Kept, AtLeast, ConstantsOK, Inv, Floor, Above, TypeOK, Maybe
    <3> QED BY <3>1, <3>2, <3>3
  <2> QED BY <2>1, <2>2
<1>6. CASE news' = news
  BY <1>5, <1>6 DEF Kept, AtLeast
<1>7. CASE news' = p.source.accepted /\ p.code = "ok"
  <2>1. news' = x
    BY <1>1, <1>3, <1>7 DEF PreparedSound
  <2> QED BY <1>3, <1>5, <2>1 DEF Kept, AtLeast, ConstantsOK
<1> QED BY <1>6, <1>7

LEMMA NextSurvives ==
  ASSUME ConstantsOK, DamageLimit <= 1, Inv, Inv', Survives, [Next]_vars
  PROVE  Survives'
<1>t. TypeOK
  BY DEF Inv
<1>1. CASE Boot
  <2>1. PICK l \in Loads(builtin'): marker' = l.mark /\ service' = l.cat
    BY <1>1 DEF Boot
  <2>2. LoadKinds(l, builtin')
    BY <1>1, <1>t, LoadsFacts DEF Boot
  <2>3. source'.accepted = None /\ news' = None /\ ~Publishing'
    BY <1>1 DEF Boot, Inv, DeadIsEmpty, NoSource, NoRefresh, Publishing
  <2> QED BY <2>1, <2>2, <2>3 DEF LoadKinds, Survives, Kept, AtLeast, ConstantsOK
<1>2. CASE Crash
  BY <1>2 DEF Crash, files, Survives, Kept, AtLeast, Publishing, NoRefresh
<1>3. CASE Damage
  <2>1. /\ refresh.pc \in {"idle", "fetched"} /\ UNCHANGED <<source, service, news, refresh>>
        /\ damage = 0 /\ damage' = 1
    BY <1>3, <1>t DEF Damage, memory, ConstantsOK, TypeOK
  <2>2. CASE marker' \notin Catalogs /\ UNCHANGED snapshot
    BY <2>1, <2>2 DEF Survives, Kept, AtLeast, Publishing
  <2>3. CASE marker \in Catalogs /\ UNCHANGED marker
    BY <2>1, <2>3 DEF Survives
  <2>4. CASE marker \notin Catalogs /\ UNCHANGED marker
    <3>1. marker = None
      BY <1>t, <2>1, <2>4 DEF Inv, Undamaged, TypeOK, OnDisk
    <3> QED BY <2>1, <2>4, <3>1 DEF Inv, Undamaged, Survives, ConstantsOK
  <2> QED BY <1>3, <2>2, <2>3, <2>4 DEF Damage, ConstantsOK
<1>4. CASE RefreshFetch
  <2>1. PICK p \in Prepared: /\ marker' = p.mark /\ source' = p.source
                             /\ refresh' = refresh \/ refresh'.pc = "fetched"
    BY <1>4 DEF RefreshFetch, NoRefresh
  <2>2. LockFree /\ UNCHANGED <<snapshot, service, news, damage>> /\ refresh'.pc \in {"idle", "fetched"}
    BY <1>4, <2>1 DEF RefreshFetch, LockFree
  <2> QED BY <2>1, <2>2, PreparedSurvives
<1>5. CASE RefreshLock
  <2>1. PICK p \in Prepared:
          /\ marker' = p.mark
          /\ \/ /\ refresh' = [refresh EXCEPT !.pc = "snapshot", !.bounds = {}, !.previous = snapshot]
                /\ source' = [p.source EXCEPT !.blocked = TRUE]
             \/ refresh' = NoRefresh /\ source' = p.source
    BY <1>5 DEF RefreshLock
  <2>2. LockFree /\ UNCHANGED <<snapshot, service, news, damage>>
    BY <1>5 DEF RefreshLock
  <2>3. source'.accepted = p.source.accepted
    BY <1>t, <2>1, PreparedTypes DEF SourceType
  <2>4. refresh'.pc \in {"idle", "fetched"} \/ refresh'.previous = snapshot
    <3>1. refresh \in RefreshType
      BY <1>t DEF TypeOK, RefreshType
    <3>2. NoRefresh.pc = "idle"
      BY DEF NoRefresh
    <3> QED BY <2>1, <3>1, <3>2 DEF RefreshType
  <2> QED BY <2>1, <2>2, <2>3, <2>4, PreparedSurvives
<1>6. CASE WriteSnapshot
  <2>1. /\ refresh.pc = "snapshot" /\ refresh'.cand = refresh.cand /\ refresh'.previous = refresh.previous
        /\ snapshot' \in {snapshot, refresh.cand} /\ refresh.cand \in Catalogs
        /\ UNCHANGED <<marker, source, service, news, damage>>
    BY <1>6, <1>t DEF WriteSnapshot, TypeOK, Inv, CandidateAhead
  <2>2. \A x \in Watched: Rank[refresh.cand] >= Rank[x]
    BY <2>1, NewerRank, <1>t DEF Watched, Inv, CandidateAhead, Publishing
  <2>3. Publishing
    BY <2>1 DEF Publishing
  <2>4. \A x \in Watched: damage = 0 \/ marker \notin Catalogs => Kept(x, snapshot)'
    BY <2>1, <2>2 DEF Watched, Survives, Kept, AtLeast
  <2>5. \A x \in Watched: (damage = 0 \/ marker \notin Catalogs) /\ marker # refresh.cand
                           => Kept(x, refresh.previous)'
    BY <2>1, <2>3 DEF Watched, Survives, Kept, AtLeast
  <2> QED BY <2>1, <2>4, <2>5 DEF Watched, Survives
<1>7. CASE WriteMarker
  <2>1. /\ refresh.pc = "marker" /\ snapshot = refresh.cand /\ refresh.cand \in Catalogs
        /\ marker' \in {marker, refresh.cand} /\ source'.accepted \in {source.accepted, refresh.cand}
        /\ UNCHANGED <<snapshot, service, news, damage>>
    BY <1>7 DEF WriteMarker, Accepted, Inv, CandidateAhead
  <2>2. \/ ~Publishing' 
        \/ refresh'.cand = refresh.cand /\ refresh'.previous = refresh.previous /\ source'.accepted = source.accepted
    BY <1>7, <1>t DEF WriteMarker, Accepted, NoRefresh, Publishing, TypeOK
  <2>3. Publishing
    BY <2>1 DEF Publishing
  <2>4. \A x \in Watched \union {refresh.cand}: Rank[snapshot] >= Rank[x]
    BY <2>1, <2>3, NewerRank, <1>t DEF Watched, Inv, CandidateAhead, ConstantsOK
  <2>5. \A x \in Watched': Kept(x, snapshot)'
    <3>1. Watched' \subseteq Watched \union {refresh.cand}
      BY <2>1 DEF Watched
    <3> QED BY <2>1, <2>4, <3>1 DEF Kept, AtLeast
  <2>6. ASSUME Publishing', (marker # refresh.cand)', damage' = 0 \/ marker' \notin Catalogs
        PROVE  \A x \in Watched': Kept(x, refresh.previous)'
    <3>1. marker' = marker /\ Watched' = Watched /\ refresh'.previous = refresh.previous
      BY <2>1, <2>2, <2>6 DEF Watched
    <3>2. \A x \in Watched: Kept(x, refresh.previous)
      BY <2>1, <2>2, <2>3, <2>6, <3>1 DEF Watched, Survives
    <3> QED BY <2>1, <3>1, <3>2 DEF Kept, AtLeast
  <2> QED BY <2>5, <2>6 DEF Watched, Survives
<1>8. CASE Recover
  <2>1. /\ refresh.pc = "failed" /\ refresh' = NoRefresh /\ ~Publishing'
        /\ UNCHANGED <<marker, service, news, damage>>
    BY <1>8 DEF Recover, Accepted, Publishing, NoRefresh
  <2>2. Publishing
    BY <2>1 DEF Publishing
  <2>3. CASE marker = refresh.cand
    <3>1. source'.accepted = marker /\ snapshot' = snapshot
      BY <1>8, <2>3 DEF Recover, Accepted
    <3> QED BY <2>1, <3>1 DEF Survives, Kept, AtLeast
  <2>4. CASE marker # refresh.cand
    <3>1. source'.accepted = source.accepted /\ snapshot' \in {snapshot, refresh.previous}
      BY <1>8, <1>t, <2>4 DEF Recover, TypeOK
    <3> QED BY <2>1, <2>2, <2>4, <3>1 DEF Survives, Kept, AtLeast
  <2> QED BY <2>3, <2>4
<1>9. CASE Publish
  <2>1. PICK p \in Prepared: /\ marker' = p.mark /\ source' = p.source
                             /\ news' = IF p.code = "ok" THEN p.source.accepted ELSE None
    BY <1>9 DEF Publish
  <2>2. LockFree /\ news = None /\ UNCHANGED <<snapshot, service, refresh, damage>>
    BY <1>9 DEF Publish
  <2>3. refresh'.pc \in {"idle", "fetched"}
    BY <2>2 DEF LockFree
  <2>4. news' = news \/ (news' = p.source.accepted /\ p.code = "ok")
    BY <2>1, <2>2
  <2> QED BY <2>1, <2>2, <2>3, <2>4, PreparedSurvives
<1>10. CASE Accept
  <2>1. /\ service' = news /\ news # None /\ news' = None
        /\ UNCHANGED <<snapshot, marker, source, refresh, damage>>
        /\ ~Publishing'
    BY <1>10 DEF Accept, files, LockFree, Publishing
  <2> QED BY <2>1 DEF Survives, Kept, AtLeast
<1>11. CASE (\E rev \in Revisions: Ask(rev)) \/ Reread \/ Activate
  BY <1>11, QuietSurvives DEF Ask, Reread, Activate, files
<1>12. CASE UNCHANGED vars
  BY <1>12, QuietSurvives DEF vars, files, memory
<1> QED
  BY <1>1, <1>2, <1>3, <1>4, <1>5, <1>6, <1>7, <1>8, <1>9, <1>10, <1>11, <1>12 DEF Next

\* The barrier consults a catalogue that is as new as the newest one
LEMMA StepChoosesUnrevoked ==
  ASSUME ConstantsOK, RanksDiffer, Inv, Survives, [Next]_vars
  PROVE  ChoosesUnrevoked
<1>1. CASE Activate
  <2> SUFFICES ASSUME NEW rev \in Revisions, current # rev, current' = rev, NEW c \in Newest
               PROVE  rev \notin Revokes[c]
    BY DEF ChoosesUnrevoked
  <2>1. PICK p \in Pending: ask.cat # None /\ Cleared(rev, ask.cat, p)
    BY <1>1 DEF Activate
  <2>2. ask.cat = service /\ service \in Catalogs /\ marker # Bad /\ ~p.unknown
    BY <1>1, <2>1 DEF Activate, Cleared, Inv, TypeOK, Maybe
  <2>3. \A d \in Consulted(p, service): rev \notin Revokes[d]
    BY <2>1, <2>2 DEF Cleared
  <2>4. c \in Catalogs /\ c \in Held /\ \A d \in Held \intersect Catalogs: Rank[c] >= Rank[d]
    BY DEF Newest, Ahead, ConstantsOK
  <2>5. \A d \in Held \intersect Catalogs: Rank[d] >= Rank[c] => d = c
    BY <2>4 DEF RanksDiffer, ConstantsOK
  <2>6. CASE c = service
    BY <2>2, <2>3, <2>6 DEF Consulted, ConstantsOK
  <2>7. CASE c = marker
    BY <2>3, <2>4, <2>7 DEF Consulted, Marked, ConstantsOK
  <2>8. CASE c = cache
    <3>1. CASE Marked = None \/ Ahead(cache, Marked)
      BY <2>3, <2>4, <2>8, <3>1 DEF Consulted, CachedPending, ConstantsOK
    <3>2. CASE Marked # None /\ ~Ahead(cache, Marked)
      <4>1. marker \in Catalogs /\ Marked = marker /\ marker \in Held
        BY <3>2 DEF Marked, Held
      <4>2. Rank[marker] >= Rank[c]
        BY <2>4, <2>8, <3>2, <4>1 DEF Ahead, ConstantsOK
      <4> QED BY <2>5, <2>7, <4>1, <4>2
    <3> QED BY <3>1, <3>2
  <2>9. CASE c = snapshot /\ (Marked = None \/ Ahead(snapshot, Marked))
    <3>1. p.snap = snapshot
      BY <2>2, <2>4, <2>9, PendingFacts DEF Inv
    <3> QED BY <2>3, <2>4, <2>9, <3>1 DEF Consulted, ConstantsOK
  <2>10. CASE c = source.accepted
    <3>1. CASE marker \in Catalogs
      <4>1. marker \in Held /\ Rank[marker] >= Rank[c]
        BY <2>4, <2>10, <3>1, NewerRank DEF Inv, SourceBehind, Held, ConstantsOK
      <4> QED BY <2>5, <2>7, <3>1, <4>1
    <3>2. CASE marker \notin Catalogs
      <4>1. Kept(c, snapshot)
        BY <2>4, <2>10, <3>2 DEF Survives
      <4>2. AtLeast(service, c) \/ AtLeast(snapshot, c)
        BY <2>2, <4>1 DEF Kept, ConstantsOK
      <4>3. CASE AtLeast(service, c)
        BY <2>5, <2>6, <4>3 DEF AtLeast, Held
      <4>4. CASE AtLeast(snapshot, c)
        <5>1. Marked = None /\ snapshot \in Held /\ snapshot = c
          BY <2>5, <3>2, <4>4 DEF Marked, Held, AtLeast
        <5> QED BY <2>9, <5>1
      <4> QED BY <4>2, <4>3, <4>4
    <3> QED BY <3>1, <3>2
  <2>11. c \in {marker, service, cache, source.accepted} \/ (c = snapshot /\ (Marked = None \/ Ahead(snapshot, Marked)))
    BY <2>4 DEF Held
  <2> QED BY <2>6, <2>7, <2>8, <2>9, <2>10, <2>11
<1>2. CASE current' = current
  BY <1>2 DEF ChoosesUnrevoked
<1>3. CASE Boot \/ Crash \/ Damage \/ RefreshFetch \/ RefreshLock \/ WriteSnapshot \/ WriteMarker \/ Recover
           \/ Publish \/ Accept \/ (\E rev \in Revisions: Ask(rev)) \/ Reread \/ UNCHANGED vars
  BY <1>2, <1>3 DEF Boot, Crash, Damage, RefreshFetch, RefreshLock, WriteSnapshot, WriteMarker, Recover,
                    Publish, Accept, Ask, Reread, vars, files
<1> QED BY <1>1, <1>3 DEF Next

\* With at most one file damaged or lost, and catalogues told apart by their rank, the mark never
\* goes back and a revision becomes the working one only if the newest catalogue that any part
\* of the program holds does not revoke it
THEOREM RevocationsStand ==
  ASSUME ConstantsOK, RanksDiffer, DamageLimit <= 1
  PROVE  Spec => RevocationsHold
<1>1. Init => Survives
  BY InitSurvives
<1>2. Inv /\ Inv' /\ Survives /\ [Next]_vars => Survives'
  BY NextSurvives
<1>3. Inv /\ Survives /\ [Next]_vars => [ChoosesUnrevoked]_vars
  BY StepChoosesUnrevoked
<1>4. Spec => []Survives
  BY <1>1, <1>2, Invariance, PTL DEF Spec
<1>5. Spec => RevokedNeverActivated
  BY <1>3, <1>4, Invariance, PTL DEF Spec, RevokedNeverActivated
<1> QED BY <1>5, MarkNeverGoesBack DEF RevocationsHold
===============================================================================
