----------------------------- MODULE CatalogTrust -----------------------------
(***************************************************************************)
(* The catalogue of models and its protection against going back.  On disk: *)
(* the catalogue built into the program, the last one fetched (snapshot)    *)
(* and the mark of the accepted one (marker, catalog-state.json), which     *)
(* also holds its revocations.  In memory: what CatalogUpdateSource         *)
(* accepted, the cache of a verified snapshot, and the catalogue the model  *)
(* service answers from.  A background thread fetches, another activates a  *)
(* revision; CATALOG_LOCK is held while the fetching thread publishes, so   *)
(* everything else that takes it is one step.  The process may die between  *)
(* any two writes, and a file may be damaged from outside.                  *)
(***************************************************************************)
EXTENDS Naturals, FiniteSets

CONSTANTS
  Catalogs,     \* signed catalogues
  Rank,         \* Rank[c]: (trust_epoch, serial); two catalogues may share it
  Revisions,    \* revisions of models
  Revokes,      \* Revokes[c]: the revisions catalogue c revokes
  None, Bad,    \* no file or no value; a file that cannot be read
  DamageLimit   \* bound: how many times a file is damaged or lost

\* What is assumed of the constants.  The instances of this module check it
ConstantsOK ==
  /\ \A c \in Catalogs: Rank[c] \in Nat
  /\ None \notin Catalogs \union Revisions /\ Bad \notin Catalogs /\ None # Bad
  /\ DamageLimit \in Nat

\* The publisher gives no two catalogues the same pair (trust_epoch, serial)
RanksDiffer == \A c, d \in Catalogs: Rank[c] = Rank[d] => c = d

VARIABLES
  builtin,    \* the catalogue of the installed program; a restart may bring another program
  snapshot,   \* catalog-snapshot.json
  marker,     \* catalog-state.json
  current,    \* current.json: the working revision
  alive,      \* the process runs
  source,     \* CatalogUpdateSource: [accepted, known (_initialized), blocked]
  cache,      \* _snapshot_cache, its positive part
  service,    \* ModelService._catalog, None for _catalog_error
  news,       \* a catalogue posted to the GUI, not yet accepted there
  refresh,    \* the fetching thread: [pc, cand, bounds, previous]
  ask,        \* the activating thread: [rev, cat] once it has read the provider
  damage      \* how many times a file was damaged

files == <<builtin, snapshot, marker, current>>
memory == <<source, cache, service, news, refresh, ask>>
vars == <<files, alive, memory, damage>>

Maybe == Catalogs \union {None}
OnDisk == Catalogs \union {None, Bad}
NoSource == [accepted |-> None, known |-> FALSE, blocked |-> FALSE]
NoRefresh == [pc |-> "idle", cand |-> None, bounds |-> {}, previous |-> None]
NoAsk == [rev |-> None, cat |-> None]

LockFree == alive /\ refresh.pc \in {"idle", "fetched"}

-----------------------------------------------------------------------------
(* Comparing and reading.                                                  *)

\* Mutant: of an equal pair other bytes are taken for the same catalogue
NewerByRank(c, bound) == bound = None \/ Rank[c] >= Rank[bound]

\* is_newer: an equal pair must be the same bytes
Newer(c, bound) == bound = None \/ Rank[c] > Rank[bound] \/ c = bound
Ahead(c, d) == Rank[c] > Rank[d]

\* verify_catalog of the snapshot; gpgv may be missing, slow or cancelled
Verified == IF snapshot \in Catalogs THEN {snapshot, None} ELSE {None}

\* load_effective: the older of two verified candidates never wins; of two equal ones the
\* marker decides
Elected(base, remote) ==
  IF remote # None /\ (Ahead(remote, base) \/ (Rank[remote] = Rank[base] /\ marker = remote))
    THEN remote ELSE base

\* apply_state: what accepting c leaves on disk and answers
Applied(c) ==
  IF ~Newer(c, IF marker = Bad THEN None ELSE marker)
    THEN {[code |-> "stale-catalog", cat |-> None, mark |-> marker]}
    ELSE {[code |-> "ok", cat |-> c, mark |-> c], [code |-> "io", cat |-> None, mark |-> marker]}

Loads(base) ==
  IF marker = Bad
    THEN {[code |-> "state-invalid", cat |-> None, mark |-> marker]}
    ELSE UNION {Applied(Elected(base, remote)): remote \in Verified}

\* _prepare: nothing to do while marker and memory agree
Agrees == source.known /\ ~source.blocked /\ marker \in Catalogs /\ marker = source.accepted
Prepared ==
  IF marker = Bad \/ (marker = None /\ source.known)
    THEN {[code |-> "state-invalid", mark |-> marker, source |-> source]}
  ELSE IF Agrees
    THEN {[code |-> "ok", mark |-> marker, source |-> source]}
  ELSE {[code |-> l.code, mark |-> l.mark,
         source |-> IF l.code = "ok" THEN [accepted |-> l.mark, known |-> TRUE, blocked |-> FALSE]
                                     ELSE source]: l \in Loads(builtin)}

\* _refresh_constraints: a marker that is lost or damaged is replaced by all that survives it
Constraints(p, remote) ==
  ({source.accepted, p.source.accepted}
     \union (IF p.mark \in Catalogs THEN {p.mark} ELSE {})
     \union (IF p.code = "state-invalid" \/ p.mark \notin Catalogs THEN {builtin, remote} ELSE {}))
  \ {None}

-----------------------------------------------------------------------------
(* The barrier of activation: check_revoked with include_snapshot.         *)

Marked == IF marker \in Catalogs THEN marker ELSE None
CachedPending == IF cache # None /\ (Marked = None \/ Ahead(cache, Marked)) THEN cache ELSE None
Remember(c) == IF cache = None \/ Ahead(c, cache) THEN c ELSE cache

\* _pending_snapshot: only a snapshot that is newer than the marker counts; one that cannot be
\* verified makes the revocations unknown
Pending ==
  CASE snapshot = None -> {[snap |-> CachedPending, unknown |-> FALSE, cache |-> cache]}
    [] snapshot = Bad  -> {[snap |-> CachedPending, unknown |-> Marked = None, cache |-> cache]}
    [] OTHER ->
       IF Marked # None /\ ~Ahead(snapshot, Marked)
         THEN {[snap |-> None, unknown |-> FALSE, cache |-> cache]}
         ELSE {[snap |-> snapshot, unknown |-> FALSE, cache |-> Remember(snapshot)]}
                \union IF cache = snapshot THEN {}
                       ELSE {[snap |-> None, unknown |-> TRUE, cache |-> cache]}

Consulted(p, cat) == {cat, Marked, CachedPending, p.snap} \ {None}
\* Mutant: the barrier of activation reads memory and marker only, as the GUI's own check does
ClearedWithoutSnapshot(rev, cat, p) ==
  /\ \A c \in {cat, Marked, CachedPending} \ {None}: rev \notin Revokes[c]
  /\ marker # Bad

Cleared(rev, cat, p) ==
  /\ \A c \in Consulted(p, cat): rev \notin Revokes[c]
  /\ marker # Bad /\ ~p.unknown

-----------------------------------------------------------------------------
(* The process.                                                            *)

Init ==
  /\ builtin \in Catalogs
  /\ snapshot = None /\ marker = None /\ current = None
  /\ alive = FALSE /\ source = NoSource /\ cache = None /\ service = None /\ news = None
  /\ refresh = NoRefresh /\ ask = NoAsk /\ damage = 0

\* the model service loads the effective catalogue; the program may have been exchanged
Boot ==
  /\ ~alive /\ alive' = TRUE
  /\ builtin' \in Catalogs
  /\ \E l \in Loads(builtin'): marker' = l.mark /\ service' = l.cat
  /\ UNCHANGED <<snapshot, current, source, cache, news, refresh, ask, damage>>

Crash ==
  /\ alive /\ alive' = FALSE
  /\ source' = NoSource /\ cache' = None /\ service' = None /\ news' = None
  /\ refresh' = NoRefresh /\ ask' = NoAsk
  /\ UNCHANGED <<files, damage>>

\* a file lost or damaged from outside while nobody writes it
Damage ==
  /\ refresh.pc \in {"idle", "fetched"} /\ damage < DamageLimit
  /\ damage' = damage + 1
  /\ \/ marker \in Catalogs /\ marker' \in {None, Bad} /\ UNCHANGED snapshot
     \/ snapshot \in Catalogs /\ snapshot' \in {None, Bad} /\ UNCHANGED marker
  /\ UNCHANGED <<builtin, current, alive, memory>>

-----------------------------------------------------------------------------
(* refresh: bounds, the network, then the publication under the lock.      *)

RefreshFetch ==
  /\ LockFree /\ refresh.pc = "idle"
  /\ \E p \in Prepared, remote \in Verified:
       /\ marker' = p.mark /\ source' = p.source
       /\ \/ refresh' = refresh
          \/ \E c \in Catalogs:
               /\ p.code # "io"
               /\ \A bound \in Constraints(p, remote): Newer(c, bound)
               /\ refresh' = [NoRefresh EXCEPT !.pc = "fetched", !.cand = c,
                                               !.bounds = Constraints(p, remote)]
  /\ UNCHANGED <<builtin, snapshot, current, alive, cache, service, news, ask, damage>>

\* Mutant: the bounds of before the network are trusted
RefreshLockTrusting ==
  /\ LockFree /\ refresh.pc = "fetched"
  /\ refresh' = [refresh EXCEPT !.pc = "snapshot", !.bounds = {}, !.previous = snapshot]
  /\ source' = [source EXCEPT !.blocked = TRUE]
  /\ UNCHANGED <<builtin, snapshot, marker, current, alive, cache, service, news, ask, damage>>

\* the bounds may have moved while the network answered
RefreshLock ==
  /\ LockFree /\ refresh.pc = "fetched"
  /\ \E p \in Prepared, remote \in Verified:
       /\ marker' = p.mark
       /\ IF p.code # "io" /\ \A bound \in refresh.bounds \union Constraints(p, remote):
                                Newer(refresh.cand, bound)
            THEN /\ refresh' = [refresh EXCEPT !.pc = "snapshot", !.bounds = {}, !.previous = snapshot]
                 /\ source' = [p.source EXCEPT !.blocked = TRUE]
            ELSE refresh' = NoRefresh /\ source' = p.source
  /\ UNCHANGED <<builtin, snapshot, current, alive, cache, service, news, ask, damage>>

\* write_private may fail before the file is replaced or after, on the fsync of its directory
WriteSnapshot ==
  /\ alive /\ refresh.pc = "snapshot"
  /\ \/ snapshot' = refresh.cand /\ refresh' = [refresh EXCEPT !.pc = "marker"]
     \/ snapshot' \in {snapshot, refresh.cand} /\ refresh' = [refresh EXCEPT !.pc = "failed"]
  /\ UNCHANGED <<builtin, marker, current, alive, source, cache, service, news, ask, damage>>

Accepted(c) ==
  /\ source' = [accepted |-> c, known |-> TRUE, blocked |-> FALSE]
  /\ refresh' = NoRefresh

WriteMarker ==
  /\ alive /\ refresh.pc = "marker"
  /\ \/ marker' = refresh.cand /\ Accepted(refresh.cand)
     \/ marker' \in {marker, refresh.cand} /\ refresh' = [refresh EXCEPT !.pc = "failed"]
          /\ UNCHANGED source
  /\ UNCHANGED <<builtin, snapshot, current, alive, cache, service, news, ask, damage>>

\* Mutant: a publication that failed before the marker is left for a later thread to undo
RecoverWaiting ==
  /\ alive /\ refresh.pc = "failed" /\ marker = refresh.cand
  /\ Accepted(refresh.cand)
  /\ UNCHANGED <<files, alive, cache, service, news, ask, damage>>

\* a pair that reached the marker stays accepted; otherwise the snapshot is put back, and when
\* even that fails its revocations are kept in memory and the source stays blocked
Recover ==
  /\ alive /\ refresh.pc = "failed"
  /\ IF marker = refresh.cand
       THEN Accepted(refresh.cand) /\ UNCHANGED <<snapshot, cache>>
       ELSE /\ \/ snapshot' = refresh.previous /\ source' = [source EXCEPT !.blocked = FALSE]
                    /\ UNCHANGED cache
               \/ snapshot' \in {snapshot, refresh.previous} /\ cache' = Remember(refresh.cand)
                    /\ UNCHANGED source
            /\ refresh' = NoRefresh
  /\ UNCHANGED <<builtin, marker, current, alive, service, news, ask, damage>>

\* Mutant: the GUI is told whatever the marker says, refused or not
PublishUnchecked ==
  /\ LockFree /\ news = None
  /\ \E p \in Prepared: marker' = p.mark /\ source' = p.source /\ news' = p.mark
  /\ UNCHANGED <<builtin, snapshot, current, alive, cache, service, refresh, ask, damage>>

\* current() of the source, whose answer is posted to the GUI
Publish ==
  /\ LockFree /\ news = None
  /\ \E p \in Prepared:
       /\ marker' = p.mark /\ source' = p.source
       /\ news' = IF p.code = "ok" THEN p.source.accepted ELSE None
  /\ UNCHANGED <<builtin, snapshot, current, alive, cache, service, refresh, ask, damage>>

\* accept_catalog in the GUI
Accept ==
  /\ LockFree /\ news # None
  /\ service' = news /\ news' = None
  /\ UNCHANGED <<files, alive, source, cache, refresh, ask, damage>>

-----------------------------------------------------------------------------
(* activate_revision: the provider outside the lock, the rest under it.    *)

Ask(rev) ==
  /\ alive /\ ask = NoAsk
  /\ ask' = [rev |-> rev, cat |-> service]
  /\ UNCHANGED <<files, alive, source, cache, service, news, refresh, damage>>

\* catalog_peek: the catalogue changed since it was read, so it is read again
Reread ==
  /\ LockFree /\ ask.rev # None /\ ask.cat # None /\ ask.cat # service
  /\ ask' = [ask EXCEPT !.cat = service]
  /\ UNCHANGED <<files, alive, source, cache, service, news, refresh, damage>>

\* Mutant: a provider that fails is asked again and again
ActivateRetrying ==
  /\ LockFree /\ ask.rev # None /\ (ask.cat = None \/ ask.cat = service)
  /\ \E p \in Pending:
       /\ cache' = p.cache
       /\ current' = IF ask.cat # None /\ Cleared(ask.rev, ask.cat, p) THEN ask.rev ELSE current
  /\ ask' = IF ask.cat = None THEN ask ELSE NoAsk
  /\ UNCHANGED <<builtin, snapshot, marker, alive, source, service, news, refresh, damage>>

Activate ==
  /\ LockFree /\ ask.rev # None /\ (ask.cat = None \/ ask.cat = service)
  /\ \E p \in Pending:
       /\ cache' = p.cache
       /\ current' = IF ask.cat # None /\ Cleared(ask.rev, ask.cat, p) THEN ask.rev ELSE current
  /\ ask' = NoAsk
  /\ UNCHANGED <<builtin, snapshot, marker, alive, source, service, news, refresh, damage>>

Next ==
  \/ Boot \/ Crash \/ Damage
  \/ RefreshFetch \/ RefreshLock \/ WriteSnapshot \/ WriteMarker \/ Recover
  \/ Publish \/ Accept
  \/ (\E rev \in Revisions: Ask(rev)) \/ Reread \/ Activate

\* the steps of a thread that has begun
Refreshing == RefreshLock \/ WriteSnapshot \/ WriteMarker \/ Recover
Activating == Reread \/ Activate
Spec == Init /\ [][Next]_vars
LiveSpec == Spec /\ WF_vars(Refreshing) /\ SF_vars(Activating)

-----------------------------------------------------------------------------
TypeOK ==
  /\ builtin \in Catalogs /\ snapshot \in OnDisk /\ marker \in OnDisk
  /\ current \in Revisions \union {None} /\ alive \in BOOLEAN
  /\ source \in [accepted: Maybe, known: BOOLEAN, blocked: BOOLEAN]
  /\ cache \in Maybe /\ service \in Maybe /\ news \in Maybe
  /\ refresh \in [pc: {"idle", "fetched", "snapshot", "marker", "failed"}, cand: Maybe,
                  bounds: SUBSET Catalogs, previous: OnDisk]
  /\ ask \in [rev: Revisions \union {None}, cat: Maybe]
  /\ damage \in 0 .. DamageLimit

\* A marker that is written is at least as new as every catalogue that the program can still
\* know to have been accepted: the marker before it and the one in memory
MarkerAhead ==
  marker' # marker /\ marker' \in Catalogs =>
    \A bound \in {marker, source.accepted} \ {None, Bad}: Newer(marker', bound)
NeverBack == [][MarkerAhead]_vars

\* The newest catalogue any part of the program holds; one of equal rank with other bytes
\* gives way to the marker
Held == {marker, service, cache, source.accepted} \union
          (IF snapshot \in Catalogs /\ Marked # None /\ ~Ahead(snapshot, Marked) THEN {} ELSE {snapshot})
Newest == {c \in Held \intersect Catalogs: \A d \in Held \intersect Catalogs: ~Ahead(d, c)}

\* A step that makes a revision the working one: the newest catalogue does not revoke it
ChoosesUnrevoked ==
  \A rev \in Revisions: current # rev /\ current' = rev => \A c \in Newest: rev \notin Revokes[c]

\* A revision becomes the working one only if the newest catalogue does not revoke it, with
\* every interleaving of fetching, publishing, accepting and activating, and after every crash
RevokedNeverActivated == [][ChoosesUnrevoked]_vars

\* The marker never goes back, and what a newer catalogue revokes is never made the working one
RevocationsHold == NeverBack /\ RevokedNeverActivated

\* Without damage the marker is a ratchet and the working revision respects it
Ratchet == INSTANCE CatalogRatchet WITH accepted <- marker, working <- current
IsRatchet == Ratchet!Spec

\* Every refresh and every activation that begins also ends
RefreshEnds == refresh.pc # "idle" ~> refresh.pc = "idle"
AskEnds == ask # NoAsk ~> ask = NoAsk
===============================================================================
