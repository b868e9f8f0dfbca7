------------------------------- MODULE MCModels -------------------------------
(***************************************************************************)
(* The parts of the life of a model on the disk and in the memory, in one  *)
(* run of TLC: the trusted catalogue, a download, the store and the        *)
(* runtime.  They share no state, so a behaviour is a behaviour of one of  *)
(* them, part, and the others stay in an initial state.                    *)
(*                                                                         *)
(* Catalog: three catalogues that revoke more and more, and one damaged or *)
(* lost file.  Twin: a fourth one of the same rank with other bytes, and   *)
(* no damage.  Download: two files, a corrupt, a flaky and a reliable      *)
(* source.  Store: the module's own instance, two revisions and one fault  *)
(* in the configuration.  Runtime: three processes of the worker and one   *)
(* failure of a call.                                                      *)
(***************************************************************************)
EXTENDS ModelStore, Sequences

VARIABLES
  part,
  builtin, snapshot, marker, working, alive, source, cache, service, news, refresh, ask, damage,
  target, partial, job, used, done, before, outcome, blamed, crashes,
  rt

catalogVars == <<builtin, snapshot, marker, working, alive, source, cache, service, news, refresh, ask, damage>>
downloadVars == <<target, partial, job, used, done, before, outcome, blamed, crashes>>

Three == {"a", "b", "c"}
Four == Three \union {"twin"}
Rank == [x \in Four |-> CASE x = "a" -> 1 [] x = "b" -> 2 [] OTHER -> 3]
Revokes == [x \in Four |-> CASE x = "a" -> {} [] x = "b" -> {"r"} [] x = "c" -> {"r", "s"} [] OTHER -> {"s"}]

Catalog == INSTANCE CatalogTrust WITH
  current <- working, Catalogs <- Three, Revisions <- {"r"}, Bad <- "bad", DamageLimit <- 1
Twin == INSTANCE CatalogTrust WITH
  current <- working, Catalogs <- Four, Revisions <- {"r", "s"}, Bad <- "bad", DamageLimit <- 0
ASSUME CatalogAssumption == Catalog!ConstantsOK /\ Catalog!RanksDiffer /\ Twin!ConstantsOK
Download == INSTANCE ModelDownload WITH
  part <- partial, Sizes <- <<2, 3>>, Sources <- <<"corrupt", "flaky", "reliable">>, Stray <- 0, CrashLimit <- 1
Runtime == INSTANCE ModelRuntime WITH Models <- Revisions, GenerationLimit <- 3, FlawLimit <- 1

PartInit ==
  /\ part \in {"catalog", "twin", "download", "store", "runtime"}
  /\ IF part = "twin" THEN Twin!Init ELSE Catalog!Init
  /\ part \notin {"catalog", "twin"} => builtin = "a"
  /\ Download!Init
  /\ part # "download" => \A f \in {1, 2}: target[f] = <<>> /\ partial[f] = <<>>
  /\ Init
  /\ part # "store" => current = NoPointer /\ \A r \in Revisions: ~dir[r]
  /\ Runtime!Init /\ rt.cur = CHOOSE r \in Revisions: TRUE

PartNext ==
  \/ part = "catalog" /\ Catalog!Next /\ UNCHANGED <<part, downloadVars, vars, rt>>
  \/ part = "twin" /\ Twin!Next /\ UNCHANGED <<part, downloadVars, vars, rt>>
  \/ part = "download" /\ Download!Next /\ UNCHANGED <<part, catalogVars, vars, rt>>
  \/ part = "store" /\ Next /\ UNCHANGED <<part, catalogVars, downloadVars, rt>>
  \/ part = "runtime" /\ Runtime!Next /\ UNCHANGED <<part, catalogVars, downloadVars, vars>>

PartSpec == PartInit /\ [][PartNext]_<<part, catalogVars, downloadVars, vars, rt>>

-----------------------------------------------------------------------------
\* Every variable of every part has its type
PartTypeOK ==
  CASE part = "twin" -> Twin!TypeOK
    [] part = "catalog" -> Catalog!TypeOK
    [] part = "download" -> Download!TypeOK
    [] part = "store" -> TypeOK
    [] OTHER -> Runtime!TypeOK

\* The mark of the newest accepted catalogue never goes back, and what a newer catalogue
\* revokes is never made the working model (CatalogTrust)
RevocationsHold ==
  /\ [][part = "twin" => Twin!MarkerAhead]_catalogVars
  /\ [][part = "catalog" => Catalog!MarkerAhead /\ Catalog!ChoosesUnrevoked]_catalogVars
\* Without damage the files and threads implement the abstract ratchet (CatalogRatchet)
Ratchet == INSTANCE CatalogRatchet WITH
  Catalogs <- Four, Revisions <- {"r", "s"},
  accepted <- IF part = "twin" THEN marker ELSE None,
  working <- IF part = "twin" THEN working ELSE None
IsRatchet == Ratchet!Spec

\* The sum, the budget and the progress of a download follow its bytes, what is ready is right,
\* and no source suffers for another's bytes (ModelDownload)
DownloadExact == part = "download" => Download!DownloadExact

\* What the runtime shows and promises of its model is so, and the service of models and the
\* pressed key get their answers (ModelRuntime)
RuntimeHonest == Runtime!RuntimeHonest
===============================================================================
