------------------------------ MODULE MCInterface ------------------------------
(***************************************************************************)
(* The parts of the program that answer the user's windows, in one run of  *)
(* TLC: they share no state, so a behaviour is a behaviour of one of them, *)
(* part, and the others stay in an initial state.                          *)
(*                                                                         *)
(* Queue: two models, and the user leaves installed models alone while the *)
(* queue waits for space.  Cards: two models, one of them with a second    *)
(* revision, and the user manages them at any time.  Capture: two          *)
(* recordings of a combination one after the other, with the constants of  *)
(* the configuration.                                                      *)
(***************************************************************************)
EXTENDS CaptureField, FiniteSets

CONSTANT None

VARIABLES
  part,
  waiting, active, paused, running, cancelled, one, discard, qcur, card, dstate, th, msgs, result, stop,
  rq, rechecking, oldcard, started, sw, pend, seen, shut, ok, bad, flagged, ptr, stagings, chosen

jobsVars ==
  <<waiting, active, paused, running, cancelled, one, discard, qcur, card, dstate, th, msgs, result, stop,
    rq, rechecking, oldcard, started, sw, pend, seen, shut, ok, bad, flagged, ptr, stagings, chosen>>

Queue == INSTANCE ModelJobs WITH
  queue <- waiting, part <- stagings, N <- 2, Updatable <- {}, ManageInPause <- FALSE
Cards == INSTANCE ModelJobs WITH
  queue <- waiting, part <- stagings, N <- 2, Updatable <- {1}, ManageInPause <- TRUE

PartInit ==
  /\ part \in {"capture", "queue", "cards"}
  /\ Init
  /\ IF part = "cards" THEN Cards!Init ELSE Queue!Init
  /\ (part = "capture" => ok = {})

PartNext ==
  \/ part = "capture" /\ Next /\ UNCHANGED <<part, jobsVars>>
  \/ part = "queue" /\ Queue!Next /\ UNCHANGED <<part, vars>>
  \/ part = "cards" /\ Cards!Next /\ UNCHANGED <<part, vars>>

PartSpec == PartInit /\ [][PartNext]_<<part, vars, jobsVars>>

-----------------------------------------------------------------------------
\* Every variable of every part has its type
PartTypeOK == TypeOK /\ IF part = "cards" THEN Cards!TypeOK ELSE Queue!TypeOK

\* What the download queue shows is what it waits for, and the user can end the wait (ModelJobs)
QueueTruthful == part = "queue" => Queue!QueueTruthful

\* The user's choice of the model holds, a card that shows work has it, and a way out keeps
\* what was downloaded (ModelJobs)
CardsHonest == [](part = "cards" => Cards!ChoiceHolds /\ Cards!PromisesHaveWork) /\ Cards!StagingKept
===============================================================================
