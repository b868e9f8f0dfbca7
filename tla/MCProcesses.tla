------------------------------ MODULE MCProcesses ------------------------------
(***************************************************************************)
(* Two that drive a process of their own, in one run of TLC: the small     *)
(* instance of Supervisor, and beside it the queue of transcriptions.      *)
(* They share no state, so a behaviour is a behaviour of one of them,      *)
(* part, and the other stays in an initial state.                          *)
(*                                                                         *)
(* Job: one meeting, two operations of the user and two troubles.  Pair:   *)
(* two meetings, one operation and no trouble.                             *)
(***************************************************************************)
EXTENDS MCSupervisor

VARIABLES part, disk, g, left

jobVars == <<disk, g, left>>

Job == INSTANCE MeetingJobs WITH
  Meetings <- {"a"}, MaxCrashes <- 1, Attempts <- 2, Ops <- 2, Faults <- 2, Deaths <- 1, Starts <- 1, Troubles <- 2
Pair == INSTANCE MeetingJobs WITH
  Meetings <- {"a", "b"}, MaxCrashes <- 1, Attempts <- 2, Ops <- 1, Faults <- 0, Deaths <- 0, Starts <- 0, Troubles <- 0

PartInit ==
  /\ part \in {"supervisor", "job", "pair"}
  /\ Init
  /\ IF part = "pair" THEN Pair!Init ELSE Job!Init
  /\ part = "supervisor" => disk["a"].state = "recorded"

PartNext ==
  \/ part = "supervisor" /\ Next /\ UNCHANGED <<part, jobVars>>
  \/ part = "job" /\ Job!Next /\ UNCHANGED <<part, vars>>
  \/ part = "pair" /\ Pair!Next /\ UNCHANGED <<part, vars>>

PartSpec == PartInit /\ [][PartNext]_<<part, vars, jobVars>>

PartScope == part # "supervisor" \/ Scope

-----------------------------------------------------------------------------
\* What runs in the process is the job that the queue knows, was allowed to begin, and would be
\* resumed by the next start of the program (MeetingJobs)
JobsHonest ==
  /\ [](part = "job" => Job!JobHasOwner /\ Job!ResumesLater)
  /\ [](part = "pair" => Pair!JobHasOwner /\ Pair!ResumesLater)
  /\ [][(part = "job" => Job!StartAllowed) /\ (part = "pair" => Pair!StartAllowed)]_jobVars

\* A cancellation is durable before it is sent, the job does not begin again, and a job that is to
\* be stopped always has something that will stop it (MeetingJobs)
CancelHonest ==
  /\ [](part = "job" => Job!CancelDurable /\ Job!StopHasCause)
  /\ [](part = "pair" => Pair!CancelDurable /\ Pair!StopHasCause)
  /\ [][(part = "job" => Job!NotAgain) /\ (part = "pair" => Pair!NotAgain)]_jobVars

\* Every variable of the queue has its type, and nothing is released under a process that works
\* with it (MeetingJobs)
FilesSafe ==
  /\ part = "job" => Job!TypeOK /\ Job!ReleasedAfterExit
  /\ part = "pair" => Pair!TypeOK /\ Pair!ReleasedAfterExit
===============================================================================
