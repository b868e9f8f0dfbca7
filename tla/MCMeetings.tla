------------------------------ MODULE MCMeetings ------------------------------
(***************************************************************************)
(* Small instances, for one run of TLC, of the modules about the recording *)
(* of a meeting.  They share no state: a behaviour is a behaviour of one   *)
(* of them, part, and the others stay in an initial state.                 *)
(***************************************************************************)
EXTENDS MeetingCapture, MeetingAdmission

VARIABLE part

Limit(far, ops, blocks, troubles, sound, all) ==
  [far |-> far, ops |-> ops, blocks |-> blocks, troubles |-> troubles, sound |-> sound, all |-> all]

\* Two clicks; both tracks; sound and failures of the disk
MCLimits == {
  Limit(FALSE, 2, 1, 1, 0, 3), Limit(TRUE, 1, 1, 1, 0, 2),
  Limit(FALSE, 1, 0, 2, 3, 2), Limit(TRUE, 1, 0, 1, 2, 1)}

MCInit ==
  /\ part \in {"capture", "admission"}
  /\ Init /\ (part # "capture" => left = Limit(TRUE, 1, 1, 1, 0, 2))
  /\ AdmissionInit /\ (part # "admission" => desktop = "KDE" /\ signals /\ world.screen = "open")

MCNext ==
  \/ part = "capture" /\ Next /\ UNCHANGED <<part, admissionVars>>
  \/ part = "admission" /\ AdmissionNext /\ UNCHANGED <<part, vars>>

MCSpec == MCInit /\ [][MCNext]_<<part, vars, admissionVars>>

-----------------------------------------------------------------------------
MCTypeOK == TypeOK /\ AdmissionTypeOK
=============================================================================
