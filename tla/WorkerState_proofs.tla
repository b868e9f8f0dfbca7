------------------------- MODULE WorkerState_proofs -------------------------
(* Proofs about WorkerState, checked by TLAPS for every set of ids and jobs. *)
EXTENDS WorkerState, TLAPS, SequenceTheorems

Slots == EngineExclusive /\ ExecutorHasOneJob /\ SlotsOK

-----------------------------------------------------------------------------
(* What the helpers return.                                                *)

\* request_stop keeps the chain of capture threads well formed.
LEMMA StopNewestType ==
  ASSUME CaptureType, NEW b \in BOOLEAN
  PROVE  StopNewest(b) \in Seq(Capture) /\ Len(StopNewest(b)) = Len(chain)
<1>1. CASE chain = <<>>
  BY <1>1 DEF StopNewest, CaptureType
<1>2. CASE chain # <<>>
  <2> DEFINE n == Len(chain)
             t == [chain[n] EXCEPT !.run = FALSE, !.cancel = @ \/ b]
  <2>1. n \in 1..Len(chain) /\ chain[n] \in Capture
    BY <1>2 DEF CaptureType
  <2>2. t \in Capture
    BY <2>1 DEF Capture
  <2>3. StopNewest(b) = [chain EXCEPT ![n] = t]
    BY <1>2 DEF StopNewest
  <2> QED BY <2>1, <2>2, <2>3 DEF CaptureType
<1> QED BY <1>1, <1>2

\* A new capture thread is appended to a well-formed chain.
LEMMA NewCapture ==
  ASSUME NEW c \in Seq(Capture), NEW u \in Utts
  PROVE  Append(c, [uid |-> u, run |-> TRUE, cancel |-> FALSE, step |-> "open"])
           \in Seq(Capture)
<1>1. [uid |-> u, run |-> TRUE, cancel |-> FALSE, step |-> "open"] \in Capture
  BY DEF Capture, Steps
<1> QED BY <1>1

\* The thread at the head of a chain that has one.
LEMMA ChainHead ==
  ASSUME CaptureType, NEW s, At(s)
  PROVE  /\ 1 \in 1..Len(chain) /\ chain[1] \in Capture
         /\ chain[1].uid \in Utts
         /\ chain[1].run \in BOOLEAN /\ chain[1].cancel \in BOOLEAN
<1>1. 1 \in 1..Len(chain) /\ chain[1] \in Capture
  BY DEF CaptureType, At
<1> QED BY <1>1 DEF Capture

\* The oldest thread ends; the rest of the chain stays well formed.
LEMMA ChainTail ==
  ASSUME CaptureType, NEW s, At(s)
  PROVE  Tail(chain) \in Seq(Capture)
BY DEF CaptureType, At

\* A step of the head thread keeps the chain well formed.
LEMMA GotoType ==
  ASSUME CaptureType, NEW at, At(at), NEW s \in Steps, Goto(s)
  PROVE  chain' \in Seq(Capture) /\ Len(chain') = Len(chain)
<1>1. 1 \in 1..Len(chain) /\ chain[1] \in Capture
  BY ChainHead
<1>2. [chain[1] EXCEPT !.step = s] \in Capture
  BY <1>1 DEF Capture
<1>3. chain' = [chain EXCEPT ![1] = [chain[1] EXCEPT !.step = s]]
  BY DEF Goto
<1> QED BY <1>1, <1>2, <1>3 DEF CaptureType

\* So does a callback that also ends the recording.
LEMMA StoppedGotoType ==
  ASSUME CaptureType, NEW at, At(at), NEW s \in Steps,
         chain' = [StopNewest(FALSE) EXCEPT ![1].step = s]
  PROVE  chain' \in Seq(Capture)
<1> DEFINE c == StopNewest(FALSE)
<1>1. c \in Seq(Capture) /\ 1 \in 1..Len(c)
  BY StopNewestType, ChainHead
<1> HIDE DEF c
<1>2. c[1] \in Capture
  BY <1>1
<1>3. [c[1] EXCEPT !.step = s] \in Capture
  BY <1>2 DEF Capture
<1>4. chain' = [c EXCEPT ![1] = [c[1] EXCEPT !.step = s]]
  BY DEF c
<1>5. [c EXCEPT ![1] = [c[1] EXCEPT !.step = s]] \in Seq(Capture)
  BY <1>1, <1>3
<1> QED BY <1>4, <1>5

\* Forgetting an id never lengthens the history.
LEMMA ForgetType ==
  ASSUME HistoryType, NEW u \in Utts
  PROVE  Forget(u) \in Seq(Utts) /\ Len(Forget(u)) <= HistoryLimit
<1>1. CASE u \in Cancelled
  <2> DEFINE at == CHOOSE i \in DOMAIN history : history[i] = u
  <2>1. at \in 1..Len(history)
    BY <1>1 DEF Cancelled, HistoryType
  <2>2. \A i \in 1..(Len(history) - 1) :
          (IF i < at THEN history[i] ELSE history[i + 1]) \in Utts
    BY <2>1 DEF HistoryType
  <2> HIDE DEF at
  <2> DEFINE g == [i \in 1..(Len(history) - 1) |->
                     IF i < at THEN history[i] ELSE history[i + 1]]
  <2>3. Len(history) \in Nat /\ Len(history) >= 1
    BY <2>1 DEF HistoryType
  <2>4. Forget(u) = g
    BY <1>1 DEF Forget, at
  <2>5. g \in Seq(Utts) /\ Len(g) = Len(history) - 1
    BY <2>2, <2>3
  <2> QED BY <2>3, <2>4, <2>5, HistoryAssumption DEF HistoryType
<1>2. CASE u \notin Cancelled
  BY <1>2 DEF Forget, HistoryType
<1> QED BY <1>1, <1>2

\* Remembering an id keeps the history within its limit.
LEMMA RememberType ==
  ASSUME HistoryType, NEW u \in Utts
  PROVE  Remember(u) \in Seq(Utts) /\ Len(Remember(u)) <= HistoryLimit
<1>1. CASE u \in Cancelled
  BY <1>1 DEF Remember, HistoryType
<1>2. CASE u \notin Cancelled /\ Len(history) = HistoryLimit
  BY <1>2, HistoryAssumption DEF Remember, HistoryType
<1>3. CASE u \notin Cancelled /\ Len(history) # HistoryLimit
  BY <1>3, HistoryAssumption DEF Remember, HistoryType
<1> QED BY <1>1, <1>2, <1>3

\* One job object changes, the others stay.
LEMMA JobPhaseType ==
  ASSUME JobsType, NEW j \in Jobs, NEW p \in Phases, NEW v \in Verdicts, NEW b \in BOOLEAN
  PROVE  /\ [job EXCEPT ![j].phase = p] \in [Jobs -> JobType]
         /\ [job EXCEPT ![j].phase = p, ![j].pcm = b] \in [Jobs -> JobType]
         /\ [job EXCEPT ![j].phase = p, ![j].verdict = v] \in [Jobs -> JobType]
<1>1. job[j] \in JobType
  BY DEF JobsType
<1>2. /\ [job[j] EXCEPT !.phase = p] \in JobType
      /\ [job[j] EXCEPT !.phase = p, !.pcm = b] \in JobType
      /\ [job[j] EXCEPT !.phase = p, !.verdict = v] \in JobType
  BY <1>1 DEF JobType
<1>3. /\ [job EXCEPT ![j].phase = p] = [job EXCEPT ![j] = [job[j] EXCEPT !.phase = p]]
      /\ [job EXCEPT ![j].phase = p, ![j].pcm = b]
           = [job EXCEPT ![j] = [job[j] EXCEPT !.phase = p, !.pcm = b]]
      /\ [job EXCEPT ![j].phase = p, ![j].verdict = v]
           = [job EXCEPT ![j] = [job[j] EXCEPT !.phase = p, !.verdict = v]]
  BY DEF JobsType
<1> QED BY <1>2, <1>3 DEF JobsType

\* A free job object is a job object.
LEMMA FreeJobType == FreeJob \in JobType
BY DEF FreeJob, JobType, Phases

\* So is one that has just been filled.
LEMMA NewJobType ==
  ASSUME NEW u \in Utts, NEW f \in BOOLEAN, NEW p \in Phases
  PROVE  NewJob(u, f, p) \in JobType
BY DEF NewJob, FreeJob, JobType

\* So is a cancelled one.
LEMMA CancelledJobType ==
  ASSUME JobsType, NEW j \in Jobs, NEW b \in BOOLEAN
  PROVE  CancelledJob(j, b) \in JobType
<1>1. job[j] \in JobType
  BY DEF JobsType
<1>2. [job[j] EXCEPT !.token = TRUE, !.notified = @ \/ b] \in JobType
  BY <1>1 DEF JobType
<1> QED BY <1>1, <1>2, FreeJobType DEF CancelledJob

\* The sessions counter is a number whatever is released.
LEMMA ReleaseType ==
  ASSUME ModelType, EngineExclusive, engine \/ unloading
  PROVE  sessions = 1
BY DEF ModelType, EngineExclusive

\* A message is built from a type, a request and an id.
LEMMA MsgType ==
  ASSUME NEW t \in Types, NEW r \in Requests, NEW u \in Utts \cup {None}
  PROVE  Msg(t, r, u) \in Message
BY DEF Msg, Message

\* What _finish leaves behind has its type.
LEMMA FinishType ==
  ASSUME TypeOK, Slots, NEW j \in Jobs, Finish(j)
  PROVE  TypeOK'
<1> USE DEF TypeOK
<1> DEFINE dropped == IF Outcome(j) = "engine-failed" THEN {pending} \ {None} ELSE {}
           settled == Settled(j, dropped)
<1>1. dropped \subseteq Jobs /\ settled \subseteq Jobs
  BY DEF JobsType, Settled, Announced
<1>2. \A k \in Jobs : job[k].uid \in Utts \cup {None} /\ Request(k) \in Requests
  BY DEF JobsType, JobType, Request, Requests
<1>3. /\ job[j].phase = "done" /\ job[j].verdict \in Verdicts /\ job[j].uid \in Utts
      /\ Outcome(j) \in Verdicts
  <2>1. job[j].phase = "done"
    BY DEF Finish
  <2>2. job[j].verdict \in Verdicts /\ job[j].uid \in Utts
    BY <2>1 DEF Slots, ExecutorHasOneJob, Busy
  <2> QED BY <2>1, <2>2 DEF Outcome, Verdicts
<1>4. PcmType'
  BY DEF Finish, SettlePcm, Marks, Restopped, PcmType
<1>5. HistoryType'
  BY <1>3, RememberType DEF Finish, SettlePcm, HistoryType
<1>6. JobsType'
  <2>1. active' \in Jobs \cup {None} /\ pending' = None
    BY DEF Finish, JobsType
  <2>2. queue' \in Seq(Jobs)
    <3>1. queue # <<>> /\ Tail(queue) \in Seq(Jobs)
      BY DEF Finish, Running, JobsType
    <3>2. Launched(dropped) \in Seq(Jobs)
      BY DEF Launched, JobsType
    <3>3. queue' = Tail(queue) \o Launched(dropped)
      BY DEF Finish
    <3> QED BY <3>1, <3>2, <3>3
  <2>3. \A k \in Jobs : [job[k] EXCEPT !.phase = "queued"] \in JobType
    BY DEF JobsType, JobType, Phases
  <2>4. job' \in [Jobs -> JobType]
    BY <2>3, FreeJobType DEF Finish, JobsType
  <2> QED BY <2>1, <2>2, <2>4 DEF JobsType
<1>7. MessagesType'
  <2>1. \A k \in settled :
          Msg(IF k = j THEN Outcome(j) ELSE "engine-failed", Request(k), job[k].uid)
            \in Message
    BY <1>1, <1>2, <1>3, MsgType DEF Types, Verdicts
  <2>2. out' = {Msg(IF k = j THEN Outcome(j) ELSE "engine-failed",
                    Request(k), job[k].uid) : k \in settled}
    BY DEF Finish
  <2> QED BY <2>1, <2>2 DEF Finish, MessagesType
<1>8. ModelType' /\ CaptureType' /\ ControlType'
  BY DEF Finish, ModelType, model, CaptureType, capture, ControlType, control
<1> QED BY <1>4, <1>5, <1>6, <1>7, <1>8

\* Every step keeps every variable in its type, and the history in its limit.
LEMMA TypeStep ==
  ASSUME TypeOK, Slots, [Next]_vars
  PROVE  TypeOK'
<1> USE DEF TypeOK
<1>0. CASE UNCHANGED vars
  BY <1>0 DEF vars, pcm, jobs, model, capture, control, PcmType, HistoryType, JobsType, ModelType, CaptureType, ControlType, MessagesType
<1>1. ASSUME NEW u \in Utts, RefuseStart(u) PROVE TypeOK'
  <2>1. PcmType'
    BY <1>1 DEF RefuseStart, Refuse, Kept, PcmType, pcm
  <2>2. ControlType'
    BY <1>1 DEF RefuseStart, Refuse, Return, Msg, Message, Requests, Types, Verdicts, ControlType, control
  <2>3. MessagesType'
    BY <1>1 DEF RefuseStart, Refuse, Return, Msg, Message, Requests, Types, Verdicts, MessagesType
  <2>4. HistoryType' /\ JobsType' /\ ModelType' /\ CaptureType'
    BY <1>1 DEF RefuseStart, Refuse, HistoryType, JobsType, jobs, ModelType, model, CaptureType, capture
  <2> QED BY <2>1, <2>2, <2>3, <2>4 DEF TypeOK
<1>2. ASSUME NEW u \in Utts, RecordStart(u) PROVE TypeOK'
  <2>1. PcmType'
    BY <1>2 DEF RecordStart, Kept, PcmType, pcm
  <2>2. HistoryType'
    BY <1>2, ForgetType DEF RecordStart, HistoryType
  <2>3. CaptureType'
    BY <1>2, StopNewestType, NewCapture DEF RecordStart, CaptureType, capture
  <2>4. ControlType'
    BY <1>2 DEF RecordStart, Return, ControlType, control
  <2>5. MessagesType'
    BY <1>2 DEF RecordStart, Return, MessagesType
  <2>6. JobsType' /\ ModelType'
    BY <1>2 DEF RecordStart, JobsType, jobs, ModelType, model
  <2> QED BY <2>1, <2>2, <2>3, <2>4, <2>5, <2>6 DEF TypeOK
<1>3. ASSUME NEW u \in Utts, RecordStop(u) PROVE TypeOK'
  <2>1. PcmType'
    BY <1>3 DEF RecordStop, StopRecording, Kept, PcmType, pcm
  <2>2. CaptureType'
    BY <1>3, StopNewestType DEF RecordStop, StopRecording, CaptureType, capture
  <2>3. ControlType'
    BY <1>3 DEF RecordStop, StopRecording, Return, ControlType, control
  <2>4. MessagesType'
    BY <1>3 DEF RecordStop, StopRecording, Return, MessagesType
  <2>5. HistoryType' /\ JobsType' /\ ModelType'
    BY <1>3 DEF RecordStop, StopRecording, HistoryType, JobsType, jobs, ModelType, model
  <2> QED BY <2>1, <2>2, <2>3, <2>4, <2>5 DEF TypeOK
<1>4. ASSUME NEW u \in Utts, LateStop(u) PROVE TypeOK'
  <2>1. PcmType'
    BY <1>4 DEF LateStop, Refuse, Kept, PcmType, pcm
  <2>2. ControlType'
    BY <1>4 DEF LateStop, Refuse, Return, Msg, Message, Requests, Types, Verdicts, ControlType, control
  <2>3. MessagesType'
    BY <1>4 DEF LateStop, Refuse, Return, Msg, Message, Requests, Types, Verdicts, MessagesType
  <2>4. HistoryType' /\ JobsType' /\ ModelType' /\ CaptureType'
    BY <1>4 DEF LateStop, Refuse, HistoryType, JobsType, jobs, ModelType, model, CaptureType, capture
  <2> QED BY <2>1, <2>2, <2>3, <2>4 DEF TypeOK
<1>5. ASSUME NEW u \in Utts, CancelUnknown(u) PROVE TypeOK'
  <2>1. PcmType'
    BY <1>5 DEF CancelUnknown, Refuse, Kept, PcmType, pcm
  <2>2. ControlType'
    BY <1>5 DEF CancelUnknown, Refuse, Return, Msg, Message, Requests, Types, Verdicts, ControlType, control
  <2>3. MessagesType'
    BY <1>5 DEF CancelUnknown, Refuse, Return, Msg, Message, Requests, Types, Verdicts, MessagesType
  <2>4. HistoryType' /\ JobsType' /\ ModelType' /\ CaptureType'
    BY <1>5 DEF CancelUnknown, Refuse, HistoryType, JobsType, jobs, ModelType, model, CaptureType, capture
  <2> QED BY <2>1, <2>2, <2>3, <2>4 DEF TypeOK
<1>6. ASSUME NEW u \in Utts, RecordCancel(u) PROVE TypeOK'
  <2>1. PcmType'
    BY <1>6 DEF RecordCancel, Kept, PcmType, pcm
  <2>2. HistoryType'
    BY <1>6, RememberType DEF RecordCancel, HistoryType
  <2>3. JobsType'
    BY <1>6, CancelledJobType DEF RecordCancel, JobsType, jobs
  <2>4. CaptureType'
    BY <1>6, StopNewestType DEF RecordCancel, CaptureType, capture
  <2>5. ControlType'
    BY <1>6, MsgType DEF RecordCancel, Return, CancelWait, Types, Verdicts, Requests, ControlType, control
  <2>6. MessagesType'
    BY <1>6, MsgType DEF RecordCancel, Return, Types, Verdicts, Requests, MessagesType
  <2>7. ModelType'
    BY <1>6 DEF RecordCancel, ModelType, model
  <2> QED BY <2>1, <2>2, <2>3, <2>4, <2>5, <2>6, <2>7 DEF TypeOK
<1>7. ASSUME NEW u \in Utts, NEW file \in BOOLEAN, RefuseRecognize(u, file) PROVE TypeOK'
  <2>1. PcmType'
    BY <1>7 DEF RefuseRecognize, RecognizeError, Refuse, Kept, PcmType, pcm
  <2>2. ControlType'
    BY <1>7 DEF RefuseRecognize, RecognizeError, Refuse, Return, Msg, Message, Requests, Types, Verdicts, ControlType, control
  <2>3. MessagesType'
    BY <1>7 DEF RefuseRecognize, RecognizeError, Refuse, Return, Msg, Message, Requests, Types, Verdicts, MessagesType
  <2>4. HistoryType' /\ JobsType' /\ ModelType' /\ CaptureType'
    BY <1>7 DEF RefuseRecognize, RecognizeError, Refuse, HistoryType, JobsType, jobs, ModelType, model, CaptureType, capture
  <2> QED BY <2>1, <2>2, <2>3, <2>4 DEF TypeOK
<1>8. ASSUME NEW u \in Utts, NEW file \in BOOLEAN, Recognize(u, file) PROVE TypeOK'
  <2>1. PcmType'
    BY <1>8 DEF Recognize, Kept, TakeRecord, Claim, PcmType, pcm
  <2>2. HistoryType'
    BY <1>8, ForgetType DEF Recognize, HistoryType
  <2>3. JobsType'
    <3>1. PICK j \in Jobs :
            IF active = None
            THEN /\ active' = j /\ queue' = Append(queue, j)
                 /\ job' = [job EXCEPT ![j] = NewJob(u, file, "queued")]
                 /\ UNCHANGED pending
            ELSE /\ pending' = j
                 /\ job' = [job EXCEPT ![j] = NewJob(u, file, "pending")]
                 /\ UNCHANGED <<active, queue>>
      BY <1>8 DEF Recognize
    <3>2. NewJob(u, file, "queued") \in JobType /\ NewJob(u, file, "pending") \in JobType
      BY NewJobType DEF Phases
    <3>3. CASE active = None
      BY <3>1, <3>2, <3>3 DEF JobsType
    <3>4. CASE active # None
      BY <3>1, <3>2, <3>4 DEF JobsType
    <3> QED BY <3>3, <3>4
  <2>4. CaptureType'
    BY <1>8, StopNewestType DEF Recognize, TakeRecord, CaptureType, capture
  <2>5. ControlType'
    BY <1>8 DEF Recognize, TakeRecord, Return, ControlType, control
  <2>6. MessagesType'
    BY <1>8 DEF Recognize, TakeRecord, Return, MessagesType
  <2>7. ModelType'
    BY <1>8 DEF Recognize, ModelType, model
  <2> QED BY <2>1, <2>2, <2>3, <2>4, <2>5, <2>6, <2>7 DEF TypeOK
<1>9. ASSUME NEW u \in Utts, NEW file \in BOOLEAN, SubmitFails(u, file) PROVE TypeOK'
  <2>1. PcmType'
    BY <1>9 DEF SubmitFails, Kept, Claim, PcmType, pcm
  <2>2. HistoryType'
    BY <1>9, ForgetType DEF SubmitFails, HistoryType
  <2>3. CaptureType'
    BY <1>9, StopNewestType DEF SubmitFails, CaptureType, capture
  <2>4. ControlType'
    BY <1>9 DEF SubmitFails, ControlType, control
  <2>5. MessagesType'
    BY <1>9 DEF SubmitFails, Msg, Message, Requests, Types, Verdicts, MessagesType
  <2>6. JobsType' /\ ModelType'
    BY <1>9 DEF SubmitFails, JobsType, jobs, ModelType, model
  <2> QED BY <2>1, <2>2, <2>3, <2>4, <2>5, <2>6 DEF TypeOK
<1>10. ASSUME AudioClose PROVE TypeOK'
  <2>1. PcmType'
    BY <1>10 DEF AudioClose, StopRecording, Kept, PcmType, pcm
  <2>2. CaptureType'
    BY <1>10, StopNewestType DEF AudioClose, StopRecording, CaptureType, capture
  <2>3. ControlType'
    BY <1>10 DEF AudioClose, Return, Msg, Message, Requests, Types, Verdicts, ControlType, control
  <2>4. MessagesType'
    BY <1>10 DEF AudioClose, Return, Msg, Message, Requests, Types, Verdicts, MessagesType
  <2>5. HistoryType' /\ JobsType' /\ ModelType'
    BY <1>10 DEF AudioClose, HistoryType, JobsType, jobs, ModelType, model
  <2> QED BY <2>1, <2>2, <2>3, <2>4, <2>5 DEF TypeOK
<1>11. ASSUME NEW m \in Models, AnswerLoad(m) PROVE TypeOK'
  <2>1. PcmType'
    BY <1>11 DEF AnswerLoad, LoadAnswer, Refuse, Kept, PcmType, pcm
  <2>2. ControlType'
    BY <1>11 DEF AnswerLoad, LoadAnswer, Refuse, Return, Msg, Message, Requests, Types, Verdicts, ControlType, control
  <2>3. MessagesType'
    BY <1>11 DEF AnswerLoad, LoadAnswer, Refuse, Return, Msg, Message, Requests, Types, Verdicts, MessagesType
  <2>4. HistoryType' /\ JobsType' /\ ModelType' /\ CaptureType'
    BY <1>11 DEF AnswerLoad, LoadAnswer, Refuse, HistoryType, JobsType, jobs, ModelType, model, CaptureType, capture
  <2> QED BY <2>1, <2>2, <2>3, <2>4 DEF TypeOK
<1>12. ASSUME NEW m \in Models, NEW ok \in BOOLEAN, ModelLoad(m, ok) PROVE TypeOK'
  <2>1. PcmType'
    BY <1>12 DEF ModelLoad, Kept, PcmType, pcm
  <2>2. ModelType'
    BY <1>12 DEF ModelLoad, ModelType, model
  <2>3. ControlType'
    BY <1>12 DEF ModelLoad, Return, ControlType, control
  <2>4. MessagesType'
    BY <1>12 DEF ModelLoad, Return, Msg, Message, Requests, Types, Verdicts, MessagesType
  <2>5. HistoryType' /\ JobsType' /\ CaptureType'
    BY <1>12 DEF ModelLoad, HistoryType, JobsType, jobs, CaptureType, capture
  <2> QED BY <2>1, <2>2, <2>3, <2>4, <2>5 DEF TypeOK
<1>13. ASSUME ModelUnload PROVE TypeOK'
  <2>1. PcmType'
    BY <1>13 DEF ModelUnload, Unload, PcmType, pcm
  <2>2. HistoryType'
    BY <1>13, HistoryAssumption DEF ModelUnload, Unload, HistoryType
  <2>3. JobsType'
    BY <1>13, CancelledJobType DEF ModelUnload, Unload, JobsType, jobs
  <2>4. ModelType'
    <3>1. engine /\ active = None => sessions = 1
      BY ReleaseType DEF Slots
    <3>2. sessions' = (IF engine /\ active = None THEN sessions - 1 ELSE sessions)
      BY <1>13 DEF ModelUnload, Unload
    <3>3. sessions' \in Nat
      BY <3>1, <3>2 DEF ModelType
    <3>4. engine' \in BOOLEAN /\ unloading' \in BOOLEAN /\ identity' = identity
      BY <1>13 DEF ModelUnload, Unload, ModelType
    <3> QED BY <3>3, <3>4 DEF ModelType
  <2>5. CaptureType'
    BY <1>13, StopNewestType DEF ModelUnload, Unload, CaptureType, capture
  <2>6. ControlType'
    BY <1>13 DEF ModelUnload, Unload, Return, ControlType, control
  <2>7. MessagesType'
    BY <1>13 DEF ModelUnload, Unload, Return, MessagesType
  <2> QED BY <2>1, <2>2, <2>3, <2>4, <2>5, <2>6, <2>7 DEF TypeOK
<1>14. ASSUME Close PROVE TypeOK'
  <2>1. PcmType'
    BY <1>14 DEF Close, Unload, PcmType, pcm
  <2>2. HistoryType'
    BY <1>14, HistoryAssumption DEF Close, Unload, HistoryType
  <2>3. JobsType'
    BY <1>14, CancelledJobType DEF Close, Unload, JobsType, jobs
  <2>4. ModelType'
    <3>1. engine /\ active = None => sessions = 1
      BY ReleaseType DEF Slots
    <3>2. sessions' = (IF engine /\ active = None THEN sessions - 1 ELSE sessions)
      BY <1>14 DEF Close, Unload
    <3>3. sessions' \in Nat
      BY <3>1, <3>2 DEF ModelType
    <3>4. engine' \in BOOLEAN /\ unloading' \in BOOLEAN /\ identity' = identity
      BY <1>14 DEF Close, Unload, ModelType
    <3> QED BY <3>3, <3>4 DEF ModelType
  <2>5. CaptureType'
    BY <1>14, StopNewestType DEF Close, Unload, CaptureType, capture
  <2>6. ControlType'
    BY <1>14 DEF Close, Unload, ControlType, control
  <2>7. MessagesType'
    BY <1>14 DEF Close, Unload, MessagesType
  <2> QED BY <2>1, <2>2, <2>3, <2>4, <2>5, <2>6, <2>7 DEF TypeOK
<1>15. ASSUME Reply PROVE TypeOK'
  <2>1. ControlType'
    BY <1>15 DEF Reply, ControlType, control
  <2>2. MessagesType'
    BY <1>15 DEF Reply, ControlType, MessagesType
  <2>3. PcmType' /\ HistoryType' /\ JobsType' /\ ModelType' /\ CaptureType'
    BY <1>15 DEF Reply, PcmType, pcm, HistoryType, JobsType, jobs, ModelType, model, CaptureType, capture
  <2> QED BY <2>1, <2>2, <2>3 DEF TypeOK
<1>16. ASSUME Exit PROVE TypeOK'
  <2>1. ControlType'
    BY <1>16 DEF Exit, ControlType, control
  <2>2. MessagesType'
    BY <1>16 DEF Exit, MessagesType
  <2>3. PcmType' /\ HistoryType' /\ JobsType' /\ ModelType' /\ CaptureType'
    BY <1>16 DEF Exit, PcmType, pcm, HistoryType, JobsType, jobs, ModelType, model, CaptureType, capture
  <2> QED BY <2>1, <2>2, <2>3 DEF TypeOK
<1>17. ASSUME Expire PROVE TypeOK'
  <2>1. PcmType'
    BY <1>17 DEF Expire, Refuse, Kept, PcmType, pcm
  <2>2. ControlType'
    BY <1>17 DEF Expire, Refuse, Return, ControlType, control
  <2>3. MessagesType'
    BY <1>17 DEF Expire, Refuse, Return, MessagesType
  <2>4. HistoryType' /\ JobsType' /\ ModelType' /\ CaptureType'
    BY <1>17 DEF Expire, Refuse, HistoryType, JobsType, jobs, ModelType, model, CaptureType, capture
  <2> QED BY <2>1, <2>2, <2>3, <2>4 DEF TypeOK
<1>18. ASSUME RecordDeadline PROVE TypeOK'
  <2>1. CaptureType'
    BY <1>18, StopNewestType DEF RecordDeadline, CaptureType, capture
  <2>2. MessagesType'
    BY <1>18 DEF RecordDeadline, MessagesType
  <2>3. PcmType' /\ HistoryType' /\ JobsType' /\ ModelType' /\ ControlType'
    BY <1>18 DEF RecordDeadline, PcmType, pcm, HistoryType, JobsType, jobs, ModelType, model, ControlType, control
  <2> QED BY <2>1, <2>2, <2>3 DEF TypeOK
<1>19. ASSUME FirstChunkWatchdog PROVE TypeOK'
  <2>1. PcmType'
    BY <1>19 DEF FirstChunkWatchdog, DropRecord, PcmType, pcm
  <2>2. CaptureType'
    BY <1>19, StopNewestType DEF FirstChunkWatchdog, DropRecord, CaptureType, capture
  <2>3. MessagesType'
    BY <1>19 DEF FirstChunkWatchdog, DropRecord, CaptureType, Msg, Message, Requests, Types, Verdicts, MessagesType
  <2>4. HistoryType' /\ JobsType' /\ ModelType' /\ ControlType'
    BY <1>19 DEF FirstChunkWatchdog, DropRecord, HistoryType, JobsType, jobs, ModelType, model, ControlType, control
  <2> QED BY <2>1, <2>2, <2>3, <2>4 DEF TypeOK
<1>20. ASSUME StopTimeout PROVE TypeOK'
  <2>1. CaptureType'
    BY <1>20 DEF StopTimeout, CaptureType, capture
  <2>2. ControlType'
    BY <1>20 DEF StopTimeout, ControlType, control
  <2>3. MessagesType'
    BY <1>20 DEF StopTimeout, MessagesType
  <2>4. PcmType' /\ HistoryType' /\ JobsType' /\ ModelType'
    BY <1>20 DEF StopTimeout, PcmType, pcm, HistoryType, JobsType, jobs, ModelType, model
  <2> QED BY <2>1, <2>2, <2>3, <2>4 DEF TypeOK
<1>21. ASSUME NEW j \in Jobs, ReadPcm(j) PROVE TypeOK'
  <2>1. JobsType'
    <3> DEFINE b == job[j].file \/ job[j].uid \in buffers
    <3>1. \/ job' = [job EXCEPT ![j].phase = "engine", ![j].pcm = b]
          \/ job' = [job EXCEPT ![j].phase = "done", ![j].verdict = "bad-audio"]
      BY <1>21 DEF ReadPcm
    <3>2. b \in BOOLEAN /\ UNCHANGED <<active, pending, queue>>
      BY <1>21 DEF ReadPcm
    <3> HIDE DEF b
    <3>3. job' \in [Jobs -> JobType]
      <4>1. "engine" \in Phases /\ "done" \in Phases /\ "bad-audio" \in Verdicts
        BY DEF Phases, Verdicts
      <4>2. [job EXCEPT ![j].phase = "engine", ![j].pcm = b] \in [Jobs -> JobType]
        BY <3>2, <4>1, JobPhaseType
      <4>3. [job EXCEPT ![j].phase = "done", ![j].verdict = "bad-audio"]
              \in [Jobs -> JobType]
        BY <4>1, JobPhaseType
      <4> QED BY <3>1, <4>2, <4>3
    <3> QED BY <3>2, <3>3 DEF JobsType
  <2>2. MessagesType'
    BY <1>21 DEF ReadPcm, MessagesType
  <2>3. PcmType' /\ HistoryType' /\ ModelType' /\ CaptureType' /\ ControlType'
    BY <1>21 DEF ReadPcm, PcmType, pcm, HistoryType, ModelType, model, CaptureType, capture, ControlType, control
  <2> QED BY <2>1, <2>2, <2>3 DEF TypeOK
<1>22. ASSUME NEW j \in Jobs, TakeEngine(j) PROVE TypeOK'
  <2>1. JobsType'
    BY <1>22, JobPhaseType DEF TakeEngine, Verdicts, Phases, JobsType, jobs
  <2>2. MessagesType'
    BY <1>22 DEF TakeEngine, MessagesType
  <2>3. PcmType' /\ HistoryType' /\ ModelType' /\ CaptureType' /\ ControlType'
    BY <1>22 DEF TakeEngine, PcmType, pcm, HistoryType, ModelType, model, CaptureType, capture, ControlType, control
  <2> QED BY <2>1, <2>2, <2>3 DEF TypeOK
<1>23. ASSUME NEW j \in Jobs, Transcribe(j) PROVE TypeOK'
  <2>1. JobsType'
    <3>1. PICK v \in {"engine-failed", "cancelled", "result", "frame-error"} :
            job' = [job EXCEPT ![j].phase = "done", ![j].verdict = v]
      BY <1>23 DEF Transcribe
    <3>2. job' \in [Jobs -> JobType]
      BY <3>1, JobPhaseType DEF Phases, Verdicts
    <3> QED BY <1>23, <3>2 DEF Transcribe, JobsType
  <2>2. MessagesType'
    BY <1>23 DEF Transcribe, MessagesType
  <2>3. PcmType' /\ HistoryType' /\ ModelType' /\ CaptureType' /\ ControlType'
    BY <1>23 DEF Transcribe, PcmType, pcm, HistoryType, ModelType, model, CaptureType, capture, ControlType, control
  <2> QED BY <2>1, <2>2, <2>3 DEF TypeOK
<1>24. ASSUME NEW j \in Jobs, FinishOrphan(j) PROVE TypeOK'
  <2>1. JobsType'
    BY <1>24, FreeJobType DEF FinishOrphan, Running, JobsType, jobs
  <2>2. MessagesType'
    BY <1>24 DEF FinishOrphan, Running, MessagesType
  <2>3. PcmType' /\ HistoryType' /\ ModelType' /\ CaptureType' /\ ControlType'
    BY <1>24 DEF FinishOrphan, Running, PcmType, pcm, HistoryType, ModelType, model, CaptureType, capture, ControlType, control
  <2> QED BY <2>1, <2>2, <2>3 DEF TypeOK
<1>25. ASSUME NEW j \in Jobs, Finish(j) PROVE TypeOK'
  BY <1>25, FinishType
<1>26. ASSUME DeferredUnload PROVE TypeOK'
  <2>1. ModelType'
    <3>1. sessions = 1
      BY <1>26, ReleaseType DEF Slots, DeferredUnload
    <3>2. sessions' = 0
      BY <1>26, <3>1 DEF DeferredUnload
    <3>3. engine' \in BOOLEAN /\ unloading' \in BOOLEAN /\ identity' = identity
      BY <1>26 DEF DeferredUnload, ModelType
    <3> QED BY <3>2, <3>3 DEF ModelType
  <2>2. MessagesType'
    BY <1>26 DEF DeferredUnload, MessagesType
  <2>3. PcmType' /\ HistoryType' /\ JobsType' /\ CaptureType' /\ ControlType'
    BY <1>26 DEF DeferredUnload, PcmType, pcm, HistoryType, JobsType, jobs, CaptureType, capture, ControlType, control
  <2> QED BY <2>1, <2>2, <2>3 DEF TypeOK
<1>27. ASSUME OpenSource PROVE TypeOK'
  <2>1. CaptureType'
    BY <1>27, GotoType DEF OpenSource, Raise, LoseDevice, Steps, CaptureType, capture
  <2>2. MessagesType'
    BY <1>27 DEF OpenSource, Msg, Message, Requests, Types, Verdicts, MessagesType
  <2>3. PcmType' /\ HistoryType' /\ JobsType' /\ ModelType' /\ ControlType'
    BY <1>27 DEF OpenSource, PcmType, pcm, HistoryType, JobsType, jobs, ModelType, model, ControlType, control
  <2> QED BY <2>1, <2>2, <2>3 DEF TypeOK
<1>28. ASSUME StartReading PROVE TypeOK'
  <2>1. CaptureType'
    BY <1>28, GotoType, ChainHead DEF StartReading, Steps, CaptureType, capture
  <2>2. MessagesType'
    BY <1>28, ChainHead DEF StartReading, Msg, Message, Requests, Types, Verdicts, MessagesType
  <2>3. PcmType' /\ HistoryType' /\ JobsType' /\ ModelType' /\ ControlType'
    BY <1>28 DEF StartReading, PcmType, pcm, HistoryType, JobsType, jobs, ModelType, model, ControlType, control
  <2> QED BY <2>1, <2>2, <2>3 DEF TypeOK
<1>29. ASSUME ReadChunk PROVE TypeOK'
  <2>1. CaptureType'
    BY <1>29, GotoType DEF ReadChunk, Raise, Steps, CaptureType, capture
  <2>2. MessagesType'
    BY <1>29 DEF ReadChunk, MessagesType
  <2>3. PcmType' /\ HistoryType' /\ JobsType' /\ ModelType' /\ ControlType'
    BY <1>29 DEF ReadChunk, PcmType, pcm, HistoryType, JobsType, jobs, ModelType, model, ControlType, control
  <2> QED BY <2>1, <2>2, <2>3 DEF TypeOK
<1>30. ASSUME NEW full \in BOOLEAN, Deliver(full) PROVE TypeOK'
  <2>1. PcmType'
    BY <1>30, ChainHead DEF Deliver, PcmType, pcm
  <2>2. CaptureType'
    BY <1>30, GotoType, StoppedGotoType DEF Deliver, Steps, CaptureType, capture
  <2>3. MessagesType'
    <3>1. chain[1].uid \in Utts
      BY <1>30, ChainHead DEF Deliver
    <3>2. Msg("record.limit", "event", chain[1].uid) \in Message
      BY <3>1, MsgType DEF Types, Requests
    <3> QED BY <1>30, <3>2 DEF Deliver, MessagesType
  <2>4. HistoryType' /\ JobsType' /\ ModelType' /\ ControlType'
    BY <1>30 DEF Deliver, HistoryType, JobsType, jobs, ModelType, model, ControlType, control
  <2> QED BY <2>1, <2>2, <2>3, <2>4 DEF TypeOK
<1>31. ASSUME LeaveReading PROVE TypeOK'
  <2>1. CaptureType'
    BY <1>31, GotoType DEF LeaveReading, LoseDevice, Steps, CaptureType, capture
  <2>2. MessagesType'
    BY <1>31 DEF LeaveReading, MessagesType
  <2>3. PcmType' /\ HistoryType' /\ JobsType' /\ ModelType' /\ ControlType'
    BY <1>31 DEF LeaveReading, PcmType, pcm, HistoryType, JobsType, jobs, ModelType, model, ControlType, control
  <2> QED BY <2>1, <2>2, <2>3 DEF TypeOK
<1>32. ASSUME ReportChange PROVE TypeOK'
  <2>1. PcmType'
    BY <1>32, ChainHead DEF ReportChange, Kept, StillKept, PcmType, pcm
  <2>2. CaptureType'
    BY <1>32, GotoType, StoppedGotoType DEF ReportChange, Steps, CaptureType, capture
  <2>3. MessagesType'
    <3>1. \A v \in Utts : Msg("device.changed", "event", v) \in Message
      BY MsgType DEF Types, Requests
    <3>2. chain[1].uid \in Utts
      BY <1>32, ChainHead DEF ReportChange
    <3>3. out' \subseteq {Msg("device.changed", "event", v) : v \in Utts}
      BY <1>32, <3>2 DEF ReportChange, StillKept
    <3>4. owed' = owed
      BY <1>32 DEF ReportChange
    <3> QED BY <3>1, <3>3, <3>4 DEF MessagesType
  <2>4. HistoryType' /\ JobsType' /\ ModelType' /\ ControlType'
    BY <1>32 DEF ReportChange, HistoryType, JobsType, jobs, ModelType, model, ControlType, control
  <2> QED BY <2>1, <2>2, <2>3, <2>4 DEF TypeOK
<1>33. ASSUME ReportError PROVE TypeOK'
  <2>1. PcmType'
    BY <1>33 DEF ReportError, DropRecord, PcmType, pcm
  <2>2. CaptureType'
    BY <1>33, GotoType DEF ReportError, DropRecord, Steps, CaptureType, capture
  <2>3. MessagesType'
    BY <1>33, ChainHead DEF ReportError, DropRecord, Msg, Message, Requests, Types, Verdicts, MessagesType
  <2>4. HistoryType' /\ JobsType' /\ ModelType' /\ ControlType'
    BY <1>33 DEF ReportError, DropRecord, HistoryType, JobsType, jobs, ModelType, model, ControlType, control
  <2> QED BY <2>1, <2>2, <2>3, <2>4 DEF TypeOK
<1>34. ASSUME CloseSource PROVE TypeOK'
  <2>1. CaptureType'
    BY <1>34, ChainTail DEF CloseSource, CaptureType, capture
  <2>2. MessagesType'
    BY <1>34, ChainHead DEF CloseSource, Msg, Message, Requests, Types, Verdicts, MessagesType
  <2>3. PcmType' /\ HistoryType' /\ JobsType' /\ ModelType' /\ ControlType'
    BY <1>34 DEF CloseSource, PcmType, pcm, HistoryType, JobsType, jobs, ModelType, model, ControlType, control
  <2> QED BY <2>1, <2>2, <2>3 DEF TypeOK
<1>35. ASSUME NEW u \in Utts, Age(u) PROVE TypeOK'
  <2>1. PcmType'
    BY <1>35 DEF Age, PcmType, pcm
  <2>2. MessagesType'
    BY <1>35 DEF Age, MessagesType
  <2>3. HistoryType' /\ JobsType' /\ ModelType' /\ CaptureType' /\ ControlType'
    BY <1>35 DEF Age, HistoryType, JobsType, jobs, ModelType, model, CaptureType, capture, ControlType, control
  <2> QED BY <2>1, <2>2, <2>3 DEF TypeOK
<1>36. ASSUME Ended PROVE TypeOK'
  <2>1. PcmType' /\ HistoryType' /\ JobsType' /\ ModelType' /\ CaptureType' /\ ControlType' /\ MessagesType'
    BY <1>36 DEF Ended, vars, PcmType, pcm, HistoryType, JobsType, jobs, ModelType, model, CaptureType, capture, ControlType, control, MessagesType
  <2> QED BY <2>1 DEF TypeOK
<1> QED
  BY <1>0, <1>1, <1>2, <1>3, <1>4, <1>5, <1>6, <1>7, <1>8, <1>9, <1>10, <1>11, <1>12, <1>13, <1>14, <1>15, <1>16, <1>17, <1>18, <1>19, <1>20, <1>21, <1>22, <1>23, <1>24, <1>25, <1>26, <1>27, <1>28, <1>29, <1>30, <1>31, <1>32, <1>33, <1>34, <1>35, <1>36 DEF Next, MainStep, ExecutorStep, CaptureStep

-----------------------------------------------------------------------------
(* The executor, its two slots and the engine.                             *)

SlotsVars == <<active, pending, job, queue, engine, unloading, sessions>>

\* The steps that leave the jobs and the engine alone.
QuietStep ==
  \/ \E u \in Utts : \/ RefuseStart(u) \/ RecordStart(u) \/ RecordStop(u)
                     \/ LateStop(u) \/ CancelUnknown(u) \/ Age(u)
  \/ \E u \in Utts, file \in BOOLEAN : RefuseRecognize(u, file) \/ SubmitFails(u, file)
  \/ AudioClose \/ \E m \in Models : AnswerLoad(m)
  \/ Reply \/ Exit \/ Expire \/ RecordDeadline \/ FirstChunkWatchdog
  \/ StopTimeout \/ CaptureStep \/ Ended

\* The steps that do not.
SlotsNext ==
  \/ \E u \in Utts : RecordCancel(u) \/ \E file \in BOOLEAN : Recognize(u, file)
  \/ \E m \in Models, ok \in BOOLEAN : ModelLoad(m, ok)
  \/ ModelUnload \/ Close
  \/ ExecutorStep

\* Every step is one or the other.
LEMMA StepKinds == Next => QuietStep \/ SlotsNext
<1> SUFFICES ASSUME Next PROVE QuietStep \/ SlotsNext
  OBVIOUS
<1>1. CASE MainStep
  BY <1>1, Zenon DEF MainStep, QuietStep, SlotsNext
<1>2. CASE ExecutorStep
  BY <1>2 DEF SlotsNext
<1>3. CASE CaptureStep \/ (\E u \in Utts : Age(u)) \/ Ended
  BY <1>3 DEF QuietStep
<1> QED BY <1>1, <1>2, <1>3 DEF Next

\* Most handlers and callbacks leave the jobs and the engine alone.
LEMMA QuietSteps ==
  ASSUME QuietStep
  PROVE  UNCHANGED SlotsVars
<1> USE DEF SlotsVars, jobs, model, Refuse
<1>1. ASSUME NEW u \in Utts,
             RefuseStart(u) \/ RecordStart(u) \/ RecordStop(u) \/ LateStop(u)
               \/ CancelUnknown(u) \/ Age(u)
      PROVE  UNCHANGED SlotsVars
  BY <1>1 DEF RefuseStart, RecordStart, RecordStop, LateStop, CancelUnknown, Age
<1>2. ASSUME NEW u \in Utts, NEW file \in BOOLEAN,
             RefuseRecognize(u, file) \/ SubmitFails(u, file)
      PROVE  UNCHANGED SlotsVars
  BY <1>2 DEF RefuseRecognize, SubmitFails
<1>3. ASSUME NEW m \in Models, AnswerLoad(m) PROVE UNCHANGED SlotsVars
  BY <1>3 DEF AnswerLoad
<1>4. CASE AudioClose \/ Reply \/ Exit \/ Expire \/ RecordDeadline
             \/ FirstChunkWatchdog \/ StopTimeout \/ Ended
  BY <1>4 DEF AudioClose, Reply, Exit, Expire, RecordDeadline, FirstChunkWatchdog,
              StopTimeout, Ended, vars
<1>5. CASE CaptureStep
  BY <1>5 DEF CaptureStep, OpenSource, StartReading, ReadChunk, Deliver,
              LeaveReading, ReportChange, ReportError, CloseSource
<1> QED BY <1>1, <1>2, <1>3, <1>4, <1>5 DEF QuietStep

\* A slot that is in use is not a free job.
LEMMA SlotPhases ==
  ASSUME JobsType, Slots
  PROVE  /\ \A j \in Jobs : job[j].phase = "free" => j # active /\ j # pending
         /\ \A j \in Jobs : job[j].phase \in Busy => j # pending
         /\ active # None => active \in Jobs /\ queue = <<active>>
<1>1. None \notin Jobs
  BY NoneAssumption
<1>2. /\ active # None => active \in Jobs /\ job[active].phase \in Busy
      /\ pending # None => pending \in Jobs /\ job[pending].phase = "pending"
  BY DEF JobsType, Slots, SlotsOK
<1>3. "free" \notin Busy /\ "pending" \notin Busy
  BY DEF Busy
<1>4. active # None => queue = <<active>>
  BY <1>2 DEF Slots, ExecutorHasOneJob
<1> QED BY <1>1, <1>2, <1>3, <1>4

\* A job enters a slot: no engine is being released, so the executor is free
\* unless there is an active job, and then the new job waits.
LEMMA RecognizeSlots ==
  ASSUME TypeOK, Slots, NEW u \in Utts, NEW file \in BOOLEAN, Recognize(u, file)
  PROVE  Slots'
<1>1. engine /\ ~HasJob(u) /\ pending = None /\ UNCHANGED model
  BY DEF Recognize, RecognizeError
<1>2. PICK j \in Jobs :
        /\ job[j].phase = "free"
        /\ IF active = None
           THEN /\ active' = j /\ queue' = Append(queue, j)
                /\ job' = [job EXCEPT ![j] = NewJob(u, file, "queued")]
                /\ UNCHANGED pending
           ELSE /\ pending' = j
                /\ job' = [job EXCEPT ![j] = NewJob(u, file, "pending")]
                /\ UNCHANGED <<active, queue>>
  BY DEF Recognize
<1>3. EngineExclusive' /\ ~unloading /\ engine'
  BY <1>1 DEF Slots, EngineExclusive, model
<1>4. j # None
  BY NoneAssumption
<1>5. CASE active = None
  <2>1. queue = <<>> /\ \A k \in Jobs : job[k].phase \notin Busy
    <3>1. \A k \in Jobs : job[k].phase \in Busy => active = k
      BY <1>3 DEF Slots, ExecutorHasOneJob
    <3>2. \A k \in Jobs : job[k].phase \notin Busy
      BY <1>5, <3>1, NoneAssumption
    <3> QED BY <3>2 DEF Slots, ExecutorHasOneJob
  <2>2. queue' = <<j>> /\ active' = j /\ pending' = None
    BY <1>1, <1>2, <1>5, <2>1
  <2>3. \A k \in Jobs : job'[k] = IF k = j THEN NewJob(u, file, "queued") ELSE job[k]
    BY <1>2, <1>5 DEF TypeOK, JobsType
  <2>4. /\ NewJob(u, file, "queued").phase = "queued"
        /\ NewJob(u, file, "queued").uid = u
        /\ ~NewJob(u, file, "queued").notified
    BY DEF NewJob, FreeJob
  <2>5. ExecutorHasOneJob'
    BY <2>1, <2>2, <2>3, <2>4 DEF ExecutorHasOneJob, Slots, Busy
  <2>6. SlotsOK'
    BY <1>3, <2>2, <2>3, <2>4 DEF SlotsOK, Slots, Busy
  <2> QED BY <1>3, <2>5, <2>6 DEF Slots
<1>6. CASE active # None
  <2>1. active \in Jobs /\ job[active].phase \in Busy /\ job[active].uid # u
    BY <1>1, <1>6 DEF HasJob, Current, Slots, SlotsOK, TypeOK, JobsType
  <2>2. j # active
    BY <1>2, <2>1 DEF Busy
  <2>3. \A k \in Jobs : job'[k] = IF k = j THEN NewJob(u, file, "pending") ELSE job[k]
    BY <1>2, <1>6 DEF TypeOK, JobsType
  <2>4. /\ NewJob(u, file, "pending").phase = "pending"
        /\ NewJob(u, file, "pending").uid = u
        /\ ~NewJob(u, file, "pending").notified /\ ~NewJob(u, file, "pending").token
    BY DEF NewJob, FreeJob
  <2>5. pending' = j /\ active' = active /\ queue' = queue
    BY <1>2, <1>6
  <2>6. ExecutorHasOneJob'
    BY <1>2, <1>3, <2>1, <2>2, <2>3, <2>4, <2>5
       DEF ExecutorHasOneJob, Slots, Busy, model
  <2>7. SlotsOK'
    <3>1. job'[active] = job[active] /\ job'[j] = NewJob(u, file, "pending")
      BY <2>1, <2>2, <2>3
    <3>2. \A k \in Jobs : job'[k].notified => job'[k].token
      BY <2>3, <2>4 DEF SlotsOK, Slots
    <3>3. /\ job'[j].phase = "pending" /\ ~job'[j].token /\ ~job'[j].notified
          /\ job'[j].uid \in Utts \ {job'[active].uid}
      BY <2>1, <2>4, <3>1
    <3>4. active' # None /\ pending' = j /\ active' = active
          /\ job'[active].phase \in Busy /\ engine'
      BY <1>3, <1>6, <2>1, <2>5, <3>1
    <3> QED BY <3>2, <3>3, <3>4 DEF SlotsOK
  <2> QED BY <1>3, <2>6, <2>7 DEF Slots
<1> QED BY <1>5, <1>6

\* What a cancelled job keeps.
LEMMA CancelledJobFields ==
  ASSUME JobsType, Slots, NEW j \in Jobs, NEW b \in BOOLEAN
  PROVE  /\ j = pending => CancelledJob(j, b) = FreeJob
         /\ j # pending =>
              /\ CancelledJob(j, b).phase = job[j].phase
              /\ CancelledJob(j, b).uid = job[j].uid
              /\ CancelledJob(j, b).verdict = job[j].verdict
              /\ CancelledJob(j, b).file = job[j].file
              /\ CancelledJob(j, b).token = (job[j].token \/ j = active)
              /\ CancelledJob(j, b).notified = (job[j].notified \/ (j = active /\ b))
<1>1. job[j] \in JobType
  BY DEF JobsType
<1> QED BY <1>1 DEF CancelledJob, JobType

\* record.cancel empties the waiting slot or marks the active job.
LEMMA CancelSlots ==
  ASSUME TypeOK, Slots, NEW u \in Utts, RecordCancel(u)
  PROVE  Slots'
<1> DEFINE hit(k) == job[k].uid = u
<1>1. /\ active' = active /\ queue' = queue /\ UNCHANGED model
      /\ pending' = IF pending # None /\ hit(pending) THEN None ELSE pending
      /\ \A k \in Jobs : job'[k] = IF hit(k) THEN CancelledJob(k, TRUE) ELSE job[k]
  BY DEF RecordCancel
<1>2. EngineExclusive'
  BY <1>1 DEF model, Slots, EngineExclusive
<1>3. \A k \in Jobs : k = pending /\ hit(k) => job'[k] = FreeJob
  BY <1>1, CancelledJobFields DEF TypeOK
<1>4. \A k \in Jobs : ~(k = pending /\ hit(k)) =>
        /\ job'[k].phase = job[k].phase /\ job'[k].uid = job[k].uid
        /\ job'[k].verdict = job[k].verdict
        /\ job'[k].token = (job[k].token \/ (hit(k) /\ k = active))
        /\ job'[k].notified = (job[k].notified \/ (hit(k) /\ k = active))
  <2> TAKE k \in Jobs
  <2> HAVE ~(k = pending /\ hit(k))
  <2>1. job[k] \in JobType
    BY DEF TypeOK, JobsType
  <2>2. CASE hit(k)
    BY <1>1, <2>2, CancelledJobFields DEF TypeOK
  <2>3. CASE ~hit(k)
    BY <1>1, <2>1, <2>3 DEF JobType
  <2> QED BY <2>2, <2>3
<1>5. ExecutorHasOneJob'
  <2>1. FreeJob.phase = "free" /\ "free" \notin Busy /\ "done" # "free"
    BY DEF FreeJob, Busy
  <2>2. \A k \in Jobs : job[k].phase \in Busy =>
          job'[k].phase = job[k].phase /\ job'[k].uid = job[k].uid
    BY <1>4, SlotPhases DEF TypeOK
  <2>3. \A k \in Jobs : job'[k].phase \in Busy => job[k].phase \in Busy
    BY <1>3, <1>4, <2>1
  <2>4. \A k \in Jobs : job'[k].phase = "done" =>
          job[k].phase = "done" /\ job'[k].verdict = job[k].verdict
    BY <1>3, <1>4, <2>1
  <2>5. unloading' = unloading
    BY <1>1 DEF model
  <2> QED BY <1>1, <2>2, <2>3, <2>4, <2>5 DEF ExecutorHasOneJob, Slots
<1>6. SlotsOK'
  <2>1. \A k \in Jobs : job'[k].notified => job'[k].token
    <3> TAKE k \in Jobs
    <3>1. CASE k = pending /\ hit(k)
      <4>1. ~job'[k].notified
        BY <1>3, <3>1 DEF FreeJob
      <4> QED BY <4>1
    <3>2. CASE ~(k = pending /\ hit(k))
      <4>1. job'[k].token = (job[k].token \/ (hit(k) /\ k = active))
        BY <1>4, <3>2
      <4>2. job'[k].notified = (job[k].notified \/ (hit(k) /\ k = active))
        BY <1>4, <3>2
      <4>3. job[k].notified => job[k].token
        BY DEF Slots, SlotsOK
      <4> QED BY <4>1, <4>2, <4>3, Zenon
    <3> QED BY <3>1, <3>2
  <2>2. active # None =>
          /\ active \in Jobs /\ active # pending
          /\ job'[active].phase \in Busy /\ job'[active].uid = job[active].uid
          /\ engine'
    BY <1>1, <1>4, SlotPhases DEF Slots, SlotsOK, TypeOK, model
  <2>3. pending' # None =>
          /\ pending' = pending /\ pending \in Jobs /\ ~hit(pending)
          /\ job'[pending] = job[pending]
    BY <1>1 DEF TypeOK, JobsType
  <2> QED BY <1>1, <2>1, <2>2, <2>3 DEF Slots, SlotsOK
<1> QED BY <1>2, <1>5, <1>6 DEF Slots

\* unload disowns the running job and leaves its engine to the deferred release.
LEMMA UnloadSlots ==
  ASSUME TypeOK, Slots, Unload
  PROVE  Slots'
<1>1. /\ active' = None /\ pending' = None /\ queue' = queue /\ engine' = FALSE
      /\ unloading' = (unloading \/ (engine /\ active # None))
      /\ sessions' = (IF engine /\ active = None THEN sessions - 1 ELSE sessions)
      /\ \A k \in Jobs : job'[k] = CancelledJob(k, FALSE)
  BY DEF Unload
<1>2. EngineExclusive'
  BY <1>1 DEF Slots, EngineExclusive, TypeOK, ModelType
<1>3. \A k \in Jobs : job'[k].phase \in Busy =>
        /\ job[k].phase \in Busy /\ job'[k].uid = job[k].uid
        /\ job'[k].phase = job[k].phase /\ job'[k].verdict = job[k].verdict
  <2>1. FreeJob.phase \notin Busy
    BY DEF FreeJob, Busy
  <2>2. \A k \in Jobs : k # pending => /\ job'[k].uid = job[k].uid
                                       /\ job'[k].phase = job[k].phase
                                       /\ job'[k].verdict = job[k].verdict
    <3> TAKE k \in Jobs
    <3>1. job'[k] = CancelledJob(k, FALSE)
      BY <1>1
    <3> QED BY <3>1, CancelledJobFields DEF TypeOK
  <2>3. \A k \in Jobs : k = pending => job'[k] = FreeJob
    BY <1>1, CancelledJobFields DEF TypeOK
  <2> QED BY <2>1, <2>2, <2>3
<1>4. \A k \in Jobs : job[k].phase \in Busy => job'[k].phase \in Busy
  BY <1>1, CancelledJobFields, SlotPhases DEF TypeOK
<1>5. \A k \in Jobs : job[k].phase \in Busy => unloading'
  <2>1. \A k \in Jobs : job[k].phase \in Busy => active = k \/ unloading
    BY DEF Slots, ExecutorHasOneJob
  <2>2. active # None => engine
    BY DEF Slots, SlotsOK
  <2> QED BY <1>1, <2>1, <2>2, NoneAssumption
<1>6. ExecutorHasOneJob'
  BY <1>1, <1>3, <1>4, <1>5 DEF Slots, ExecutorHasOneJob, Busy
<1>7. \A k \in Jobs : job'[k].notified => job'[k].token
  <2> TAKE k \in Jobs
  <2>1. CASE k = pending
    <3>1. job'[k] = FreeJob
      BY <1>1, <2>1, CancelledJobFields DEF TypeOK
    <3>2. ~FreeJob.notified
      BY DEF FreeJob
    <3> QED BY <3>1, <3>2
  <2>2. CASE k # pending
    <3>1. job'[k].token = (job[k].token \/ k = active)
      BY <1>1, <2>2, CancelledJobFields DEF TypeOK
    <3>2. job'[k].notified = (job[k].notified \/ (k = active /\ FALSE))
      BY <1>1, <2>2, CancelledJobFields DEF TypeOK
    <3>3. job[k].notified => job[k].token
      BY DEF Slots, SlotsOK
    <3> QED BY <3>1, <3>2, <3>3
  <2> QED BY <2>1, <2>2
<1>8. SlotsOK'
  BY <1>1, <1>7 DEF SlotsOK
<1> QED BY <1>2, <1>6, <1>8 DEF Slots

\* The running job moves from one phase to the next.
LEMMA RunSlots ==
  ASSUME TypeOK, Slots, NEW j \in Jobs, ReadPcm(j) \/ TakeEngine(j) \/ Transcribe(j)
  PROVE  Slots'
<1>1. /\ UNCHANGED <<active, pending, queue, model>> /\ job[j].phase \in Busy
  BY DEF ReadPcm, TakeEngine, Transcribe, Busy
<1>2. /\ \A k \in Jobs \ {j} : job'[k] = job[k]
      /\ job'[j].uid = job[j].uid /\ job'[j].token = job[j].token
      /\ job'[j].notified = job[j].notified
      /\ job'[j].phase \in Busy
      /\ job'[j].phase = "done" => job'[j].verdict \in Verdicts
  <2>1. job[j] \in JobType /\ job \in [Jobs -> JobType]
    BY DEF TypeOK, JobsType
  <2>2. CASE ReadPcm(j)
    BY <2>1, <2>2 DEF ReadPcm, JobType, Busy, Verdicts
  <2>3. CASE TakeEngine(j)
    BY <2>1, <2>3 DEF TakeEngine, JobType, Busy, Verdicts
  <2>4. CASE Transcribe(j)
    <3>1. PICK v \in Verdicts : job' = [job EXCEPT ![j].phase = "done", ![j].verdict = v]
      BY <2>4 DEF Transcribe, Verdicts
    <3> QED BY <2>1, <3>1 DEF JobType, Busy
  <2> QED BY <2>2, <2>3, <2>4
<1>3. EngineExclusive'
  BY <1>1 DEF Slots, EngineExclusive, model
<1>4. ExecutorHasOneJob'
  BY <1>1, <1>2 DEF Slots, ExecutorHasOneJob, model
<1>5. SlotsOK'
  BY <1>1, <1>2, SlotPhases DEF Slots, SlotsOK, model, TypeOK, JobsType, Busy
<1> QED BY <1>3, <1>4, <1>5 DEF Slots

\* A disowned job leaves the executor empty for the deferred release.
LEMMA OrphanSlots ==
  ASSUME TypeOK, Slots, NEW j \in Jobs, FinishOrphan(j)
  PROVE  Slots'
<1>1. /\ UNCHANGED <<active, pending, model>> /\ job[j].phase = "done" /\ active # j
      /\ queue' = Tail(queue) /\ job' = [job EXCEPT ![j] = FreeJob]
  BY DEF FinishOrphan
<1>2. queue = <<j>> /\ active = None
  BY <1>1 DEF Slots, ExecutorHasOneJob, Busy
<1>3. queue' = <<>>
  BY <1>1, <1>2
<1>4. \A k \in Jobs : job'[k] = IF k = j THEN FreeJob ELSE job[k]
  BY <1>1 DEF TypeOK, JobsType
<1>5. EngineExclusive'
  BY <1>1 DEF Slots, EngineExclusive, model
<1>6. ExecutorHasOneJob'
  <2>1. \A k \in Jobs : job'[k].phase \notin Busy
    BY <1>2, <1>4 DEF Slots, ExecutorHasOneJob, FreeJob, Busy
  <2> QED BY <1>3, <2>1 DEF ExecutorHasOneJob, Busy
<1>7. SlotsOK'
  BY <1>1, <1>2, <1>4 DEF Slots, SlotsOK, FreeJob
<1> QED BY <1>5, <1>6, <1>7 DEF Slots

\* The active job leaves; the waiting one takes its place or goes with it.
LEMMA FinishSlots ==
  ASSUME TypeOK, Slots, NEW j \in Jobs, Finish(j)
  PROVE  Slots'
<1> DEFINE dropped == IF Outcome(j) = "engine-failed" THEN {pending} \ {None} ELSE {}
<1>1. /\ UNCHANGED model /\ active = j /\ pending' = None
      /\ active' = (IF dropped = {} THEN pending ELSE None)
      /\ queue' = Tail(queue) \o Launched(dropped)
      /\ \A k \in Jobs : job'[k] =
           IF k \in dropped \cup {j} THEN FreeJob
           ELSE IF k = pending THEN [job[k] EXCEPT !.phase = "queued"] ELSE job[k]
  BY DEF Finish
<1>2. queue = <<j>> /\ engine /\ ~unloading /\ j # None
  BY <1>1, NoneAssumption DEF Slots, ExecutorHasOneJob, SlotsOK, EngineExclusive
<1>3. EngineExclusive'
  BY <1>1 DEF Slots, EngineExclusive, model
<1>4. \A k \in Jobs : k # j => job[k].phase \notin Busy
  BY <1>1, <1>2 DEF Slots, ExecutorHasOneJob
<1>5. \A k \in Jobs : job'[k].notified => job'[k].token
  <2> TAKE k \in Jobs
  <2>1. job[k] \in JobType
    BY DEF TypeOK, JobsType
  <2>2. job[k].notified => job[k].token
    BY DEF Slots, SlotsOK
  <2>3. /\ [job[k] EXCEPT !.phase = "queued"].notified = job[k].notified
        /\ [job[k] EXCEPT !.phase = "queued"].token = job[k].token
        /\ ~FreeJob.notified
    BY <2>1 DEF FreeJob, JobType
  <2> QED BY <1>1, <2>2, <2>3
<1>6. CASE pending = None \/ dropped # {}
  <2>1. active' = None /\ queue' = <<>>
    <3>1. Tail(queue) = <<>> /\ Launched(dropped) = <<>>
      BY <1>2, <1>6 DEF Launched
    <3> QED BY <1>1, <1>6, <3>1
  <2>2. \A k \in Jobs : job'[k].phase \notin Busy
    <3> TAKE k \in Jobs
    <3>1. k # j => k \in dropped \/ k # pending
      BY <1>6, NoneAssumption
    <3>2. FreeJob.phase \notin Busy
      BY DEF FreeJob, Busy
    <3> QED BY <1>1, <1>4, <3>1, <3>2
  <2> QED BY <1>1, <1>3, <1>5, <2>1, <2>2 DEF Slots, ExecutorHasOneJob, SlotsOK, Busy
<1>7. CASE pending # None /\ dropped = {}
  <2>1. pending \in Jobs /\ pending # j /\ job[pending].uid \in Utts
    BY <1>1, <1>2, <1>7, SlotPhases DEF Slots, SlotsOK, TypeOK, JobsType
  <2>2. active' = pending /\ queue' = <<pending>>
    <3>1. Tail(queue) = <<>> /\ Launched(dropped) = <<pending>>
      BY <1>2, <1>7 DEF Launched
    <3>2. <<>> \o <<pending>> = <<pending>>
      OBVIOUS
    <3> QED BY <1>1, <1>7, <3>1, <3>2
  <2>3. job'[pending] = [job[pending] EXCEPT !.phase = "queued"] /\ job'[j] = FreeJob
    BY <1>1, <1>7, <2>1
  <2>4. job'[pending].phase = "queued" /\ job'[pending].uid = job[pending].uid
    <3>1. job[pending] \in JobType
      BY <2>1 DEF TypeOK, JobsType
    <3> QED BY <2>3, <3>1 DEF JobType
  <2>5. \A k \in Jobs : k # pending => job'[k].phase \notin Busy
    <3>1. FreeJob.phase \notin Busy
      BY DEF FreeJob, Busy
    <3>2. \A k \in Jobs : k # pending => job'[k] = FreeJob \/ (k # j /\ job'[k] = job[k])
      BY <1>1, <1>7
    <3> QED BY <1>4, <3>1, <3>2
  <2>6. ExecutorHasOneJob'
    BY <1>2, <2>1, <2>2, <2>4, <2>5 DEF ExecutorHasOneJob, Busy
  <2>7. SlotsOK'
    BY <1>1, <1>2, <1>5, <2>2, <2>4 DEF SlotsOK, Busy, model
  <2> QED BY <1>3, <2>6, <2>7 DEF Slots
<1> QED BY <1>6, <1>7

\* Every step keeps the executor to one job and the engines to one.
LEMMA SlotsStep ==
  ASSUME TypeOK, Slots, [Next]_vars
  PROVE  Slots'
<1>1. CASE UNCHANGED SlotsVars
  BY <1>1 DEF SlotsVars, Slots, EngineExclusive, ExecutorHasOneJob, SlotsOK
<1>2. CASE UNCHANGED vars
  BY <1>1, <1>2 DEF vars, jobs, model, SlotsVars
<1>3. ASSUME NEW u \in Utts, RecordCancel(u) PROVE Slots'
  BY <1>3, CancelSlots
<1>4. ASSUME NEW u \in Utts, NEW file \in BOOLEAN, Recognize(u, file) PROVE Slots'
  BY <1>4, RecognizeSlots
<1>5. ASSUME NEW m \in Models, NEW ok \in BOOLEAN, ModelLoad(m, ok) PROVE Slots'
  <2>1. /\ ~unloading /\ ~engine /\ active = None /\ unloading' = unloading
        /\ engine' = ok /\ sessions' = (IF ok THEN sessions + 1 ELSE sessions)
        /\ UNCHANGED jobs
    BY <1>5 DEF ModelLoad, LoadAnswer, model, TypeOK, ModelType
  <2>2. EngineExclusive'
    BY <2>1 DEF Slots, EngineExclusive
  <2>3. ExecutorHasOneJob' /\ SlotsOK'
    BY <2>1 DEF Slots, ExecutorHasOneJob, SlotsOK, jobs
  <2> QED BY <2>2, <2>3 DEF Slots
<1>6. CASE ModelUnload \/ Close
  BY <1>6, UnloadSlots DEF ModelUnload, Close
<1>7. ASSUME NEW j \in Jobs, ReadPcm(j) \/ TakeEngine(j) \/ Transcribe(j) PROVE Slots'
  BY <1>7, RunSlots
<1>8. ASSUME NEW j \in Jobs, FinishOrphan(j) \/ Finish(j) PROVE Slots'
  BY <1>8, OrphanSlots, FinishSlots
<1>9. CASE DeferredUnload
  <2>1. /\ queue = <<>> /\ unloading /\ ~unloading' /\ sessions' = sessions - 1
        /\ UNCHANGED <<engine, jobs>>
    BY <1>9 DEF DeferredUnload
  <2>2. EngineExclusive'
    BY <2>1 DEF Slots, EngineExclusive
  <2>3. ExecutorHasOneJob' /\ SlotsOK'
    BY <2>1 DEF Slots, ExecutorHasOneJob, SlotsOK, jobs
  <2> QED BY <2>2, <2>3 DEF Slots
<1>10. CASE QuietStep
  BY <1>1, <1>10, QuietSteps
<1>11. CASE ExecutorStep
  BY <1>7, <1>8, <1>9, <1>11 DEF ExecutorStep
<1>12. CASE SlotsNext
  BY <1>3, <1>4, <1>5, <1>6, <1>11, <1>12 DEF SlotsNext
<1> QED BY <1>2, <1>10, <1>12, StepKinds

-----------------------------------------------------------------------------
(* The acknowledgements of record.cancel and audio.close.                  *)

Acked(m) ==
  /\ m.req = "record.cancel" => ~closeFailed /\ ~Capturing(m.uid)'
  /\ m.type = "audio.closed" => ~closeFailed /\ chain' = <<>>

\* A reply that is no acknowledgement may go out at once.
Plain(m) == m.req # "record.cancel" /\ m.type # "audio.closed"

\* What a held reply has to wait for.
Covered(m, w) ==
  /\ m.req = "record.cancel" => m.uid \in w
  /\ m.type = "audio.closed" => w = Utts

\* Returning from a handler: with its waits, or at once and without them.
LEMMA ReturnAcks ==
  ASSUME NEW msg, NEW w \in SUBSET Utts, Return(msg, w),
         msg # None => Covered(msg, w), w = {} => msg = None \/ Plain(msg)
  PROVE  WaitsOK' /\ \A m \in out' : Plain(m)
<1>1. CASE w = {}
  <2>1. main' = "idle" /\ reply' = None /\ out' \subseteq {msg} \ {None}
    BY <1>1 DEF Return
  <2> QED BY <1>1, <2>1 DEF WaitsOK
<1>2. CASE w # {}
  <2>1. main' = "waiting" /\ reply' = msg /\ waits' = w /\ out' = {}
    BY <1>2 DEF Return
  <2> QED BY <2>1 DEF WaitsOK, Covered
<1> QED BY <1>1, <1>2

\* A message of any other request is plain.
LEMMA MsgPlain ==
  ASSUME NEW t, NEW r, NEW u, r # "record.cancel", t # "audio.closed"
  PROVE  Plain(Msg(t, r, u)) /\ \A w : Covered(Msg(t, r, u), w)
BY DEF Plain, Covered, Msg

\* The steps that hold or send the reply of a request.
LEMMA HandlerAcks ==
  ASSUME TypeOK, WaitsOK, MainStep
  PROVE  WaitsOK' /\ \A m \in out' : Acked(m)
<1> USE DEF Acked, Plain
<1>0. {} \in SUBSET Utts /\ Utts \in SUBSET Utts /\ Utts # {}
  BY FileAssumption
<1>1. ASSUME NEW u \in Utts, RefuseStart(u) PROVE WaitsOK' /\ \A m \in out' : Acked(m)
  BY <1>0, <1>1, ReturnAcks, MsgPlain DEF RefuseStart, Refuse
<1>2. ASSUME NEW u \in Utts, RecordStart(u) \/ RecordStop(u)
      PROVE  WaitsOK' /\ \A m \in out' : Acked(m)
  BY <1>0, <1>2, ReturnAcks DEF RecordStart, RecordStop
<1>3. ASSUME NEW u \in Utts, LateStop(u) PROVE WaitsOK' /\ \A m \in out' : Acked(m)
  <2>1. {u} \in SUBSET Utts
    OBVIOUS
  <2> QED BY <1>0, <1>3, <2>1, ReturnAcks, MsgPlain DEF LateStop, Refuse
<1>4. ASSUME NEW u \in Utts, CancelUnknown(u) PROVE WaitsOK' /\ \A m \in out' : Acked(m)
  <2>1. Covered(Msg("bad-state", "record.cancel", u), {u})
    BY DEF Covered, Msg
  <2> QED BY <1>4, <2>1, ReturnAcks DEF CancelUnknown, Refuse
<1>5. ASSUME NEW u \in Utts, RecordCancel(u) PROVE WaitsOK' /\ \A m \in out' : Acked(m)
  <2>1. /\ CancelWait(u) \in SUBSET Utts /\ u \in CancelWait(u)
        /\ Return(Msg("cancelled", "record.cancel", u), CancelWait(u))
    BY <1>5 DEF RecordCancel, CancelWait
  <2>2. Covered(Msg("cancelled", "record.cancel", u), CancelWait(u))
    BY <2>1 DEF Covered, Msg
  <2> QED BY <2>1, <2>2, ReturnAcks
<1>6. ASSUME NEW u \in Utts, NEW file \in BOOLEAN, RefuseRecognize(u, file)
      PROVE  WaitsOK' /\ \A m \in out' : Acked(m)
  <2>1. PICK msg \in RecognizeError(u, file) :
          Return(msg, IF msg.type = "bad-state" /\ ~file THEN {u} ELSE {})
    BY <1>6 DEF RefuseRecognize, Refuse
  <2>2. Plain(msg) /\ \A w : Covered(msg, w)
    BY <2>1 DEF RecognizeError, Msg, Covered
  <2>3. (IF msg.type = "bad-state" /\ ~file THEN {u} ELSE {}) \in SUBSET Utts
    OBVIOUS
  <2> QED BY <2>1, <2>2, <2>3, ReturnAcks
<1>7. ASSUME NEW u \in Utts, NEW file \in BOOLEAN, Recognize(u, file)
      PROVE  WaitsOK' /\ \A m \in out' : Acked(m)
  BY <1>0, <1>7, ReturnAcks DEF Recognize, TakeRecord
<1>8. ASSUME NEW u \in Utts, NEW file \in BOOLEAN, SubmitFails(u, file)
      PROVE  WaitsOK' /\ \A m \in out' : Acked(m)
  <2>1. reply' = None
        /\ out' = {Msg("engine-failed", IF file THEN "transcribe.file" ELSE "recognize", u)}
    BY <1>8 DEF SubmitFails
  <2> QED BY <2>1 DEF WaitsOK, Msg
<1>9. CASE AudioClose
  <2>1. Return(Msg("audio.closed", "audio.close", None), Utts)
    BY <1>9 DEF AudioClose
  <2>2. Covered(Msg("audio.closed", "audio.close", None), Utts)
    BY DEF Covered, Msg
  <2> QED BY <1>0, <2>1, <2>2, ReturnAcks
<1>10. ASSUME NEW m \in Models, AnswerLoad(m) PROVE WaitsOK' /\ \A n \in out' : Acked(n)
  <2>1. PICK t \in LoadAnswer(m) : Return(Msg(t, "model.load", None), {})
    BY <1>10 DEF AnswerLoad, Refuse
  <2>2. t # "audio.closed"
    BY <2>1 DEF LoadAnswer
  <2> QED BY <1>0, <2>1, <2>2, ReturnAcks, MsgPlain
<1>11. ASSUME NEW m \in Models, NEW ok \in BOOLEAN, ModelLoad(m, ok)
       PROVE  WaitsOK' /\ \A n \in out' : Acked(n)
  <2>1. Return(Msg(IF ok THEN "model.loaded" ELSE "engine-failed", "model.load", None), {})
    BY <1>11 DEF ModelLoad
  <2> QED BY <1>0, <2>1, ReturnAcks, MsgPlain
<1>12. CASE ModelUnload
  BY <1>0, <1>12, ReturnAcks DEF ModelUnload
<1>13. CASE Close \/ Exit \/ StopTimeout
  BY <1>13 DEF Close, Exit, StopTimeout, WaitsOK
<1>14. CASE Reply
  <2>1. /\ main = "waiting" /\ ~closeFailed /\ \A u \in waits : ~Capturing(u)
        /\ main' = "idle" /\ reply' = None /\ out' = {reply} \ {None} /\ chain' = chain
    BY <1>14 DEF Reply, capture
  <2>2. WaitsOK'
    BY <2>1 DEF WaitsOK
  <2>3. ASSUME NEW m \in out', m.req = "record.cancel" PROVE ~Capturing(m.uid)'
    <3>1. m = reply /\ reply # None
      BY <2>1
    <3>2. ~Capturing(m.uid)
      BY <2>1, <2>3, <3>1 DEF WaitsOK
    <3> QED BY <2>1, <3>2 DEF Capturing
  <2>4. ASSUME reply # None, reply.type = "audio.closed" PROVE chain = <<>>
    <3>1. \A u \in Utts : ~Capturing(u)
      BY <2>1, <2>4 DEF WaitsOK
    <3>2. CASE chain # <<>>
      <4>1. chain[1] \in Capture /\ 1 \in DOMAIN chain
        BY <3>2 DEF TypeOK, CaptureType
      <4> QED BY <3>1, <4>1 DEF Capturing, Capture
    <3> QED BY <3>2
  <2>5. ASSUME NEW m \in out', m.type = "audio.closed" PROVE chain' = <<>>
    BY <2>1, <2>4, <2>5
  <2> QED BY <2>1, <2>2, <2>3, <2>5
<1>15. CASE Expire
  BY <1>0, <1>15, ReturnAcks DEF Expire, Refuse
<1>16. CASE RecordDeadline
  BY <1>16 DEF RecordDeadline, control, WaitsOK
<1>17. CASE FirstChunkWatchdog
  <2>1. UNCHANGED control /\ out' \subseteq {Msg("audio-error", "event", silent)}
    BY <1>17 DEF FirstChunkWatchdog, DropRecord
  <2> QED BY <2>1, MsgPlain DEF control, WaitsOK
<1> QED BY <1>1, <1>2, <1>3, <1>4, <1>5, <1>6, <1>7, <1>8, <1>9, <1>10, <1>11,
           <1>12, <1>13, <1>14, <1>15, <1>16, <1>17, Zenon DEF MainStep

\* The executor and the capture threads hold no reply and send none.
LEMMA ThreadAcks ==
  ASSUME TypeOK, Slots, WaitsOK,
         ExecutorStep \/ CaptureStep \/ \E u \in Utts : Age(u)
  PROVE  WaitsOK' /\ \A m \in out' : Acked(m)
<1>1. UNCHANGED control
  BY DEF ExecutorStep, CaptureStep, ReadPcm, TakeEngine, Transcribe, FinishOrphan, Finish,
         DeferredUnload, OpenSource, StartReading, ReadChunk, Deliver, LeaveReading,
         ReportChange, ReportError, CloseSource, Age
<1>2. WaitsOK'
  BY <1>1 DEF WaitsOK, control
<1>3. ASSUME NEW j \in Jobs, Finish(j) PROVE \A m \in out' : Plain(m)
  <2>1. job[j].phase = "done" /\ job[j].verdict \in Verdicts
    BY <1>3 DEF Finish, Slots, ExecutorHasOneJob
  <2>2. Outcome(j) # "audio.closed"
    BY <2>1 DEF Outcome, Verdicts
  <2>3. \A k : Request(k) # "record.cancel"
    BY DEF Request
  <2>4. \A m \in out' : \E k : m = Msg(IF k = j THEN Outcome(j) ELSE "engine-failed",
                                       Request(k), job[k].uid)
    BY <1>3 DEF Finish
  <2> QED BY <2>2, <2>3, <2>4 DEF Plain, Msg
<1>4. ASSUME NEW j \in Jobs, ReadPcm(j) \/ TakeEngine(j) \/ Transcribe(j) \/ FinishOrphan(j)
      PROVE  out' = {}
  BY <1>4 DEF ReadPcm, TakeEngine, Transcribe, FinishOrphan
<1>5. ASSUME DeferredUnload \/ \E u \in Utts : Age(u) PROVE out' = {}
  BY <1>5 DEF DeferredUnload, Age
<1>6. ASSUME CaptureStep PROVE \A m \in out' : Plain(m)
  <2> DEFINE Event(t) == {Msg(t, "event", u) : u \in Utts \cup {None}}
  <2>1. \A t \in Types \ {"audio.closed"} : \A m \in Event(t) : Plain(m)
    BY DEF Msg, Plain
  <2>2. /\ chain # <<>> => chain[1].uid \in Utts
        /\ recording \in Utts \cup {None}
    <3>1. ASSUME chain # <<>> PROVE chain[1].uid \in Utts
      <4>1. chain \in Seq(Capture) /\ chain[1] \in Capture
        BY <3>1 DEF TypeOK, CaptureType
      <4> QED BY <4>1 DEF Capture
    <3> QED BY <3>1 DEF TypeOK, PcmType
  <2>3. ASSUME OpenSource \/ StartReading \/ CloseSource
        PROVE  out' \subseteq Event("audio.ready") \cup Event("record.started")
                               \cup Event("record.stopped")
    <3>1. CASE OpenSource
      BY <3>1 DEF OpenSource
    <3>2. CASE StartReading
      BY <2>2, <3>2 DEF StartReading, At
    <3>3. CASE CloseSource
      BY <2>2, <3>3 DEF CloseSource, At
    <3> QED BY <2>3, <3>1, <3>2, <3>3
  <2>4. ASSUME ReadChunk \/ LeaveReading \/ ReportError
        PROVE  out' \subseteq Event("audio-error")
    BY <2>2, <2>4 DEF ReadChunk, LeaveReading, ReportError, DropRecord, At
  <2>5. ASSUME ReportChange PROVE out' \subseteq Event("device.changed")
    BY <2>2, <2>5 DEF ReportChange, At, StillKept
  <2>6. ASSUME NEW full \in BOOLEAN, Deliver(full) PROVE out' \subseteq Event("record.limit")
    BY <2>2, <2>6 DEF Deliver
  <2>7. {"audio.ready", "record.started", "record.stopped", "audio-error",
         "device.changed", "record.limit"} \subseteq Types \ {"audio.closed"}
    BY DEF Types
  <2> HIDE DEF Event
  <2>8. \A m \in out' : \E t \in Types \ {"audio.closed"} : m \in Event(t)
    BY <1>6, <2>3, <2>4, <2>5, <2>6, <2>7 DEF CaptureStep
  <2> QED BY <2>1, <2>8
<1> QED BY <1>2, <1>3, <1>4, <1>5, <1>6 DEF ExecutorStep, Acked, Plain

\* Every step sends acknowledgements only behind their threads, and holds the next
\* one until its threads have ended.
LEMMA AckStep ==
  ASSUME TypeOK, Slots, WaitsOK, [Next]_vars
  PROVE  WaitsOK' /\ [\A m \in out' : Acked(m)]_vars
<1>1. CASE UNCHANGED vars
  BY <1>1 DEF vars, control, WaitsOK
<1>2. CASE Ended
  BY <1>1, <1>2 DEF Ended
<1> QED BY <1>1, <1>2, HandlerAcks, ThreadAcks DEF Next

-----------------------------------------------------------------------------
(* The theorems.                                                           *)

IInv == TypeOK /\ Slots /\ WaitsOK

\* The initial state.
LEMMA InitInv == Init => IInv
<1> SUFFICES ASSUME Init PROVE IInv
  OBVIOUS
<1>1. TypeOK
  <2>1. PcmType /\ ModelType /\ ControlType /\ MessagesType
    BY DEF Init, PcmType, ModelType, ControlType, MessagesType
  <2>2. HistoryType
    BY HistoryAssumption DEF Init, HistoryType
  <2>3. JobsType
    BY FreeJobType DEF Init, JobsType
  <2>4. CaptureType
    <3>1. <<>> \in Seq(Capture)
      OBVIOUS
    <3> QED BY <3>1 DEF Init, CaptureType
  <2> QED BY <2>1, <2>2, <2>3, <2>4 DEF TypeOK
<1>2. EngineExclusive /\ SlotsOK /\ WaitsOK
  BY DEF Init, EngineExclusive, SlotsOK, FreeJob, WaitsOK
<1>3. ExecutorHasOneJob
  BY DEF Init, ExecutorHasOneJob, FreeJob, Busy
<1> QED BY <1>1, <1>2, <1>3 DEF IInv, Slots

\* The invariant is inductive.
LEMMA NextInv == IInv /\ [Next]_vars => IInv'
BY TypeStep, SlotsStep, AckStep DEF IInv

\* IInv holds in every reachable state.
THEOREM Invariance == Spec => []IInv
BY InitInv, NextInv, PTL DEF Spec

\* Every variable of the worker keeps its type in every state, and the history of
\* cancelled ids its limit (_remember_cancelled).
THEOREM TypeCorrect == Spec => []TypeOK
<1>1. IInv => TypeOK
  BY DEF IInv
<1> QED BY <1>1, Invariance, PTL

\* For every number of jobs and ids: two engines are never loaded at once, and the
\* engine is never released under the job that is inferring (_release_engine).
THEOREM EngineSafe == Spec => []EngineInUse
<1>1. IInv => EngineInUse
  <2> SUFFICES ASSUME IInv PROVE EngineInUse
    OBVIOUS
  <2>1. sessions <= 1 /\ sessions = (IF engine \/ unloading THEN 1 ELSE 0)
    BY DEF IInv, Slots, EngineExclusive
  <2>2. \A j \in Jobs : job[j].phase = "infer" => engine \/ unloading
    BY NoneAssumption DEF IInv, Slots, ExecutorHasOneJob, SlotsOK, Busy
  <2> QED BY <2>1, <2>2 DEF EngineInUse
<1> QED BY <1>1, Invariance, PTL

\* The answer to record.cancel and audio.closed leave the worker only when the
\* capture threads they speak of have ended, for any number of ids and threads.
THEOREM AckBarrierHolds == Spec => AckBarrier
<1>1. IInv /\ [Next]_vars => [\A m \in out' : Acked(m)]_vars
  BY AckStep DEF IInv
<1> QED BY <1>1, Invariance, PTL DEF Spec, AckBarrier, Acked

-----------------------------------------------------------------------------
(* The kept PCM, the microphone and the outcomes.                          *)

\* Only the newest capture thread may still run, for the phrase that is recorded, or to close the
\* source after its own failure; no two threads are of one phrase.
MicInv ==
  /\ \A i, k \in DOMAIN chain : chain[i].uid = chain[k].uid => i = k
  /\ \A i \in DOMAIN chain : chain[i].run =>
       i = Len(chain) /\ (recording = chain[i].uid \/ chain[i].step = "closing")

\* The ids of the two slots: all of them, those whose job reads the kept PCM, and those whose outcome
\* nobody has announced.
Held == {job[j].uid : j \in Current}
Wanted == {job[j].uid : j \in {k \in Current : ~job[k].file /\ ~job[k].token}}
Unanswered == {job[j].uid : j \in {k \in Current : ~job[k].notified}}

Names(h) == {h[i] : i \in DOMAIN h}
Once(h) == \A i, k \in DOMAIN h : h[i] = h[k] => i = k

\* Who owns which PCM, in terms of ids.
Owners ==
  /\ recording # None => recording \in buffers \ stopped /\ recording \notin deviceChanged \cup Held
  /\ stale \subseteq stopped /\ stopped \subseteq buffers /\ deviceChanged \subseteq buffers
  /\ Held \cap stopped = {}
  /\ Held \cap buffers = Wanted
  /\ buffers \subseteq {recording} \cup stopped \cup Wanted
  /\ Names(history) \cap buffers = {} /\ Once(history)

\* A job that nobody waits for is cancelled; one that is not has read its PCM.
JobInv ==
  /\ \A j \in Jobs : job[j].phase \in Busy /\ active # j => job[j].token
  /\ \A j \in Jobs : job[j].phase \in {"engine", "infer"} /\ ~job[j].token => job[j].pcm
  /\ \A j \in Jobs : job[j].verdict = "result" => job[j].phase = "done" /\ (job[j].token \/ job[j].pcm)

\* A message that is not about kept PCM, and a reply never is.
Quiet(m) == m.type \notin {"record.limit", "device.changed"}
ReplyInv == reply # None => Quiet(reply)

-----------------------------------------------------------------------------
(* The chain of capture threads.                                           *)

\* request_stop clears the running flag of the newest thread and of no other.
LEMMA StopNewestFields ==
  ASSUME CaptureType, NEW b \in BOOLEAN
  PROVE  /\ StopNewest(b) \in Seq(Capture) /\ Len(StopNewest(b)) = Len(chain)
         /\ \A i \in 1..Len(chain) :
              /\ StopNewest(b)[i].uid = chain[i].uid /\ StopNewest(b)[i].step = chain[i].step
              /\ StopNewest(b)[i].run = (chain[i].run /\ i # Len(chain))
<1>1. StopNewest(b) \in Seq(Capture) /\ Len(StopNewest(b)) = Len(chain)
  BY StopNewestType
<1>2. CASE chain = <<>>
  BY <1>1, <1>2 DEF CaptureType
<1>3. CASE chain # <<>>
  <2> DEFINE n == Len(chain)
             t == [chain[n] EXCEPT !.run = FALSE, !.cancel = @ \/ b]
  <2>1. n \in 1..Len(chain) /\ chain \in [1..n -> Capture]
    BY <1>3 DEF CaptureType
  <2>2. StopNewest(b) = [chain EXCEPT ![n] = t]
    BY <1>3 DEF StopNewest
  <2>3. t.uid = chain[n].uid /\ t.step = chain[n].step /\ t.run = FALSE
    BY <2>1 DEF Capture
  <2> SUFFICES ASSUME NEW i \in 1..Len(chain)
               PROVE  /\ StopNewest(b)[i].uid = chain[i].uid /\ StopNewest(b)[i].step = chain[i].step
                      /\ StopNewest(b)[i].run = (chain[i].run /\ i # Len(chain))
    BY <1>1
  <2>4. chain[i].run \in BOOLEAN
    BY <2>1 DEF Capture
  <2> HIDE DEF t
  <2>5. CASE i = n
    BY <2>1, <2>2, <2>3, <2>5
  <2>6. CASE i # n
    <3>1. StopNewest(b)[i] = chain[i]
      BY <2>1, <2>2, <2>6
    <3> QED BY <2>4, <2>6, <3>1
  <2> QED BY <2>5, <2>6
<1> QED BY <1>2, <1>3

\* The head of the chain goes to another step.
LEMMA GotoFields ==
  ASSUME CaptureType, NEW at, At(at), NEW s \in Steps, Goto(s)
  PROVE  /\ Len(chain') = Len(chain) /\ 1 \in 1..Len(chain) /\ chain' \in Seq(Capture)
         /\ \A i \in 1..Len(chain) :
              /\ chain'[i].uid = chain[i].uid /\ chain'[i].run = chain[i].run
              /\ chain'[i].step = IF i = 1 THEN s ELSE chain[i].step
<1>1. 1 \in 1..Len(chain) /\ chain[1] \in Capture /\ chain \in [1..Len(chain) -> Capture]
  BY ChainHead DEF CaptureType
<1>2. Len(chain') = Len(chain) /\ chain' \in Seq(Capture)
  BY GotoType
<1> DEFINE t == [chain[1] EXCEPT !.step = s]
<1>3. t.uid = chain[1].uid /\ t.run = chain[1].run /\ t.step = s
  BY <1>1 DEF Capture
<1>4. chain' = [chain EXCEPT ![1] = t]
  BY DEF Goto
<1> HIDE DEF t
<1> QED BY <1>1, <1>2, <1>3, <1>4

LEMMA SameLength ==
  ASSUME NEW m \in Nat, NEW n \in Nat, 1..m = 1..n
  PROVE  m = n
<1>1. m \in 1..m \/ m = 0
  OBVIOUS
<1>2. n \in 1..n \/ n = 0
  OBVIOUS
<1>3. m <= n
  <2>1. m \in 1..n \/ m = 0
    BY <1>1
  <2> QED BY <2>1
<1>4. n <= m
  <2>1. n \in 1..m \/ n = 0
    BY <1>2
  <2> QED BY <2>1
<1> QED BY <1>3, <1>4

\* The newest thread is stopped and the head goes to another step.
LEMMA StoppedGotoFields ==
  ASSUME CaptureType, NEW at, At(at), NEW s \in Steps,
         chain' = [StopNewest(FALSE) EXCEPT ![1].step = s]
  PROVE  /\ Len(chain') = Len(chain)
         /\ \A i \in 1..Len(chain) :
              /\ chain'[i].uid = chain[i].uid
              /\ chain'[i].run = (chain[i].run /\ i # Len(chain))
<1> DEFINE c == StopNewest(FALSE)
           t == [c[1] EXCEPT !.step = s]
<1>1. 1 \in 1..Len(chain)
  BY ChainHead
<1>2. /\ c \in Seq(Capture) /\ Len(c) = Len(chain)
      /\ \A i \in 1..Len(chain) : c[i].uid = chain[i].uid
                                /\ c[i].run = (chain[i].run /\ i # Len(chain))
  BY StopNewestFields
<1> HIDE DEF c
<1>3. c \in [1..Len(chain) -> Capture] /\ c[1] \in Capture
  BY <1>1, <1>2
<1>4. t.uid = c[1].uid /\ t.run = c[1].run
  BY <1>3 DEF Capture
<1>5. chain' = [c EXCEPT ![1] = t]
  BY DEF c
<1> HIDE DEF t
<1>6. Len(chain') = Len(chain) /\ chain'[1] = t /\ \A i \in 1..Len(chain) : i # 1 => chain'[i] = c[i]
  <2>1. Len(chain') = Len(chain)
    <3>1. DOMAIN chain' = 1..Len(chain)
      BY <1>3, <1>5
    <3>2. Len(chain) \in Nat
      BY DEF CaptureType
    <3>3. chain' \in Seq(Capture)
      BY StoppedGotoType
    <3>4. Len(chain') \in Nat /\ DOMAIN chain' = 1..Len(chain')
      BY <3>3, LenProperties
    <3>5. 1..Len(chain') = 1..Len(chain)
      BY <3>1, <3>4
    <3> QED BY <3>2, <3>4, <3>5, SameLength
  <2>2. chain'[1] = t /\ \A i \in 1..Len(chain) : i # 1 => chain'[i] = c[i]
    BY <1>1, <1>3, <1>5
  <2> QED BY <2>1, <2>2
<1> QED BY <1>1, <1>2, <1>4, <1>6

-----------------------------------------------------------------------------
(* The microphone.                                                         *)

\* Whoever is no longer the one that records has been told to stop.
LEMMA MicStopped ==
  ASSUME TypeOK, MicInv, NEW b \in BOOLEAN, chain' = StopNewest(b)
  PROVE  MicInv'
<1>1. /\ Len(chain') = Len(chain)
      /\ \A i \in 1..Len(chain) : /\ chain'[i].uid = chain[i].uid
                                  /\ chain'[i].run = (chain[i].run /\ i # Len(chain))
  BY StopNewestFields DEF TypeOK
<1>2. DOMAIN chain = 1..Len(chain) /\ DOMAIN chain' = 1..Len(chain)
  <2>1. chain' \in Seq(Capture) /\ chain \in Seq(Capture)
    BY StopNewestType DEF TypeOK, CaptureType
  <2> QED BY <1>1, <2>1
<1> QED BY <1>1, <1>2 DEF MicInv

\* The thread at the head moves on and the record stays.
LEMMA MicMoves ==
  ASSUME TypeOK, MicInv, NEW at, At(at), at # "closing", NEW s \in Steps, Goto(s), recording' = recording
  PROVE  MicInv'
<1>1. /\ Len(chain') = Len(chain) /\ 1 \in 1..Len(chain) /\ chain' \in Seq(Capture)
      /\ \A i \in 1..Len(chain) :
           /\ chain'[i].uid = chain[i].uid /\ chain'[i].run = chain[i].run
           /\ chain'[i].step = IF i = 1 THEN s ELSE chain[i].step
  BY GotoFields DEF TypeOK
<1>2. chain[1].step # "closing" /\ chain \in Seq(Capture)
  BY DEF At, TypeOK, CaptureType
<1>3. DOMAIN chain = 1..Len(chain) /\ DOMAIN chain' = 1..Len(chain)
  BY <1>1, <1>2
<1> QED BY <1>1, <1>2, <1>3 DEF MicInv

\* A new thread starts behind threads that have all been told to stop.
LEMMA MicStarts ==
  ASSUME TypeOK, MicInv, NEW u \in Utts, RecordStart(u)
  PROVE  MicInv'
<1> DEFINE c == StopNewest(FALSE)
           n == [uid |-> u, run |-> TRUE, cancel |-> FALSE, step |-> "open"]
<1>1. chain' = Append(c, n) /\ recording' = u /\ ~Capturing(u)
  BY DEF RecordStart
<1>2. /\ c \in Seq(Capture) /\ Len(c) = Len(chain)
      /\ \A i \in 1..Len(chain) : c[i].uid = chain[i].uid /\ c[i].run = (chain[i].run /\ i # Len(chain))
  BY StopNewestFields DEF TypeOK
<1>3. n \in Capture /\ n.uid = u
  BY DEF Capture, Steps
<1>4. chain \in Seq(Capture) /\ DOMAIN chain = 1..Len(chain)
  BY DEF TypeOK, CaptureType
<1> HIDE DEF c, n
<1>5. /\ DOMAIN chain' = 1..Len(chain) + 1 /\ Len(chain') = Len(chain) + 1
      /\ chain'[Len(chain) + 1] = n /\ \A i \in 1..Len(chain) : chain'[i] = c[i]
  BY <1>1, <1>2, <1>3, <1>4
<1>6. \A i \in 1..Len(chain) : chain'[i].uid # u /\ ~chain'[i].run
  BY <1>1, <1>2, <1>4, <1>5 DEF Capturing, MicInv
<1>7. \A i, k \in 1..Len(chain) : chain'[i].uid = chain'[k].uid => i = k
  BY <1>2, <1>4, <1>5 DEF MicInv
<1>8. Len(chain) \in Nat
  BY <1>4
<1>9. \A i \in 1..Len(chain) + 1 : i = Len(chain) + 1 \/ i \in 1..Len(chain)
  BY <1>8
<1> QED BY <1>1, <1>3, <1>5, <1>6, <1>7, <1>9 DEF MicInv

\* The oldest thread has closed its source.
LEMMA MicCloses ==
  ASSUME TypeOK, MicInv, chain # <<>>, chain' = Tail(chain), recording' = recording
  PROVE  MicInv'
<1>1. chain \in Seq(Capture) /\ Len(chain) \in Nat /\ DOMAIN chain = 1..Len(chain)
  BY DEF TypeOK, CaptureType
<1>2. /\ Len(chain') = Len(chain) - 1 /\ DOMAIN chain' = 1..Len(chain) - 1
      /\ \A i \in 1..Len(chain) - 1 : chain'[i] = chain[i + 1]
  BY <1>1
<1>3. \A i \in 1..Len(chain) - 1 : i + 1 \in 1..Len(chain) /\ i \in Int
  BY <1>1
<1> QED BY <1>1, <1>2, <1>3 DEF MicInv

\* A thread reports its failure: the record it ends is its own, and no other thread runs for it.
LEMMA MicFails ==
  ASSUME TypeOK, MicInv, ReportError
  PROVE  MicInv'
<1>1. At("failing") /\ Goto("closing") /\ "closing" \in Steps
  BY DEF ReportError, Steps
<1>2. /\ Len(chain') = Len(chain) /\ 1 \in 1..Len(chain) /\ chain' \in Seq(Capture)
      /\ \A i \in 1..Len(chain) :
           /\ chain'[i].uid = chain[i].uid /\ chain'[i].run = chain[i].run
           /\ chain'[i].step = IF i = 1 THEN "closing" ELSE chain[i].step
  BY <1>1, GotoFields DEF TypeOK
<1>3. DOMAIN chain = 1..Len(chain) /\ DOMAIN chain' = 1..Len(chain)
  BY <1>2 DEF TypeOK, CaptureType
<1>4. recording # chain[1].uid => recording' = recording
  BY DEF ReportError, DropRecord, pcm
<1>5. \A i \in 1..Len(chain) : i # 1 => chain[i].uid # chain[1].uid
  BY <1>2, <1>3 DEF MicInv
<1> QED BY <1>2, <1>3, <1>4, <1>5 DEF MicInv


\* Every step keeps the microphone to the phrase that is recorded.
LEMMA MicStep ==
  ASSUME TypeOK, MicInv, [Next]_vars
  PROVE  MicInv'
<1>1. CASE UNCHANGED <<chain, recording>>
  BY <1>1 DEF MicInv
<1>2. ASSUME NEW b \in BOOLEAN, chain' = StopNewest(b) PROVE MicInv'
  BY <1>2, MicStopped
<1>3. CASE MainStep
  <2> USE DEF Refuse, pcm, capture
  <2>1. ASSUME NEW u \in Utts, RefuseStart(u) \/ LateStop(u) \/ CancelUnknown(u) PROVE MicInv'
    <3>2. RefuseStart(u) => UNCHANGED <<chain, recording>>
      BY DEF RefuseStart
    <3>3. LateStop(u) => UNCHANGED <<chain, recording>>
      BY DEF LateStop
    <3>4. CancelUnknown(u) => UNCHANGED <<chain, recording>>
      BY DEF CancelUnknown
    <3> QED BY <1>1, <2>1, <3>2, <3>3, <3>4
  <2>2. ASSUME NEW u \in Utts, RecordStart(u) PROVE MicInv'
    BY <2>2, MicStarts
  <2>3. ASSUME NEW u \in Utts, RecordStop(u) PROVE MicInv'
    BY <1>2, <2>3 DEF RecordStop, StopRecording
  <2>4. ASSUME NEW u \in Utts, RecordCancel(u) PROVE MicInv'
    <3>1. chain' = StopNewest(TRUE) \/ UNCHANGED <<chain, recording>>
      BY <2>4 DEF RecordCancel
    <3> QED BY <1>1, <1>2, <3>1
  <2>5. ASSUME NEW u \in Utts, NEW file \in BOOLEAN, RefuseRecognize(u, file) PROVE MicInv'
    BY <1>1, <2>5 DEF RefuseRecognize
  <2>6. ASSUME NEW u \in Utts, NEW file \in BOOLEAN, Recognize(u, file) PROVE MicInv'
    <3>1. chain' = StopNewest(FALSE) \/ UNCHANGED <<chain, recording>>
      BY <2>6 DEF Recognize, TakeRecord
    <3> QED BY <1>1, <1>2, <3>1
  <2>7. ASSUME NEW u \in Utts, NEW file \in BOOLEAN, SubmitFails(u, file) PROVE MicInv'
    <3>1. chain' = StopNewest(FALSE) \/ UNCHANGED <<chain, recording>>
      BY <2>7 DEF SubmitFails
    <3> QED BY <1>1, <1>2, <3>1
  <2>8. CASE AudioClose
    BY <1>2, <2>8 DEF AudioClose, StopRecording
  <2>9. ASSUME NEW m \in Models, AnswerLoad(m) PROVE MicInv'
    BY <1>1, <2>9 DEF AnswerLoad
  <2>10. ASSUME NEW m \in Models, NEW ok \in BOOLEAN, ModelLoad(m, ok) PROVE MicInv'
    BY <1>1, <2>10 DEF ModelLoad
  <2>11. CASE ModelUnload \/ Close
    BY <1>2, <2>11 DEF ModelUnload, Close, Unload
  <2>12. CASE Reply \/ Exit \/ Expire
    BY <1>1, <2>12 DEF Reply, Exit, Expire
  <2>13. CASE RecordDeadline \/ FirstChunkWatchdog
    BY <1>2, <2>13 DEF RecordDeadline, FirstChunkWatchdog
  <2>14. CASE StopTimeout
    <3>1. DOMAIN chain' = {}
      BY <2>14 DEF StopTimeout
    <3> QED BY <3>1 DEF MicInv
  <2> QED BY <1>3, <2>1, <2>2, <2>3, <2>4, <2>5, <2>6, <2>7, <2>8, <2>9, <2>10, <2>11, <2>12, <2>13, <2>14,
             Zenon DEF MainStep
<1>4. CASE ExecutorStep \/ Ended \/ UNCHANGED vars \/ \E u \in Utts : Age(u)
  BY <1>1, <1>4 DEF ExecutorStep, ReadPcm, TakeEngine, Transcribe, FinishOrphan, Finish, SettlePcm,
                    DeferredUnload, Age, Ended, vars, pcm, capture
<1>5. CASE CaptureStep
  <2>1. ASSUME NEW at, At(at), at # "closing", NEW s \in Steps, Goto(s), recording' = recording
        PROVE  MicInv'
    BY <2>1, MicMoves
  <2>2. \A s \in {"opened", "reading", "chunk", "left", "changed", "failing", "closing"} : s \in Steps
    BY DEF Steps
  <2>3. CASE OpenSource
    <3>1. At("open") /\ recording' = recording
      BY <2>3 DEF OpenSource, pcm
    <3>2. Goto("opened") \/ Goto("failing") \/ Goto("closing") \/ Goto("changed")
      BY <2>3 DEF OpenSource, Raise, LoseDevice
    <3> QED BY <2>1, <2>2, <3>1, <3>2
  <2>4. CASE StartReading
    <3>1. At("opened") /\ recording' = recording
      BY <2>4 DEF StartReading, pcm
    <3>2. Goto("reading") \/ Goto("closing")
      BY <2>4 DEF StartReading
    <3> QED BY <2>1, <2>2, <3>1, <3>2
  <2>5. CASE ReadChunk
    <3>1. At("reading") /\ recording' = recording
      BY <2>5 DEF ReadChunk, pcm
    <3>2. Goto("chunk") \/ Goto("left") \/ Goto("failing") \/ Goto("closing")
      BY <2>5 DEF ReadChunk, Raise
    <3> QED BY <2>1, <2>2, <3>1, <3>2
  <2>6. ASSUME NEW at, At(at), NEW s \in Steps, chain' = [StopNewest(FALSE) EXCEPT ![1].step = s]
        PROVE  MicInv'
    <3>1. /\ Len(chain') = Len(chain)
          /\ \A i \in 1..Len(chain) : /\ chain'[i].uid = chain[i].uid
                                      /\ chain'[i].run = (chain[i].run /\ i # Len(chain))
      BY <2>6, StoppedGotoFields DEF TypeOK
    <3>2. chain' \in Seq(Capture) /\ chain \in Seq(Capture)
      BY <2>6, StoppedGotoType DEF TypeOK, CaptureType
    <3>3. DOMAIN chain = 1..Len(chain) /\ DOMAIN chain' = 1..Len(chain)
      BY <3>1, <3>2
    <3> QED BY <3>1, <3>3 DEF MicInv
  <2>7. ASSUME NEW full \in BOOLEAN, Deliver(full) PROVE MicInv'
    <3>1. At("chunk")
      BY <2>7 DEF Deliver
    <3>2. CASE chain' = [StopNewest(FALSE) EXCEPT ![1].step = "left"]
      BY <2>2, <2>6, <3>1, <3>2
    <3>3. CASE (Goto("reading") \/ Goto("left")) /\ recording' = recording
      BY <2>1, <2>2, <3>1, <3>3
    <3> QED BY <2>7, <3>2, <3>3 DEF Deliver, pcm
  <2>8. CASE LeaveReading
    <3>1. At("left") /\ recording' = recording
      BY <2>8 DEF LeaveReading, pcm
    <3>2. Goto("closing") \/ Goto("changed")
      BY <2>8 DEF LeaveReading, LoseDevice
    <3> QED BY <2>1, <2>2, <3>1, <3>2
  <2>9. CASE ReportChange
    <3>1. At("changed")
      BY <2>9 DEF ReportChange
    <3>2. CASE chain' = [StopNewest(FALSE) EXCEPT ![1].step = "closing"]
      BY <2>2, <2>6, <3>1, <3>2
    <3>3. CASE Goto("closing") /\ recording' = recording
      BY <2>1, <2>2, <3>1, <3>3
    <3> QED BY <2>9, <3>2, <3>3 DEF ReportChange, pcm
  <2>10. CASE ReportError
    BY <2>10, MicFails
  <2>11. CASE CloseSource
    BY <2>11, MicCloses DEF CloseSource, At, pcm
  <2> QED BY <1>5, <2>3, <2>4, <2>5, <2>7, <2>8, <2>9, <2>10, <2>11 DEF CaptureStep
<1> QED BY <1>3, <1>4, <1>5 DEF Next

-----------------------------------------------------------------------------
(* The history of the dead.                                                *)

LEMMA ForgetNames ==
  ASSUME HistoryType, Once(history), NEW u \in Utts
  PROVE  Once(Forget(u)) /\ Names(Forget(u)) \subseteq Names(history) \ {u}
<1>1. CASE u \in Cancelled
  <2> DEFINE at == CHOOSE i \in DOMAIN history : history[i] = u
             n == Len(history)
  <2>1. at \in DOMAIN history /\ history[at] = u
    BY <1>1 DEF Cancelled
  <2>2. n \in Nat /\ DOMAIN history = 1..n
    BY DEF HistoryType
  <2>3. Forget(u) = [i \in 1..(n - 1) |-> IF i < at THEN history[i] ELSE history[i + 1]]
    BY <1>1 DEF Forget
  <2> HIDE DEF at, n
  <2>4. DOMAIN Forget(u) = 1..(n - 1)
    BY <2>3
  <2>5. \A i \in 1..(n - 1) : \E k \in 1..n :
           /\ Forget(u)[i] = history[k] /\ k # at
           /\ k = IF i < at THEN i ELSE i + 1
    BY <2>1, <2>2, <2>3
  <2>6. \A i \in 1..(n - 1) : Forget(u)[i] \in Names(history) \ {u}
    BY <2>1, <2>2, <2>5 DEF Once, Names
  <2>7. ASSUME NEW i \in 1..(n - 1), NEW k \in 1..(n - 1), Forget(u)[i] = Forget(u)[k]
        PROVE  i = k
    <3>1. PICK x \in 1..n : Forget(u)[i] = history[x] /\ x = IF i < at THEN i ELSE i + 1
      BY <2>5
    <3>2. PICK y \in 1..n : Forget(u)[k] = history[y] /\ y = IF k < at THEN k ELSE k + 1
      BY <2>5
    <3>3. x = y
      BY <2>2, <2>7, <3>1, <3>2 DEF Once
    <3> QED BY <2>1, <2>2, <3>1, <3>2, <3>3
  <2> QED BY <2>4, <2>6, <2>7 DEF Once, Names
<1>2. CASE u \notin Cancelled
  BY <1>2 DEF Forget, Cancelled, Names
<1> QED BY <1>1, <1>2

LEMMA RememberNames ==
  ASSUME HistoryType, Once(history), NEW u \in Utts
  PROVE  Once(Remember(u)) /\ Names(Remember(u)) \subseteq Names(history) \cup {u}
<1> DEFINE n == Len(history)
<1>0. n \in Nat /\ DOMAIN history = 1..n /\ history \in Seq(Utts)
  BY DEF HistoryType
<1>1. CASE u \in Cancelled
  BY <1>1 DEF Remember, Names
<1>2. CASE u \notin Cancelled /\ n = HistoryLimit
  <2> DEFINE r == Append(Tail(history), u)
  <2>1. Remember(u) = r
    BY <1>2 DEF Remember
  <2>2. history # <<>>
    BY <1>2, HistoryAssumption
  <2>3. /\ DOMAIN r = 1..n /\ r[n] = u
        /\ \A i \in 1..(n - 1) : r[i] = history[i + 1] /\ i + 1 \in 1..n
    BY <1>0, <2>2
  <2> HIDE DEF r, n
  <2>4. \A i \in 1..n : i = n \/ i \in 1..(n - 1)
    BY <1>0
  <2>5. \A i \in 1..n : r[i] = u <=> i = n
    BY <1>0, <1>2, <2>3, <2>4 DEF Cancelled
  <2>6. \A i, k \in 1..n : r[i] = r[k] => i = k
    <3> SUFFICES ASSUME NEW i \in 1..n, NEW k \in 1..n, r[i] = r[k], i # n, k # n PROVE i = k
      BY <2>5
    <3>1. history[i + 1] = history[k + 1] /\ i + 1 \in 1..n /\ k + 1 \in 1..n
      BY <2>3, <2>4
    <3>2. i + 1 = k + 1
      BY <1>0, <3>1 DEF Once
    <3> QED BY <1>0, <3>2
  <2>7. Once(r)
    BY <2>3, <2>6 DEF Once
  <2>8. \A i \in 1..n : r[i] \in Names(history) \cup {u}
    BY <1>0, <2>3, <2>4 DEF Names
  <2>9. Names(r) \subseteq Names(history) \cup {u}
    BY <2>3, <2>8 DEF Names
  <2> QED BY <2>1, <2>7, <2>9
<1>3. CASE u \notin Cancelled /\ n # HistoryLimit
  <2> DEFINE r == Append(history, u)
  <2>1. Remember(u) = r
    BY <1>3 DEF Remember
  <2>2. DOMAIN r = 1..n + 1 /\ r[n + 1] = u /\ \A i \in 1..n : r[i] = history[i] /\ r[i] # u
    BY <1>0, <1>3 DEF Cancelled
  <2> HIDE DEF r
  <2>3. \A i \in 1..n + 1 : i = n + 1 \/ i \in 1..n
    BY <1>0
  <2> QED BY <1>0, <2>1, <2>2, <2>3 DEF Once, Names
<1> QED BY <1>1, <1>2, <1>3

-----------------------------------------------------------------------------
(* The ids of the two slots.                                               *)

\* The slots hold the same jobs with the same marks.
SlotIds == <<Held, Wanted, Unanswered>>

LEMMA SameSlots ==
  ASSUME UNCHANGED <<active, pending>>,
         \A j \in Current : /\ job'[j].uid = job[j].uid /\ job'[j].file = job[j].file
                            /\ job'[j].token = job[j].token /\ job'[j].notified = job[j].notified
  PROVE  UNCHANGED SlotIds
<1>1. Current' = Current
  BY DEF Current
<1> QED BY <1>1 DEF SlotIds, Held, Wanted, Unanswered

LEMMA RunKeeps ==
  ASSUME TypeOK, Slots, NEW j \in Jobs,
         ReadPcm(j) \/ TakeEngine(j) \/ Transcribe(j) \/ FinishOrphan(j)
  PROVE  UNCHANGED SlotIds
<1>1. job \in [Jobs -> JobType] /\ Current \subseteq Jobs
  BY DEF TypeOK, JobsType, Current
<1>2. UNCHANGED <<active, pending>>
  BY DEF ReadPcm, TakeEngine, Transcribe, FinishOrphan
<1>3. CASE ReadPcm(j) \/ TakeEngine(j) \/ Transcribe(j)
  <2>1. /\ \A k \in Jobs \ {j} : job'[k] = job[k]
        /\ job'[j].uid = job[j].uid /\ job'[j].token = job[j].token
        /\ job'[j].notified = job[j].notified /\ job'[j].file = job[j].file
    <3>1. job[j] \in JobType
      BY <1>1
    <3>2. CASE ReadPcm(j)
      BY <1>1, <3>1, <3>2 DEF ReadPcm, JobType
    <3>3. CASE TakeEngine(j)
      BY <1>1, <3>1, <3>3 DEF TakeEngine, JobType
    <3>4. CASE Transcribe(j)
      <4>1. PICK v \in Verdicts : job' = [job EXCEPT ![j].phase = "done", ![j].verdict = v]
        BY <3>4 DEF Transcribe, Verdicts
      <4> QED BY <1>1, <3>1, <4>1 DEF JobType
    <3> QED BY <1>3, <3>2, <3>3, <3>4
  <2> QED BY <1>1, <1>2, <2>1, SameSlots
<1>4. CASE FinishOrphan(j)
  <2>1. job[j].phase \in Busy /\ active # j /\ job' = [job EXCEPT ![j] = FreeJob]
    BY <1>4 DEF FinishOrphan, Busy
  <2>2. j \notin Current
    BY <2>1, SlotPhases DEF TypeOK, Current
  <2> QED BY <1>1, <1>2, <2>1, <2>2, SameSlots
<1> QED BY <1>3, <1>4

LEMMA RecognizeTakes ==
  ASSUME TypeOK, Slots, NEW u \in Utts, NEW file \in BOOLEAN, Recognize(u, file)
  PROVE  /\ Held' = Held \cup {u} /\ Unanswered' = Unanswered \cup {u}
         /\ Wanted' = Wanted \cup (IF file THEN {} ELSE {u})
<1>1. pending = None /\ job \in [Jobs -> JobType] /\ Current \subseteq Jobs
  BY DEF Recognize, RecognizeError, TypeOK, JobsType, Current
<1>2. PICK j \in Jobs, p \in {"queued", "pending"} :
        /\ job[j].phase = "free"
        /\ job' = [job EXCEPT ![j] = NewJob(u, file, p)]
        /\ Current' = Current \cup {j}
  BY <1>1, NoneAssumption DEF Recognize, Current
<1>3. j \notin Current
  BY <1>2, SlotPhases DEF TypeOK, Current
<1>4. /\ job'[j].uid = u /\ job'[j].file = file /\ ~job'[j].token /\ ~job'[j].notified
      /\ \A k \in Current : job'[k] = job[k]
  BY <1>1, <1>2, <1>3 DEF NewJob, FreeJob
<1> QED BY <1>2, <1>3, <1>4 DEF Held, Wanted, Unanswered

LEMMA CancelFrees ==
  ASSUME TypeOK, Slots, NEW u \in Utts, RecordCancel(u)
  PROVE  /\ Held' \subseteq Held /\ Held \ {u} \subseteq Held'
         /\ Wanted' = Wanted \ {u} /\ Unanswered' = Unanswered \ {u}
<1> DEFINE hit(k) == job[k].uid = u
<1>1. /\ active' = active
      /\ pending' = IF pending # None /\ hit(pending) THEN None ELSE pending
      /\ \A k \in Jobs : job'[k] = IF hit(k) THEN CancelledJob(k, TRUE) ELSE job[k]
  BY DEF RecordCancel
<1>2. Current \subseteq Jobs /\ (active # None => active # pending)
  BY SlotPhases DEF TypeOK, JobsType, Current, Slots, SlotsOK
<1>3. Current' = {k \in Current : ~(k = pending /\ hit(k))}
  BY <1>1, <1>2 DEF Current
<1>4. \A k \in Current' :
        /\ job'[k].uid = job[k].uid /\ job'[k].file = job[k].file
        /\ hit(k) => job'[k].token /\ job'[k].notified
        /\ ~hit(k) => job'[k] = job[k]
  <2> TAKE k \in Current'
  <2>1. k \in Jobs /\ k \in Current /\ ~(k = pending /\ hit(k))
    BY <1>2, <1>3
  <2>2. CASE hit(k)
    <3>1. k # pending /\ k = active /\ job'[k] = CancelledJob(k, TRUE)
      BY <1>1, <2>1, <2>2 DEF Current
    <3> QED BY <2>1, <2>2, <3>1, CancelledJobFields DEF TypeOK
  <2>3. CASE ~hit(k)
    BY <1>1, <2>1, <2>3
  <2> QED BY <2>2, <2>3
<1>5. Held' \subseteq Held /\ Held \ {u} \subseteq Held'
  BY <1>3, <1>4 DEF Held
<1>6. Wanted' = Wanted \ {u}
  BY <1>3, <1>4 DEF Wanted
<1>7. Unanswered' = Unanswered \ {u}
  BY <1>3, <1>4 DEF Unanswered
<1> QED BY <1>5, <1>6, <1>7

\* The active job ends; after an engine failure the waiting one ends with it.
LEMMA FinishFrees ==
  ASSUME TypeOK, Slots, NEW j \in Jobs, Finish(j)
  PROVE  LET dropped == IF Outcome(j) = "engine-failed" THEN {pending} \ {None} ELSE {}
             gone == {job[k].uid : k \in {j} \cup dropped}
         IN  /\ Held' = Held \ gone /\ Wanted' = Wanted \ gone /\ Unanswered' = Unanswered \ gone
<1> DEFINE dropped == IF Outcome(j) = "engine-failed" THEN {pending} \ {None} ELSE {}
           gone == {job[k].uid : k \in {j} \cup dropped}
<1>1. /\ active = j /\ pending' = None
      /\ active' = (IF dropped = {} THEN pending ELSE None)
      /\ \A k \in Jobs : job'[k] =
           IF k \in dropped \cup {j} THEN FreeJob
           ELSE IF k = pending THEN [job[k] EXCEPT !.phase = "queued"] ELSE job[k]
  BY DEF Finish
<1>2. /\ j # None /\ Current \subseteq Jobs /\ job \in [Jobs -> JobType]
      /\ pending # None => pending # j /\ pending \in Jobs /\ job[pending].uid # job[j].uid
  BY <1>1, NoneAssumption, SlotPhases DEF Slots, SlotsOK, TypeOK, JobsType, Current
<1>3. CASE pending = None \/ dropped # {}
  <2>1. Current' = {} /\ Current = {j} \cup dropped
    BY <1>1, <1>2, <1>3 DEF Current
  <2> QED BY <2>1 DEF Held, Wanted, Unanswered
<1>4. CASE pending # None /\ dropped = {}
  <2>1. Current' = {pending} /\ Current = {j, pending} /\ gone = {job[j].uid}
    BY <1>1, <1>2, <1>4 DEF Current
  <2>2. job'[pending] = [job[pending] EXCEPT !.phase = "queued"] /\ job[pending] \in JobType
    BY <1>1, <1>2, <1>4
  <2>3. /\ job'[pending].uid = job[pending].uid /\ job'[pending].file = job[pending].file
        /\ job'[pending].token = job[pending].token /\ job'[pending].notified = job[pending].notified
    BY <2>2 DEF JobType
  <2> HIDE DEF gone
  <2>4. Held' = Held \ gone
    BY <1>2, <1>4, <2>1, <2>3 DEF Held
  <2>5. Wanted' = Wanted \ gone
    BY <1>2, <1>4, <2>1, <2>3 DEF Wanted
  <2>6. Unanswered' = Unanswered \ gone
    BY <1>2, <1>4, <2>1, <2>3 DEF Unanswered
  <2> QED BY <2>4, <2>5, <2>6 DEF gone
<1> QED BY <1>3, <1>4

-----------------------------------------------------------------------------
(* Who owns the kept PCM.                                                  *)

LEMMA HeldIds == ASSUME TypeOK, Slots PROVE Held \subseteq Utts
<1>1. \A j \in Current : j \in Jobs /\ job[j].uid \in Utts
  BY DEF Current, TypeOK, JobsType, Slots, SlotsOK, ExecutorHasOneJob
<1> QED BY <1>1 DEF Held

\* What the ids say of the jobs.
LEMMA OwnersMean ==
  ASSUME TypeOK, Slots, Owners
  PROVE  BufferOwned /\ MarksHaveBuffers /\ HistoryIsOfTheDead
<1>1. \A j, k \in Current : job[j].uid = job[k].uid => j = k
  BY DEF Current, Slots, SlotsOK
<1>2. \A j \in Current : job[j].uid \in Held /\ job[j].uid \in Utts
  BY HeldIds DEF Held
<1>3. \A j \in Current : job[j].uid \notin stopped \cup {recording}
  BY <1>2, NoneAssumption DEF Owners
<1>4. \A j \in Current : Wants(j, job[j].uid) <=> job[j].uid \in buffers
  <2> TAKE j \in Current
  <2>1. Wants(j, job[j].uid) <=> job[j].uid \in Wanted
    BY <1>1 DEF Wants, Wanted
  <2> QED BY <1>2, <2>1 DEF Owners
<1>5. \A u \in buffers : recording = u \/ u \in stopped \/ (\E j \in Current : Wants(j, u))
  <2> TAKE u \in buffers
  <2>1. u \in Wanted => \E j \in Current : Wants(j, u)
    BY DEF Wanted, Wants
  <2> QED BY <2>1 DEF Owners
<1>6. BufferOwned
  BY <1>3, <1>4, <1>5 DEF BufferOwned, Owners
<1>7. HistoryIsOfTheDead
  BY DEF HistoryIsOfTheDead, Owners, Once, Names, Cancelled
<1> QED BY <1>6, <1>7 DEF MarksHaveBuffers, Owners

Expired ==
  /\ buffers' = Kept(buffers) /\ stopped' = Kept(stopped) /\ stale' = {}
  /\ deviceChanged' = Kept(deviceChanged)

\* Old buffers go.
LEMMA OwnersExpire ==
  ASSUME Owners, Expired, UNCHANGED <<recording, history>>, UNCHANGED SlotIds
  PROVE  Owners'
<1>1. Held' = Held /\ Wanted' = Wanted
  BY DEF SlotIds
<1> QED BY <1>1 DEF Owners, Expired, Kept

\* The record ends and its PCM waits for somebody to ask for it.
LEMMA OwnersStop ==
  ASSUME TypeOK, Owners, recording # None, UNCHANGED <<history, SlotIds>>, recording' = None,
         \/ /\ buffers' = Kept(buffers) /\ stopped' = Kept(stopped) \cup {recording} /\ stale' = {}
            /\ deviceChanged' \subseteq Kept(deviceChanged) \cup {recording}
         \/ /\ buffers' = buffers /\ stopped' = stopped \cup {recording} /\ stale' = stale
            /\ deviceChanged' = deviceChanged
  PROVE  Owners'
<1>1. Held' = Held /\ Wanted' = Wanted
  BY DEF SlotIds
<1>2. recording \in buffers /\ recording \notin stale /\ recording \notin Held
  BY DEF Owners
<1> QED BY <1>1, <1>2 DEF Owners, Kept

\* A new record: its id has no buffer, no job and no place among the dead.
LEMMA OwnersStart ==
  ASSUME TypeOK, Owners, NEW u \in Utts, RecordStart(u)
  PROVE  Owners'
<1>1. Held' = Held /\ Wanted' = Wanted
  BY DEF RecordStart, jobs, Held, Wanted, Current
<1>2. u \notin Held
  BY DEF RecordStart, HasJob, Held
<1>3. Once(history') /\ Names(history') \subseteq Names(history) \ {u}
  BY ForgetNames DEF RecordStart, Owners, TypeOK
<1>4. /\ recording = None /\ recording' = u /\ buffers' = Kept(buffers) \cup {u}
      /\ stopped' = Kept(stopped) \ {u} /\ stale' = {} /\ deviceChanged' = Kept(deviceChanged) \ {u}
      /\ recording \notin buffers
  BY NoneAssumption DEF RecordStart, TypeOK, PcmType
<1>5. Wanted \subseteq Held
  BY DEF Wanted, Held
<1> QED BY <1>1, <1>2, <1>3, <1>4, <1>5 DEF Owners, Kept

\* The record is dropped with its PCM.
LEMMA OwnersDrop ==
  ASSUME TypeOK, Owners, NEW u, DropRecord(u), UNCHANGED <<history, SlotIds>>
  PROVE  Owners'
<1>1. Held' = Held /\ Wanted' = Wanted
  BY DEF SlotIds
<1>2. CASE UNCHANGED pcm /\ history' = history
  BY <1>1, <1>2 DEF Owners, pcm
<1>3. CASE recording = u /\ u # None
  <2>1. /\ buffers' = buffers \ {u} /\ stopped' = stopped \ {u} /\ stale' = stale \ {u} /\ recording' = None
        /\ deviceChanged' = deviceChanged /\ history' = history
    BY <1>3 DEF DropRecord
  <2>2. Wanted \subseteq Held
    BY DEF Wanted, Held
  <2> QED BY <1>1, <1>3, <2>1, <2>2 DEF Owners
<1>4. CASE recording = u /\ u = None
  <2>1. /\ buffers' = buffers \ {u} /\ stopped' = stopped \ {u} /\ stale' = stale \ {u} /\ recording' = None
        /\ deviceChanged' = deviceChanged /\ history' = history
    BY <1>4 DEF DropRecord
  <2>2. u \notin buffers /\ u \notin stopped /\ u \notin stale
    BY <1>4, NoneAssumption DEF TypeOK, PcmType
  <2>3. buffers' = buffers /\ stopped' = stopped /\ stale' = stale /\ recording' = recording
    BY <1>4, <2>1, <2>2
  <2> QED BY <1>1, <2>1, <2>3 DEF Owners
<1> QED BY <1>2, <1>3, <1>4 DEF DropRecord

\* A device change is noted for PCM that is kept and waits.
LEMMA OwnersMark ==
  ASSUME TypeOK, Owners, NEW u, UNCHANGED <<recording, history, SlotIds>>,
         buffers' = Kept(buffers), stopped' = Kept(stopped), stale' = {},
         deviceChanged' = Kept(deviceChanged) \cup StillKept(u)
  PROVE  Owners'
<1>1. Held' = Held /\ Wanted' = Wanted
  BY DEF SlotIds
<1> QED BY <1>1 DEF Owners, Kept, StillKept

\* A recognition takes over the PCM of the record, of a stopped buffer, or, of a file, none.
LEMMA OwnersRecognize ==
  ASSUME TypeOK, Slots, Owners, NEW u \in Utts, NEW file \in BOOLEAN, Recognize(u, file)
  PROVE  Owners'
<1>1. Held' = Held \cup {u} /\ Wanted' = Wanted \cup (IF file THEN {} ELSE {u})
  BY RecognizeTakes
<1>2. ~HasJob(u) /\ (file <=> u \notin Kept(buffers))
  <2>1. engine /\ ~HasJob(u) /\ pending = None /\ RecognizeError(u, file) = {}
    BY DEF Recognize, RecognizeError
  <2> DEFINE K == u \in Kept(buffers)
  <2>2. ~(file = K)
    BY <2>1 DEF RecognizeError
  <2>3. K \in BOOLEAN /\ file \in BOOLEAN
    OBVIOUS
  <2> HIDE DEF K
  <2>4. file <=> ~K
    BY <2>2, <2>3
  <2> QED BY <2>1, <2>4 DEF K
<1>3. u \notin Held
  BY <1>2 DEF HasJob, Held
<1>4. Once(history') /\ Names(history') \subseteq Names(history) \ {u}
  BY ForgetNames DEF Recognize, Owners, TypeOK
<1>5. /\ recording' = IF recording = u THEN None ELSE recording
      /\ buffers' = Kept(buffers) /\ stopped' = Kept(stopped) \ {u} /\ stale' = {}
      /\ deviceChanged' = Kept(deviceChanged)
  BY DEF Recognize, TakeRecord, Claim
<1>6. Wanted \subseteq Held
  BY DEF Wanted, Held
<1> QED BY <1>1, <1>2, <1>3, <1>4, <1>5, <1>6 DEF Owners, Kept

LEMMA OwnersSubmitFails ==
  ASSUME TypeOK, Owners, NEW u \in Utts, NEW file \in BOOLEAN, SubmitFails(u, file)
  PROVE  Owners'
<1>1. Held' = Held /\ Wanted' = Wanted
  BY DEF SubmitFails, jobs, Held, Wanted, Current
<1>2. ~HasJob(u)
  BY DEF SubmitFails, RecognizeError
<1>3. u \notin Held
  BY <1>2 DEF HasJob, Held
<1>4. Once(history') /\ Names(history') \subseteq Names(history) \ {u}
  BY ForgetNames DEF SubmitFails, Owners, TypeOK
<1>5. /\ recording' = IF recording = u THEN None ELSE recording
      /\ buffers' = Kept(buffers) /\ stopped' = (Kept(stopped) \ {u}) \cup ({u} \cap buffers') /\ stale' = {}
      /\ deviceChanged' = Kept(deviceChanged)
  BY DEF SubmitFails, Claim
<1>6. Wanted \subseteq Held
  BY DEF Wanted, Held
<1> QED BY <1>1, <1>3, <1>4, <1>5, <1>6 DEF Owners, Kept

LEMMA OwnersCancel ==
  ASSUME TypeOK, Slots, Owners, NEW u \in Utts, RecordCancel(u)
  PROVE  Owners'
<1>1. Held' \subseteq Held /\ Held \ {u} \subseteq Held' /\ Wanted' = Wanted \ {u}
  BY CancelFrees
<1>2. Once(history') /\ Names(history') \subseteq Names(history) \cup {u}
  BY RememberNames DEF RecordCancel, Owners, TypeOK
<1>3. /\ recording' = IF recording = u THEN None ELSE recording
      /\ buffers' = Kept(buffers) \ {u} /\ stopped' = Kept(stopped) \ {u} /\ stale' = {}
      /\ deviceChanged' = Kept(deviceChanged) \ {u}
  BY DEF RecordCancel
<1> QED BY <1>1, <1>2, <1>3 DEF Owners, Kept

LEMMA OwnersUnload ==
  ASSUME Unload
  PROVE  Owners'
<1>1. Held' = {} /\ Wanted' = {}
  BY DEF Unload, Held, Wanted, Current
<1>2. /\ buffers' = {} /\ stopped' = {} /\ stale' = {} /\ deviceChanged' = {}
      /\ recording' = None /\ history' = <<>>
  BY DEF Unload
<1> QED BY <1>1, <1>2 DEF Owners, Names, Once

\* An outcome frees the PCM it was made of; after an error it waits once more.
LEMMA OwnersFinish ==
  ASSUME TypeOK, Slots, Owners, NEW j \in Jobs, Finish(j)
  PROVE  Owners'
<1> DEFINE dropped == IF Outcome(j) = "engine-failed" THEN {pending} \ {None} ELSE {}
           u == job[j].uid
           lost == {job[d].uid : d \in dropped}
           ended == IF Outcome(j) \in {"result", "cancelled"} THEN {u} ELSE {}
<1>1. SettlePcm(j, dropped) /\ active = j
  BY DEF Finish
<1>2. /\ j \in Current /\ dropped \subseteq Current /\ u \in Utts
      /\ \A d \in dropped : job[d].uid # u /\ ~job[d].token
  <2>1. j # None /\ job[j].phase \in Busy
    BY <1>1, NoneAssumption DEF Slots, SlotsOK
  <2>2. u \in Utts
    BY <2>1 DEF Slots, ExecutorHasOneJob
  <2>3. pending # None => job[pending].uid # u /\ ~job[pending].token
    BY <1>1 DEF Slots, SlotsOK
  <2> QED BY <1>1, <2>1, <2>2, <2>3 DEF Current
<1>3. Held' = Held \ ({u} \cup lost) /\ Wanted' = Wanted \ ({u} \cup lost)
  BY FinishFrees
<1>4. u \in Held /\ lost \subseteq Held /\ u \notin lost
  BY <1>2 DEF Held
<1>5. /\ buffers' = buffers \ (ended \cup lost) /\ deviceChanged' = deviceChanged \ (ended \cup lost)
      /\ stopped' = (stopped \ lost) \cup (IF u \in ended \cup lost THEN {} ELSE {u} \cap buffers)
      /\ stale' = stale \ (ended \cup lost \cup {u})
      /\ history' = (IF Outcome(j) = "cancelled" THEN Remember(u) ELSE history)
      /\ recording' = recording
  BY <1>1 DEF SettlePcm, Marks, Restopped
<1>6. /\ Once(history')
      /\ Names(history') \subseteq Names(history) \cup (IF Outcome(j) = "cancelled" THEN {u} ELSE {})
  BY <1>2, <1>5, RememberNames DEF Owners, TypeOK
<1>7. (IF Outcome(j) = "cancelled" THEN {u} ELSE {}) \subseteq ended
  OBVIOUS
<1>8. ended \subseteq {u}
  OBVIOUS
<1> HIDE DEF u, lost, ended, dropped
<1>9. recording # None => recording \notin Held
  BY DEF Owners
<1> QED BY <1>3, <1>4, <1>5, <1>6, <1>7, <1>8, <1>9 DEF Owners

\* Most steps leave the slots alone.
LEMMA QuietIds == ASSUME QuietStep PROVE UNCHANGED SlotIds
<1>1. UNCHANGED <<active, pending, job>>
  BY QuietSteps DEF SlotsVars
<1> QED BY <1>1 DEF SlotIds, Held, Wanted, Unanswered, Current

\* Every step leaves each kept buffer with its one owner.
LEMMA OwnersStep ==
  ASSUME TypeOK, Slots, Owners, [Next]_vars
  PROVE  Owners'
<1>1. ASSUME UNCHANGED <<pcm, history>>, UNCHANGED SlotIds PROVE Owners'
  BY <1>1 DEF Owners, pcm, SlotIds
<1>2. CASE UNCHANGED vars
  <2>1. UNCHANGED SlotIds
    BY <1>2 DEF vars, jobs, SlotIds, Held, Wanted, Unanswered, Current
  <2> QED BY <1>1, <1>2, <2>1 DEF vars
<1>3. CASE QuietStep
  <2>0. UNCHANGED SlotIds
    BY <1>3, QuietIds
  <2>1. ASSUME Expired, UNCHANGED <<recording, history>> PROVE Owners'
    BY <2>0, <2>1, OwnersExpire
  <2>2. ASSUME NEW u \in Utts, RefuseStart(u) \/ LateStop(u) \/ CancelUnknown(u) PROVE Owners'
    BY <2>1, <2>2 DEF RefuseStart, LateStop, CancelUnknown, Refuse, Expired
  <2>3. ASSUME NEW u \in Utts, RecordStart(u) PROVE Owners'
    BY <2>3, OwnersStart
  <2>4. ASSUME NEW u \in Utts, RecordStop(u) PROVE Owners'
    <3>1. recording # None
      BY <2>4, NoneAssumption DEF RecordStop
    <3> QED BY <2>0, <2>4, <3>1, OwnersStop DEF RecordStop, StopRecording
  <2>5. ASSUME NEW u \in Utts, Age(u) PROVE Owners'
    BY <2>0, <2>5 DEF Age, Owners, SlotIds
  <2>6. ASSUME NEW u \in Utts, NEW file \in BOOLEAN, RefuseRecognize(u, file) PROVE Owners'
    BY <2>1, <2>6 DEF RefuseRecognize, Refuse, Expired
  <2>7. ASSUME NEW u \in Utts, NEW file \in BOOLEAN, SubmitFails(u, file) PROVE Owners'
    BY <2>7, OwnersSubmitFails
  <2>8. CASE AudioClose
    <3>1. CASE recording # None
      BY <2>0, <2>8, <3>1, OwnersStop DEF AudioClose, StopRecording
    <3>2. CASE recording = None
      BY <2>1, <2>8, <3>2 DEF AudioClose, Expired
    <3> QED BY <3>1, <3>2
  <2>9. ASSUME NEW m \in Models, AnswerLoad(m) PROVE Owners'
    BY <2>1, <2>9 DEF AnswerLoad, Refuse, Expired
  <2>10. CASE Expire
    BY <2>1, <2>10 DEF Expire, Refuse, Expired
  <2>11. CASE Reply \/ Exit \/ RecordDeadline \/ StopTimeout \/ Ended
    BY <1>1, <2>0, <2>11 DEF Reply, Exit, RecordDeadline, StopTimeout, Ended, vars
  <2>12. CASE FirstChunkWatchdog
    BY <2>0, <2>12, OwnersDrop DEF FirstChunkWatchdog
  <2>13. CASE OpenSource \/ StartReading \/ ReadChunk \/ LeaveReading \/ CloseSource
    BY <1>1, <2>0, <2>13 DEF OpenSource, StartReading, ReadChunk, LeaveReading, CloseSource
  <2>14. ASSUME NEW full \in BOOLEAN, Deliver(full) PROVE Owners'
    <3>1. CASE recording = chain[1].uid /\ full
      <4>1. recording # None
        BY <2>14, <3>1, ChainHead, NoneAssumption DEF Deliver, TypeOK
      <4> QED BY <2>0, <2>14, <3>1, <4>1, OwnersStop DEF Deliver
    <3>2. CASE ~(recording = chain[1].uid /\ full)
      BY <1>1, <2>0, <2>14, <3>2 DEF Deliver
    <3> QED BY <3>1, <3>2
  <2>15. CASE ReportChange
    <3> DEFINE u == chain[1].uid
    <3>0. u \in Utts
      BY <2>15, ChainHead DEF ReportChange, TypeOK
    <3>1. CASE UNCHANGED pcm
      BY <1>1, <2>0, <2>15, <3>1 DEF ReportChange
    <3>2. CASE /\ recording = u /\ recording' = None /\ buffers' = Kept(buffers) /\ stale' = {}
               /\ stopped' = Kept(stopped) \cup {u} /\ deviceChanged' = Kept(deviceChanged) \cup {u}
      <4>1. recording # None /\ history' = history
        BY <2>15, <3>0, <3>2, NoneAssumption DEF ReportChange
      <4> HIDE DEF u
      <4> QED BY <2>0, <3>2, <4>1, OwnersStop
    <3>3. CASE /\ recording' = recording /\ buffers' = Kept(buffers) /\ stopped' = Kept(stopped) /\ stale' = {}
               /\ deviceChanged' = Kept(deviceChanged) \cup StillKept(u)
      <4>1. history' = history
        BY <2>15 DEF ReportChange
      <4> HIDE DEF u
      <4> QED BY <2>0, <3>3, <4>1, OwnersMark
    <3> QED BY <2>15, <3>1, <3>2, <3>3 DEF ReportChange
  <2>16. CASE ReportError
    BY <2>0, <2>16, OwnersDrop DEF ReportError
  <2> QED BY <1>3, <2>2, <2>3, <2>4, <2>5, <2>6, <2>7, <2>8, <2>9, <2>10, <2>11, <2>12, <2>13, <2>14,
             <2>15, <2>16 DEF QuietStep, CaptureStep
<1>4. ASSUME NEW u \in Utts, RecordCancel(u) PROVE Owners'
  BY <1>4, OwnersCancel
<1>5. ASSUME NEW u \in Utts, NEW file \in BOOLEAN, Recognize(u, file) PROVE Owners'
  BY <1>5, OwnersRecognize
<1>6. ASSUME NEW m \in Models, NEW ok \in BOOLEAN, ModelLoad(m, ok) PROVE Owners'
  <2>1. UNCHANGED SlotIds
    BY <1>6 DEF ModelLoad, jobs, SlotIds, Held, Wanted, Unanswered, Current
  <2> QED BY <1>6, <2>1, OwnersExpire DEF ModelLoad, Expired
<1>7. CASE ModelUnload \/ Close
  BY <1>7, OwnersUnload DEF ModelUnload, Close
<1>8. ASSUME NEW j \in Jobs, ReadPcm(j) \/ TakeEngine(j) \/ Transcribe(j) \/ FinishOrphan(j) PROVE Owners'
  <2>1. UNCHANGED SlotIds
    BY <1>8, RunKeeps
  <2> QED BY <1>1, <1>8, <2>1 DEF ReadPcm, TakeEngine, Transcribe, FinishOrphan
<1>9. ASSUME NEW j \in Jobs, Finish(j) PROVE Owners'
  BY <1>9, OwnersFinish
<1>10. CASE DeferredUnload
  <2>1. UNCHANGED SlotIds
    BY <1>10 DEF DeferredUnload, jobs, SlotIds, Held, Wanted, Unanswered, Current
  <2> QED BY <1>1, <1>10, <2>1 DEF DeferredUnload
<1>11. CASE ExecutorStep
  BY <1>8, <1>9, <1>10, <1>11 DEF ExecutorStep
<1>12. CASE SlotsNext
  BY <1>4, <1>5, <1>6, <1>7, <1>11, <1>12 DEF SlotsNext
<1> QED BY <1>2, <1>3, <1>12, StepKinds

-----------------------------------------------------------------------------
(* Outcomes.                                                               *)

\* What is owed is what the slots hold and nobody has announced.
LEMMA OwedStep ==
  ASSUME TypeOK, Slots, OutcomesOwed, [Next]_vars
  PROVE  OutcomesOwed'
<1>0. owed = Unanswered
  BY DEF OutcomesOwed, Unanswered
<1> SUFFICES owed' = Unanswered'
  BY DEF OutcomesOwed, Unanswered
<1>1. ASSUME UNCHANGED owed, UNCHANGED SlotIds PROVE owed' = Unanswered'
  BY <1>0, <1>1 DEF SlotIds
<1>2. CASE UNCHANGED vars
  <2>1. UNCHANGED SlotIds
    BY <1>2 DEF vars, jobs, SlotIds, Held, Wanted, Unanswered, Current
  <2> QED BY <1>1, <1>2, <2>1 DEF vars
<1>3. CASE QuietStep
  <2>1. UNCHANGED SlotIds
    BY <1>3, QuietIds
  <2>2. ASSUME CaptureStep \/ Ended \/ Reply \/ Exit \/ RecordDeadline \/ StopTimeout
                 \/ FirstChunkWatchdog \/ AudioClose \/ Expire
        PROVE  owed' = owed
    BY <2>2 DEF CaptureStep, OpenSource, StartReading, ReadChunk, Deliver, LeaveReading, ReportChange,
                ReportError, CloseSource, Ended, vars, Reply, Exit, RecordDeadline, StopTimeout,
                FirstChunkWatchdog, AudioClose, Expire, Refuse
  <2>3. ASSUME NEW u \in Utts, RefuseStart(u) \/ RecordStart(u) \/ RecordStop(u) \/ LateStop(u)
                                 \/ CancelUnknown(u) \/ Age(u)
        PROVE  owed' = owed
    BY <2>3 DEF RefuseStart, RecordStart, RecordStop, LateStop, CancelUnknown, Age, Refuse
  <2>4. ASSUME NEW u \in Utts, NEW file \in BOOLEAN, RefuseRecognize(u, file) \/ SubmitFails(u, file)
        PROVE  owed' = owed
    BY <2>4 DEF RefuseRecognize, SubmitFails, Refuse
  <2>5. ASSUME NEW m \in Models, AnswerLoad(m) PROVE owed' = owed
    BY <2>5 DEF AnswerLoad, Refuse
  <2>6. owed' = owed
    BY <1>3, <2>2, <2>3, <2>4, <2>5 DEF QuietStep
  <2> QED BY <1>1, <2>1, <2>6
<1>4. ASSUME NEW u \in Utts, RecordCancel(u) PROVE owed' = Unanswered'
  BY <1>0, <1>4, CancelFrees DEF RecordCancel
<1>5. ASSUME NEW u \in Utts, NEW file \in BOOLEAN, Recognize(u, file) PROVE owed' = Unanswered'
  BY <1>0, <1>5, RecognizeTakes DEF Recognize
<1>6. ASSUME NEW m \in Models, NEW ok \in BOOLEAN, ModelLoad(m, ok) PROVE owed' = Unanswered'
  BY <1>0, <1>6 DEF ModelLoad, jobs, Unanswered, Current
<1>7. CASE ModelUnload \/ Close
  BY <1>7 DEF ModelUnload, Close, Unload, Unanswered, Current
<1>8. ASSUME NEW j \in Jobs, ReadPcm(j) \/ TakeEngine(j) \/ Transcribe(j) \/ FinishOrphan(j)
      PROVE  owed' = Unanswered'
  <2>1. UNCHANGED SlotIds
    BY <1>8, RunKeeps
  <2> QED BY <1>1, <1>8, <2>1 DEF ReadPcm, TakeEngine, Transcribe, FinishOrphan
<1>9. ASSUME NEW j \in Jobs, Finish(j) PROVE owed' = Unanswered'
  <2> DEFINE dropped == IF Outcome(j) = "engine-failed" THEN {pending} \ {None} ELSE {}
             gone == {job[k].uid : k \in {j} \cup dropped}
             told == {job[k].uid : k \in Settled(j, dropped)}
  <2>1. owed' = owed \ told
    BY <1>9 DEF Finish
  <2>2. Unanswered' = Unanswered \ gone
    BY <1>9, FinishFrees
  <2>3. \A u \in gone \ told : u = job[j].uid /\ job[j].notified
    BY DEF Settled, Announced
  <2>4. told \subseteq gone
    BY DEF Settled, Announced
  <2>5. active = j /\ \A k \in Current : job[k].uid = job[j].uid => k = j
    BY <1>9 DEF Finish, Current, Slots, SlotsOK
  <2>6. (gone \ told) \cap Unanswered = {}
    BY <2>3, <2>5 DEF Unanswered
  <2> HIDE DEF gone, told
  <2> QED BY <1>0, <2>1, <2>2, <2>4, <2>6
<1>10. CASE DeferredUnload
  BY <1>0, <1>10 DEF DeferredUnload, jobs, Unanswered, Current
<1>11. CASE ExecutorStep
  BY <1>8, <1>9, <1>10, <1>11 DEF ExecutorStep
<1>12. CASE SlotsNext
  BY <1>4, <1>5, <1>6, <1>7, <1>11, <1>12 DEF SlotsNext
<1> QED BY <1>2, <1>3, <1>12, StepKinds

\* An outcome is only sent where one is owed.
LEMMA OwedSent ==
  ASSUME TypeOK, Slots, OutcomesOwed, NEW j \in Jobs, Finish(j)
  PROVE  {m.uid : m \in out'} \subseteq owed
<1> DEFINE dropped == IF Outcome(j) = "engine-failed" THEN {pending} \ {None} ELSE {}
           S == Settled(j, dropped)
           msg(k) == Msg(IF k = j THEN Outcome(j) ELSE "engine-failed", Request(k), job[k].uid)
<1>1. out' = {msg(k) : k \in S}
  BY DEF Finish
<1>2. S \subseteq {k \in Current : ~job[k].notified}
  <2>1. active = j /\ j # None
    BY NoneAssumption DEF Finish
  <2>2. pending # None => ~job[pending].notified
    BY DEF Slots, SlotsOK
  <2> QED BY <2>1, <2>2 DEF Settled, Announced, Current
<1>3. \A k \in S : msg(k).uid = job[k].uid /\ job[k].uid \in owed
  BY <1>2 DEF OutcomesOwed, Msg
<1> HIDE DEF S, msg
<1> QED BY <1>1, <1>3

\* A job that has not been cancelled is recognised from its own PCM.
LEMMA JobsStep ==
  ASSUME TypeOK, Slots, BufferOwned, JobInv, [Next]_vars
  PROVE  JobInv'
<1> DEFINE Right(k, f, a) ==
             /\ f[k].phase \in Busy /\ a # k => f[k].token
             /\ f[k].phase \in {"engine", "infer"} /\ ~f[k].token => f[k].pcm
             /\ f[k].verdict = "result" => f[k].phase = "done" /\ (f[k].token \/ f[k].pcm)
<1>0. \A k \in Jobs : Right(k, job, active)
  BY DEF JobInv
<1> SUFFICES ASSUME NEW k \in Jobs PROVE Right(k, job', active')
  BY DEF JobInv
<1>n. None # "result"
  BY VerdictAssumption DEF Verdicts
<1>t. job \in [Jobs -> JobType] /\ job[k] \in JobType
  BY DEF TypeOK, JobsType
<1>1. ASSUME active' = active \/ active = None, job'[k] = job[k]
      PROVE  Right(k, job', active')
  BY <1>0, <1>1, NoneAssumption
<1>2. ASSUME job'[k] = FreeJob PROVE Right(k, job', active')
  BY <1>2, <1>n DEF FreeJob, Busy
<1>3. CASE UNCHANGED vars \/ QuietStep \/ DeferredUnload \/ \E m \in Models, ok \in BOOLEAN : ModelLoad(m, ok)
  <2>1. UNCHANGED <<active, job>>
    BY <1>3, QuietSteps DEF vars, jobs, SlotsVars, DeferredUnload, ModelLoad
  <2> QED BY <1>1, <2>1
<1>4. ASSUME NEW b \in BOOLEAN, job'[k] = CancelledJob(k, b), active' \in {active, None}
      PROVE  Right(k, job', active')
  <2>1. CASE k = pending
    BY <1>2, <1>4, <2>1, CancelledJobFields DEF TypeOK
  <2>2. CASE k # pending
    <3>1. /\ job'[k].phase = job[k].phase /\ job'[k].verdict = job[k].verdict
          /\ job'[k].token = (job[k].token \/ k = active) /\ job'[k].pcm = job[k].pcm
      BY <1>t, <1>4, <2>2 DEF CancelledJob, JobType
    <3> QED BY <1>0, <3>1
  <2> QED BY <2>1, <2>2
<1>5. ASSUME NEW u \in Utts, RecordCancel(u) PROVE Right(k, job', active')
  <2>1. active' = active /\ (job'[k] = job[k] \/ job'[k] = CancelledJob(k, TRUE))
    BY <1>5 DEF RecordCancel
  <2> QED BY <1>1, <1>4, <2>1
<1>6. CASE ModelUnload \/ Close
  <2>1. active' = None /\ job'[k] = CancelledJob(k, FALSE)
    BY <1>6 DEF ModelUnload, Close, Unload
  <2> QED BY <1>4, <2>1
<1>7. ASSUME NEW u \in Utts, NEW file \in BOOLEAN, Recognize(u, file) PROVE Right(k, job', active')
  <2>1. PICK j \in Jobs, p \in {"queued", "pending"} :
          /\ job' = [job EXCEPT ![j] = NewJob(u, file, p)]
          /\ \/ p = "queued" /\ active = None /\ active' = j
             \/ p = "pending" /\ active' = active
    BY <1>7 DEF Recognize
  <2>2. NewJob(u, file, p).phase = p /\ NewJob(u, file, p).verdict = None
    BY DEF NewJob, FreeJob
  <2>3. CASE k = j
    <3>1. job'[k] = NewJob(u, file, p)
      BY <1>t, <2>1, <2>3
    <3> QED BY <1>n, <2>1, <2>2, <2>3, <3>1 DEF Busy
  <2>4. CASE k # j
    <3>1. job'[k] = job[k]
      BY <1>t, <2>1, <2>4
    <3> QED BY <1>1, <2>1, <3>1
  <2> QED BY <2>3, <2>4
<1>8. ASSUME NEW j \in Jobs, ReadPcm(j) \/ TakeEngine(j) \/ Transcribe(j) PROVE Right(k, job', active')
  <2>1. active' = active /\ job[j] \in JobType /\ job[j].phase \in {"queued", "engine", "infer"}
    BY <1>8, <1>t DEF ReadPcm, TakeEngine, Transcribe
  <2>2. CASE k # j
    <3>1. job'[k] = job[k]
      <4>1. CASE ReadPcm(j)
        BY <1>t, <2>2, <4>1 DEF ReadPcm
      <4>2. CASE TakeEngine(j)
        BY <1>t, <2>2, <4>2 DEF TakeEngine
      <4>3. CASE Transcribe(j)
        BY <1>t, <2>2, <4>3 DEF Transcribe
      <4> QED BY <1>8, <4>1, <4>2, <4>3
    <3> QED BY <1>1, <2>1, <3>1
  <2>3. CASE k = j /\ ReadPcm(j)
    <3>1. job'[k].token = job[k].token /\ job'[k].uid = job[k].uid
      BY <1>t, <2>3 DEF ReadPcm, JobType
    <3>2. job[k].phase = "queued"
      BY <2>3 DEF ReadPcm
    <3>3. ~job[k].token => active = k
      BY <1>0, <3>2 DEF Busy
    <3>4. CASE job' = [job EXCEPT ![j].phase = "engine", ![j].pcm = job[j].file \/ job[j].uid \in buffers]
      <4>1. /\ job'[k].phase = "engine" /\ job'[k].verdict = job[k].verdict
            /\ job'[k].pcm = (job[k].file \/ job[k].uid \in buffers)
        BY <1>t, <2>3, <3>4 DEF JobType
      <4>2. ~job[k].token => job[k].file \/ job[k].uid \in buffers
        BY <3>3, NoneAssumption DEF BufferOwned, Current, Wants
      <4> QED BY <1>0, <2>1, <3>1, <3>2, <3>3, <4>1, <4>2
    <3>5. CASE job' = [job EXCEPT ![j].phase = "done", ![j].verdict = "bad-audio"]
      <4>1. job'[k].phase = "done" /\ job'[k].verdict = "bad-audio"
        BY <1>t, <2>3, <3>5 DEF JobType
      <4> QED BY <2>1, <3>1, <3>3, <4>1
    <3> QED BY <2>3, <3>4, <3>5 DEF ReadPcm
  <2>4. CASE k = j /\ TakeEngine(j)
    <3>1. /\ job'[k].token = job[k].token /\ job'[k].pcm = job[k].pcm
          /\ \/ job'[k].phase = "done" /\ job'[k].verdict = "cancelled" /\ job[k].token
             \/ job'[k].phase = "infer" /\ job'[k].verdict = job[k].verdict
      BY <1>t, <2>4 DEF TakeEngine, JobType
    <3>2. job[k].phase = "engine"
      BY <2>4 DEF TakeEngine
    <3> QED BY <1>0, <2>1, <3>1, <3>2 DEF Busy
  <2>5. CASE k = j /\ Transcribe(j)
    <3>1. PICK v \in Verdicts : job' = [job EXCEPT ![j].phase = "done", ![j].verdict = v]
      BY <2>5 DEF Transcribe, Verdicts
    <3>2. job'[k].token = job[k].token /\ job'[k].pcm = job[k].pcm /\ job'[k].phase = "done"
      BY <1>t, <2>5, <3>1 DEF JobType
    <3>3. job[k].phase = "infer"
      BY <2>5 DEF Transcribe
    <3> QED BY <1>0, <2>1, <3>2, <3>3 DEF Busy
  <2> QED BY <1>8, <2>2, <2>3, <2>4, <2>5
<1>9. ASSUME NEW j \in Jobs, FinishOrphan(j) PROVE Right(k, job', active')
  <2>1. active' = active /\ job' = [job EXCEPT ![j] = FreeJob]
    BY <1>9 DEF FinishOrphan
  <2>2. CASE k = j
    BY <1>2, <1>t, <2>1, <2>2
  <2>3. CASE k # j
    BY <1>1, <1>t, <2>1, <2>3
  <2> QED BY <2>2, <2>3
<1>10. ASSUME NEW j \in Jobs, Finish(j) PROVE Right(k, job', active')
  <2> DEFINE dropped == IF Outcome(j) = "engine-failed" THEN {pending} \ {None} ELSE {}
  <2>1. /\ active = j /\ active' = (IF dropped = {} THEN pending ELSE None)
        /\ job'[k] = IF k \in dropped \cup {j} THEN FreeJob
                     ELSE IF k = pending THEN [job[k] EXCEPT !.phase = "queued"] ELSE job[k]
    BY <1>10 DEF Finish
  <2>2. CASE k \in dropped \cup {j}
    BY <1>2, <2>1, <2>2
  <2>3. CASE k \notin dropped \cup {j} /\ k = pending
    <3>1. job'[k].phase = "queued" /\ job'[k].verdict = job[k].verdict /\ job[k].phase = "pending"
      BY <1>t, <2>1, <2>3, NoneAssumption DEF JobType, Slots, SlotsOK
    <3>2. dropped = {}
      BY <2>3, NoneAssumption
    <3> QED BY <1>0, <2>1, <2>3, <3>1, <3>2
  <2>4. CASE k \notin dropped \cup {j} /\ k # pending
    <3>1. job'[k] = job[k] /\ active # k
      BY <2>1, <2>4
    <3> QED BY <1>0, <3>1
  <2> QED BY <2>2, <2>3, <2>4
<1>11. CASE ExecutorStep
  BY <1>3, <1>8, <1>9, <1>10, <1>11 DEF ExecutorStep
<1>12. CASE SlotsNext
  BY <1>3, <1>5, <1>6, <1>7, <1>11, <1>12 DEF SlotsNext
<1> QED BY <1>3, <1>12, StepKinds

-----------------------------------------------------------------------------
(* Events about kept PCM.                                                  *)

LEMMA ReturnQuiet ==
  ASSUME NEW msg, NEW w, Return(msg, w), msg # None => Quiet(msg)
  PROVE  ReplyInv' /\ \A m \in out' : Quiet(m)
BY DEF Return, ReplyInv

LEMMA MsgQuiet ==
  ASSUME NEW t, NEW r, NEW u, t \notin {"record.limit", "device.changed"}
  PROVE  Quiet(Msg(t, r, u))
BY DEF Quiet, Msg

\* Nothing the main loop says is such an event.
LEMMA HandlersQuiet ==
  ASSUME ReplyInv, MainStep
  PROVE  ReplyInv' /\ \A m \in out' : Quiet(m)
<1> DEFINE Goal == ReplyInv' /\ \A m \in out' : Quiet(m)
<1>1. ASSUME NEW u \in Utts, RefuseStart(u) \/ LateStop(u) \/ CancelUnknown(u) PROVE Goal
  BY <1>1, ReturnQuiet, MsgQuiet DEF RefuseStart, LateStop, CancelUnknown, Refuse
<1>2. ASSUME NEW u \in Utts, RecordStart(u) \/ RecordStop(u) \/ RecordCancel(u) PROVE Goal
  BY <1>2, ReturnQuiet, MsgQuiet DEF RecordStart, RecordStop, RecordCancel
<1>3. ASSUME NEW u \in Utts, NEW file \in BOOLEAN, RefuseRecognize(u, file) PROVE Goal
  <2>1. PICK msg \in RecognizeError(u, file), w \in SUBSET {u} : Return(msg, w)
    BY <1>3 DEF RefuseRecognize, Refuse
  <2>2. Quiet(msg)
    BY <2>1 DEF RecognizeError, Msg, Quiet
  <2> QED BY <2>1, <2>2, ReturnQuiet
<1>4. ASSUME NEW u \in Utts, NEW file \in BOOLEAN, Recognize(u, file) PROVE Goal
  BY <1>4, ReturnQuiet DEF Recognize, TakeRecord
<1>5. ASSUME NEW u \in Utts, NEW file \in BOOLEAN, SubmitFails(u, file) PROVE Goal
  BY <1>5, MsgQuiet DEF SubmitFails, ReplyInv
<1>6. ASSUME NEW m \in Models, AnswerLoad(m) PROVE Goal
  <2>1. PICK t \in LoadAnswer(m) : Return(Msg(t, "model.load", None), {})
    BY <1>6 DEF AnswerLoad, Refuse
  <2>2. t \notin {"record.limit", "device.changed"}
    BY <2>1 DEF LoadAnswer
  <2> QED BY <2>1, <2>2, ReturnQuiet, MsgQuiet
<1>7. ASSUME NEW m \in Models, NEW ok \in BOOLEAN, ModelLoad(m, ok) PROVE Goal
  BY <1>7, ReturnQuiet, MsgQuiet DEF ModelLoad
<1>8. CASE AudioClose \/ ModelUnload \/ Expire
  BY <1>8, ReturnQuiet, MsgQuiet DEF AudioClose, ModelUnload, Expire, Refuse
<1>9. CASE Close \/ Reply \/ Exit \/ RecordDeadline \/ StopTimeout
  BY <1>9 DEF Close, Reply, Exit, RecordDeadline, StopTimeout, control, ReplyInv
<1>10. CASE FirstChunkWatchdog
  <2>1. UNCHANGED control /\ out' \subseteq {Msg("audio-error", "event", silent)}
    BY <1>10 DEF FirstChunkWatchdog, DropRecord
  <2> QED BY <2>1, MsgQuiet DEF control, ReplyInv
<1> QED BY <1>1, <1>2, <1>3, <1>4, <1>5, <1>6, <1>7, <1>8, <1>9, <1>10, Zenon DEF MainStep

\* The limit of a record and the change of its device are told while the PCM is kept.
Told(m) == m.uid \in buffers' /\ recording' # m.uid

LEMMA EventsStep ==
  ASSUME TypeOK, Slots, Owners, ReplyInv, [Next]_vars
  PROVE  ReplyInv' /\ [\A m \in out' : Quiet(m) \/ Told(m)]_vars
<1>1. CASE UNCHANGED vars
  BY <1>1 DEF vars, control, ReplyInv
<1>2. CASE MainStep
  BY <1>2, HandlersQuiet
<1>3. CASE ExecutorStep \/ CaptureStep \/ \E u \in Utts : Age(u)
  <2>1. UNCHANGED control
    BY <1>3 DEF ExecutorStep, CaptureStep, ReadPcm, TakeEngine, Transcribe, FinishOrphan, Finish,
           DeferredUnload, OpenSource, StartReading, ReadChunk, Deliver, LeaveReading,
           ReportChange, ReportError, CloseSource, Age
  <2>2. ReplyInv'
    BY <2>1 DEF ReplyInv, control
  <2>3. ASSUME NEW j \in Jobs, Finish(j) PROVE \A m \in out' : Quiet(m)
    <3>1. job[j].phase = "done" /\ job[j].verdict \in Verdicts
      BY <2>3 DEF Finish, Slots, ExecutorHasOneJob
    <3>2. Outcome(j) \notin {"record.limit", "device.changed"}
      BY <3>1 DEF Outcome, Verdicts
    <3>3. \A m \in out' : \E k : m = Msg(IF k = j THEN Outcome(j) ELSE "engine-failed", Request(k), job[k].uid)
      BY <2>3 DEF Finish
    <3> QED BY <3>2, <3>3 DEF Quiet, Msg
  <2>4. ASSUME NEW j \in Jobs, ReadPcm(j) \/ TakeEngine(j) \/ Transcribe(j) \/ FinishOrphan(j)
        PROVE  out' = {}
    BY <2>4 DEF ReadPcm, TakeEngine, Transcribe, FinishOrphan
  <2>5. ASSUME DeferredUnload \/ \E u \in Utts : Age(u) PROVE out' = {}
    BY <2>5 DEF DeferredUnload, Age
  <2>6. ASSUME OpenSource \/ StartReading \/ CloseSource \/ ReadChunk \/ LeaveReading \/ ReportError
        PROVE  \A m \in out' : Quiet(m)
    <3>1. OpenSource => out' \subseteq {Msg("audio.ready", "event", None)}
      BY DEF OpenSource
    <3>2. StartReading => out' \subseteq {Msg("record.started", "event", chain[1].uid)}
      BY DEF StartReading
    <3>3. CloseSource => out' \subseteq {Msg("record.stopped", "event", chain[1].uid)}
      BY DEF CloseSource
    <3>4. ReadChunk \/ LeaveReading => out' = {}
      BY DEF ReadChunk, LeaveReading
    <3>5. ReportError => out' \subseteq {Msg("audio-error", "event", chain[1].uid)}
      BY DEF ReportError, DropRecord
    <3>6. \A t \in {"audio.ready", "record.started", "record.stopped", "audio-error"} : \A u :
            Quiet(Msg(t, "event", u))
      BY MsgQuiet
    <3> QED BY <2>6, <3>1, <3>2, <3>3, <3>4, <3>5, <3>6
  <2>7. ASSUME NEW full \in BOOLEAN, Deliver(full) PROVE \A m \in out' : Quiet(m) \/ Told(m)
    <3>1. chain[1].uid \in Utts
      BY <2>7, ChainHead DEF Deliver, TypeOK
    <3>2. CASE recording = chain[1].uid /\ full
      <4>1. /\ out' = {Msg("record.limit", "event", recording)} /\ recording' = None /\ buffers' = buffers
            /\ recording \in Utts
        BY <2>7, <3>1, <3>2 DEF Deliver
      <4>2. recording \in buffers
        BY <4>1, NoneAssumption DEF Owners
      <4> QED BY <4>1, <4>2, NoneAssumption DEF Told, Msg
    <3>3. CASE ~(recording = chain[1].uid /\ full)
      BY <2>7, <3>3 DEF Deliver
    <3> QED BY <3>2, <3>3
  <2>8. ASSUME ReportChange PROVE \A m \in out' : Quiet(m) \/ Told(m)
    <3> DEFINE u == chain[1].uid
    <3>1. u \in Utts
      BY <2>8, ChainHead DEF ReportChange, TypeOK
    <3>2. CASE out' = {}
      BY <3>2
    <3>3. CASE recording = u /\ recording' = None /\ buffers' = Kept(buffers) /\ out' = {Msg("device.changed", "event", u)}
      <4>1. u \in Kept(buffers)
        BY <3>1, <3>3, NoneAssumption DEF Owners, Kept
      <4> QED BY <3>1, <3>3, <4>1, NoneAssumption DEF Told, Msg
    <3>4. CASE /\ recording # u /\ recording' = recording /\ buffers' = Kept(buffers)
               /\ out' = {Msg("device.changed", "event", v) : v \in StillKept(u)}
      <4>1. \A v \in StillKept(u) : v = u /\ v \in Kept(buffers)
        BY DEF StillKept, Kept, Owners
      <4> QED BY <3>4, <4>1 DEF Told, Msg
    <3> QED BY <2>8, <3>2, <3>3, <3>4 DEF ReportChange
  <2>9. \A m \in out' : Quiet(m) \/ Told(m)
    BY <1>3, <2>3, <2>4, <2>5, <2>6, <2>7, <2>8 DEF ExecutorStep, CaptureStep
  <2> QED BY <2>2, <2>9
<1>4. CASE Ended
  BY <1>1, <1>4 DEF Ended
<1> QED BY <1>1, <1>2, <1>3, <1>4 DEF Next

-----------------------------------------------------------------------------
(* The theorems.                                                           *)

PcmInv == MicInv /\ Owners /\ OutcomesOwed /\ JobInv /\ ReplyInv

LEMMA PcmInit == Init => PcmInv
<1> SUFFICES ASSUME Init PROVE PcmInv
  OBVIOUS
<1>1. /\ chain = <<>> /\ recording = None /\ buffers = {} /\ stopped = {} /\ stale = {} /\ deviceChanged = {}
      /\ history = <<>> /\ Current = {} /\ reply = None /\ owed = {} /\ \A j \in Jobs : job[j] = FreeJob
  BY DEF Init, Current
<1>2. MicInv
  BY <1>1 DEF MicInv
<1>3. Owners
  BY <1>1 DEF Owners, Held, Wanted, Names, Once
<1>4. OutcomesOwed /\ ReplyInv
  BY <1>1 DEF OutcomesOwed, ReplyInv
<1>5. FreeJob.phase = "free" /\ FreeJob.verdict = None /\ None # "result"
  BY VerdictAssumption DEF FreeJob, Verdicts
<1>6. JobInv
  BY <1>1, <1>5 DEF JobInv, Busy
<1> QED BY <1>2, <1>3, <1>4, <1>6 DEF PcmInv

LEMMA PcmNext == IInv /\ PcmInv /\ [Next]_vars => PcmInv'
<1> SUFFICES ASSUME IInv, PcmInv, [Next]_vars PROVE PcmInv'
  OBVIOUS
<1>1. TypeOK /\ Slots
  BY DEF IInv
<1>2. BufferOwned
  BY <1>1, OwnersMean DEF PcmInv
<1> QED BY <1>1, <1>2, MicStep, OwnersStep, OwedStep, JobsStep, EventsStep DEF PcmInv

LEMMA PcmInvariance == Spec => []PcmInv
BY Invariance, PcmInit, PcmNext, PTL DEF Spec

\* For every number of ids and threads the microphone is read only for the phrase that is recorded
\* (worker/audio.py): whatever stops a record has told its thread to stop.
THEOREM MicrophoneOwned == Spec => []MicrophoneHasOwner
<1>1. ASSUME PcmInv PROVE MicrophoneHasOwner
  BY <1>1 DEF PcmInv, MicInv, MicrophoneHasOwner
<1> QED BY <1>1, PcmInvariance, PTL

\* For every number of ids and jobs each kept buffer has exactly one owner that will free it, and
\* what is recognised is the PCM that was asked for (worker/state.py).
THEOREM PcmAccounted == Spec => []BuffersAccounted
<1>1. ASSUME IInv, PcmInv PROVE BuffersAccounted
  <2>1. BufferOwned /\ MarksHaveBuffers /\ HistoryIsOfTheDead
    BY <1>1, OwnersMean DEF IInv, PcmInv
  <2>2. ResultsHavePcm
    BY <1>1 DEF PcmInv, JobInv, ResultsHavePcm
  <2> QED BY <2>1, <2>2 DEF BuffersAccounted
<1>2. IInv /\ PcmInv => BuffersAccounted
  BY <1>1
<1> QED BY <1>2, Invariance, PcmInvariance, PTL

\* For every number of ids and jobs a recognition is settled once: what is owed is what the slots
\* hold, an outcome is sent only where one is owed, and an event about PCM only while it is kept.
THEOREM OutcomesAreSettled == Spec => OutcomesSettled
<1>1. IInv /\ PcmInv /\ [Next]_vars => [\A j \in Jobs : Finish(j) => {m.uid : m \in out'} \subseteq owed]_vars
  BY OwedSent DEF IInv, PcmInv
<1>2. IInv /\ PcmInv /\ [Next]_vars =>
        [\A m \in out' : m.type \in {"record.limit", "device.changed"} =>
           m.uid \in buffers' /\ recording' # m.uid]_vars
  BY EventsStep DEF IInv, PcmInv, Quiet, Told
<1>3. PcmInv => OutcomesOwed
  BY DEF PcmInv
<1>4. Spec => OutcomesAreOwed
  BY <1>1, Invariance, PcmInvariance, PTL DEF Spec, OutcomesAreOwed
<1>5. Spec => EventsHavePcm
  BY <1>2, Invariance, PcmInvariance, PTL DEF Spec, EventsHavePcm
<1>6. Spec => []OutcomesOwed
  BY <1>3, PcmInvariance, PTL
<1> QED BY <1>4, <1>5, <1>6 DEF OutcomesSettled

=============================================================================
