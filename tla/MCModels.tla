------------------------------- MODULE MCModels --------------------------------
(* Model checking of what runs the language model: a behaviour is one of the       *)
(* three servers around LMGen, the conditions it is given, its forward, or the     *)
(* files of run_inference, one of which has the batch at a time.                   *)
EXTENDS TTSServer, ASRServer, ConditionServices, LMForward,
  JobRetrieval

CONSTANT Files

VARIABLES
  slots, life, fed, taken, got, offsets, offsetCpu, cache, references, condition, stepIndex, rag

Jobs == INSTANCE OfflineJobs WITH
  Occupants <- Files, BatchSize <- 1, MaxFrames <- 9, MaxDelay <- 1, RefLen <- 1, JobSteps <- 7,
  pending <- references

ASSUME FilesAssumption == Jobs!Nobody \notin Files

fileVars ==
  <<slots, life, fed, taken, got, offsets, offsetCpu, cache, references, condition, stepIndex, rag>>
serverVars == <<lmVars, ttsVars, asrVars>>
vars == <<service, serverVars, servicesVars, forwardVars, fileVars>>

NoConditions ==
  /\ role = "none" /\ model = <<>> /\ samples = <<>> /\ given = Unfused /\ text = <<>>
  /\ pending = <<>> /\ heard = <<>> /\ voice = <<>> /\ keys = <<>>

NoForward ==
  lags = <<>> /\ frames = 0 /\ zeros = {} /\ schedule = <<>> /\ row = <<>> /\ inputs = <<>>

NoFiles ==
  /\ slots = [b \in {0} |-> Jobs!Nobody] /\ life = [f \in Files |-> "gone"]
  /\ fed = [f \in Files |-> 0] /\ taken = fed /\ stepIndex = fed
  /\ got = [f \in Files |-> <<>>]
  /\ offsets = <<>> /\ offsetCpu = 0 /\ cache = <<>> /\ references = <<>> /\ condition = <<>>
  /\ rag = [f \in Files |-> NoRetrieval]

Init ==
  /\ TTSInit /\ ASRInit
  /\ \/ service = "dialogue" /\ LMInit(Dialogue) /\ NoConditions /\ NoForward /\ NoFiles
     \/ service = "tts" /\ LMInit(TTSModel) /\ NoConditions /\ NoForward /\ NoFiles
     \/ service = "asr" /\ LMInit(ASRModel) /\ NoConditions /\ NoForward /\ NoFiles
     \/ service = "conditions" /\ LMInit(Dialogue) /\ ServicesInit /\ NoForward /\ NoFiles
     \/ service = "forward" /\ LMInit(Dialogue) /\ NoConditions /\ ForwardInit /\ NoFiles
     \/ service = "files" /\ LMInit(Dialogue) /\ NoConditions /\ NoForward /\ Jobs!JobInit

Server ==
  \/ service = "dialogue" /\ DialogueStep /\ UNCHANGED <<ttsVars, asrVars>>
  \/ service = "tts" /\ TTSNext /\ UNCHANGED asrVars
  \/ service = "asr" /\ ASRNext /\ UNCHANGED ttsVars

Next ==
  /\ UNCHANGED service
  /\ \/ Server /\ UNCHANGED <<servicesVars, forwardVars, fileVars>>
     \/ service = "conditions" /\ ServicesNext
        /\ UNCHANGED <<serverVars, forwardVars, fileVars>>
     \/ service = "forward" /\ ForwardNext
        /\ UNCHANGED <<serverVars, servicesVars, fileVars>>
     \/ service = "files" /\ Jobs!JobNext
        /\ UNCHANGED <<serverVars, servicesVars, forwardVars>>

\* The loops run on, the one for speech as long as there is a channel: only they
\* change stepped, and they can whenever they are at that point.  The clients need
\* not send anything.
Fairness ==
  /\ WF_stepped(service = "tts" /\ (stepped \/ Channels # {}) /\ stepped' = ~stepped)
  /\ WF_stepped(service = "asr" /\ stepped' = ~stepped)
  /\ Jobs!JobFairness

Spec == Init /\ [][Next]_vars /\ Fairness

\* What the model reads and returns in a step is of the row's session, as in forward.
StreamIsSound == InputIsDelayed /\ FrameIsWhole /\ PrependedOnce /\ ForwardIsSound

\* What a client of a server is sent is its own, in order, and in time.
ServedTheirOwn == AudioIsOwn /\ AudioNotStarved /\ MarkerAfterData

\* Every client that has told its server that it is done is answered.
EveryoneIsAnswered == SpeakersAreAnswered /\ ListenersAreAnswered

\* The trace of a file tells what the model said when, and the references conditioned
\* it in order.
JobsAreSound == Jobs!TraceIsAligned /\ Jobs!ReferencesInOrder

\* The property of OfflineJobs, of these files.
FilesFinish == Jobs!FilesFinish
===============================================================================
