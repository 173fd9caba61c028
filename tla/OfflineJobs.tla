------------------------------ MODULE OfflineJobs ------------------------------
(***************************************************************************)
(* The jobs of run_inference as occupants of the batch.  All of them ask   *)
(* for a slot at once.  A job feeds a frame only when the model has        *)
(* answered the frames before it but MaxDelay; its output loop reads the   *)
(* outputs, asks for references (JobRetrieval), and ends when it has seen  *)
(* enough silence, here after JobSteps outputs.  What STT hears and        *)
(* --stop-on-end-of-input are left out.                                    *)
(***************************************************************************)
EXTENDS BatchSlots, JobRetrieval

\* Outputs of the model that a job needs: at least one, and it has more than
\* JobSteps + MaxDelay frames to feed.
CONSTANT JobSteps

VARIABLES
  stepIndex, \* InferenceJob.step_index
  rag        \* the retrievals of each job

jobVars == <<vars, stepIndex, rag>>

JobInit ==
  /\ Init
  /\ stepIndex = [o \in Occupants |-> 0] /\ rag = [o \in Occupants |-> NoRetrieval]

-------------------------------------------------------------------------------
\* Mutant: the stream delay is not allowed for.
PacedTightly(o) == fed[o] > 0 => stepIndex[o] >= fed[o]

\* _wait_step_index_at_least(feed_step - max_stream_delay)
Paced(o) == fed[o] > 0 => stepIndex[o] >= fed[o] - MaxDelay

\* _feed_loop
FeedJob(o) == Paced(o) /\ Feed(o) /\ UNCHANGED <<stepIndex, rag>>

\* _finalize, or an exception: what still runs is cancelled, and the job is no more.
Ends(o) ==
  /\ life' = [life EXCEPT ![o] = "closing"]
  /\ rag' = [rag EXCEPT ![o] = NoRetrieval]

\* The end of an iteration of _output_loop.
Advance(o, r) ==
  /\ stepIndex' = [stepIndex EXCEPT ![o] = @ + 1]
  /\ \/ stepIndex[o] + 1 = JobSteps /\ Ends(o)
     \/ stepIndex[o] + 1 # JobSteps /\ rag' = [rag EXCEPT ![o] = r] /\ UNCHANGED life

\* An iteration of _output_loop, which does not begin while a retrieval is awaited, and
\* does not end while the encoder works on a reference that is due, unless it is too weak.
ReadOutput(o) ==
  /\ life[o] = "running" /\ ~rag[o].doing /\ rag[o].asking = 0 /\ stepIndex[o] < Len(got[o])
  /\ \E t \in Outcomes(rag[o], stepIndex[o]) : LET r == Counted(t, stepIndex[o]) IN
       \/ ~IsDue(r, stepIndex[o]) /\ Advance(o, r)
       \/ IsDue(r, stepIndex[o]) /\ Advance(o, Settled(r))
       \/ /\ IsDue(r, stepIndex[o])
          /\ rag' = [rag EXCEPT ![o] = [r EXCEPT !.asking = r.reference]]
          /\ UNCHANGED <<life, stepIndex>>
  /\ UNCHANGED <<slots, fed, taken, got, lmVars>>

\* The retrieval returns, in time to condition the model elapsed outputs later.
RetrievalReturns(o, elapsed) ==
  /\ life[o] = "running" /\ rag[o].running /\ rag[o].waiting = 0
  /\ rag' = [rag EXCEPT ![o] = Caught(@, stepIndex[o], elapsed)]
  /\ UNCHANGED <<vars, stepIndex>>

\* The encoder answers: the reference conditions the slot, and the iteration ends.
Conditions(o) ==
  /\ life[o] = "running" /\ rag[o].asking # 0
  /\ pending' = [pending EXCEPT ![SlotOf(o)] = [of |-> o, left |-> RefLen]]
  /\ Advance(o, [Settled(rag[o]) EXCEPT !.conditioned = Append(@, rag[o].asking)])
  /\ UNCHANGED <<slots, fed, taken, got, offsets, offsetCpu, cache, condition>>

\* _run_wav_job logs an exception, of start_up or of the encoder, and releases the slot
\* all the same.
JobFails(o) ==
  /\ life[o] = "starting" \/ (life[o] = "running" /\ rag[o].asking # 0)
  /\ Ends(o)
  /\ UNCHANGED <<slots, fed, taken, got, lmVars, stepIndex>>

JobStarts(o) == StartUp(o) /\ UNCHANGED <<stepIndex, rag>>

Returns(o) == \E elapsed \in 0 .. MaxElapsed : RetrievalReturns(o, elapsed)

\* _run_wav_job: wait_acquire_slot, run, release_slot.
Job(o) ==
  \/ Acquire(o) /\ UNCHANGED <<stepIndex, rag>>
  \/ JobStarts(o) \/ JobFails(o)
  \/ FeedJob(o) \/ ReadOutput(o) \/ Returns(o) \/ Conditions(o)
  \/ Release(o) /\ UNCHANGED <<stepIndex, rag>>

JobNext == (Step /\ UNCHANGED <<stepIndex, rag>>) \/ \E o \in Occupants : Job(o)

\* The event loop runs whatever is ready, and the step loop polls the queues.  A
\* retrieval returns, by rag_timeout at the latest, and the encoder answers or the
\* request fails.
JobFairness ==
  /\ WF_jobVars(Step /\ UNCHANGED <<stepIndex, rag>>)
  /\ \A o \in Occupants :
       /\ WF_jobVars(Acquire(o) /\ UNCHANGED <<stepIndex, rag>>)
       /\ WF_jobVars(JobStarts(o) \/ JobFails(o))
       /\ WF_jobVars(FeedJob(o)) /\ WF_jobVars(ReadOutput(o))
       /\ WF_jobVars(Returns(o)) /\ WF_jobVars(Conditions(o) \/ JobFails(o))
       /\ WF_jobVars(Release(o) /\ UNCHANGED <<stepIndex, rag>>)

JobSpec == JobInit /\ [][JobNext]_jobVars /\ JobFairness

-------------------------------------------------------------------------------
\* Every output of a finished job was read while it ran, and none is of another job:
\* the token at step_index is that of the frame that was fed MaxDelay steps before
\* (feed_loop, max_stream_delay).
TraceIsAligned ==
  \A o \in Occupants : \A i \in 1 .. stepIndex[o] : got[o][i] = <<o, i>>

\* A job is conditioned by the references in the order of the RAG tokens that asked
\* for them, by none of them twice, and by none before its retrieval has returned.
ReferencesInOrder ==
  \A o \in Occupants : LET c == rag[o].conditioned IN
    /\ \A i \in DOMAIN c : c[i] \in 1 .. rag[o].reference
    /\ \A i, j \in DOMAIN c : i < j => c[i] < c[j]

\* The output loop waits for a retrieval that has returned already: it had not noted its
\* start by then, or has forgotten it since, and nothing will end the wait.
WaitsInVain(o) == rag[o].doing /\ rag[o].asking = 0 /\ ~rag[o].running

\* Every file is done in the end, unless a job waits in vain: neither the pace of the
\* feed nor a retrieval or an encoding under way stops the job that has the slot.
FilesFinish ==
  \A o \in Occupants : <>(life[o] = "gone" \/ \E p \in Occupants : WaitsInVain(p))

-------------------------------------------------------------------------------
(* What the repository's text says and the code does not do *)

\* "Wait for a free batch slot, run one InferenceJob, then release the slot"
\* (run_inference.py:54): every file is done in the end.
JobsFinish == \A o \in Occupants : <>(life[o] = "gone")

===============================================================================
