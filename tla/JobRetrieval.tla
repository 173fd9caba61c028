------------------------------ MODULE JobRetrieval -----------------------------
(***************************************************************************)
(* The retrievals of one job of run_inference, as a record that its loops  *)
(* and its background task change.  The job is not run in real time: its   *)
(* output loop stops while a retrieval runs, and the reference conditions  *)
(* the model as many outputs later as the retrieval would have lasted.  A  *)
(* cancellation is never lost (Python 3.12); the job has no speculative    *)
(* attempts.                                                               *)
(***************************************************************************)
EXTENDS Integers, Sequences

CONSTANTS
  WaitSteps,   \* TurnManager.stt_wait_steps
  MaxElapsed,  \* bound on the outputs a retrieval lasts
  MaxRagTokens \* bound on the RAG tokens of a job

ASSUME JobRetrievalAssumption == {WaitSteps, MaxElapsed, MaxRagTokens} \subseteq Nat

Never == -1

\* A retrieval is named by its RAG token: 1 is the first, 0 is none.
NoRetrieval ==
  [asking      |-> 0,      \* the reference _handle_reference_text has the encoder work on
   start       |-> Never,  \* _retrieval_start_step
   started     |-> FALSE,  \* _retrieval_start_time is not None
   done        |-> Never,  \* _retrieval_done_step
   doing       |-> FALSE,  \* _doing_retrieval
   tokens      |-> 0,      \* RAG tokens so far
   running     |-> FALSE,  \* RAGManager._pending_task is not done
   waiting     |-> 0,      \* RAGManager._wait_steps_remaining
   reference   |-> 0,      \* trace["reference_text"]
   conditioned |-> <<>>]   \* the references that conditioned the model

-------------------------------------------------------------------------------
(* _output_loop, at the output number step *)

\* The RAG token: trigger cancels the retrieval before it.
Triggered(r, step) ==
  [r EXCEPT !.tokens = @ + 1, !.running = TRUE, !.waiting = WaitSteps,
            !.start = step + WaitSteps]

\* With the token of an output or without it.
Outcomes(r, step) ==
  {r} \cup (IF r.tokens < MaxRagTokens THEN {Triggered(r, step)} ELSE {})

\* RAGManager.step, and the start of the retrieval.
Counted(r, step) ==
  [r EXCEPT !.waiting = IF @ > 0 THEN @ - 1 ELSE 0,
            !.started = @ \/ step = r.start, !.doing = @ \/ step = r.start]

IsDue(r, step) == r.done # Never /\ r.done <= step

\* The end of _handle_reference_text.
Settled(r) ==
  [r EXCEPT !.start = Never, !.started = FALSE, !.done = Never, !.asking = 0]

-------------------------------------------------------------------------------
\* The end of _background_task: _catch_reference_text, whose assertion fails, and is
\* logged, if the output loop has not come to the start of the retrieval.
Caught(r, step, elapsed) ==
  IF r.started
  THEN [r EXCEPT !.running = FALSE, !.reference = r.tokens,
                 !.done = step + elapsed, !.doing = FALSE]
  ELSE [r EXCEPT !.running = FALSE, !.reference = r.tokens]

===============================================================================
