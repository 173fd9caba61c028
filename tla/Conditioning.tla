----------------------------- MODULE Conditioning -----------------------------
(***************************************************************************)
(* One connected Channel with its RAGManager and SpeculativeSlot: how      *)
(* confirmed retrievals (the model emits rag_token_id), predictive guesses *)
(* (from the partial transcript) and the ARC encoding requests they spawn  *)
(* race for the one conditioning input of the model.                       *)
(*                                                                         *)
(* Everything runs on one asyncio event loop, so an action is the code     *)
(* between two awaits.  Two loops act (_stt_recv_loop and _output_loop);   *)
(* every retrieval is a task ("job") of its own, and so is every ARC       *)
(* request, kept here as the "arc" field of the job that spawned it.       *)
(* What a word or a reference says is not modelled, only whether a         *)
(* reference has text ("text") or not ("empty").                           *)
(***************************************************************************)
EXTENDS Integers, FiniteSets

CONSTANTS
  MaxJobs,         \* bound on the retrieval tasks ever created
  MaxSeq,          \* bound on the trigger numbers ever minted
  MaxTurn,         \* bound on the user turns
  WaitSteps,       \* stt_wait_steps: frames a fresh retrieval waits for STT
  MaxShots,        \* rag_max_shots_per_turn
  CancelMayBeLost  \* TRUE on Python 3.11, whose wait_for returns the result
                   \* of a call that finished as its caller was cancelled

ASSUME BoundsAssumption ==
  /\ MaxJobs \in Nat /\ MaxSeq \in Nat /\ MaxTurn \in Nat
  /\ WaitSteps \in Nat /\ MaxShots \in Nat
  /\ CancelMayBeLost \in BOOLEAN

Jobs    == 1 .. MaxJobs
None    == 0
Speaker == {"user", "model"}

Ended == {"done", "cancelled"}
PC    == {"unused", "ready", "wait", "adopt", "retrieve", "memory"} \cup Ended
Kind  == {"guess", "fresh", "confirm"}
Arc   == {"none", "request", "applied", "stale", "failed", "skipped"}

VARIABLES
  speaker,   \* TurnManager.active_speaker
  turn,      \* user turns begun, by either loop; _turn_index misses those of the
             \* output loop (properties only)
  trigger,   \* PredictiveTrigger: "armed", or "fired" in this user turn
  shots,     \* MultiShotGate._shots_this_turn
  sttPc,     \* "recv": awaiting a word; "sent": awaiting its echo to the client
  outPc,     \* "idle", "flush" (awaiting stt.flush) or "cancel" (awaiting outJob)
  outJob,    \* the old job that _cancel_and_await_pending awaits
  outSeq,    \* the trigger number bound for the trigger in progress
  ragSeq,    \* Channel._rag_seq
  last,      \* number of jobs created so far
  job,       \* job[j]: kind, trigger number and user turn, fixed at creation
  pc,        \* where the task of the job is suspended
  cancelling,\* jobs whose task.cancel() was called and has not taken effect yet
  got,       \* the reference text the job holds
  adopts,    \* the guess a "confirm" job awaits or took, None otherwise
  arc,       \* the job's ARC request
  pending,   \* RAGManager._pending_task
  slot,      \* SpeculativeSlot._task
  waitSteps, \* RAGManager._wait_steps_remaining
  waitEvent, \* RAGManager._wait_event: "none", "unset" or "set"
  shownBy    \* job whose reference conditions the model, None if none

turnVars == <<speaker, turn, trigger, shots>>
outVars  == <<outPc, outJob, outSeq>>
taskVars == <<last, job, pc, cancelling, got, adopts, arc>>
waitVars == <<waitSteps, waitEvent>>
vars == <<turnVars, sttPc, outVars, ragSeq, taskVars, pending, slot, waitVars, shownBy>>

-------------------------------------------------------------------------------
Live(j)      == pc[j] \notin Ended \cup {"unused"}
Confirmed(j) == job[j].kind \in {"fresh", "confirm"}

\* Mutant: a task that still waits for STT does not count as in flight.
PendingRetrieves == pending # None /\ pc[pending] = "retrieve"

\* RAGManager's test that a confirmed retrieval is in flight.
PendingLive == pending # None /\ Live(pending)

\* A trigger in progress keeps its place under the bound MaxJobs.
Room == last + (IF outPc = "idle" THEN 0 ELSE 1) < MaxJobs

Init ==
  /\ speaker \in Speaker \* init_active_speaker
  /\ turn = 0 /\ trigger = "armed" /\ shots = 0
  /\ sttPc = "recv"
  /\ outPc = "idle" /\ outJob = None /\ outSeq = 0
  /\ ragSeq = 0
  /\ last = 0
  /\ job    = [j \in Jobs |-> [kind |-> "fresh", seq |-> 0, turn |-> 0]]
  /\ pc     = [j \in Jobs |-> "unused"]
  /\ cancelling = {}
  /\ got    = [j \in Jobs |-> "empty"]
  /\ adopts = [j \in Jobs |-> None]
  /\ arc    = [j \in Jobs |-> "none"]
  /\ pending = None /\ slot = None
  /\ waitSteps = 0 /\ waitEvent = "none"
  /\ shownBy = None

\* create_task: the job exists, its first step has not run.
Create(kind, seq) ==
  /\ last' = last + 1
  /\ job' = [job EXCEPT ![last + 1] = [kind |-> kind, seq |-> seq, turn |-> turn]]
  /\ pc'  = [pc EXCEPT ![last + 1] = "ready"]
  /\ UNCHANGED <<cancelling, got, adopts, arc>>

\* Mutants of Step: the counter is not guarded; the event is never set.
StepUnguarded(w, e) ==
  /\ waitSteps' = w - 1
  /\ waitEvent' = IF w = 1 /\ e # "none" THEN "set" ELSE e

StepNeverSets(w, e) ==
  /\ waitSteps' = IF w > 0 THEN w - 1 ELSE w
  /\ waitEvent' = e

\* RAGManager.step, at the end of an iteration of _output_loop, applied to
\* the wait counter w and event e that the iteration leaves.
Step(w, e) ==
  /\ waitSteps' = IF w > 0 THEN w - 1 ELSE w
  /\ waitEvent' = IF w = 1 /\ e # "none" THEN "set" ELSE e

\* The wait a fresh retrieval starts with.
FreshEvent == IF WaitSteps > 0 THEN "unset" ELSE "none"

-------------------------------------------------------------------------------
(* _stt_recv_loop *)

\* Mutant: a guess that has already completed stays in the slot.
ClearRunning ==
  IF slot # None /\ Live(slot)
  THEN slot' = None /\ cancelling' = cancelling \cup {slot}
  ELSE UNCHANGED <<slot, cancelling>>

\* SpeculativeSlot.clear: cancel without waiting, and forget the attempt.
ClearSpeculative ==
  /\ slot' = None
  /\ cancelling' = IF slot # None /\ Live(slot) THEN cancelling \cup {slot}
                                                ELSE cancelling

\* A recognized word reaches TurnManager, which leaves "to" as the active
\* speaker.  If this starts a user turn the guess of the last turn is dropped
\* and the predictive trigger armed again.  Then the word is sent to the client.
SttWord(to) ==
  /\ sttPc = "recv"
  /\ sttPc' = "sent"
  /\ speaker' = to
  /\ \/ /\ speaker = "model" /\ to = "user"
        /\ turn < MaxTurn
        /\ turn' = turn + 1
        /\ trigger' = "armed"
        /\ ClearSpeculative
     \/ /\ ~(speaker = "model" /\ to = "user")
        /\ UNCHANGED <<turn, trigger, slot, cancelling>>
  /\ UNCHANGED <<shots, outVars, ragSeq, last, job, pc, got, adopts, arc, pending,
                 waitVars, shownBy>>

\* The word does not fire the predictive trigger.
NoGuess ==
  /\ sttPc = "sent"
  /\ sttPc' = "recv"
  /\ UNCHANGED <<turnVars, outVars, ragSeq, taskVars, pending, slot, waitVars, shownBy>>

\* PredictiveTrigger.should_fire is true.  _bind_reference_handler mints a
\* trigger number, then trigger_speculative starts a guess unless a confirmed
\* retrieval is in flight or a guess is already in the slot.
Guess ==
  /\ sttPc = "sent"
  /\ speaker = "user" /\ trigger = "armed"
  /\ ragSeq + (IF outPc = "flush" THEN 1 ELSE 0) < MaxSeq
  /\ sttPc' = "recv"
  /\ trigger' = "fired"
  /\ ragSeq' = ragSeq + 1
  /\ \/ /\ PendingLive \/ slot # None
        /\ UNCHANGED <<taskVars, slot>>
     \/ /\ ~PendingLive /\ slot = None
        /\ Room
        /\ Create("guess", ragSeq + 1)
        /\ slot' = last + 1
  /\ UNCHANGED <<speaker, turn, shots, outVars, pending, waitVars, shownBy>>

-------------------------------------------------------------------------------
(* _output_loop *)

\* A frame without a RAG token.  If TurnManager starts a model turn the shot
\* budget is reset.  If it starts a user turn nothing is: the guess of the last
\* turn stays in the slot, and the trigger as it was.
ModelText(to) ==
  /\ outPc = "idle"
  /\ speaker' = to
  /\ shots' = IF speaker = "user" /\ to = "model" THEN 0 ELSE shots
  /\ \/ speaker = "model" /\ to = "user" /\ turn < MaxTurn /\ turn' = turn + 1
     \/ ~(speaker = "model" /\ to = "user") /\ UNCHANGED turn
  /\ Step(waitSteps, waitEvent)
  /\ UNCHANGED <<trigger, sttPc, outVars, ragSeq, taskVars, pending, slot, shownBy>>

\* A RAG token that MultiShotGate declines (budget spent, or cooling down).
RagDeclined ==
  /\ outPc = "idle" /\ shots > 0
  /\ Step(waitSteps, waitEvent)
  /\ UNCHANGED <<turnVars, sttPc, outVars, ragSeq, taskVars, pending, slot, shownBy>>

\* A RAG token that the gate allows: "[RET]" is sent and STT flushed.
RagToken ==
  /\ outPc = "idle" /\ shots < MaxShots
  /\ last < MaxJobs /\ ragSeq < MaxSeq
  /\ outPc' = "flush"
  /\ UNCHANGED <<turnVars, sttPc, outJob, outSeq, ragSeq, taskVars, pending, slot,
                 waitVars, shownBy>>

\* The tail of RAGManager.trigger: adopt the guess in the slot, or start a
\* fresh retrieval that first waits for STT; then the iteration's step().
StartConfirmed(seq) ==
  /\ outPc' = "idle" /\ outJob' = None
  /\ pending' = last + 1
  /\ \/ /\ slot # None
        /\ Create("confirm", seq)
        /\ Step(waitSteps, waitEvent)
     \/ /\ slot = None
        /\ Create("fresh", seq)
        /\ Step(WaitSteps, FreshEvent)

\* STT is flushed: the shot is recorded, a trigger number minted, and nothing
\* has to be cancelled first.
TriggerAtOnce ==
  /\ outPc = "flush"
  /\ ~PendingLive
  /\ shots' = shots + 1
  /\ ragSeq' = ragSeq + 1
  /\ outSeq' = ragSeq + 1
  /\ StartConfirmed(ragSeq + 1)
  /\ UNCHANGED <<speaker, turn, trigger, sttPc, slot, shownBy>>

\* task.cancel() on a job that awaits another task cancels that task.
CancelTarget(j) ==
  IF pc[j] = "adopt" /\ Live(adopts[j]) THEN adopts[j] ELSE j

\* Mutant: the old task is awaited without being cancelled.
RequestNothing(j) == UNCHANGED cancelling

RequestCancel(j) == cancelling' = cancelling \cup {CancelTarget(j)}

\* The same, but the previous confirmed retrieval still runs:
\* _cancel_and_await_pending forgets it, cancels it and awaits its end.
TriggerCancelling ==
  /\ outPc = "flush"
  /\ PendingLive
  /\ shots' = shots + 1
  /\ ragSeq' = ragSeq + 1
  /\ outSeq' = ragSeq + 1
  /\ outPc' = "cancel"
  /\ outJob' = pending
  /\ pending' = None
  /\ RequestCancel(pending)
  /\ UNCHANGED <<speaker, turn, trigger, sttPc, last, job, pc, got, adopts, arc,
                 slot, waitVars, shownBy>>

\* The awaited old job has ended; trigger goes on.
TriggerResumes ==
  /\ outPc = "cancel"
  /\ ~Live(outJob)
  /\ StartConfirmed(outSeq)
  /\ UNCHANGED <<turnVars, sttPc, outSeq, ragSeq, slot, shownBy>>

-------------------------------------------------------------------------------
(* Retrieval tasks *)

\* _background_task up to its first suspension, given the wait event it finds.
Background(j, e) ==
  /\ pc' = [pc EXCEPT ![j] = IF e = "unset" THEN "wait" ELSE "retrieve"]
  /\ waitEvent' = IF e = "set" THEN "none" ELSE e

StartFresh(j) ==
  /\ pc[j] = "ready" /\ j \notin cancelling /\ job[j].kind = "fresh"
  /\ Background(j, waitEvent)
  /\ UNCHANGED <<turnVars, sttPc, outVars, ragSeq, last, job, cancelling, got, adopts,
                 arc, pending, slot, waitSteps, shownBy>>

StartGuess(j) ==
  /\ pc[j] = "ready" /\ j \notin cancelling /\ job[j].kind = "guess"
  /\ pc' = [pc EXCEPT ![j] = "retrieve"]
  /\ UNCHANGED <<turnVars, sttPc, outVars, ragSeq, last, job, cancelling, got, adopts,
                 arc, pending, slot, waitVars, shownBy>>

\* The attempt to be confirmed gave no text (or is gone): retrieve afresh.
Miss(j) ==
  /\ waitSteps' = WaitSteps
  /\ Background(j, FreshEvent)
  /\ UNCHANGED got

\* The attempt gave text: hand it to the reference handler.
Hit(j) ==
  /\ pc' = [pc EXCEPT ![j] = "memory"]
  /\ got' = [got EXCEPT ![j] = "text"]
  /\ UNCHANGED waitVars

\* Mutant: the attempt is awaited but left in the slot.
LeaveAttempt(j) == UNCHANGED slot /\ adopts' = [adopts EXCEPT ![j] = slot]

\* SpeculativeSlot.confirm takes the attempt out of the slot, then awaits it.
TakeAttempt(j) == slot' = None /\ adopts' = [adopts EXCEPT ![j] = slot]

\* The first step of _confirm_speculative.
StartConfirm(j) ==
  /\ pc[j] = "ready" /\ j \notin cancelling /\ job[j].kind = "confirm"
  /\ TakeAttempt(j)
  /\ \/ slot # None /\ Live(slot)
        /\ pc' = [pc EXCEPT ![j] = "adopt"] /\ UNCHANGED <<got, waitVars>>
     \/ slot # None /\ ~Live(slot) /\ got[slot] = "text" /\ Hit(j)
     \/ (slot # None => ~Live(slot) /\ got[slot] = "empty") /\ Miss(j)
  /\ UNCHANGED <<turnVars, sttPc, outVars, ragSeq, last, job, cancelling, arc, pending, shownBy>>

\* The adopted guess ends while the confirm job awaits it.
Adopted(j) ==
  /\ pc[j] = "adopt" /\ j \notin cancelling /\ pc[adopts[j]] = "done"
  /\ \/ got[adopts[j]] = "text" /\ Hit(j)
     \/ got[adopts[j]] = "empty" /\ Miss(j)
  /\ UNCHANGED <<turnVars, sttPc, outVars, ragSeq, last, job, cancelling, adopts, arc,
                 pending, slot, shownBy>>

Wake(j) ==
  /\ pc[j] = "wait" /\ j \notin cancelling /\ waitEvent = "set"
  /\ waitEvent' = "none"
  /\ pc' = [pc EXCEPT ![j] = "retrieve"]
  /\ UNCHANGED <<turnVars, sttPc, outVars, ragSeq, last, job, cancelling, got, adopts,
                 arc, pending, slot, waitSteps, shownBy>>

\* get_reference_text returns: text, or empty after a timeout or an error.
\* A guess without text ends; otherwise the handler runs and awaits memory.
Retrieved(j, text) ==
  /\ pc[j] = "retrieve"
  /\ j \in cancelling => CancelMayBeLost
  /\ cancelling' = cancelling \ {j}
  /\ got' = [got EXCEPT ![j] = text]
  /\ pc' = [pc EXCEPT ![j] = IF job[j].kind = "guess" /\ text = "empty"
                             THEN "done" ELSE "memory"]
  /\ UNCHANGED <<turnVars, sttPc, outVars, ragSeq, last, job, adopts, arc, pending,
                 slot, waitVars, shownBy>>

\* The memory lookup ends, with something known or not; the handler tells the
\* client and spawns the ARC task, which skips a reference that is too weak.
Handled(j, known, strong) ==
  /\ pc[j] = "memory" /\ j \notin cancelling
  /\ arc' = [arc EXCEPT ![j] = IF strong /\ (known \/ got[j] = "text")
                               THEN "request" ELSE "skipped"]
  /\ pc' = [pc EXCEPT ![j] = "done"]
  /\ UNCHANGED <<turnVars, sttPc, outVars, ragSeq, last, job, cancelling, got, adopts,
                 pending, slot, waitVars, shownBy>>

\* CancelledError is thrown at the await, or into a task that has not started.
Unwind(j) ==
  /\ Live(j)
  /\ j \in cancelling \/ (pc[j] = "adopt" /\ pc[adopts[j]] = "cancelled")
  /\ pc' = [pc EXCEPT ![j] = "cancelled"]
  /\ cancelling' = cancelling \ {j}
  /\ UNCHANGED <<turnVars, sttPc, outVars, ragSeq, last, job, got, adopts, arc,
                 pending, slot, waitVars, shownBy>>

-------------------------------------------------------------------------------
(* ARC encoding requests *)

ArcFails(j) ==
  /\ arc[j] = "request"
  /\ arc' = [arc EXCEPT ![j] = "failed"]
  /\ UNCHANGED <<turnVars, sttPc, outVars, ragSeq, last, job, pc, cancelling, got, adopts,
                 pending, slot, waitVars, shownBy>>

\* Mutants: no staleness check; only triggers that started a job count.
NeverSuperseded(j) == FALSE

SupersededByJob(j) == \E k \in Jobs : job[k].seq > job[j].seq

Superseded(j) == job[j].seq # ragSeq

\* The encoding arrives: dropped if a newer trigger number has been minted.
ArcReturns(j) ==
  /\ arc[j] = "request"
  /\ \/ /\ Superseded(j)
        /\ arc' = [arc EXCEPT ![j] = "stale"]
        /\ UNCHANGED shownBy
     \/ /\ ~Superseded(j)
        /\ arc' = [arc EXCEPT ![j] = "applied"]
        /\ shownBy' = j
  /\ UNCHANGED <<turnVars, sttPc, outVars, ragSeq, last, job, pc, cancelling, got, adopts,
                 pending, slot, waitVars>>

-------------------------------------------------------------------------------
JobStep(j) ==
  \/ StartFresh(j) \/ StartGuess(j) \/ StartConfirm(j)
  \/ Adopted(j) \/ Wake(j)
  \/ \E text \in {"text", "empty"} : Retrieved(j, text)
  \/ \E known, strong \in BOOLEAN : Handled(j, known, strong)
  \/ Unwind(j)

ArcStep(j) == ArcFails(j) \/ ArcReturns(j)

SttLoop == (\E to \in Speaker : SttWord(to)) \/ NoGuess \/ Guess

OutputLoop ==
  \/ \E to \in Speaker : ModelText(to)
  \/ RagDeclined \/ RagToken
  \/ TriggerAtOnce \/ TriggerCancelling \/ TriggerResumes

Next ==
  \/ SttLoop \/ OutputLoop
  \/ \E j \in Jobs : JobStep(j) \/ ArcStep(j)

Spec == Init /\ [][Next]_vars

\* The frame clock keeps the output loop going (run_one_step delivers a frame
\* to every active channel), stt.flush returns, and every await of a job is
\* bounded: the LLM call by rag_timeout, the memory lookup by its deadline, the
\* encoder request by the HTTP client.  Nobody has to speak.
Fairness ==
  /\ WF_vars(OutputLoop)
  /\ \A j \in Jobs : WF_vars(JobStep(j)) /\ WF_vars(ArcStep(j))

FairSpec == Spec /\ Fairness

-------------------------------------------------------------------------------
(* Properties *)

TypeOK ==
  /\ speaker \in Speaker /\ turn \in Nat /\ trigger \in {"armed", "fired"} /\ shots \in Nat
  /\ sttPc \in {"recv", "sent"}
  /\ outPc \in {"idle", "flush", "cancel"}
  /\ outJob \in Jobs \cup {None} /\ outSeq \in Nat
  /\ ragSeq \in Nat
  /\ last \in 0 .. MaxJobs
  /\ job \in [Jobs -> [kind : Kind, seq : Nat, turn : Nat]]
  /\ pc \in [Jobs -> PC]
  /\ cancelling \subseteq Jobs
  /\ got \in [Jobs -> {"text", "empty"}]
  /\ adopts \in [Jobs -> Jobs \cup {None}]
  /\ arc \in [Jobs -> Arc]
  /\ pending \in Jobs \cup {None} /\ slot \in Jobs \cup {None}
  /\ waitSteps \in Nat /\ waitEvent \in {"none", "unset", "set"}
  /\ shownBy \in Jobs \cup {None}

\* The guess has not had its answer yet, and nobody has cancelled it.
Asks(j) == job[j].kind = "guess" /\ pc[j] \in {"ready", "retrieve"} /\ j \notin cancelling

\* At most one confirmed retrieval runs at any time, whatever the order of
\* triggers, cancellations and guesses: trigger awaits the end of the old task
\* before it creates the next (rag_manager.py, _cancel_and_await_pending).
OneConfirmed ==
  \A i, j \in Jobs :
    (Live(i) /\ Confirmed(i) /\ Live(j) /\ Confirmed(j)) => i = j

\* At most one LLM retrieval that nobody has cancelled is in flight: a guess
\* never runs beside a confirmed retrieval, a confirmed trigger adopts a running
\* guess instead of paying twice (trigger, trigger_speculative, clear).
OneRetrieval ==
  \A i, j \in Jobs :
    (pc[i] = "retrieve" /\ i \notin cancelling /\ pc[j] = "retrieve" /\ j \notin cancelling) => i = j

\* A retrieval that waits for STT will be woken: its event is set, or step()
\* still has frames to count down before it sets it.  The wait counter and event
\* are fields of the manager that every later trigger overwrites.
NoLostWakeup ==
  \A j \in Jobs :
    (pc[j] = "wait" /\ j \notin cancelling) =>
      \/ waitEvent = "set"
      \/ waitEvent = "unset" /\ waitSteps > 0

\* While the trigger is armed, as _stt_recv_loop leaves it when it starts a user
\* turn, nothing is left of the last guess: the slot is empty, so the guess of this
\* turn is not refused for it (trigger_speculative, has_attempt), and if it still
\* asks the LLM it has been cancelled or a confirmed trigger has adopted it.
RearmedIsClear ==
  trigger = "armed" =>
    /\ slot = None
    /\ \A j \in Jobs : Asks(j) => \E i \in Jobs : adopts[i] = j

\* A guess is adopted by at most one confirmed trigger, and an adopted guess is
\* no longer in the slot for a later one.
AdoptedOnce ==
  \A i, j \in Jobs :
    adopts[i] # None => /\ adopts[i] # slot
                        /\ adopts[j] = adopts[i] => i = j

\* A reference in place is only ever replaced by that of a newer trigger: ARC
\* answers that come back out of order never roll the conditioning back.
NeverRolledBack ==
  [][shownBy' # shownBy =>
       shownBy' # None /\ (shownBy = None \/ job'[shownBy'].seq > job[shownBy].seq)]_vars

\* Every retrieval task ends and every ARC request is answered or dropped: no
\* chain of triggers, adoptions and cancellations leaves a task waiting forever.
EveryJobSettles ==
  \A j \in Jobs : pc[j] = "ready" ~> pc[j] \in Ended /\ arc[j] # "request"

\* A RAG token never stalls the output loop, which also carries the audio: the
\* old retrieval it awaits ends even though step(), driven by this very loop,
\* no longer counts down.
OutputLoopResumes == outPc # "idle" ~> outPc = "idle"

\* The conditioning of the model implements LatestWins.
Promise == INSTANCE LatestWins WITH
  newest <- ragSeq, shown <- IF shownBy = None THEN 0 ELSE job[shownBy].seq

OnlyNewestShown == Promise!LatestSpec

-------------------------------------------------------------------------------
(* What the repository's text says and the code does not do *)

\* "never let a guess preempt real work" (rag_manager.py:218): the result of a
\* confirmed retrieval is dropped as stale only for a newer confirmed trigger.
GuessNeverPreempts ==
  \A j \in Jobs :
    (arc[j] = "stale" /\ Confirmed(j)) =>
      \/ outPc = "cancel"
      \/ \E k \in Jobs : k > j /\ pc[k] # "unused" /\ Confirmed(k)

\* "A new user turn just started: drop any stale, never-confirmed speculative attempt
\* from the prior turn" (channel.py:527): a confirmed trigger only adopts a guess of
\* the user turn that is still running.
AdoptsThisTurn ==
  [][\A j \in Jobs : adopts'[j] # adopts[j] => job[adopts'[j]].turn = turn]_vars

\* "a result for a superseded turn is dropped, not applied" (PHASES.md:26): what
\* is put in place was asked for in the user turn that is still running.
SupersededTurnDropped ==
  [][\A j \in Jobs : shownBy' = j /\ shownBy # j => job[j].turn = turn]_vars

===============================================================================
