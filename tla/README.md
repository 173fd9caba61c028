# MoshiMind in TLA+

This directory holds a formal model of the MoshiMind server (`moshi/moshi/`) and of the
speech servers beside it (`rust/moshi-server/`): TLA+ modules, configurations that check
them with TLC on small instances, and theorems that TLAPS proves for every value of the
constants. Paths below are relative to `src/`; unless another directory is named,
`channel.py`, `rag_manager.py`, `turn_manager.py`, `inference_job.py`, `batch_runner.py`
are in `moshi/moshi/inference_utils/`, `sidecar.py`, `speculation.py`, `merge.py` and the
like in `moshi/moshi/cognitive/`, `lm.py` in `moshi/moshi/models/`.

`tlc -config X.cfg M` checks a run, `tlapm M.tla` a proof module. `PROJECT.json` lists
the components, the runs, which source lines each definition stands for, for each
property a mutation of the model that violates it, the hazards of the code, and
what was found.

## 1. The system and its parts

A browser holds a websocket to `ServerState.handle_chat`, which gives it a `Channel`
and a row of the GPU batch. A full-duplex speech model listens and talks at every
80 ms frame. When it emits `rag_token_id`, or when a partial transcript looks like a
question, a retrieval asks an LLM for a reference text, an ARC service encodes it,
and the encoding conditions the model. The dialogue server runs in **one asyncio event
loop** (the exception is blocking calls given to the default executor), so code
between two `await`s is atomic, and every hard behaviour comes from what other
tasks do at an `await`, from cancellation, and from services that answer late. Below
the loop is a **batch**: one step of the model runs all rows, each of which belongs to
another session, so its hard behaviours come from resets and masks of single rows in
state that the rows share. The speech servers add threads in Rust around such a step.

| component | state | operations | interacts with | what is hard |
|---|---|---|---|---|
| **Conditioning**: `channel.py`, `rag_manager.py`, `speculation.py`, `multishot.py`, `predictive_trigger.py` | `_pending_task`, `_speculative._task`, `_wait_event`, `_wait_steps_remaining`, `_rag_seq`, pending ARC tasks, the reference in place | `trigger`, `trigger_speculative`, `confirm`, `clear`, `step`, `_background_task`, `_handle_reference_text`, `_async_update_reference` | called by both loops of the channel; starts tasks; writes a slot's condition | confirmed and speculative retrievals race; answers are reordered; a cancelled task is awaited by the loop that also drives the clock |
| **Turn taking**: `turn_manager.py`, `conversation_state.py`, `interruption.py`, `channel.py` | VAD window, pending speaker, wait counter, active speaker, two text buffers, context; utterance, overlap, mute | `update_vad`, `handle_spoken_text`, classification of an overlap, bookkeeping at a turn start | both loops call `handle_spoken_text`, each books one kind of turn start | the switch is made by whichever loop is next; state is read again after awaits |
| **Sidecar**: `sidecar.py`, `task_registry.py`, `urgency.py` | turn numbers, live tasks, task handles, one breaker per service | `dispatch`, `dispatch_and_wait`, `cancel*`, `advance_turn`, `forget_conversation`, `_run` | used by `channel.py` (memory lookup) | late results of old turns; breaker shared by all conversations; cancellation against deadline |
| **Batch slots**: `server.py`, `batch_runner.py`, `lm.py` | slots, frame and output queues, offsets, token cache, `offset_cpu`, references per row | `acquire_slot`, `release_slot`, `_gather_step_inputs`, `run_step`, `reset_streaming`, `_step`, `apply_pending_streaming_sum_condition` | each channel or offline job occupies a row; the step loop serves all | a row passes from one occupant to the next; rows share a CPU offset and a cache |
| **Codec and networks**: `modules/`, `models/compression.py`, `quantization/`, `utils/compile.py` | what each convolution and ring keeps of a row, codebooks, captured graphs | `encode`, `decode`, `reset_streaming`, `set_exec_mask`, `set_num_codebooks` | called by each step of the batch | a row left out must lose nothing; outputs of a graph share a tensor |
| **Conditions**: `conditioners/`, `server_conditioner.py`, `loaders.py` | learnt paddings, fused conditions, pending vectors of each slot | `prepare`, `forward`, `get_cross`, `get_sum`, …, `encode`, `update_streaming_sum_tensors` | ARC service, start of a server, step of the batch | masks, batches with missing attributes, one row's condition among many |
| **Offline jobs**: `inference_job.py`, `run_inference.py` | `step_index`, `feed_step`, outputs, `_doing_retrieval` | feed loop, output loop, retrieval, slot polling | occupants of the batch | the feed loop is paced by outputs with no slack; the output loop stops for a retrieval |
| **Connection lifecycle**: `server.py`, `channel.py`, `stt/local_stt.py` | slot, exit stack, `TaskGroup`, tasks | `__aenter__`, `run`, `__aexit__`, `shutdown` | everything above runs inside | failures and cancellations of sibling tasks; clean-up order |
| **Speech to text**: `stt/` | queues, remote sessions, the local recognizer | `start_up`, `send_audio`, `flush`, iteration, `shutdown` | feeds words and VAD values to the channel | flush protocol; tasks in groups of their own; shutdown order |
| **Reference generation**: `reference/`, `retrieval_profiles.py`, `llm/`, `merge.py` | history of references, calls in threads | `generate_reference_text`, `process_reference_text`, `merge_candidates` | called by retrievals; uses the default executor | numbering of turns; two models asked at once; threads that cannot be stopped |
| **Memory**: `memory/` | SQLite tables, window of turns | commit, recall, `add_turn` | called by `channel.py` through the sidecar | one table for all conversations, across restarts |
| **Speech servers**: `rust/moshi-server/` (`tts.py`, `batched_asr.py`, `py_module.rs`, `py_basr_module.rs`) | channels, clients, markers | `pre_process`, `step`, `post_process` | Rust handlers and the Python step share the channels under a lock that the step releases | a row changes hands while its audio is still to come; markers counted in steps of the batch |
| Telemetry, prosody, calculator, evaluation, client, Rust backend, scripts | see `PROJECT.json` | | | |

What makes each right, in short: a conditioning reference is never rolled back and
never comes from a superseded question; there is one confirmed retrieval and it
ends; no word is lost or reordered; turn starts are booked once; a result of an old
turn is not delivered; the breaker is open when it should be; a row's tokens, audio,
conditions and references belong to its occupant, and are those the same networks
give out of streaming mode; every job ends; nothing of a connection lives once its slot
is free; a flush returns when its words were handled; every client is answered.

## 2. Modules and how they correspond to the code

One action is the code of one task between two awaits, or one step of the batch. A
retrieval or request that may be slow is an action that may happen at any time, with
every outcome the code distinguishes. Every bound on a counter is a constant whose name
begins with `Max` (with the exceptions named in section 4).

### The channel

**`Conditioning`** (with the abstract `LatestWins`). One channel. `SttWord`, `NoGuess`,
`Guess` are the steps of `_stt_recv_loop` (with its `await ws.send` between word and
trigger: `sttPc`); both `SttWord` and `ModelText` contain a call of `handle_spoken_text`,
which may switch the active speaker either way, but each does only its own loop's
bookkeeping of a turn start; `ModelText`, `RagDeclined`, `RagToken`, `TriggerAtOnce`,
`TriggerCancelling`, `TriggerResumes` those of `_output_loop` (`outPc` says whether it
awaits `stt.flush` or the end of a cancelled task). A job is a retrieval task of one of
three kinds: "guess" (`trigger_speculative`), "fresh" (`_background_task`) and "confirm"
(`_confirm_speculative`, which awaits an adopted guess and falls back to a fresh retrieval).
`Step` is `RAGManager.step`, called by the same output loop at the end of every iteration
and so part of each action that ends one. `cancelling` separates `task.cancel()` from the
moment the exception is thrown; with `CancelMayBeLost` a call that finished at that moment
wins, as `asyncio.wait_for` of Python 3.11 has it. `ArcReturns`/`ArcFails` are the ends of
`_async_update_reference`.
`LatestWins` is what the channel promises: triggers are numbered and only the answer
to the newest is ever put in place; `OnlyNewestShown` is the refinement.

**`TurnTaking`**. `Vad` is `update_vad`, `HandleSpokenText` is `handle_spoken_text` with
`_update_active_speaker`, `_handle_pending_speaker_switch` and
`_handle_state_transition`. `SttWord` → `Overlap` | `Utter` → `StillModel` follow
`_stt_recv_loop` through its awaits, `ModelFrame` is `_output_loop`. `Classify(n)` is the set
of kinds `InterruptionClassifier.classify` can return for n overlapping words and the
present VAD window, whatever words and energy are.

**`Sidecar`**. `Dispatch`, `AdvanceTurn`, `Cancel*`, `Forget` are the callers' operations;
`Refuse`, `Call`, `Succeed`, `Fail`, `Timeout`, `Answered`, `Unwind` are the stretches of
`_run`. `HalfOpen` is the side effect of `is_open`. `age` counts the cooldown in ticks.

**`ChannelLifecycle`**. `phase` follows `handle_chat` through `__aenter__`, `run` and the exit
stack; the three loops and the tasks they spawn live, end, fail (`Raise`), are
cancelled (`Abort`, `ServerStops`, `TriggerCancels`) and unwind. `Create` is
`TaskGroup.create_task`, which raises when the group shuts down. The output loop
suspended in `_cancel_and_await_pending` swallows its own cancellation
(`TriggerResumes`). `asyncio.TaskGroup` itself is modelled from its documented
behaviour and marked external.

**`LocalSTT`**, **`GradiumSTT`**, **`RemoteSTT`**. The three services, each with the tasks that
use it. `LocalSTT` cuts audio into frames, runs the recognizer and numbers its words; a job
that ends or fails shuts it down, after which the next one starts it again. `GradiumSTT` has
both queues, the inner `TaskGroup` with `push_audio` (`Push`, `PushFails`), the iterator
in its states "reading" and "handling" (the generator is suspended while the body of
`_stt_recv_loop` awaits), and the service behind the socket. `RemoteSTT` has start-up with its refusals, both
protocols, and the handshake of shutdown with the iterator.

### What a reference is made of

**`Retrieval`**. `ValidFlags`, `Loads`, `DefaultProfileId` are `retrieval_profiles.py`; `Ask`
is `generate_reference_text` up to its first await: with profiles, the active and the default model
are asked at once. `RunCall`, `Answer`, `Expire` are the executor's threads and the deadline of
each call; `Gathered` chooses among the answers, `Summarized` is the summary. **`ReferenceHistory`**:
`NumTurns` and `Shown` are the two loops of `process_reference_text`; the other actions are
those events of the channel that decide the number of turns a reference is stored with,
reduced to one retrieval in flight. **`KnowledgeMerge`**: the score
of a text (`ConfidenceScore`), `merge_candidates` over the ranked candidates, and
the RAG source of a query, which may answer, fail or be late (`Resolve`). **`Memory`**: what
`_commit_user_utterance_to_memory` extracts and stores (`Commit`), what `MemoryCognitiveService.handle` recalls (`HandleLookup`), a restart,
and `WorkingMemory`. A loop of these three modules and of `Quantizer` is a recursive function of the number of
iterations (`SumTo` of **`Sums`** is the plainest), so that the proofs can follow it step by step.

### The batch

**`BatchSlots`**. `Acquire` … `Release` are an occupant's life, `Step` is `run_one_step`: it
contains gathering, the reset of rows with a first frame, applying references,
sampling into the circular cache and delivery. A token is a pair ⟨occupant, frame⟩ or
one of two special values: what a cleared cache holds, and `Ungenerated`. It is the
text stream only. **`OfflineJobs`** EXTENDS it: `FeedJob`, `ReadOutput` are the two
loops of an `InferenceJob`, composed with the same batch, `RetrievalReturns` and `Conditions` the
callbacks of its `RAGManager`. The output loop does not begin an iteration while `_doing_retrieval` is
set, nor end one while the encoder works. **`JobRetrieval`** has what these do to the retrievals of a
job, as operators on a record: `Triggered`, `Counted`, `Caught` (with the assertion that fails if
the loop has not come to the start of the retrieval), `Settled`.

**`LMStream`** has all streams of `LMGen`: delays, prepended condition, given and sampled
tokens, reset of some rows, as operators on a record. **`LMService`** runs it for a
server: `ResetOnly`, then `ResetAndRun` for the rows of a mask. **`LMForward`** is the other
way to run the model, `LMModel.forward` on a whole delayed sequence with its masks of
logits, beside the depth transformer of a step.

**`RingCache`** (`RingKVCache` and the attention over it), **`StreamingConv`** (both
convolutions with what they keep), **`SEANet`** (encoder and decoder, as chains of those) are operators on
the state of a module; **`MimiStream`** is the codec made of them and driven as
`BatchRunner.run_step` drives it. Data are symbolic: a value says what it was computed
from, so a stream can be compared with the same layers out of streaming mode. **`Quantizer`** is
the split residual quantizer over small integers. **`DemucsStream`** is the denoiser of voices in
`voice.py`, a stream over frames that overlap.

**`ArcEncoder`** (what each pooled vector stands for), **`Conditioners`** (collation, masks,
dropout and fusing; a vector is the set of what was added up in it) and
**`ConditionServices`**: the four ways a condition reaches a row (`ConditionProvider` on a batch; the start of a
server; a reference through the encoder service; the voice of a client of the speech server).

### The speech servers

**`TTSServer`** and **`ASRServer`** EXTEND `LMService`. An iteration is `TTSStep`/`ASRStep`
(`pre_process` under the lock, then the Python step) and `TTSSend`/`ASRSend` (`post_process` under
the lock again); between them clients come, go and send.

### Composition

An `MC` module composes modules of one part of the system. Those that do not share state are
checked side by side in one run: a variable `part` (`service` in `MCModels`), chosen at the start, says
which one acts, and the others stay as they are. Where modules interact they are composed in full: `OfflineJobs`
with `BatchSlots`, the two servers with `LMService`, the codec with its rings, convolutions and
graphs, `Conditioning` with `LatestWins`.

The modules hold further definitions marked as mutants: forms a plausible mistake would give to a
definition of the code. Those `PROJECT.json` lists are one for each property; the others break further
conjuncts of the properties that have several.

## 3. Runs

| run | module, configuration | what it shows |
|---|---|---|
| `conditioning` | `MCConditioning`, `Conditioning.cfg` | one confirmed retrieval at a time; no lost wake-up; a user turn that the STT loop starts finds nothing of the guess before (`RearmedIsClear`); a guess is adopted once; the conditioning is only replaced by a newer trigger's; `LatestWins` is implemented. Cancellations may be lost |
| `conditioning_live` | `MCConditioning`, `ConditioningLive.cfg` | cancellations are not lost: at most one retrieval that nobody has cancelled is asking the LLM; every retrieval and ARC request settles; a RAG token never stops the output loop for good |
| `conditioning_turn`, `conditioning_guess` | `MCConditioning`, `ConditioningTurn.cfg`, `ConditioningGuess.cfg` | violations, see below |
| `session` | `MCSession`, `Session.cfg` | sidecar: breaker open iff `Threshold` failures in a row; nothing but an earlier call's success ends a cooldown; live set and turn agree; no result for an old turn; every request with a deadline settles. Floor: no word lost, doubled or out of order; a pending switch is made; the model never takes the floor with nothing to say; a user who keeps talking gets the floor |
| `turn_taking_mute` | `TurnTaking`, `TurnTakingMute.cfg` | violation, see below |
| `connection` | `MCConnection`, `Connection.cfg` | tasks: none outlives the slot (`NoWorkAfterRelease`), a client that leaves frees it (`SlotIsFreed`). Local: a word heard is of one frame of the session under way (`OwnTranscript`). Gradium: a flush returns after its words were handled (`FlushIsComplete`). Remote: no socket is left open (`NoDanglingSocket`). All: flush and shutdown return, sessions are closed, the recognizer is used again (`SttCallsReturn`) |
| `connection_stt` | `MCConnection`, `ConnectionStt.cfg` | violation, see below |
| `knowledge` | `MCKnowledge`, `Knowledge.cfg` | the source told is the model that wrote the text, and the active one whenever it answered (`SourceIsTold`); a retrieval ends within its deadline whatever holds the threads (`ReturnsInTime`); memory recalls the conversation's own and latest facts, its window is the longest that fits (`MemoryIsSound`); merge and history: the budget, the strongest that fits first, a source that fails does not silence the other, references in order and shown up to the first repeat, which hides itself and all after it, shots charged to a response exactly if the output loop saw it begin (`PromptIsSound`) |
| `batch_step` | `MCBatchStep`, `BatchStep.cfg` | slots: tokens and references are the occupant's own, none is ungenerated, each start costs others at most `MaxDelay` outputs. Codec: latents and audio of a row are those of its session run as a whole, audio waiting to be sent is not overwritten, the three counters of the attention agree (`InStep`). Quantizer: each code is the nearest centroid to what the levels before it left, fewer codebooks change none of the codes that stay, and decoding gives what `forward` sums up (`CodesAreSound`). Denoiser: pieces of any length give what the whole gives (`CodecIsSound`) |
| `models` | `MCModels`, `Models.cfg` | what the model reads is the delayed sequence it is trained on, what it returns is whole frames, and `forward` agrees with the steps (`StreamIsSound`); clients of the speech servers get their own audio and markers in time (`ServedTheirOwn`) and are answered: who speaks to the last word; who listens gets the marker if no marker of an earlier client of the row was waiting when it came, and has its channel end in any case (`EveryoneIsAnswered`); rows get their own condition (`ConditionsAreOwn`); two files that take turns on a batch of one finish, unless a job waits for a retrieval that has already returned (`FilesFinish`), with traces aligned, conditioned by their references in order (`JobsAreSound`) |
| `offline_jobs_batch` | `MCOfflineJobs`, `OfflineJobsBatch.cfg` | violation, see below |

Five runs end in a violation: a sentence of the repository stated as a property, which the code
does not satisfy.

* `conditioning_turn`: an ARC request of the previous user turn is applied in the new one
  (`PHASES.md:26`: "a result for a superseded turn is dropped").
* `conditioning_guess`: `_output_loop` calls `handle_spoken_text` too, and that may give the floor to the
  user (`channel.py:625`, `turn_manager.py:72-106`). It looks only for the start of a model turn, so the
  slot keeps the guess of the turn before, which the next confirmed trigger adopts; and the trigger
  stays fired (`channel.py:527`: "A new user turn just started: drop any stale, never-confirmed
  speculative attempt from the prior turn and re-arm the trigger"; `rag_manager.py:249`).
  `RearmedIsClear` is what is left of that promise: it holds of the turns that the STT loop starts.
* `turn_taking_mute`: if `_stt_recv_loop` makes the pending switch to the model, the output loop never
  sees the response begin and its audio stays muted (`channel.py:634`).
* `offline_jobs_batch`: with `--batch-size` above 1 the first frame of one job takes an output from
  the other, whose feed loop and output loop then wait for each other (`inference_job.py:253`,
  `lm.py:544`).
* `connection_stt`: `push_audio` fails while `_stt_recv_loop` handles a word: the inner group cancels
  that loop, the outer one ignores a task that was cancelled, the channel goes on without words and
  its next flush may never return (`channel.py:340-342`).

### Other divergences

The modules end with further sentences of the repository that the code does not keep. They are
not runs; to see the counterexample, name the definition as the PROPERTY (INVARIANT, where it is a
state predicate) of the configuration given.

| definition | module, configuration | what happens |
|---|---|---|
| `GuessNeverPreempts` | `Conditioning`, `Conditioning.cfg` | a guess that is not even started has minted a trigger number (`channel.py:465`), so the confirmed retrieval in flight is dropped as stale |
| `OutputLoopResumes` | `Conditioning`, `ConditioningLive.cfg` with `CancelMayBeLost = TRUE` | on Python 3.11, where `wait_for` may swallow a cancellation, the output loop waits for a retrieval that waits for the output loop (`rag_manager.py:76`) |
| `WaiterReturns` | `Sidecar`, `Session.cfg` | a cancelled `dispatch_and_wait` never returns (`sidecar.py:184`) |
| `NewestTurnOnly` | `Sidecar`, `Session.cfg` with `ForgetAnytime = TRUE` | forgetting a conversation revives results of turn 0 (`task_registry.py:82`) |
| `RearmedEachTurn`, `CommittedBeforeCleared` | `TurnTaking`, `TurnTakingMute.cfg` | a turn start seen by the other loop is not booked: no new guess in this turn, an utterance never stored (`channel.py:525`, `625`) |
| `MutedIsNotOverlap` | `TurnTaking`, `TurnTakingMute.cfg` | a second barge-in while muted notes an overlap that nothing resolves (`channel.py:557`) |
| `EachRowDelivered`, `MaskedUnchanged` | `BatchSlots`, `BatchStep.cfg` | the first frame of a connection costs every other one an output, and clears their cached tokens (`lm.py:541-547`) |
| `TailAsForward`, `FlushStartsAfresh` | `DemucsStream`, `BatchStep.cfg` | `flush` drops the states before it denoises the last chunk, and leaves padding for the next recording (`voice.py:407-408`) |
| `JobsFinish` | `OfflineJobs`, `OfflineJobsBatch.cfg` with `BatchSize = 1`, `WaitSteps = 1`, `MaxRagTokens = 1` | a retrieval that returns before the output loop has noted its start fails an assertion (`inference_job.py:194`) that nobody sees; the loop then polls for ever (`:283-288`), and the job keeps its slot. So does one whose start is forgotten when an earlier reference has conditioned the model (`:184-186`). `WaitsInVain` is the state of such a job |
| `SuccessorIsKept` | `ASRServer`, `Models.cfg` | a marker that falls due ends whatever channel has its row: the client that came after the one that left is disconnected (`py_basr_module.rs:400-409`, against `:102-103`) |
| `DisconnectIsQuiet` | `ChannelLifecycle`, `Connection.cfg` | `except _ChannelClosed` does not match the `ExceptionGroup` of the task group (`channel.py:367`): each disconnect ends in an error |
| `HistoryIsShown` | `ReferenceHistory`, `Knowledge.cfg` | two references for one turn, as of a second shot: the prompts show the first of them and nothing given since, for the cursor waits for a turn that has passed (`llm_reference_generator.py:170`) |
| `BudgetPerResponse` | `ReferenceHistory`, `Knowledge.cfg` | the shot budget is reset after a shot of the same response, or not at all if the STT loop makes the switch (`channel.py:630`) |
| `TrustIsEarned` | `KnowledgeMerge`, `Knowledge.cfg` | the text that earned the confidence may be missing from the result (`merge.py:53-59`): any memory hit replaces a reference of more than 800 characters |
| `FailureIsTold` | `KnowledgeMerge`, `Knowledge.cfg` | two texts that are each longer than the budget merge into an empty one, with which the model is conditioned at the strength of the better one (`merge.py:74-76`) |
| `EpisodesAreRecalled` | `Memory`, `Knowledge.cfg` | the live lookup searches for the whole conversation, which no stored text contains (`channel.py:486`) |
| `DeadlineIsTheModels` | `Retrieval`, `Knowledge.cfg` | waiting for a thread counts as time of the LLM: a model may be given up that was never asked (`llm_reference_generator.py:191`) |

## 4. Bounds

A constant that caps a counter begins with `Max`; the others that bound a run are `Capacity`,
`Delay`, `DepQ`, `Pool`, `Bins`, the `Demucs` sizes, `Threads`, `EpisodeLimit` and the sets of ids.

* `Conditioning`: three jobs are a retrieval, the one it adopts or replaces, and a third
  that meets both; four trigger numbers allow one that started no job; three user turns
  (`MaxTurn = 2`), each begun by either loop, leave a guess, pass it over and meet it. The liveness run and
  the two violations need two (`MaxTurn = 1`). `WaitSteps = 2` separates counting from
  waking. The liveness run has three numbers and one shot per response. The cooldown between
  shots is time: a RAG token may be declined at any time once a shot was made.
* `TurnTaking`: three words a speaker; the VAD levels 0, 2, 3 around
  the threshold 2 are below, at and above it, so that the strict comparisons differ;
  a window of 2, a warm-up of 3, so that the window is full before the warm-up ends.
* `Sidecar`: three requests of one conversation to one service: services share nothing but the code,
  and conversations meet only in the breaker, where requests of one do as well; the theorems hold
  for any number of either. Threshold 2 and three requests: the circuit opens and a late call
  reports. "critical" requests have a deadline and a waiter, "background" ones neither;
  "normal" (a deadline, no waiter) adds no transition of its own.
* `Connection`: four spawned tasks are a confirmed retrieval, its successor, and others that outlive
  the loop that spawned them. Local STT: frames of two samples of which five come, so that the last is
  cut off, in chunks of any length, and two sessions, so that the second meets what the first left. Gradium:
  two sounds and two flushes, so that a flush follows one not yet answered. Remote: three messages, start-up included.
  `ConnectionStt.cfg` needs less: its counterexample has one sound and one flush.
* `BatchSlots`: three occupants for two slots, so that a slot is reused while its
  neighbour runs; three frames go once around the cache (`CT` = 3 with `MaxDelay` = 1).
  `MaxDelay` = 1 is the delay of the shipped model, and `NeverUngenerated` needs it (see 6).
* Codec: a ring of `Capacity` 3 and three frames of which the row may miss any (`set_exec_mask`) make
  it wrap; two rows and two sessions reset one beside the other. Quantizer: a semantic and two acoustic
  codebooks, one of which can be switched off. Denoiser: depth 2, stride 2, one frame ahead, seven samples
  in up to four pieces of any length: pieces shorter and longer than a frame both occur.
* `Models`: a delay of one step and one prepended condition separate the offsets of the streams; two
  sessions of a row, of four steps each, reset it while the other row is in the middle. `TTSServer` and
  `ASRServer`: two channels for two rows, two texts or sounds each, a client that leaves in between.
  `LMForward`: three frames, delays up to two. `ArcEncoder`: pools of three over at most seven tokens, so that the
  last pool is short; two voices for one client of the speech server. `OfflineJobs`: two files on a batch of
  one, so that a slot is handed on with what its retrievals left; a job needs seven outputs and may be fed nine
  frames, more than it can use. A wait of one step and a retrieval of up to two: three RAG tokens are one
  whose reference conditions, one that cancels it and one after. `OfflineJobsBatch.cfg`: two files, two slots.
* `Knowledge`: two profiles are the active and the default one, one thread makes them wait, a time-out of 1
  against an elapsed time of 2 makes each call late or not. Memory: two values of a fact, two
  conversations and one episode, so that recall has to choose. History: five lines are three turns of one
  speaker, two shots a response the least with a repetition. Merge: a budget of 4 and lengths up to 5, one
  above it; a length of 2 is where the heuristic is sure; three candidates.

The passing runs have from 0.1 to some four million distinct states: `Conditioning.cfg` 4.4 million,
`Knowledge.cfg` 1.9 million, `BatchStep.cfg` 0.8 million, `Session.cfg` 0.35 million, `Models.cfg` 0.2 million.

`CHECK_DEADLOCK` is off where the modelled thing really ends: a connection, a
bounded conversation, a list of jobs or candidates.

## 5. Fairness

* `Conditioning!Fairness`: the frame clock (the step loop delivers an output per frame, so
  the output loop goes on), the tasks that are ready run, LLM calls and ARC requests are
  bounded by their timeouts, and `stt.flush` returns. The last is an assumption: the local
  STT returns at once, the Gradium one waits for its remote peer without a timeout. Nobody
  has to speak and no trigger has to fire.
* `MCSession!FairSession`: of the floor, only the output loop, which has a frame at every tick; of the sidecar
  (`SidecarFairness`), ready tasks run and timers fire; services owe nothing.
* `ChannelLifecycle!Fairness`: thrown cancellations arrive, jobs end since each of their awaits
  is bounded, the receive loop notices that the client has left.
* `GradiumFairness`: the session opens; audio is pushed and messages are read while the tasks live; the
  service recognises what it got and answers a flush **while its connection stands** (that is the
  liveness the flush really rests on; a connection that breaks ends both); handling a word
  ends; a cancellation arrives; the iterator closes. `LocalFairness`: the consumer reads, and `shutdown`
  returns, for its wait has a limit of two seconds. `RemoteFairness`: the start-up is answered or the
  socket closes, the reader reads, `shutdown` is woken or times out.
* `MCModels!Fairness`: the loops of the servers keep stepping; clients owe nothing: they may fall silent
  or leave at any time. `JobFairness`: step loop and the jobs' own loops; a retrieval returns (its timeout), and
  the encoder answers or its request fails.
  `wait_acquire_slot` polls; a job that ends frees the slot for good, so weak fairness of the poll suffices.

In a module that checks several parts side by side, the fairness of a part that does not act is never
enabled, and so is satisfied.

## 6. Proofs

The proof modules hold one theorem per name in this table; each says of a specification that
it has an invariant, an action property or a refinement, for every value of the constants, under the named `ASSUME`s of the
modules, which say little more than that bounds are natural numbers.

| module | theorems | inductive invariant |
|---|---|---|
| `Conditioning_proofs` | `TypeOKHolds`, `OneConfirmedHolds`, `NoLostWakeupHolds`, `RearmedIsClearHolds`, `AdoptedOnceHolds`, `NeverRolledBackHolds`, `ImplementsLatestWins`, `OneRetrievalHolds` | `Base`: types; `Table`: created jobs are exactly 1..`last`, and only confirmed jobs adopt; `References`: what pending task, slot and awaited job may be. Then one strengthening per property: `OnlyPending`, `WaitCoherent`, `Numbered`; for `RearmedIsClear`, `Held`: a guess that asks is in the slot or was adopted; for `OneRetrieval`, `Exclusive`: a guess that runs is in the slot or is awaited by the job that adopts it, and a cancelled job that adopts has its guess cancelled |
| `Sidecar_proofs` | `TypeOKHolds`, `OpenIffFailingHolds`, `CooldownHoldsHolds`, `LiveIsCurrentHolds`, `NewestTurnOnlyHolds` | `Table`: the tasks in use are 1..`last` and belong to a conversation; a breaker's age and failures agree; no task is of a turn that is still to come |
| `Session_proofs` | of `TurnTaking`: `TypeOKHolds`, `PendingIsOtherHolds`, `NeverEmptyHandedHolds`, `InOrderHolds`; of `CodecSpec`: `InStepHolds`; of `QuantizerSpec`: `CodesAreSoundHolds` | `PendingReady`: a pending switch gives the floor to the model, which has something buffered; `InOrder` is inductive together with it. `CodecIInv`: the position of the ring, the offset of the attention and that of the transformer all equal the steps its session has made, for any number of rows and any capacity. `QuantizerIInv`: what was quantized last was so with these weights and some number of the codebooks; that it is then sound is the lemma `QuantizerIsSound`, for any codebooks and any latent |
| `BatchSlots_proofs` | `TypeOKHolds`, `ConditionIsOwnHolds`, `NeverUngeneratedHolds`, `TokensAreOwnHolds`, `LossIsBoundedHolds`, `BoundedLossHolds`; of `JobSpec`: `TraceIsAlignedHolds` | `IInv`: an occupant that runs has one slot (`Held`); frames are taken after they are put (`Frames`); what is staged for a slot and added to it is its occupant's from the first frame on (`Own`); its offset counts those frames (`Tallied`). On top of it `TInv`: each cell of the circular cache holds what the row wrote there last, or was cleared since (`Cached`), and an output is as late as the delay says (`Delivered`). `LInv`: what was lost is paid for by the occupants that started, each for one delay, and by how far the shared offset still has to climb (`Ramp`). `JobInv`: who has the only slot has started last (`Alone`), and its outputs are all those of its frames less the delay (`Traced`); the references that conditioned a job are of RAG tokens it has had, ascending, and what is due or asked for is younger than all of them (`RagOK`) |
| `Models_proofs` | `StreamIsSoundHolds`, `ServedTheirOwnHolds`, `JobsAreSoundHolds` | `LMInv`: each cell of the cache of `LMGen` is the code of the position written there last, or one of a step that the row has not made since its reset (`Ring`). `ASRInv`: a marker that waits has at least as many steps left as its client has sound to be heard (`MarkerInv`). `TTSInv`: the offset of a row, the frames its client has heard and what is under way agree (`ClientInv`, `ChannelInv`), and what a client waits for grows only as what is left of the steps for text shrinks (`WaitInv`). `ForwardInv`: the inputs are those of training on the row. `JobsInv` is `JobInv` of `BatchSlots_proofs` for the files. `ModelInv` joins them: `LMInv` always, the others while their service runs |
| `Knowledge_proofs` | of `RetrievalSpec`: `TypeOKHolds`, `SourceIsToldHolds`, `ReturnsInTimeHolds`; `PromptIsSoundHolds`, `MemoryIsSoundHolds` | `Wrote`: only a call that was answered in time holds a text, its model's; `Asked`: the active profile is asked first, the default one with it; `Told`: the label is that of the model whose text is returned; `Timed`: what is left to a call and what its retrieval has taken add up to the timeout. `MergeIInv`: a result is the one the code computes from its candidates. `HistoryIInv`: the turns of the references ascend and fit in the transcript (`HistoryAscends`, `HistoryFits`), and a retrieval in flight was asked after all of them. `MemoryIInv`: the table holds what was committed and no more (`TableOK`), the latest value of each fact (`KnowsLatest`, `KnowsAll`). `WindowIInv`: the window is the longest end of the turns that fits |
| `Iterations` | lemmas only | induction over numbers, iterations, sums: see below |
| `Connection_proofs` | `TypeOKHolds`, `NoWorkAfterReleaseHolds`, of `GradiumSpec`: `FlushIsCompleteHolds`; of `RemoteSpec`: `NoDanglingSocketHolds`; of `LocalSpec`: `OwnTranscriptHolds` | `Holding`: the group is open or aborting exactly while `run` runs, and then the slot is held. `Flow`, until the iterator of `GradiumSTT` ends: audio sent and not recognized is in the pipe, in order; a flush not answered is behind all audio before it; an answer is behind all words before it. `Given`: there is no connection before `start_up`. `LocalInv`: what is pending continues the frames that were run, sample by sample (`Listening`), and the words that were heard, then those in the queue, are of frames that were run, in their turn (`Transcribed`) |

Why strengthen: `OneConfirmed`, for example, is not inductive, since it says nothing of the
retrieval the output loop has just cancelled and awaits; the invariant adds that this task and
the pending one are the only confirmed tasks alive. `NeverUngenerated` is proved for
`MaxDelay = 1` (an explicit premise of the theorem): with a delay of 2 it fails, because a
CPU offset reset by a neighbour can run ahead of the row's own. `BoundedLoss` needs `MaxDelay <= 1`
for its upper half, by the same guard (`lm.py:871`, one comparison for the whole batch, lets a row deliver
before its own delay is over); its lower half, that a start of another occupant costs a row at most one delay
of outputs, is `LossIsBounded` and holds for every delay. `TraceIsAligned` is proved for `BatchSize = 1`,
the default of `run_inference.py`; `OfflineJobsBatch.cfg` shows what a larger batch does to a job.
`LiveIsCurrent` and
`NewestTurnOnly` are proved under `~ForgetAnytime`, that is if a conversation is
forgotten only when its tasks have ended; section 3 says what happens otherwise.
`OneRetrieval` is proved under `~CancelMayBeLost`: on Python 3.11 `wait_for` may swallow a cancellation
that arrives as its future completes, and then two retrievals run.
The types (`TypeOK`) are proved rather than checked by a run of their own: TLC has found no violation
of them under the configurations of section 3, and every other proof uses them. `NeverRolledBack` says of the
references themselves what `OnlyNewestShown` says of their numbers; the run checks the latter, and both are proved.

`RetrievalSpec`, `CodecSpec`, `QuantizerSpec`, `LocalSpec`, `GradiumSpec` and `RemoteSpec` are the
specifications of one part, which a run plays when its `part` is that one; `JobSpec` is the batch with its jobs.
`Spec` is the module's own; in `Knowledge_proofs` and `Models_proofs` it is that of the MC module, with all its parts.

Where a proof needs induction over numbers, it takes a least counterexample (`LeastOf`, from the
well-foundedness of `<` on `Nat`) or the lemma made of it (`Induct`: numbers that
include 0 and with each its successor are all of them). `IterationExists` says that a recursive function of a number is a
function at all, whatever its step. So the proofs follow the loops of the code:
what a window keeps is the longest end that fits, each code of the quantizer is
greedy, what decoding sums up is what `forward` did, an upsert keeps one row for a key. One model was
corrected by such a proof: a working memory whose last turn alone exceeds its budget keeps that turn, which
the definition had left open.

Only model-checked: all liveness (it rests on fairness and `ENABLED`, which the prover does not
handle); `CodecIsSound` and `ConditionsAreOwn`, where a value is a term built up by the chains of `SEANet`
and the folds of `Conditioners`.

## 7. Not modelled

Left out, with the reason for each in `PROJECT.json`: numerical work; the wording of prompts; telemetry, prosody,
calculator and the RAG adapter (bounded logs and pure functions that steer nothing else that is
modelled); the evaluation scripts; the web client; the Rust backend, a second implementation with threads
of its own; the model crates; training and conversion scripts; deployment. Every hazard no
property covers is listed there as well, with the reason.

What the models abstract or assume inside a part, and what was noticed while writing them:

* **Codec.** A chunk of several steps loses, for its early queries, as many of the oldest keys as the
  chunk has further steps (`modules/transformer.py:335-337`); a chunk's length is constant and at most the
  capacity. The decoder's transformer is that of the encoder. `ConvTrUpsample1d` with `learnt=False` is unused.
  The per-row reset of a cross attention leaves its keys and values as they are.
* **Quantizer.** `set_num_codebooks(0)` on a plain residual quantizer uses all levels; the cached embedding is
  not invalidated when a state is loaded.
* **Conditions.** The learnt padding never reaches the model; `_collate_text` drops samples that lack an
  attribute; `tensor_attributes` returns the keys of the text attributes (`conditioners/base.py:91-92`);
  `get_moshi` with two skipped conditioners trims only the last. Voices of different lengths would raise.
  Guidance other than 1 together with `force_streaming_sum` fails an assertion. Two resets of one row in one list
  of updates do not occur.
* **Language model.** A reset of some rows clears the cache of all (`lm.py:541-547`); `BoundedLoss` and
  `EachRowDelivered` say what that costs. Warm-up is left out. `moshi.models.tts`, which the speech server
  imports, is external; words after its end marker are not modelled.
* **Speech recognition server.** The counter of steps advances only while some row has data. The streams
  of a model that transcribes are taken not to be delayed against each other.
* **Speech to text.** What Gradium's `start_up` opens is never read; when its session ends without an error, the
  iterator spins. Cancelling the remote `start_up` leaves its socket open. A failing task of
  `LocalSTT` leaves its siblings of the same `gather` running. The recognizer's words are free.
* **Memory.** The id of a conversation is that of a connection, so in the server no durable fact is
  recalled in a later one. `%` and `_` in a lookup act as wildcards. A pattern is searched once per text.
  `WorkingMemory` is modelled, but nothing uses it yet.
* **Retrieval and confidence.** The summary has no timeout of its own; threads of calls given up keep running. The
  default floor of 0.15 rejects only an empty reference: the least heuristic strength is about 0.41.
  Strengths are compared by the product of the three parts, which is the cube of the geometric mean.
* **Jobs.** `run_inference.py` reads `eg.exceptions` of a bare `CancelledError`, which has none.

## 8. Plan

Done, most important first: conditioning, turn taking, sidecar, batch (with the abstract specification
`LatestWins`); jobs, lifecycle; the three speech-to-text services; retrieval, memory, history and
merge; all streams of the language model against its training sequence; codec and
quantizer; conditions; the speech servers.

Next:

1. An abstract `Slot` service (a slot belongs to at most one occupant from acquisition to release)
   that both `BatchSlots` and `ChannelLifecycle` implement, and an abstract floor for `TurnTaking`.
2. `client/src/audio-processor.ts`: the jitter buffer.
3. The Rust backend: `batched_channels.rs` with `turn_manager.rs` and `rag_manager.rs`, where threads
   share state.
4. Proofs: the two invariants that section 6 lists as only model-checked, and the refinements of 1.
