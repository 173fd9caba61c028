------------------------------ MODULE TurnTaking -------------------------------
(***************************************************************************)
(* Who has the floor in one Channel.  TurnManager decides it from the VAD  *)
(* history each time a loop handles spoken text: _stt_recv_loop with words *)
(* of the user, _output_loop with frames of the model.  The text of the    *)
(* other party is buffered until it gets the floor.  Each loop does the    *)
(* bookkeeping of the turn that it saw begin: utterance, predictive        *)
(* trigger, overlap, ConversationState, and the mute after a barge-in.     *)
(*                                                                         *)
(* Words are numbered per speaker; 0 is the label "moshi: " or "user: "    *)
(* that __post_init__ buffers.  One event loop: an action is the code      *)
(* between two awaits.                                                     *)
(***************************************************************************)
EXTENDS Integers, Sequences, FiniteSets
LOCAL INSTANCE SequencesExt

CONSTANTS
  MaxWords,     \* bound on the words of each speaker
  VadLevels,    \* values of the VAD, low where there is voice
  VadThreshold, \* threshold
  WindowSize,   \* window_size
  WarmupSteps,  \* warmup_steps
  SttWaitSteps, \* stt_wait_steps
  BargeWords,   \* InterruptionClassifier.min_barge_in_words
  VoiceFrames   \* InterruptionClassifier.sustained_voice_frames

ASSUME ParametersAssumption ==
  /\ MaxWords \in Nat /\ VadLevels \subseteq Nat /\ VadThreshold \in Nat
  /\ WindowSize \in Nat \ {0} /\ WarmupSteps \in Nat /\ SttWaitSteps \in Nat
  /\ BargeWords \in Nat /\ VoiceFrames \in Nat

Speaker == {"user", "model"}
Word    == 0 .. MaxWords
Kind    == {"none", "backchannel", "hesitation", "barge_in"}
Speaking == {"idle", "user_speaking", "model_speaking", "overlapping"}

VARIABLES
  vadHistory, steps,    \* TurnManager.vad_history; _step_count, up to WarmupSteps
  pendingSpeaker, wait, \* TurnManager._pending_speaker, _wait_counter
  active,               \* TurnManager.active_speaker
  buffer,               \* user_text_buffer and model_text_buffer
  context,              \* conversation_context: the words shown, by speaker
  said,                 \* number of words each speaker has produced
  sttPc,                \* "recv"; "sent", "cut" while a word, [INTERRUPTED] is sent
  utterance, committed, \* Channel._current_user_utterance; words stored in memory
  overlap,              \* words in Channel._overlap_utterance
  trigger,              \* PredictiveTrigger: "armed" or "fired"
  speaking,             \* ConversationState.speaking_state
  audio                 \* "muted" if Channel._model_audio_muted, else "audible"

vadVars  == <<vadHistory, steps>>
turnVars == <<pendingSpeaker, wait, active, buffer, context, said>>
bookVars == <<utterance, committed, overlap, trigger, speaking, audio>>
vars == <<vadVars, turnVars, sttPc, bookVars>>

-------------------------------------------------------------------------------
Init ==
  /\ vadHistory = <<>> /\ steps = 0
  /\ pendingSpeaker = "none" /\ wait = 0
  /\ active \in Speaker \* init_active_speaker
  /\ buffer  = [r \in Speaker |-> IF r = active THEN <<0>> ELSE <<>>]
  /\ context = [r \in Speaker |-> <<>>]
  /\ said    = [r \in Speaker |-> 0]
  /\ sttPc = "recv"
  /\ utterance = {} /\ committed = {}
  /\ overlap = 0 /\ trigger = "armed"
  /\ speaking = "idle" /\ audio = "audible"

-------------------------------------------------------------------------------
(* TurnManager *)

\* Mutant: the oldest value is never dropped.
VadKeeps(value) ==
  /\ vadHistory' = Append(vadHistory, value)
  /\ UNCHANGED <<steps, turnVars, sttPc, bookVars>>

\* update_vad, the callback of the STT service.
Vad(value) ==
  /\ vadHistory' = IF Len(vadHistory) < WindowSize THEN Append(vadHistory, value)
                                                   ELSE Append(Tail(vadHistory), value)
  /\ steps' = IF steps < WarmupSteps THEN steps + 1 ELSE steps
  /\ UNCHANGED <<turnVars, sttPc, bookVars>>

WindowFull == Len(vadHistory) >= WindowSize
AllQuiet   == WindowFull /\ \A i \in DOMAIN vadHistory : vadHistory[i] > VadThreshold
MeanVoiced == /\ WindowFull
              /\ FoldSeq(LAMBDA a, b : a + b, 0, vadHistory) < VadThreshold * Len(vadHistory)

\* Mutant: every value of the window must be voiced.
StartsIfAllVoiced == /\ WindowFull /\ \A i \in DOMAIN vadHistory : vadHistory[i] < VadThreshold
                     /\ steps >= WarmupSteps /\ active = "model"

\* The user starts to talk over the model; the user has stopped.
UserStarts == MeanVoiced /\ steps >= WarmupSteps /\ active = "model"
UserStops  == AllQuiet /\ active = "user"

\* Mutant: the model may take the floor with nothing to say.
ModelTakes == UserStops

\* The model has something to say when the user has stopped.
ModelWaits == UserStops /\ buffer["model"] # <<>>

\* Mutant: the wait starts again at every call.
RestartWait ==
  IF UserStarts THEN <<"user", 0>>
  ELSE IF ModelWaits THEN <<"model", SttWaitSteps>>
  ELSE <<pendingSpeaker, wait>>

\* _update_active_speaker up to the pending switch: <<speaker, calls to wait>>.
Request ==
  IF UserStarts /\ pendingSpeaker # "user" THEN <<"user", 0>>
  ELSE IF ModelWaits /\ pendingSpeaker # "model" THEN <<"model", SttWaitSteps>>
  ELSE <<pendingSpeaker, wait>>

\* _update_active_speaker with _handle_pending_speaker_switch: nothing moves
\* before the window is full; then a pending switch is counted down, or done.
SwitchNow == WindowFull /\ Request[1] # "none" /\ Request[2] = 0

\* Mutant: the pending speaker is kept after the switch.
UpdateKeepingPending ==
  /\ active' = IF SwitchNow THEN Request[1] ELSE active
  /\ pendingSpeaker' = IF WindowFull THEN Request[1] ELSE pendingSpeaker
  /\ wait' = IF WindowFull /\ Request[1] # "none" /\ Request[2] > 0 THEN Request[2] - 1
             ELSE IF WindowFull THEN Request[2] ELSE wait

UpdateActiveSpeaker ==
  /\ active' = IF SwitchNow THEN Request[1] ELSE active
  /\ pendingSpeaker' = IF SwitchNow THEN "none"
                       ELSE IF WindowFull THEN Request[1] ELSE pendingSpeaker
  /\ wait' = IF WindowFull /\ Request[1] # "none" /\ Request[2] > 0 THEN Request[2] - 1
             ELSE IF WindowFull THEN Request[2] ELSE wait

\* Mutant: the flushed buffer is not emptied.
FlushTwice(words) ==
  /\ context' = [context EXCEPT ![active'] = @ \o buffer[active'] \o words[active']]
  /\ buffer' = [r \in Speaker |-> IF r = active' THEN buffer[r] ELSE buffer[r] \o words[r]]

\* _handle_state_transition and the display or buffering of the new words: the
\* speaker with the floor is shown with what was buffered, the other is buffered.
Show(words) ==
  /\ context' = [context EXCEPT ![active'] = @ \o buffer[active'] \o words[active']]
  /\ buffer' = [r \in Speaker |-> IF r = active' THEN <<>> ELSE buffer[r] \o words[r]]

\* handle_spoken_text with n (0 or 1) new words of a speaker.
HandleSpokenText(role, n) ==
  /\ said[role] + n <= MaxWords
  /\ said' = [said EXCEPT ![role] = @ + n]
  /\ UpdateActiveSpeaker
  /\ Show([r \in Speaker |-> IF r = role /\ n = 1 THEN <<said[r] + 1>> ELSE <<>>])

-------------------------------------------------------------------------------
(* _stt_recv_loop *)

\* The start of a user turn, as this loop books it.
BeginUserTurn ==
  /\ utterance' = {}
  /\ overlap' = 0
  /\ trigger' = "armed"
  /\ speaking' = "user_speaking"
  /\ UNCHANGED <<committed, audio>>

\* A word of the user; "\nuser:" among the outputs starts a user turn.
SttWord ==
  /\ sttPc = "recv"
  /\ sttPc' = "sent"
  /\ HandleSpokenText("user", 1)
  /\ \/ active = "model" /\ active' = "user" /\ BeginUserTurn
     \/ ~(active = "model" /\ active' = "user") /\ UNCHANGED bookVars
  /\ UNCHANGED vadVars

SustainedVoice ==
  /\ Len(vadHistory) >= VoiceFrames
  /\ \A i \in DOMAIN vadHistory :
       i > Len(vadHistory) - VoiceFrames => vadHistory[i] < VadThreshold

\* InterruptionClassifier.classify of n overlapping words, whose text and whose
\* energy may be anything.
Classify(n) ==
  {k \in Kind :
     /\ k = "backchannel" => n <= 2
     /\ k = "barge_in" => SustainedVoice /\ n >= BargeWords
     /\ k = "none" => /\ ~(SustainedVoice /\ n >= BargeWords)
                      /\ ~(n <= 2 /\ ~SustainedVoice)}

\* note_overlap, then the decision: a barge-in yields, which mutes the audio
\* and gives the floor to the user in ConversationState, once per response.
NoteOverlap(kind) ==
  \/ /\ kind = "barge_in" /\ audio = "audible"
     /\ audio' = "muted" /\ speaking' = "user_speaking" /\ sttPc' = "cut"
  \/ /\ kind = "barge_in" /\ audio = "muted"
     /\ speaking' = "overlapping" /\ sttPc' = "recv" /\ UNCHANGED audio
  \/ kind # "barge_in" /\ sttPc' = "recv" /\ UNCHANGED <<audio, speaking>>

\* Echoed; the speaker is read again.  While the model has the floor the word
\* overlaps and is classified.
Overlap ==
  /\ sttPc = "sent" /\ active = "model"
  /\ overlap' = overlap + 1
  /\ \E kind \in Classify(overlap + 1) : NoteOverlap(kind)
  /\ UNCHANGED <<vadVars, turnVars, utterance, committed, trigger>>

\* [INTERRUPTED] is sent; the speaker is read once more, and is still the model.
StillModel ==
  /\ sttPc = "cut" /\ active = "model"
  /\ sttPc' = "recv"
  /\ UNCHANGED <<vadVars, turnVars, bookVars>>

\* should_fire reads the utterance, whose words are not modelled; once it has said yes
\* it says no until reset.
AfterShouldFire(fires) == IF fires THEN "fired" ELSE trigger

\* While the user has the floor it joins the utterance, which may fire the
\* predictive trigger.
Utter(fires) ==
  /\ sttPc \in {"sent", "cut"} /\ active = "user"
  /\ sttPc' = "recv"
  /\ utterance' = utterance \cup {said["user"]}
  /\ trigger' = AfterShouldFire(fires)
  /\ UNCHANGED <<vadVars, turnVars, committed, overlap, speaking, audio>>

-------------------------------------------------------------------------------
(* _output_loop *)

\* The start of a model response, as this loop books it.
BeginModelTurn ==
  /\ committed' = committed \cup utterance
  /\ overlap' = 0
  /\ speaking' = "model_speaking"
  /\ audio' = "audible"
  /\ UNCHANGED <<utterance, trigger>>

\* A frame of the model, with or without text (RAG tokens do not come here).
ModelFrame(n) ==
  /\ HandleSpokenText("model", n)
  /\ \/ active = "user" /\ active' = "model" /\ BeginModelTurn
     \/ ~(active = "user" /\ active' = "model") /\ UNCHANGED bookVars
  /\ UNCHANGED <<vadVars, sttPc>>

-------------------------------------------------------------------------------
SttLoop == SttWord \/ Overlap \/ StillModel \/ (\E fires \in BOOLEAN : Utter(fires))

OutputLoop == \E n \in {0, 1} : ModelFrame(n)

Next == (\E value \in VadLevels : Vad(value)) \/ SttLoop \/ OutputLoop

Spec == Init /\ [][Next]_vars

\* The step loop delivers a frame to the channel at every tick; nobody has to
\* speak, and the STT service owes us nothing.
FairSpec == Spec /\ WF_vars(OutputLoop)

-------------------------------------------------------------------------------
(* Properties *)

TypeOK ==
  /\ vadHistory \in Seq(VadLevels) /\ Len(vadHistory) <= WindowSize
  /\ steps \in 0 .. WarmupSteps
  /\ pendingSpeaker \in Speaker \cup {"none"} /\ wait \in 0 .. SttWaitSteps
  /\ active \in Speaker
  /\ buffer \in [Speaker -> Seq(Word)] /\ context \in [Speaker -> Seq(Word)]
  /\ said \in [Speaker -> 0 .. MaxWords]
  /\ sttPc \in {"recv", "sent", "cut"}
  /\ utterance \subseteq Word /\ committed \subseteq Word
  /\ overlap \in Nat /\ trigger \in {"armed", "fired"}
  /\ speaking \in Speaking /\ audio \in {"audible", "muted"}

\* Both loops move the words of both speakers between buffer and context, yet no
\* word of either is lost, shown twice or shown out of order (handle_spoken_text).
InOrder ==
  \A r \in Speaker :
    LET words == [i \in 1 .. said[r] |-> i]
    IN  context[r] \o buffer[r] \in {words, <<0>> \o words}

\* A switch that is still pending is one from the user to the model: the wait
\* counter is never left over from the turn before (_update_active_speaker).
PendingIsOther == pendingSpeaker # "none" => pendingSpeaker = "model" /\ active = "user"

\* The model takes the floor only with something buffered, although the switch
\* happens up to stt_wait_steps calls of either loop after that was checked.
NeverEmptyHanded ==
  [][active = "user" /\ active' = "model" => buffer["model"] # <<>>]_vars

\* Once the model has asked for the floor it gets it, whatever the VAD does and
\* whoever speaks meanwhile (_handle_pending_speaker_switch).
PendingIsHonoured == pendingSpeaker = "model" ~> active = "model"

\* A user who keeps talking over the model gets the floor.
UserGetsFloor ==
  MeanVoiced /\ steps = WarmupSteps /\ active = "model" ~> active = "user" \/ ~MeanVoiced

-------------------------------------------------------------------------------
(* What the repository's text says and the code does not do: the loop that sees *)
(* a turn begin is not always the loop that does its bookkeeping.               *)

\* "fresh response: audible again" (channel.py:634).
FreshResponseAudible ==
  [][active = "user" /\ active' = "model" => audio' = "audible"]_vars

\* "call reset() when a new user turn starts" (predictive_trigger.py:36).
RearmedEachTurn ==
  [][active = "model" /\ active' = "user" => trigger' = "armed"]_vars

\* "commit what was just said to memory before it's cleared" (channel.py:628).
CommittedBeforeCleared ==
  [][\A w \in utterance : w \in utterance' \/ w \in committed']_vars

\* "The model actually stops and the user takes the floor" (conversation_state.py
\* :95): while the model is muted its speech does not overlap the user's.
MutedIsNotOverlap == audio = "muted" => speaking # "overlapping"

===============================================================================
