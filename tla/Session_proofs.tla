---------------------------- MODULE Session_proofs ----------------------------
(***************************************************************************)
(* Three parts of a session that share nothing: who has the floor          *)
(* (TypeOK, PendingIsOther, NeverEmptyHanded and InOrder of TurnTaking,    *)
(* for every VAD window, warm-up, wait and number of words); its row of    *)
(* the codec (InStep of MimiStream, for any number of rows, any context    *)
(* and any sequence of resets and masks); and the codes that stand for     *)
(* its audio (CodesAreSound of Quantizer, for any number of codebooks, any *)
(* centroids and any latent).                                              *)
(***************************************************************************)
EXTENDS TurnTaking, MimiStream, Quantizer, Iterations, SequenceTheorems, TLAPS

-------------------------------------------------------------------------------
(* Who has the floor *)

\* A pending switch gives the floor to the model, which has something buffered.
PendingReady ==
  pendingSpeaker # "none" =>
    pendingSpeaker = "model" /\ active = "user" /\ buffer["model"] # <<>>

IInv == TypeOK /\ PendingReady

-------------------------------------------------------------------------------
(* Lemmas about handle_spoken_text *)

\* What _update_active_speaker may ask for (turn_manager.py:72-100).
LEMMA RequestFacts ==
  ASSUME IInv
  PROVE  /\ Request \in (Speaker \cup {"none"}) \X (0 .. SttWaitSteps)
         /\ Request[1] = "user" => active = "model" /\ Request[2] = 0
         /\ Request[1] = "model" => active = "user" /\ buffer["model"] # <<>>
BY ParametersAssumption DEF IInv, TypeOK, PendingReady, Request, UserStarts, ModelWaits, UserStops, Speaker

\* A switch is made at once or stays pending, and only to the other speaker.
LEMMA SwitchFacts ==
  ASSUME IInv, UpdateActiveSpeaker
  PROVE  /\ active' \in Speaker
         /\ pendingSpeaker' \in Speaker \cup {"none"}
         /\ wait' \in 0 .. SttWaitSteps
         /\ pendingSpeaker' # "none" =>
              pendingSpeaker' = "model" /\ active' = "user" /\ buffer["model"] # <<>>
         /\ active = "user" /\ active' = "model" => buffer["model"] # <<>>
<1>1. /\ Request \in (Speaker \cup {"none"}) \X (0 .. SttWaitSteps)
      /\ Request[1] = "user" => active = "model" /\ Request[2] = 0
      /\ Request[1] = "model" => active = "user" /\ buffer["model"] # <<>>
  BY RequestFacts
<1>2. Request[1] \in Speaker \cup {"none"} /\ Request[2] \in 0 .. SttWaitSteps
  BY <1>1
<1>3. CASE WindowFull
  BY <1>1, <1>2, <1>3, ParametersAssumption DEF IInv, TypeOK, UpdateActiveSpeaker, SwitchNow, Speaker
<1>4. CASE ~WindowFull
  BY <1>4 DEF IInv, TypeOK, PendingReady, UpdateActiveSpeaker, SwitchNow, Speaker
<1> QED
  BY <1>3, <1>4

\* Buffers and context stay sequences of words, and a buffered model keeps its
\* text for as long as the user has the floor.
LEMMA ShowFacts ==
  ASSUME IInv, active' \in Speaker, NEW words \in [Speaker -> Seq(Word)], Show(words)
  PROVE  /\ buffer' \in [Speaker -> Seq(Word)] /\ context' \in [Speaker -> Seq(Word)]
         /\ active' = "user" /\ buffer["model"] # <<>> => buffer'["model"] # <<>>
<1>1. \A r \in Speaker : /\ buffer[r] \in Seq(Word) /\ context[r] \in Seq(Word)
                         /\ words[r] \in Seq(Word)
  BY DEF IInv, TypeOK
<1>2. \A r \in Speaker : buffer[r] \o words[r] \in Seq(Word)
  BY <1>1
<1>3. context[active'] \o buffer[active'] \o words[active'] \in Seq(Word)
  <2>1. context[active'] \o buffer[active'] \in Seq(Word)
    BY <1>1
  <2> QED
    BY <2>1, <1>1
<1>4. buffer' \in [Speaker -> Seq(Word)]
  BY <1>2 DEF Show
<1>5. context' \in [Speaker -> Seq(Word)]
  BY <1>3 DEF Show, IInv, TypeOK
<1>6. ASSUME active' = "user", buffer["model"] # <<>>
      PROVE  buffer'["model"] # <<>>
  <2>1. "model" \in Speaker /\ buffer'["model"] = buffer["model"] \o words["model"]
    BY <1>6 DEF Show, Speaker
  <2>2. Len(buffer["model"]) > 0
    BY <1>1, <1>6, <2>1
  <2>3. Len(buffer["model"] \o words["model"]) > 0
    BY <1>1, <2>1, <2>2
  <2> QED
    BY <2>1, <2>3
<1> QED
  BY <1>4, <1>5, <1>6

\* What a call of handle_spoken_text preserves and returns.
LEMMA HandleFacts ==
  ASSUME IInv, NEW role \in Speaker, NEW n \in {0, 1}, HandleSpokenText(role, n)
  PROVE  /\ active' \in Speaker /\ pendingSpeaker' \in Speaker \cup {"none"}
         /\ wait' \in 0 .. SttWaitSteps
         /\ buffer' \in [Speaker -> Seq(Word)] /\ context' \in [Speaker -> Seq(Word)]
         /\ said' \in [Speaker -> 0 .. MaxWords]
         /\ PendingReady'
         /\ active = "user" /\ active' = "model" => buffer["model"] # <<>>
<1> DEFINE words == [r \in Speaker |-> IF r = role /\ n = 1 THEN <<said[r] + 1>> ELSE <<>>]
<1>1. said[role] \in 0 .. MaxWords /\ said[role] + n <= MaxWords
  BY DEF HandleSpokenText, IInv, TypeOK
<1>2. said' \in [Speaker -> 0 .. MaxWords]
  BY <1>1, ParametersAssumption DEF HandleSpokenText, IInv, TypeOK
<1>3. ASSUME NEW r \in Speaker
      PROVE  (IF r = role /\ n = 1 THEN <<said[r] + 1>> ELSE <<>>) \in Seq(Word)
  <2>1. r = role /\ n = 1 => said[r] + 1 \in Word
    BY <1>1, ParametersAssumption DEF Word
  <2>2. r = role /\ n = 1 => <<said[r] + 1>> \in Seq(Word)
    BY <2>1
  <2> QED
    BY <2>2
<1>4. words \in [Speaker -> Seq(Word)]
  BY <1>3
<1>5. UpdateActiveSpeaker /\ Show(words)
  BY DEF HandleSpokenText
<1> HIDE DEF words
<1>6. /\ active' \in Speaker /\ pendingSpeaker' \in Speaker \cup {"none"}
      /\ wait' \in 0 .. SttWaitSteps
      /\ pendingSpeaker' # "none" =>
           pendingSpeaker' = "model" /\ active' = "user" /\ buffer["model"] # <<>>
      /\ active = "user" /\ active' = "model" => buffer["model"] # <<>>
  BY <1>5, SwitchFacts
<1>7. /\ buffer' \in [Speaker -> Seq(Word)] /\ context' \in [Speaker -> Seq(Word)]
      /\ active' = "user" /\ buffer["model"] # <<>> => buffer'["model"] # <<>>
  BY <1>4, <1>5, <1>6, ShowFacts
<1> QED
  BY <1>2, <1>6, <1>7 DEF PendingReady

-------------------------------------------------------------------------------
(* The inductive invariant *)

LEMMA InitIInv == Init => IInv
<1> SUFFICES ASSUME Init PROVE IInv
  OBVIOUS
<1>1. active \in Speaker /\ <<0>> \in Seq(Word) /\ << >> \in Seq(Word)
  BY ParametersAssumption DEF Init, Word
<1>2. /\ vadHistory \in Seq(VadLevels) /\ Len(vadHistory) <= WindowSize
      /\ steps \in 0 .. WarmupSteps /\ wait \in 0 .. SttWaitSteps
  BY ParametersAssumption DEF Init
<1>3. buffer \in [Speaker -> Seq(Word)] /\ context \in [Speaker -> Seq(Word)]
  BY <1>1 DEF Init
<1>4. said \in [Speaker -> 0 .. MaxWords]
  BY ParametersAssumption DEF Init
<1> QED
  BY <1>1, <1>2, <1>3, <1>4 DEF Init, IInv, TypeOK, PendingReady, Speaking

\* The bookkeeping of the two loops keeps its type.
LEMMA BookType ==
  ASSUME IInv, BeginUserTurn \/ BeginModelTurn \/ UNCHANGED bookVars
  PROVE  /\ utterance' \subseteq Word /\ committed' \subseteq Word
         /\ overlap' \in Nat /\ trigger' \in {"armed", "fired"}
         /\ speaking' \in Speaking /\ audio' \in {"audible", "muted"}
BY DEF IInv, TypeOK, BeginUserTurn, BeginModelTurn, bookVars, Speaking

LEMMA NextIInv == IInv /\ [Next]_vars => IInv'
<1> SUFFICES ASSUME IInv, [Next]_vars PROVE IInv'
  OBVIOUS
<1>1. ASSUME NEW value \in VadLevels, Vad(value) PROVE IInv'
  <2>1. vadHistory \in Seq(VadLevels) /\ Len(vadHistory) <= WindowSize /\ WindowSize > 0
    BY ParametersAssumption DEF IInv, TypeOK
  <2>2. CASE Len(vadHistory) < WindowSize
    <3>1. vadHistory' = Append(vadHistory, value)
      BY <1>1, <2>2 DEF Vad
    <3>2. vadHistory' \in Seq(VadLevels) /\ Len(vadHistory') = Len(vadHistory) + 1
      BY <3>1, <2>1
    <3> QED
      BY <1>1, <2>1, <2>2, <3>2, ParametersAssumption
      DEF Vad, IInv, TypeOK, PendingReady, turnVars, bookVars
  <2>3. CASE ~(Len(vadHistory) < WindowSize)
    <3>1. vadHistory' = Append(Tail(vadHistory), value)
      BY <1>1, <2>3 DEF Vad
    <3>2. Len(vadHistory) = WindowSize /\ vadHistory # <<>>
      BY <2>1, <2>3, ParametersAssumption
    <3>3. Tail(vadHistory) \in Seq(VadLevels) /\ Len(Tail(vadHistory)) = WindowSize - 1
      BY <2>1, <3>2
    <3>4. vadHistory' \in Seq(VadLevels) /\ Len(vadHistory') = WindowSize
      BY <3>1, <3>3, ParametersAssumption
    <3> QED
      BY <1>1, <3>4, ParametersAssumption
      DEF Vad, IInv, TypeOK, PendingReady, turnVars, bookVars
  <2> QED
    BY <2>2, <2>3
<1>2. ASSUME SttWord PROVE IInv'
  <2>1. HandleSpokenText("user", 1) /\ "user" \in Speaker
    BY <1>2 DEF SttWord, Speaker
  <2>2. BeginUserTurn \/ UNCHANGED bookVars
    BY <1>2 DEF SttWord
  <2> QED
    BY <1>2, <2>1, <2>2, HandleFacts, BookType DEF SttWord, IInv, TypeOK, vadVars
<1>3. ASSUME Overlap PROVE IInv'
  BY <1>3 DEF Overlap, NoteOverlap, IInv, TypeOK, PendingReady, vadVars, turnVars, Speaking
<1>4. ASSUME StillModel PROVE IInv'
  BY <1>4 DEF StillModel, IInv, TypeOK, PendingReady, vadVars, turnVars, bookVars
<1>5. ASSUME NEW fires \in BOOLEAN, Utter(fires) PROVE IInv'
  BY <1>5, ParametersAssumption
  DEF Utter, AfterShouldFire, IInv, TypeOK, PendingReady, vadVars, turnVars, Word, Speaker
<1>6. ASSUME NEW n \in {0, 1}, ModelFrame(n) PROVE IInv'
  <2>1. HandleSpokenText("model", n) /\ "model" \in Speaker
    BY <1>6 DEF ModelFrame, Speaker
  <2>2. BeginModelTurn \/ UNCHANGED bookVars
    BY <1>6 DEF ModelFrame
  <2> QED
    BY <1>6, <2>1, <2>2, HandleFacts, BookType DEF ModelFrame, IInv, TypeOK, vadVars
<1>7. ASSUME UNCHANGED vars PROVE IInv'
  BY <1>7 DEF vars, IInv, TypeOK, PendingReady, vadVars, turnVars, bookVars
<1> QED
  BY <1>1, <1>2, <1>3, <1>4, <1>5, <1>6, <1>7 DEF Next, SttLoop, OutputLoop

\* Every reachable state satisfies the inductive invariant.
LEMMA SpecIInv == Spec => []IInv
<1> QED
  BY InitIInv, NextIInv, PTL DEF Spec

-------------------------------------------------------------------------------
(* Theorems *)

\* The state of the turn manager and of the channel's bookkeeping keeps its
\* type: the VAD window never outgrows window_size, the wait counter never
\* leaves 0 .. stt_wait_steps (turn_manager.py:54-100).
THEOREM TypeOKHolds == Spec => []TypeOK
<1>1. IInv => TypeOK
  BY DEF IInv
<1> QED
  BY <1>1, SpecIInv, PTL

\* A switch that stays pending after a call is one to the model, while the user
\* has the floor (_handle_pending_speaker_switch, turn_manager.py:61-70).
THEOREM PendingIsOtherHolds == Spec => []PendingIsOther
<1>1. IInv => PendingIsOther
  BY DEF IInv, PendingReady, PendingIsOther
<1> QED
  BY <1>1, SpecIInv, PTL

\* The model never takes the floor with an empty buffer, however long the
\* switch was pending and whichever loop makes it (turn_manager.py:88-100).
THEOREM NeverEmptyHandedHolds == Spec => NeverEmptyHanded
<1>1. IInv /\ [Next]_vars => [active = "user" /\ active' = "model" => buffer["model"] # <<>>]_vars
  <2> SUFFICES ASSUME IInv, Next, active = "user", active' = "model"
               PROVE  buffer["model"] # <<>>
    OBVIOUS
  <2>1. active # active'
    OBVIOUS
  <2>2. PICK role \in Speaker, n \in {0, 1} : HandleSpokenText(role, n)
    BY <2>1 DEF Next, Vad, SttLoop, SttWord, Overlap, StillModel, Utter, OutputLoop, ModelFrame,
                turnVars, Speaker
  <2> QED
    BY <2>2, HandleFacts
<1> QED
  BY <1>1, SpecIInv, PTL DEF Spec, NeverEmptyHanded

-------------------------------------------------------------------------------
(* No word is lost, doubled or overtaken *)

\* The words 1 .. n in their order.
Counted(n) == [i \in 1 .. n |-> i]

\* One more word, behind the others.
LEMMA CountOneMore ==
  ASSUME NEW n \in Nat
  PROVE  Counted(n) \in Seq(Nat) /\ Counted(n) \o <<n + 1>> = Counted(n + 1)
<1>1. Counted(n) \in Seq(Nat) /\ Len(Counted(n)) = n /\ Counted(n + 1) \in Seq(Nat)
      /\ Len(Counted(n + 1)) = n + 1
  BY DEF Counted
<1>2. <<n + 1>> \in Seq(Nat) /\ Len(<<n + 1>>) = 1 /\ <<n + 1>>[1] = n + 1
  OBVIOUS
<1> DEFINE longer == Counted(n) \o <<n + 1>>
<1>3. longer \in Seq(Nat) /\ Len(longer) = n + 1
  BY <1>1, <1>2
<1> HIDE DEF longer
<1>4. ASSUME NEW i \in 1 .. n + 1 PROVE longer[i] = Counted(n + 1)[i]
  <2>1. longer[i] = IF i <= n THEN Counted(n)[i] ELSE <<n + 1>>[i - n]
    BY <1>1, <1>2, ConcatProperties DEF longer
  <2>2. CASE i <= n
    <3>1. i \in 1 .. n
      BY <2>2
    <3> QED
      BY <2>1, <2>2, <3>1 DEF Counted
  <2>3. CASE ~(i <= n)
    <3>1. i = n + 1 /\ i - n = 1
      BY <2>3
    <3> QED
      BY <1>2, <2>1, <2>3, <3>1 DEF Counted
  <2> QED
    BY <2>2, <2>3
<1>5. longer = Counted(n + 1)
  BY <1>1, <1>3, <1>4, SeqEqual
<1> QED
  BY <1>1, <1>5 DEF longer

\* What has been said, with or without the label that is buffered first.
Transcript(r) == {Counted(said[r]), <<0>> \o Counted(said[r])}

LEMMA InOrderIsTranscript == InOrder <=> \A r \in Speaker : context[r] \o buffer[r] \in Transcript(r)
BY DEF InOrder, Transcript, Counted

\* The new words go behind everything that is shown or buffered, whoever has the floor.
LEMMA ShowAppends ==
  ASSUME IInv, NEW words \in [Speaker -> Seq(Word)], Show(words), NEW r \in Speaker
  PROVE  context'[r] \o buffer'[r] = (context[r] \o buffer[r]) \o words[r]
<1>1. buffer[r] \in Seq(Word) /\ context[r] \in Seq(Word) /\ words[r] \in Seq(Word)
  BY DEF IInv, TypeOK
<1>2. context[r] \o buffer[r] \in Seq(Word)
  BY <1>1
<1>3. CASE r = active'
  <2> DEFINE all == (context[r] \o buffer[r]) \o words[r]
  <2>1. context'[r] = all /\ buffer'[r] = <<>>
    BY <1>3 DEF Show, IInv, TypeOK
  <2>2. all \in Seq(Word)
    BY <1>1, <1>2
  <2> HIDE DEF all
  <2>3. all \o <<>> = all
    BY <2>2, ConcatEmptySeq
  <2> QED
    BY <2>1, <2>3 DEF all
<1>4. CASE r # active'
  <2>1. context'[r] = context[r] /\ buffer'[r] = buffer[r] \o words[r]
    BY <1>4 DEF Show, IInv, TypeOK
  <2>2. (context[r] \o buffer[r]) \o words[r] = context[r] \o (buffer[r] \o words[r])
    <3>1. \A s, t, u \in Seq(Word) : (s \o t) \o u = s \o (t \o u)
      BY ConcatAssociative
    <3> QED
      BY <1>1, <3>1, Zenon
  <2>3. context'[r] \o buffer'[r] = context[r] \o (buffer[r] \o words[r])
    BY <2>1, Zenon
  <2> QED
    BY <2>2, <2>3, Zenon
<1> QED
  BY <1>3, <1>4

LEMMA HandleInOrder ==
  ASSUME IInv, InOrder, NEW role \in Speaker, NEW n \in {0, 1}, HandleSpokenText(role, n)
  PROVE  InOrder'
<1> DEFINE words == [r \in Speaker |-> IF r = role /\ n = 1 THEN <<said[r] + 1>> ELSE <<>>]
<1>1. said[role] + n <= MaxWords /\ said' = [said EXCEPT ![role] = @ + n] /\ Show(words)
  BY DEF HandleSpokenText
<1>2. said \in [Speaker -> 0 .. MaxWords] /\ buffer \in [Speaker -> Seq(Word)]
      /\ context \in [Speaker -> Seq(Word)]
  BY DEF IInv, TypeOK
<1>3. ASSUME NEW r \in Speaker
      PROVE  (IF r = role /\ n = 1 THEN <<said[r] + 1>> ELSE <<>>) \in Seq(Word)
  <2>1. r = role /\ n = 1 => said[r] + 1 \in Word
    BY <1>1, <1>2, ParametersAssumption DEF Word
  <2>2. r = role /\ n = 1 => <<said[r] + 1>> \in Seq(Word)
    BY <2>1
  <2> QED
    BY <2>2
<1>4. words \in [Speaker -> Seq(Word)]
  BY <1>3
<1>5. SUFFICES ASSUME NEW r \in Speaker PROVE context'[r] \o buffer'[r] \in Transcript(r)'
  BY DEF InOrder, Transcript, Counted
<1> DEFINE before == context[r] \o buffer[r]
<1>6. context'[r] \o buffer'[r] = before \o words[r]
  BY <1>1, <1>4, ShowAppends
<1>7. before \in Transcript(r) /\ before \in Seq(Word)
  BY <1>2, InOrderIsTranscript
<1>8. CASE r = role /\ n = 1
  <2>1. words[r] = <<said[r] + 1>> /\ said'[r] = said[r] + 1 /\ said[r] \in Nat
    BY <1>1, <1>2, <1>8, ParametersAssumption
  <2>2. /\ Counted(said[r]) \in Seq(Nat)
        /\ Counted(said[r]) \o words[r] = Counted(said'[r])
    <3>1. Counted(said[r]) \o <<said[r] + 1>> = Counted(said[r] + 1)
      BY <2>1, CountOneMore
    <3> HIDE DEF words
    <3> QED
      BY <2>1, <3>1, CountOneMore
  <2>3. (<<0>> \o Counted(said[r])) \o words[r] = <<0>> \o Counted(said'[r])
    <3>1. <<said[r] + 1>> \in Seq(Nat) /\ <<0>> \in Seq(Nat)
      BY <2>1
    <3>2. (<<0>> \o Counted(said[r])) \o <<said[r] + 1>>
            = <<0>> \o (Counted(said[r]) \o <<said[r] + 1>>)
      BY <2>2, <3>1, ConcatAssociative
    <3> HIDE DEF words
    <3> QED
      BY <2>1, <2>2, <3>2
  <2> HIDE DEF words, before
  <2> QED
    BY <1>6, <1>7, <2>2, <2>3 DEF Transcript
<1>9. CASE ~(r = role /\ n = 1)
  <2>1. words[r] = <<>> /\ said'[r] = said[r]
    BY <1>1, <1>2, <1>9, ParametersAssumption
  <2>2. before \o words[r] = before
    BY <1>7, <2>1, ConcatEmptySeq
  <2> HIDE DEF words, before
  <2> QED
    BY <1>6, <1>7, <2>1, <2>2 DEF Transcript
<1> QED
  BY <1>8, <1>9

\* Whatever VAD, wait and the order in which the two loops call handle_spoken_text:
\* what is shown of a speaker, followed by what is buffered, is everything that the
\* speaker has said, in order (turn_manager.py:30-60).
THEOREM InOrderHolds == Spec => []InOrder
<1>1. Init => InOrder
  <2> SUFFICES ASSUME Init, NEW r \in Speaker PROVE context[r] \o buffer[r] \in Transcript(r)
    BY InOrderIsTranscript
  <2>1. /\ context[r] = <<>> /\ buffer[r] = (IF r = active THEN <<0>> ELSE <<>>) /\ said[r] = 0
    BY DEF Init
  <2>2. Counted(0) = <<>>
    BY DEF Counted
  <2>3. <<0>> \in Seq(Nat) /\ << >> \in Seq(Nat)
    OBVIOUS
  <2>4. <<>> \o <<0>> = <<0>> /\ <<0>> \o <<>> = <<0>> /\ <<>> \o <<>> = <<>>
    BY <2>3, ConcatEmptySeq
  <2> QED
    BY <2>1, <2>2, <2>4 DEF Transcript
<1>2. IInv /\ InOrder /\ [Next]_vars => InOrder'
  <2> SUFFICES ASSUME IInv, InOrder, [Next]_vars PROVE InOrder'
    OBVIOUS
  <2>1. CASE UNCHANGED <<context, buffer, said>>
    BY <2>1 DEF InOrder
  <2>2. CASE \E role \in Speaker, n \in {0, 1} : HandleSpokenText(role, n)
    BY <2>2, HandleInOrder
  <2> QED
    BY <2>1, <2>2 DEF Next, Vad, SttLoop, SttWord, Overlap, StillModel, Utter, OutputLoop, ModelFrame,
                      turnVars, vars, Speaker
<1> QED
  BY <1>1, <1>2, SpecIInv, PTL DEF Spec

-------------------------------------------------------------------------------
(* The row of the codec *)

CodecIInv == CodecTypeOK /\ InStep

\* The counters start together.
LEMMA CodecStarts == CodecInit => CodecIInv
  <1>1. SUFFICES ASSUME CodecInit PROVE CodecIInv
    OBVIOUS
  <1>2. att = [ring |-> Ring!NewRing, offset |-> [r \in Rows |-> 0],
               offsets |-> [r \in Rows |-> 0]]
    BY <1>1 DEF CodecInit, Ring!NewTransformer
  <1>3. att.ring.end = [r \in Rows |-> 0]
    BY <1>2 DEF Ring!NewRing
  <1>4. CodecTypeOK
    BY <1>1, <1>2, <1>3, CodecAssumption DEF CodecInit, CodecTypeOK
  <1>5. InStep
    BY <1>1, <1>2, <1>3 DEF CodecInit, InStep, Chunk, Stride
  <1> QED BY <1>4, <1>5 DEF CodecIInv

\* A reset puts the three counters of its rows to 0, and those of no other row.
LEMMA ResetKeeps == CodecIInv /\ NewSessions => CodecIInv'
  <1>1. SUFFICES ASSUME CodecIInv, NEW fresh \in SUBSET Rows \ {{}},
                        \A r \in fresh : past[r].session < MaxSession,
                        ResetStreaming(fresh)
                 PROVE  CodecIInv'
    BY DEF NewSessions
  <1>2. /\ att'.offset  = [r \in Rows |-> IF r \in fresh THEN 0 ELSE att.offset[r]]
        /\ att'.offsets = [r \in Rows |-> IF r \in fresh THEN 0 ELSE att.offsets[r]]
        /\ att'.ring = Ring!ResetEnd(att.ring, fresh)
    BY <1>1 DEF ResetStreaming, Ring!ResetTransformer, Ring!ResetOffset
  <1>3. att'.ring.end = [r \in Rows |-> IF r \in fresh THEN 0 ELSE att.ring.end[r]]
    <2>1. (Ring!ResetEnd(att.ring, fresh)).end
            = [r \in Rows |-> IF r \in fresh THEN 0 ELSE att.ring.end[r]]
      BY DEF Ring!ResetEnd
    <2> QED BY <1>2, <2>1
  <1>4. past' = [r \in Rows |-> IF r \in fresh
                               THEN [session |-> past[r].session + 1, frames |-> 0, played |-> 0]
                               ELSE past[r]]
    BY <1>1 DEF ResetStreaming
  <1>5. CodecTypeOK'
    <2>1. /\ mask' \in SUBSET Rows /\ encoded' \in SUBSET Rows
          /\ graph' \in 0 .. 2 /\ since' \in 0 .. Delay
      BY <1>1, CodecAssumption DEF ResetStreaming, CodecIInv, CodecTypeOK
    <2>2. past' \in [Rows -> [session : 1 .. MaxSession, frames : 0 .. MaxCodecFrames, played : Nat]]
      BY <1>1, <1>4, CodecAssumption DEF CodecIInv, CodecTypeOK
    <2>3. /\ att'.offset \in [Rows -> Nat] /\ att'.offsets \in [Rows -> Nat]
          /\ att'.ring.end \in [Rows -> Nat]
      BY <1>1, <1>2, <1>3 DEF CodecIInv, CodecTypeOK
    <2> QED BY <2>1, <2>2, <2>3 DEF CodecTypeOK
  <1>6. InStep'
    BY <1>1, <1>2, <1>3, <1>4 DEF CodecIInv, InStep, CodecTypeOK, Chunk, Stride
  <1> QED BY <1>5, <1>6 DEF CodecIInv

\* A step advances the three counters of the rows it is given by a chunk.
LEMMA CodecStepKeeps == ASSUME NEW given \in SUBSET Rows, CodecIInv, CodecStep(given) PROVE CodecIInv'
  <1> USE DEF Chunk, Stride
  <1>1. \E h : att' = Ring!TransformerStep(att, h, given, Chunk)
    BY DEF CodecStep, Encode
  <1>2. PICK h : att' = Ring!TransformerStep(att, h, given, Chunk)
    BY <1>1
  <1>3. /\ att'.offset  = [r \in Rows |-> IF r \in given THEN att.offset[r] + 2 ELSE att.offset[r]]
        /\ att'.offsets = [r \in Rows |-> IF r \in given THEN att.offsets[r] + 2
                                                         ELSE att.offsets[r]]
        /\ att'.ring = Ring!Complete(att.ring, Ring!Entries(att, h, 2), given, 2)
    BY <1>2 DEF Ring!TransformerStep, Ring!OffsetStep
  <1>4. att'.ring.end = [r \in Rows |-> IF r \notin given THEN att.ring.end[r]
                                                          ELSE att.ring.end[r] + 2]
    <2>1. (Ring!Complete(att.ring, Ring!Entries(att, h, 2), given, 2)).end
            = Ring!Advance(att.ring, given, 2)
      BY DEF Ring!Complete
    <2>2. Ring!Advance(att.ring, given, 2)
            = [r \in Rows |-> IF r \notin given THEN att.ring.end[r] ELSE att.ring.end[r] + 2]
      BY DEF Ring!Advance
    <2> QED BY <1>3, <2>1, <2>2
  <1>5. past' = [r \in Rows |->
                 [session |-> past[r].session,
                  frames  |-> IF r \in given THEN past[r].frames + 1 ELSE past[r].frames,
                  played  |-> IF Answers /\ r \in Answered(given) THEN past[r].played + 1
                                                                  ELSE past[r].played]]
    BY DEF CodecStep
  <1>6. \A r \in given : past[r].frames < MaxCodecFrames
    BY DEF CodecStep
  <1>7. CodecTypeOK'
    <2>1. /\ mask' \in SUBSET Rows /\ encoded' \in SUBSET Rows
          /\ graph' \in 0 .. 2 /\ since' \in 0 .. Delay
      <3>1. mask' = Answered(given) \/ mask' = given
        BY DEF CodecStep
      <3>2. graph' = graph \/ graph' = IF graph < 2 THEN graph + 1 ELSE graph
        <4>1. CASE Answers
          BY <4>1 DEF CodecStep, Decode, GraphedCall
        <4>2. CASE ~Answers
          BY <4>2 DEF CodecStep, NoDecode
        <4> QED BY <4>1, <4>2
      <3>3. encoded' = given /\ since' = IF Answers THEN since ELSE since + 1
        BY DEF CodecStep
      <3>4. mask' \in SUBSET Rows /\ encoded' \in SUBSET Rows
        BY <3>1, <3>3 DEF Answered
      <3>5. graph \in 0 .. 2 /\ since \in 0 .. Delay
        BY DEF CodecIInv, CodecTypeOK
      <3>6. graph' \in 0 .. 2
        BY <3>2, <3>5
      <3>7. since' \in 0 .. Delay
        BY <3>3, <3>5, CodecAssumption DEF Answers
      <3> QED BY <3>4, <3>6, <3>7
    <2>3. past' \in [Rows -> [session : 1 .. MaxSession, frames : 0 .. MaxCodecFrames, played : Nat]]
      BY <1>5, <1>6, CodecAssumption DEF CodecIInv, CodecTypeOK
    <2>4. /\ att'.offset \in [Rows -> Nat] /\ att'.offsets \in [Rows -> Nat]
          /\ att'.ring.end \in [Rows -> Nat]
      BY <1>3, <1>4 DEF CodecIInv, CodecTypeOK
    <2> QED BY <2>1, <2>3, <2>4 DEF CodecTypeOK
  <1>8. InStep'
    <2> SUFFICES ASSUME NEW r \in Rows
                 PROVE  /\ att'.offset[r] = past'[r].frames * 2
                        /\ att'.ring.end[r] = att'.offset[r]
                        /\ att'.offsets[r] = att'.offset[r]
      BY DEF InStep
    <2>1. /\ att.offset[r] = past[r].frames * 2 /\ past[r].frames \in Nat
          /\ att.ring.end[r] = att.offset[r] /\ att.offsets[r] = att.offset[r]
      BY DEF CodecIInv, InStep, CodecTypeOK
    <2>2. past'[r].frames = IF r \in given THEN past[r].frames + 1 ELSE past[r].frames
      BY <1>5
    <2>3. /\ att'.offset[r] = IF r \in given THEN att.offset[r] + 2 ELSE att.offset[r]
          /\ att'.ring.end[r] = IF r \notin given THEN att.ring.end[r] ELSE att.ring.end[r] + 2
          /\ att'.offsets[r] = IF r \in given THEN att.offsets[r] + 2 ELSE att.offsets[r]
      BY <1>3, <1>4
    <2> QED BY <2>1, <2>2, <2>3
  <1> QED BY <1>7, <1>8 DEF CodecIInv

LEMMA CodecKeeps == CodecIInv /\ [CodecNext]_codecVars => CodecIInv'
  <1>1. SUFFICES ASSUME CodecIInv, [CodecNext]_codecVars PROVE CodecIInv'
    OBVIOUS
  <1>2. CASE NewSessions
    BY <1>1, <1>2, ResetKeeps
  <1>3. CASE \E given \in SUBSET Rows : CodecStep(given)
    BY <1>1, <1>3, CodecStepKeeps
  <1>4. CASE UNCHANGED codecVars
    BY <1>1, <1>4 DEF CodecIInv, CodecTypeOK, InStep, codecVars, stateVars
  <1> QED BY <1>1, <1>2, <1>3, <1>4 DEF CodecNext

\* In every run, with any rows and any context, the ring, the attention and the
\* transformer of the codec have counted the same steps of each row, those of
\* its session.
THEOREM InStepHolds == CodecSpec => []InStep
  <1>1. CodecIInv => InStep
    BY DEF CodecIInv
  <1> QED BY CodecStarts, CodecKeeps, <1>1, PTL DEF CodecSpec

-------------------------------------------------------------------------------
(* The quantizer: the steps of a residual *)

Book == [1 .. Bins -> Int]

\* The residuals and the codes of the levels, from what is quantized.
Steps(h, codes, start, levels) ==
  /\ h \in [0 .. Len(levels) -> Int] /\ h[0] = start
  /\ codes \in Seq(1 .. Bins) /\ Len(codes) = Len(levels)
  /\ \A i \in 1 .. Len(levels) :
       codes[i] = Nearest(levels[i], h[i - 1]) /\ h[i] = h[i - 1] - levels[i][codes[i]]

LEMMA NearestFact ==
  ASSUME NEW book \in Book, NEW x \in Int
  PROVE  /\ Nearest(book, x) \in 1 .. Bins
         /\ \A d \in 1 .. Bins : Distance(x, book[Nearest(book, x)]) <= Distance(x, book[d])
<1>1. Bins \in Nat \ {0} /\ DOMAIN book = 1 .. Bins /\ \A d \in 1 .. Bins : book[d] \in Int
  BY QuantizerAssumption DEF Book
<1>2. \A d \in 1 .. Bins : Distance(x, book[d]) \in Nat
  BY <1>1 DEF Distance
<1> DEFINE D == {Distance(x, book[d]) : d \in 1 .. Bins}
<1>3. D \in SUBSET Nat /\ D # {}
  <2>1. 1 \in 1 .. Bins
    BY <1>1
  <2> QED
    BY <1>2, <2>1
<1>4. PICK m \in D : \A k \in D : m <= k
  BY <1>3, LeastOf
<1> DEFINE C == {d \in 1 .. Bins : Distance(x, book[d]) = m}
<1>5. C \in SUBSET Nat /\ C # {}
  <2>1. C \in SUBSET Nat
    BY <1>1
  <2>2. PICK d \in 1 .. Bins : m = Distance(x, book[d])
    BY <1>4
  <2> QED
    BY <2>1, <2>2
<1>6. PICK c \in C : \A d \in C : c <= d
  BY <1>5, LeastOf
<1>7. \A d \in 1 .. Bins : m <= Distance(x, book[d])
  BY <1>4
<1>8. c \in 1 .. Bins /\ Distance(x, book[c]) = m /\ m \in Nat
  BY <1>3, <1>4, <1>6
<1> DEFINE Is(a) ==
             \A d \in DOMAIN book :
               \/ Distance(x, book[a]) < Distance(x, book[d])
               \/ Distance(x, book[a]) = Distance(x, book[d]) /\ a <= d
<1>9. Is(c)
  <2> SUFFICES ASSUME NEW d \in 1 .. Bins
               PROVE  \/ Distance(x, book[c]) < Distance(x, book[d])
                      \/ Distance(x, book[c]) = Distance(x, book[d]) /\ c <= d
    BY <1>1
  <2>1. CASE Distance(x, book[d]) = m
    BY <1>6, <1>8, <2>1
  <2>2. CASE Distance(x, book[d]) # m
    BY <1>2, <1>7, <1>8, <2>2
  <2> QED
    BY <2>1, <2>2
<1> HIDE DEF C, D, Is
<1> DEFINE n == CHOOSE a \in DOMAIN book : Is(a)
<1>10. n \in DOMAIN book /\ Is(n)
  BY <1>1, <1>8, <1>9
<1>11. Nearest(book, x) = n
  BY DEF Nearest, Is
<1> HIDE DEF n
<1>12. \A d \in 1 .. Bins : Distance(x, book[n]) <= Distance(x, book[d])
  <2> SUFFICES ASSUME NEW d \in 1 .. Bins PROVE Distance(x, book[n]) <= Distance(x, book[d])
    OBVIOUS
  <2>1. \/ Distance(x, book[n]) < Distance(x, book[d])
        \/ Distance(x, book[n]) = Distance(x, book[d]) /\ n <= d
    BY <1>1, <1>10 DEF Is
  <2>2. Distance(x, book[n]) \in Nat /\ Distance(x, book[d]) \in Nat
    BY <1>1, <1>2, <1>10
  <2> QED
    BY <2>1, <2>2
<1> QED
  BY <1>1, <1>10, <1>11, <1>12

LEMMA LeftFact ==
  ASSUME NEW book \in Book, NEW r \in Int
  PROVE  LET c == Nearest(book, r) IN c \in 1 .. Bins /\ book[c] \in Int /\ r - book[c] \in Int
<1>1. Nearest(book, r) \in 1 .. Bins
  BY NearestFact
<1> QED
  BY <1>1 DEF Book

\* Two encodings of the same agree as far as both go.
LEMMA SameSteps ==
  ASSUME NEW h, NEW k, NEW c, NEW d, NEW start, NEW L, NEW M,
         Steps(h, c, start, L), Steps(k, d, start, M),
         Len(L) \in Nat, Len(M) \in Nat, Len(L) <= Len(M), \A i \in 1 .. Len(L) : L[i] = M[i]
  PROVE  /\ \A i \in 0 .. Len(L) : h[i] = k[i]
         /\ \A i \in 1 .. Len(L) : c[i] = d[i]
<1> DEFINE n == Len(L)
<1>0. n \in Nat
  OBVIOUS
<1> DEFINE P == {i \in Nat : i <= n => h[i] = k[i]}
<1>1. ASSUME NEW i \in 1 .. n, h[i - 1] = k[i - 1] PROVE c[i] = d[i] /\ h[i] = k[i]
  <2>1. i \in 1 .. Len(L) /\ i \in 1 .. Len(M) /\ L[i] = M[i]
    OBVIOUS
  <2>2. c[i] = Nearest(L[i], h[i - 1]) /\ h[i] = h[i - 1] - L[i][c[i]]
    BY <2>1 DEF Steps
  <2>3. d[i] = Nearest(M[i], k[i - 1]) /\ k[i] = k[i - 1] - M[i][d[i]]
    BY <2>1 DEF Steps
  <2> QED
    BY <1>1, <2>1, <2>2, <2>3
<1>2. 0 \in P
  BY DEF Steps
<1>3. ASSUME NEW i \in Nat, i \in P PROVE i + 1 \in P
  <2> SUFFICES ASSUME i + 1 <= n PROVE h[i + 1] = k[i + 1]
    OBVIOUS
  <2>1. i + 1 \in 1 .. n /\ (i + 1) - 1 = i /\ h[i] = k[i]
    BY <1>0, <1>3
  <2> QED
    BY <1>1, <2>1
<1>4. P = Nat
  <2> HIDE DEF P
  <2> QED
    BY <1>2, <1>3, Induct DEF P
<1>5. \A i \in 0 .. n : h[i] = k[i]
  BY <1>0, <1>4
<1>6. \A i \in 1 .. n : c[i] = d[i]
  <2> SUFFICES ASSUME NEW i \in 1 .. n PROVE c[i] = d[i]
    OBVIOUS
  <2>1. i - 1 \in 0 .. n
    BY <1>0
  <2> QED
    BY <1>1, <1>5, <2>1
<1> QED
  BY <1>5, <1>6

-------------------------------------------------------------------------------
(* The iterations of encode and of forward *)

IsEncoding(g, start, levels) ==
  g = [i \in 0 .. Len(levels) |->
         IF i = 0 THEN [residual |-> start, codes |-> <<>>] ELSE EncodeLevel(g[i - 1], levels[i])]

IsForward(g, start, levels) ==
  g = [i \in 0 .. Len(levels) |->
         IF i = 0 THEN [residual |-> start, out |-> 0, codes |-> <<>>] ELSE ForwardLevel(g[i - 1], levels[i])]

EncodeAcc  == [residual : Int, codes : Seq(1 .. Bins)]
ForwardAcc == [residual : Int, out : Int, codes : Seq(1 .. Bins)]

LEMMA EncodeLevelFact ==
  ASSUME NEW acc \in EncodeAcc, NEW book \in Book PROVE EncodeLevel(acc, book) \in EncodeAcc
<1> DEFINE c == Nearest(book, acc.residual)
<1>1. acc.residual \in Int /\ acc.codes \in Seq(1 .. Bins)
  BY DEF EncodeAcc
<1>2. c \in 1 .. Bins /\ book[c] \in Int
  BY <1>1, LeftFact
<1> HIDE DEF c
<1>3. Append(acc.codes, c) \in Seq(1 .. Bins) /\ acc.residual - book[c] \in Int
  BY <1>1, <1>2, AppendProperties
<1> QED
  BY <1>3 DEF EncodeLevel, Left, EncodeAcc, c

LEMMA ForwardLevelFact ==
  ASSUME NEW acc \in ForwardAcc, NEW book \in Book PROVE ForwardLevel(acc, book) \in ForwardAcc
<1> DEFINE c == Nearest(book, acc.residual)
<1>1. acc.residual \in Int /\ acc.codes \in Seq(1 .. Bins) /\ acc.out \in Int
  BY DEF ForwardAcc
<1>2. c \in 1 .. Bins /\ book[c] \in Int
  BY <1>1, LeftFact
<1> HIDE DEF c
<1>3. Append(acc.codes, c) \in Seq(1 .. Bins) /\ acc.residual - book[c] \in Int /\ acc.out + book[c] \in Int
  BY <1>1, <1>2, AppendProperties
<1> QED
  BY <1>3 DEF ForwardLevel, ForwardAcc, c

\* Whatever else it keeps: what takes the nearest of what is left, level by level.
LEMMA StepsFact ==
  ASSUME NEW levels \in Seq(Book), NEW start \in Int, NEW g, g[0].residual = start, g[0].codes = <<>>,
         \A i \in 1 .. Len(levels) :
           LET c == Nearest(levels[i], g[i - 1].residual)
           IN  g[i].residual = g[i - 1].residual - levels[i][c] /\ g[i].codes = Append(g[i - 1].codes, c)
  PROVE  Steps([i \in 0 .. Len(levels) |-> g[i].residual], g[Len(levels)].codes, start, levels)
<1> DEFINE n == Len(levels)
           c(i) == Nearest(levels[i], g[i - 1].residual)
<1>1. n \in Nat /\ \A i \in 1 .. n : levels[i] \in Book
  BY LenProperties, ElementOfSeq
<1>2. \A i \in 1 .. n : g[i].residual = g[i - 1].residual - levels[i][c(i)] /\ g[i].codes = Append(g[i - 1].codes, c(i))
  OBVIOUS
<1> HIDE DEF n
<1> DEFINE P == {i \in Nat : i <= n =>
                   /\ g[i].residual \in Int /\ g[i].codes \in Seq(1 .. Bins) /\ Len(g[i].codes) = i
                   /\ \A j \in 1 .. i : g[i].codes[j] = c(j)}
<1>3. 0 \in P
  <2>1. g[0].residual \in Int /\ g[0].codes \in Seq(1 .. Bins) /\ Len(g[0].codes) = 0
    BY EmptySeq
  <2>2. \A j \in 1 .. 0 : g[0].codes[j] = c(j)
    <3>1. 1 .. 0 = {}
      OBVIOUS
    <3> HIDE DEF c
    <3> QED
      BY <3>1
  <2> HIDE DEF c
  <2> QED
    BY <2>1, <2>2
<1>4. ASSUME NEW i \in Nat, i \in P PROVE i + 1 \in P
  <2> SUFFICES ASSUME i + 1 <= n
               PROVE  /\ g[i + 1].residual \in Int /\ g[i + 1].codes \in Seq(1 .. Bins)
                      /\ Len(g[i + 1].codes) = i + 1
                      /\ \A j \in 1 .. i + 1 : g[i + 1].codes[j] = c(j)
    OBVIOUS
  <2> DEFINE b == c(i + 1)
  <2>1. /\ g[i].residual \in Int /\ g[i].codes \in Seq(1 .. Bins) /\ Len(g[i].codes) = i
        /\ \A j \in 1 .. i : g[i].codes[j] = c(j)
    BY <1>1, <1>4
  <2>2. i + 1 \in 1 .. n /\ (i + 1) - 1 = i
    BY <1>1
  <2>3. b \in 1 .. Bins /\ g[i].residual - levels[i + 1][b] \in Int
    BY <1>1, <2>1, <2>2, LeftFact
  <2>4. g[i + 1].residual = g[i].residual - levels[i + 1][b] /\ g[i + 1].codes = Append(g[i].codes, b)
    BY <1>2, <2>2
  <2>5. b = c(i + 1)
    OBVIOUS
  <2> HIDE DEF b, c
  <2>6. /\ g[i + 1].codes \in Seq(1 .. Bins) /\ Len(g[i + 1].codes) = i + 1 /\ g[i + 1].codes[i + 1] = b
        /\ \A j \in 1 .. i : g[i + 1].codes[j] = g[i].codes[j]
    BY <2>1, <2>3, <2>4, AppendProperties
  <2>7. ASSUME NEW j \in 1 .. i + 1 PROVE g[i + 1].codes[j] = c(j)
    <3>1. j \in 1 .. i \/ j = i + 1
      OBVIOUS
    <3> QED
      BY <2>1, <2>5, <2>6, <3>1
  <2> QED
    BY <2>3, <2>4, <2>6, <2>7
<1>5. P = Nat
  <2> HIDE DEF P
  <2> QED
    BY <1>3, <1>4, Induct DEF P
<1>6. /\ \A i \in 0 .. n : g[i].residual \in Int
      /\ g[n].codes \in Seq(1 .. Bins) /\ Len(g[n].codes) = n
      /\ \A j \in 1 .. n : g[n].codes[j] = c(j)
  <2> HIDE DEF c
  <2>1. ASSUME NEW i \in 0 .. n
        PROVE  /\ g[i].residual \in Int /\ g[i].codes \in Seq(1 .. Bins) /\ Len(g[i].codes) = i
               /\ \A j \in 1 .. i : g[i].codes[j] = c(j)
    <3>0. i \in Nat /\ i <= n
      BY <1>1
    <3>1. i \in P /\ i <= n
      <4> HIDE DEF P
      <4> QED
        BY <3>0, <1>5
    <3> QED
      BY <3>1
  <2>2. n \in 0 .. n
    BY <1>1
  <2> HIDE DEF P
  <2> QED
    BY <2>1, <2>2
<1> HIDE DEF P
<1> DEFINE h == [i \in 0 .. n |-> g[i].residual]
<1>7. h \in [0 .. n -> Int] /\ h[0] = start
  BY <1>1, <1>6
<1>8. ASSUME NEW i \in 1 .. n
      PROVE  g[n].codes[i] = Nearest(levels[i], h[i - 1]) /\ h[i] = h[i - 1] - levels[i][g[n].codes[i]]
  <2>1. i - 1 \in 0 .. n /\ i \in 0 .. n
    BY <1>1
  <2>2. h[i - 1] = g[i - 1].residual /\ h[i] = g[i].residual
    BY <2>1
  <2>3. g[n].codes[i] = c(i) /\ g[i].residual = g[i - 1].residual - levels[i][c(i)]
    BY <1>2, <1>6
  <2>4. c(i) = Nearest(levels[i], h[i - 1])
    BY <2>2
  <2> HIDE DEF h, c
  <2> QED
    BY <2>2, <2>3, <2>4
<1>9. Steps(h, g[n].codes, start, levels)
  BY <1>6, <1>7, <1>8 DEF Steps, n
<1> QED
  BY <1>9 DEF n

LEMMA EncodingFact ==
  ASSUME NEW levels \in Seq(Book), NEW start \in Int
  PROVE  LET g == CHOOSE k : IsEncoding(k, start, levels)
         IN  \E h : Steps(h, g[Len(levels)].codes, start, levels)
<1> DEFINE n == Len(levels)
           base == [residual |-> start, codes |-> <<>>]
           step == [x \in (1 .. n) \X EncodeAcc |-> EncodeLevel(x[2], levels[x[1]])]
<1>1. n \in Nat /\ \A i \in 1 .. n : levels[i] \in Book
  BY LenProperties, ElementOfSeq
<1>2. base \in EncodeAcc
  BY EmptySeq DEF EncodeAcc
<1> HIDE DEF n
<1>3. step \in [(1 .. n) \X EncodeAcc -> EncodeAcc]
  BY <1>1, EncodeLevelFact
<1>4. PICK f \in [0 .. n -> EncodeAcc] : Iterates(f, n, base, step)
  BY <1>1, <1>2, <1>3, IterationExists
<1>5. \A i \in 1 .. n : f[i] = EncodeLevel(f[i - 1], levels[i])
  <2> SUFFICES ASSUME NEW i \in 1 .. n PROVE f[i] = EncodeLevel(f[i - 1], levels[i])
    OBVIOUS
  <2>1. f[i - 1] \in EncodeAcc
    BY <1>1
  <2>2. step[<<i, f[i - 1]>>] = EncodeLevel(f[i - 1], levels[i])
    BY <2>1
  <2> QED
    BY <1>4, <2>2 DEF Iterates
<1>6. f[0] = base
  BY <1>4 DEF Iterates
<1>7. IsEncoding(f, start, levels)
  BY <1>1, <1>5, <1>6 DEF IsEncoding, n
<1> DEFINE g == CHOOSE k : IsEncoding(k, start, levels)
<1>8. IsEncoding(g, start, levels)
  BY <1>7
<1> HIDE DEF g, step
<1>9. g[0] = base /\ \A i \in 1 .. n : g[i] = EncodeLevel(g[i - 1], levels[i])
  BY <1>1, <1>8 DEF IsEncoding, n
<1>10. ASSUME NEW i \in 1 .. Len(levels)
       PROVE  LET c == Nearest(levels[i], g[i - 1].residual)
              IN  g[i].residual = g[i - 1].residual - levels[i][c] /\ g[i].codes = Append(g[i - 1].codes, c)
  <2>1. g[i] = EncodeLevel(g[i - 1], levels[i])
    BY <1>9 DEF n
  <2> QED
    BY <2>1 DEF EncodeLevel, Left
<1>11. Steps([i \in 0 .. Len(levels) |-> g[i].residual], g[Len(levels)].codes, start, levels)
  <2>1. g[0].residual = start /\ g[0].codes = <<>>
    BY <1>9
  <2> QED
    BY <1>10, <2>1, StepsFact
<1> QED
  BY <1>11 DEF g

\* What forward gives: the same, and the sum of the centroids.
Forwarded(acc, start, levels) ==
  /\ \E h : Steps(h, acc.codes, start, levels) /\ acc.out = start - h[Len(levels)]

LEMMA ForwardingFact ==
  ASSUME NEW levels \in Seq(Book), NEW start \in Int
  PROVE  LET g == CHOOSE k : IsForward(k, start, levels) IN Forwarded(g[Len(levels)], start, levels)
<1> DEFINE n == Len(levels)
           base == [residual |-> start, out |-> 0, codes |-> <<>>]
           step == [x \in (1 .. n) \X ForwardAcc |-> ForwardLevel(x[2], levels[x[1]])]
<1>1. n \in Nat /\ \A i \in 1 .. n : levels[i] \in Book
  BY LenProperties, ElementOfSeq
<1>2. base \in ForwardAcc
  BY EmptySeq DEF ForwardAcc
<1> HIDE DEF n
<1>3. step \in [(1 .. n) \X ForwardAcc -> ForwardAcc]
  BY <1>1, ForwardLevelFact
<1>4. PICK f \in [0 .. n -> ForwardAcc] : Iterates(f, n, base, step)
  BY <1>1, <1>2, <1>3, IterationExists
<1>5. \A i \in 1 .. n : f[i] = ForwardLevel(f[i - 1], levels[i])
  <2> SUFFICES ASSUME NEW i \in 1 .. n PROVE f[i] = ForwardLevel(f[i - 1], levels[i])
    OBVIOUS
  <2>1. f[i - 1] \in ForwardAcc
    BY <1>1
  <2>2. step[<<i, f[i - 1]>>] = ForwardLevel(f[i - 1], levels[i])
    BY <2>1
  <2> QED
    BY <1>4, <2>2 DEF Iterates
<1>6. f[0] = base
  BY <1>4 DEF Iterates
<1>7. IsForward(f, start, levels)
  BY <1>1, <1>5, <1>6 DEF IsForward, n
<1> DEFINE g == CHOOSE k : IsForward(k, start, levels)
<1>8. IsForward(g, start, levels)
  BY <1>7
<1> HIDE DEF g, step
<1>9. g[0] = base /\ \A i \in 1 .. n : g[i] = ForwardLevel(g[i - 1], levels[i])
  BY <1>1, <1>8 DEF IsForward, n
<1>10. ASSUME NEW i \in 1 .. Len(levels)
       PROVE  LET c == Nearest(levels[i], g[i - 1].residual)
              IN  g[i].residual = g[i - 1].residual - levels[i][c] /\ g[i].codes = Append(g[i - 1].codes, c)
  <2>1. g[i] = ForwardLevel(g[i - 1], levels[i])
    BY <1>9 DEF n
  <2> QED
    BY <2>1 DEF ForwardLevel
<1> DEFINE h == [i \in 0 .. Len(levels) |-> g[i].residual]
<1>11. Steps(h, g[Len(levels)].codes, start, levels)
  <2>1. g[0].residual = start /\ g[0].codes = <<>>
    BY <1>9
  <2> QED
    BY <1>10, <2>1, StepsFact
<1>12. h \in [0 .. n -> Int] /\ \A i \in 0 .. n : h[i] = g[i].residual
  BY <1>11 DEF Steps, n
<1> HIDE DEF h
<1> DEFINE P == {i \in Nat : i <= n => g[i].out = start - h[i]}
<1>13. 0 \in P
  BY <1>1, <1>9, <1>12
<1>14. ASSUME NEW i \in Nat, i \in P PROVE i + 1 \in P
  <2> SUFFICES ASSUME i + 1 <= n PROVE g[i + 1].out = start - h[i + 1]
    OBVIOUS
  <2> DEFINE x == levels[i + 1][Nearest(levels[i + 1], g[i].residual)]
  <2>1. i + 1 \in 1 .. n /\ (i + 1) - 1 = i /\ i \in 0 .. n /\ i + 1 \in 0 .. n /\ i <= n
    BY <1>1
  <2>2. h[i] \in Int /\ h[i + 1] \in Int /\ h[i] = g[i].residual /\ h[i + 1] = g[i + 1].residual
    BY <1>12, <2>1
  <2>3. x \in Int
    BY <1>1, <2>1, <2>2, LeftFact
  <2>4. g[i + 1] = ForwardLevel(g[i], levels[i + 1])
    BY <1>9, <2>1
  <2>5. g[i + 1].out = g[i].out + x /\ g[i + 1].residual = g[i].residual - x
    BY <2>4 DEF ForwardLevel
  <2> HIDE DEF x
  <2>6. g[i].out = start - h[i]
    BY <1>14, <2>1
  <2> QED
    BY <2>2, <2>3, <2>5, <2>6
<1>15. P = Nat
  <2> HIDE DEF P
  <2> QED
    BY <1>13, <1>14, Induct DEF P
<1>16. g[n].out = start - h[n]
  BY <1>1, <1>15
<1> QED
  BY <1>11, <1>16 DEF Forwarded, g, n

-------------------------------------------------------------------------------
(* What they decode to *)

\* The centroids of the first k levels are what the latent has lost by then.
LEMMA StepsSum ==
  ASSUME NEW levels \in Seq(Book), NEW start \in Int, NEW h, NEW c, Steps(h, c, start, levels),
         NEW k \in 0 .. Len(levels), NEW f, \A i \in 1 .. k : f[i] = levels[i][c[i]]
  PROVE  SumTo(f, k) = start - h[k] /\ h[k] \in Int
<1>1. Len(levels) \in Nat /\ k \in Nat
  BY LenProperties
<1>2. \A i \in 1 .. k : levels[i] \in Book /\ c[i] \in 1 .. Bins
  <2> SUFFICES ASSUME NEW i \in 1 .. k PROVE levels[i] \in Book /\ c[i] \in 1 .. Bins
    OBVIOUS
  <2>1. i \in 1 .. Len(levels)
    BY <1>1
  <2> QED
    BY <2>1, ElementOfSeq DEF Steps
<1>3. \A i \in 1 .. k : f[i] \in Int
  BY <1>2 DEF Book
<1>4. PICK t : Totals(t, f, k, Int)
  <2>1. Int \in SUBSET Int /\ Additive(Int)
    BY DEF Additive
  <2> QED
    BY <1>1, <1>3, <2>1, SumsIn
<1>5. h[0] = start /\ \A i \in 0 .. k : h[i] \in Int
  BY <1>1 DEF Steps
<1> DEFINE P == {i \in Nat : i <= k => t[i] = start - h[i]}
<1>6. 0 \in P
  BY <1>4, <1>5 DEF Totals
<1>7. ASSUME NEW i \in Nat, i \in P PROVE i + 1 \in P
  <2> SUFFICES ASSUME i + 1 <= k PROVE t[i + 1] = start - h[i + 1]
    OBVIOUS
  <2>1. i + 1 \in 1 .. k /\ i + 1 \in 1 .. Len(levels) /\ (i + 1) - 1 = i /\ i \in 0 .. k /\ i + 1 \in 0 .. k
    BY <1>1
  <2>2. t[i] = start - h[i]
    BY <1>1, <1>7
  <2>3. h[i + 1] = h[i] - f[i + 1]
    BY <2>1 DEF Steps
  <2>4. t[i + 1] = t[i] + f[i + 1]
    BY <1>4, <2>1 DEF Totals
  <2>5. h[i] \in Int /\ h[i + 1] \in Int /\ f[i + 1] \in Int
    BY <1>3, <1>5, <2>1
  <2> QED
    BY <2>2, <2>3, <2>4, <2>5
<1>8. P = Nat
  <2> HIDE DEF P
  <2> QED
    BY <1>6, <1>7, Induct DEF P
<1>9. t[k] = start - h[k]
  BY <1>1, <1>8
<1> QED
  BY <1>1, <1>4, <1>5, <1>9 DEF Totals

\* The same, with another code at the last of the levels.
LEMMA StepsOther ==
  ASSUME NEW levels \in Seq(Book), NEW start \in Int, NEW h, NEW c, Steps(h, c, start, levels),
         NEW k \in 1 .. Len(levels), NEW e \in Int, NEW f, f[k] = e,
         \A i \in 1 .. k - 1 : f[i] = levels[i][c[i]]
  PROVE  SumTo(f, k) = (start - h[k - 1]) + e /\ h[k - 1] \in Int
<1>1. Len(levels) \in Nat /\ k - 1 \in 0 .. Len(levels) /\ k - 1 \in Nat /\ (k - 1) + 1 = k
  BY LenProperties
<1>2. PICK m \in Nat : m = k - 1
  BY <1>1
<1>3. SumTo(f, m) = start - h[m] /\ h[m] \in Int
  BY <1>1, <1>2, StepsSum
<1>4. \A i \in 1 .. m : f[i] \in Int
  <2> SUFFICES ASSUME NEW i \in 1 .. m PROVE f[i] \in Int
    OBVIOUS
  <2>1. i \in 1 .. Len(levels) /\ i \in 1 .. k - 1
    BY <1>1, <1>2
  <2>2. levels[i] \in Book /\ c[i] \in 1 .. Bins
    BY <2>1, ElementOfSeq DEF Steps
  <2> QED
    BY <2>1, <2>2 DEF Book
<1>5. SumTo(f, m + 1) = SumTo(f, m) + f[m + 1]
  <2>1. m + 1 = k
    BY <1>1, <1>2
  <2>2. f[m + 1] \in Int
    BY <2>1
  <2> QED
    BY <1>4, <2>2, IntSumStep
<1> QED
  BY <1>1, <1>2, <1>3, <1>5

LEMMA Scaled ==
  ASSUME NEW o \in {1, 2}, NEW s \in Int, NEW r \in Int, NEW b \in Int, NEW e \in Int,
         Distance(r, b) <= Distance(r, e)
  PROVE  Distance(o * s, o * ((s - r) + b)) <= Distance(o * s, o * ((s - r) + e))
<1>1. CASE o = 1
  BY <1>1 DEF Distance
<1>2. CASE o = 2
  BY <1>2 DEF Distance
<1> QED
  BY <1>1, <1>2

CentroidSum(layers, codes) == SumTo([i \in DOMAIN codes |-> layers[i][codes[i]]], Len(codes))

LEMMA FirstOnes ==
  ASSUME NEW S, NEW s \in Seq(S), NEW k \in 0 .. Len(s)
  PROVE  /\ SubSeq(s, 1, k) \in Seq(S) /\ Len(SubSeq(s, 1, k)) = k /\ DOMAIN SubSeq(s, 1, k) = 1 .. k
         /\ \A i \in 1 .. k : SubSeq(s, 1, k)[i] = s[i]
<1>1. Len(s) \in Nat /\ k \in Nat
  BY LenProperties
<1>2. \A i \in 1 .. k : s[i] \in S
  <2> SUFFICES ASSUME NEW i \in 1 .. k PROVE s[i] \in S
    OBVIOUS
  <2>1. i \in 1 .. Len(s)
    BY <1>1
  <2> QED
    BY <2>1, ElementOfSeq
<1>3. /\ SubSeq(s, 1, k) \in Seq(S) /\ Len(SubSeq(s, 1, k)) = IF 1 <= k THEN k - 1 + 1 ELSE 0
      /\ \A i \in 1 .. k - 1 + 1 : SubSeq(s, 1, k)[i] = s[1 + i - 1]
  BY <1>1, <1>2, SubSeqProperties
<1> DEFINE p == SubSeq(s, 1, k)
<1> HIDE DEF p
<1>4. p \in Seq(S) /\ Len(p) = k
  BY <1>1, <1>3 DEF p
<1>5. DOMAIN p = 1 .. k
  BY <1>4, LenProperties
<1>6. \A i \in 1 .. k : p[i] = s[i]
  <2> SUFFICES ASSUME NEW i \in 1 .. k PROVE p[i] = s[i]
    OBVIOUS
  <2>1. i \in 1 .. k - 1 + 1 /\ 1 + i - 1 = i
    BY <1>1
  <2> QED
    BY <1>3, <2>1 DEF p
<1> QED
  BY <1>4, <1>5, <1>6 DEF p

\* At each level no other code is nearer, once decoded.
LEMMA StepsGreedy ==
  ASSUME NEW layers \in Seq(Book), NEW levels \in Seq(Book), Len(levels) <= Len(layers),
         \A i \in 1 .. Len(levels) : levels[i] = layers[i],
         NEW start \in Int, NEW h, NEW c, Steps(h, c, start, levels), NEW o \in {1, 2},
         NEW k \in 1 .. Len(levels), NEW d \in 1 .. Bins
  PROVE  Distance(o * start, o * CentroidSum(layers, SubSeq(c, 1, k)))
           <= Distance(o * start, o * CentroidSum(layers, Append(SubSeq(c, 1, k - 1), d)))
<1> DEFINE p == SubSeq(c, 1, k)
           q == SubSeq(c, 1, k - 1)
           v == Append(q, d)
           f == [i \in DOMAIN p |-> layers[i][p[i]]]
           g == [i \in DOMAIN v |-> layers[i][v[i]]]
<1>1. /\ Len(levels) \in Nat /\ k \in Nat /\ k - 1 \in Nat /\ c \in Seq(1 .. Bins) /\ Len(c) = Len(levels)
      /\ levels[k] = layers[k]
  BY LenProperties DEF Steps
<1>2. p \in Seq(1 .. Bins) /\ Len(p) = k /\ DOMAIN p = 1 .. k /\ \A i \in 1 .. k : p[i] = c[i]
  <2>1. k \in 0 .. Len(c)
    BY <1>1
  <2> QED
    BY <1>1, <2>1, FirstOnes
<1>3. q \in Seq(1 .. Bins) /\ Len(q) = k - 1 /\ \A i \in 1 .. k - 1 : q[i] = c[i]
  <2>1. k - 1 \in 0 .. Len(c)
    BY <1>1
  <2> QED
    BY <1>1, <2>1, FirstOnes
<1> HIDE DEF p, q
<1>4. v \in Seq(1 .. Bins) /\ Len(v) = k /\ DOMAIN v = 1 .. k /\ v[k] = d /\ \A i \in 1 .. k - 1 : v[i] = c[i]
  <2>1. v \in Seq(1 .. Bins) /\ Len(v) = Len(q) + 1 /\ v[Len(q) + 1] = d /\ \A i \in 1 .. Len(q) : v[i] = q[i]
    BY <1>3, AppendProperties
  <2>2. Len(q) + 1 = k
    BY <1>1, <1>3
  <2> HIDE DEF v
  <2> QED
    BY <1>3, <2>1, <2>2, LenProperties
<1> HIDE DEF v
<1>5. \A i \in 1 .. k : f[i] = levels[i][c[i]]
  BY <1>2
<1>6. g[k] = levels[k][d] /\ \A i \in 1 .. k - 1 : g[i] = levels[i][c[i]]
  <2>1. k \in 1 .. k /\ g[k] = layers[k][d]
    BY <1>1, <1>4
  <2>2. ASSUME NEW i \in 1 .. k - 1 PROVE g[i] = levels[i][c[i]]
    <3>1. i \in 1 .. k /\ i \in 1 .. Len(levels)
      BY <1>1
    <3> QED
      BY <1>4, <3>1
  <2> QED
    BY <1>1, <2>1, <2>2
<1> DEFINE r == h[k - 1]
           a == levels[k]
<1>7. a \in Book /\ r \in Int /\ c[k] = Nearest(a, r) /\ h[k] = r - a[c[k]] /\ c[k] \in 1 .. Bins
  <2>1. a \in Book
    BY ElementOfSeq
  <2>2. k - 1 \in 0 .. Len(levels)
    BY <1>1
  <2>3. r \in Int /\ c[k] = Nearest(a, r) /\ h[k] = r - a[c[k]]
    BY <2>2 DEF Steps
  <2> QED
    BY <2>1, <2>3, NearestFact
<1>8. a[c[k]] \in Int /\ a[d] \in Int
  BY <1>7 DEF Book
<1>9. Distance(r, a[c[k]]) <= Distance(r, a[d])
  BY <1>7, NearestFact
<1> HIDE DEF f, g
<1>10. SumTo(f, k) = (start - r) + a[c[k]]
  <2>1. k \in 0 .. Len(levels)
    BY <1>1
  <2>2. SumTo(f, k) = start - h[k]
    BY <1>5, <2>1, StepsSum
  <2> HIDE DEF r, a
  <2> QED
    BY <1>7, <1>8, <2>2
<1>11. SumTo(g, k) = (start - r) + a[d]
  BY <1>6, <1>8, StepsOther
<1>12. CentroidSum(layers, p) = SumTo(f, k) /\ CentroidSum(layers, v) = SumTo(g, k)
  BY <1>2, <1>4 DEF CentroidSum, f, g
<1>13. Distance(o * start, o * ((start - r) + a[c[k]])) <= Distance(o * start, o * ((start - r) + a[d]))
  <2> HIDE DEF r, a
  <2> QED
    BY <1>7, <1>8, <1>9, Scaled
<1>14. Distance(o * start, o * CentroidSum(layers, p)) <= Distance(o * start, o * CentroidSum(layers, v))
  BY <1>10, <1>11, <1>12, <1>13
<1> QED
  BY <1>14 DEF p, q, v

-------------------------------------------------------------------------------
(* The two quantizers *)

\* What encode and forward give, for the levels in use.
LEMMA EncodesInSteps ==
  ASSUME NEW rvq, NEW n, NEW x, rvq.in * x \in Int, Levels(rvq, n) \in Seq(Book)
  PROVE  \E h : Steps(h, EncodeLevels(rvq, n, x), rvq.in * x, Levels(rvq, n))
<1> DEFINE L == Levels(rvq, n)
           s == rvq.in * x
           g == CHOOSE k : IsEncoding(k, s, L)
<1>1. EncodeLevels(rvq, n, x) = g[Len(L)].codes
  BY DEF EncodeLevels, IsEncoding
<1> HIDE DEF L, s
<1>2. L \in Seq(Book) /\ s \in Int
  BY DEF L, s
<1>3. \E h : Steps(h, g[Len(L)].codes, s, L)
  BY <1>2, EncodingFact
<1> HIDE DEF g
<1> QED
  BY <1>1, <1>3 DEF L, s

LEMMA ForwardsInSteps ==
  ASSUME NEW rvq, NEW n, NEW x, rvq.in * x \in Int, Levels(rvq, n) \in Seq(Book)
  PROVE  \E acc : /\ Forwarded(acc, rvq.in * x, Levels(rvq, n))
                  /\ ForwardLevels(rvq, n, x) = [x |-> rvq.out * acc.out, codes |-> acc.codes]
<1> DEFINE L == Levels(rvq, n)
           s == rvq.in * x
           g == CHOOSE k : IsForward(k, s, L)
<1>1. ForwardLevels(rvq, n, x) = [x |-> rvq.out * g[Len(L)].out, codes |-> g[Len(L)].codes]
  BY DEF ForwardLevels, IsForward
<1> HIDE DEF L, s
<1>2. L \in Seq(Book) /\ s \in Int
  BY DEF L, s
<1>3. Forwarded(g[Len(L)], s, L)
  BY <1>2, ForwardingFact
<1> HIDE DEF g
<1> QED
  BY <1>1, <1>3 DEF L, s

\* A quantizer with the first n of its layers in use.
Uses(rvq, n) ==
  /\ rvq.layers \in Seq(Book) /\ n \in 1 .. Len(rvq.layers)
  /\ rvq.in \in {1, 2} /\ rvq.out \in {1, 2}

LEMMA LevelsFact ==
  ASSUME NEW rvq, NEW n, Uses(rvq, n)
  PROVE  /\ Levels(rvq, n) \in Seq(Book) /\ Len(Levels(rvq, n)) = n /\ n \in Nat \ {0}
         /\ \A i \in 1 .. n : Levels(rvq, n)[i] = rvq.layers[i]
<1>1. n \in Nat \ {0} /\ n \in 0 .. Len(rvq.layers) /\ rvq.layers \in Seq(Book)
  BY LenProperties DEF Uses
<1>2. Levels(rvq, n) = SubSeq(rvq.layers, 1, n)
  BY <1>1 DEF Levels
<1> QED
  BY <1>1, <1>2, FirstOnes

\* There is a code for each level, and using fewer of them leaves out the last ones.
LEMMA EncodedFact ==
  ASSUME NEW rvq, NEW m, NEW n, Uses(rvq, m), Uses(rvq, n), m <= n, NEW x \in Int
  PROVE  /\ EncodeLevels(rvq, m, x) \in Seq(1 .. Bins) /\ Len(EncodeLevels(rvq, m, x)) = m
         /\ \A i \in 1 .. m : EncodeLevels(rvq, m, x)[i] = EncodeLevels(rvq, n, x)[i]
<1> DEFINE L == Levels(rvq, m)
           M == Levels(rvq, n)
           s == rvq.in * x
<1>1. s \in Int
  BY DEF Uses
<1>2. /\ L \in Seq(Book) /\ Len(L) = m /\ m \in Nat /\ M \in Seq(Book) /\ Len(M) = n /\ n \in Nat
      /\ \A i \in 1 .. m : L[i] = M[i]
  <2>1. /\ L \in Seq(Book) /\ Len(L) = m /\ m \in Nat /\ M \in Seq(Book) /\ Len(M) = n /\ n \in Nat
        /\ \A i \in 1 .. m : L[i] = rvq.layers[i]
        /\ \A i \in 1 .. n : M[i] = rvq.layers[i]
    BY LevelsFact
  <2> HIDE DEF L, M
  <2> QED
    BY <2>1
<1> HIDE DEF L, M, s
<1>3. PICK h : Steps(h, EncodeLevels(rvq, m, x), s, L)
  BY <1>1, <1>2, EncodesInSteps DEF L, s
<1>4. PICK k : Steps(k, EncodeLevels(rvq, n, x), s, M)
  BY <1>1, <1>2, EncodesInSteps DEF M, s
<1>5. \A i \in 1 .. m : EncodeLevels(rvq, m, x)[i] = EncodeLevels(rvq, n, x)[i]
  <2>1. Len(L) = m /\ Len(L) \in Nat /\ Len(M) \in Nat /\ Len(L) <= Len(M) /\ \A i \in 1 .. Len(L) : L[i] = M[i]
    BY <1>2
  <2> QED
    BY <1>3, <1>4, <2>1, SameSteps
<1> QED
  BY <1>2, <1>3, <1>5 DEF Steps

\* The codes decode as forward does on its way, and at each level no other code would
\* decode to something nearer.
LEMMA DecodedFact ==
  ASSUME NEW rvq, NEW n, Uses(rvq, n), NEW x \in Int
  PROVE  LET codes == EncodeLevels(rvq, n, x)
         IN  /\ ForwardLevels(rvq, n, x) = [x |-> DecodeLevels(rvq, codes), codes |-> codes]
             /\ DecodeLevels(rvq, codes) \in Int
             /\ \A k \in 1 .. n : \A d \in 1 .. Bins :
                  Distance(rvq.out * (rvq.in * x), DecodeLevels(rvq, SubSeq(codes, 1, k)))
                    <= Distance(rvq.out * (rvq.in * x), DecodeLevels(rvq, Append(SubSeq(codes, 1, k - 1), d)))
<1> DEFINE L == Levels(rvq, n)
           s == rvq.in * x
           c == EncodeLevels(rvq, n, x)
<1>1. s \in Int /\ rvq.layers \in Seq(Book) /\ n <= Len(rvq.layers) /\ rvq.out \in {1, 2}
  BY LenProperties DEF Uses
<1>2. L \in Seq(Book) /\ Len(L) = n /\ n \in Nat \ {0} /\ \A i \in 1 .. n : L[i] = rvq.layers[i]
  BY LevelsFact
<1> HIDE DEF L, s, c
<1>3. PICK h : Steps(h, c, s, L)
  BY <1>1, <1>2, EncodesInSteps DEF L, s, c
<1>4. PICK acc : Forwarded(acc, s, L) /\ ForwardLevels(rvq, n, x) = [x |-> rvq.out * acc.out, codes |-> acc.codes]
  BY <1>1, <1>2, ForwardsInSteps DEF L, s
<1>5. PICK k : Steps(k, acc.codes, s, L) /\ acc.out = s - k[Len(L)]
  BY <1>4 DEF Forwarded
<1>6. h[n] = k[n] /\ \A i \in 1 .. n : c[i] = acc.codes[i]
  <2>1. Len(L) = n /\ Len(L) \in Nat /\ Len(L) <= Len(L) /\ n \in 0 .. n
    BY <1>2
  <2>2. (\A i \in 0 .. n : h[i] = k[i]) /\ \A i \in 1 .. n : c[i] = acc.codes[i]
    BY <1>3, <1>5, <2>1, SameSteps
  <2> QED
    BY <2>1, <2>2
<1>7. c \in Seq(1 .. Bins) /\ Len(c) = n /\ acc.codes = c
  <2>1. c \in Seq(1 .. Bins) /\ Len(c) = n /\ acc.codes \in Seq(1 .. Bins) /\ Len(acc.codes) = n
    BY <1>2, <1>3, <1>5 DEF Steps
  <2> QED
    BY <1>6, <2>1, SeqEqual
<1>8. \A v : DecodeLevels(rvq, v) = rvq.out * CentroidSum(rvq.layers, v)
  BY DEF DecodeLevels, CentroidSum
<1>9. CentroidSum(rvq.layers, c) = s - h[n] /\ h[n] \in Int
  <2> DEFINE f == [i \in DOMAIN c |-> rvq.layers[i][c[i]]]
  <2>1. n \in 0 .. Len(L) /\ DOMAIN c = 1 .. n
    BY <1>2, <1>7, LenProperties
  <2>2. \A i \in 1 .. n : f[i] = L[i][c[i]]
    BY <1>2, <2>1
  <2> HIDE DEF f
  <2>3. SumTo(f, n) = s - h[n]
    BY <1>1, <1>2, <1>3, <2>1, <2>2, StepsSum
  <2>4. h[n] \in Int
    BY <1>3, <2>1 DEF Steps
  <2> QED
    BY <1>7, <2>3, <2>4 DEF CentroidSum, f
<1>10. acc.out = CentroidSum(rvq.layers, c) /\ acc.out \in Int
  BY <1>1, <1>2, <1>5, <1>6, <1>9
<1>11. ForwardLevels(rvq, n, x) = [x |-> DecodeLevels(rvq, c), codes |-> c]
  BY <1>4, <1>7, <1>8, <1>10
<1>12. DecodeLevels(rvq, c) \in Int
  <2>1. rvq.out * CentroidSum(rvq.layers, c) \in Int
    BY <1>1, <1>10
  <2> QED
    BY <1>8, <2>1
<1>13. ASSUME NEW j \in 1 .. n, NEW d \in 1 .. Bins
       PROVE  Distance(rvq.out * s, DecodeLevels(rvq, SubSeq(c, 1, j)))
                <= Distance(rvq.out * s, DecodeLevels(rvq, Append(SubSeq(c, 1, j - 1), d)))
  <2>1. Distance(rvq.out * s, rvq.out * CentroidSum(rvq.layers, SubSeq(c, 1, j)))
          <= Distance(rvq.out * s, rvq.out * CentroidSum(rvq.layers, Append(SubSeq(c, 1, j - 1), d)))
    BY <1>1, <1>2, <1>3, StepsGreedy
  <2> QED
    BY <1>8, <2>1
<1> QED
  BY <1>11, <1>12, <1>13 DEF c, s

-------------------------------------------------------------------------------
(* Those of the codec, of its weights w *)

Weights == [1 .. TotalCodebooks -> Book]

Semantic(w) == [in |-> 1, out |-> 2, layers |-> SubSeq(w, 1, NSemantic)]
Acoustic(w)  == [in |-> 2, out |-> 1, layers |-> SubSeq(w, NSemantic + 1, Len(w))]

CodesOf(w, x, m) ==
  EncodeLevels(Semantic(w), NSemantic, x) \o (IF m > 0 THEN EncodeLevels(Acoustic(w), m, x) ELSE <<>>)

DecodedOf(w, codes) ==
  DecodeLevels(Semantic(w), SubSeq(codes, 1, NSemantic))
    + (IF Len(codes) > NSemantic THEN DecodeLevels(Acoustic(w), SubSeq(codes, NSemantic + 1, Len(codes))) ELSE 0)

LEMMA FirstAndRest ==
  ASSUME NEW w \in Weights
  PROVE  /\ Uses(Semantic(w), NSemantic)
         /\ \A m \in 1 .. NAcoustic : Uses(Acoustic(w), m)
<1>1. NSemantic \in Nat \ {0} /\ NAcoustic \in Nat \ {0} /\ TotalCodebooks = NSemantic + NAcoustic
  BY QuantizerAssumption DEF TotalCodebooks
<1>2. w \in Seq(Book) /\ Len(w) = NSemantic + NAcoustic /\ \A i \in 1 .. NSemantic + NAcoustic : w[i] \in Book
  <2>1. TotalCodebooks \in Nat
    BY <1>1
  <2>2. w \in Seq(Book) /\ Len(w) = TotalCodebooks
    BY <2>1, LenProperties DEF Weights
  <2> QED
    BY <1>1, <2>2 DEF Weights
<1>3. Uses(Semantic(w), NSemantic)
  <2>1. NSemantic \in 0 .. Len(w)
    BY <1>1, <1>2
  <2>2. SubSeq(w, 1, NSemantic) \in Seq(Book) /\ Len(SubSeq(w, 1, NSemantic)) = NSemantic
    BY <1>2, <2>1, FirstOnes
  <2>3. NSemantic \in 1 .. NSemantic
    BY <1>1
  <2> QED
    BY <2>2, <2>3 DEF Uses, Semantic
<1>4. ASSUME NEW m \in 1 .. NAcoustic PROVE Uses(Acoustic(w), m)
  <2> DEFINE a == NSemantic + 1
             b == NSemantic + NAcoustic
             r == SubSeq(w, a, b)
  <2>1. a \in Int /\ b \in Int /\ a <= b /\ b - a + 1 = NAcoustic
    BY <1>1
  <2>2. \A i \in a .. b : w[i] \in Book
    BY <1>1, <1>2
  <2>3. r \in Seq(Book) /\ Len(r) = IF a <= b THEN b - a + 1 ELSE 0
    <3> HIDE DEF a, b
    <3> QED
      BY <2>1, <2>2, SubSeqProperties
  <2>4. Len(r) = NAcoustic
    <3> HIDE DEF a, b, r
    <3> QED
      BY <2>1, <2>3
  <2>5. Acoustic(w) = [in |-> 2, out |-> 1, layers |-> r]
    BY <1>2 DEF Acoustic
  <2> HIDE DEF r
  <2> QED
    BY <2>3, <2>4, <2>5 DEF Uses
<1> QED
  BY <1>3, <1>4

LEMMA Halves ==
  ASSUME NEW S, NEW A \in Seq(S), NEW C \in Seq(S)
  PROVE  /\ SubSeq(A \o C, 1, Len(A)) = A
         /\ SubSeq(A \o C, Len(A) + 1, Len(A \o C)) = C
<1>1. Len(A) \in Nat /\ Len(C) \in Nat /\ Len(A \o C) = Len(A) + Len(C)
  BY LenProperties, ConcatProperties
<1>2. SubSeq(A \o C, 1, Len(A)) = A
  BY SubSeqOfConcat1, SubSeqFull
<1>3. SubSeq(A \o C, Len(A) + 1, Len(A \o C)) = C
  BY <1>1, SubSeqOfConcat2, SubSeqFull
<1> QED
  BY <1>2, <1>3

\* The codes of the two, and how they divide.
LEMMA CodesFact ==
  ASSUME NEW w \in Weights, NEW x \in Int, NEW m \in 0 .. NAcoustic
  PROVE  LET a == EncodeLevels(Semantic(w), NSemantic, x)
             c == IF m > 0 THEN EncodeLevels(Acoustic(w), m, x) ELSE <<>>
         IN  /\ a \in Seq(1 .. Bins) /\ Len(a) = NSemantic /\ c \in Seq(1 .. Bins) /\ Len(c) = m
             /\ CodesOf(w, x, m) = a \o c /\ Len(CodesOf(w, x, m)) = NSemantic + m
             /\ SubSeq(CodesOf(w, x, m), 1, NSemantic) = a
             /\ SubSeq(CodesOf(w, x, m), NSemantic + 1, NSemantic + m) = c
<1> DEFINE a == EncodeLevels(Semantic(w), NSemantic, x)
           c == IF m > 0 THEN EncodeLevels(Acoustic(w), m, x) ELSE <<>>
<1>1. CodesOf(w, x, m) = a \o c
  BY DEF CodesOf
<1>2. NSemantic \in Nat \ {0} /\ NAcoustic \in Nat \ {0} /\ m \in Nat
  BY QuantizerAssumption
<1>3. a \in Seq(1 .. Bins) /\ Len(a) = NSemantic
  <2>1. Uses(Semantic(w), NSemantic) /\ NSemantic <= NSemantic
    BY <1>2, FirstAndRest
  <2> QED
    BY <2>1, EncodedFact
<1>4. c \in Seq(1 .. Bins) /\ Len(c) = m
  <2>1. CASE m > 0
    <3>1. Uses(Acoustic(w), m) /\ m <= m
      BY <1>2, <2>1, FirstAndRest
    <3>2. EncodeLevels(Acoustic(w), m, x) \in Seq(1 .. Bins) /\ Len(EncodeLevels(Acoustic(w), m, x)) = m
      BY <3>1, EncodedFact
    <3> QED
      BY <2>1, <3>2
  <2>2. CASE ~(m > 0)
    <3>1. c = <<>> /\ m = 0
      BY <1>2, <2>2
    <3> QED
      BY <3>1, EmptySeq
  <2> QED
    BY <2>1, <2>2
<1> HIDE DEF a, c
<1>5. Len(a \o c) = NSemantic + m
  BY <1>3, <1>4, ConcatProperties
<1>6. SubSeq(a \o c, 1, NSemantic) = a /\ SubSeq(a \o c, NSemantic + 1, NSemantic + m) = c
  BY <1>3, <1>4, <1>5, Halves
<1> QED
  BY <1>1, <1>3, <1>4, <1>5, <1>6 DEF a, c

\* With fewer codebooks the codes are the first of those of all of them.
LEMMA FewerFact ==
  ASSUME NEW w \in Weights, NEW x \in Int, NEW m \in 0 .. NAcoustic
  PROVE  CodesOf(w, x, m)
           = SubSeq(EncodeLevels(Semantic(w), NSemantic, x) \o EncodeLevels(Acoustic(w), NAcoustic, x), 1, NSemantic + m)
<1> DEFINE a == EncodeLevels(Semantic(w), NSemantic, x)
           b == EncodeLevels(Acoustic(w), NAcoustic, x)
           c == IF m > 0 THEN EncodeLevels(Acoustic(w), m, x) ELSE <<>>
<1>1. NSemantic \in Nat \ {0} /\ NAcoustic \in Nat \ {0} /\ m \in Nat /\ m <= NAcoustic
  BY QuantizerAssumption
<1>2. /\ a \in Seq(1 .. Bins) /\ Len(a) = NSemantic /\ c \in Seq(1 .. Bins) /\ Len(c) = m
      /\ CodesOf(w, x, m) = a \o c
  BY CodesFact
<1>3. b \in Seq(1 .. Bins) /\ Len(b) = NAcoustic /\ \A i \in 1 .. m : c[i] = b[i]
  <2>1. Uses(Acoustic(w), NAcoustic) /\ NAcoustic <= NAcoustic
    BY <1>1, FirstAndRest
  <2>2. b \in Seq(1 .. Bins) /\ Len(b) = NAcoustic
    BY <2>1, EncodedFact
  <2>3. CASE m > 0
    <3>1. Uses(Acoustic(w), m)
      BY <1>1, <2>3, FirstAndRest
    <3>2. \A i \in 1 .. m : EncodeLevels(Acoustic(w), m, x)[i] = EncodeLevels(Acoustic(w), NAcoustic, x)[i]
      BY <1>1, <2>1, <3>1, EncodedFact
    <3> QED
      BY <2>2, <2>3, <3>2
  <2>4. CASE ~(m > 0)
    BY <1>1, <2>2, <2>4
  <2> QED
    BY <2>3, <2>4
<1> HIDE DEF a, b, c
<1> DEFINE s == a \o c
           t == SubSeq(a \o b, 1, NSemantic + m)
<1>4. s \in Seq(1 .. Bins) /\ Len(s) = NSemantic + m
  BY <1>2, ConcatProperties
<1>5. a \o b \in Seq(1 .. Bins) /\ Len(a \o b) = NSemantic + NAcoustic
  BY <1>2, <1>3, ConcatProperties
<1>6. t \in Seq(1 .. Bins) /\ Len(t) = NSemantic + m /\ \A i \in 1 .. NSemantic + m : t[i] = (a \o b)[i]
  <2>1. NSemantic + m \in 0 .. Len(a \o b)
    BY <1>1, <1>5
  <2> QED
    BY <1>5, <2>1, FirstOnes
<1>7. ASSUME NEW i \in 1 .. NSemantic + m PROVE s[i] = t[i]
  <2>1. i \in 1 .. NSemantic + NAcoustic /\ i \in Nat
    BY <1>1
  <2>2. s[i] = IF i <= NSemantic THEN a[i] ELSE c[i - NSemantic]
    BY <1>2, ConcatProperties
  <2>3. (a \o b)[i] = IF i <= NSemantic THEN a[i] ELSE b[i - NSemantic]
    BY <1>2, <1>3, <2>1, ConcatProperties
  <2>4. t[i] = (a \o b)[i]
    BY <1>6
  <2> HIDE DEF s, t
  <2>5. CASE i <= NSemantic
    BY <2>2, <2>3, <2>4, <2>5
  <2>6. CASE ~(i <= NSemantic)
    <3>1. i - NSemantic \in 1 .. m
      BY <1>1, <2>1, <2>6
    <3> QED
      BY <1>3, <2>2, <2>3, <2>4, <2>6, <3>1
  <2> QED
    BY <2>5, <2>6
<1>8. s = t
  <2> HIDE DEF s, t
  <2> QED
    BY <1>4, <1>6, <1>7, SeqEqual
<1> QED
  BY <1>2, <1>8 DEF a, b

ForwardOf(w, x, m) ==
  LET semantic == ForwardLevels(Semantic(w), NSemantic, x)
      acoustic == ForwardLevels(Acoustic(w), m, x)
  IN IF m = 0 THEN semantic ELSE [x |-> semantic.x + acoustic.x, codes |-> semantic.codes \o acoustic.codes]

LEMMA ForwardAgrees ==
  ASSUME NEW w \in Weights, NEW x \in Int, NEW m \in 0 .. NAcoustic
  PROVE  ForwardOf(w, x, m) = [x |-> DecodedOf(w, CodesOf(w, x, m)), codes |-> CodesOf(w, x, m)]
<1> DEFINE a == EncodeLevels(Semantic(w), NSemantic, x)
           b == EncodeLevels(Acoustic(w), m, x)
           c == IF m > 0 THEN b ELSE <<>>
           e == DecodeLevels(Semantic(w), a)
           f == DecodeLevels(Acoustic(w), b)
           all == CodesOf(w, x, m)
<1>1. NSemantic \in Nat \ {0} /\ m \in Nat
  BY QuantizerAssumption
<1>2. /\ a \in Seq(1 .. Bins) /\ all = a \o c /\ Len(all) = NSemantic + m
      /\ SubSeq(all, 1, NSemantic) = a /\ SubSeq(all, NSemantic + 1, NSemantic + m) = c
  BY CodesFact
<1>3. ForwardLevels(Semantic(w), NSemantic, x) = [x |-> e, codes |-> a] /\ e \in Int
  BY FirstAndRest, DecodedFact
<1>4. CASE m > 0
  <2>1. Uses(Acoustic(w), m)
    BY <1>1, <1>4, FirstAndRest
  <2>2. ForwardLevels(Acoustic(w), m, x) = [x |-> f, codes |-> b]
    BY <2>1, DecodedFact
  <2>3. m # 0 /\ c = b /\ Len(all) > NSemantic
    BY <1>1, <1>2, <1>4
  <2> HIDE DEF a, b, c, e, f, all
  <2>4. ForwardOf(w, x, m) = [x |-> e + f, codes |-> a \o b]
    BY <1>3, <2>2, <2>3 DEF ForwardOf
  <2>5. DecodedOf(w, all) = e + f
    BY <1>2, <2>3 DEF DecodedOf, e, f
  <2>6. ForwardOf(w, x, m) = [x |-> DecodedOf(w, all), codes |-> all]
    BY <1>2, <2>3, <2>4, <2>5
  <2> QED
    BY <2>6 DEF all
<1>5. CASE ~(m > 0)
  <2>1. m = 0 /\ c = <<>>
    BY <1>1, <1>5
  <2>2. Len(all) = NSemantic /\ ~(Len(all) > NSemantic)
    BY <1>1, <1>2, <2>1
  <2> HIDE DEF a, b, c, e, f, all
  <2>3. all = a
    BY <1>2, <2>1, ConcatEmptySeq
  <2>4. ForwardOf(w, x, m) = [x |-> e, codes |-> a]
    BY <1>3, <2>1 DEF ForwardOf
  <2>5. DecodedOf(w, all) = e + 0
    BY <1>2, <2>2 DEF DecodedOf, e
  <2>6. e + 0 = e
    BY <1>3
  <2>7. ForwardOf(w, x, m) = [x |-> DecodedOf(w, all), codes |-> all]
    BY <2>3, <2>4, <2>5, <2>6
  <2> QED
    BY <2>7 DEF all
<1> QED
  BY <1>4, <1>5

\* At each level no other code would decode to something nearer.
GreedyCodes(rvq, x, codes) ==
  \A k \in DOMAIN codes : \A c \in 1 .. Bins :
    Distance(rvq.out * rvq.in * x, DecodeLevels(rvq, SubSeq(codes, 1, k)))
      <= Distance(rvq.out * rvq.in * x, DecodeLevels(rvq, Append(SubSeq(codes, 1, k - 1), c)))

LEMMA GreedyFact ==
  ASSUME NEW rvq, NEW n, Uses(rvq, n), NEW x \in Int
  PROVE  GreedyCodes(rvq, x, EncodeLevels(rvq, n, x))
<1> DEFINE codes == EncodeLevels(rvq, n, x)
<1>1. n \in Nat /\ n <= n
  BY LevelsFact
<1>2. codes \in Seq(1 .. Bins) /\ Len(codes) = n
  BY <1>1, EncodedFact
<1>3. \A k \in 1 .. n : \A c \in 1 .. Bins :
        Distance(rvq.out * (rvq.in * x), DecodeLevels(rvq, SubSeq(codes, 1, k)))
          <= Distance(rvq.out * (rvq.in * x), DecodeLevels(rvq, Append(SubSeq(codes, 1, k - 1), c)))
  BY DecodedFact
<1> HIDE DEF codes
<1>4. DOMAIN codes = 1 .. n
  BY <1>2, LenProperties
<1>5. rvq.out * rvq.in * x = rvq.out * (rvq.in * x)
  <2>1. rvq.in \in {1, 2} /\ rvq.out \in {1, 2}
    BY DEF Uses
  <2>2. ASSUME NEW i \in {1, 2}, NEW o \in {1, 2} PROVE o * i * x = o * (i * x)
    <3>1. i = 1 \/ i = 2
      OBVIOUS
    <3>2. o = 1 \/ o = 2
      OBVIOUS
    <3> QED
      BY <3>1, <3>2
  <2> QED
    BY <2>1, <2>2
<1>6. GreedyCodes(rvq, x, codes)
  BY <1>3, <1>4, <1>5 DEF GreedyCodes
<1> QED
  BY <1>6 DEF codes

\* What Quantize keeps is right, whatever the weights, the latent and the codebooks in use.
Records(q, w, x, m) ==
  q = [latent |-> x, n |-> NSemantic + m, codes |-> CodesOf(w, x, m), decoded |-> DecodedOf(w, CodesOf(w, x, m))]

LEMMA RecordsIsSound ==
  ASSUME NEW w \in Weights, NEW x \in Int, NEW m \in 0 .. NAcoustic, NEW q, Records(q, w, x, m)
  PROVE  /\ q.codes = SubSeq(EncodeLevels(Semantic(w), NSemantic, x) \o EncodeLevels(Acoustic(w), NAcoustic, x), 1, q.n)
         /\ ForwardOf(w, x, m) = [x |-> q.decoded, codes |-> q.codes]
         /\ GreedyCodes(Semantic(w), x, SubSeq(q.codes, 1, NSemantic))
         /\ GreedyCodes(Acoustic(w), x, SubSeq(q.codes, NSemantic + 1, q.n))
<1> DEFINE all == CodesOf(w, x, m)
<1>1. q.codes = all /\ q.n = NSemantic + m /\ q.decoded = DecodedOf(w, all)
  BY DEF Records
<1>2. all = SubSeq(EncodeLevels(Semantic(w), NSemantic, x) \o EncodeLevels(Acoustic(w), NAcoustic, x), 1, NSemantic + m)
  BY FewerFact
<1>3. ForwardOf(w, x, m) = [x |-> DecodedOf(w, all), codes |-> all]
  BY ForwardAgrees
<1>4. /\ SubSeq(all, 1, NSemantic) = EncodeLevels(Semantic(w), NSemantic, x)
      /\ SubSeq(all, NSemantic + 1, NSemantic + m) = IF m > 0 THEN EncodeLevels(Acoustic(w), m, x) ELSE <<>>
  BY CodesFact
<1> HIDE DEF all
<1>5. GreedyCodes(Semantic(w), x, SubSeq(all, 1, NSemantic))
  BY <1>4, FirstAndRest, GreedyFact
<1>6. GreedyCodes(Acoustic(w), x, SubSeq(all, NSemantic + 1, NSemantic + m))
  <2>1. CASE m > 0
    <3>1. Uses(Acoustic(w), m)
      BY <2>1, FirstAndRest
    <3> QED
      BY <1>4, <2>1, <3>1, GreedyFact
  <2>2. CASE ~(m > 0)
    <3>1. SubSeq(all, NSemantic + 1, NSemantic + m) = <<>>
      BY <1>4, <2>2
    <3>2. DOMAIN <<>> = {}
      OBVIOUS
    <3> QED
      BY <3>1, <3>2 DEF GreedyCodes
  <2> QED
    BY <2>1, <2>2
<1> QED
  BY <1>1, <1>2, <1>3, <1>5, <1>6

-------------------------------------------------------------------------------
(* The invariant *)

Took(q, w) == \E x \in Int, m \in 0 .. NAcoustic : Records(q, w, x, m)

\* What was quantized last was so with these weights, and some of the codebooks.
QuantizerIInv ==
  /\ codebooks \in Weights /\ nq \in 0 .. NAcoustic
  /\ quantized = NotYet \/ Took(quantized, codebooks)

LEMMA OfTheCodec ==
  ASSUME codebooks \in Weights, nq \in 0 .. NAcoustic, NEW x \in Int
  PROVE  /\ RvqFirst = Semantic(codebooks) /\ RvqRest = Acoustic(codebooks)
         /\ NumCodebooks = NSemantic + nq
         /\ EncodeSplit(x) = CodesOf(codebooks, x, nq)
         /\ DecodeSplit(EncodeSplit(x)) = DecodedOf(codebooks, CodesOf(codebooks, x, nq))
         /\ ForwardSplit(x) = ForwardOf(codebooks, x, nq)
<1>1. RvqFirst = Semantic(codebooks) /\ RvqRest = Acoustic(codebooks)
  BY DEF RvqFirst, RvqRest, Semantic, Acoustic
<1>2. NSemantic \in Nat /\ NumCodebooks = NSemantic + nq
  BY QuantizerAssumption DEF NumCodebooks
<1>3. EncodeSplit(x) = CodesOf(codebooks, x, nq)
  <2>1. (NumCodebooks > NSemantic) <=> nq > 0
    BY <1>2
  <2> QED
    BY <1>1, <2>1 DEF EncodeSplit, CodesOf
<1>4. \A codes : DecodeSplit(codes) = DecodedOf(codebooks, codes)
  BY <1>1 DEF DecodeSplit, DecodedOf
<1>5. ForwardSplit(x) = ForwardOf(codebooks, x, nq)
  <2>1. (NumCodebooks = NSemantic) <=> nq = 0
    BY <1>2
  <2> QED
    BY <1>1, <2>1 DEF ForwardSplit, ForwardOf
<1> QED
  BY <1>1, <1>2, <1>3, <1>4, <1>5

LEMMA QuantizerIsSound == QuantizerIInv => CodesAreSound
<1> SUFFICES ASSUME QuantizerIInv, quantized.n > 0 PROVE CodesAreSound
  BY DEF CodesAreSound
<1>1. quantized # NotYet
  BY DEF NotYet
<1>2. codebooks \in Weights /\ nq \in 0 .. NAcoustic /\ Took(quantized, codebooks)
  BY <1>1 DEF QuantizerIInv
<1>3. PICK x \in Int, m \in 0 .. NAcoustic : Records(quantized, codebooks, x, m)
  BY <1>2 DEF Took
<1>4. quantized.latent = x /\ quantized.n = NSemantic + m
  BY <1>3 DEF Records
<1> DEFINE full == EncodeLevels(RvqFirst, NSemantic, x) \o EncodeLevels(RvqRest, NAcoustic, x)
<1>5. RvqFirst = Semantic(codebooks) /\ RvqRest = Acoustic(codebooks)
  BY <1>2, OfTheCodec
<1>6. /\ quantized.codes = SubSeq(full, 1, quantized.n)
      /\ ForwardOf(codebooks, x, m) = [x |-> quantized.decoded, codes |-> quantized.codes]
      /\ GreedyCodes(RvqFirst, x, SubSeq(quantized.codes, 1, NSemantic))
      /\ GreedyCodes(RvqRest, x, SubSeq(quantized.codes, NSemantic + 1, quantized.n))
  <2>1. /\ quantized.codes = SubSeq(EncodeLevels(Semantic(codebooks), NSemantic, x)
                                      \o EncodeLevels(Acoustic(codebooks), NAcoustic, x), 1, quantized.n)
        /\ ForwardOf(codebooks, x, m) = [x |-> quantized.decoded, codes |-> quantized.codes]
        /\ GreedyCodes(Semantic(codebooks), x, SubSeq(quantized.codes, 1, NSemantic))
        /\ GreedyCodes(Acoustic(codebooks), x, SubSeq(quantized.codes, NSemantic + 1, quantized.n))
    BY <1>2, <1>3, RecordsIsSound, Zenon
  <2> QED
    BY <1>5, <2>1
<1>7. ASSUME NumCodebooks = quantized.n
      PROVE  ForwardSplit(x) = [x |-> quantized.decoded, codes |-> quantized.codes]
  <2>1. nq = m
    <3>1. NumCodebooks = NSemantic + nq /\ NSemantic \in Nat /\ nq \in Nat /\ m \in Nat
      BY <1>2, OfTheCodec, QuantizerAssumption
    <3> QED
      BY <1>4, <1>7, <3>1
  <2>2. ForwardSplit(x) = ForwardOf(codebooks, x, nq)
    BY <1>2, OfTheCodec
  <2> QED
    BY <1>6, <2>1, <2>2
<1> DEFINE y == quantized.latent
<1>8. /\ quantized.codes = SubSeq(EncodeLevels(RvqFirst, NSemantic, y) \o EncodeLevels(RvqRest, NAcoustic, y), 1, quantized.n)
      /\ NumCodebooks = quantized.n => ForwardSplit(y) = [x |-> quantized.decoded, codes |-> quantized.codes]
      /\ GreedyCodes(RvqFirst, y, SubSeq(quantized.codes, 1, NSemantic))
      /\ GreedyCodes(RvqRest, y, SubSeq(quantized.codes, NSemantic + 1, quantized.n))
  BY <1>4, <1>6, <1>7
<1> QED
  BY <1>8 DEF CodesAreSound, GreedyCodes

LEMMA QuantizerStarts == QuantizerInit => QuantizerIInv
<1> SUFFICES ASSUME QuantizerInit PROVE QuantizerIInv
  OBVIOUS
<1>1. Centroids \subseteq Int
  BY QuantizerAssumption DEF Centroids
<1>2. [1 .. Bins -> Centroids] \subseteq Book
  BY <1>1 DEF Book
<1>3. codebooks \in Weights
  BY <1>2 DEF QuantizerInit, Weights
<1>4. nq \in 0 .. NAcoustic /\ quantized = NotYet
  BY QuantizerAssumption DEF QuantizerInit
<1> QED
  BY <1>3, <1>4 DEF QuantizerIInv

LEMMA SetNumCodebooksKeeps ==
  ASSUME QuantizerIInv, NEW n, SetNumCodebooks(n)
  PROVE  QuantizerIInv'
<1>1. codebooks \in Weights /\ codebooks' = codebooks /\ quantized' = quantized
  BY DEF QuantizerIInv, SetNumCodebooks
<1>2. nq' \in 0 .. NAcoustic
  <2>1. n \in NSemantic .. TotalCodebooks /\ nq' = n - NSemantic
    BY DEF SetNumCodebooks
  <2> QED
    BY <2>1, QuantizerAssumption DEF TotalCodebooks
<1>3. codebooks' \in Weights
  BY <1>1
<1>4. quantized = NotYet \/ Took(quantized, codebooks)
  BY DEF QuantizerIInv
<1>5. quantized' = NotYet \/ Took(quantized', codebooks')
  BY <1>1, <1>4
<1> QED
  BY <1>2, <1>3, <1>5 DEF QuantizerIInv, NotYet

LEMMA QuantizeKeeps ==
  ASSUME QuantizerIInv, NEW x \in Latents, Quantize(x)
  PROVE  QuantizerIInv'
<1>1. x \in Int
  BY QuantizerAssumption DEF Latents
<1>2. codebooks \in Weights /\ nq \in 0 .. NAcoustic /\ codebooks' = codebooks /\ nq' = nq
  BY DEF QuantizerIInv, Quantize
<1>3. Records(quantized', codebooks, x, nq)
  <2>1. quantized' = [latent |-> x, n |-> NumCodebooks, codes |-> EncodeSplit(x),
                      decoded |-> DecodeSplit(EncodeSplit(x))]
    BY DEF Quantize
  <2> QED
    BY <1>1, <1>2, <2>1, OfTheCodec DEF Records
<1>4. Took(quantized', codebooks)
  BY <1>1, <1>2, <1>3 DEF Took
<1>5. codebooks' \in Weights /\ nq' \in 0 .. NAcoustic /\ Took(quantized', codebooks')
  BY <1>2, <1>4
<1> QED
  BY <1>5 DEF QuantizerIInv

LEMMA QuantizerStutters ==
  ASSUME QuantizerIInv, UNCHANGED quantizerVars PROVE QuantizerIInv'
<1>1. codebooks' = codebooks /\ nq' = nq /\ quantized' = quantized
  BY DEF quantizerVars
<1>2. codebooks \in Weights /\ nq \in 0 .. NAcoustic /\ (quantized = NotYet \/ Took(quantized, codebooks))
  BY DEF QuantizerIInv
<1>3. codebooks' \in Weights /\ nq' \in 0 .. NAcoustic /\ (quantized' = NotYet \/ Took(quantized', codebooks'))
  BY <1>1, <1>2
<1> QED
  BY <1>3 DEF QuantizerIInv, NotYet

\* Fewer codebooks change none of the codes that stay, the codes decode as forward does
\* on its way, and at each level no other code would decode to something nearer
\* (SplitResidualVectorQuantizer, EuclideanCodebook._quantize).
THEOREM CodesAreSoundHolds == QuantizerSpec => []CodesAreSound
<1>1. QuantizerIInv /\ [QuantizerNext]_quantizerVars => QuantizerIInv'
  <2> SUFFICES ASSUME QuantizerIInv, [QuantizerNext]_quantizerVars PROVE QuantizerIInv'
    OBVIOUS
  <2>1. CASE \E n \in NSemantic .. TotalCodebooks : SetNumCodebooks(n)
    BY <2>1, SetNumCodebooksKeeps
  <2>2. CASE \E x \in Latents : Quantize(x)
    BY <2>2, QuantizeKeeps
  <2>3. CASE UNCHANGED quantizerVars
    BY <2>3, QuantizerStutters
  <2> QED
    BY <2>1, <2>2, <2>3 DEF QuantizerNext
<1> QED
  BY <1>1, QuantizerStarts, QuantizerIsSound, PTL DEF QuantizerSpec
===============================================================================
