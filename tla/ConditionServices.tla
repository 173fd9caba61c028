--------------------------- MODULE ConditionServices ---------------------------
(***************************************************************************)
(* Who conditions the language model on what.  A behaviour is one of:      *)
(*   provider   a batch through ConditionProvider and ConditionFuser, as a *)
(*              model configures them;                                     *)
(*   start      get_condition_tensors and LMGen._init_streaming_state, as  *)
(*              the servers of Moshi and Hibiki start;                     *)
(*   reference  a text to the encoder service (server_conditioner.py), the *)
(*              tensor to the slot of the batch that asked for it, and the *)
(*              steps of the batch, which add one vector each;             *)
(*   voices     the keys of the cross attention of the speech server       *)
(*              (rust/moshi-server/tts.py), replaced for the rows whose    *)
(*              client is new.                                             *)
(***************************************************************************)
EXTENDS Conditioners, TLC

CONSTANTS
  BatchRows,   \* rows of the batch: 1 .. n
  Pool,        \* of the ARC encoder, whose compress_rates[0] is -Pool
  MaxTokens,   \* bound on the tokens of a text
  MaxSpeakers  \* of make_condition_attributes

ASSUME ServicesAssumption ==
  /\ BatchRows = 1 .. Cardinality(BatchRows) /\ Pool \in Nat \ {0}
  /\ MaxTokens \in Nat /\ MaxSpeakers \in Nat \ {0}

VARIABLES
  role,    \* which of the four
  model,   \* the conditioners and the fuser it is configured with
  samples, \* the batch that was conditioned
  given,   \* what the fuser made of it, for each method
  text,    \* the reference of each slot
  pending, \* pending_streaming_sums, the rows of a tensor
  heard,   \* the vectors added for it, one for each step since
  voice,   \* the voice each client asked for
  keys     \* k_cross and v_cross, for the batch and then its null half

servicesVars == <<role, model, samples, given, text, pending, heard, voice, keys>>

Lut(learnt) == [kind |-> "lut", learnt |-> learnt, rate |-> -1]
T5          == [kind |-> "t5", learnt |-> TRUE, rate |-> -1]
Arc(rate)   == [kind |-> "arc", learnt |-> TRUE, rate |-> rate]
Wav         == [kind |-> "tensor", learnt |-> TRUE, rate |-> -1]

Unfused == [m \in Methods |-> <<>>]
NoTensor == <<>>

-------------------------------------------------------------------------------
(* provider *)

\* A value, a text and a recording, each fused by a method it may be fused by.
ProviderModels ==
  {[conditioners |-> ("genre" :> Lut(learnt)) @@ ("description" :> T5) @@ ("wav" :> Wav),
    fuser |-> [m \in Methods |->
                 (IF m = genre THEN <<"genre">> ELSE <<>>)
                 \o (IF m = description THEN <<"description">> ELSE <<>>)
                 \o (IF m = wav THEN <<"wav">> ELSE <<>>)]] :
     learnt \in BOOLEAN, genre \in {"sum", "prepend"},
     description \in {"prepend", "cross", "streaming_sum"}, wav \in {"cross", "streaming_sum"}}

Recording(n) == [cond |-> [i \in 1 .. n |-> {<<"wav", n, i>>}], mask |-> [i \in 1 .. n |-> TRUE]]

Samples ==
  {[text |-> ("genre" :> g) @@ ("description" :> d), tensor |-> "wav" :> w] :
     g \in {NoText, <<"rock", 1>>}, d \in {NoText, EmptyText, <<"a song", 2>>},
     w \in {Recording(1), Recording(2)}}

\* dropout_all_conditions may follow.
ProviderInit ==
  /\ role = "provider" /\ model \in ProviderModels
  /\ \E x \in [BatchRows -> Samples], nulls \in BOOLEAN :
       samples = IF nulls THEN WithNulls(x) ELSE x
  /\ given = Unfused

-------------------------------------------------------------------------------
(* start *)

\* get_moshi: with an encoder service, the model is loaded without this one.
Skipped(m, name) ==
  [conditioners |-> [n \in DOMAIN m.conditioners \ {name} |-> m.conditioners[n]],
   fuser |-> [k \in Methods |-> SelectSeq(m.fuser[k], LAMBDA n : n # name)]]

MoshiModel(speaker) ==
  [conditioners |-> ("reference_with_time" :> Arc(-Pool)) @@ ("first_speaker" :> Lut(TRUE)),
   fuser |-> [m \in Methods |-> IF m = "streaming_sum" THEN <<"reference_with_time">>
                                ELSE IF m = speaker THEN <<"first_speaker">> ELSE <<>>]]

HibikiModel ==
  [conditioners |-> "description" :> Lut(TRUE),
   fuser |-> [m \in Methods |-> IF m = "sum" THEN <<"description">> ELSE <<>>]]

\* get_condition_tensors: of "moshi", without a reference yet, and of "hibiki".
MoshiSamples(b, speaker) ==
  [r \in 1 .. b |-> [text |-> ("reference_with_time" :> EmptyText) @@ ("first_speaker" :> speaker),
                     tensor |-> [n \in {} |-> NoTensor]]]

Described(value) == [text |-> "description" :> value, tensor |-> [n \in {} |-> NoTensor]]
HibikiSamples(b, cfg) ==
  [r \in 1 .. b |-> Described(<<"very_good", 1>>)]
    \o (IF cfg THEN [r \in 1 .. b |-> Described(<<"very_bad", 1>>)] ELSE <<>>)

\* The ARC encoder takes a batch of one; with a service, any.
StartInit ==
  /\ role = "start" /\ given = Unfused
  /\ \/ \E speaker \in {<<"SPEAKER_MAIN", 1>>, <<"SPEAKER_OTHER", 1>>}, method \in {"sum", "prepend"} :
          \/ /\ model = MoshiModel(method) /\ samples = MoshiSamples(1, speaker)
          \/ /\ model = Skipped(MoshiModel(method), "reference_with_time")
             /\ samples = MoshiSamples(Cardinality(BatchRows), speaker)
     \/ /\ model = HibikiModel
        /\ \E cfg \in BOOLEAN : samples = HibikiSamples(Cardinality(BatchRows), cfg)

\* _init_streaming_state, with force_streaming_sum, as load_models has it for Moshi.
Forced(fused) ==
  IF fused["streaming_sum"] = <<>> \/ Positions(fused["streaming_sum"]) = 0
  THEN [fused EXCEPT !["streaming_sum"] = [r \in DOMAIN samples |-> <<Zero>>]] ELSE fused

StartsMoshi == role = "start" /\ model # HibikiModel

\* The texts of a model without text conditioners go unread.
ConditionBatch ==
  /\ role \in {"provider", "start"} /\ given = Unfused
  /\ BatchIsLegal(model, samples) /\ EveryInputGiven(model, samples)
  /\ LET tensors == ConditionTensors(model, samples)
     IN /\ SumIsLegal(model, tensors)
        /\ given' = IF StartsMoshi THEN Forced(Fuse(model, tensors)) ELSE Fuse(model, tensors)
  /\ UNCHANGED <<role, model, samples, text, pending, heard, voice, keys>>

\* LMModel.forward_text of one step refuses another number of vectors; it adds
\* the sum and the streaming one to the input, which here stands for itself.
ForwardTextIsLegal(fused) ==
  /\ Positions(fused["streaming_sum"]) \in {0, 1}
  /\ DOMAIN fused["streaming_sum"] = DOMAIN samples

Input(r) == {<<"input", r>>}
AddedToInput(fused, r) ==
  Input(r) \cup UNION {UNION {fused[m][r][i] : i \in DOMAIN fused[m][r]} : m \in {"sum", "streaming_sum"}}

-------------------------------------------------------------------------------
(* reference *)

\* subset_lm_config_conditioners: the service has this conditioner only.
EncoderModel(conditioner) ==
  [conditioners |-> "reference_with_time" :> conditioner,
   fuser |-> [m \in Methods |-> IF m = "streaming_sum" THEN <<"reference_with_time">> ELSE <<>>]]

ReferenceInit ==
  /\ role = "reference" /\ model \in {EncoderModel(Arc(rate)) : rate \in {-Pool, Pool, 0}} \cup {EncoderModel(T5)}
  /\ samples = <<>> /\ given = Unfused

\* EncoderService.encode
Encode(t) ==
  LET one == <<[text |-> "reference_with_time" :> t, tensor |-> [n \in {} |-> NoTensor]]>>
  IN Fuse(model, ConditionTensors(model, one))["streaming_sum"]

\* get_conditioning_remote_async: what the service answers, of its batch of one.
Fetched(t) == Encode(t)[1]

\* Channel._async_update_reference, which gives it to update_streaming_sum_tensors for
\* the slot; whatever was left of the reference before is gone.
UpdateReference(b, t) ==
  /\ role = "reference"
  /\ text' = [text EXCEPT ![b] = t]
  /\ pending' = [pending EXCEPT ![b] = Fetched(t)]
  /\ heard' = [heard EXCEPT ![b] = <<>>]
  /\ UNCHANGED <<role, model, samples, given, voice, keys>>

\* Mutant: the last vector of a reference is not added.
AppliedButLast(rows) == IF Len(rows) > 1 THEN Head(rows) ELSE Zero

Applied(rows) == IF rows # <<>> THEN Head(rows) ELSE Zero

\* apply_pending_streaming_sum_condition, in a step of these slots.  Once there
\* is no reference left, what is added is zero, and heard is kept as it is.
BatchStep(mask) ==
  /\ role = "reference" /\ \E b \in mask : pending[b] # <<>>
  /\ heard' = [b \in BatchRows |-> IF b \in mask /\ pending[b] # <<>>
                               THEN Append(heard[b], Applied(pending[b])) ELSE heard[b]]
  /\ pending' = [b \in BatchRows |-> IF b \in mask /\ pending[b] # <<>> THEN Tail(pending[b]) ELSE pending[b]]
  /\ UNCHANGED <<role, model, samples, given, text, voice, keys>>

-------------------------------------------------------------------------------
(* voices *)

TTSConditions ==
  [conditioners |-> ("speaker_wavs" :> Wav) @@ ("control" :> Lut(TRUE)) @@ ("cfg" :> Lut(TRUE)),
   fuser |-> [m \in Methods |-> CASE m = "cross" -> <<"speaker_wavs">>
                                  [] m = "sum" -> <<"control", "cfg">> [] OTHER -> <<>>]]

Frames == 2 \* of a voice
DefaultVoice == "default"
Known   == {DefaultVoice, "known"}  \* all_attributes: their sources are cached
Custom  == {"mine", "yours"}        \* sent by the client
Voices  == Known \cup Custom \cup {"unknown"}
VoiceOf(v) == IF v = "unknown" THEN DefaultVoice ELSE v

\* make_condition_attributes, of one voice: the other speakers are not there.
VoiceAttributes(v) ==
  [text |-> ("control" :> <<"ok", 1>>) @@ ("cfg" :> NoText),
   tensor |-> "speaker_wavs" :>
     [cond |-> [i \in 1 .. MaxSpeakers * Frames |-> IF i <= Frames THEN {<<"voice", v, i>>} ELSE Zero],
      mask |-> [i \in 1 .. MaxSpeakers * Frames |-> i <= Frames]]]

\* _get_cross_attention_source
CrossSource(attributes) == GetCross(TTSConditions, ConditionTensors(TTSConditions, attributes))

\* __post_init__: the first step fills the keys with those of the default voice,
\* and with the null conditions, if there is guidance.
VoicesInit ==
  /\ role = "voices" /\ model = TTSConditions /\ given = Unfused
  /\ \E guided \in BOOLEAN :
       LET default == [r \in BatchRows |-> VoiceAttributes(DefaultVoice)]
       IN samples = IF guided THEN WithNulls(default) ELSE default
  /\ keys = CrossSource(samples)

InOrder(rows) == SetToSortSeq(rows, <)

\* Mutant: the rows of the voices to compute come first, their sources last.
IndexesSwapped(cached, computed) == computed \o cached

Indexes(cached, computed) == cached \o computed

\* A step with these new clients: the cached sources, then those to compute.
NewVoices(asked) ==
  LET cached   == InOrder({r \in DOMAIN asked : asked[r] \notin Custom})
      computed == InOrder({r \in DOMAIN asked : asked[r] \in Custom})
      sources  == [i \in DOMAIN cached |-> CrossSource(<<VoiceAttributes(VoiceOf(asked[cached[i]]))>>)[1]]
                  \o [i \in DOMAIN computed |-> CrossSource(<<VoiceAttributes(asked[computed[i]])>>)[1]]
      indexes  == Indexes(cached, computed)
  IN /\ role = "voices"
     /\ voice' = [r \in BatchRows |-> IF r \in DOMAIN asked THEN asked[r] ELSE voice[r]]
     /\ keys' = [r \in DOMAIN keys |->
                   IF \E i \in DOMAIN indexes : indexes[i] = r
                   THEN sources[CHOOSE i \in DOMAIN indexes : indexes[i] = r] ELSE keys[r]]
     /\ UNCHANGED <<role, model, samples, given, text, pending, heard>>

-------------------------------------------------------------------------------

ServicesInit ==
  /\ \/ (ProviderInit \/ StartInit \/ ReferenceInit) /\ keys = <<>>
     \/ VoicesInit
  /\ text = [b \in BatchRows |-> NoText]
  /\ pending = [b \in BatchRows |-> <<>>] /\ heard = [b \in BatchRows |-> <<>>]
  /\ voice = [b \in BatchRows |-> DefaultVoice]

References == {EmptyText} \cup {<<"a reference", n>> : n \in 1 .. MaxTokens}

ServicesNext ==
  \/ ConditionBatch
  \/ \E b \in BatchRows, t \in References : UpdateReference(b, t)
  \/ \E mask \in SUBSET BatchRows : BatchStep(mask)
  \/ \E rows \in SUBSET BatchRows \ {{}} : \E asked \in [rows -> Voices] : NewVoices(asked)

-------------------------------------------------------------------------------
(* What a sample alone says, whatever the rest of the batch *)

Said(name, sample) ==
  LET c == model.conditioners[name]
  IN IF c.kind = "tensor"
     THEN SelectSeq(sample.tensor[name].cond, LAMBDA v : v # Zero)
     ELSE IF c.kind = "lut"
     THEN (IF sample.text[name] = NoText THEN <<>> ELSE <<Spoken(name, sample.text[name], 1)>>)
     ELSE [i \in 1 .. TokensOf(sample.text[name]) |-> Spoken(name, sample.text[name], i)]

InTurn(names, sample) == FlattenSeq([k \in DOMAIN names |-> Said(names[k], sample)])

At(names, sample, i) ==
  UNION {IF i <= Len(Said(names[k], sample)) THEN Said(names[k], sample)[i] ELSE Zero : k \in DOMAIN names}

There(row) == SelectSeq(row, LAMBDA v : v # Zero)

\* Each row is conditioned on its own sample and on nothing else: not on a longer
\* neighbour's, not on padding, and a null one not at all.
FusedIsOwn ==
  (role \in {"provider", "start"} /\ given # Unfused) =>
    \A r \in DOMAIN samples :
      LET names == model.fuser
          sum == At(names["sum"], samples[r], 1)
      IN /\ There(given["cross"][r]) = InTurn(names["cross"], samples[r])
         /\ There(given["sum"][r]) = There(<<sum>>)
         /\ There([i \in DOMAIN given["prepend"][r] |-> given["prepend"][r][i] \ sum])
              = InTurn(Reverse(names["prepend"]), samples[r])
         /\ \A i \in DOMAIN given["prepend"][r] : sum \subseteq given["prepend"][r][i]
         /\ \A i \in DOMAIN given["streaming_sum"][r] :
              given["streaming_sum"][r][i] = At(names["streaming_sum"], samples[r], i)

\* The model can take its first step before there is any reference: every row has
\* a place for one vector, silent so far, and its input is changed by the row's own
\* sum and by nothing else.
StartsWithOneVector ==
  (StartsMoshi /\ given # Unfused) =>
    /\ ForwardTextIsLegal(given)
    /\ \A r \in DOMAIN samples :
         /\ Len(given["streaming_sum"][r]) = 1
         /\ AddedToInput(given, r) = Input(r) \cup At(model.fuser["sum"], samples[r], 1)

\* Step by step, a slot hears the whole of its reference, each token once and in
\* order, in as few vectors as the rate of the encoder allows; then silence.
ReferenceIsWhole ==
  role = "reference" =>
    \A b \in BatchRows :
      LET all == heard[b] \o pending[b]
          n   == IF text[b] = NoText THEN 0 ELSE TokensOf(text[b])
          rate == model.conditioners["reference_with_time"].rate
          Places(v) == {t[3] : t \in v}
      IN /\ UNION {Places(all[i]) : i \in DOMAIN all} = 1 .. n
         /\ \A i, j \in DOMAIN all : i < j => \A x \in Places(all[i]), y \in Places(all[j]) : x < y
         /\ \A i \in DOMAIN all : all[i] \subseteq UNION {Spoken("reference_with_time", text[b], k) : k \in 1 .. n}
         /\ n > 0 => Len(all) = CASE rate < 0 -> (n + Abs(rate) - 1) \div Abs(rate)
                                  [] rate = 0 -> 1
                                  [] rate > 0 -> IF n < rate THEN n ELSE rate

\* Each row has the voice its client asked for, and the null half has none.
VoiceIsOwn ==
  role = "voices" =>
    \A r \in DOMAIN keys :
      There(keys[r]) = IF r \in BatchRows THEN [i \in 1 .. Frames |-> {<<"voice", VoiceOf(voice[r]), i>>}]
                       ELSE <<>>

ConditionsAreOwn == FusedIsOwn /\ StartsWithOneVector /\ ReferenceIsWhole /\ VoiceIsOwn
===============================================================================
