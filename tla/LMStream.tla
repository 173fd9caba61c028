------------------------------- MODULE LMStream --------------------------------
(***************************************************************************)
(* LMGen (models/lm.py) for a batch of rows: the circular cache through    *)
(* which the tokens of each stream are delayed.  The generated streams are *)
(* the text and the codebooks of the model, the given ones the codebooks   *)
(* of the user; each has its delay.  A row has an offset of its own, a     *)
(* mask says which rows a step executes, and a reset names the rows that   *)
(* start again.                                                            *)
(*                                                                         *)
(* A token says what made it: the session of the row and its step.  What   *)
(* the model makes of its inputs, the guidance and the conditions (see     *)
(* BatchSlots) are left out, but for the prepended one.                    *)
(***************************************************************************)
EXTENDS Integers

CONSTANT Rows

Initial     == <<"initial">>      \* lm_model._get_initial_token
Wiped       == <<"wiped">>        \* 0, which reset leaves in the whole cache
ZeroToken   == <<"zero">>         \* zero_token_id
Text == "text"  \* the stream of this name; the others hold audio

Ungenerated == <<"ungenerated">>  \* ungenerated_token_id
Sampled(s, n)    == <<"sampled", s, n>>
GivenToken(s, n) == <<"given", s, n>>

\* The tokens of the batch, one of each of the streams for each row.
Batch(streams, Token(_, _)) == [r \in Rows |-> [k \in streams |-> Token(r, k)]]

Streams(lm) == DOMAIN lm.delays
MaxDelayOf(lm) == CHOOSE d \in {lm.delays[k] : k \in Streams(lm)} :
                  \A k \in Streams(lm) : lm.delays[k] <= d
CT(lm) == MaxDelayOf(lm) + 2

\* With support_out_of_sync, a step always returns tokens.  prepend is how many
\* positions the transformer is given before the first step, and silent the
\* steps for which on_audio_hook replaces the codebooks by zeros.
NewLM(delays, given, prepend, silent, outOfSync) ==
  LET ct == 2 + CHOOSE d \in {delays[k] : k \in DOMAIN delays} :
                  \A k \in DOMAIN delays : delays[k] <= d
  IN [delays |-> delays, given |-> given, prepend |-> prepend, silent |-> silent,
      outOfSync |-> outOfSync,
      offsets |-> [r \in Rows |-> 0], offsetCpu |-> 0,
      cache |-> [r \in Rows |-> [k \in DOMAIN delays |-> [i \in 0 .. ct - 1 |-> Ungenerated]]],
      position |-> [r \in Rows |-> prepend]]

\* Mutant: the prepended condition is run for every row, not for those reset.
PrependedForAll(lm, fresh) ==
  [r \in Rows |-> (IF r \in fresh THEN 0 ELSE lm.position[r]) + lm.prepend]

\* The rows reset start at 0 and are given the prepended condition, under an exec
\* mask of those rows.
Prepended(lm, fresh) == [r \in Rows |-> IF r \in fresh THEN lm.prepend ELSE lm.position[r]]

\* reset_streaming(reset_mask): the offsets of these rows, and the cache of all.
ResetLM(lm, fresh) ==
  IF fresh = {} THEN lm
  ELSE [lm EXCEPT !.offsets = [r \in Rows |-> IF r \in fresh THEN 0 ELSE @[r]],
                  !.offsetCpu = 0,
                  !.cache = Batch(Streams(lm), LAMBDA r, k : [i \in 0 .. CT(lm) - 1 |-> Wiped]),
                  !.position = Prepended(lm, fresh)]

-------------------------------------------------------------------------------
(* _step *)

\* Mutant: a given token is written for the next step, whatever the delay.
WrittenAtOnce(lm, mask, tokens) ==
  Batch(Streams(lm), LAMBDA r, k :
    IF k \in lm.given /\ r \in mask
    THEN [lm.cache[r][k] EXCEPT ![(lm.offsets[r] + 1) % CT(lm)] = tokens[r][k]]
    ELSE lm.cache[r][k])

\* The given tokens, each at the step that will read it.
Written(lm, mask, tokens) ==
  Batch(Streams(lm), LAMBDA r, k :
    IF k \in lm.given /\ r \in mask
    THEN [lm.cache[r][k] EXCEPT ![(lm.offsets[r] + lm.delays[k]) % CT(lm)] = tokens[r][k]]
    ELSE lm.cache[r][k])

\* Mutant: the initial token is read one step less.
IsInitTooShort(lm, r, k) == lm.offsets[r] < lm.delays[k]

IsInit(lm, r, k) == lm.offsets[r] <= lm.delays[k]

\* What the model reads.
Inputs(lm, mask, tokens) ==
  Batch(Streams(lm), LAMBDA r, k :
    IF r \notin mask \/ IsInit(lm, r, k) THEN Initial
    ELSE Written(lm, mask, tokens)[r][k][lm.offsets[r] % CT(lm)])

\* The tokens given to this step, and those it samples; textOnly is
\* depformer_replace_tokens, zeros for all the codebooks.
Tokens(lm, session, textOnly) ==
  Batch(Streams(lm), LAMBDA r, k :
    IF k \in lm.given THEN GivenToken(session[r], lm.offsets[r])
    ELSE IF k # Text /\ (textOnly \/ lm.offsets[r] < lm.delays[k] + lm.silent) THEN ZeroToken
    ELSE Sampled(session[r], lm.offsets[r]))

StepLM(lm, mask, tokens) ==
  LET offsets == [r \in Rows |-> IF r \in mask THEN lm.offsets[r] + 1 ELSE lm.offsets[r]]
      cache == Written(lm, mask, tokens)
  IN [lm EXCEPT
        !.offsets = offsets,
        !.offsetCpu = IF @ <= MaxDelayOf(lm) THEN @ + 1 ELSE @,
        !.cache = Batch(Streams(lm), LAMBDA r, k :
          IF k \notin lm.given /\ r \in mask
          THEN [cache[r][k] EXCEPT ![offsets[r] % CT(lm)] = tokens[r][k]]
          ELSE cache[r][k]),
        !.position = [r \in Rows |-> IF r \in mask THEN @[r] + 1 ELSE @[r]]]

\* It returns None for a while after a reset of any row.
Returns(lm) == lm.outOfSync \/ lm.offsetCpu > MaxDelayOf(lm)

\* Mutant: the delay of the stream is not added.
AlignedAlike(lm, r, k) == (lm.offsets[r] - MaxDelayOf(lm)) % CT(lm)

Aligned(lm, r, k) == (lm.offsets[r] - MaxDelayOf(lm) + lm.delays[k]) % CT(lm)

\* What it returns, after the step: the codebooks of one frame.
Output(lm, mask) ==
  Batch(Streams(lm) \ lm.given, LAMBDA r, k :
    IF lm.offsets[r] <= MaxDelayOf(lm) \/ r \notin mask THEN Ungenerated
    ELSE lm.cache[r][k][Aligned(lm, r, k)])

-------------------------------------------------------------------------------
(* The sequences the model is trained on (LMModel.forward, _delay_sequence) *)

\* Frame f of a stream of a session.  The text of a frame and its codebooks are
\* sampled one after another, and the user's are given with the step before.
Code(lm, k, s, f) == IF k \in lm.given THEN GivenToken(s, f + 1)
                     ELSE IF k # Text /\ f < lm.silent THEN ZeroToken
                     ELSE Sampled(s, f + lm.delays[k])

\* Position n: each stream is delayed, and an initial token comes before all.
Delayed(lm, k, s, n) ==
  IF n = 0 \/ n - 1 < lm.delays[k] THEN Initial ELSE Code(lm, k, s, n - 1 - lm.delays[k])
===============================================================================
