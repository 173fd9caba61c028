----------------------------- MODULE Conditioners -----------------------------
(***************************************************************************)
(* The conditions of the language model (conditioners/base.py, text.py,    *)
(* tensors.py): ConditionProvider turns the attributes of the samples of a *)
(* batch into one tensor with a mask per attribute, and ConditionFuser     *)
(* combines those into what the model is given.                            *)
(*                                                                         *)
(* A vector is the set of what is added up in it, so zero is the empty     *)
(* set.  A batch of vectors is, for each row, a sequence of them, of one   *)
(* length.  A text is a name and its number of tokens.  The linear layer   *)
(* at the end of a conditioner, and the T5 and ARC models but for the      *)
(* pooling, are left out.                                                  *)
(***************************************************************************)
EXTENDS ArcEncoder, FiniteSets

NoText == <<"no text", 0>>   \* None
EmptyText == <<"", 0>>
TokensOf(text) == text[2]

Zero == {}
Positions(rows) == IF \E r \in DOMAIN rows : rows[r] # <<>>
                   THEN Len(rows[CHOOSE r \in DOMAIN rows : rows[r] # <<>>]) ELSE 0

\* The conditioners of a model: for each name, its kind, whether its padding is
\* learnt and the rate of the ARC encoder; and the names fused by each method.
Methods == {"sum", "prepend", "cross", "streaming_sum"}
TextConditions(model) == {n \in DOMAIN model.conditioners : model.conditioners[n].kind # "tensor"}
TensorConditions(model) == DOMAIN model.conditioners \ TextConditions(model)

-------------------------------------------------------------------------------
(* prepare: tokens, and a mask of those that are there *)

\* length_to_mask, of one position at least.
LengthToMask(lengths) ==
  LET longest == CHOOSE n \in {1} \cup {lengths[r] : r \in DOMAIN lengths} :
                   \A r \in DOMAIN lengths : lengths[r] <= n
  IN [r \in DOMAIN lengths |-> [i \in 1 .. longest |-> i <= lengths[r]]]

\* What stands at a place that is not there: the embedding of the padding token,
\* or what T5 makes of its own.
Padding(name) == {<<name, "padding token">>}
Learnt(name)  == {<<name, "learnt padding">>}
Spoken(name, text, i) == {<<name, text, i>>}

\* The tokenizers: a value of a lookup table is one token whatever it says.
TextLengths(kind, texts) ==
  [r \in DOMAIN texts |-> IF kind = "lut" THEN (IF texts[r] = NoText THEN 0 ELSE 1)
                          ELSE TokensOf(texts[r])]

PrepareTexts(name, kind, texts) ==
  LET mask == LengthToMask(TextLengths(kind, texts))
  IN [mask |-> mask,
      cond |-> [r \in DOMAIN texts |-> [i \in DOMAIN mask[r] |->
                  IF mask[r][i] THEN Spoken(name, texts[r], i) ELSE Padding(name)]]]

\* TensorCondition.cat: padded with zeros, masked.
CatTensors(tensors) ==
  LET mask == LengthToMask([r \in DOMAIN tensors |-> Len(tensors[r].cond)])
  IN [mask |-> [r \in DOMAIN tensors |-> [i \in DOMAIN mask[r] |->
                  mask[r][i] /\ tensors[r].mask[i]]],
      cond |-> [r \in DOMAIN tensors |-> [i \in DOMAIN mask[r] |->
                  IF mask[r][i] THEN tensors[r].cond[i] ELSE Zero]]]

\* A sample that does not have a text is not in its batch.
CollatedTexts(samples, name) ==
  LET having == SelectSeq(samples, LAMBDA s : name \in DOMAIN s.text)
  IN [r \in DOMAIN having |-> having[r].text[name]]

CollatedTensors(samples, name) == [r \in DOMAIN samples |-> samples[r].tensor[name]]

\* ConditionProvider.prepare refuses a conditioner left without an input.
EveryInputGiven(model, samples) ==
  \A n \in TextConditions(model) : CollatedTexts(samples, n) # <<>>

Prepare(model, samples) ==
  [n \in DOMAIN model.conditioners |->
     IF n \in TensorConditions(model) THEN CatTensors(CollatedTensors(samples, n))
     ELSE PrepareTexts(n, model.conditioners[n].kind, CollatedTexts(samples, n))]

-------------------------------------------------------------------------------
(* forward *)

\* ArcEncoderConditioner, of one reference: the vectors its tokens are pooled in,
\* or a single zero.  Every vector is there, but the one of an empty text.
ArcCondition(rate, prepared) ==
  LET valid == SelectSeq([i \in DOMAIN prepared.cond[1] |->
                            <<prepared.mask[1][i], prepared.cond[1][i]>>], LAMBDA p : p[1])
      pooled == Embedder([i \in DOMAIN valid |-> valid[i][2]], <<Len(valid)>>, rate)
  IN IF valid = <<>> THEN [cond |-> <<<<Zero>>>>, mask |-> <<<<FALSE>>>>]
     ELSE [cond |-> <<[j \in DOMAIN pooled.vectors |-> UNION pooled.vectors[j]]>>,
           mask |-> <<[j \in 1 .. pooled.seqlens[1] |-> TRUE]>>]

\* _get_condition
Condition(conditioner, prepared) ==
  IF conditioner.kind = "arc" THEN ArcCondition(conditioner.rate, prepared) ELSE prepared

\* BaseConditioner.forward: what is not there is replaced by the padding.
Forward(model, prepared) ==
  [n \in DOMAIN prepared |->
     LET c == Condition(model.conditioners[n], prepared[n])
         pad == IF model.conditioners[n].learnt THEN Learnt(n) ELSE Zero
     IN [mask |-> c.mask,
         cond |-> [r \in DOMAIN c.cond |-> [i \in DOMAIN c.cond[r] |->
                     IF c.mask[r][i] THEN c.cond[r][i] ELSE pad]]]]

\* The ARC encoder takes one reference at a time.
BatchIsLegal(model, samples) ==
  (\E n \in DOMAIN model.conditioners : model.conditioners[n].kind = "arc") => Len(samples) = 1

ConditionTensors(model, samples) == Forward(model, Prepare(model, samples))

-------------------------------------------------------------------------------
(* ConditionFuser.  A batch of no position is None. *)

\* Mutant: the mask is not applied.
Unmasked(c) == c.cond

Masked(c) == [r \in DOMAIN c.cond |-> [i \in DOMAIN c.cond[r] |->
                IF c.mask[r][i] THEN c.cond[r][i] ELSE Zero]]

NoPosition(tensors) ==
  LET batch == IF DOMAIN tensors = {} THEN {}
               ELSE DOMAIN tensors[CHOOSE n \in DOMAIN tensors : TRUE].cond
  IN [r \in batch |-> <<>>]

Fused(names, tensors, Join(_, _)) ==
  FoldLeft(LAMBDA sum, n : Join(sum, Masked(tensors[n])), NoPosition(tensors), names)

After(a, b)  == [r \in DOMAIN a |-> a[r] \o b[r]]
Before(a, b) == [r \in DOMAIN a |-> b[r] \o a[r]]

\* Added at their positions, the longer one going on alone.
Added(a, b) ==
  [r \in DOMAIN a |->
     [i \in 1 .. (IF Len(a[r]) < Len(b[r]) THEN Len(b[r]) ELSE Len(a[r])) |->
        (IF i <= Len(a[r]) THEN a[r][i] ELSE Zero) \cup (IF i <= Len(b[r]) THEN b[r][i] ELSE Zero)]]

GetCross(model, tensors) == Fused(model.fuser["cross"], tensors, After)
GetSum(model, tensors)   == Fused(model.fuser["sum"], tensors, Added)
GetStreamingSum(model, tensors) == Fused(model.fuser["streaming_sum"], tensors, Added)

\* The last condition comes first; the sum, of one position, is added to each.
GetPrepend(model, tensors) ==
  LET prepend == Fused(model.fuser["prepend"], tensors, Before)
      sum == GetSum(model, tensors)
  IN [r \in DOMAIN prepend |-> [i \in DOMAIN prepend[r] |->
        prepend[r][i] \cup (IF sum[r] = <<>> THEN Zero ELSE sum[r][1])]]

\* get_sum asserts that each condition has one position.
SumIsLegal(model, tensors) ==
  \A k \in DOMAIN model.fuser["sum"] : Positions(tensors[model.fuser["sum"][k]].cond) = 1

Fuse(model, tensors) ==
  [m \in Methods |-> CASE m = "cross"   -> GetCross(model, tensors)
                       [] m = "sum"     -> GetSum(model, tensors)
                       [] m = "prepend" -> GetPrepend(model, tensors)
                       [] OTHER         -> GetStreamingSum(model, tensors)]

-------------------------------------------------------------------------------
(* The null conditions of guidance *)

\* dropout_all_conditions: no text, and tensors of zeros that are not there.
DropoutAll(sample) ==
  [text   |-> [n \in DOMAIN sample.text |-> NoText],
   tensor |-> [n \in DOMAIN sample.tensor |->
                 [cond |-> [i \in DOMAIN sample.tensor[n].cond |-> Zero],
                  mask |-> [i \in DOMAIN sample.tensor[n].mask |-> FALSE]]]]

\* The samples, then their null counterparts.
WithNulls(samples) == samples \o [r \in DOMAIN samples |-> DropoutAll(samples[r])]
===============================================================================
