---------------------------- MODULE KnowledgeMerge ----------------------------
(***************************************************************************)
(* The arbitration of cognitive/merge.py: RAG and memory both have a text  *)
(* for the one conditioning input, and merge_candidates joins the          *)
(* strongest ones that fit a character budget.  resolve_reference_         *)
(* conditioning decides what the channel shows and applies.                *)
(*                                                                         *)
(* A text is its length.  A confidence is the ConfidenceScore of           *)
(* cognitive/confidence.py that the producer of the text gives it, in      *)
(* units of 1 / One.                                                       *)
(***************************************************************************)
EXTENDS Integers, Sequences, FiniteSets, Sums

CONSTANTS
  MaxChars,      \* max_chars
  MaxLength,     \* bound on the length of a candidate's text
  SureLength,    \* the length from which a text is no longer suspect (10)
  RagTimeout,    \* RAGManager.rag_timeout, in ticks
  MaxCandidates  \* bound on the number of candidates

ASSUME MergeAssumption ==
  /\ MaxChars \in Nat /\ MaxLength \in Nat /\ MaxCandidates \in Nat
  /\ SureLength \in Nat \ {0} /\ RagTimeout \in Nat \ {0}

One == 20 * SureLength * RagTimeout

-------------------------------------------------------------------------------
(* ConfidenceScore *)

Clamp01(x) == IF x < 0 THEN 0 ELSE IF x > One THEN One ELSE x

Score(relevance, confidence) ==
  [relevance |-> Clamp01(relevance), confidence |-> Clamp01(confidence), freshness |-> One]

\* The third power of strength(): the mean is geometric.
Strength(score) == score.relevance * score.confidence * score.freshness

EmptyScore == [relevance |-> 0, confidence |-> 0, freshness |-> 0]

\* heuristic_from_llm_reference: the shorter or the later, the less certain.
Heuristic(length, elapsed) ==
  LET pressure == IF elapsed > RagTimeout THEN RagTimeout ELSE elapsed
      sure     == IF length > SureLength THEN SureLength ELSE length
  IN  IF length = 0 THEN EmptyScore
      ELSE Score(One, 2 * sure * (10 * RagTimeout - 3 * pressure))

\* MemoryCognitiveService.handle: 0.9, and 0.85 or 0.5 relevant.
Recalled(episodes) == Score(IF episodes THEN 17 * (One \div 20) ELSE One \div 2, 9 * (One \div 10))

\* A reference that is given, or a result of the calculator: ConfidenceScore().
Certain == Score(One, One)

\* What the sources give: a retrieval its text, or none; memory nothing (None) or
\* what it knows.
FromRag ==
  [source : {"rag"}, length : 0 .. MaxLength, score : {Certain}]
    \union {[source |-> "rag", length |-> n, score |-> Heuristic(n, t)] :
             n \in 0 .. MaxLength, t \in 0 .. RagTimeout + 1}

FromMemory ==
  {[source |-> "memory", length |-> n, score |-> Recalled(e)] : n \in 1 .. MaxLength, e \in BOOLEAN}

VARIABLES
  candidates,  \* what the sources have given, in their order
  merged,      \* the indices of the candidates whose text was joined, in order
  trust,       \* strength of the merged result, 0 if there is none
  resolved     \* what the channel shows and applies: [length, label, trust], or none yet

mergeVars == <<candidates, merged, trust, resolved>>

Unresolved == [length |-> 0, label |-> "none", trust |-> 0]

MergeInit ==
  /\ candidates \in UNION {[1 .. n -> FromRag \union FromMemory] : n \in 0 .. MaxCandidates}
  /\ merged = <<>> /\ trust = 0 /\ resolved = Unresolved

-------------------------------------------------------------------------------
StrengthOf(i) == Strength(candidates[i].score)

Usable(i) == candidates[i].length > 0 /\ StrengthOf(i) > 0

usable == {i \in DOMAIN candidates : Usable(i)}

\* Mutant: the weakest come first.
Weaker(i, j) ==
  \/ StrengthOf(i) < StrengthOf(j)
  \/ StrengthOf(i) = StrengthOf(j) /\ i < j

\* The order of the sort, which is stable.
Stronger(i, j) ==
  \/ StrengthOf(i) > StrengthOf(j)
  \/ StrengthOf(i) = StrengthOf(j) /\ i < j

Strongest(S) == CHOOSE i \in S : \A j \in S \ {i} : Stronger(i, j)

Others(S) == S \ {Strongest(S)}

\* The usable candidates, strongest first.
Ranked ==
  LET rest[n \in 0 .. Cardinality(usable)] == IF n = 0 THEN usable ELSE Others(rest[n - 1])
  IN  [n \in 1 .. Cardinality(usable) |-> Strongest(rest[n - 1])]

Lengths(s) == SumTo([n \in DOMAIN s |-> candidates[s[n]].length], Len(s))

\* Mutant: the joining space is not counted.
JoinedTight(s) == Lengths(s)

\* The length of the joined texts of s, with a space between them.
Joined(s) == Lengths(s) + (IF s = <<>> THEN 0 ELSE Len(s) - 1)

Fits(s) == Joined(s) <= MaxChars

\* Mutant: the first candidate that does not fit ends the loop.
KeptUpToFirst(ranked) ==
  LET ends == {n \in 0 .. Len(ranked) : Fits(SubSeq(ranked, 1, n))}
  IN  SubSeq(ranked, 1, CHOOSE n \in ends : \A m \in ends : m <= n)

\* The loop: a candidate that does not fit beside those kept is skipped.
Keep(kept, i) == IF Fits(Append(kept, i)) THEN Append(kept, i) ELSE kept

Kept(ranked) ==
  LET kept[n \in 0 .. Len(ranked)] == IF n = 0 THEN <<>> ELSE Keep(kept[n - 1], ranked[n])
  IN  kept[Len(ranked)]

\* A single usable candidate is returned as it is.
Parts == IF Len(Ranked) <= 1 THEN Ranked ELSE Kept(Ranked)

\* merge_candidates, of any number of sources.
Merge ==
  /\ trust = 0 /\ Ranked # <<>>
  /\ merged' = Parts
  /\ trust' = StrengthOf(Ranked[1])
  /\ UNCHANGED <<candidates, resolved>>

\* lm_label: a reference that is not there has none, unless it was given.
LmLabel == IF candidates[1].length > 0 \/ candidates[1].score = Certain THEN "rag" ELSE ""

\* Mutant: a retrieval that failed has the last word.
FailureFirst ==
  IF Ranked = <<>> \/ ~Usable(1)
  THEN [length |-> candidates[1].length, label |-> LmLabel, trust |-> StrengthOf(1)]
  ELSE [length |-> Joined(Parts), label |-> "rag", trust |-> StrengthOf(Ranked[1])]

\* Without anything usable it is what the retrieval gave, unchanged.
Resolution ==
  IF Ranked = <<>>
  THEN [length |-> candidates[1].length, label |-> LmLabel, trust |-> StrengthOf(1)]
  ELSE [length |-> Joined(Parts),
        label |-> IF LmLabel # "" THEN LmLabel ELSE "memory",
        trust |-> StrengthOf(Ranked[1])]

\* resolve_reference_conditioning: the retrieval has ended and memory has answered or
\* has nothing.
Resolve ==
  /\ resolved = Unresolved
  /\ Len(candidates) \in 1 .. 2 /\ candidates[1].source = "rag"
  /\ Len(candidates) = 2 => candidates[2].source = "memory"
  /\ resolved' = Resolution
  /\ UNCHANGED <<candidates, merged, trust>>

MergeNext == Merge \/ Resolve

-------------------------------------------------------------------------------
(* Properties *)

\* The joined text respects the budget, spaces included, if several sources had
\* something to say.
RespectsBudget == Len(merged) > 1 => Lengths(merged) + Len(merged) - 1 <= MaxChars

\* No budget is left unused: what was dropped would not fit beside what was kept.
DropsOnlyWhatDoesNotFit ==
  trust > 0 /\ Cardinality(usable) > 1 =>
    \A i \in usable : (\A n \in DOMAIN merged : merged[n] # i) => ~Fits(Append(merged, i))

\* The candidates that fit the budget by themselves; one that is alone is not measured.
able == IF Cardinality(usable) = 1 THEN usable
        ELSE {i \in usable : candidates[i].length <= MaxChars}

\* The whole is trusted as much as the strongest usable candidate, and led by the strongest
\* of those that fit, in whatever order the sources answered; if none fits there is no
\* text, but the same trust.  A strongest candidate that is too long is skipped, and what
\* is shown is then trusted with a strength that no text of it has earned: see TrustIsEarned.
StrongestLeads ==
  trust > 0 =>
    /\ \A i \in usable : StrengthOf(i) <= trust
    /\ \E i \in usable : StrengthOf(i) = trust
    /\ merged = <<>> <=> able = {}
    /\ able # {} => merged[1] \in able /\ \A i \in able : StrengthOf(i) <= StrengthOf(merged[1])

\* One source that fails does not take the other with it.  What is usable alone is
\* shown whole, whatever its length, with its own score and under its own name; the
\* failure of the retrieval is shown only if nothing was usable, or if neither text
\* fits the budget alone; and nothing is trusted less for what it is joined with.
FailuresAreApart ==
  resolved # Unresolved =>
    /\ \A i \in usable :
         usable = {i} =>
           /\ resolved.length = candidates[i].length /\ resolved.trust = StrengthOf(i)
           /\ (i = 1 \/ candidates[1].score # Certain) => resolved.label = candidates[i].source
    /\ resolved.length = 0 => \A i \in usable : candidates[i].length > MaxChars
    /\ \A i \in usable : resolved.trust >= StrengthOf(i)

\* The arbitration: within the budget, complete, led by the strongest that fits, and with
\* no source silenced by the failure of the other.
MergeIsSound ==
  RespectsBudget /\ DropsOnlyWhatDoesNotFit /\ StrongestLeads /\ FailuresAreApart

-------------------------------------------------------------------------------
(* What the repository's text says and the code does not do *)

\* "The merged result's confidence is the strongest candidate's own score ... the
\* weak one is simply appended" (merge.py:34-38): the text that is trusted with
\* the strongest score contains the text that earned it.
TrustIsEarned ==
  trust > 0 => \E n \in DOMAIN merged : StrengthOf(merged[n]) = trust

\* "merge RAG's result with memory when memory has something usable, otherwise fall
\* back to RAG's own result completely unchanged (including its empty-string/failure
\* case, which ``channel.py`` uses as the signal to show ``[RET_FAILED]``)"
\* (merge.py:74-76): two texts that are each longer than the budget make the empty
\* string too, and that is then encoded and conditions the model as strongly as the
\* better of them would have.
FailureIsTold == resolved # Unresolved /\ resolved.length = 0 => candidates[1].length = 0

===============================================================================
