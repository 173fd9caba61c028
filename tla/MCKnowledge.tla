----------------------------- MODULE MCKnowledge ------------------------------
(* Model checking of what a reference is made of, a part at a time: asking the    *)
(* models, memory, merging both, and the history of references.                   *)
EXTENDS Retrieval, Memory, KnowledgeMerge, ReferenceHistory, TLC

VARIABLE part

Retrievals == part = "retrieval" /\ RetrievalInit
NoRetrieval == profiles = <<>> /\ summarization = FALSE /\ retrievals = <<>> /\ calls = <<>>

Merges == part = "merge" /\ MergeInit
NoMerge == candidates = <<>> /\ merged = <<>> /\ trust = 0 /\ resolved = Unresolved

Histories == part = "history" /\ HistoryInit
NoHistory == first = "user" /\ HistoryInit

Init ==
  /\ MemoryInit
  /\ \/ Retrievals /\ NoMerge /\ NoHistory
     \/ Merges /\ NoRetrieval /\ NoHistory
     \/ Histories /\ NoRetrieval /\ NoMerge
     \/ part \in {"memory", "working"} /\ NoRetrieval /\ NoMerge /\ NoHistory

Next ==
  \/ part = "retrieval" /\ RetrievalNext /\ UNCHANGED <<memoryVars, mergeVars, historyVars, part>>
  \/ part = "memory" /\ MemoryNext /\ UNCHANGED <<retrievalVars, mergeVars, historyVars, part>>
  \/ part = "working" /\ WorkingNext /\ UNCHANGED <<retrievalVars, mergeVars, historyVars, part>>
  \/ part = "merge" /\ MergeNext /\ UNCHANGED <<retrievalVars, memoryVars, historyVars, part>>
  \/ part = "history" /\ HistoryNext /\ UNCHANGED <<retrievalVars, memoryVars, mergeVars, part>>

Spec == Init /\ [][Next]_<<retrievalVars, memoryVars, mergeVars, historyVars, part>>

\* What memory recalls is of the same conversation and the last that was told, and the
\* window of turns is the longest that fits (MemoryStore, WorkingMemory).
MemoryIsSound == RecallIsOwnAndLatest /\ WindowIsLongest

\* What is put before a model is sound: the merge of what was retrieved and what is
\* remembered; the turns and references of the prompt, in order and up to the first repeat;
\* and how often it is asked in a response (merge_candidates, process_reference_text,
\* MultiShotGate).
PromptIsSound == MergeIsSound /\ HistoryIsSound /\ BudgetIsCharged

Symmetry == Permutations(Ids) \union Permutations(Values)
===============================================================================
