-------------------------------- MODULE Memory --------------------------------
(***************************************************************************)
(* Long-term memory (cognitive/memory/): the store, what Channel commits   *)
(* of an utterance of the user and what MemoryCognitiveService recalls;    *)
(* and WorkingMemory, which nothing uses yet.  Conversations share the     *)
(* store, each with an id of its own, and the server may restart.          *)
(*                                                                         *)
(* A text is a sequence of phrases: a pattern of semantic_extraction and   *)
(* what it captures, or a sign that score_salience looks for.              *)
(***************************************************************************)
EXTENDS Integers, Sequences, Sums

CONSTANTS
  Values,            \* what a pattern captures
  MaxConversations,  \* bound on the connections, one after the other or at once
  MaxCommits,        \* bound on the utterances
  EpisodeLimit,      \* episode_limit
  SalienceThreshold, \* memory_salience_threshold, in tenths
  Durable,           \* BOOLEAN: --memory-db-path is a file
  MaxTurns,          \* max_turns of WorkingMemory
  MaxTurnChars,      \* its max_chars
  MaxAdded           \* bound on the turns given to it

ASSUME MemoryAssumption ==
  /\ MaxConversations \in Nat /\ MaxCommits \in Nat /\ EpisodeLimit \in Nat
  /\ SalienceThreshold \in 0..10 /\ Durable \in BOOLEAN
  /\ MaxTurns \in Nat \ {0} /\ MaxTurnChars \in Nat /\ MaxAdded \in Nat

VARIABLES
  conversations,  \* how many there have been
  open,           \* those under way
  semantic,       \* table semantic: a set of [user, key, value]
  episodic,       \* table episodic: a sequence of [user, text], oldest first
  said,           \* what the store was given: [user, text], oldest first
  answers,        \* of the lookup since the last text, if any: [user, facts, episodes]
  added,          \* the lengths of the turns WorkingMemory was given
  window          \* _turns, the lengths of those it keeps

memoryVars == <<conversations, open, semantic, episodic, said, answers, added, window>>
working    == <<added, window>>

NOVALUE == "empty"  \* what _clean_value leaves of "and ..."

-------------------------------------------------------------------------------
(* semantic_extraction and salience *)

Patterns == <<"name", "love", "like">>   \* work and live are as name
Signs    == {"remember", "question"}

Kinds == {Patterns[n] : n \in DOMAIN Patterns}

Phrases == [kind : Kinds, value : Values \union {NOVALUE}]
             \union [kind : Signs, value : {NOVALUE}]

Texts == {<<p>> : p \in Phrases} \union {<<p, q>> : p \in Phrases, q \in Phrases}

TURN == [kind |-> "turn", value |-> NOVALUE]

KeyOf(pattern) == IF pattern \in {"love", "like"} THEN "preference" ELSE pattern

\* Where text mentions something with pattern: its first match, if that has a value.
Matches(text, pattern) ==
  {i \in DOMAIN text : /\ text[i].kind = pattern /\ text[i].value # NOVALUE
                       /\ \A k \in 1..(i - 1) : text[k].kind # pattern}

\* Each pattern is searched for once, in their order.
ExtractFact(facts, text, pattern) ==
  IF Matches(text, pattern) = {} THEN facts
  ELSE LET found == CHOOSE i \in Matches(text, pattern) : TRUE
       IN  Append(facts, [key |-> KeyOf(pattern), value |-> text[found].value])

ExtractFacts(text) ==
  LET facts[n \in 0..Len(Patterns)] == IF n = 0 THEN <<>> ELSE ExtractFact(facts[n - 1], text, Patterns[n])
  IN  facts[Len(Patterns)]

\* score_salience in tenths, of a text that is not empty; none here has fifteen words.
Salience(text) ==
  CASE \E i \in DOMAIN text : text[i].kind = "remember"  -> 10
    [] text[Len(text)].kind = "question"                      -> 2
    [] OTHER                                             -> 3

-------------------------------------------------------------------------------
(* The store *)

\* Mutants: a fact that is known stays; the user is not part of the key.
InsertOnly(table, user, fact) ==
  IF \E row \in table : row.user = user /\ row.key = fact.key THEN table
  ELSE table \union {[user |-> user, key |-> fact.key, value |-> fact.value]}

UpsertByKey(table, user, fact) ==
  {row \in table : row.key # fact.key}
    \union {[user |-> user, key |-> fact.key, value |-> fact.value]}

UpsertFact(table, user, fact) ==
  {row \in table : ~(row.user = user /\ row.key = fact.key)}
    \union {[user |-> user, key |-> fact.key, value |-> fact.value]}

GetFacts(user) == {[key |-> row.key, value |-> row.value] : row \in {r \in semantic : r.user = user}}

\* What Commit does with the facts of a text.
UpsertFacts(user, facts) ==
  LET table[n \in 0..Len(facts)] == IF n = 0 THEN semantic ELSE UpsertFact(table[n - 1], user, facts[n])
  IN  table[Len(facts)]

\* The newest rows that contain the keyword.
SearchRow(found, row, user, keyword) ==
  IF /\ Len(found) < EpisodeLimit /\ row.user = user
     /\ \E i, j \in 1..Len(row.text) : SubSeq(row.text, i, j) = keyword
  THEN Append(found, row.text) ELSE found

SearchEpisodes(user, keyword) ==
  LET found[n \in 0..Len(episodic)] ==
        IF n = 0 THEN <<>>
        ELSE SearchRow(found[n - 1], episodic[Len(episodic) + 1 - n], user, keyword)
  IN  IF keyword = <<>> THEN <<>> ELSE found[Len(episodic)]

MemoryInit ==
  /\ conversations = 0 /\ open = {} /\ semantic = {} /\ episodic = <<>>
  /\ said = <<>> /\ answers = <<>> /\ added = <<>> /\ window = <<>>

\* conversation_id is a new uuid.
OpenConversation ==
  /\ conversations < MaxConversations
  /\ conversations' = conversations + 1 /\ open' = open \union {conversations + 1}
  /\ UNCHANGED <<semantic, episodic, said, answers, working>>

CloseConversation(user) ==
  /\ open' = open \ {user}
  /\ UNCHANGED <<conversations, semantic, episodic, said, answers, working>>

\* _commit_user_utterance_to_memory.
Commit(user, text) ==
  /\ Len(said) < MaxCommits
  /\ semantic' = UpsertFacts(user, ExtractFacts(text))
  /\ episodic' = IF Salience(text) >= SalienceThreshold
                 THEN Append(episodic, [user |-> user, text |-> text]) ELSE episodic
  /\ said' = Append(said, [user |-> user, text |-> text])
  /\ answers' = <<>>
  /\ UNCHANGED <<conversations, open, working>>

\* MemoryCognitiveService.handle: the request's context is the conversation, its query
\* the words of it so far that the channel asks about.
HandleLookup(user, query) ==
  /\ answers' = <<[user |-> user, facts |-> GetFacts(user), episodes |-> SearchEpisodes(user, query)]>>
  /\ UNCHANGED <<conversations, open, semantic, episodic, said, working>>

\* A file outlives the process, ":memory:" does not.
RestartServer ==
  /\ conversations > 0
  /\ open' = {} /\ answers' = <<>>
  /\ IF Durable THEN UNCHANGED <<semantic, episodic, said>>
     ELSE semantic' = {} /\ episodic' = <<>> /\ said' = <<>>
  /\ UNCHANGED <<conversations, working>>

-------------------------------------------------------------------------------
(* WorkingMemory *)

Chars(turns_) == SumTo(turns_, Len(turns_))

\* Mutant: the last turn is evicted too if it is too long.
Evicted(turns_) ==
  LET fits(n) == Len(turns_) - n <= MaxTurns /\ Chars(SubSeq(turns_, n + 1, Len(turns_))) <= MaxTurnChars
  IN  SubSeq(turns_, 1 + (CHOOSE n \in 0..Len(turns_) : fits(n) /\ \A k \in 0..(n - 1) : ~fits(k)), Len(turns_))

\* First to max_turns, then to max_chars, from the oldest end.
AddedTurn(turns_) ==
  LET kept == IF Len(turns_) > MaxTurns THEN Tail(turns_) ELSE turns_
      drop == CHOOSE n \in 0..(Len(kept) - 1) :
                /\ \/ Chars(SubSeq(kept, n + 1, Len(kept))) <= MaxTurnChars
                   \/ n = Len(kept) - 1
                /\ \A k \in 0..(n - 1) : Chars(SubSeq(kept, k + 1, Len(kept))) > MaxTurnChars
  IN  SubSeq(kept, drop + 1, Len(kept))

AddTurn(length) ==
  /\ Len(added) < MaxAdded
  /\ added' = Append(added, length) /\ window' = AddedTurn(Append(window, length))
  /\ UNCHANGED <<conversations, open, semantic, episodic, said, answers>>

ResetTurns ==
  /\ added' = <<>> /\ window' = <<>>
  /\ UNCHANGED <<conversations, open, semantic, episodic, said, answers>>

\* handle_memory_facts shows those of anyone.
ReadFacts(user) ==
  /\ answers' = <<[user |-> user, facts |-> GetFacts(user), episodes |-> <<>>]>>
  /\ UNCHANGED <<conversations, open, semantic, episodic, said, working>>

\* conversation_context has every text, and a mark wherever the speaker changes, as
\* before the model's response that makes the channel commit a text.
Context(user) ==
  LET says(u) == IF u.user = user THEN u.text \o <<TURN>> ELSE <<>>
      after[n \in 0..Len(said)] == IF n = 0 THEN <<TURN>> ELSE after[n - 1] \o says(said[n])
  IN  after[Len(said)]

MemoryNext ==
  \/ OpenConversation \/ RestartServer
  \/ \E user \in open :
       \/ CloseConversation(user)
       \/ \E text \in Texts : Commit(user, text)
       \/ \E query \in {Context(user)} \union {<<Context(user)[n]>> : n \in DOMAIN Context(user)} : HandleLookup(user, query)
  \/ \E user \in 1..conversations : ReadFacts(user)

WorkingNext == (\E length \in 0..(MaxTurnChars + 1) : AddTurn(length)) \/ ResetTurns

-------------------------------------------------------------------------------
(* Properties *)

\* Where user mentions something of key: a text and its phrase.
Mentions(user, key) ==
  {m \in (DOMAIN said) \X (1..2) :
     /\ said[m[1]].user = user
     /\ \E pattern \in Kinds : KeyOf(pattern) = key /\ m[2] \in Matches(said[m[1]].text, pattern)}

\* What is recalled of a conversation is its own: for each thing that was mentioned one
\* fact, which nothing mentioned in a later text contradicts; and salient texts of its
\* own.  A restart with a file loses nothing.
RecallIsOwnAndLatest ==
  \A i \in DOMAIN answers :
    LET a == answers[i] IN
    /\ \A fact \in a.facts :
         \E m \in Mentions(a.user, fact.key) :
           /\ said[m[1]].text[m[2]].value = fact.value
           /\ \A later \in Mentions(a.user, fact.key) : later[1] <= m[1]
    /\ \A key \in {"name", "preference"} :
         Mentions(a.user, key) # {} => \E fact \in a.facts : \A f \in a.facts : (f.key = key) <=> (f = fact)
    /\ Len(a.episodes) <= EpisodeLimit
    /\ \A n \in DOMAIN a.episodes :
         \E j \in DOMAIN said :
           said[j] = [user |-> a.user, text |-> a.episodes[n]] /\ Salience(a.episodes[n]) >= SalienceThreshold

\* WorkingMemory keeps the longest end of the conversation that is within both limits,
\* and the last turn in any case; once evicted, a turn never fits again.
WindowIsLongest ==
  LET ending(n) == SubSeq(added, Len(added) - n + 1, Len(added))
      fits(n)   == n <= MaxTurns /\ (n <= 1 \/ Chars(ending(n)) <= MaxTurnChars)
  IN  /\ window = ending(Len(window)) /\ fits(Len(window))
      /\ \A n \in (Len(window) + 1)..Len(added) : ~fits(n)

-------------------------------------------------------------------------------
(* What the repository's text says and the code does not do *)

\* "Fetch known facts/relevant episodes for this conversation" (channel.py:486): the
\* lookup's keyword is the whole conversation, which no text contains.
EpisodesAreRecalled ==
  \A user \in open : (\E i \in DOMAIN episodic : episodic[i].user = user)
                       => SearchEpisodes(user, Context(user)) # <<>>
===============================================================================
