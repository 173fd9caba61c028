------------------------------ MODULE TTSServer -------------------------------
(***************************************************************************)
(* Text to speech: rust/moshi-server/tts.py, and the loop around it in     *)
(* src/py_module.rs.  Each row of the batch has a Channel, made by a       *)
(* handler, and a ClientState.  The loop takes one message of each         *)
(* channel, has TTSService.step run the model for the clients that have    *)
(* words enough, and sends what it returns; the lock on the channels is    *)
(* released during the step.                                               *)
(*                                                                         *)
(* The machine that turns words into text tokens, moshi.models.tts, is not *)
(* in the repository: a step of a client either begins the next entry or   *)
(* pads.  Voices and what the words say are left out.                      *)
(***************************************************************************)
EXTENDS LMService

CONSTANTS
  Lookahead,    \* machine.second_stream_ahead
  DelaySteps,   \* tts_model.delay_steps: text before the audio begins
  FinalPadding, \* tts_model.final_padding
  MaxPadding,   \* of the machine: steps before it must begin an entry
  Interleaved,  \* interleaved_text_only
  MaxEntries,   \* bound on the entries a client sends
  MaxChannels   \* bound on the connections

ASSUME TTSAssumption ==
  /\ {Lookahead, DelaySteps, FinalPadding, MaxPadding, Interleaved, MaxEntries} \subseteq Nat
  /\ DelaySteps > 0 /\ MaxChannels \in Nat

VARIABLES
  channel,   \* Inner.channels
  lastId,    \* ChannelId's counter
  seen,      \* channel_ids of the iteration, 0 for none
  client,    \* TTSService.clients
  textOnly,  \* remaining_text_only, where what is below 0 is 0
  waits,     \* steps for which a client that could be given audio was left out
  spoken,    \* flags_out and pcm_out of the last step
  sent       \* what the loop sent of them, and to whom

ttsVars == <<channel, lastId, seen, client, textOnly, waits, spoken, sent>>

TTSModel == NewLM([text |-> 0, first |-> 0, rest |-> Delay], {}, 0, DelaySteps, TRUE)

NoChannel == [id |-> 0]
Channels  == {r \in Rows : channel[r].id # 0}

\* ClientState.  live: state is not None; end: end_step, or -1.
Unused    == [live |-> FALSE, complete |-> FALSE, offset |-> 0, entries |-> <<>>, pads |-> 0, end |-> -1]
NewClient == [Unused EXCEPT !.live = TRUE]

TTSInit ==
  /\ channel = [r \in Rows |-> NoChannel] /\ lastId = 0 /\ seen = [r \in Rows |-> 0]
  /\ client = [r \in Rows |-> Unused]
  /\ textOnly = Interleaved /\ waits = [r \in Rows |-> 0]
  /\ spoken = Nothing /\ sent = Nothing

-------------------------------------------------------------------------------
(* An iteration of the loop: pre_process, then TTSService.step *)

\* M::channels: a handler takes the first row that is free.  of: the session it begins;
\* heard: the frames it was sent; wrote, ended: what was read from it.
TTSConnect(r) ==
  /\ r \notin Channels /\ \A q \in Rows \ Channels : r <= q
  /\ lastId < MaxChannels
  /\ channel' = [channel EXCEPT ![r] =
       [id |-> lastId + 1, sentInit |-> FALSE, wrote |-> 0, ended |-> FALSE, of |-> 0, heard |-> 0]]
  /\ lastId' = lastId + 1
  /\ UNCHANGED <<seen, client, textOnly, waits, spoken, sent, lmVars>>

\* What try_recv may find: what the handler sends is words and pauses, then Eos.
\* A client may have left, and nothing need have come.
Entries == {"word", "pause"}
Found(r) ==
  {"nothing"}
    \cup (IF r \in Channels THEN {"left"} ELSE {})
    \cup (IF r \in Channels /\ ~channel[r].ended THEN {"eos"} ELSE {})
    \cup (IF r \in Channels /\ ~channel[r].ended /\ channel[r].wrote < MaxEntries THEN Entries ELSE {})

Begins(r, message) == message \in Entries /\ ~channel[r].sentInit

PreProcessed(r, message) ==
  CASE message = "nothing" -> channel[r]
    [] message = "left" \/ (message = "eos" /\ ~channel[r].sentInit) -> NoChannel
    [] message = "eos" /\ channel[r].sentInit -> [channel[r] EXCEPT !.ended = TRUE]
    [] message \in Entries ->
         [channel[r] EXCEPT !.wrote = @ + 1, !.sentInit = TRUE,
                            !.of = IF Begins(r, message) THEN session[r] + 1 ELSE @]

\* Mutant: a new session finds the state of the client before.
UpdatedNotReset(r, message) ==
  IF message = "eos" /\ channel[r].sentInit THEN [client[r] EXCEPT !.complete = TRUE]
  ELSE IF message \in Entries THEN [client[r] EXCEPT !.live = TRUE, !.entries = Append(@, message)]
  ELSE client[r]

\* What step does with the update.
Updated(r, message) ==
  LET c == IF Begins(r, message) THEN NewClient ELSE client[r]
  IN IF message = "eos" /\ channel[r].sentInit THEN [c EXCEPT !.complete = TRUE]
     ELSE IF message \in Entries THEN [c EXCEPT !.entries = Append(@, message)]
     ELSE c

Words(entries) == Cardinality({i \in DOMAIN entries : entries[i] = "word"})

\* Mutant: a client without words is not run, although no more will come.
ActiveWithWords(c) ==
  /\ c.live /\ c.entries # <<>>
  /\ c.complete \/ Lookahead = 0 \/ c.entries[1] = "pause" \/ Words(c.entries) >= Lookahead + 1

\* ClientState.is_active
IsActive(c) ==
  /\ c.live
  /\ \/ c.complete
     \/ /\ c.entries # <<>>
        /\ Lookahead = 0 \/ c.entries[1] = "pause" \/ Words(c.entries) >= Lookahead + 1

\* StateMachine.process, for a text token that asks for a new word or does not.
Process(c, newWord) ==
  IF ~newWord THEN [c EXCEPT !.pads = IF @ < MaxPadding THEN @ + 1 ELSE @]
  ELSE IF c.entries # <<>> THEN [c EXCEPT !.entries = Tail(@), !.pads = 0]
  ELSE [c EXCEPT !.end = IF @ = -1 THEN c.offset ELSE @]

RealEnd(c) == c.end + DelaySteps + FinalPadding + MaxDelayOf(lm)

\* Mutant: the delay of the model is not waited for.
FinishesEarly(c) == c.complete /\ c.end # -1 /\ c.offset >= RealEnd(c) - MaxDelayOf(lm)

Finishes(c) == c.complete /\ c.end # -1 /\ c.offset >= RealEnd(c)

\* The loop of step over the clients that were executed.
Stepped(c, newWord) == [Process(c, newWord) EXCEPT !.offset = @ + 1]

\* The rows that may be executed, those of them for which there is only text, and
\* those that have audio.
Actives(c)     == {r \in Rows : IsActive(c[r])}
InTextOnlys(c) == {r \in Actives(c) : c[r].offset < DelaySteps}
MimiActives(c) == {r \in Actives(c) : c[r].offset - MaxDelayOf(lm) >= DelaySteps}

\* Mutant: text has the precedence for as long as there is any.
TextFirst(c) == InTextOnlys(c) # {}

RunInTextOnly(c) ==
  \/ textOnly > 0 /\ InTextOnlys(c) # {}
  \/ InTextOnlys(c) = Actives(c)

\* TTSService.step, for the clients c, updated, and the rows that were reset.
TTSService(c, fresh) ==
  LET inText == RunInTextOnly(c)
      mask   == IF inText THEN InTextOnlys(c) ELSE Actives(c)
  IN /\ textOnly' = IF ~inText THEN Interleaved ELSE IF textOnly = 0 THEN 0 ELSE textOnly - 1
     /\ waits' = [r \in Rows |->
          IF r \in Actives(c) /\ r \notin mask THEN waits[r] + 1
          ELSE IF r \in mask \/ r \notin Actives(c) THEN 0 ELSE waits[r]]
     /\ IF mask = {} THEN ResetOnly(fresh) ELSE ResetAndRun(fresh, mask, inText)
     /\ \E newWord \in SUBSET mask :
          /\ \A r \in mask : c[r].pads = MaxPadding => r \in newWord
          /\ client' = [r \in Rows |->
               LET done == Stepped(c[r], r \in newWord)
               IN IF r \notin mask THEN c[r] ELSE IF Finishes(done) THEN NewClient ELSE done]
          /\ spoken' =
               [pcm |-> IF inText THEN {} ELSE MimiActives(c),
                eos |-> {r \in mask : Finishes(Stepped(c[r], r \in newWord))},
                end |-> [r \in Rows |-> Process(c[r], r \in newWord).end]]

\* The ids are taken before the channels that are gone are dropped.
TTSStep ==
  /\ ~stepped /\ Channels # {}
  /\ stepped' = TRUE
  /\ seen' = [r \in Rows |-> channel[r].id]
  /\ \E message \in [Rows -> {"nothing", "left", "eos"} \cup Entries] :
       /\ \A r \in Rows : message[r] \in Found(r)
       /\ channel' = [r \in Rows |-> PreProcessed(r, message[r])]
       /\ TTSService([r \in Rows |-> Updated(r, message[r])], {r \in Rows : Begins(r, message[r])})
  /\ sent' = Nothing
  /\ UNCHANGED lastId

-------------------------------------------------------------------------------
(* ... then what it returned is sent *)

\* Mutant: it is not asked whether the channel has begun.
ServedTooSoon(r) == r \in Channels /\ channel[r].id = seen[r]

\* The channel is the one of pre_process, and its first message was taken.
Served(r) ==
  /\ r \in Channels /\ channel[r].id = seen[r]
  /\ channel[r].sentInit

TTSSend ==
  /\ stepped
  /\ LET served == {r \in Rows : Served(r)}
     IN /\ sent' = [r \in served |->
             [pcm |-> r \in spoken.pcm, eos |-> r \in spoken.eos,
              of |-> channel[r].of, heard |-> channel[r].heard, end |-> spoken.end[r]]]
        /\ channel' = [r \in Rows |->
             IF r \notin served THEN channel[r]
             ELSE IF r \in spoken.eos THEN NoChannel
             ELSE [channel[r] EXCEPT !.heard = IF r \in spoken.pcm THEN @ + 1 ELSE @]]
  /\ stepped' = FALSE
  /\ spoken' = Nothing /\ seen' = [r \in Rows |-> 0]
  /\ UNCHANGED <<lastId, client, textOnly, waits>>
  /\ UNCHANGED <<lm, session, since, ran, input, output>>

TTSNext ==
  \/ TTSStep \/ TTSSend
  \/ \E r \in Rows : TTSConnect(r)

-------------------------------------------------------------------------------
(* Properties *)

\* A client is sent the frames of the session that its first word began, whoever
\* had the row before and is still being spoken for, each in its turn from the
\* first one with audio on; and it is told that it is complete when it has had
\* all of them (mimi_active, real_end, sent_init).
AudioIsOwn ==
  \A r \in DOMAIN sent :
    LET frames == IF sent[r].pcm THEN sent[r].heard + 1 ELSE sent[r].heard
    IN /\ sent[r].pcm => /\ r \in ran /\ session[r] = sent[r].of
                         /\ lm.offsets[r] - 1 - MaxDelayOf(lm) = DelaySteps + sent[r].heard
       /\ sent[r].eos => frames = sent[r].end + FinalPadding

\* A client that could have been given audio waits for others, of which there is
\* only text yet, for at most the steps that are meant for them.
AudioNotStarved == \A r \in Rows : waits[r] <= Interleaved

\* A client that has said that there are no more words is spoken for to the end:
\* its channel ends.
SpeakersAreAnswered ==
  \A i \in 1 .. MaxChannels :
    (\E r \in Channels : channel[r].id = i /\ channel[r].ended)
      ~> (\A r \in Channels : channel[r].id # i)
===============================================================================
