------------------------------ MODULE ASRServer -------------------------------
(***************************************************************************)
(* Speech to text: rust/moshi-server/batched_asr.py, and the loop around   *)
(* it in src/py_basr_module.rs.  The loop takes one message of each        *)
(* channel and at most one frame of its audio, ASRService.step executes    *)
(* the rows that are active, and a client that sent a marker gets it back  *)
(* once the delay of the transcription has passed; that ends its channel.  *)
(*                                                                         *)
(* The words are left out, and so is current_word, the pieces of the word  *)
(* under way; the frames are counted.                                      *)
(***************************************************************************)
EXTENDS LMService

CONSTANTS
  AsrDelay,     \* asr_delay_in_tokens
  MaxAudio,     \* bound on the messages of audio before the marker
  MaxListeners  \* bound on the connections

ASSUME ASRAssumption == AsrDelay \in Nat \ {0} /\ MaxAudio \in Nat /\ MaxListeners \in Nat

VARIABLES
  line,       \* Inner.channels
  lastLine,   \* ChannelId's counter
  refIds,     \* channel_ids of the iteration, 0 for none
  listener,   \* ASRService.clients
  markers,    \* the markers to be sent back, and in how many steps
  flagsOut,   \* flags_out
  returned,   \* the channels the last markers were sent back to
  parted      \* the clients that have left, or have got their marker

asrVars == <<line, lastLine, refIds, listener, markers, flagsOut, returned, parted>>

\* The delays of a model that transcribes are all 0: the transcription is late in
\* the data that it was trained on.
ASRModel == NewLM([text |-> 0, userFirst |-> 0, userRest |-> 0], {"userFirst", "userRest"}, 0, 0, FALSE)

NoLine == [id |-> 0]
Lines  == {r \in Rows : line[r].id # 0}

NewListener == [complete |-> FALSE, active |-> FALSE, offset |-> 0, end |-> 0]

ASRInit ==
  /\ line = [r \in Rows |-> NoLine] /\ lastLine = 0 /\ refIds = [r \in Rows |-> 0]
  /\ listener = [r \in Rows |-> NewListener]
  /\ markers = {} /\ flagsOut = [r \in Rows |-> "nodata"] /\ returned = {} /\ parted = {}

-------------------------------------------------------------------------------
(* An iteration of the loop: pre_process, then ASRService.step *)

\* M::channels, and the Init that the handler sends first.  data counts the frames
\* buffered, heard those the model was run for, and wrote those that were read;
\* next is what the handler has put into the channel, if that is known.  A channel is
\* alone if no marker of an earlier client of its row is waiting.
ASRConnect(r) ==
  /\ r \notin Lines /\ \A q \in Rows \ Lines : r <= q
  /\ lastLine < MaxListeners
  /\ line' = [line EXCEPT ![r] =
       [id |-> lastLine + 1, next |-> "init", data |-> 0, heard |-> 0, messages |-> 0,
        wrote |-> 0, ended |-> FALSE, alone |-> \A m \in markers : m.row # r]]
  /\ lastLine' = lastLine + 1
  /\ UNCHANGED <<refIds, listener, markers, flagsOut, returned, parted, lmVars>>

\* What try_recv may find, with the frames it holds: messages of audio, then the
\* marker, then silence, as handle_query sends them; no message is the same as
\* one without a frame.  A client may have left.
Audio(n) == <<"audio", n>>
Messages == {<<"left", 0>>, <<"init", 0>>, <<"marker", 0>>} \cup {Audio(n) : n \in 0 .. AsrDelay + 1}
FoundBy(r) ==
  IF r \notin Lines THEN {Audio(0)}
  ELSE {<<"left", 0>>}
         \cup (CASE line[r].next = "init" -> {<<"init", 0>>}
                 [] line[r].next = "silence" -> {Audio(AsrDelay + 1)}
                 [] line[r].next = "any" ->
                      {Audio(0), <<"marker", 0>>}
                        \cup (IF line[r].messages < MaxAudio THEN {Audio(1), Audio(2)} ELSE {})
                 [] line[r].next = "none" -> {Audio(0)})

\* extend_data: the frames there are with the message, of which one is taken.
Buffered(r, m) == IF r \in Lines THEN line[r].data + m[2] ELSE 0
HasFrame(r, m) == m[1] = "audio" /\ Buffered(r, m) > 0

Extended(r, m, mask) ==
  IF r \notin Lines \/ m[1] = "left" THEN NoLine
  ELSE IF m[1] = "init" THEN [line[r] EXCEPT !.next = "any"]
  ELSE IF m[1] = "marker" THEN [line[r] EXCEPT !.next = "silence", !.ended = TRUE]
  ELSE [line[r] EXCEPT !.next     = IF @ = "silence" THEN "none" ELSE @,
                       !.messages = IF m[2] > 0 /\ ~line[r].ended THEN @ + 1 ELSE @,
                       !.wrote    = IF line[r].ended THEN @ ELSE @ + m[2],
                       !.data     = Buffered(r, m) - (IF HasFrame(r, m) THEN 1 ELSE 0),
                       !.heard    = IF HasFrame(r, m) /\ r \in mask THEN @ + 1 ELSE @]

\* Mutant: the frames that are still buffered are not counted.
WithoutBuffer(r) == AsrDelay

\* In how many steps the marker of r is due.
Due(r) == AsrDelay + line[r].data

\* updates: a marker that finds no frame buffered is the number 0, which is NODATA.
Update(r, m) ==
  IF m[1] = "init" THEN "reset"
  ELSE IF HasFrame(r, m) THEN "active"
  ELSE IF m[1] = "marker" /\ line[r].data > 0 THEN "marker" ELSE "nodata"

\* The loop of step over the updates.
Listens(r, m) ==
  CASE Update(r, m) = "nodata" -> [listener[r] EXCEPT !.active = FALSE]
    [] Update(r, m) = "active" -> [listener[r] EXCEPT !.active = TRUE]
    [] Update(r, m) = "reset"  -> [NewListener EXCEPT !.active = TRUE]
    [] Update(r, m) = "marker" -> [listener[r] EXCEPT !.complete = TRUE,
                                     !.end = listener[r].offset + line[r].data + AsrDelay + 2]

\* The loop over the rows that were executed.
Advanced(c) == [c EXCEPT !.offset = @ + 1]
IsEnd(c) == c.complete /\ c.offset >= c.end

\* ASRService.step, for the messages that pre_process found.
ASRService(message) ==
  LET fresh == {r \in Rows : message[r][1] = "init"}
      told  == [r \in Rows |-> Listens(r, message[r])]
      mask  == {r \in Rows : told[r].active}
      done  == {r \in mask : IsEnd(Advanced(told[r]))}
  IN /\ IF mask = {} THEN ResetOnly(fresh) ELSE ResetAndRun(fresh, mask, FALSE)
     /\ listener' = [r \in Rows |->
          IF r \in done THEN [Advanced(told[r]) EXCEPT !.active = FALSE]
          ELSE IF r \in mask THEN Advanced(told[r]) ELSE told[r]]
     /\ flagsOut' = [r \in Rows |->
          IF r \in done THEN "eos"
          ELSE IF r \in fresh THEN "active" ELSE Update(r, message[r])]
     /\ line' = [r \in Rows |-> Extended(r, message[r], mask)]

ASRStep ==
  /\ ~stepped /\ stepped' = TRUE
  /\ refIds' = [r \in Rows |-> line[r].id]
  /\ \E message \in [Rows -> Messages] :
       /\ \A r \in Rows : message[r] \in FoundBy(r)
       /\ ASRService(message)
       /\ markers' = markers \cup {[id |-> line[r].id, row |-> r, left |-> Due(r)] :
                                     r \in {r \in Rows : message[r][1] = "marker"}}
       /\ parted' = parted \cup {line[r].id : r \in {r \in Lines : message[r][1] = "left"}}
  /\ returned' = {}
  /\ UNCHANGED lastLine

-------------------------------------------------------------------------------
(* ... then post_process *)

WithData == {r \in Rows : flagsOut[r] \in {"active", "marker"}}
DueNow   == {m \in markers : m.left <= 0}
IsOf(r, id) == r \in Lines /\ line[r].id = id

\* Each channel that is still the one of pre_process is sent the step, which finds
\* out that its client has left.  A marker that is due ends whatever channel is in
\* its row, and is sent to it if it is that of the marker.  If nothing ran, the steps
\* are not counted.
ASRSend ==
  /\ stepped /\ stepped' = FALSE
  /\ IF WithData = {} THEN UNCHANGED <<line, markers, parted>> /\ returned' = {}
     ELSE \E gone \in SUBSET {r \in Lines : IsOf(r, refIds[r])} :
            /\ returned' = {line[m.row] : m \in {m \in DueNow : IsOf(m.row, m.id) /\ m.row \notin gone}}
            /\ parted' = parted \cup {line[r].id : r \in gone} \cup {l.id : l \in returned'}
            /\ line' = [r \in Rows |-> IF r \in gone \cup {m.row : m \in DueNow} THEN NoLine ELSE line[r]]
            /\ markers' = {[m EXCEPT !.left = @ - 1] : m \in markers \ DueNow}
  /\ refIds' = [r \in Rows |-> 0]
  /\ UNCHANGED <<lastLine, listener, flagsOut>>
  /\ UNCHANGED <<lm, session, since, ran, input, output>>

ASRNext == ASRStep \/ ASRSend \/ \E r \in Rows : ASRConnect(r)

-------------------------------------------------------------------------------
(* Properties *)

\* A marker comes back to the client that sent it, and when the model has been run
\* for all the audio that came before it, although the steps until then are
\* counted for the whole batch (step_idx, Marker).
MarkerAfterData == \A l \in returned : l.ended /\ l.heard >= l.wrote

\* A client whose marker was read, with the silence that follows it, gets its marker
\* back, unless it leaves: post_process sends it.  This is so of a client that is alone.
\* One that took a row for which a marker of an earlier client was waiting may be cut
\* off by that marker, and of such a client only this holds, that its channel ends.
ListenersAreAnswered ==
  \A i \in 1 .. MaxListeners :
    /\ (\E r \in Lines : line[r].id = i /\ line[r].ended) ~> (\A r \in Rows : ~IsOf(r, i))
    /\ (\E r \in Lines : line[r].id = i /\ line[r].ended /\ line[r].alone) ~> (i \in parted)

-------------------------------------------------------------------------------
(* What the repository's text says and the code does not do *)

\* "If the channel id has changed compared to the reference. Return Ok(()) so as not to
\* disconnect the new user" (py_basr_module.rs:102-103): the marker of a client that has
\* left takes nothing from the next of its row, which leaves or gets its own.
SuccessorIsKept ==
  [][\A r \in Lines : line'[r].id # line[r].id => line[r].id \in parted']_asrVars
===============================================================================
