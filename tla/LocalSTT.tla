------------------------------- MODULE LocalSTT -------------------------------
(***************************************************************************)
(* LocalSpeechToText (stt/local_stt.py), between the loop that sends audio *)
(* to it, the loop that iterates over its words, and the job that starts   *)
(* it up and shuts it down.  run_inference.py keeps one per slot of the    *)
(* batch, so it serves one session after another, also after a job that    *)
(* failed: asyncio.gather then leaves the other loops of the job running.  *)
(*                                                                         *)
(* A sample is <<session, number>>.  What the recognizer says of a frame   *)
(* is free: a word or nothing.                                             *)
(***************************************************************************)
EXTENDS Integers, Sequences

CONSTANTS
  FrameSize,       \* samples of a frame
  PrimeCap,        \* the largest delay of the recognizer's streams
  MaxSamples,      \* bound on the samples of a session
  MaxSttSessions   \* bound on the sessions

ASSUME LocalSTTAssumption ==
  /\ FrameSize \in Nat \ {0} /\ PrimeCap \in Nat
  /\ MaxSamples \in Nat /\ MaxSttSessions \in Nat

VARIABLES
  job,        \* of the caller: "idle", "running", or in shutdown, "closing" after a
              \* job that ended and "failing" after one that failed
  sttSession, \* counts the calls of start_up
  local,      \* the attributes of LocalSpeechToText and the offset of its LMGen
  outQueue,   \* _out_queue
  complete,   \* shutdown_complete
  consumer,   \* the task that iterates: "running" (that is, in get()) or "ended"
  heard,      \* the words that it was given in this session
  asserted    \* the recognizer was asked for a result before it had one

localVars == <<job, sttSession, local, outQueue, complete, consumer, heard, asserted>>

\* Mutants.
SameQueue(queue) == queue
KeptFrameId(l) == l.frameId
ReplacedBy(pending, audio) == audio

EndMark == [end |-> TRUE]   \* the None that shutdown puts into the queue

\* reset_streaming of the recognizer: LMGen counts its steps from here.
ResetRecognizer(l) == 0

ResetFrameId(l) == 0

Restart(l) ==
  [pending |-> <<>>, sent |-> 0, frameId |-> ResetFrameId(l), playhead |-> 0,
   lmOffset |-> ResetRecognizer(l)]

NewQueue(queue) == <<>>

LocalInit ==
  /\ job = "idle" /\ sttSession = 0
  /\ local = [pending |-> <<>>, sent |-> 0, frameId |-> 0, playhead |-> 0, lmOffset |-> 0]
  /\ outQueue = <<>> /\ complete = TRUE
  /\ consumer = "ended" /\ heard = <<>> /\ asserted = FALSE

\* start_up, and the loops of the caller.
StartUpLocal ==
  /\ job = "idle" /\ sttSession < MaxSttSessions
  /\ job' = "running" /\ sttSession' = sttSession + 1
  /\ local' = Restart(local)
  /\ outQueue' = NewQueue(outQueue) /\ complete' = FALSE
  /\ consumer' = "running" /\ heard' = <<>>
  /\ UNCHANGED asserted

-------------------------------------------------------------------------------
(* send_audio: frames, and the recognizer *)

\* _run_codes: the first frame is given to the recognizer again and again until a
\* step has a result.  LMGen has none in its first PrimeCap steps.
RunCodes(l) ==
  LET primed == IF l.frameId < PrimeCap THEN PrimeCap ELSE l.frameId
  IN  [l EXCEPT !.frameId = primed + 1, !.lmOffset = @ + (primed - l.frameId) + 1]

HasResult(l) == l.lmOffset > PrimeCap

\* The body of the while loop of send_audio: acc.l after the frame, acc.words said.
RunFrame(acc, says) ==
  LET frame == SubSeq(acc.l.pending, 1, FrameSize)
      l     == RunCodes(acc.l)
  IN  [l     |-> [l EXCEPT !.pending = SubSeq(@, FrameSize + 1, Len(@)), !.playhead = @ + 1],
       words |-> IF says THEN Append(acc.words, [frame |-> frame, start |-> l.playhead]) ELSE acc.words,
       ok    |-> acc.ok /\ HasResult(l)]

\* The loop, for what is said of each frame.
RunFrames(l, says) ==
  LET acc[i \in 0..Len(says)] == IF i = 0 THEN [l |-> l, words |-> <<>>, ok |-> TRUE]
                                 ELSE RunFrame(acc[i - 1], says[i])
  IN  acc[Len(says)]

\* pending before the new audio.
WithPending(pending, audio) == pending \o audio

SendAudioLocal ==
  /\ job \in {"running", "failing"}
  /\ \E n \in 1 .. MaxSamples - local.sent :
       LET audio  == [i \in 1..n |-> <<sttSession, local.sent + i>>]
           before == [local EXCEPT !.pending = WithPending(@, audio), !.sent = @ + n]
       IN  \E says \in [1 .. Len(before.pending) \div FrameSize -> BOOLEAN] :
             LET after == RunFrames(before, says)
             IN  /\ local' = after.l
                 /\ outQueue' = outQueue \o after.words
                 /\ asserted' = (asserted \/ ~after.ok)
  /\ UNCHANGED <<job, sttSession, complete, consumer, heard>>

-------------------------------------------------------------------------------
(* __aiter__ and shutdown *)

\* get() returns a word, which the loop handles without a pause.
ConsumeWord ==
  /\ consumer = "running" /\ outQueue # <<>> /\ outQueue[1] # EndMark
  /\ heard' = Append(heard, outQueue[1]) /\ outQueue' = Tail(outQueue)
  /\ UNCHANGED <<job, sttSession, local, complete, consumer, asserted>>

\* get() returns None: the iteration ends.
ConsumeEnd ==
  /\ consumer = "running" /\ outQueue # <<>> /\ outQueue[1] = EndMark
  /\ consumer' = "ended" /\ complete' = TRUE /\ outQueue' = Tail(outQueue)
  /\ UNCHANGED <<job, sttSession, local, heard, asserted>>

\* The job is done: its _stt_recv_loop cancels the consumer in get(), and then run
\* calls shutdown, which puts None.
FinishLocal ==
  /\ job = "running" /\ job' = "closing" /\ consumer' = "ended"
  /\ outQueue' = Append(outQueue, EndMark)
  /\ UNCHANGED <<sttSession, local, complete, heard, asserted>>

\* A loop of the job raises: run calls shutdown while the other loops go on.
FailLocal ==
  /\ job = "running" /\ job' = "failing"
  /\ outQueue' = Append(outQueue, EndMark)
  /\ UNCHANGED <<sttSession, local, complete, consumer, heard, asserted>>

\* shutdown returns: the iterator has ended, or nothing has told it so for 2 s.  A
\* consumer that runs would be served first.
ShutdownLocal ==
  /\ job \in {"closing", "failing"} /\ (complete \/ consumer = "ended")
  /\ job' = "idle" /\ complete' = TRUE
  /\ UNCHANGED <<sttSession, local, outQueue, consumer, heard, asserted>>

LocalNext ==
  \/ StartUpLocal \/ SendAudioLocal
  \/ ConsumeWord \/ ConsumeEnd
  \/ FinishLocal \/ FailLocal \/ ShutdownLocal

LocalSpec == LocalInit /\ [][LocalNext]_localVars

\* shutdown: the queue has its end mark, and wait_for its timeout.
LocalFairness ==
  /\ WF_localVars(ConsumeWord \/ ConsumeEnd) /\ WF_localVars(ShutdownLocal)

-------------------------------------------------------------------------------
(* Properties *)

\* A word that is heard is about one frame of the session under way, at the time
\* that it says, and each frame is heard at most once and in its turn, however the
\* audio was cut into pieces; and the recognizer has a result for every frame
\* (assert result is not None).
OwnTranscript ==
  /\ ~asserted
  /\ \A i \in DOMAIN heard :
       /\ heard[i] # EndMark
       /\ heard[i].frame = [k \in 1..FrameSize |-> <<sttSession, heard[i].start * FrameSize + k>>]
       /\ \A j \in 1..i - 1 : heard[j].start < heard[i].start

\* A job that ends or fails is rid of its recognizer, whose slot is then used again,
\* whether or not somebody still iterates and audio still comes.
SlotIsReused == (job \in {"closing", "failing"}) ~> (job = "idle")
===============================================================================
