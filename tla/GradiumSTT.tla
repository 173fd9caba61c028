------------------------------ MODULE GradiumSTT ------------------------------
(***************************************************************************)
(* GradiumSpeechToText (stt/gradium_stt.py) and the tasks of Channel that  *)
(* use it: _recv_loop sends audio, _stt_recv_loop iterates over the words, *)
(* _output_loop asks for a flush when the model wants a reference, so that *)
(* the context of the retrieval has everything the user said before.       *)
(*                                                                         *)
(* Two sessions with the service are opened: start_up enters one, which    *)
(* nobody reads, and __aiter__ another.  The service is external: it       *)
(* recognizes what it is sent in order, with a delay, and answers a flush  *)
(* when it has said every word of the audio before it.                     *)
(***************************************************************************)
EXTENDS Integers, Sequences, SequencesExt

CONSTANTS
  MaxSounds,    \* bound on the pieces of audio
  MaxFlushes    \* bound on the calls of flush

ASSUME GradiumSTTAssumption == MaxSounds \in Nat /\ MaxFlushes \in Nat

VARIABLES
  channel,     \* "entering", "running", "aborting" (its tasks are cancelled), "left"
  started,     \* the session of start_up: "none", "open", "closed"
  spoken,      \* session of __aiter__: [state, in, out, received, said]
  audioQueue,  \* audio_queue: the numbers of the pieces, FLUSH, and NONE for None (by the
               \* time that None is read, push_audio has been cancelled)
  tokens,      \* the length of flush_queue
  pusher,      \* push_audio: "none", "running", "ended"
  iterator,    \* "none", "reading", "handling" (the body of the loop awaits), "left"
               \* (it was cancelled there, and the generator is still suspended), "raised"
               \* (an exception left it) or "closed" (the event loop closed it)
  asking,      \* _output_loop is in flush()
  asked,       \* how much audio was sent when it asked, and how many flushes so far
  sounds,      \* pieces of audio sent
  words        \* what the service said, and what _stt_recv_loop has handled

gradiumVars == <<channel, started, spoken, audioQueue, tokens, pusher, iterator,
                 asking, asked, sounds, words>>

FLUSH == 0
NONE  == -1

GradiumInit ==
  /\ channel = "entering" /\ started = "none"
  /\ spoken = [state |-> "none", in |-> <<>>, out |-> <<>>, received |-> 0, said |-> 0]
  /\ audioQueue = <<>> /\ tokens = 0
  /\ pusher = "none" /\ iterator = "none"
  /\ asking = FALSE /\ asked = [sounds |-> 0, count |-> 0]
  /\ sounds = 0 /\ words = [said |-> {}, handled |-> {}]

\* Mutants.
Overtakes(queue) == <<FLUSH>> \o queue
AnsweredAtOnce(n) == n + 1
Swallowed(n) == n

-------------------------------------------------------------------------------
(* start_up, send_audio, flush *)

StartUpGradium ==
  /\ channel = "entering" /\ channel' = "running" /\ started' = "open"
  /\ UNCHANGED <<spoken, audioQueue, tokens, pusher, iterator, asking, asked, sounds, words>>

SendAudioGradium ==
  /\ channel = "running" /\ sounds < MaxSounds
  /\ sounds' = sounds + 1 /\ audioQueue' = Append(audioQueue, sounds + 1)
  /\ UNCHANGED <<channel, started, spoken, tokens, pusher, iterator, asking, asked, words>>

\* A request to flush goes behind the audio.
Requested(queue) == Append(queue, FLUSH)

Flush ==
  /\ channel = "running" /\ ~asking /\ asked.count < MaxFlushes
  /\ audioQueue' = Requested(audioQueue)
  /\ asking' = TRUE /\ asked' = [sounds |-> sounds, count |-> asked.count + 1]
  /\ UNCHANGED <<channel, started, spoken, tokens, pusher, iterator, sounds, words>>

FlushReturns ==
  /\ channel = "running" /\ asking /\ tokens > 0
  /\ tokens' = tokens - 1 /\ asking' = FALSE
  /\ UNCHANGED <<channel, started, spoken, audioQueue, pusher, iterator, asked, sounds, words>>

-------------------------------------------------------------------------------
(* __aiter__ and push_audio *)

OpenSession ==
  /\ channel = "running" /\ iterator = "none"
  /\ spoken' = [spoken EXCEPT !.state = "open"]
  /\ pusher' = "running" /\ iterator' = "reading"
  /\ UNCHANGED <<channel, started, audioQueue, tokens, asking, asked, sounds, words>>

\* What the pusher adds to flush_queue when it sends a flush: nothing.
AfterSendFlush(n) == n

Push ==
  /\ pusher = "running" /\ audioQueue # <<>>
  /\ audioQueue' = Tail(audioQueue)
  /\ spoken' = IF spoken.state = "open" THEN [spoken EXCEPT !.in = Append(@, audioQueue[1])]
                                        ELSE spoken
  /\ tokens' = IF audioQueue[1] = FLUSH THEN AfterSendFlush(tokens) ELSE tokens
  /\ UNCHANGED <<channel, started, pusher, iterator, asking, asked, sounds, words>>

\* What the finally clause of the iterator leaves in audio_queue and in flush_queue.
LastAudio(queue) == Append(queue, NONE)
LastToken(n) == n + 1

\* The iterator is left, by an exception or since it is closed: its session ends.
EndIterator(how) ==
  /\ iterator' = how /\ pusher' = "ended"
  /\ tokens' = LastToken(tokens)
  /\ spoken' = [spoken EXCEPT !.state = "closed"]

\* Sending fails when the connection is broken, and the inner TaskGroup cancels the
\* task it was entered in.  In the iterator this ends it, and the exception group
\* goes on to the channel; but _stt_recv_loop is cancelled in its own body when it is
\* there, and a task that was cancelled does not make the outer TaskGroup abort.
PushFails ==
  /\ pusher = "running" /\ audioQueue # <<>> /\ spoken.state = "broken"
  /\ \/ iterator = "reading" /\ EndIterator("raised") /\ audioQueue' = LastAudio(Tail(audioQueue))
     \/ /\ iterator = "handling" /\ iterator' = "left"
        /\ pusher' = "ended" /\ audioQueue' = Tail(audioQueue)
        /\ UNCHANGED <<spoken, tokens>>
  /\ UNCHANGED <<channel, started, asking, asked, sounds, words>>

ReadText ==
  /\ iterator = "reading" /\ spoken.out # <<>> /\ spoken.out[1] # FLUSH
  /\ iterator' = "handling"
  /\ UNCHANGED <<channel, started, spoken, audioQueue, tokens, pusher, asking, asked, sounds, words>>

\* The body of _stt_recv_loop is done with the word.
Handled ==
  /\ iterator = "handling"
  /\ words' = [words EXCEPT !.handled = @ \union {spoken.out[1]}]
  /\ spoken' = [spoken EXCEPT !.out = Tail(@)]
  /\ iterator' = "reading"
  /\ UNCHANGED <<channel, started, audioQueue, tokens, pusher, asking, asked, sounds>>

\* A message "flushed".
AfterFlushed(n) == n + 1

ReadFlushed ==
  /\ iterator = "reading" /\ spoken.out # <<>> /\ spoken.out[1] = FLUSH
  /\ tokens' = AfterFlushed(tokens) /\ spoken' = [spoken EXCEPT !.out = Tail(@)]
  /\ UNCHANGED <<channel, started, audioQueue, pusher, iterator, asking, asked, sounds, words>>

\* A message "step" calls vad_callback.
AfterStep(n) == n

ReadStep ==
  /\ iterator = "reading" /\ spoken.state = "open" /\ spoken.received > 0
  /\ tokens' = AfterStep(tokens)
  /\ UNCHANGED <<channel, started, spoken, audioQueue, pusher, iterator, asking, asked, sounds, words>>

\* The connection breaks under the iterator.  (When a session ends without an error,
\* "while True" asks it for messages again.)
ReadFails ==
  /\ iterator = "reading" /\ spoken.state = "broken" /\ spoken.out = <<>>
  /\ EndIterator("raised") /\ audioQueue' = LastAudio(audioQueue)
  /\ UNCHANGED <<channel, started, asking, asked, sounds, words>>

-------------------------------------------------------------------------------
(* The service *)

Recognize ==
  /\ spoken.state = "open" /\ spoken.in # <<>> /\ spoken.in[1] # FLUSH
  /\ spoken' = [spoken EXCEPT !.in = Tail(@), !.received = spoken.in[1]]
  /\ UNCHANGED <<channel, started, audioQueue, tokens, pusher, iterator, asking, asked, sounds, words>>

\* A piece of audio ends a word, or it does not.
Say ==
  /\ spoken.state = "open" /\ spoken.said < spoken.received
  /\ \/ /\ spoken' = [spoken EXCEPT !.said = @ + 1, !.out = Append(@, spoken.said + 1)]
        /\ words' = [words EXCEPT !.said = @ \union {spoken.said + 1}]
     \/ /\ spoken' = [spoken EXCEPT !.said = @ + 1]
        /\ UNCHANGED words
  /\ UNCHANGED <<channel, started, audioQueue, tokens, pusher, iterator, asking, asked, sounds>>

AnswerFlush ==
  /\ spoken.state = "open" /\ spoken.in # <<>> /\ spoken.in[1] = FLUSH
  /\ spoken.said = spoken.received
  /\ spoken' = [spoken EXCEPT !.in = Tail(@), !.out = Append(@, FLUSH)]
  /\ UNCHANGED <<channel, started, audioQueue, tokens, pusher, iterator, asking, asked, sounds, words>>

Break ==
  /\ spoken.state = "open" /\ spoken' = [spoken EXCEPT !.state = "broken"]
  /\ UNCHANGED <<channel, started, audioQueue, tokens, pusher, iterator, asking, asked, sounds, words>>

-------------------------------------------------------------------------------
(* The end of the channel *)

\* A loop has raised, the one that iterates or another.
ChannelAborts ==
  /\ channel = "running" /\ channel' = "aborting"
  /\ UNCHANGED <<started, spoken, audioQueue, tokens, pusher, iterator, asking, asked, sounds, words>>

\* The task group has cancelled the tasks: _output_loop in flush, ...
FlushCancelled ==
  /\ channel = "aborting" /\ asking /\ asking' = FALSE
  /\ UNCHANGED <<channel, started, spoken, audioQueue, tokens, pusher, iterator, asked, sounds, words>>

\* ... and _stt_recv_loop, in the iterator, or in its own body, which leaves the
\* generator suspended until the event loop closes it.
IterationCancelled ==
  /\ channel = "aborting" /\ iterator = "handling" /\ iterator' = "left"
  /\ UNCHANGED <<channel, started, spoken, audioQueue, tokens, pusher, asking, asked, sounds, words>>

\* The generator is closed.
IteratorCloses ==
  /\ \/ channel = "aborting" /\ iterator = "reading"
     \/ iterator = "left"
  /\ EndIterator("closed") /\ audioQueue' = LastAudio(audioQueue)
  /\ UNCHANGED <<channel, started, asking, asked, sounds, words>>

\* The tasks are done: __aexit__ calls shutdown.
ShutdownGradium ==
  /\ channel = "aborting" /\ ~asking /\ iterator \in {"none", "left", "raised", "closed"}
  /\ channel' = "left" /\ started' = "closed"
  /\ UNCHANGED <<spoken, audioQueue, tokens, pusher, iterator, asking, asked, sounds, words>>

Session == Push \/ PushFails \/ ReadText \/ Handled \/ ReadFlushed \/ ReadStep \/ ReadFails
Service == Recognize \/ Say \/ AnswerFlush
Closing == FlushCancelled \/ IterationCancelled \/ IteratorCloses \/ ShutdownGradium

\* ChannelAborts, when it is the iterator that has raised.
IteratorRaised == iterator = "raised" /\ ChannelAborts

GradiumNext ==
  \/ StartUpGradium \/ SendAudioGradium \/ Flush \/ FlushReturns
  \/ OpenSession \/ Session
  \/ Service \/ Break
  \/ ChannelAborts \/ Closing

GradiumSpec == GradiumInit /\ [][GradiumNext]_gradiumVars

\* Each of these is bounded in time: awaits of a queue that has an entry, of a send, of
\* the client's socket.  The service answers as long as the connection stands.
GradiumFairness ==
  /\ WF_gradiumVars(OpenSession) /\ WF_gradiumVars(FlushReturns)
  /\ WF_gradiumVars(Push \/ PushFails) /\ WF_gradiumVars(ReadText \/ ReadFlushed \/ ReadFails)
  /\ WF_gradiumVars(Handled) /\ WF_gradiumVars(Recognize) /\ WF_gradiumVars(AnswerFlush)
  /\ WF_gradiumVars(Say) /\ WF_gradiumVars(IteratorRaised)
  /\ WF_gradiumVars(FlushCancelled) /\ WF_gradiumVars(IterationCancelled)
  /\ WF_gradiumVars(IteratorCloses) /\ WF_gradiumVars(ShutdownGradium)

-------------------------------------------------------------------------------
(* Properties *)

\* When flush returns while the iterator runs, the service has recognized all audio
\* sent before the call, and _stt_recv_loop has handled every word of it: the
\* context that the retrieval then takes from the TurnManager has them.
FlushIsComplete ==
  [][(asking /\ ~asking' /\ channel = "running" /\ iterator \in {"reading", "handling"}) =>
       /\ spoken.said >= asked.sounds
       /\ \A n \in words.said : n <= asked.sounds => n \in words.handled]_gradiumVars

\* A flush is answered, whatever the service was saying, unless its connection breaks.
FlushIsAnswered == asking ~> (~asking \/ pusher = "ended")

\* Whenever a channel ends, both of its sessions with the service do.
SessionsAreClosed ==
  (channel = "aborting") ~> (started = "closed" /\ spoken.state \in {"none", "closed"})

\* channel.py:340-342: "any unhandled exception [...] propagates immediately and
\* cancels sibling tasks".  It does not when sending fails while _stt_recv_loop handles a
\* word: the channel goes on without words, and the next flush stops its audio.
FailureEndsChannel == (pusher = "ended") ~> (channel # "running")
===============================================================================
