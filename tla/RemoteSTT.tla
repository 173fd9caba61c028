------------------------------ MODULE RemoteSTT -------------------------------
(***************************************************************************)
(* SpeechToText (stt/stt.py): one websocket to a transcription service,    *)
(* of Gradium or of Kyutai.  One caller starts it up, iterates over its    *)
(* words in a task, sends audio, and shuts it down; the caller's task may  *)
(* be cancelled while it starts up.  flush returns at once.                *)
(*                                                                         *)
(* The service is external and may say anything that its protocol has, and *)
(* "garbage", which the message models do not accept.                      *)
(***************************************************************************)
EXTENDS Integers, Sequences, SequencesExt

CONSTANTS
  MaxSaid   \* bound on the messages of the service

ASSUME RemoteSTTAssumption == MaxSaid \in Nat

VARIABLES
  protocol,   \* stt_is_gradium: "gradium" or "kyutai"
  user,       \* the caller: "new", "starting" (awaits the first message), "up", "closing"
              \* (awaits shutdown_complete), "refused", "cancelled", "down"
  websocket,  \* self.websocket is set
  link,       \* the connection: "none", "open", "closed"
  inbox,      \* messages received and not read
  said,       \* how many the service sent
  shutdownComplete,   \* shutdown_complete
  reader,     \* __aiter__: "none", "reading", "yielded" (its caller handles a word),
              \* "left" (was cancelled there), "ended"
  sendFailed  \* a call of send_audio or send_marker has raised

remoteVars == <<protocol, user, websocket, link, inbox, said, shutdownComplete, reader, sendFailed>>

\* The unions GradiumSTTMessage and STTMessage, the requests of a client among them.
Messages ==
  [gradium |-> {"setup", "audio", "ready", "text", "step", "end_text", "end_of_stream", "error"},
   kyutai  |-> {"word", "end_word", "marker", "step", "error", "ready"}]

RemoteInit ==
  /\ protocol \in {"gradium", "kyutai"}
  /\ user = "new" /\ websocket = FALSE /\ link = "none" /\ inbox = <<>> /\ said = 0
  /\ shutdownComplete = FALSE /\ reader = "none" /\ sendFailed = FALSE

\* Mutant: the socket is kept when the service refuses.
KeepsSocket(failed) == TRUE

-------------------------------------------------------------------------------
(* start_up *)

\* websockets.connect; it may fail, as may the lookup of the key, before there is
\* anything to close.
Connect ==
  /\ user = "new"
  /\ \/ user' = "starting" /\ websocket' = TRUE /\ link' = "open"
     \/ user' = "refused" /\ UNCHANGED <<websocket, link>>
  /\ shutdownComplete' = FALSE
  /\ UNCHANGED <<protocol, inbox, said, reader, sendFailed>>

\* What the except clause leaves of the websocket when start_up has failed.
SocketAfter(failed) == ~failed

\* recv returns the first message, or raises when the connection is closed.
Started ==
  /\ user = "starting" /\ (inbox # <<>> \/ link = "closed")
  /\ LET ready == inbox # <<>> /\ inbox[1] = "ready"
     IN  /\ user' = IF ready THEN "up" ELSE "refused"
         /\ websocket' = SocketAfter(~ready)
         /\ link' = IF websocket' THEN link ELSE "closed"
         /\ inbox' = IF inbox = <<>> THEN inbox ELSE Tail(inbox)
  /\ UNCHANGED <<protocol, said, shutdownComplete, reader, sendFailed>>

\* CancelledError is not an Exception: nothing is closed.
StartCancelled ==
  /\ user = "starting" /\ user' = "cancelled"
  /\ UNCHANGED <<protocol, websocket, link, inbox, said, shutdownComplete, reader, sendFailed>>

-------------------------------------------------------------------------------
(* send_audio and send_marker: a Gradium service gets no marker *)

SendRaises ==
  /\ user = "up" /\ ~sendFailed
  /\ ~websocket \/ link = "closed"
  /\ sendFailed' = TRUE
  /\ UNCHANGED <<protocol, user, websocket, link, inbox, said, shutdownComplete, reader>>

-------------------------------------------------------------------------------
(* __aiter__ *)

Iterate ==
  /\ user = "up" /\ reader = "none" /\ websocket /\ reader' = "reading"
  /\ UNCHANGED <<protocol, user, websocket, link, inbox, said, shutdownComplete, sendFailed>>

\* The finally clause.
ReaderEnds == reader' = "ended" /\ shutdownComplete' = TRUE

Yields(m) == m \in {"text", "word", "marker"}

\* Gradium: the loop breaks.  Kyutai: it raises, as it does on what it cannot read.
Ends(m) ==
  IF protocol = "gradium" THEN m \in {"end_of_stream", "error"} ELSE m \in {"error", "garbage"}

Read ==
  /\ reader = "reading" /\ inbox # <<>> /\ inbox' = Tail(inbox)
  /\ \/ Yields(inbox[1]) /\ reader' = "yielded" /\ UNCHANGED shutdownComplete
     \/ Ends(inbox[1]) /\ ReaderEnds
     \/ ~Yields(inbox[1]) /\ ~Ends(inbox[1]) /\ UNCHANGED <<reader, shutdownComplete>>
  /\ UNCHANGED <<protocol, user, websocket, link, said, sendFailed>>

ReadClosed ==
  /\ reader = "reading" /\ inbox = <<>> /\ link = "closed" /\ ReaderEnds
  /\ UNCHANGED <<protocol, user, websocket, link, inbox, said, sendFailed>>

ReaderResumes ==
  /\ reader = "yielded" /\ reader' = "reading"
  /\ UNCHANGED <<protocol, user, websocket, link, inbox, said, shutdownComplete, sendFailed>>

\* The task that iterates is cancelled, in the iterator or in its own body; there the
\* event loop closes the generator later.
ReaderCancelled ==
  /\ \/ user = "up" /\ reader = "reading" /\ ReaderEnds
     \/ user = "up" /\ reader = "yielded" /\ reader' = "left" /\ UNCHANGED shutdownComplete
     \/ reader = "left" /\ ReaderEnds
  /\ UNCHANGED <<protocol, user, websocket, link, inbox, said, sendFailed>>

-------------------------------------------------------------------------------
(* shutdown *)

\* The connection is closed, whether or not the service takes the farewell, and is
\* forgotten.
Shutdown ==
  /\ user = "up"
  /\ user' = IF shutdownComplete THEN "down" ELSE "closing"
  /\ websocket' = FALSE
  /\ link' = "closed"
  /\ UNCHANGED <<protocol, inbox, said, shutdownComplete, reader, sendFailed>>

ShutdownWoken ==
  /\ user = "closing" /\ shutdownComplete /\ user' = "down"
  /\ UNCHANGED <<protocol, websocket, link, inbox, said, shutdownComplete, reader, sendFailed>>

\* wait_for gives up after 2 s: nobody iterates, or a word is still being handled.
ShutdownTimesOut ==
  /\ user = "closing" /\ ~shutdownComplete /\ reader # "reading" /\ user' = "down"
  /\ UNCHANGED <<protocol, websocket, link, inbox, said, shutdownComplete, reader, sendFailed>>

-------------------------------------------------------------------------------
(* The service *)

ServiceSays ==
  /\ link = "open" /\ said < MaxSaid
  /\ \E m \in Messages[protocol] \union {"garbage"} : inbox' = Append(inbox, m)
  /\ said' = said + 1
  /\ UNCHANGED <<protocol, user, websocket, link, shutdownComplete, reader, sendFailed>>

ServiceCloses ==
  /\ link = "open" /\ link' = "closed"
  /\ UNCHANGED <<protocol, user, websocket, inbox, said, shutdownComplete, reader, sendFailed>>

RemoteNext ==
  \/ Connect \/ Started \/ StartCancelled \/ SendRaises
  \/ Iterate \/ Read \/ ReadClosed \/ ReaderResumes \/ ReaderCancelled
  \/ Shutdown \/ ShutdownWoken \/ ShutdownTimesOut
  \/ ServiceSays \/ ServiceCloses

RemoteSpec == RemoteInit /\ [][RemoteNext]_remoteVars

RemoteFairness ==
  /\ WF_remoteVars(Started) /\ WF_remoteVars(Read \/ ReadClosed)
  /\ WF_remoteVars(ShutdownWoken \/ ShutdownTimesOut)

-------------------------------------------------------------------------------
(* Properties *)

\* stt.py:323: "Make sure we don't leave a dangling websocket connection".  When the
\* caller is done with the service, or was refused, the connection is closed and
\* forgotten, and a reader that iterates again finds its end.  (A caller that is
\* cancelled while it starts up leaves the connection open.)
NoDanglingSocket ==
  user \in {"refused", "down", "closing"} => link # "open" /\ ~websocket

\* The only shutdown that waits in vain is one that nobody can end: it does not time
\* out while the iterator is still to notice that the connection is closed.
ShutdownReturns == (user = "closing") ~> (user = "down")
===============================================================================
