----------------------------- MODULE MCConnection -----------------------------
(* Model checking of a connection, a part at a time: its tasks, and each of the   *)
(* three speech-to-text services between the tasks that use it.  Four jobs are a  *)
(* retrieval, the one that replaces it, and two more that outlive the loop that   *)
(* has spawned them.                                                              *)
EXTENDS ChannelLifecycle, LocalSTT, GradiumSTT, RemoteSTT

VARIABLE part

ConnectionInit ==
  /\ Init /\ LocalInit /\ GradiumInit /\ RemoteInit
  /\ part \in {"tasks", "local", "gradium", "remote"}
  /\ part = "remote" \/ protocol = "gradium"

ConnectionNext ==
  \/ part = "tasks" /\ Next /\ UNCHANGED <<localVars, gradiumVars, remoteVars, part>>
  \/ part = "local" /\ LocalNext /\ UNCHANGED <<vars, gradiumVars, remoteVars, part>>
  \/ part = "gradium" /\ GradiumNext /\ UNCHANGED <<vars, localVars, remoteVars, part>>
  \/ part = "remote" /\ RemoteNext /\ UNCHANGED <<vars, localVars, gradiumVars, part>>

ConnectionVars == <<vars, localVars, gradiumVars, remoteVars, part>>

ConnectionSpec == ConnectionInit /\ [][ConnectionNext]_ConnectionVars

\* What is fair to a part whose turn it is not is never enabled.
FairConnection ==
  ConnectionSpec /\ Fairness /\ LocalFairness /\ GradiumFairness /\ RemoteFairness

\* The calls of each service return: of flush, and of shutdown, which ends the sessions.
SttCallsReturn == FlushIsAnswered /\ SessionsAreClosed /\ SlotIsReused /\ ShutdownReturns
===============================================================================
