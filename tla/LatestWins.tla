------------------------------ MODULE LatestWins ------------------------------
(***************************************************************************)
(* What Channel promises about the reference text that conditions the      *)
(* model: every RAG trigger is numbered, and the streaming-sum condition   *)
(* may be replaced only by the answer to the newest trigger minted so far. *)
(* An answer that comes back after a newer trigger is dropped.             *)
(***************************************************************************)
EXTENDS Naturals

VARIABLES
  newest,  \* number of the newest trigger (Channel._rag_seq)
  shown    \* number of the trigger whose answer conditions the model, 0 if none

latestVars == <<newest, shown>>

LatestInit == newest = 0 /\ shown = 0

\* A trigger, confirmed or predictive, mints the next number.
Issue == newest' = newest + 1 /\ UNCHANGED shown

\* The answer to the newest trigger, and no other, is put in place.
Show == newest > 0 /\ shown' = newest /\ UNCHANGED newest

LatestNext == Issue \/ Show

LatestSpec == LatestInit /\ [][LatestNext]_latestVars
===============================================================================
