------------------------------- MODULE MCMovie -------------------------------
(* A machine that polls twice in the first frame after a reset.             *)
EXTENDS Movie

MCMidSync(m) == Len(m) > 1 /\ m[Len(m)] \in Inputs /\ m[Len(m) - 1] \in Commands

\* Rewinding needs a longer run than states do, and failures only one recording.
MCMaxFed(fs) == IF "rewind" \in fs THEN 3 ELSE 2
MCMaxFile(fs) == IF fs = {"rewind"} THEN 5 ELSE 4
MCMaxSessions(fs) == IF "failures" \in fs THEN 1 ELSE 2
=============================================================================
