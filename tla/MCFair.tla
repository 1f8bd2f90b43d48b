------------------------------- MODULE MCFair -------------------------------
(***************************************************************************)
(* The two components that promise an answer, each with its own small      *)
(* instance: Init chooses the one that runs, and the other keeps its       *)
(* initial state. While the project runs there is no audio device, so that *)
(* fairness asks nothing of the audio thread.                              *)
(*                                                                         *)
(* audio: two playbacks of one buffer, which ends within the first period. *)
(* project: three projects, of which a and b share a scene and an          *)
(* asset's SUID, b and c a scene and a path; an import batch of two paths  *)
(* and one that names the same path twice; four SUIDs.                     *)
(***************************************************************************)
EXTENDS AudioSystemProps, ProjectLoad, TLC

CONSTANTS b1, p1, p2, pa, pb, pc, s1, s2, x, y

VARIABLE part \* the component that runs

MCFrames == b1 :> 1
MCFile ==
    (pa :> [scenes |-> {s1}, entries |-> (0 :> x)]) @@
    (pb :> [scenes |-> {s1, s2}, entries |-> (0 :> y)]) @@
    (pc :> [scenes |-> {s2}, entries |-> (1 :> y)])
MCBatches == {<<x, y>>, <<y, y>>}

FairInit ==
    /\ Init /\ ProjectInit
    /\ part \in {"audio", "project"}
    /\ part = "project" => apc = "off"

FairNext ==
    /\ UNCHANGED part
    /\ IF part = "audio" THEN Next ELSE UNCHANGED vars
    /\ IF part = "project" THEN ProjectNext ELSE UNCHANGED projectVars

FairParts == FairInit /\ [][FairNext]_<<part, vars, projectVars>> /\ Fairness /\ ProjectFairness
=============================================================================
