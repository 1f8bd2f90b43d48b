------------------------------ MODULE MCEditor ------------------------------
(***************************************************************************)
(* Instances of the editor for TLC.                                        *)
(***************************************************************************)
EXTENDS EditorProps, TLC

CONSTANTS d1, d2

MCMoved == (d1 :> d2) @@ (d2 :> d2)
MCFamily == <<[suid |-> 0, data |-> d1, parent |-> 0],
              [suid |-> 1, data |-> d1, parent |-> 1]>>
=============================================================================
