-------------------------- MODULE MCSceneCommands ---------------------------
(***************************************************************************)
(* Three sizes in pages of eight: an odd one, an odd one and an even one   *)
(* as in the program, which fill a page exactly in some orders and need a  *)
(* padding in others.                                                      *)
(***************************************************************************)
EXTENDS SceneCommands

MCCommandSize == [load |-> 1, props |-> 3, create |-> 4]
=============================================================================
