------------------------------ MODULE MCParts -------------------------------
(***************************************************************************)
(* The components that share no state with the rest, each with its own     *)
(* small instance: Init chooses the part that runs, and the others keep    *)
(* their initial state.                                                    *)
(*                                                                         *)
(* queue: four slots, so three jobs fit and every index wraps.             *)
(* triple: five stores.                                                    *)
(* registry: four indices, four components made in all, two destroyed.     *)
(* watch: two files, four changes by others, a kernel queue of three       *)
(* events read two at a time.                                              *)
(* table: two identifiers; two paths with the same stem, one without.      *)
(* render: two frames with any of the windows, the second one in the size  *)
(* of the first or in another.                                             *)
(* pool: three pages of two blocks.                                        *)
(* commands: five commands of three sizes in pages of eight units.         *)
(***************************************************************************)
EXTENDS JobQueue, TripleBuffer, DataRegistryProps, FileWatcher, SUIDTable, RenderSystem, PoolAllocator,
        MCSceneCommands

CONSTANTS a1, a2, b1, ta, tb, s1, s2, x, y, u, u2, v, empty, nu, nv, ne

VARIABLE part \* the component that runs

parts == <<part, queueVars, tripleVars, vars, watchVars, tableVars, renderVars, poolVars, commandVars>>

MCJobType == [j \in {a1, a2, b1} |-> IF j = b1 THEN tb ELSE ta]
MCStem == (u :> nu) @@ (u2 :> nu) @@ (v :> nv) @@ (empty :> ne)

PartsInit ==
    /\ QueueInit /\ TripleInit /\ Init /\ WatchInit /\ TableInit /\ RenderInit /\ PoolInit
    /\ CommandsInit
    /\ part \in {"queue", "triple", "registry", "watch", "table", "render", "pool", "commands"}

\* The first frame has size 1. The program runs on after the last one.
TwoFrames ==
    \/ RenderNext /\ (frames' = 1 => extent' = 1)
    \/ frames = MaxFrames /\ graphState = "none" /\ UNCHANGED renderVars

PartsNext ==
    /\ UNCHANGED part
    /\ IF part = "queue" THEN QueueNext ELSE UNCHANGED queueVars
    /\ IF part = "triple" THEN TripleNext ELSE UNCHANGED tripleVars
    /\ IF part = "registry" THEN Next ELSE UNCHANGED vars
    /\ IF part = "watch" THEN WatchNext ELSE UNCHANGED watchVars
    /\ IF part = "table" THEN TableNext ELSE UNCHANGED tableVars
    /\ IF part = "render" THEN TwoFrames ELSE UNCHANGED renderVars
    /\ IF part = "pool" THEN PoolNext ELSE UNCHANGED poolVars
    /\ IF part = "commands" THEN CommandsNext ELSE UNCHANGED commandVars

PartsSpec == PartsInit /\ [][PartsNext]_parts
=============================================================================
