------------------------ MODULE Transform2DRegistry -------------------------
(***************************************************************************)
(* LDCore/DataRegistry/Lib/TransformRegistry.cpp.  The transforms of each  *)
(* level of the hierarchy are packed in an array of their own, so that one *)
(* pass over the levels computes every world matrix; a sparse array maps   *)
(* the index of an identifier to its place.  Removal fills the hole with   *)
(* the last entry of the level.                                            *)
(*                                                                         *)
(* A registry is a record r of mDepth, a sequence of levels, and mSparse.  *)
(* Levels and local indices count from 0 as in the code; the sparse array  *)
(* has its final size, its members being -1 until they are used.  A        *)
(* transform is named by the component it was allocated for.               *)
(***************************************************************************)
EXTENDS IDRegistry, SequencesExt

Entry == [id : ID, parentID : ID, transform : ID]
Nowhere == [depthLevel |-> -1, localIndex |-> 0]

EmptyTransforms == [mDepth |-> <<>>, mSparse |-> [i \in Index |-> Nowhere]]

Level(r, d) == r.mDepth[d + 1]
HasTransform(r, i) == r.mSparse[i].depthLevel >= 0
EntryOf(r, i) == Level(r, r.mSparse[i].depthLevel)[r.mSparse[i].localIndex + 1]

ReserveDepth(r, n) ==
    IF n <= Len(r.mDepth) THEN r
    ELSE [r EXCEPT !.mDepth = @ \o [k \in 1 .. n - Len(r.mDepth) |-> <<>>]]

\* The new last entry of level d, and the sparse member that names it.
PushEntry(r, d, e) ==
    [mDepth  |-> [r.mDepth EXCEPT ![d + 1] = Append(@, e)],
     mSparse |-> [r.mSparse EXCEPT ![e.id.index] =
                     [depthLevel |-> d, localIndex |-> Len(Level(r, d))]]]

\* The level below that of parentID, level 0 when there is no parent.
ChildLevel(r, parentID) ==
    IF parentID = NoID THEN 0 ELSE r.mSparse[parentID.index].depthLevel + 1

CreateTransform(r, id, parentID) ==
    LET d == ChildLevel(r, parentID)
    IN  PushEntry(ReserveDepth(r, d + 1), d,
                  [id |-> id, parentID |-> parentID, transform |-> id])

\* Mutant: the entry that filled the hole is not told its new place.
SwapAndPopLosesLast(r, i) ==
    LET s == r.mSparse[i]
        local == Level(r, s.depthLevel)
        last == local[Len(local)]
    IN  [mDepth  |-> [r.mDepth EXCEPT ![s.depthLevel + 1] =
                         SubSeq([@ EXCEPT ![s.localIndex + 1] = last], 1, Len(@) - 1)],
         mSparse |-> [r.mSparse EXCEPT ![i] = Nowhere]]

SwapAndPop(r, i) ==
    LET s == r.mSparse[i]
        local == Level(r, s.depthLevel)
        last == local[Len(local)]
    IN  [mDepth  |-> [r.mDepth EXCEPT ![s.depthLevel + 1] =
                         SubSeq([@ EXCEPT ![s.localIndex + 1] = last], 1, Len(@) - 1)],
         mSparse |-> [r.mSparse EXCEPT ![last.id.index].localIndex = s.localIndex,
                                       ![i] = Nowhere]]

\* One iteration of reparent_subtree: the transform of id leaves its level
\* for the one below its parent's.
MoveTransform(r, id, parentID) ==
    LET d == ChildLevel(r, parentID)
        transform == EntryOf(r, id.index).transform
    IN  PushEntry(SwapAndPop(ReserveDepth(r, d + 1), id.index), d,
                  [id |-> id, parentID |-> parentID, transform |-> transform])

\* invalidate_transforms.  A world matrix is the product of the transforms
\* multiplied into it, here the sequence of their owners; one that no pass
\* has computed yet is unknown.
Unknown == <<"unknown">>

WorldOfLevel(r, d, world) ==
    LET Multiply(w, e) ==
          [w EXCEPT ![e.id.index] =
             Append(IF d = 0 THEN <<>> ELSE w[e.parentID.index], e.transform)]
    IN  FoldLeft(Multiply, world, Level(r, d))

InvalidateTransforms(r) ==
    LET world[d \in 0 .. Len(r.mDepth)] ==
          IF d = 0 THEN [i \in Index |-> Unknown]
          ELSE WorldOfLevel(r, d - 1, world[d - 1])
    IN  world[Len(r.mDepth)]
=============================================================================
