------------------------- MODULE DataRegistryProps --------------------------
(* What DataRegistry is meant to guarantee.                                *)
EXTENDS DataRegistry

transforms == transform2DRegistry

(***************************************************************************)
(* At every step of every loop, the sparse array and the packed levels     *)
(* name each other: an entry is where the sparse array says, whatever was  *)
(* swapped into a hole, and holds the transform its component points to.   *)
(***************************************************************************)
SparseMatchesDense ==
    /\ \A d \in DOMAIN transforms.mDepth : \A k \in DOMAIN transforms.mDepth[d] :
         LET e == transforms.mDepth[d][k]
         IN  /\ transforms.mSparse[e.id.index] = [depthLevel |-> d - 1, localIndex |-> k - 1]
             /\ e.transform = e.id
    /\ \A i \in Index : HasTransform(transforms, i) =>
         /\ transforms.mSparse[i].depthLevel + 1 \in DOMAIN transforms.mDepth
         /\ transforms.mSparse[i].localIndex + 1
              \in DOMAIN Level(transforms, transforms.mSparse[i].depthLevel)
         /\ EntryOf(transforms, i).id.index = i

(***************************************************************************)
(* Between calls an entry belongs to a component that exists, and not to   *)
(* one that was destroyed, whose index somebody else may have by now.      *)
(***************************************************************************)
EntriesBelong ==
    op = "none" =>
        \A d \in DOMAIN transforms.mDepth : \A k \in DOMAIN transforms.mDepth[d] :
            LET e == transforms.mDepth[d][k] IN e.id # NoID /\ comp[e.id.index].cuid = e.id

\* The transforms from the top of the tree down to i.
PathTo(i) ==
    LET path[n \in 0 .. MaxIndex] ==
          [k \in Live \cup {Root} |->
              IF n = 0 \/ ~Is2D(k) THEN <<>> ELSE Append(path[n - 1][comp[k].parent], comp[k].cuid)]
    IN  path[MaxIndex][i]

(***************************************************************************)
(* After a pass over the levels the world matrix of every component is the *)
(* product of exactly the transforms on its path in the component tree,    *)
(* although the pass never looks at that tree.                             *)
(***************************************************************************)
WorldFollowsTree ==
    op = "none" =>
        \A i \in Live : Is2D(i) => InvalidateTransforms(transforms)[i] = PathTo(i)

(***************************************************************************)
(* The links form one forest: a component that is not being taken down is  *)
(* once in the list of its parent and in no other, and no set of           *)
(* components hangs from itself.                                           *)
(***************************************************************************)
TreeExact ==
    /\ \A p \in Live \cup {Root} :
         /\ \A i \in Live : comp[i].parent = p
              <=> \E k \in DOMAIN children[p] : children[p][k] = i
         /\ \A j, k \in DOMAIN children[p] : children[p][j] = children[p][k] => j = k
         /\ op # "freeing" => \A k \in DOMAIN children[p] : children[p][k] \in Live
    /\ \A S \in SUBSET Live : S # {} => \E i \in S : comp[i].parent \notin S

(***************************************************************************)
(* An identifier names one component in the life of the program: once it   *)
(* is destroyed its index may come back, but under another generation.     *)
(***************************************************************************)
NeverReissued ==
    [][\A i \in Index : comp'[i].cuid # comp[i].cuid /\ comp'[i].cuid # NoID
                         => comp'[i].cuid \notin issued]_vars

(***************************************************************************)
(* The loops together implement the operations of ComponentForest.  A      *)
(* subtree is destroyed when it is detached, a copy appears when it is     *)
(* placed, whole and with the shape and order of the original.             *)
(***************************************************************************)
Hidden ==
    CASE op = "freeing" -> Subtree(doomed[1])
      [] op = "cloning" -> Subtree(copying[1].dst)
      [] OTHER -> {}

Visible == Live \ Hidden
IDsOf(S) == {comp[i].cuid : i \in S}
HiddenIDs == IF op = "cloning" THEN IDsOf(Hidden) ELSE {}

ComponentOf(id) == IF id = NoID THEN Root ELSE id.index

\* The children of i in order, without a copy that is not placed yet.
ChildIDs(i) ==
    LET unplaced == IF op = "cloning" /\ comp[copying[1].dst].parent = i THEN 1 ELSE 0
    IN  [k \in 1 .. Len(children[i]) - unplaced |-> IDOf(children[i][k])]

ShownParent == [id \in IDsOf(Visible) |-> IDOf(comp[id.index].parent)]
ShownType == [id \in IDsOf(Visible) |-> comp[id.index].type]
ShownKids == [id \in IDsOf(Visible) \cup {NoID} |-> ChildIDs(ComponentOf(id))]
ShownUsed == issued \ HiddenIDs

Forest == INSTANCE ComponentForest WITH
    IDs <- ID \ {NoID}, None <- NoID,
    parentOf <- ShownParent, typeOf <- ShownType, kids <- ShownKids, used <- ShownUsed

ImplementsForest == Forest!Spec
=============================================================================
