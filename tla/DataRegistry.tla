---------------------------- MODULE DataRegistry ----------------------------
(***************************************************************************)
(* LDCore/DataRegistry/Lib/DataRegistry.cpp: the components of a scene, a  *)
(* tree kept by parent and sibling links, an array that maps the index of  *)
(* an identifier to its component, and the transforms of the components    *)
(* that have one.  The loops that walk a subtree take one step per         *)
(* component, because each iteration leaves the parts half updated for the *)
(* next; no call begins while another runs.                                *)
(*                                                                         *)
(* A component is named by the index of its identifier.  Its list of       *)
(* children stands for the child and next pointers.                        *)
(***************************************************************************)
EXTENDS Transform2DRegistry, FiniteSets

CONSTANTS
    MixedTrees,   \* may a component with a transform be below one without?
    MaxIssued,    \* bound of the model: components created
    MaxDestroyed  \* bound of the model: components destroyed

ASSUME DataRegistryConstants ==
    /\ MixedTrees \in BOOLEAN
    /\ MaxIssued \in Nat
    /\ MaxDestroyed \in Nat

VARIABLES
    comp,      \* cuidToCompData: the ComponentBase of each index
    children,  \* the children of each component and of the root
    transform2DRegistry,
    op,        \* the loop that is running, or "none"
    work,      \* the local queue of destroy_subtree and reparent_subtree of the transforms
    done,      \* history: the components whose iteration of that loop is over
    doomed,    \* the frames of DataRegistryObj::destroy_subtree
    copying,   \* the frames of duplicate_subtree
    issued     \* history: every identifier a component ever had

treeVars == <<comp, children>>
loopVars == <<op, work, done, doomed, copying>>
vars == <<idVars, treeVars, transform2DRegistry, loopVars, issued>>

Root == -1    \* DataRegistryObj::root
Adrift == -2  \* a null parent
Types == {"data", "2d"}
NoComponent == [cuid |-> NoID, type |-> "data", parent |-> Root]
-----------------------------------------------------------------------------
Live == {i \in Index : comp[i].cuid # NoID}
IDOf(i) == IF i = Root THEN NoID ELSE comp[i].cuid

\* COMPONENT_TYPE_FLAG_TRANSFORM_2D; the root is a plain component.
Is2D(i) == i # Root /\ comp[i].type = "2d"

\* i and everything below it.
Subtree(i) ==
    LET live == Live
    IN  {n \in live : \A S \in SUBSET live :
            i \in S /\ (\A k \in live : comp[k].parent \in S => k \in S) => n \in S}

\* Unless trees are mixed, users keep transforms below transforms.
MayHold(p, type) == MixedTrees \/ type = "data" \/ p = Root \/ Is2D(p)

\* s without x, and s with y behind x.
Without(s, x) ==
    LET k == CHOOSE k \in DOMAIN s : s[k] = x
    IN  [j \in 1 .. Len(s) - 1 |-> IF j < k THEN s[j] ELSE s[j + 1]]

WithAfter(s, x, y) ==
    LET k == CHOOSE k \in DOMAIN s : s[k] = x
    IN  [j \in 1 .. Len(s) + 1 |->
            IF j <= k THEN s[j] ELSE IF j = k + 1 THEN y ELSE s[j - 1]]

\* id_hierarchy: which children of i have a transform, in order.
Hierarchy(i) ==
    {f \in UNION {[1 .. n -> DOMAIN children[i]] : n \in 0 .. Len(children[i])} :
        /\ \A j, k \in DOMAIN f : j < k => f[j] < f[k]
        /\ \A k \in DOMAIN children[i] : Is2D(children[i][k]) <=> \E j \in DOMAIN f : f[j] = k}

\* The queue after the children of i are pushed to it.
Pushed(queue, i, f) ==
    queue \o [k \in DOMAIN f |-> [id |-> IDOf(children[i][f[k]]), parentID |-> IDOf(i)]]

Init ==
    /\ IDInit
    /\ comp = [i \in Index |-> NoComponent]
    /\ children = [i \in Index \cup {Root} |-> <<>>]
    /\ transform2DRegistry = EmptyTransforms
    /\ op = "none"
    /\ work = <<>>
    /\ done = {}
    /\ doomed = <<>>
    /\ copying = <<>>
    /\ issued = {}
-----------------------------------------------------------------------------
(* create_component                                                        *)

\* The transform is created before the component is linked to its parent.  The
\* 2^24 identifiers do not run out.
NewComponent(type, p) ==
    LET id == NextID
    IN  /\ HasID
        /\ CreateID
        /\ transform2DRegistry' =
              IF type = "2d" THEN CreateTransform(transform2DRegistry, id, IDOf(p))
              ELSE transform2DRegistry
        /\ comp' = [comp EXCEPT ![id.index] = [cuid |-> id, type |-> type, parent |-> p]]
        /\ children' = [children EXCEPT ![p] = Append(@, id.index), ![id.index] = <<>>]
        /\ issued' = issued \cup {id}

CreateComponent(type, p) ==
    /\ op = "none"
    /\ Cardinality(issued) < MaxIssued
    /\ p \in Live \cup {Root}
    /\ MayHold(p, type)
    /\ NewComponent(type, p)
    /\ UNCHANGED loopVars
-----------------------------------------------------------------------------
(* destroy_component_subtree                                               *)

DestroyComponentSubtree(i) ==
    /\ op = "none"
    /\ i \in Live
    /\ Cardinality(issued) - Cardinality(Live \ Subtree(i)) <= MaxDestroyed
    /\ op' = "popping"
    /\ work' = IF Is2D(i) /\ HasTransform(transform2DRegistry, i)
               THEN <<[id |-> IDOf(i), parentID |-> NoID]>> ELSE <<>>
    /\ doomed' = <<i>>
    /\ UNCHANGED <<idVars, treeVars, transform2DRegistry, done, copying, issued>>

\* Mutant: the hierarchy is not walked.
PopTransformRootOnly ==
    /\ op = "popping"
    /\ work # <<>>
    /\ LET i == Head(work).id.index
       IN  /\ work' = Tail(work)
           /\ transform2DRegistry' = SwapAndPop(transform2DRegistry, i)
           /\ done' = done \cup {i}
    /\ UNCHANGED <<idVars, treeVars, op, doomed, copying, issued>>

\* One iteration of Transform2DRegistry::destroy_subtree.
PopTransform ==
    /\ op = "popping"
    /\ work # <<>>
    /\ LET i == Head(work).id.index
       IN  /\ \E f \in Hierarchy(i) : work' = Pushed(Tail(work), i, f)
           /\ transform2DRegistry' = SwapAndPop(transform2DRegistry, i)
           /\ done' = done \cup {i}
    /\ UNCHANGED <<idVars, treeVars, op, doomed, copying, issued>>

\* Mutant: only the first child is unlinked from its parent.
DetachFirstOnly ==
    /\ op = "popping"
    /\ work = <<>>
    /\ LET i == doomed[1]
           p == comp[i].parent
       IN  /\ children' = [children EXCEPT ![p] = IF Head(@) = i THEN Tail(@) ELSE @]
           /\ comp' = [comp EXCEPT ![i].parent = Adrift]
    /\ op' = "freeing"
    /\ done' = {}
    /\ UNCHANGED <<idVars, transform2DRegistry, work, doomed, copying, issued>>

\* detach, once the transforms are gone.
Detach ==
    /\ op = "popping"
    /\ work = <<>>
    /\ LET i == doomed[1]
           p == comp[i].parent
       IN  /\ children' = [children EXCEPT ![p] = Without(@, i)]
           /\ comp' = [comp EXCEPT ![i].parent = Adrift]
    /\ op' = "freeing"
    /\ done' = {}
    /\ UNCHANGED <<idVars, transform2DRegistry, work, doomed, copying, issued>>

\* destroy_subtree calls itself on the next child of the component on top.
\* The links of a freed component are still there to follow.
Descend ==
    /\ op = "freeing"
    /\ LET list == children[doomed[Len(doomed)]]
       IN  \E k \in DOMAIN list :
             /\ list[k] \in Live
             /\ \A j \in 1 .. k - 1 : list[j] \notin Live
             /\ doomed' = Append(doomed, list[k])
    /\ UNCHANGED <<idVars, treeVars, transform2DRegistry, op, work, done, copying, issued>>

\* destroy_component; the list of the parent is left as it is.
FreeComponent ==
    /\ op = "freeing"
    /\ LET i == doomed[Len(doomed)]
       IN  /\ \A k \in DOMAIN children[i] : children[i][k] \notin Live
           /\ i \in Live
           /\ DestroyID(comp[i].cuid)
           /\ comp' = [comp EXCEPT ![i] = NoComponent]
           /\ children' = [children EXCEPT ![i] = <<>>]
    /\ doomed' = SubSeq(doomed, 1, Len(doomed) - 1)
    /\ op' = IF Len(doomed) = 1 THEN "none" ELSE "freeing"
    /\ UNCHANGED <<transform2DRegistry, work, done, copying, issued>>
-----------------------------------------------------------------------------
(* reparent_component_subtree                                              *)

\* The caller does not put a component below itself.
ReparentComponentSubtree(i, p) ==
    /\ op = "none"
    /\ i \in Live /\ p \in Live
    /\ MayHold(p, comp[i].type)
    /\ p \notin Subtree(i)
    /\ LET from == comp[i].parent
           left == [children EXCEPT ![from] = Without(@, i)]
       IN  children' = [left EXCEPT ![p] = Append(@, i)]
    /\ comp' = [comp EXCEPT ![i].parent = p]
    /\ IF Is2D(p) /\ Is2D(i)
       THEN /\ op' = "moving"
            /\ work' = <<[id |-> IDOf(i), parentID |-> IDOf(p)]>>
       ELSE UNCHANGED <<op, work>>
    /\ UNCHANGED <<idVars, transform2DRegistry, done, doomed, copying, issued>>

\* Mutant: the components below the one that moved keep their levels.
MoveTransformRootOnly ==
    /\ op = "moving"
    /\ work # <<>>
    /\ LET w == Head(work)
       IN  /\ work' = Tail(work)
           /\ transform2DRegistry' = MoveTransform(transform2DRegistry, w.id, w.parentID)
           /\ done' = IF work' = <<>> THEN {} ELSE done \cup {w.id.index}
    /\ op' = IF work' = <<>> THEN "none" ELSE "moving"
    /\ UNCHANGED <<idVars, treeVars, doomed, copying, issued>>

\* One iteration of Transform2DRegistry::reparent_subtree.
MoveTransformStep ==
    /\ op = "moving"
    /\ work # <<>>
    /\ LET w == Head(work)
       IN  /\ \E f \in Hierarchy(w.id.index) : work' = Pushed(Tail(work), w.id.index, f)
           /\ transform2DRegistry' = MoveTransform(transform2DRegistry, w.id, w.parentID)
           /\ done' = IF work' = <<>> THEN {} ELSE done \cup {w.id.index}
    /\ op' = IF work' = <<>> THEN "none" ELSE "moving"
    /\ UNCHANGED <<idVars, treeVars, doomed, copying, issued>>
-----------------------------------------------------------------------------
(* clone_component_subtree                                                 *)

CloneComponentSubtree(i) ==
    /\ op = "none"
    /\ i \in Live
    /\ LET n == Cardinality(Subtree(i))
       IN  /\ Cardinality(Live) + n <= MaxIndex  \* identifiers suffice
           /\ Cardinality(issued) + n <= MaxIssued
    /\ NewComponent(comp[i].type, comp[i].parent)
    /\ op' = "cloning"
    /\ copying' = <<[src |-> i, dst |-> NextID.index]>>
    /\ UNCHANGED <<work, done, doomed>>

Top == copying[Len(copying)]
ChildrenCopied == Len(children[Top.dst]) = Len(children[Top.src])

\* duplicate_subtree calls itself on the next child.
CopyChild ==
    /\ op = "cloning"
    /\ ~ChildrenCopied
    /\ LET child == children[Top.src][Len(children[Top.dst]) + 1]
       IN  /\ NewComponent(comp[child].type, Top.dst)
           /\ copying' = Append(copying, [src |-> child, dst |-> NextID.index])
    /\ UNCHANGED <<op, work, done, doomed>>

CopyReturns ==
    /\ op = "cloning"
    /\ ChildrenCopied
    /\ Len(copying) > 1
    /\ copying' = SubSeq(copying, 1, Len(copying) - 1)
    /\ UNCHANGED <<idVars, treeVars, transform2DRegistry, op, work, done, doomed, issued>>

\* Mutant: the copy is placed as the first child.
PlaceCloneFirst ==
    /\ op = "cloning"
    /\ ChildrenCopied
    /\ Len(copying) = 1
    /\ children' = [children EXCEPT ![comp[Top.src].parent] =
                       <<Top.dst>> \o Without(@, Top.dst)]
    /\ op' = "none"
    /\ copying' = <<>>
    /\ UNCHANGED <<idVars, comp, transform2DRegistry, work, done, doomed, issued>>

\* The copy was created as the last child; it belongs behind the original.
PlaceClone ==
    /\ op = "cloning"
    /\ ChildrenCopied
    /\ Len(copying) = 1
    /\ children' = [children EXCEPT ![comp[Top.src].parent] =
                       WithAfter(Without(@, Top.dst), Top.src, Top.dst)]
    /\ op' = "none"
    /\ copying' = <<>>
    /\ UNCHANGED <<idVars, comp, transform2DRegistry, work, done, doomed, issued>>
-----------------------------------------------------------------------------
Next ==
    \/ \E type \in Types, p \in Index \cup {Root} : CreateComponent(type, p)
    \/ \E i \in Index : DestroyComponentSubtree(i)
    \/ PopTransform
    \/ Detach
    \/ Descend
    \/ FreeComponent
    \/ \E i, p \in Index : ReparentComponentSubtree(i, p)
    \/ MoveTransformStep
    \/ \E i \in Index : CloneComponentSubtree(i)
    \/ CopyChild
    \/ CopyReturns
    \/ PlaceClone

Spec == Init /\ [][Next]_vars
=============================================================================
