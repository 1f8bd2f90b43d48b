------------------------------- MODULE Scene --------------------------------
(***************************************************************************)
(* LDCore/Scene/Lib/Scene.cpp: the scene an editor edits and plays.  Play  *)
(* copies the components of the active context and runs the copy; stop     *)
(* throws the copy away.  The two contexts share one registry of serial    *)
(* identifiers, one of runtime identifiers and the subsystems, and that is *)
(* where an operation on one of them reaches the other.                    *)
(*                                                                         *)
(* A component is named by the index of its runtime identifier, which is   *)
(* all that the lookups read of it.  Every component holds one handle of a *)
(* subsystem (a sprite its draw, an audio source its playback, a camera    *)
(* its camera), made by init, load or clone and given back by unload.      *)
(* The operations are called on the main thread and are one step each.     *)
(***************************************************************************)
EXTENDS SUIDRegistry, Sequences, SequencesExt, Functions

CONSTANTS
    Data,     \* what a component shows: its name, transform, properties
    Fresh,    \* the Data of a new component
    MaxComponents  \* bound of the model: components of a scene

ASSUME SceneConstants == Fresh \in Data /\ MaxComponents \in Nat

VARIABLES
    state,    \* SceneState
    active,
    backup,
    indices,  \* sCUIDRegistry: the indices used so far and the free list
    handles,  \* subsystem handles that exist
    orphans   \* history: handles whose component was dropped without unload

sceneVars == <<suidVars, state, active, backup, indices, handles, orphans>>

Root == -1
EmptyContext == [node |-> <<>>, kids |-> [p \in {Root} |-> <<>>], suids |-> <<>>]
NoContext == [node |-> <<>>, kids |-> <<>>, suids |-> <<>>]
Components(c) == DOMAIN c.node
SUIDsOf(c, S) == {c.node[i].suid : i \in S} \ {NoSUID}
-----------------------------------------------------------------------------
(* A context is a forest: node, the ordered kids of every component and    *)
(* of the root, and suids, which maps a serial identifier to the component *)
(* created last under it.  A subtree outside of a context is the sequence  *)
(* of its entries, parents first, as ComponentSubtreeEntry and the scene   *)
(* file keep it.                                                           *)

Parent(c, i) == CHOOSE p \in DOMAIN c.kids : i \in Range(c.kids[p])

\* i and everything below it, parents first or children first.
DepthFirst(c, i, parentsFirst) ==
    LET order[n \in DOMAIN c.kids] ==
          LET below == FlattenSeq([k \in DOMAIN c.kids[n] |-> order[c.kids[n][k]]])
          IN  IF parentsFirst THEN <<n>> \o below ELSE Append(below, n)
    IN  order[i]

PreOrder(c, i) == DepthFirst(c, i, TRUE)
PostOrder(c, i) == DepthFirst(c, i, FALSE)

Subtree(c, i) == ToSet(PreOrder(c, i))
All(c) == Tail(PreOrder(c, Root))

\* The entries of the components of s, a subtree or the whole context.
Entries(c, s) ==
    [k \in DOMAIN s |->
        [suid |-> c.node[s[k]].suid, data |-> c.node[s[k]].data,
         parent |-> LET above == {j \in DOMAIN s : s[k] \in Range(c.kids[s[j]])}
                    IN  IF above = {} THEN 0 ELSE CHOOSE j \in above : TRUE]]

EntrySUIDs(es) == {es[k].suid : k \in DOMAIN es} \ {NoSUID}

\* The k-th index that IDRegistry::create hands out from now on.
NthIndex(k) ==
    LET n == Len(indices.free)
    IN  IF k <= n THEN indices.free[n + 1 - k] ELSE indices.used + k - 1 - n

\* Mutant: the indices stay in the free list.
TakeIndicesNoPop(n) ==
    LET left == Len(indices.free) - n
    IN  indices' = IF left >= 0 THEN indices
                   ELSE [used |-> indices.used - left, free |-> <<>>]

TakeIndices(n) ==
    LET left == Len(indices.free) - n
    IN  indices' = IF left >= 0 THEN [indices EXCEPT !.free = SubSeq(@, 1, left)]
                   ELSE [used |-> indices.used - left, free |-> <<>>]

\* f, and g where f is not defined.
Over(f, g) ==
    [x \in DOMAIN f \cup DOMAIN g |-> IF x \in DOMAIN f THEN f[x] ELSE g[x]]

\* The numbers of S in order.
Ascending(S) ==
    [n \in 1 .. Cardinality(S) |-> CHOOSE x \in S : Cardinality({y \in S : y < x}) = n - 1]

\* The children of entry k of es, which are under the indices that at gives.
KidsOf(es, at, k) ==
    LET js == Ascending({j \in DOMAIN es : es[j].parent = k})
    IN  [n \in DOMAIN js |-> at[js[n]]]

\* c with a component for each entry of es under the index that at gives it,
\* the ones without a parent among es below p.
Attach(c, es, p, at) ==
    LET entry == [i \in Range(at) |-> CHOOSE k \in DOMAIN es : at[k] = i]
    IN  [node |-> Over([i \in Range(at) |->
                          [suid |-> es[entry[i]].suid, data |-> es[entry[i]].data]], c.node),
         kids |-> Over([i \in Range(at) |-> KidsOf(es, at, entry[i])],
                       [c.kids EXCEPT ![p] = @ \o KidsOf(es, at, 0)]),
         suids |-> Over([s \in EntrySUIDs(es) |->
                           LET same == {k \in DOMAIN es : es[k].suid = s}
                           IN  at[CHOOSE k \in same : \A j \in same : j <= k]], c.suids)]

Graft(c, es, p) == Attach(c, es, p, [k \in DOMAIN es |-> NthIndex(k)])

\* s without x.
Without(s, x) ==
    LET js == Ascending({j \in DOMAIN s : s[j] # x})
    IN  [n \in DOMAIN js |-> s[js[n]]]

\* c without the subtree of i.
Prune(c, i) ==
    LET gone == Subtree(c, i)
    IN  [node |-> Restrict(c.node, Components(c) \ gone),
         kids |-> [n \in DOMAIN c.kids \ gone |-> Without(c.kids[n], i)],
         suids |-> Restrict(c.suids, DOMAIN c.suids \ SUIDsOf(c, gone))]

\* c with the last child of p moved behind its sibling i.
PlaceAfter(c, p, i) ==
    LET rest == Front(c.kids[p])
        k == CHOOSE k \in DOMAIN rest : rest[k] = i
    IN  [c EXCEPT !.kids[p] = InsertAt(rest, k + 1, Last(@))]
-----------------------------------------------------------------------------
(* The operations, without the conditions their callers assert.            *)

RoomFor(n) == Cardinality(Components(active)) + n <= MaxComponents

CreateComponentSerial(p) ==
    /\ RoomFor(1)
    /\ TakeIndices(1)
    /\ GetSUIDs(1)
    /\ active' = Graft(active, <<[suid |-> NthSUID(1), data |-> Fresh, parent |-> 0]>>, p)
    /\ handles' = handles + 1
    /\ UNCHANGED <<state, backup, orphans>>

CreateComponentSubtree(es, p) ==
    /\ TakeIndices(Len(es))
    /\ TrySUIDs(EntrySUIDs(es))
    /\ active' = Graft(active, es, p)
    /\ handles' = handles + Len(es)
    /\ UNCHANGED <<state, backup, orphans>>

\* Mutant: only the root gives its identifier and its handle back.
DestroyComponentSubtreeRootOnly(i) ==
    LET gone == PostOrder(active, i)
    IN  /\ FreeSUIDsOf(SUIDsOf(active, {i}))
        /\ indices' = [indices EXCEPT !.free = @ \o gone]
        /\ active' = Prune(active, i)
        /\ handles' = handles - 1
        /\ UNCHANGED <<state, backup, orphans>>

\* unload_subtree, then the registry destroys the children first.
DestroyComponentSubtree(i) ==
    LET gone == PostOrder(active, i)
    IN  /\ FreeSUIDsOf(SUIDsOf(active, ToSet(gone)))
        /\ indices' = [indices EXCEPT !.free = @ \o gone]
        /\ active' = Prune(active, i)
        /\ handles' = handles - Len(gone)
        /\ UNCHANGED <<state, backup, orphans>>

\* What clone_subtree asserts of every component it copies: the identifier
\* that get_suid hands out is not the one the component has.
CopiesDiffer(i) ==
    LET s == PreOrder(active, i)
    IN  Len(s) <= Cardinality(FreeSUIDs) =>
            \A k \in DOMAIN s : NthSUID(k) # active.node[s[k]].suid

\* The copy gets identifiers of its own, also for components without one.
\* Its root then shows d.
CloneComponentSubtree(i, d) ==
    LET s == PreOrder(active, i)
        old == Entries(active, s)
        es == [k \in DOMAIN old |->
                 [old[k] EXCEPT !.suid = NthSUID(k), !.data = IF k = 1 THEN d ELSE @]]
        p == Parent(active, i)
    IN  /\ RoomFor(Len(s))
        /\ TakeIndices(Len(s))
        /\ GetSUIDs(Len(s))
        /\ active' = PlaceAfter(Graft(active, es, p), p, i)
        /\ handles' = handles + Len(s)
        /\ UNCHANGED <<state, backup, orphans>>

\* unload, then load of a scene with the entries es.  The runtime
\* identifiers of the old context are never released.
Unload == registered \ SUIDsOf(active, Components(active))

\* The loader resets the scene between unload and load, and reset asserts
\* that there is no backup, which unload leaves alone.
ResetAsserts == backup = NoContext

Reload(es) ==
    /\ TakeIndices(Len(es))
    /\ registered' = Unload \cup EntrySUIDs(es)
    /\ active' = Graft(EmptyContext, es, Root)
    /\ handles' = handles - Cardinality(Components(active)) + Len(es)
    /\ state' = "loaded"
    /\ UNCHANGED <<counter, backup, orphans>>

\* backup and startup.  A backup that is still there is deleted first.
PlayStarts ==
    LET s == All(active)
    IN  /\ TakeIndices(Len(s))
        /\ active' = Graft(EmptyContext, Entries(active, s), Root)
        /\ backup' = active
        /\ state' = "running"
        /\ handles' = handles + Len(s)
        /\ orphans' = orphans + Cardinality(Components(backup))
        /\ UNCHANGED suidVars

\* startup fails: the copy is unloaded at once and the backup is back.
PlayFails ==
    LET s == All(active)
    IN  /\ TakeIndices(Len(s))
        /\ FreeSUIDsOf(SUIDsOf(active, Components(active)))
        /\ backup' = NoContext
        /\ orphans' = orphans + Cardinality(Components(backup))
        /\ UNCHANGED <<state, active, handles>>

\* Mutant: the copy is deleted without unload.
CleanupWithoutUnload ==
    /\ state' = "loaded"
    /\ active' = backup
    /\ backup' = NoContext
    /\ UNCHANGED <<suidVars, handles, indices, orphans>>

\* Mutant: the editor goes on with the copy.
CleanupKeepsCopy ==
    /\ state' = "loaded"
    /\ backup' = NoContext
    /\ orphans' = orphans + Cardinality(Components(backup))
    /\ UNCHANGED <<suidVars, active, handles, indices>>

\* cleanup after play: the copy is unloaded and the backup is back.
Cleanup ==
    /\ state' = "loaded"
    /\ FreeSUIDsOf(SUIDsOf(active, Components(active)))
    /\ handles' = handles - Cardinality(Components(active))
    /\ active' = backup
    /\ backup' = NoContext
    /\ UNCHANGED <<indices, orphans>>
-----------------------------------------------------------------------------
(* What scripts of a running scene do.                                     *)

Runtime == <<[suid |-> NoSUID, data |-> Fresh, parent |-> 0]>>

CreateChild(i) ==
    /\ RoomFor(1)
    /\ TakeIndices(1)
    /\ active' = Graft(active, Runtime, i)
    /\ handles' = handles + 1
    /\ UNCHANGED <<suidVars, state, backup, orphans>>

\* destroy and post_update in the same frame: no unload.
DestroyAtRuntime(i) ==
    LET gone == PostOrder(active, i)
    IN  /\ indices' = [indices EXCEPT !.free = @ \o gone]
        /\ active' = Prune(active, i)
        /\ orphans' = orphans + Len(gone)
        /\ UNCHANGED <<suidVars, state, backup, handles>>

\* request_transition and update: the old context is deleted, no unload.
Transition ==
    /\ TakeIndices(1)
    /\ active' = Graft(EmptyContext, Runtime, Root)
    /\ handles' = handles + 1
    /\ orphans' = orphans + Cardinality(Components(active))
    /\ UNCHANGED <<suidVars, state, backup>>
=============================================================================
