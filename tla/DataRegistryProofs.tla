------------------------- MODULE DataRegistryProofs -------------------------
(***************************************************************************)
(* For any number of indices, of components and of destructions:           *)
(* identifiers are never handed out twice and the links form one forest,   *)
(* with mixed trees or without; without them, the transforms stay packed   *)
(* and belong to components that exist, and a pass over the levels follows *)
(* the tree.                                                               *)
(***************************************************************************)
EXTENDS DataRegistryProps, SequenceTheorems, FiniteSetTheorems, WellFoundedInduction, TLAPS

IsFree(i) == \E k \in 1 .. Len(mFreeIndexList) : mFreeIndexList[k] = i

(***************************************************************************)
(* The inductive invariant.  An index is in use or free, not both, and is  *)
(* free once; a component in use carries the current generation of its     *)
(* index.  An identifier handed out earlier has a lower generation, unless *)
(* its index is in use.                                                    *)
(***************************************************************************)
IDTypes ==
    /\ mGenerations \in Seq(Nat \ {0})
    /\ mFreeIndexList \in Seq(Nat)
    /\ comp = [i \in Index |-> [cuid   |-> comp[i].cuid,
                                type   |-> comp[i].type,
                                parent |-> comp[i].parent]]

FreeOnce ==
    /\ \A k \in 1 .. Len(mFreeIndexList) : mFreeIndexList[k] < Len(mGenerations)
    /\ \A j, k \in 1 .. Len(mFreeIndexList) :
          mFreeIndexList[j] = mFreeIndexList[k] => j = k

LiveCurrent ==
    \A i \in Live :
        /\ i < Len(mGenerations)
        /\ comp[i].cuid = [index |-> i, gen |-> mGenerations[i + 1]]
        /\ ~IsFree(i)

IssuedPast ==
    \A id \in issued :
        /\ id.index \in Nat /\ id.gen \in Nat
        /\ id.index < Len(mGenerations)
        /\ id.gen <= mGenerations[id.index + 1]
        /\ id.gen = mGenerations[id.index + 1] => ~IsFree(id.index)

IDInv == IDTypes /\ FreeOnce /\ LiveCurrent /\ IssuedPast

\* One step of NeverReissued.
NotReissued ==
    \A i \in Index : comp'[i].cuid # comp[i].cuid /\ comp'[i].cuid # NoID
                       => comp'[i].cuid \notin issued
-----------------------------------------------------------------------------
(* At the start nothing is in use, free or handed out.                     *)
LEMMA IDInvInit == Init => IDInv
  BY DEF Init, IDInit, IDInv, IDTypes, FreeOnce, LiveCurrent, IssuedPast, IsFree, Live,
         NoComponent

(* Links, transforms and the walks leave the invariant alone.              *)
LEMMA IDInvKept ==
  ASSUME IDInv, UNCHANGED <<idVars, issued>>,
         \A i \in Index : comp'[i].cuid = comp[i].cuid,
         comp' = [i \in Index |-> [cuid   |-> comp'[i].cuid,
                                   type   |-> comp'[i].type,
                                   parent |-> comp'[i].parent]]
  PROVE  IDInv' /\ NotReissued
<1>1. Live' = Live
  BY DEF Live
<1>2. \A i : IsFree(i)' <=> IsFree(i)
  BY DEF IsFree, idVars
<1> QED
  BY <1>1, <1>2 DEF IDInv, IDTypes, FreeOnce, LiveCurrent, IssuedPast, NotReissued, Live,
                    idVars

(***************************************************************************)
(* create hands out an identifier that nobody had: a new index is above    *)
(* every index used so far, and a free one has a generation above those    *)
(* that were handed out with it.                                           *)
(***************************************************************************)
LEMMA CreateIDFresh ==
  ASSUME IDInv, CreateID, NEW id, id = NextID
  PROVE  /\ id \notin issued
         /\ id # NoID
         /\ id.index \in Nat
         /\ id.index < Len(mGenerations')
         /\ id = [index |-> id.index, gen |-> mGenerations'[id.index + 1]]
         /\ ~IsFree(id.index)'
         /\ mGenerations' \in Seq(Nat \ {0})
         /\ mFreeIndexList' \in Seq(Nat)
         /\ FreeOnce'
         /\ \A i \in Nat : i < Len(mGenerations) =>
               i < Len(mGenerations') /\ mGenerations'[i + 1] = mGenerations[i + 1]
         /\ \A i : IsFree(i)' => IsFree(i)
<1> USE DEF IDInv, IDTypes, NoID
<1>1. CASE mFreeIndexList # <<>>
  <2>1. PICK n \in Nat : Len(mFreeIndexList) = n + 1
    <3>1. Len(mFreeIndexList) \in Nat \ {0}
      BY <1>1
    <3>2. Len(mFreeIndexList) - 1 \in Nat
          /\ Len(mFreeIndexList) = (Len(mFreeIndexList) - 1) + 1
      BY <3>1
    <3> QED
      BY <3>2
  <2>2. PICK f : f = mFreeIndexList[n + 1]
    OBVIOUS
  <2>3. f \in Nat /\ f < Len(mGenerations) /\ IsFree(f)
    BY <2>1, <2>2 DEF FreeOnce, IsFree
  <2>4. mGenerations[f + 1] \in Nat \ {0}
    BY <2>3
  <2>5. /\ id = [index |-> f, gen |-> mGenerations[f + 1]]
        /\ mGenerations' = mGenerations
        /\ mFreeIndexList' = SubSeq(mFreeIndexList, 1, n)
    BY <1>1, <2>1, <2>2 DEF NextID, CreateID
  <2>6. /\ mFreeIndexList' \in Seq(Nat)
        /\ Len(mFreeIndexList') = n
        /\ \A k \in 1 .. n : mFreeIndexList'[k] = mFreeIndexList[k]
    BY <2>1, <2>5
  <2>7. \A i : IsFree(i)' => IsFree(i)
    BY <2>1, <2>6 DEF IsFree
  <2>8. ~IsFree(f)'
    BY <2>1, <2>2, <2>6 DEF IsFree, FreeOnce
  <2>9. FreeOnce'
    <3>1. \A k \in 1 .. n : k \in 1 .. Len(mFreeIndexList)
      BY <2>1
    <3> QED
      BY <2>5, <2>6, <3>1 DEF FreeOnce
  <2>10. id \notin issued
    BY <2>3, <2>5 DEF IssuedPast
  <2> QED
    BY <2>3, <2>4, <2>5, <2>6, <2>7, <2>8, <2>9, <2>10
<1>2. CASE mFreeIndexList = <<>>
  <2>1. /\ id = [index |-> Len(mGenerations), gen |-> 1]
        /\ mGenerations' = Append(mGenerations, 1)
        /\ mFreeIndexList' = <<>>
    BY <1>2 DEF NextID, CreateID
  <2>2. /\ mGenerations' \in Seq(Nat \ {0})
        /\ Len(mGenerations') = Len(mGenerations) + 1
        /\ mGenerations'[Len(mGenerations) + 1] = 1
        /\ \A i \in Nat : i < Len(mGenerations) => mGenerations'[i + 1] = mGenerations[i + 1]
    BY <2>1
  <2>3. FreeOnce' /\ \A i : ~IsFree(i)'
    BY <2>1 DEF FreeOnce, IsFree
  <2>4. id \notin issued
    BY <2>1 DEF IssuedPast
  <2> QED
    BY <2>1, <2>2, <2>3, <2>4
<1> QED
  BY <1>1, <1>2

(* A new component is the only one whose identifier changes.               *)
LEMMA IDInvNew ==
  ASSUME IDInv, NEW type, NEW p, NewComponent(type, p)
  PROVE  IDInv' /\ NotReissued
<1>1. CreateID
  BY DEF NewComponent
<1>2. PICK id : id = NextID
  OBVIOUS
<1>3. /\ comp' = [comp EXCEPT ![id.index] = [cuid |-> id, type |-> type, parent |-> p]]
      /\ issued' = issued \cup {id}
  BY <1>2 DEF NewComponent
<1>4. /\ id \notin issued
      /\ id # NoID
      /\ id.index \in Nat
      /\ id.index < Len(mGenerations')
      /\ id = [index |-> id.index, gen |-> mGenerations'[id.index + 1]]
      /\ ~IsFree(id.index)'
      /\ mGenerations' \in Seq(Nat \ {0})
      /\ mFreeIndexList' \in Seq(Nat)
      /\ FreeOnce'
      /\ \A i \in Nat : i < Len(mGenerations) =>
            i < Len(mGenerations') /\ mGenerations'[i + 1] = mGenerations[i + 1]
      /\ \A i : IsFree(i)' => IsFree(i)
  BY <1>1, <1>2, CreateIDFresh
<1>5. IDTypes'
  BY <1>3, <1>4 DEF IDInv, IDTypes
<1>6. \A i \in Index : comp'[i].cuid = IF i = id.index THEN id ELSE comp[i].cuid
  BY <1>3 DEF IDInv, IDTypes
<1>7. LiveCurrent'
  <2> SUFFICES ASSUME NEW i \in Index, comp'[i].cuid # NoID
               PROVE  /\ i < Len(mGenerations')
                      /\ comp'[i].cuid = [index |-> i, gen |-> mGenerations'[i + 1]]
                      /\ ~IsFree(i)'
    BY DEF LiveCurrent, Live
  <2>1. CASE i = id.index
    BY <1>4, <1>6, <2>1
  <2>2. CASE i # id.index
    <3>1. i \in Nat /\ i \in Live
      BY <1>6, <2>2, IDConstants DEF Live, Index
    <3> QED
      BY <1>4, <1>6, <2>2, <3>1 DEF IDInv, LiveCurrent
  <2> QED
    BY <2>1, <2>2
<1>8. IssuedPast'
  <2> SUFFICES ASSUME NEW c \in issued \cup {id}
               PROVE  /\ c.index \in Nat /\ c.gen \in Nat
                      /\ c.index < Len(mGenerations')
                      /\ c.gen <= mGenerations'[c.index + 1]
                      /\ c.gen = mGenerations'[c.index + 1] => ~IsFree(c.index)'
    BY <1>3 DEF IssuedPast
  <2>1. CASE c = id
    <3>1. mGenerations'[id.index + 1] \in Nat
      BY <1>4
    <3>2. id.gen = mGenerations'[id.index + 1]
      BY <1>4
    <3> QED
      BY <1>4, <2>1, <3>1, <3>2
  <2>2. CASE c \in issued
    BY <1>4, <2>2 DEF IDInv, IssuedPast
  <2> QED
    BY <2>1, <2>2
<1>9. NotReissued
  BY <1>4, <1>6 DEF NotReissued
<1> QED
  BY <1>4, <1>5, <1>7, <1>8, <1>9 DEF IDInv
(***************************************************************************)
(* A freed index goes to the free list under the next generation, so the   *)
(* identifiers handed out with it are all in the past.                     *)
(***************************************************************************)
LEMMA IDInvFree ==
  ASSUME IDInv, NEW i \in Live, DestroyID(comp[i].cuid),
         comp' = [comp EXCEPT ![i] = NoComponent], issued' = issued
  PROVE  IDInv' /\ NotReissued
<1> DEFINE n == Len(mFreeIndexList)
           g == mGenerations[i + 1]
<1>1. /\ i \in Index /\ i \in Nat
      /\ i < Len(mGenerations)
      /\ comp[i].cuid = [index |-> i, gen |-> g]
      /\ ~IsFree(i)
  BY IDConstants DEF IDInv, LiveCurrent, Live, Index
<1>2. g \in Nat \ {0} /\ n \in Nat
  BY <1>1 DEF IDInv, IDTypes
<1>3. /\ mGenerations' = [mGenerations EXCEPT ![i + 1] = g + 1]
      /\ mFreeIndexList' = Append(mFreeIndexList, i)
  BY <1>1, <1>2 DEF DestroyID, NoID
<1>4. /\ mGenerations' \in Seq(Nat \ {0})
      /\ Len(mGenerations') = Len(mGenerations)
      /\ mGenerations'[i + 1] = g + 1
      /\ \A k \in Nat : k < Len(mGenerations) /\ k # i =>
            mGenerations'[k + 1] = mGenerations[k + 1]
  BY <1>1, <1>2, <1>3 DEF IDInv, IDTypes
<1>5. /\ mFreeIndexList' \in Seq(Nat)
      /\ Len(mFreeIndexList') = n + 1
      /\ mFreeIndexList'[n + 1] = i
      /\ \A k \in 1 .. n : mFreeIndexList'[k] = mFreeIndexList[k]
  BY <1>1, <1>3 DEF IDInv, IDTypes
<1>6. \A k : IsFree(k)' => IsFree(k) \/ k = i
  BY <1>2, <1>5 DEF IsFree
<1>7. /\ \A k \in Index : comp'[k].cuid = IF k = i THEN NoID ELSE comp[k].cuid
      /\ IDTypes'
  BY <1>1, <1>4, <1>5 DEF IDInv, IDTypes, NoComponent
<1>8. FreeOnce'
  <2>1. \A k \in 1 .. n + 1 : k \in 1 .. n \/ k = n + 1
    BY <1>2
  <2>2. \A k \in 1 .. n : mFreeIndexList[k] # i
    BY <1>1 DEF IsFree
  <2>3. \A k \in 1 .. n : mFreeIndexList[k] < Len(mGenerations)
    BY DEF IDInv, FreeOnce
  <2>4. \A k \in 1 .. n + 1 : mFreeIndexList'[k] < Len(mGenerations')
    BY <1>1, <1>4, <1>5, <2>1, <2>3
  <2>5. \A j, k \in 1 .. n : mFreeIndexList'[j] = mFreeIndexList'[k] => j = k
    BY <1>5 DEF IDInv, FreeOnce
  <2>6. \A k \in 1 .. n : mFreeIndexList'[k] # mFreeIndexList'[n + 1]
    BY <1>5, <2>2
  <2>7. \A j, k \in 1 .. n + 1 : mFreeIndexList'[j] = mFreeIndexList'[k] => j = k
    BY <2>1, <2>5, <2>6
  <2> QED
    BY <1>5, <2>4, <2>7 DEF FreeOnce
<1>9. LiveCurrent'
  <2> SUFFICES ASSUME NEW k \in Live'
               PROVE  /\ k < Len(mGenerations')
                      /\ comp'[k].cuid = [index |-> k, gen |-> mGenerations'[k + 1]]
                      /\ ~IsFree(k)'
    BY DEF LiveCurrent
  <2>1. k \in Live /\ k # i /\ k \in Index /\ k \in Nat
    BY <1>7, IDConstants DEF Live, Index
  <2> QED
    BY <1>4, <1>6, <1>7, <2>1 DEF IDInv, LiveCurrent
<1>10. IssuedPast'
  <2> SUFFICES ASSUME NEW c \in issued
               PROVE  /\ c.index \in Nat /\ c.gen \in Nat
                      /\ c.index < Len(mGenerations')
                      /\ c.gen <= mGenerations'[c.index + 1]
                      /\ c.gen = mGenerations'[c.index + 1] => ~IsFree(c.index)'
    BY DEF IssuedPast
  <2>1. /\ c.index \in Nat /\ c.gen \in Nat
        /\ c.index < Len(mGenerations)
        /\ c.gen <= mGenerations[c.index + 1]
        /\ c.gen = mGenerations[c.index + 1] => ~IsFree(c.index)
    BY DEF IDInv, IssuedPast
  <2>2. CASE c.index = i
    BY <1>2, <1>4, <2>1, <2>2
  <2>3. CASE c.index # i
    BY <1>4, <1>6, <2>1, <2>3
  <2> QED
    BY <2>2, <2>3
<1>11. NotReissued
  BY <1>7 DEF NotReissued
<1> QED
  BY <1>4, <1>5, <1>7, <1>8, <1>9, <1>10, <1>11 DEF IDInv

(* Every step keeps the invariant and hands out no identifier again.       *)
LEMMA IDInvStep == IDInv /\ [Next]_vars => IDInv' /\ NotReissued
<1> SUFFICES ASSUME IDInv, [Next]_vars PROVE IDInv' /\ NotReissued
  OBVIOUS
<1>1. ASSUME NEW type \in Types, NEW p \in Index \cup {Root}, CreateComponent(type, p)
      PROVE  IDInv' /\ NotReissued
  BY <1>1, IDInvNew DEF CreateComponent
<1>2. ASSUME NEW i \in Index, CloneComponentSubtree(i)
      PROVE  IDInv' /\ NotReissued
  BY <1>2, IDInvNew DEF CloneComponentSubtree
<1>3. CASE CopyChild
  BY <1>3, IDInvNew DEF CopyChild
<1>4. CASE FreeComponent
  BY <1>4, IDInvFree DEF FreeComponent
<1>5. CASE UNCHANGED <<idVars, comp, issued>>
  BY <1>5, IDInvKept DEF IDInv, IDTypes
<1>6. ASSUME NEW i \in Index, DestroyComponentSubtree(i)
      PROVE  IDInv' /\ NotReissued
  BY <1>5, <1>6 DEF DestroyComponentSubtree, treeVars
<1>7. CASE PopTransform \/ Descend \/ MoveTransformStep \/ CopyReturns \/ PlaceClone
  BY <1>5, <1>7 DEF PopTransform, Descend, MoveTransformStep, CopyReturns, PlaceClone, treeVars
<1>8. ASSUME NEW i, NEW p, UNCHANGED <<idVars, issued>>, comp' = [comp EXCEPT ![i].parent = p]
      PROVE  IDInv' /\ NotReissued
  <2>1. \A k \in Index : comp[k] = [cuid   |-> comp[k].cuid,
                                    type   |-> comp[k].type,
                                    parent |-> comp[k].parent]
    BY DEF IDInv, IDTypes
  <2>2. comp' = [k \in Index |-> IF k = i THEN [comp[k] EXCEPT !.parent = p] ELSE comp[k]]
    BY <1>8 DEF IDInv, IDTypes
  <2>3. \A k \in Index : /\ comp'[k].cuid = comp[k].cuid
                         /\ comp'[k] = [cuid   |-> comp'[k].cuid,
                                        type   |-> comp'[k].type,
                                        parent |-> comp'[k].parent]
    <3> TAKE k \in Index
    <3>1. PICK c, t, q : comp[k] = [cuid |-> c, type |-> t, parent |-> q]
      BY <2>1
    <3> QED
      BY <2>2, <3>1
  <2>4. comp' = [k \in Index |-> [cuid   |-> comp'[k].cuid,
                                  type   |-> comp'[k].type,
                                  parent |-> comp'[k].parent]]
    BY <2>2, <2>3
  <2> QED
    BY <1>8, <2>3, <2>4, IDInvKept
<1>9. ASSUME NEW i \in Index, NEW p \in Index, ReparentComponentSubtree(i, p)
      PROVE  IDInv' /\ NotReissued
  BY <1>8, <1>9 DEF ReparentComponentSubtree
<1>10. CASE Detach
  BY <1>8, <1>10 DEF Detach
<1>11. CASE UNCHANGED vars
  BY <1>5, <1>11 DEF vars, treeVars
<1> QED
  BY <1>1, <1>2, <1>3, <1>4, <1>6, <1>7, <1>9, <1>10, <1>11 DEF Next

(***************************************************************************)
(* A destroyed component's identifier is never the identifier of another   *)
(* component: sCUIDRegistry.create and destroy as DataRegistry calls them. *)
(***************************************************************************)
THEOREM NeverReissuedCorrect == Spec => NeverReissued
<1>1. IDInv /\ [Next]_vars => [NotReissued]_vars
  BY IDInvStep
<1> QED
  BY IDInvInit, IDInvStep, <1>1, PTL DEF Spec, NeverReissued, NotReissued

(***************************************************************************)
(* Indices and generations: every live component holds the current         *)
(* generation of its index, and no index in use is handed out again.       *)
(***************************************************************************)
THEOREM IdentitiesCorrect == Spec => []IDInv
  BY IDInvInit, IDInvStep, PTL DEF Spec

-----------------------------------------------------------------------------
(***************************************************************************)
(* The inductive invariant of the links.  TreeExact is its middle: to keep *)
(* it, one has to know that a list names only the living, that the frames  *)
(* of a walk are alive and where they hang, and that a copy is no longer   *)
(* than its original.                                                      *)
(***************************************************************************)
In(s, x) == \E k \in DOMAIN s : s[k] = x
NoRepeat(s) == \A j, k \in DOMAIN s : s[j] = s[k] => j = k

TreeTypes ==
    /\ Len(mGenerations) <= MaxIndex
    /\ comp \in [Index -> [cuid : ID, type : Types, parent : Index \cup {Root, Adrift}]]
    /\ children \in [Index \cup {Root} -> Seq(Index)]

\* The links of the live components agree; a list names a freed component only
\* while the component that holds it is taken down.
LinksAgree ==
    \A p \in Live \cup {Root} :
        /\ \A i \in Live : comp[i].parent = p <=> In(children[p], i)
        /\ NoRepeat(children[p])
        /\ \A i \in Index : In(children[p], i) => i \in Live \/ (op = "freeing" /\ In(doomed, p))

\* No component hangs from itself.
NoCycle == \A S \in SUBSET Live : S # {} => \E i \in S : comp[i].parent \notin S

\* A live component hangs from a live one, the root, or is the one taken down.
ParentsLive ==
    \A i \in Live :
        \/ comp[i].parent \in Live \cup {Root}
        \/ op = "freeing" /\ i = doomed[1] /\ comp[i].parent = Adrift

\* The frames of destroy_subtree go down from the component it was called for.
DoomedChain ==
    /\ op \in {"popping", "freeing"} =>
          /\ doomed \in Seq(Index)
          /\ doomed # <<>>
          /\ \A k \in DOMAIN doomed : doomed[k] \in Live
    /\ op = "popping" => Len(doomed) = 1
    /\ op = "freeing" =>
          /\ comp[doomed[1]].parent = Adrift
          /\ \A k \in DOMAIN doomed : k # 1 => comp[doomed[k]].parent = doomed[k - 1]

\* The frames of duplicate_subtree: what was copied of each list is no longer
\* than the list, and the copy as a whole stands next to the original.
CopyFrames ==
    op = "cloning" =>
        /\ copying \in Seq([src : Index, dst : Index])
        /\ copying # <<>>
        /\ \A k \in DOMAIN copying :
              /\ copying[k].src \in Live /\ copying[k].dst \in Live
              /\ comp[copying[k].src].type = comp[copying[k].dst].type
              /\ Len(children[copying[k].dst]) <= Len(children[copying[k].src])
        /\ \A j, k \in DOMAIN copying : copying[j].dst = copying[k].dst => j = k
        /\ copying[1].src # copying[1].dst
        /\ comp[copying[1].src].parent = comp[copying[1].dst].parent

TreeInv == TreeTypes /\ LinksAgree /\ NoCycle /\ ParentsLive /\ DoomedChain /\ CopyFrames

-----------------------------------------------------------------------------
(* Lists of children *)

\* A list with another element at its end.
LEMMA InAppend ==
    ASSUME NEW T, NEW s \in Seq(T), NEW e \in T
    PROVE  /\ Append(s, e) \in Seq(T)
           /\ Len(Append(s, e)) = Len(s) + 1
           /\ \A x : In(Append(s, e), x) <=> In(s, x) \/ x = e
           /\ (NoRepeat(s) /\ ~In(s, e)) => NoRepeat(Append(s, e))
<1> DEFINE a == Append(s, e)
           n == Len(s)
<1>1. /\ n \in Nat /\ DOMAIN s = 1 .. n
      /\ a \in Seq(T) /\ Len(a) = n + 1 /\ DOMAIN a = 1 .. n + 1
      /\ \A k \in 1 .. n : a[k] = s[k]
      /\ a[n + 1] = e
  OBVIOUS
<1> HIDE DEF a, n
<1>2. \A k \in 1 .. n + 1 : k \in 1 .. n \/ k = n + 1
  BY <1>1
<1>3. \A k \in 1 .. n : k \in 1 .. n + 1
  BY <1>1
<1>4. n + 1 \in 1 .. n + 1
  BY <1>1
<1>5. \A x : In(a, x) <=> In(s, x) \/ x = e
  BY <1>1, <1>2, <1>3, <1>4 DEF In
<1>6. ASSUME NoRepeat(s), ~In(s, e), NEW j \in 1 .. n + 1, NEW k \in 1 .. n + 1, a[j] = a[k]
      PROVE  j = k
  BY <1>1, <1>2, <1>6 DEF In, NoRepeat
<1>7. (NoRepeat(s) /\ ~In(s, e)) => NoRepeat(a)
  BY <1>1, <1>6 DEF NoRepeat
<1> QED
  BY <1>1, <1>5, <1>7 DEF a, n

\* The front of a list.
LEMMA InFront ==
    ASSUME NEW T, NEW s \in Seq(T), NEW m \in Nat, Len(s) = m + 1
    PROVE  /\ SubSeq(s, 1, m) \in Seq(T)
           /\ DOMAIN SubSeq(s, 1, m) = 1 .. m /\ Len(SubSeq(s, 1, m)) = m
           /\ \A k \in 1 .. m : SubSeq(s, 1, m)[k] = s[k]
           /\ m # 0 => SubSeq(s, 1, m) # <<>>
OBVIOUS

\* A list without one of its elements.
LEMMA InWithout ==
    ASSUME NEW T, NEW s \in Seq(T), NEW x, In(s, x), NoRepeat(s)
    PROVE  /\ Without(s, x) \in Seq(T)
           /\ Len(s) = Len(Without(s, x)) + 1
           /\ \A y : In(Without(s, x), y) <=> In(s, y) /\ y # x
           /\ NoRepeat(Without(s, x))
<1> DEFINE c == CHOOSE k \in DOMAIN s : s[k] = x
           n == Len(s)
           w == [j \in 1 .. n - 1 |-> IF j < c THEN s[j] ELSE s[j + 1]]
<1>1. n \in Nat /\ DOMAIN s = 1 .. n /\ \A k \in 1 .. n : s[k] \in T
  OBVIOUS
<1>2. c \in 1 .. n /\ s[c] = x
  BY <1>1 DEF In
<1>3. w = Without(s, x)
  BY DEF Without
<1> HIDE DEF c
<1>4. \A j \in 1 .. n - 1 : IF j < c THEN j \in 1 .. n /\ w[j] = s[j] ELSE j + 1 \in 1 .. n /\ w[j] = s[j + 1]
  BY <1>1, <1>2
<1>5. n - 1 \in Nat
  BY <1>1, <1>2
<1>6. w \in Seq(T) /\ Len(w) = n - 1 /\ DOMAIN w = 1 .. n - 1
  BY <1>1, <1>4, <1>5
<1> HIDE DEF w, n
<1>7. ASSUME NEW y, In(w, y) PROVE In(s, y) /\ y # x
  <2>1. PICK j \in 1 .. n - 1 : w[j] = y
    BY <1>6, <1>7 DEF In
  <2>2. CASE j < c
    BY <1>1, <1>2, <1>4, <2>1, <2>2 DEF In, NoRepeat
  <2>3. CASE ~(j < c)
    <3>1. j + 1 \in 1 .. n /\ w[j] = s[j + 1] /\ j + 1 # c
      BY <1>1, <1>2, <1>4, <2>3
    <3> QED
      BY <1>1, <1>2, <2>1, <3>1 DEF In, NoRepeat
  <2> QED
    BY <2>2, <2>3
<1>8. ASSUME NEW y, In(s, y), y # x PROVE In(w, y)
  <2>1. PICK k \in 1 .. n : s[k] = y
    BY <1>1, <1>8 DEF In
  <2>2. CASE k < c
    <3>1. k \in 1 .. n - 1 /\ w[k] = s[k]
      BY <1>1, <1>2, <1>4, <2>2
    <3> QED
      BY <1>6, <2>1, <3>1 DEF In
  <2>3. CASE ~(k < c)
    <3>1. k # c
      BY <1>2, <1>8, <2>1
    <3>2. k - 1 \in 1 .. n - 1 /\ ~(k - 1 < c) /\ (k - 1) + 1 = k
      BY <1>1, <1>2, <2>3, <3>1
    <3>3. w[k - 1] = s[k]
      BY <1>4, <3>2
    <3> QED
      BY <1>6, <2>1, <3>2, <3>3 DEF In
  <2> QED
    BY <2>2, <2>3
<1>9. ASSUME NEW j \in 1 .. n - 1, NEW k \in 1 .. n - 1, w[j] = w[k] PROVE j = k
  <2> DEFINE Kept(i) == IF i < c THEN i ELSE i + 1
  <2>1. \A i \in 1 .. n - 1 : Kept(i) \in 1 .. n /\ w[i] = s[Kept(i)]
    BY <1>4
  <2>2. Kept(j) = Kept(k)
    <3> HIDE DEF Kept
    <3> QED
      BY <1>1, <1>9, <2>1 DEF NoRepeat
  <2> QED
    BY <1>1, <1>2, <2>2
<1>10. NoRepeat(w)
  BY <1>6, <1>9 DEF NoRepeat
<1>11. n = Len(w) + 1
  BY <1>1, <1>6
<1> QED
  BY <1>3, <1>6, <1>7, <1>8, <1>10, <1>11 DEF n

\* A list with a new element behind one of its elements.
LEMMA InWithAfter ==
    ASSUME NEW T, NEW s \in Seq(T), NEW x, NEW y \in T, In(s, x), ~In(s, y), NoRepeat(s)
    PROVE  /\ WithAfter(s, x, y) \in Seq(T)
           /\ \A z : In(WithAfter(s, x, y), z) <=> In(s, z) \/ z = y
           /\ NoRepeat(WithAfter(s, x, y))
<1> DEFINE c == CHOOSE k \in DOMAIN s : s[k] = x
           n == Len(s)
           w == [j \in 1 .. n + 1 |-> IF j <= c THEN s[j] ELSE IF j = c + 1 THEN y ELSE s[j - 1]]
<1>1. n \in Nat /\ DOMAIN s = 1 .. n /\ \A k \in 1 .. n : s[k] \in T
  OBVIOUS
<1>2. c \in 1 .. n /\ s[c] = x
  BY <1>1 DEF In
<1>3. w = WithAfter(s, x, y)
  BY DEF WithAfter
<1> HIDE DEF c
<1>4. \A j \in 1 .. n + 1 : \/ j <= c /\ j \in 1 .. n /\ w[j] = s[j]
                            \/ j = c + 1 /\ w[j] = y
                            \/ c + 1 < j /\ j - 1 \in 1 .. n /\ w[j] = s[j - 1]
  BY <1>1, <1>2
<1>5. w \in Seq(T) /\ DOMAIN w = 1 .. n + 1
  <2>1. \A j \in 1 .. n + 1 : w[j] \in T
    BY <1>1, <1>4
  <2> QED
    BY <1>1, <2>1
<1> HIDE DEF w, n
<1>6. ASSUME NEW z, In(w, z) PROVE In(s, z) \/ z = y
  <2>1. PICK j \in 1 .. n + 1 : w[j] = z
    BY <1>5, <1>6 DEF In
  <2> QED
    BY <1>1, <1>4, <2>1 DEF In
<1>7. ASSUME NEW z, In(s, z) PROVE In(w, z)
  <2>1. PICK k \in 1 .. n : s[k] = z
    BY <1>1, <1>7 DEF In
  <2>2. CASE k <= c
    <3>1. k \in 1 .. n + 1 /\ ~(k = c + 1) /\ ~(c + 1 < k)
      BY <1>1, <1>2, <2>2
    <3>2. w[k] = s[k]
      BY <1>4, <3>1
    <3> QED
      BY <1>5, <2>1, <3>1, <3>2 DEF In
  <2>3. CASE ~(k <= c)
    <3>1. k + 1 \in 1 .. n + 1 /\ ~(k + 1 <= c) /\ k + 1 # c + 1 /\ (k + 1) - 1 = k
      BY <1>1, <1>2, <2>3
    <3>2. w[k + 1] = s[k]
      BY <1>4, <3>1
    <3> QED
      BY <1>5, <2>1, <3>1, <3>2 DEF In
  <2> QED
    BY <2>2, <2>3
<1>8. In(w, y)
  <2>1. c + 1 \in 1 .. n + 1 /\ ~(c + 1 <= c) /\ ~(c + 1 < c + 1)
    BY <1>1, <1>2
  <2>2. w[c + 1] = y
    BY <1>4, <2>1
  <2> QED
    BY <1>5, <2>1, <2>2 DEF In
<1>9. ASSUME NEW j \in 1 .. n + 1, NEW k \in 1 .. n + 1, w[j] = w[k] PROVE j = k
  <2> DEFINE Old(i) == IF i <= c THEN i ELSE i - 1
  <2>1. \A i \in 1 .. n + 1 : (i = c + 1 /\ w[i] = y) \/ (i # c + 1 /\ Old(i) \in 1 .. n /\ w[i] = s[Old(i)])
    BY <1>1, <1>2, <1>4
  <2>2. \A i, h \in 1 .. n + 1 : (i # c + 1 /\ h # c + 1 /\ Old(i) = Old(h)) => i = h
    BY <1>1, <1>2
  <2> HIDE DEF Old
  <2> QED
    BY <1>1, <1>9, <2>1, <2>2 DEF In, NoRepeat
<1>10. NoRepeat(w)
  BY <1>5, <1>9 DEF NoRepeat
<1> QED
  BY <1>3, <1>5, <1>6, <1>7, <1>8, <1>10

\* The rest of a list.
LEMMA InTail ==
    ASSUME NEW T, NEW q \in Seq(T), NEW m \in Nat, Len(q) = m + 1
    PROVE  /\ Head(q) = q[1] /\ Head(q) \in T /\ Tail(q) \in Seq(T)
           /\ DOMAIN q = 1 .. m + 1 /\ DOMAIN Tail(q) = 1 .. m
           /\ \A k \in 1 .. m : Tail(q)[k] = q[k + 1]
OBVIOUS

\* Two lists in a row.
LEMMA InConcat ==
    ASSUME NEW T, NEW s \in Seq(T), NEW t \in Seq(T), NEW m \in Nat, NEW n \in Nat, Len(s) = m, Len(t) = n
    PROVE  /\ s \o t \in Seq(T) /\ DOMAIN (s \o t) = 1 .. m + n
           /\ \A k \in 1 .. m : k \in 1 .. m + n /\ (s \o t)[k] = s[k]
           /\ \A k \in 1 .. n : m + k \in 1 .. m + n /\ (s \o t)[m + k] = t[k]
           /\ \A k \in 1 .. m + n : k \in 1 .. m \/ \E j \in 1 .. n : k = m + j
<1>1. s \o t \in Seq(T) /\ Len(s \o t) = m + n /\ DOMAIN (s \o t) = 1 .. m + n
  OBVIOUS
<1>2. \A k \in 1 .. m : k \in 1 .. m + n /\ (s \o t)[k] = s[k]
  OBVIOUS
<1>3. ASSUME NEW k \in 1 .. n PROVE m + k \in 1 .. m + n /\ (s \o t)[m + k] = t[k]
  <2>1. m + k \in 1 .. m + n /\ m + k > m /\ (m + k) - m = k
    OBVIOUS
  <2> QED
    BY <2>1
<1>4. ASSUME NEW k \in 1 .. m + n, k \notin 1 .. m PROVE \E j \in 1 .. n : k = m + j
  <2>1. k - m \in 1 .. n /\ k = m + (k - m)
    BY <1>4
  <2> QED
    BY <2>1
<1> QED
  BY <1>1, <1>2, <1>3, <1>4

-----------------------------------------------------------------------------
(* The links                                                               *)

\* At the start there is no component.
LEMMA TreeInvInit == Init => TreeInv
<1> SUFFICES ASSUME Init PROVE TreeInv
  OBVIOUS
<1>1. /\ mGenerations = <<>>
      /\ comp = [i \in Index |-> NoComponent]
      /\ children = [i \in Index \cup {Root} |-> <<>>]
      /\ op = "none"
  BY DEF Init, IDInit
<1>2. Live = {}
  BY <1>1 DEF Live, NoComponent
<1>3. TreeTypes
  <2>1. NoComponent \in [cuid : ID, type : Types, parent : Index \cup {Root, Adrift}]
    BY IDConstants DEF NoComponent, NoID, ID, Index, Types
  <2>2. <<>> \in Seq(Index) /\ Len(<<>>) <= MaxIndex
    BY IDConstants
  <2> QED
    BY <1>1, <2>1, <2>2 DEF TreeTypes
<1>4. LinksAgree
  BY <1>1, <1>2 DEF LinksAgree, In, NoRepeat
<1> QED
  BY <1>1, <1>2, <1>3, <1>4 DEF TreeInv, NoCycle, ParentsLive, DoomedChain, CopyFrames

\* The root and the null parent are no components.
LEMMA IndexTypes == Root \notin Index /\ Adrift \notin Index /\ Root # Adrift /\ Live \subseteq Index /\ Index \subseteq Nat
BY IDConstants DEF Root, Adrift, Index, Live

\* A step that leaves the links alone, before anything is taken down.
LEMMA LinksKept ==
    ASSUME TreeInv, UNCHANGED <<mGenerations, comp, children>>, op # "freeing"
    PROVE  TreeTypes' /\ LinksAgree' /\ NoCycle' /\ ParentsLive' /\ Live' = Live
<1>1. Live' = Live
  BY DEF Live
<1>2. TreeTypes' /\ NoCycle' /\ ParentsLive'
  BY <1>1 DEF TreeInv, TreeTypes, NoCycle, ParentsLive
<1>3. LinksAgree'
  BY <1>1 DEF TreeInv, LinksAgree, In, NoRepeat
<1> QED
  BY <1>1, <1>2, <1>3

\* id is the identifier of a new component, the last child of p.
Added(id, type, p) ==
    /\ id.index \in Index \ Live
    /\ id \in ID /\ id # NoID
    /\ Live' = Live \cup {id.index}
    /\ DOMAIN comp' = Index
    /\ \A k \in Index :
          comp'[k] = IF k = id.index THEN [cuid |-> id, type |-> type, parent |-> p] ELSE comp[k]
    /\ DOMAIN children' = Index \cup {Root}
    /\ \A q \in Index \cup {Root} :
          children'[q] = IF q = id.index THEN <<>>
                         ELSE IF q = p THEN Append(children[p], id.index) ELSE children[q]

\* A new component gets an index nobody uses.
LEMMA NewEffect ==
    ASSUME IDInv, TreeInv, NEW type \in Types, NEW p \in Live \cup {Root}, NewComponent(type, p)
    PROVE  Added(NextID, type, p) /\ Len(mGenerations') <= MaxIndex
<1>0. PICK id : id = NextID
  OBVIOUS
<1> DEFINE n == id.index
<1>1. /\ HasID /\ CreateID
      /\ comp' = [comp EXCEPT ![n] = [cuid |-> id, type |-> type, parent |-> p]]
      /\ children' = [children EXCEPT ![p] = Append(@, n), ![n] = <<>>]
  BY <1>0 DEF NewComponent
<1>2. /\ id # NoID
      /\ n \in Nat
      /\ n < Len(mGenerations')
      /\ id = [index |-> n, gen |-> mGenerations'[n + 1]]
      /\ mGenerations' \in Seq(Nat \ {0})
  BY <1>0, <1>1, CreateIDFresh
<1>3. Len(mGenerations') <= MaxIndex
  <2>1. Len(mGenerations) <= MaxIndex /\ mGenerations \in Seq(Nat \ {0})
    BY DEF TreeInv, TreeTypes, IDInv, IDTypes
  <2>2. CASE mFreeIndexList # <<>>
    BY <1>1, <2>1, <2>2 DEF CreateID
  <2>3. CASE mFreeIndexList = <<>>
    <3>1. Len(mGenerations) < MaxIndex
      BY <1>1, <2>3 DEF HasID
    <3>2. mGenerations' = Append(mGenerations, 1)
      BY <1>1, <2>3 DEF CreateID
    <3>3. Len(mGenerations') = Len(mGenerations) + 1 /\ Len(mGenerations) \in Nat
      BY <2>1, <3>2
    <3> QED
      BY <3>1, <3>3, IDConstants
  <2> QED
    BY <2>2, <2>3
<1>4. n \in Index /\ id \in ID
  <2>1. Len(mGenerations') \in Nat /\ mGenerations'[n + 1] \in Nat
    BY <1>2
  <2>2. n \in Index
    BY <1>2, <1>3, <2>1, IDConstants DEF Index
  <2> QED
    BY <1>2, <2>1, <2>2 DEF ID
<1>5. n \notin Live
  <2>1. CASE mFreeIndexList # <<>>
    <3>1. n = mFreeIndexList[Len(mFreeIndexList)]
      BY <1>0, <2>1 DEF NextID
    <3>2. Len(mFreeIndexList) \in 1 .. Len(mFreeIndexList)
      BY <2>1 DEF IDInv, IDTypes
    <3>3. IsFree(n)
      BY <3>1, <3>2 DEF IsFree
    <3> QED
      BY <3>3 DEF IDInv, LiveCurrent
  <2>2. CASE mFreeIndexList = <<>>
    <3>1. n = Len(mGenerations)
      BY <1>0, <2>2 DEF NextID
    <3>2. ~(n < n)
      BY <1>2
    <3> QED
      BY <3>1, <3>2 DEF IDInv, LiveCurrent
  <2> QED
    BY <2>1, <2>2
<1>6. /\ DOMAIN comp' = Index
      /\ \A k \in Index : comp'[k] = IF k = n THEN [cuid |-> id, type |-> type, parent |-> p] ELSE comp[k]
  BY <1>1, <1>4 DEF TreeInv, TreeTypes
<1>7. Live' = Live \cup {n}
  BY <1>2, <1>4, <1>6 DEF Live
<1>8. p \in Index \cup {Root} /\ p # n /\ n # Root
  BY <1>4, <1>5, IndexTypes
<1>9. /\ DOMAIN children' = Index \cup {Root}
      /\ \A q \in Index \cup {Root} :
            children'[q] = IF q = n THEN <<>> ELSE IF q = p THEN Append(children[p], n) ELSE children[q]
  BY <1>1, <1>4, <1>8 DEF TreeInv, TreeTypes
<1> QED
  BY <1>0, <1>2, <1>3, <1>4, <1>5, <1>6, <1>7, <1>9 DEF Added

\* The links still agree, and the new component has no children.
LEMMA NewLinks ==
    ASSUME IDInv, TreeInv, NEW type \in Types, NEW p \in Live \cup {Root}, NewComponent(type, p),
           op # "freeing"
    PROVE  TreeTypes' /\ LinksAgree' /\ NoCycle' /\ ParentsLive'
<1>0. PICK id : id = NextID
  OBVIOUS
<1> DEFINE n == id.index
<1>1a. Added(id, type, p) /\ Len(mGenerations') <= MaxIndex
  BY <1>0, NewEffect
<1>1. /\ n \in Index \ Live
      /\ id \in ID /\ id # NoID
      /\ Len(mGenerations') <= MaxIndex
      /\ Live' = Live \cup {n}
      /\ DOMAIN comp' = Index
      /\ \A k \in Index : comp'[k] = IF k = n THEN [cuid |-> id, type |-> type, parent |-> p] ELSE comp[k]
      /\ DOMAIN children' = Index \cup {Root}
      /\ \A q \in Index \cup {Root} :
            children'[q] = IF q = n THEN <<>> ELSE IF q = p THEN Append(children[p], n) ELSE children[q]
  BY <1>1a DEF Added
<1> HIDE DEF n
<1>2. p \in Index \cup {Root} /\ p # n /\ n # Root /\ Root \notin Index /\ Live \subseteq Index
  BY <1>1, IndexTypes
<1>3. /\ comp \in [Index -> [cuid : ID, type : Types, parent : Index \cup {Root, Adrift}]]
      /\ children \in [Index \cup {Root} -> Seq(Index)]
  BY DEF TreeInv, TreeTypes
<1>4. /\ Append(children[p], n) \in Seq(Index)
      /\ \A x : In(Append(children[p], n), x) <=> In(children[p], x) \/ x = n
      /\ (NoRepeat(children[p]) /\ ~In(children[p], n)) => NoRepeat(Append(children[p], n))
  <2>1. children[p] \in Seq(Index)
    BY <1>2, <1>3
  <2> QED
    BY <1>1, <2>1, InAppend
<1>5. <<>> \in Seq(Index) /\ NoRepeat(<<>>) /\ \A x : ~In(<<>>, x)
  BY DEF NoRepeat, In
<1>6. TreeTypes'
  <2>1. \A k \in Index : comp'[k] \in [cuid : ID, type : Types, parent : Index \cup {Root, Adrift}]
    BY <1>1, <1>2, <1>3
  <2>2. comp' = [k \in Index |-> comp'[k]]
    BY DEF NewComponent, IDInv, IDTypes
  <2>3. \A q \in Index \cup {Root} : children'[q] \in Seq(Index)
    BY <1>1, <1>3, <1>4, <1>5
  <2>4. children' = [q \in Index \cup {Root} |-> children'[q]]
    <3>1. children' = [children EXCEPT ![p] = Append(@, n), ![n] = <<>>]
      BY <1>0 DEF NewComponent, n
    <3> QED
      BY <1>3, <3>1
  <2>5. comp' \in [Index -> [cuid : ID, type : Types, parent : Index \cup {Root, Adrift}]]
    BY <2>1, <2>2
  <2>6. children' \in [Index \cup {Root} -> Seq(Index)]
    BY <2>3, <2>4
  <2> QED
    BY <1>1, <2>5, <2>6 DEF TreeTypes
<1>7. \A q \in Live \cup {Root} :
        /\ \A i \in Live : comp[i].parent = q <=> In(children[q], i)
        /\ NoRepeat(children[q])
        /\ \A i \in Index : In(children[q], i) => i \in Live
  BY DEF TreeInv, LinksAgree
<1>8. \A i \in Live : comp[i].parent \in Live \cup {Root}
  BY DEF TreeInv, ParentsLive
<1>9. LinksAgree'
  <2> SUFFICES ASSUME NEW q \in Live \cup {n} \cup {Root}
               PROVE  /\ \A i \in Live \cup {n} : comp'[i].parent = q <=> In(children'[q], i)
                      /\ NoRepeat(children'[q])
                      /\ \A i \in Index : In(children'[q], i) => i \in Live \cup {n}
    BY <1>1 DEF LinksAgree
  <2>1. /\ comp'[n].parent = p
        /\ \A i \in Live : comp'[i].parent = comp[i].parent
    BY <1>1, <1>2
  <2>2. CASE q = n
    <3>1. children'[q] = <<>>
      BY <1>1, <2>2
    <3> QED
      BY <1>1, <1>2, <1>5, <1>8, <2>1, <2>2, <3>1
  <2>3. CASE q # n /\ q = p
    <3>1. children'[q] = Append(children[p], n)
      BY <1>1, <1>2, <2>3
    <3> QED
      BY <1>1, <1>2, <1>4, <1>7, <2>1, <2>3, <3>1
  <2>4. CASE q # n /\ q # p
    <3>1. children'[q] = children[q]
      BY <1>1, <1>2, <2>4
    <3> QED
      BY <1>1, <1>2, <1>7, <2>1, <2>4, <3>1
  <2> QED
    BY <2>2, <2>3, <2>4
<1>10. NoCycle'
  <2> SUFFICES ASSUME NEW S \in SUBSET (Live \cup {n}), S # {}
               PROVE  \E i \in S : comp'[i].parent \notin S
    BY <1>1 DEF NoCycle
  <2>1. CASE S \subseteq Live
    <3>1. PICK i \in S : comp[i].parent \notin S
      BY <2>1 DEF TreeInv, NoCycle
    <3> QED
      BY <1>1, <1>2, <2>1, <3>1
  <2>2. CASE n \in S /\ p \notin S
    BY <1>1, <2>2
  <2>3. CASE n \in S /\ p \in S
    <3>1. S \ {n} \in SUBSET Live /\ S \ {n} # {}
      BY <1>2, <2>3
    <3>2. PICK i \in S \ {n} : comp[i].parent \notin S \ {n}
      BY <3>1 DEF TreeInv, NoCycle
    <3>3. comp[i].parent # n
      BY <1>1, <1>2, <1>8, <3>1, <3>2
    <3> QED
      BY <1>1, <1>2, <3>1, <3>2, <3>3
  <2> QED
    BY <2>1, <2>2, <2>3
<1>11. ParentsLive'
  BY <1>1, <1>2, <1>8 DEF ParentsLive
<1> QED
  BY <1>6, <1>9, <1>10, <1>11

\* create_component.
LEMMA CreateTree ==
    ASSUME IDInv, TreeInv, NEW type \in Types, NEW p \in Index \cup {Root}, CreateComponent(type, p)
    PROVE  TreeInv'
<1>1. /\ op = "none" /\ op' = "none" /\ p \in Live \cup {Root}
      /\ NewComponent(type, p)
  BY DEF CreateComponent, loopVars
<1> QED
  BY <1>1, NewLinks DEF TreeInv, DoomedChain, CopyFrames

\* clone_component_subtree begins with a copy next to the original.
LEMMA CloneTree ==
    ASSUME IDInv, TreeInv, NEW i \in Index, CloneComponentSubtree(i)
    PROVE  TreeInv'
<1>1. PICK id : id = NextID
  OBVIOUS
<1>2. /\ op = "none" /\ op' = "cloning" /\ i \in Live
      /\ NewComponent(comp[i].type, comp[i].parent)
      /\ copying' = <<[src |-> i, dst |-> id.index]>>
  BY <1>1 DEF CloneComponentSubtree
<1>3. comp[i].type \in Types /\ comp[i].parent \in Live \cup {Root}
  BY <1>2 DEF TreeInv, TreeTypes, ParentsLive
<1>4. TreeTypes' /\ LinksAgree' /\ NoCycle' /\ ParentsLive'
  BY <1>2, <1>3, NewLinks
<1>5. Added(id, comp[i].type, comp[i].parent)
  BY <1>1, <1>2, <1>3, NewEffect
<1> DEFINE n == id.index
<1>6. /\ n \in Index \ Live /\ n \in Live' /\ i \in Live' /\ i # n
      /\ comp'[n].type = comp[i].type /\ comp'[n].parent = comp[i].parent
      /\ comp'[i] = comp[i]
      /\ children'[n] = <<>>
  BY <1>2, <1>5 DEF Added
<1>7. Len(children'[n]) <= Len(children'[i])
  <2>1. children'[i] \in Seq(Index)
    BY <1>4 DEF TreeTypes
  <2>2. Len(children'[i]) \in Nat /\ Len(<<>>) = 0
    BY <2>1
  <2> QED
    BY <1>6, <2>2
<1>8. CopyFrames'
  <2> HIDE DEF n
  <2>1. /\ copying' = <<[src |-> i, dst |-> n]>>
        /\ DOMAIN copying' = {1}
        /\ copying'[1] = [src |-> i, dst |-> n]
        /\ copying' # <<>>
    BY <1>2 DEF n
  <2>2. [src |-> i, dst |-> n] \in [src : Index, dst : Index]
    BY <1>6
  <2>3. copying' \in Seq([src : Index, dst : Index])
    BY <2>1, <2>2
  <2> QED
    BY <1>6, <1>7, <2>1, <2>3 DEF CopyFrames
<1> QED
  BY <1>2, <1>4, <1>8 DEF TreeInv, DoomedChain

\* The innermost frame of duplicate_subtree.
LEMMA TopFrame ==
    ASSUME CopyFrames, op = "cloning", NEW n, n = Len(copying)
    PROVE  /\ n \in Nat \ {0} /\ n \in DOMAIN copying /\ DOMAIN copying = 1 .. n
           /\ Top = copying[n]
           /\ Top.src \in Live /\ Top.dst \in Live
           /\ comp[Top.src].type = comp[Top.dst].type
           /\ Len(children[Top.dst]) <= Len(children[Top.src])
<1>1. copying \in Seq([src : Index, dst : Index]) /\ copying # <<>>
  BY DEF CopyFrames
<1>2. n \in Nat \ {0} /\ DOMAIN copying = 1 .. n
  BY <1>1
<1>3. n \in DOMAIN copying
  BY <1>2
<1> QED
  BY <1>2, <1>3 DEF CopyFrames, Top

\* The next child to copy is one of the list of the original.
LEMMA NextChild ==
    ASSUME TreeInv, CopyChild, NEW child, child = children[Top.src][Len(children[Top.dst]) + 1]
    PROVE  /\ child \in Live /\ comp[child].parent = Top.src /\ comp[child].type \in Types
           /\ Len(children[Top.dst]) < Len(children[Top.src])
           /\ Len(children[Top.dst]) \in Nat /\ Len(children[Top.src]) \in Nat
<1>1. op = "cloning" /\ Len(children[Top.dst]) # Len(children[Top.src])
  BY DEF CopyChild, ChildrenCopied
<1>2. Top.src \in Live /\ Top.dst \in Live /\ Len(children[Top.dst]) <= Len(children[Top.src])
  BY <1>1, TopFrame DEF TreeInv
<1>3. children[Top.dst] \in Seq(Index) /\ children[Top.src] \in Seq(Index)
  BY <1>2 DEF TreeInv, TreeTypes, Live
<1>4. /\ Len(children[Top.dst]) \in Nat /\ Len(children[Top.src]) \in Nat
      /\ DOMAIN children[Top.src] = 1 .. Len(children[Top.src])
  BY <1>3
<1>5. Len(children[Top.dst]) + 1 \in DOMAIN children[Top.src] /\ Len(children[Top.dst]) < Len(children[Top.src])
  BY <1>1, <1>2, <1>4
<1>6. In(children[Top.src], child) /\ child \in Index
  BY <1>3, <1>5 DEF In
<1>7. child \in Live
  BY <1>1, <1>2, <1>6 DEF TreeInv, LinksAgree
<1>8. comp[child].parent = Top.src
  BY <1>2, <1>6, <1>7 DEF TreeInv, LinksAgree
<1> QED
  BY <1>4, <1>5, <1>6, <1>7, <1>8 DEF TreeInv, TreeTypes

\* duplicate_subtree goes on with the next child.
LEMMA CopyChildTree == ASSUME IDInv, TreeInv, CopyChild PROVE TreeInv'
<1>1. PICK id, child : id = NextID /\ child = children[Top.src][Len(children[Top.dst]) + 1]
  OBVIOUS
<1> DEFINE new == [src |-> child, dst |-> id.index]
           n == Len(copying)
<1>2. /\ op = "cloning" /\ op' = "cloning"
      /\ NewComponent(comp[child].type, Top.dst)
      /\ copying' = Append(copying, new)
  BY <1>1 DEF CopyChild
<1>3. /\ child \in Live /\ comp[child].type \in Types
      /\ Len(children[Top.dst]) < Len(children[Top.src])
      /\ Len(children[Top.dst]) \in Nat /\ Len(children[Top.src]) \in Nat
  BY <1>1, NextChild
<1>4. /\ n \in Nat \ {0} /\ DOMAIN copying = 1 .. n
      /\ Top = copying[n] /\ Top.dst \in Live /\ Top.src \in Live
  BY <1>2, TopFrame DEF TreeInv
<1>5. TreeTypes' /\ LinksAgree' /\ NoCycle' /\ ParentsLive'
  BY <1>2, <1>3, <1>4, NewLinks
<1>6. Added(id, comp[child].type, Top.dst)
  BY <1>1, <1>2, <1>3, <1>4, NewEffect
<1>7. /\ id.index \in Index \ Live /\ Live' = Live \cup {id.index}
      /\ \A k \in Live : comp'[k] = comp[k]
      /\ comp'[id.index].type = comp[child].type
      /\ children'[id.index] = <<>>
      /\ children'[Top.dst] = Append(children[Top.dst], id.index)
      /\ \A k \in Live : k # Top.dst => children'[k] = children[k]
  <2> DEFINE d == Top.dst
  <2>1. Added(id, comp[child].type, d) /\ d \in Live
    BY <1>4, <1>6
  <2> HIDE DEF d
  <2>2. /\ id.index \in Index \ Live /\ Live' = Live \cup {id.index}
        /\ \A k \in Live : comp'[k] = comp[k]
        /\ comp'[id.index].type = comp[child].type
        /\ children'[id.index] = <<>>
        /\ \A k \in Live : k # d => children'[k] = children[k]
    BY <2>1, IndexTypes DEF Added
  <2>3. children'[d] = Append(children[d], id.index)
    BY <2>1, IndexTypes DEF Added
  <2> QED
    BY <2>2, <2>3 DEF d
<1>8. \A k \in Live : /\ Len(children[k]) \in Nat
                      /\ k = Top.dst => Len(children'[k]) = Len(children[k]) + 1
                      /\ k # Top.dst => Len(children'[k]) = Len(children[k])
  <2>1. \A k \in Live : children[k] \in Seq(Index)
    BY IndexTypes DEF TreeInv, TreeTypes
  <2>2. Len(Append(children[Top.dst], id.index)) = Len(children[Top.dst]) + 1
    BY <1>4, <1>7, <2>1, InAppend
  <2> QED
    BY <1>7, <2>1, <2>2
<1>9. copying \in Seq([src : Index, dst : Index])
  BY <1>2 DEF TreeInv, CopyFrames
<1>10. new \in [src : Index, dst : Index] /\ new.src = child /\ new.dst = id.index
  BY <1>3, <1>7, IndexTypes
<1> HIDE DEF new
<1>11. /\ copying' \in Seq([src : Index, dst : Index]) /\ copying' # <<>>
       /\ DOMAIN copying' = 1 .. n + 1
       /\ \A k \in 1 .. n : copying'[k] = copying[k]
       /\ copying'[n + 1] = new
  BY <1>2, <1>9, <1>10
<1> HIDE DEF n
<1>12. \A k \in 1 .. n + 1 : k \in 1 .. n \/ k = n + 1
  BY <1>4
<1>13. \A k \in 1 .. n :
         /\ copying[k].src \in Live /\ copying[k].dst \in Live
         /\ comp[copying[k].src].type = comp[copying[k].dst].type
         /\ Len(children[copying[k].dst]) <= Len(children[copying[k].src])
  BY <1>2, <1>4 DEF TreeInv, CopyFrames
<1>14. \A j, k \in 1 .. n : copying[j].dst = copying[k].dst => j = k
  BY <1>2, <1>4 DEF TreeInv, CopyFrames
<1>15. ASSUME NEW k \in 1 .. n + 1
       PROVE  /\ copying'[k].src \in Live' /\ copying'[k].dst \in Live'
              /\ comp'[copying'[k].src].type = comp'[copying'[k].dst].type
              /\ Len(children'[copying'[k].dst]) <= Len(children'[copying'[k].src])
  <2>1. CASE k = n + 1
    <3>1. Len(children'[id.index]) = 0
      BY <1>7
    <3>2. Len(children'[child]) \in Nat
      BY <1>3, <1>8
    <3> QED
      BY <1>3, <1>7, <1>10, <1>11, <2>1, <3>1, <3>2
  <2>2. CASE k \in 1 .. n /\ k # n
    <3>1. n \in 1 .. n
      BY <1>4
    <3>2. copying[k].dst # Top.dst
      BY <1>4, <1>14, <2>2, <3>1
    <3>3. Len(children'[copying[k].dst]) <= Len(children'[copying[k].src])
      <4>1. PICK s, d : s = copying[k].src /\ d = copying[k].dst
        OBVIOUS
      <4>2. s \in Live /\ d \in Live /\ d # Top.dst /\ Len(children[d]) <= Len(children[s])
        BY <1>13, <2>2, <3>2, <4>1
      <4>3. Len(children'[d]) <= Len(children'[s])
        BY <1>8, <4>2
      <4> QED
        BY <4>1, <4>3
    <3> QED
      BY <1>7, <1>11, <1>13, <2>2, <3>3
  <2>3. CASE k = n
    <3>1. n \in 1 .. n
      BY <1>4
    <3>2. Len(children'[Top.dst]) <= Len(children'[Top.src])
      <4>1. PICK s, d : s = Top.src /\ d = Top.dst
        OBVIOUS
      <4>2. /\ s \in Live /\ d \in Live
            /\ Len(children[d]) < Len(children[s])
            /\ Len(children[d]) \in Nat /\ Len(children[s]) \in Nat
        BY <1>3, <1>4, <4>1
      <4>3. s # d
        BY <4>2
      <4>4. Len(children'[d]) = Len(children[d]) + 1 /\ Len(children'[s]) = Len(children[s])
        BY <1>8, <4>1, <4>2, <4>3
      <4>5. Len(children'[d]) <= Len(children'[s])
        BY <4>2, <4>4
      <4> QED
        BY <4>1, <4>5
    <3> QED
      BY <1>4, <1>7, <1>11, <1>13, <2>3, <3>1, <3>2
  <2> QED
    BY <1>12, <2>1, <2>2, <2>3
<1>16. ASSUME NEW j \in 1 .. n + 1, NEW k \in 1 .. n + 1, copying'[j].dst = copying'[k].dst PROVE j = k
  BY <1>7, <1>10, <1>11, <1>12, <1>13, <1>14, <1>16
<1>17. CopyFrames'
  <2>1. 1 \in 1 .. n
    BY <1>4
  <2>2. copying'[1] = copying[1] /\ copying[1].src \in Live /\ copying[1].dst \in Live
    BY <1>11, <1>13, <2>1
  <2>3. copying[1].src # copying[1].dst /\ comp[copying[1].src].parent = comp[copying[1].dst].parent
    BY <1>2 DEF TreeInv, CopyFrames
  <2> QED
    BY <1>7, <1>11, <1>15, <1>16, <2>2, <2>3 DEF CopyFrames
<1> QED
  BY <1>2, <1>5, <1>17 DEF TreeInv, DoomedChain

\* A frame of duplicate_subtree is left.
LEMMA CopyReturnsTree == ASSUME TreeInv, CopyReturns PROVE TreeInv'
<1>1. /\ op = "cloning" /\ op' = "cloning" /\ Len(copying) > 1
      /\ copying' = SubSeq(copying, 1, Len(copying) - 1)
      /\ UNCHANGED <<mGenerations, comp, children>>
  BY DEF CopyReturns, idVars, treeVars
<1>2. TreeTypes' /\ LinksAgree' /\ NoCycle' /\ ParentsLive' /\ Live' = Live
  BY <1>1, LinksKept
<1>3. copying \in Seq([src : Index, dst : Index]) /\ Len(copying) \in Nat
  BY <1>1 DEF TreeInv, CopyFrames
<1>4. PICK m \in Nat \ {0} : Len(copying) = m + 1
  <2>1. Len(copying) - 1 \in Nat \ {0} /\ Len(copying) = (Len(copying) - 1) + 1
    BY <1>1, <1>3
  <2> QED
    BY <2>1
<1>5. /\ copying' \in Seq([src : Index, dst : Index]) /\ copying' # <<>>
      /\ DOMAIN copying' = 1 .. m
      /\ \A k \in 1 .. m : copying'[k] = copying[k]
  <2>1. copying' = SubSeq(copying, 1, m)
    BY <1>1, <1>4
  <2>2. m # 0 /\ 1 \in 1 .. m
    BY <1>4
  <2> QED
    BY <1>3, <1>4, <2>1, <2>2, InFront
<1>6. 1 \in 1 .. m /\ \A k \in 1 .. m : k \in DOMAIN copying
  BY <1>3, <1>4
<1>7. /\ \A k \in 1 .. m :
            /\ copying[k].src \in Live /\ copying[k].dst \in Live
            /\ comp[copying[k].src].type = comp[copying[k].dst].type
            /\ Len(children[copying[k].dst]) <= Len(children[copying[k].src])
      /\ \A j, k \in 1 .. m : copying[j].dst = copying[k].dst => j = k
      /\ copying[1].src # copying[1].dst
      /\ comp[copying[1].src].parent = comp[copying[1].dst].parent
  BY <1>1, <1>6 DEF TreeInv, CopyFrames
<1>8. CopyFrames'
  <2>1. ASSUME NEW k \in 1 .. m
        PROVE  /\ copying'[k].src \in Live' /\ copying'[k].dst \in Live'
               /\ comp'[copying'[k].src].type = comp'[copying'[k].dst].type
               /\ Len(children'[copying'[k].dst]) <= Len(children'[copying'[k].src])
    <3>1. PICK s, d : s = copying[k].src /\ d = copying[k].dst
      OBVIOUS
    <3>2. s \in Live /\ d \in Live /\ comp[s].type = comp[d].type /\ Len(children[d]) <= Len(children[s])
      BY <1>7, <3>1
    <3>3. copying'[k].src = s /\ copying'[k].dst = d
      BY <1>5, <3>1
    <3>4. comp' = comp /\ children' = children
      BY <1>1
    <3> QED
      BY <1>2, <3>2, <3>3, <3>4
  <2>2. \A j, k \in 1 .. m : copying'[j].dst = copying'[k].dst => j = k
    BY <1>5, <1>7
  <2>3. copying'[1] = copying[1] /\ comp' = comp
    BY <1>1, <1>5, <1>6
  <2>4. copying'[1].src # copying'[1].dst /\ comp'[copying'[1].src].parent = comp'[copying'[1].dst].parent
    BY <1>7, <2>3
  <2> QED
    BY <1>5, <2>1, <2>2, <2>4 DEF CopyFrames
<1> QED
  BY <1>1, <1>2, <1>8 DEF TreeInv, DoomedChain

\* A copy that is complete goes behind the original.
LEMMA PlaceCloneTree == ASSUME TreeInv, PlaceClone PROVE TreeInv'
<1>1. PICK s, d, p : s = Top.src /\ d = Top.dst /\ p = comp[s].parent
  OBVIOUS
<1>2. /\ op = "cloning" /\ op' = "none" /\ Len(copying) = 1
      /\ UNCHANGED <<mGenerations, comp>>
      /\ children' = [children EXCEPT ![p] = WithAfter(Without(@, d), s, d)]
  BY <1>1 DEF PlaceClone, idVars
<1>3. s \in Live /\ d \in Live /\ s # d /\ comp[d].parent = p
  <2>1. Top = copying[1]
    BY <1>2 DEF Top
  <2> QED
    BY <1>1, <1>2, <2>1, TopFrame DEF TreeInv, CopyFrames
<1>4. p \in Live \cup {Root} /\ p \in Index \cup {Root} /\ d \in Index
  BY <1>1, <1>2, <1>3, IndexTypes DEF TreeInv, ParentsLive
<1>5. /\ children[p] \in Seq(Index) /\ NoRepeat(children[p])
      /\ In(children[p], s) /\ In(children[p], d)
  BY <1>1, <1>3, <1>4 DEF TreeInv, TreeTypes, LinksAgree
<1>6. PICK w : w = Without(children[p], d)
  OBVIOUS
<1>7. w \in Seq(Index) /\ NoRepeat(w) /\ \A y : In(w, y) <=> In(children[p], y) /\ y # d
  BY <1>5, <1>6, InWithout
<1>8. PICK l : l = WithAfter(w, s, d)
  OBVIOUS
<1>9. l \in Seq(Index) /\ NoRepeat(l) /\ \A y : In(l, y) <=> In(w, y) \/ y = d
  BY <1>3, <1>4, <1>5, <1>7, <1>8, InWithAfter
<1>10. \A y : In(l, y) <=> In(children[p], y)
  BY <1>5, <1>7, <1>9
<1>11. /\ children \in [Index \cup {Root} -> Seq(Index)]
       /\ children' = [children EXCEPT ![p] = l]
  BY <1>2, <1>6, <1>8 DEF TreeInv, TreeTypes
<1>12. /\ children' \in [Index \cup {Root} -> Seq(Index)]
       /\ \A q \in Index \cup {Root} : children'[q] = IF q = p THEN l ELSE children[q]
  BY <1>4, <1>9, <1>11
<1>13. Live' = Live
  BY <1>2 DEF Live
<1>14. TreeTypes' /\ NoCycle' /\ ParentsLive'
  BY <1>2, <1>12, <1>13 DEF TreeInv, TreeTypes, NoCycle, ParentsLive
<1>15. LinksAgree'
  <2> SUFFICES ASSUME NEW q \in Live \cup {Root}
               PROVE  /\ \A i \in Live : comp[i].parent = q <=> In(children'[q], i)
                      /\ NoRepeat(children'[q])
                      /\ \A i \in Index : In(children'[q], i) => i \in Live
    BY <1>2, <1>13 DEF LinksAgree
  <2>1. /\ \A i \in Live : comp[i].parent = q <=> In(children[q], i)
        /\ NoRepeat(children[q])
        /\ \A i \in Index : In(children[q], i) => i \in Live
    BY <1>2 DEF TreeInv, LinksAgree
  <2>2. q \in Index \cup {Root}
    BY IndexTypes
  <2>3. CASE q = p
    <3>1. children'[q] = l
      BY <1>12, <2>2, <2>3
    <3> QED
      BY <1>9, <1>10, <2>1, <2>3, <3>1
  <2>4. CASE q # p
    <3>1. children'[q] = children[q]
      BY <1>12, <2>2, <2>4
    <3> QED
      BY <2>1, <3>1
  <2> QED
    BY <2>3, <2>4
<1> QED
  BY <1>2, <1>14, <1>15 DEF TreeInv, DoomedChain, CopyFrames

\* destroy_component_subtree begins with the transforms.
LEMMA DestroyTree ==
    ASSUME TreeInv, NEW i \in Index, DestroyComponentSubtree(i)
    PROVE  TreeInv'
<1>1. /\ op = "none" /\ op' = "popping" /\ i \in Live /\ doomed' = <<i>>
      /\ UNCHANGED <<mGenerations, comp, children>>
  BY DEF DestroyComponentSubtree, idVars, treeVars
<1>2. TreeTypes' /\ LinksAgree' /\ NoCycle' /\ ParentsLive' /\ Live' = Live
  BY <1>1, LinksKept
<1>3. doomed' \in Seq(Index) /\ doomed' # <<>> /\ Len(doomed') = 1 /\ DOMAIN doomed' = {1} /\ doomed'[1] = i
  BY <1>1
<1>4. DoomedChain'
  BY <1>1, <1>2, <1>3 DEF DoomedChain
<1> QED
  BY <1>1, <1>2, <1>4 DEF TreeInv, CopyFrames

\* The loops over the transforms leave the tree alone.
LEMMA TransformStepsTree == ASSUME TreeInv, PopTransform \/ MoveTransformStep PROVE TreeInv'
<1>1. /\ UNCHANGED <<mGenerations, comp, children, doomed, copying>>
      /\ (op = "popping" /\ op' = "popping") \/ (op = "moving" /\ op' \in {"none", "moving"})
  BY DEF PopTransform, MoveTransformStep, idVars, treeVars
<1>2. op # "freeing"
  BY <1>1
<1>3. TreeTypes' /\ LinksAgree' /\ NoCycle' /\ ParentsLive' /\ Live' = Live
  BY <1>1, <1>2, LinksKept
<1>4. DoomedChain'
  BY <1>1, <1>3 DEF TreeInv, DoomedChain
<1>5. CopyFrames'
  BY <1>1 DEF CopyFrames
<1> QED
  BY <1>3, <1>4, <1>5 DEF TreeInv

\* The innermost frame of destroy_subtree.
LEMMA LastDoomed ==
    ASSUME DoomedChain, op \in {"popping", "freeing"}
    PROVE  /\ Len(doomed) \in Nat \ {0} /\ DOMAIN doomed = 1 .. Len(doomed)
           /\ Len(doomed) \in DOMAIN doomed /\ doomed[Len(doomed)] \in Live
<1>1. doomed \in Seq(Index) /\ doomed # <<>>
  BY DEF DoomedChain
<1>2. Len(doomed) \in Nat \ {0} /\ DOMAIN doomed = 1 .. Len(doomed)
  BY <1>1
<1>3. Len(doomed) \in DOMAIN doomed
  BY <1>2
<1> QED
  BY <1>2, <1>3 DEF DoomedChain

\* destroy_subtree goes down to a child of its last frame.
LEMMA DescendTree == ASSUME TreeInv, Descend PROVE TreeInv'
<1>1. PICK n, t : n = Len(doomed) /\ t = doomed[n]
  OBVIOUS
<1>2. PICK k \in DOMAIN children[t] : children[t][k] \in Live /\ doomed' = Append(doomed, children[t][k])
  BY <1>1 DEF Descend
<1>3. PICK i : i = children[t][k]
  OBVIOUS
<1>4. /\ op = "freeing" /\ op' = "freeing"
      /\ UNCHANGED <<mGenerations, comp, children>>
      /\ i \in Live /\ doomed' = Append(doomed, i)
  BY <1>2, <1>3 DEF Descend, idVars, treeVars
<1>5. Live' = Live /\ i \in Index
  BY <1>4, IndexTypes DEF Live
<1>6. n \in Nat \ {0} /\ DOMAIN doomed = 1 .. n /\ n \in DOMAIN doomed /\ t \in Live
  BY <1>1, <1>4, LastDoomed DEF TreeInv
<1>7. comp[i].parent = t
  <2>1. In(children[t], i)
    BY <1>2, <1>3 DEF In
  <2> QED
    BY <1>4, <1>6, <2>1 DEF TreeInv, LinksAgree
<1>8. doomed \in Seq(Index)
  BY <1>4 DEF TreeInv, DoomedChain
<1>9. /\ doomed' \in Seq(Index) /\ doomed' # <<>> /\ DOMAIN doomed' = 1 .. n + 1
      /\ \A j \in 1 .. n : doomed'[j] = doomed[j]
      /\ doomed'[n + 1] = i
  BY <1>1, <1>4, <1>5, <1>8
<1>10. /\ 1 \in 1 .. n /\ (n + 1) - 1 = n
       /\ \A j \in 1 .. n + 1 : j \in 1 .. n \/ j = n + 1
       /\ \A j \in 1 .. n : j # 1 => j - 1 \in 1 .. n
       /\ \A j \in 1 .. n : j \in 1 .. n + 1
  BY <1>6
<1>11. TreeTypes' /\ NoCycle' /\ ParentsLive'
  <2>1. doomed'[1] = doomed[1]
    BY <1>9, <1>10
  <2> QED
    BY <1>4, <1>5, <2>1 DEF TreeInv, TreeTypes, NoCycle, ParentsLive
<1>12. LinksAgree'
  <2>1. \A p : In(doomed, p) => In(doomed', p)
    BY <1>6, <1>9, <1>10 DEF In
  <2>2. \A p \in Live \cup {Root} :
        /\ \A j \in Live : comp[j].parent = p <=> In(children[p], j)
        /\ NoRepeat(children[p])
        /\ \A j \in Index : In(children[p], j) => j \in Live \/ (op = "freeing" /\ In(doomed, p))
    BY DEF TreeInv, LinksAgree
  <2> QED
    BY <1>4, <1>5, <2>1, <2>2 DEF LinksAgree
<1>13. DoomedChain'
  <2>1. comp[doomed[1]].parent = Adrift
        /\ \A j \in 1 .. n : doomed[j] \in Live /\ (j # 1 => comp[doomed[j]].parent = doomed[j - 1])
    BY <1>4, <1>6 DEF TreeInv, DoomedChain
  <2>2. ASSUME NEW j \in 1 .. n + 1 PROVE doomed'[j] \in Live /\ (j # 1 => comp[doomed'[j]].parent = doomed'[j - 1])
    <3>1. CASE j = n + 1
      BY <1>1, <1>4, <1>6, <1>7, <1>9, <1>10, <3>1
    <3>2. CASE j \in 1 .. n
      BY <1>9, <1>10, <2>1, <3>2
    <3> QED
      BY <1>10, <3>1, <3>2
  <2> QED
    BY <1>4, <1>5, <1>9, <1>10, <2>1, <2>2 DEF DoomedChain
<1> QED
  BY <1>4, <1>11, <1>12, <1>13 DEF TreeInv, CopyFrames

\* A subtree is the least set that holds its top and what hangs from its members.
LEMMA SubtreeIs ==
    ASSUME NEW i \in Live
    PROVE  /\ Subtree(i) \subseteq Live /\ i \in Subtree(i)
           /\ \A k \in Live : comp[k].parent \in Subtree(i) => k \in Subtree(i)
           /\ \A S \in SUBSET Live :
                 (i \in S /\ \A k \in Live : comp[k].parent \in S => k \in S) => Subtree(i) \subseteq S
<1> DEFINE Closed(S) == i \in S /\ (\A k \in Live : comp[k].parent \in S => k \in S)
<1>1. Subtree(i) = {n \in Live : \A S \in SUBSET Live : Closed(S) => n \in S}
  BY DEF Subtree
<1>2. ASSUME NEW k \in Live, comp[k].parent \in Subtree(i) PROVE k \in Subtree(i)
  BY <1>1, <1>2
<1> QED
  BY <1>1, <1>2

\* The subtree is cut off before it is taken down.
LEMMA DetachTree == ASSUME TreeInv, Detach PROVE TreeInv'
<1>1. PICK i, p : i = doomed[1] /\ p = comp[i].parent
  OBVIOUS
<1>2. /\ op = "popping" /\ op' = "freeing"
      /\ UNCHANGED <<mGenerations, doomed, copying>>
      /\ children' = [children EXCEPT ![p] = Without(@, i)]
      /\ comp' = [comp EXCEPT ![i].parent = Adrift]
  BY <1>1 DEF Detach, idVars
<1>3. /\ doomed \in Seq(Index) /\ Len(doomed) = 1 /\ DOMAIN doomed = {1} /\ i \in Live /\ i \in Index
  BY <1>1, <1>2, LastDoomed, IndexTypes DEF TreeInv, DoomedChain
<1>4. p \in Live \cup {Root} /\ p \in Index \cup {Root} /\ p # Adrift
  BY <1>1, <1>2, <1>3, IndexTypes DEF TreeInv, ParentsLive
<1>5. children[p] \in Seq(Index) /\ NoRepeat(children[p]) /\ In(children[p], i)
  BY <1>1, <1>3, <1>4 DEF TreeInv, TreeTypes, LinksAgree
<1>6. PICK w : w = Without(children[p], i)
  OBVIOUS
<1>7. w \in Seq(Index) /\ NoRepeat(w) /\ \A y : In(w, y) <=> In(children[p], y) /\ y # i
  BY <1>5, <1>6, InWithout
<1>8. /\ children' \in [Index \cup {Root} -> Seq(Index)]
      /\ \A q \in Index \cup {Root} : children'[q] = IF q = p THEN w ELSE children[q]
  <2>1. children' = [children EXCEPT ![p] = w] /\ children \in [Index \cup {Root} -> Seq(Index)]
    BY <1>2, <1>6 DEF TreeInv, TreeTypes
  <2> QED
    BY <1>4, <1>7, <2>1
<1>9. /\ comp' \in [Index -> [cuid : ID, type : Types, parent : Index \cup {Root, Adrift}]]
      /\ \A k \in Index : comp'[k].cuid = comp[k].cuid
      /\ \A k \in Index : comp'[k].parent = IF k = i THEN Adrift ELSE comp[k].parent
  <2>1. comp \in [Index -> [cuid : ID, type : Types, parent : Index \cup {Root, Adrift}]]
    BY DEF TreeInv, TreeTypes
  <2> QED
    BY <1>2, <1>3, <2>1
<1>10. Live' = Live
  BY <1>9 DEF Live
<1>11. \A k \in Live : comp'[k].parent = IF k = i THEN Adrift ELSE comp[k].parent
  BY <1>9, IndexTypes
<1>12. \A q \in Live \cup {Root} :
        /\ \A j \in Live : comp[j].parent = q <=> In(children[q], j)
        /\ NoRepeat(children[q])
        /\ \A j \in Index : In(children[q], j) => j \in Live
  BY <1>2 DEF TreeInv, LinksAgree
<1>13. LinksAgree'
  <2> SUFFICES ASSUME NEW q \in Live \cup {Root}
               PROVE  /\ \A j \in Live : comp'[j].parent = q <=> In(children'[q], j)
                      /\ NoRepeat(children'[q])
                      /\ \A j \in Index : In(children'[q], j) => j \in Live
    BY <1>10 DEF LinksAgree
  <2>1. q \in Index \cup {Root} /\ q # Adrift
    BY IndexTypes
  <2>2. CASE q = p
    <3>1. children'[q] = w
      BY <1>8, <2>1, <2>2
    <3> QED
      BY <1>7, <1>11, <1>12, <2>1, <2>2, <3>1
  <2>3. CASE q # p
    <3>1. children'[q] = children[q]
      BY <1>8, <2>1, <2>3
    <3> QED
      BY <1>1, <1>3, <1>11, <1>12, <2>1, <2>3, <3>1
  <2> QED
    BY <2>2, <2>3
<1>14. NoCycle'
  <2> SUFFICES ASSUME NEW S \in SUBSET Live, S # {} PROVE \E j \in S : comp'[j].parent \notin S
    BY <1>10 DEF NoCycle
  <2>1. CASE i \in S
    BY <1>11, <2>1, IndexTypes
  <2>2. CASE i \notin S
    <3>1. PICK j \in S : comp[j].parent \notin S
      BY DEF TreeInv, NoCycle
    <3> QED
      BY <1>11, <2>2, <3>1
  <2> QED
    BY <2>1, <2>2
<1>15. ParentsLive'
  BY <1>1, <1>2, <1>10, <1>11 DEF TreeInv, ParentsLive
<1>16. DoomedChain'
  BY <1>1, <1>2, <1>3, <1>10, <1>11 DEF DoomedChain
<1>17. TreeTypes'
  BY <1>2, <1>8, <1>9 DEF TreeInv, TreeTypes
<1> QED
  BY <1>2, <1>13, <1>14, <1>15, <1>16, <1>17 DEF TreeInv, CopyFrames

\* What FreeComponent does to the tree: i, the last of n frames, is freed, and
\* nothing hangs from it.
Freed(i, n) ==
    /\ n \in Nat \ {0} /\ n = Len(doomed) /\ DOMAIN doomed = 1 .. n /\ doomed[n] = i
    /\ i \in Live /\ i \in Index
    /\ \A j \in Live : comp[j].parent # i
    /\ Live' = Live \ {i}
    /\ \A k \in Live \ {i} : comp'[k] = comp[k] /\ children'[k] = children[k]
    /\ children'[Root] = children[Root]
    /\ doomed' = SubSeq(doomed, 1, n - 1)
    /\ op' = IF n = 1 THEN "none" ELSE "freeing"

\* The component that is freed, and the types afterwards.
LEMMA FreeEffect ==
    ASSUME IDInv, TreeInv, FreeComponent, NEW i, i = doomed[Len(doomed)]
    PROVE  Freed(i, Len(doomed)) /\ TreeTypes'
<1>1. PICK n : n = Len(doomed)
  OBVIOUS
<1>2. /\ op = "freeing"
      /\ \A k \in DOMAIN children[i] : children[i][k] \notin Live
      /\ DestroyID(comp[i].cuid)
      /\ comp' = [comp EXCEPT ![i] = NoComponent]
      /\ children' = [children EXCEPT ![i] = <<>>]
      /\ doomed' = SubSeq(doomed, 1, n - 1)
      /\ op' = IF n = 1 THEN "none" ELSE "freeing"
  BY <1>1 DEF FreeComponent
<1>3. n \in Nat \ {0} /\ DOMAIN doomed = 1 .. n /\ i \in Live /\ i \in Index
  BY <1>1, <1>2, LastDoomed, IndexTypes DEF TreeInv
<1>4. \A j \in Live : comp[j].parent # i
  <2>1. ASSUME NEW j \in Live, comp[j].parent = i PROVE FALSE
    <3>1. In(children[i], j)
      BY <1>3, <2>1 DEF TreeInv, LinksAgree
    <3> QED
      BY <1>2, <2>1, <3>1 DEF In
  <2> QED
    BY <2>1
<1>5. /\ comp \in [Index -> [cuid : ID, type : Types, parent : Index \cup {Root, Adrift}]]
      /\ children \in [Index \cup {Root} -> Seq(Index)]
      /\ Len(mGenerations) <= MaxIndex
  BY DEF TreeInv, TreeTypes
<1>6. NoComponent \in [cuid : ID, type : Types, parent : Index \cup {Root, Adrift}] /\ <<>> \in Seq(Index)
      /\ NoComponent.cuid = NoID
  BY IDConstants DEF NoComponent, NoID, ID, Index, Types
<1>7. /\ comp' \in [Index -> [cuid : ID, type : Types, parent : Index \cup {Root, Adrift}]]
      /\ \A k \in Index : comp'[k] = IF k = i THEN NoComponent ELSE comp[k]
  BY <1>2, <1>3, <1>5, <1>6
<1>8. /\ children' \in [Index \cup {Root} -> Seq(Index)]
      /\ \A q \in Index \cup {Root} : children'[q] = IF q = i THEN <<>> ELSE children[q]
  BY <1>2, <1>3, <1>5, <1>6
<1>9. Live' = Live \ {i}
  BY <1>6, <1>7 DEF Live
<1>10. Len(mGenerations') <= MaxIndex
  <2>1. mGenerations \in Seq(Nat \ {0})
    BY DEF IDInv, IDTypes
  <2>2. CASE mGenerations' = mGenerations
    BY <1>5, <2>2
  <2>3. CASE mGenerations' = [mGenerations EXCEPT ![comp[i].cuid.index + 1] = @ + 1]
    <3>1. Len(mGenerations') = Len(mGenerations)
      BY <2>1, <2>3
    <3> QED
      BY <1>5, <3>1
  <2> QED
    BY <1>2, <2>2, <2>3 DEF DestroyID, idVars
<1>11. TreeTypes'
  BY <1>7, <1>8, <1>10 DEF TreeTypes
<1>12. \A k \in Live \ {i} : comp'[k] = comp[k] /\ children'[k] = children[k]
  BY <1>7, <1>8, IndexTypes
<1>13. children'[Root] = children[Root]
  BY <1>3, <1>8, IndexTypes
<1> QED
  BY <1>1, <1>2, <1>3, <1>4, <1>9, <1>11, <1>12, <1>13 DEF Freed

\* A component without live children is freed, and its frame left.
LEMMA FreeTree == ASSUME IDInv, TreeInv, FreeComponent PROVE TreeInv'
<1>1. PICK i, n : i = doomed[Len(doomed)] /\ n = Len(doomed)
  OBVIOUS
<1>2. Freed(i, n) /\ TreeTypes' /\ op = "freeing"
  BY <1>1, FreeEffect DEF FreeComponent
<1>3. /\ n \in Nat \ {0} /\ DOMAIN doomed = 1 .. n /\ doomed[n] = i
      /\ i \in Live /\ i \in Index
      /\ \A j \in Live : comp[j].parent # i
      /\ Live' = Live \ {i}
      /\ \A k \in Live \ {i} : comp'[k] = comp[k] /\ children'[k] = children[k]
      /\ children'[Root] = children[Root]
      /\ doomed' = SubSeq(doomed, 1, n - 1)
      /\ op' = IF n = 1 THEN "none" ELSE "freeing"
  BY <1>2 DEF Freed
<1>4. /\ comp[doomed[1]].parent = Adrift
      /\ \A k \in 1 .. n : doomed[k] \in Live
      /\ \A k \in 1 .. n : k # 1 => comp[doomed[k]].parent = doomed[k - 1]
      /\ doomed \in Seq(Index)
  BY <1>2, <1>3 DEF TreeInv, DoomedChain
<1>5. PICK m \in Nat : n = m + 1
  <2>1. n - 1 \in Nat /\ n = (n - 1) + 1
    BY <1>3
  <2> QED
    BY <2>1
<1>6. /\ doomed' \in Seq(Index) /\ DOMAIN doomed' = 1 .. m
      /\ \A k \in 1 .. m : doomed'[k] = doomed[k]
      /\ m # 0 => doomed' # <<>>
  <2>1. doomed' = SubSeq(doomed, 1, m) /\ Len(doomed) = m + 1
    BY <1>1, <1>3, <1>5
  <2> QED
    BY <1>4, <2>1, InFront
<1>7. /\ \A k \in 1 .. n : k \in 1 .. m \/ k = n
      /\ \A k \in 1 .. m : k \in 1 .. n /\ k + 1 \in 1 .. n /\ k + 1 # 1 /\ (k + 1) - 1 = k
      /\ m # 0 => n # 1 /\ 1 \in 1 .. m /\ m \in 1 .. m
      /\ n # 1 => n - 1 = m /\ m # 0
      /\ n \in 1 .. n
      /\ \A k \in 1 .. m : m # 0
  BY <1>5
<1>8. \A k \in 1 .. m : doomed[k] \in Live \ {i}
  <2> TAKE k \in 1 .. m
  <2>1. k \in 1 .. n /\ k + 1 \in 1 .. n /\ k + 1 # 1 /\ (k + 1) - 1 = k
    BY <1>7
  <2>2. PICK d : d = doomed[k + 1]
    OBVIOUS
  <2>3. d \in Live /\ comp[d].parent = doomed[k]
    BY <1>4, <2>1, <2>2
  <2> QED
    BY <1>3, <1>4, <2>1, <2>3
<1>9. LinksAgree'
  <2> SUFFICES ASSUME NEW q \in (Live \ {i}) \cup {Root}
               PROVE  /\ \A j \in Live \ {i} : comp'[j].parent = q <=> In(children'[q], j)
                      /\ NoRepeat(children'[q])
                      /\ \A j \in Index : In(children'[q], j) => j \in Live \ {i} \/ (op' = "freeing" /\ In(doomed', q))
    BY <1>3 DEF LinksAgree
  <2>1. children'[q] = children[q] /\ q # Adrift /\ q # i
    BY <1>3, IndexTypes
  <2>2. /\ \A j \in Live : comp[j].parent = q <=> In(children[q], j)
        /\ NoRepeat(children[q])
        /\ \A j \in Index : In(children[q], j) => j \in Live \/ (op = "freeing" /\ In(doomed, q))
    BY DEF TreeInv, LinksAgree
  <2>3. In(doomed, q) => op' = "freeing" /\ In(doomed', q)
    <3> SUFFICES ASSUME NEW k \in 1 .. n, doomed[k] = q PROVE op' = "freeing" /\ In(doomed', q)
      BY <1>3 DEF In
    <3>1. k \in 1 .. m
      BY <1>3, <1>7, <2>1
    <3> QED
      BY <1>3, <1>6, <1>7, <3>1 DEF In
  <2>4. In(children[q], i) => In(doomed, q)
    <3> SUFFICES ASSUME In(children[q], i) PROVE In(doomed, q)
      OBVIOUS
    <3>1. comp[i].parent = q
      BY <1>3, <2>2
    <3>2. n # 1
      BY <1>3, <1>4, <2>1, <3>1
    <3>3. q = doomed[m]
      BY <1>3, <1>4, <1>7, <3>1, <3>2
    <3> QED
      BY <1>3, <1>7, <3>2, <3>3 DEF In
  <2> QED
    BY <1>3, <2>1, <2>2, <2>3, <2>4
<1>10. NoCycle'
  <2> SUFFICES ASSUME NEW S \in SUBSET (Live \ {i}), S # {} PROVE \E j \in S : comp'[j].parent \notin S
    BY <1>3 DEF NoCycle
  <2>1. PICK j \in S : comp[j].parent \notin S
    BY DEF TreeInv, NoCycle
  <2> QED
    BY <1>3, <2>1
<1>11. ParentsLive'
  <2> SUFFICES ASSUME NEW j \in Live \ {i}
               PROVE  \/ comp[j].parent \in (Live \ {i}) \cup {Root}
                      \/ op' = "freeing" /\ j = doomed'[1] /\ comp[j].parent = Adrift
    BY <1>3 DEF ParentsLive
  <2>1. CASE comp[j].parent \in Live \cup {Root}
    BY <1>3, <2>1
  <2>2. CASE j = doomed[1] /\ comp[j].parent = Adrift
    <3>1. n # 1
      BY <1>3, <2>2
    <3> QED
      BY <1>3, <1>6, <1>7, <2>2, <3>1
  <2> QED
    BY <2>1, <2>2 DEF TreeInv, ParentsLive
<1>12. DoomedChain'
  <2> SUFFICES ASSUME op' = "freeing" PROVE DoomedChain'
    BY <1>3 DEF DoomedChain
  <2>1. m # 0
    BY <1>3, <1>7
  <2>2. comp'[doomed'[1]].parent = Adrift
    BY <1>3, <1>4, <1>6, <1>7, <1>8, <2>1
  <2>3. ASSUME NEW k \in 1 .. m PROVE doomed'[k] \in Live' /\ (k # 1 => comp'[doomed'[k]].parent = doomed'[k - 1])
    <3>1. k # 1 => k - 1 \in 1 .. m
      BY <1>5
    <3>2. doomed[k] \in Live \ {i} /\ k \in 1 .. n
      BY <1>7, <1>8
    <3> QED
      BY <1>3, <1>4, <1>6, <3>1, <3>2
  <2> QED
    BY <1>3, <1>6, <2>1, <2>2, <2>3 DEF DoomedChain
<1>13. op' # "cloning"
  BY <1>3
<1> QED
  BY <1>2, <1>9, <1>10, <1>11, <1>12, <1>13 DEF TreeInv, CopyFrames

\* A subtree hangs from another component, which is not one of its own.
LEMMA ReparentTree ==
    ASSUME TreeInv, NEW i \in Index, NEW p \in Index, ReparentComponentSubtree(i, p)
    PROVE  TreeInv'
<1>1. PICK from : from = comp[i].parent
  OBVIOUS
<1> DEFINE left == [children EXCEPT ![from] = Without(@, i)]
<1>2. /\ op = "none" /\ op' \in {"none", "moving"}
      /\ i \in Live /\ p \in Live /\ p \notin Subtree(i)
      /\ children' = [left EXCEPT ![p] = Append(@, i)]
      /\ comp' = [comp EXCEPT ![i].parent = p]
      /\ UNCHANGED mGenerations
  BY <1>1 DEF ReparentComponentSubtree, idVars
<1>3. from \in Live \cup {Root} /\ from \in Index \cup {Root} /\ p # i
  BY <1>1, <1>2, SubtreeIs, IndexTypes DEF TreeInv, ParentsLive
<1>4. children[from] \in Seq(Index) /\ NoRepeat(children[from]) /\ In(children[from], i)
  BY <1>1, <1>2, <1>3 DEF TreeInv, TreeTypes, LinksAgree
<1>5. PICK w : w = Without(children[from], i)
  OBVIOUS
<1>6. w \in Seq(Index) /\ NoRepeat(w) /\ \A y : In(w, y) <=> In(children[from], y) /\ y # i
  BY <1>4, <1>5, InWithout
<1>7. \A q \in Live \cup {Root} :
        /\ \A j \in Live : comp[j].parent = q <=> In(children[q], j)
        /\ NoRepeat(children[q])
        /\ \A j \in Index : In(children[q], j) => j \in Live
  BY <1>2 DEF TreeInv, LinksAgree
<1>8. /\ left \in [Index \cup {Root} -> Seq(Index)]
      /\ \A q \in Index \cup {Root} : left[q] = IF q = from THEN w ELSE children[q]
  <2>1. children \in [Index \cup {Root} -> Seq(Index)] /\ left = [children EXCEPT ![from] = w]
    BY <1>5 DEF TreeInv, TreeTypes
  <2> HIDE DEF left
  <2> QED
    BY <1>3, <1>6, <2>1
<1> HIDE DEF left
<1>9. \A q \in Live \cup {Root} :
        /\ NoRepeat(left[q])
        /\ \A y : In(left[q], y) <=> In(children[q], y) /\ y # i
  <2> TAKE q \in Live \cup {Root}
  <2>1. q \in Index \cup {Root}
    BY IndexTypes
  <2>2. CASE q = from
    BY <1>6, <1>8, <2>1, <2>2
  <2>3. CASE q # from
    <3>1. left[q] = children[q]
      BY <1>8, <2>1, <2>3
    <3>2. ~In(children[q], i)
      BY <1>1, <1>2, <1>7, <2>3
    <3> QED
      BY <1>7, <3>1, <3>2
  <2> QED
    BY <2>2, <2>3
<1>10. PICK l : l = Append(left[p], i)
  OBVIOUS
<1>11. l \in Seq(Index) /\ NoRepeat(l) /\ \A y : In(l, y) <=> In(children[p], y) \/ y = i
  <2>1. left[p] \in Seq(Index) /\ NoRepeat(left[p]) /\ ~In(left[p], i)
    BY <1>2, <1>8, <1>9
  <2>2. l \in Seq(Index) /\ NoRepeat(l) /\ \A y : In(l, y) <=> In(left[p], y) \/ y = i
    BY <1>10, <2>1, InAppend
  <2> QED
    BY <1>2, <1>9, <2>2
<1>12. /\ children' \in [Index \cup {Root} -> Seq(Index)]
       /\ \A q \in Index \cup {Root} : children'[q] = IF q = p THEN l ELSE left[q]
  <2>1. children' = [left EXCEPT ![p] = l]
    BY <1>2, <1>10
  <2> QED
    BY <1>8, <1>11, <2>1
<1>13. /\ comp' \in [Index -> [cuid : ID, type : Types, parent : Index \cup {Root, Adrift}]]
       /\ \A k \in Index : comp'[k].cuid = comp[k].cuid
       /\ \A k \in Index : comp'[k].parent = IF k = i THEN p ELSE comp[k].parent
  <2>1. comp \in [Index -> [cuid : ID, type : Types, parent : Index \cup {Root, Adrift}]]
    BY DEF TreeInv, TreeTypes
  <2> QED
    BY <1>2, <2>1
<1>14. Live' = Live
  BY <1>13 DEF Live
<1>15. \A k \in Live : comp'[k].parent = IF k = i THEN p ELSE comp[k].parent
  BY <1>13, IndexTypes
<1>16. LinksAgree'
  <2> SUFFICES ASSUME NEW q \in Live \cup {Root}
               PROVE  /\ \A j \in Live : comp'[j].parent = q <=> In(children'[q], j)
                      /\ NoRepeat(children'[q])
                      /\ \A j \in Index : In(children'[q], j) => j \in Live
    BY <1>14 DEF LinksAgree
  <2>1. q \in Index \cup {Root}
    BY IndexTypes
  <2>2. CASE q = p
    <3>1. children'[q] = l
      BY <1>12, <2>1, <2>2
    <3> QED
      BY <1>2, <1>7, <1>11, <1>15, <2>2, <3>1
  <2>3. CASE q # p
    <3>1. children'[q] = left[q]
      BY <1>12, <2>1, <2>3
    <3> QED
      BY <1>7, <1>9, <1>15, <2>3, <3>1
  <2> QED
    BY <2>2, <2>3
<1>17. NoCycle'
  <2> SUFFICES ASSUME NEW S \in SUBSET Live, S # {}, \A j \in S : comp'[j].parent \in S PROVE FALSE
    BY <1>14 DEF NoCycle
  <2>1. CASE i \notin S
    <3>1. \A j \in S : comp[j].parent \in S
      BY <1>15, <2>1
    <3> QED
      BY <3>1 DEF TreeInv, NoCycle
  <2>2. CASE i \in S
    <3> DEFINE T == S \ Subtree(i)
    <3>1. p \in T
      BY <1>2, <1>15, <2>2
    <3>2. ASSUME NEW j \in T PROVE comp[j].parent \in T
      <4>1. j \in Live /\ j # i
        BY <1>2, SubtreeIs
      <4>2. comp[j].parent \in S
        BY <1>15, <4>1
      <4>3. comp[j].parent \notin Subtree(i)
        BY <1>2, <4>1, SubtreeIs
      <4> QED
        BY <4>2, <4>3
    <3> QED
      BY <3>1, <3>2 DEF TreeInv, NoCycle
  <2> QED
    BY <2>1, <2>2
<1>18. ParentsLive'
  BY <1>2, <1>14, <1>15 DEF TreeInv, ParentsLive
<1>19. TreeTypes'
  BY <1>2, <1>12, <1>13 DEF TreeInv, TreeTypes
<1>20. DoomedChain' /\ CopyFrames'
  BY <1>2 DEF DoomedChain, CopyFrames
<1> QED
  BY <1>16, <1>17, <1>18, <1>19, <1>20 DEF TreeInv

\* Every step keeps the links.
LEMMA TreeInvStep == IDInv /\ TreeInv /\ [Next]_vars => TreeInv'
<1> SUFFICES ASSUME IDInv, TreeInv, [Next]_vars PROVE TreeInv'
  OBVIOUS
<1>1. CASE UNCHANGED vars
  <2>1. UNCHANGED <<mGenerations, comp, children, op, doomed, copying>>
    BY <1>1 DEF vars, idVars, treeVars, loopVars
  <2>2. Live' = Live
    BY <2>1 DEF Live
  <2> QED
    BY <2>1, <2>2 DEF TreeInv, TreeTypes, LinksAgree, NoCycle, ParentsLive, DoomedChain, CopyFrames, In, NoRepeat
<1> QED
  BY <1>1, CreateTree, CloneTree, CopyChildTree, CopyReturnsTree, PlaceCloneTree, DestroyTree,
     TransformStepsTree, DescendTree, DetachTree, FreeTree, ReparentTree DEF Next

(***************************************************************************)
(* The links always form one forest, whatever is created, cloned, moved    *)
(* and taken down, and at every step of the loops that do it.              *)
(***************************************************************************)
THEOREM TreeExactCorrect == Spec => []TreeExact
<1>1. TreeInv => TreeExact
  <2> SUFFICES ASSUME TreeInv PROVE TreeExact
    OBVIOUS
  <2>1. ASSUME NEW p \in Live \cup {Root}
        PROVE  /\ \A i \in Live : comp[i].parent = p
                    <=> \E k \in DOMAIN children[p] : children[p][k] = i
               /\ \A j, k \in DOMAIN children[p] : children[p][j] = children[p][k] => j = k
               /\ op # "freeing" => \A k \in DOMAIN children[p] : children[p][k] \in Live
    <3>1. /\ \A i \in Live : comp[i].parent = p <=> In(children[p], i)
          /\ NoRepeat(children[p])
          /\ \A i \in Index : In(children[p], i) => i \in Live \/ op = "freeing"
      BY DEF TreeInv, LinksAgree
    <3>2. children[p] \in Seq(Index)
      BY IndexTypes DEF TreeInv, TreeTypes
    <3>3. \A k \in DOMAIN children[p] : children[p][k] \in Index /\ In(children[p], children[p][k])
      BY <3>2 DEF In
    <3>4. op # "freeing" => \A k \in DOMAIN children[p] : children[p][k] \in Live
      BY <3>1, <3>3
    <3> QED
      BY <3>1, <3>4 DEF In, NoRepeat
  <2> QED
    BY <2>1 DEF TreeInv, NoCycle, TreeExact
<1> QED
  BY IDInvInit, IDInvStep, TreeInvInit, TreeInvStep, <1>1, PTL DEF Spec

-----------------------------------------------------------------------------
(***************************************************************************)
(* The registry of the transforms.  A registry is packed when the sparse   *)
(* array and the levels name each other.                                   *)
(***************************************************************************)
Place == [depthLevel : Nat \cup {-1}, localIndex : Nat]

PlaceOf(d, k) == [depthLevel |-> d - 1, localIndex |-> k - 1]

\* The levels m hold e at place k of level d; both count from 1.
Holds(m, d, k, e) == d \in DOMAIN m /\ k \in DOMAIN m[d] /\ m[d][k] = e

\* The levels m and the sparse array s name each other.
Agree(m, s) ==
    /\ \A d, k, e : Holds(m, d, k, e) => s[e.id.index] = PlaceOf(d, k) /\ e.transform = e.id
    /\ \A i \in Index : s[i].depthLevel >= 0 =>
          \E e : Holds(m, s[i].depthLevel + 1, s[i].localIndex + 1, e) /\ e.id.index = i

Packed(r) ==
    /\ r.mDepth \in Seq(Seq(Entry))
    /\ r.mSparse \in [Index -> Place]
    /\ r = [mDepth |-> r.mDepth, mSparse |-> r.mSparse]
    /\ Agree(r.mDepth, r.mSparse)

\* e is the entry of component i.
EntryIs(r, i, e) == Holds(r.mDepth, r.mSparse[i].depthLevel + 1, r.mSparse[i].localIndex + 1, e)

\* The places of a level are numbers; an entry is an entry.
LEMMA HoldsTypes ==
    ASSUME NEW m \in Seq(Seq(Entry)), NEW d, NEW k, NEW e, Holds(m, d, k, e)
    PROVE  /\ d \in Nat \ {0} /\ d <= Len(m) /\ k \in Nat \ {0} /\ k <= Len(m[d])
           /\ m[d] \in Seq(Entry) /\ e \in Entry /\ e.id \in ID /\ e.id.index \in Index
<1>1. d \in 1 .. Len(m) /\ m[d] \in Seq(Entry) /\ Len(m) \in Nat
  BY DEF Holds
<1>2. k \in 1 .. Len(m[d]) /\ e \in Entry /\ Len(m[d]) \in Nat
  BY <1>1 DEF Holds
<1>3. e.id \in ID
  BY <1>2 DEF Entry
<1>4. e.id.index \in Index
  BY <1>3 DEF ID
<1>5. d \in Nat \ {0} /\ d <= Len(m) /\ k \in Nat \ {0} /\ k <= Len(m[d])
  BY <1>1, <1>2
<1> QED
  BY <1>1, <1>2, <1>3, <1>4, <1>5

\* A component with a transform has an entry, which is its own.
LEMMA PackedHas ==
    ASSUME NEW r, Packed(r), NEW i \in Index, HasTransform(r, i)
    PROVE  EntryIs(r, i, EntryOf(r, i)) /\ EntryOf(r, i).id.index = i /\ EntryOf(r, i).transform = EntryOf(r, i).id
           /\ EntryOf(r, i) \in Entry
<1>1. PICK m, s : m = r.mDepth /\ s = r.mSparse
  OBVIOUS
<1>2. PICK e : Holds(m, s[i].depthLevel + 1, s[i].localIndex + 1, e) /\ e.id.index = i
  BY <1>1 DEF Packed, Agree, HasTransform
<1>3. e = EntryOf(r, i)
  BY <1>1, <1>2 DEF Holds, EntryOf, Level
<1>4. e.transform = e.id
  BY <1>1, <1>2 DEF Packed, Agree
<1>5. e \in Entry
  BY <1>1, <1>2, HoldsTypes DEF Packed
<1> QED
  BY <1>1, <1>2, <1>3, <1>4, <1>5 DEF EntryIs

\* Two places do not hold entries of the same component.
LEMMA PlaceOnce ==
    ASSUME NEW m \in Seq(Seq(Entry)), NEW s, Agree(m, s), NEW d, NEW k, NEW e, NEW b, NEW c, NEW f,
           Holds(m, d, k, e), Holds(m, b, c, f), e.id.index = f.id.index
    PROVE  d = b /\ k = c /\ e = f
<1>1. PlaceOf(d, k) = PlaceOf(b, c)
  BY DEF Agree
<1>2. d - 1 = b - 1 /\ k - 1 = c - 1
  BY <1>1 DEF PlaceOf
<1>3. d \in Nat /\ b \in Nat /\ k \in Nat /\ c \in Nat
  BY HoldsTypes
<1>4. d = b /\ k = c
  BY <1>2, <1>3
<1> QED
  BY <1>4 DEF Holds

\* The entry of a place in terms of the sparse array.
LEMMA HoldsPlace ==
    ASSUME NEW m \in Seq(Seq(Entry)), NEW s, Agree(m, s), NEW d, NEW k, NEW e, Holds(m, d, k, e)
    PROVE  /\ s[e.id.index] = PlaceOf(d, k)
           /\ s[e.id.index].depthLevel = d - 1 /\ s[e.id.index].localIndex = k - 1
           /\ s[e.id.index].depthLevel >= 0
           /\ s[e.id.index].depthLevel + 1 = d /\ s[e.id.index].localIndex + 1 = k
<1>1. s[e.id.index] = PlaceOf(d, k)
  BY DEF Agree
<1>2. d \in Nat \ {0} /\ k \in Nat \ {0}
  BY HoldsTypes
<1>3. s[e.id.index].depthLevel = d - 1 /\ s[e.id.index].localIndex = k - 1
  BY <1>1 DEF PlaceOf
<1> QED
  BY <1>1, <1>2, <1>3

\* Empty levels below the others hold nothing.
LEMMA ReserveKeeps ==
    ASSUME NEW r, Packed(r), NEW n \in Nat
    PROVE  LET q == ReserveDepth(r, n)
           IN  /\ Packed(q) /\ q.mSparse = r.mSparse /\ n <= Len(q.mDepth)
               /\ \A d, k, e : Holds(q.mDepth, d, k, e) <=> Holds(r.mDepth, d, k, e)
<1>1. PICK m, s : m = r.mDepth /\ s = r.mSparse
  OBVIOUS
<1>2. m \in Seq(Seq(Entry)) /\ s \in [Index -> Place] /\ r = [mDepth |-> m, mSparse |-> s] /\ Agree(m, s)
  BY <1>1 DEF Packed
<1>3. Len(m) \in Nat /\ DOMAIN m = 1 .. Len(m)
  BY <1>2
<1>4. CASE n <= Len(m)
  BY <1>1, <1>4 DEF ReserveDepth
<1>5. CASE ~(n <= Len(m))
  <2> DEFINE pad == [k \in 1 .. n - Len(m) |-> <<>>]
             w == m \o pad
  <2>1. n - Len(m) \in Nat
    BY <1>3, <1>5
  <2>2. pad \in Seq(Seq(Entry)) /\ Len(pad) = n - Len(m)
    BY <2>1
  <2>3. /\ w \in Seq(Seq(Entry)) /\ Len(w) = n /\ DOMAIN w = 1 .. n
        /\ \A d \in 1 .. n : d <= Len(m) => w[d] = m[d]
        /\ \A d \in 1 .. n : ~(d <= Len(m)) => w[d] = <<>>
    <3> HIDE DEF pad
    <3>1. w \in Seq(Seq(Entry)) /\ Len(w) = Len(m) + Len(pad) /\ DOMAIN w = 1 .. Len(m) + Len(pad)
      BY <1>2, <2>2
    <3>2. Len(m) + Len(pad) = n
      BY <1>3, <2>1, <2>2
    <3>3. ASSUME NEW d \in 1 .. n, d <= Len(m) PROVE w[d] = m[d]
      BY <1>2, <1>3, <2>2, <3>2, <3>3
    <3>4. ASSUME NEW d \in 1 .. n, ~(d <= Len(m)) PROVE w[d] = <<>>
      <4>1. d - Len(m) \in 1 .. n - Len(m)
        BY <1>3, <3>4
      <4>2. pad[d - Len(m)] = <<>>
        BY <4>1 DEF pad
      <4>3. w[d] = pad[d - Len(m)]
        BY <1>2, <1>3, <2>2, <3>2, <3>4
      <4> QED
        BY <4>2, <4>3
    <3> QED
      BY <3>1, <3>2, <3>3, <3>4
  <2>4. ReserveDepth(r, n) = [mDepth |-> w, mSparse |-> s]
    BY <1>1, <1>2, <1>5 DEF ReserveDepth
  <2> HIDE DEF w, pad
  <2>5. \A d, k, e : Holds(w, d, k, e) <=> Holds(m, d, k, e)
    <3> TAKE d, k, e
    <3>1. CASE d \in 1 .. n /\ d <= Len(m)
      <4>1. d \in 1 .. Len(m)
        BY <3>1
      <4> QED
        BY <1>3, <2>3, <3>1, <4>1 DEF Holds
    <3>2. CASE d \in 1 .. n /\ ~(d <= Len(m))
      <4>1. d \notin 1 .. Len(m)
        BY <3>2
      <4>2. DOMAIN w[d] = {}
        BY <2>3, <3>2
      <4> QED
        BY <1>3, <4>1, <4>2 DEF Holds
    <3>3. CASE d \notin 1 .. n
      <4>1. d \notin 1 .. Len(m)
        BY <1>3, <1>5, <3>3
      <4> QED
        BY <1>3, <2>3, <3>3, <4>1 DEF Holds
    <3> QED
      BY <3>1, <3>2, <3>3
  <2>6. Agree(w, s)
    BY <1>2, <2>5 DEF Agree
  <2>7. n <= Len(w)
    BY <2>3
  <2> QED
    BY <1>1, <1>2, <2>3, <2>4, <2>5, <2>6, <2>7 DEF Packed
<1> QED
  BY <1>4, <1>5

\* A new last entry of a level, for a component without one.
LEMMA PushKeeps ==
    ASSUME NEW r, Packed(r), NEW d \in Nat, d < Len(r.mDepth), NEW e \in Entry, e.transform = e.id,
           ~HasTransform(r, e.id.index)
    PROVE  LET q == PushEntry(r, d, e)
           IN  /\ Packed(q) /\ Len(q.mDepth) = Len(r.mDepth)
               /\ HasTransform(q, e.id.index) /\ EntryIs(q, e.id.index, e)
               /\ \A j \in Index : j # e.id.index => q.mSparse[j] = r.mSparse[j]
               /\ \A b, c, f : Holds(r.mDepth, b, c, f) => Holds(q.mDepth, b, c, f)
<1>1. PICK m, s, i : m = r.mDepth /\ s = r.mSparse /\ i = e.id.index
  OBVIOUS
<1>2. m \in Seq(Seq(Entry)) /\ s \in [Index -> Place] /\ Agree(m, s)
  BY <1>1 DEF Packed
<1>3. PICK D, n, l : D = d + 1 /\ l = m[D] /\ n = Len(l)
  OBVIOUS
<1>4. D \in 1 .. Len(m) /\ D \in Nat /\ D - 1 = d /\ l \in Seq(Entry) /\ n \in Nat /\ DOMAIN m = 1 .. Len(m) /\ Len(m) \in Nat
  <2>1. Len(m) \in Nat /\ d < Len(m)
    BY <1>1, <1>2
  <2>2. D \in 1 .. Len(m) /\ D \in Nat /\ D - 1 = d
    BY <1>3, <2>1
  <2> QED
    BY <1>2, <1>3, <2>1, <2>2
<1>5. i \in Index /\ ~(s[i].depthLevel >= 0)
  <2>1. e.id \in ID
    BY DEF Entry
  <2> QED
    BY <1>1, <2>1 DEF ID, HasTransform
<1>6. PICK L : L = Append(l, e)
  OBVIOUS
<1>7. /\ L \in Seq(Entry) /\ DOMAIN L = 1 .. n + 1 /\ DOMAIN l = 1 .. n
      /\ \A k \in 1 .. n : L[k] = l[k]
      /\ L[n + 1] = e
  BY <1>3, <1>4, <1>6
<1>8. PICK M, S : M = [m EXCEPT ![D] = L] /\ S = [s EXCEPT ![i] = [depthLevel |-> d, localIndex |-> n]]
  OBVIOUS
<1>9. PushEntry(r, d, e) = [mDepth |-> M, mSparse |-> S]
  BY <1>1, <1>3, <1>6, <1>8 DEF PushEntry, Level
<1>10. M \in Seq(Seq(Entry)) /\ Len(M) = Len(m) /\ \A b \in 1 .. Len(m) : M[b] = IF b = D THEN L ELSE m[b]
  BY <1>2, <1>4, <1>7, <1>8
<1>11. DOMAIN M = 1 .. Len(m)
  BY <1>10
<1>12. PlaceOf(D, n + 1) = [depthLevel |-> d, localIndex |-> n] /\ PlaceOf(D, n + 1) \in Place
  BY <1>4 DEF PlaceOf, Place
<1>13. S \in [Index -> Place] /\ \A j \in Index : S[j] = IF j = i THEN PlaceOf(D, n + 1) ELSE s[j]
  BY <1>2, <1>5, <1>8, <1>12
<1>14. \A b, c, f : Holds(M, b, c, f) <=> Holds(m, b, c, f) \/ (b = D /\ c = n + 1 /\ f = e)
  <2> TAKE b, c, f
  <2>1. CASE b # D
    BY <1>4, <1>10, <1>11, <2>1 DEF Holds
  <2>2. CASE b = D /\ c = n + 1
    <3>1. c \in 1 .. n + 1 /\ c \notin 1 .. n
      BY <1>4, <2>2
    <3> QED
      BY <1>3, <1>4, <1>7, <1>10, <1>11, <2>2, <3>1 DEF Holds
  <2>3. CASE b = D /\ c # n + 1
    <3>1. c \in 1 .. n + 1 <=> c \in 1 .. n
      BY <1>4, <2>3
    <3> QED
      BY <1>3, <1>4, <1>7, <1>10, <1>11, <2>3, <3>1 DEF Holds
  <2> QED
    BY <2>1, <2>2, <2>3
<1>15. Agree(M, S)
  <2>1. ASSUME NEW b, NEW c, NEW f, Holds(M, b, c, f)
        PROVE  S[f.id.index] = PlaceOf(b, c) /\ f.transform = f.id
    <3>1. CASE b = D /\ c = n + 1 /\ f = e
      BY <1>1, <1>5, <1>13, <3>1
    <3>2. CASE Holds(m, b, c, f)
      <4>1. /\ f.id.index \in Index
            /\ s[f.id.index] = PlaceOf(b, c) /\ s[f.id.index].depthLevel >= 0 /\ f.transform = f.id
        BY <1>2, <3>2, HoldsTypes, HoldsPlace DEF Agree
      <4>2. f.id.index # i
        BY <1>5, <4>1
      <4> QED
        BY <1>13, <4>1, <4>2
    <3> QED
      BY <1>14, <2>1, <3>1, <3>2
  <2>2. ASSUME NEW j \in Index, S[j].depthLevel >= 0
        PROVE  \E f : Holds(M, S[j].depthLevel + 1, S[j].localIndex + 1, f) /\ f.id.index = j
    <3>1. CASE j = i
      <4>1. S[j].depthLevel + 1 = D /\ S[j].localIndex + 1 = n + 1
        BY <1>3, <1>5, <1>12, <1>13, <3>1
      <4> QED
        BY <1>1, <1>14, <3>1, <4>1
    <3>2. CASE j # i
      <4>1. S[j] = s[j]
        BY <1>13, <3>2
      <4>2. PICK f : Holds(m, s[j].depthLevel + 1, s[j].localIndex + 1, f) /\ f.id.index = j
        BY <1>2, <2>2, <4>1 DEF Agree
      <4> QED
        BY <1>14, <4>1, <4>2
    <3> QED
      BY <3>1, <3>2
  <2> QED
    BY <2>1, <2>2 DEF Agree
<1>16. PICK q : q = PushEntry(r, d, e)
  OBVIOUS
<1>17. q.mDepth = M /\ q.mSparse = S /\ q = [mDepth |-> q.mDepth, mSparse |-> q.mSparse]
  BY <1>9, <1>16
<1>18. Packed(q) /\ Len(q.mDepth) = Len(r.mDepth)
  BY <1>1, <1>10, <1>13, <1>15, <1>17 DEF Packed
<1>19. HasTransform(q, i) /\ EntryIs(q, i, e)
  <2>1. S[i].depthLevel = d /\ S[i].depthLevel + 1 = D /\ S[i].localIndex + 1 = n + 1
    BY <1>3, <1>5, <1>12, <1>13
  <2>2. Holds(M, D, n + 1, e)
    BY <1>14
  <2> QED
    BY <1>17, <2>1, <2>2 DEF HasTransform, EntryIs
<1>20. \A j \in Index : j # i => q.mSparse[j] = s[j]
  BY <1>13, <1>17
<1> QED
  BY <1>1, <1>14, <1>16, <1>17, <1>18, <1>19, <1>20

\* The last entry of a level fills the hole of the one that is removed.
LEMMA PopKeeps ==
    ASSUME NEW r, Packed(r), NEW i \in Index, HasTransform(r, i)
    PROVE  LET q == SwapAndPop(r, i)
           IN  /\ Packed(q) /\ Len(q.mDepth) = Len(r.mDepth)
               /\ \A j \in Index : HasTransform(q, j) <=> HasTransform(r, j) /\ j # i
               /\ \A j \in Index : \A e : HasTransform(q, j) /\ EntryIs(r, j, e) => EntryIs(q, j, e)
<1>1. PICK m, s : m = r.mDepth /\ s = r.mSparse
  OBVIOUS
<1>2. m \in Seq(Seq(Entry)) /\ s \in [Index -> Place] /\ Agree(m, s)
  BY <1>1 DEF Packed
<1>3. PICK D, K : D = s[i].depthLevel + 1 /\ K = s[i].localIndex + 1
  OBVIOUS
<1>4. PICK g : Holds(m, D, K, g) /\ g.id.index = i
  BY <1>1, <1>2, <1>3 DEF Agree, HasTransform
<1>5. PICK l, n, last : l = m[D] /\ n = Len(l) /\ last = l[n]
  OBVIOUS
<1>6. /\ D \in Nat \ {0} /\ D <= Len(m) /\ K \in Nat \ {0} /\ K <= n /\ l \in Seq(Entry) /\ g \in Entry
      /\ D \in 1 .. Len(m) /\ DOMAIN m = 1 .. Len(m) /\ DOMAIN l = 1 .. n /\ n \in Nat
  <2>1. /\ D \in Nat \ {0} /\ D <= Len(m) /\ K \in Nat \ {0} /\ K <= n /\ l \in Seq(Entry) /\ g \in Entry
    BY <1>2, <1>4, <1>5, HoldsTypes
  <2>2. D \in 1 .. Len(m) /\ DOMAIN m = 1 .. Len(m)
    BY <1>2, <2>1
  <2>3. DOMAIN l = 1 .. n /\ n \in Nat
    BY <1>5, <2>1
  <2> QED
    BY <2>1, <2>2, <2>3
<1>7. PICK p : p + 1 = n /\ p \in Nat
  <2>1. (n - 1) + 1 = n /\ n - 1 \in Nat
    BY <1>6
  <2> QED
    BY <2>1
<1>8. n \in 1 .. n /\ last \in Entry /\ Holds(m, D, n, last)
  <2>1. n \in 1 .. n
    BY <1>6, <1>7
  <2> QED
    BY <1>5, <1>6, <2>1 DEF Holds
<1>9. PICK t : t = last.id.index
  OBVIOUS
<1>10. t \in Index /\ s[t] = PlaceOf(D, n) /\ s[t].depthLevel = D - 1 /\ s[t].localIndex = n - 1
       /\ s[i].depthLevel = D - 1 /\ s[i].localIndex = K - 1 /\ s[i].depthLevel >= 0 /\ s[t].depthLevel >= 0
  BY <1>2, <1>4, <1>8, <1>9, HoldsPlace, HoldsTypes
<1>11. PICK L : L = SubSeq([l EXCEPT ![K] = last], 1, n - 1)
  OBVIOUS
<1>12. L \in Seq(Entry) /\ DOMAIN L = 1 .. p /\ \A k \in 1 .. p : L[k] = IF k = K THEN last ELSE l[k]
  <2>1. PICK x : x = [l EXCEPT ![K] = last]
    OBVIOUS
  <2>2. x \in Seq(Entry) /\ Len(x) = n /\ \A k \in 1 .. n : x[k] = IF k = K THEN last ELSE l[k]
    BY <1>5, <1>6, <1>8, <2>1
  <2>3. n - 1 = p /\ Len(x) = p + 1
    BY <1>7, <2>2
  <2>4. L = SubSeq(x, 1, p)
    BY <1>11, <2>1, <2>3
  <2>5. L \in Seq(Entry) /\ DOMAIN L = 1 .. p /\ \A k \in 1 .. p : L[k] = x[k]
    BY <1>7, <2>2, <2>3, <2>4, InFront
  <2>6. \A k \in 1 .. p : k \in 1 .. n
    BY <1>7
  <2> QED
    BY <2>2, <2>5, <2>6
<1>13. PICK M, S : /\ M = [m EXCEPT ![D] = L]
                   /\ S = [s EXCEPT ![t].localIndex = s[i].localIndex, ![i] = Nowhere]
  OBVIOUS
<1>14. SwapAndPop(r, i) = [mDepth |-> M, mSparse |-> S]
  BY <1>1, <1>3, <1>5, <1>9, <1>11, <1>13 DEF SwapAndPop, Level
<1>15. M \in Seq(Seq(Entry)) /\ Len(M) = Len(m) /\ DOMAIN M = 1 .. Len(m)
       /\ \A b \in 1 .. Len(m) : M[b] = IF b = D THEN L ELSE m[b]
  <2>1. M \in Seq(Seq(Entry)) /\ Len(M) = Len(m) /\ \A b \in 1 .. Len(m) : M[b] = IF b = D THEN L ELSE m[b]
    BY <1>2, <1>6, <1>12, <1>13
  <2> QED
    BY <2>1
<1>16. /\ Nowhere \in Place /\ ~(Nowhere.depthLevel >= 0)
       /\ PlaceOf(D, K) \in Place
       /\ [depthLevel |-> s[t].depthLevel, localIndex |-> s[i].localIndex] = PlaceOf(D, K)
  BY <1>6, <1>10 DEF Nowhere, Place, PlaceOf
<1>17. S \in [Index -> Place]
       /\ \A j \in Index : S[j] = IF j = i THEN Nowhere ELSE IF j = t THEN PlaceOf(D, K) ELSE s[j]
  <2>1. s[t] \in Place
    BY <1>2, <1>10
  <2>2. [s[t] EXCEPT !.localIndex = s[i].localIndex] = [depthLevel |-> s[t].depthLevel, localIndex |-> s[i].localIndex]
    BY <2>1 DEF Place
  <2>3. S = [[s EXCEPT ![t] = PlaceOf(D, K)] EXCEPT ![i] = Nowhere]
    BY <1>2, <1>10, <1>13, <1>16, <2>2
  <2>4. [s EXCEPT ![t] = PlaceOf(D, K)] \in [Index -> Place]
    BY <1>2, <1>10, <1>16
  <2> QED
    BY <1>2, <1>10, <1>16, <2>3, <2>4
<1>18. \A b, c, f : Holds(M, b, c, f) <=> \/ b # D /\ Holds(m, b, c, f)
                                          \/ b = D /\ c \in 1 .. p /\ c # K /\ Holds(m, b, c, f)
                                          \/ b = D /\ c \in 1 .. p /\ c = K /\ f = last
  <2> TAKE b, c, f
  <2>1. CASE b # D
    BY <1>6, <1>15, <2>1 DEF Holds
  <2>2. CASE b = D /\ c \in 1 .. p
    <3>1. c \in 1 .. n
      BY <1>7, <2>2
    <3> QED
      BY <1>5, <1>6, <1>12, <1>15, <2>2, <3>1 DEF Holds
  <2>3. CASE b = D /\ c \notin 1 .. p
    BY <1>6, <1>12, <1>15, <2>3 DEF Holds
  <2> QED
    BY <2>1, <2>2, <2>3
<1>19. \A c \in 1 .. n : c \in 1 .. p \/ c = n
  BY <1>6, <1>7
<1>20. \A b, c, f : Holds(m, b, c, f) /\ f.id.index = i => b = D /\ c = K
  BY <1>2, <1>4, PlaceOnce
<1>21. \A b, c, f : Holds(m, b, c, f) /\ f.id.index = t => b = D /\ c = n /\ f = last
  BY <1>2, <1>8, <1>9, PlaceOnce
<1>22. t = i <=> K = n
  <2>1. t = i => K = n
    BY <1>8, <1>9, <1>20
  <2>2. K = n => g = last
    BY <1>4, <1>8 DEF Holds
  <2> QED
    BY <1>4, <1>9, <2>1, <2>2
<1>23. n \notin 1 .. p /\ (K # n => K \in 1 .. p)
  BY <1>6, <1>7
<1>24. ASSUME NEW b, NEW c, NEW f, Holds(M, b, c, f)
       PROVE  S[f.id.index] = PlaceOf(b, c) /\ f.transform = f.id
  <2>1. CASE b = D /\ c \in 1 .. p /\ c = K /\ f = last
    <3>1. t # i
      BY <1>22, <1>23, <2>1
    <3>2. f.transform = f.id
      BY <1>2, <1>8, <2>1 DEF Agree
    <3> QED
      BY <1>9, <1>10, <1>17, <2>1, <3>1, <3>2
  <2>2. CASE Holds(m, b, c, f) /\ (b # D \/ (c \in 1 .. p /\ c # K))
    <3>1. f.id.index # i
      BY <1>20, <2>2
    <3>2. f.id.index # t
      BY <1>21, <1>23, <2>2
    <3>3. f.id.index \in Index /\ s[f.id.index] = PlaceOf(b, c) /\ f.transform = f.id
      BY <1>2, <2>2, HoldsTypes DEF Agree
    <3> QED
      BY <1>17, <3>1, <3>2, <3>3
  <2> QED
    BY <1>18, <1>24, <2>1, <2>2
<1>25. ASSUME NEW j \in Index, s[j].depthLevel >= 0, j # i
       PROVE  /\ S[j].depthLevel >= 0
              /\ \A f : Holds(m, s[j].depthLevel + 1, s[j].localIndex + 1, f)
                    => Holds(M, S[j].depthLevel + 1, S[j].localIndex + 1, f)
  <2>1. PICK h : Holds(m, s[j].depthLevel + 1, s[j].localIndex + 1, h) /\ h.id.index = j
    BY <1>2, <1>25 DEF Agree
  <2>2. PICK b, c : b = s[j].depthLevel + 1 /\ c = s[j].localIndex + 1
    OBVIOUS
  <2>3. \A f : Holds(m, b, c, f) => f = h
    BY <2>1, <2>2 DEF Holds
  <2>4. CASE j = t
    <3>1. b = D /\ c = n /\ h = last
      BY <1>21, <2>1, <2>2, <2>4
    <3>2. K \in 1 .. p
      BY <1>22, <1>23, <1>25, <2>4
    <3>3. S[j] = PlaceOf(D, K)
      BY <1>17, <1>25, <2>4
    <3>4. S[j].depthLevel = D - 1 /\ S[j].localIndex = K - 1
      BY <3>3 DEF PlaceOf
    <3>5. S[j].depthLevel >= 0 /\ S[j].depthLevel + 1 = D /\ S[j].localIndex + 1 = K
      BY <1>6, <3>4
    <3>6. Holds(M, D, K, last)
      BY <1>18, <3>2
    <3> QED
      BY <2>2, <2>3, <3>1, <3>5, <3>6
  <2>5. CASE j # t
    <3>1. S[j] = s[j]
      BY <1>17, <1>25, <2>5
    <3>2. ~(b = D /\ c = K)
      <4>1. Holds(m, D, K, h) => h = g
        BY <1>4 DEF Holds
      <4> QED
        BY <1>4, <1>25, <2>1, <2>2, <4>1
    <3>3. ~(b = D /\ c = n)
      <4>1. Holds(m, D, n, h) => h = last
        BY <1>8 DEF Holds
      <4> QED
        BY <1>9, <2>1, <2>2, <2>5, <4>1
    <3>4. b = D => c \in 1 .. n
      BY <1>5, <1>6, <2>1, <2>2 DEF Holds
    <3>5. Holds(M, b, c, h)
      BY <1>18, <1>19, <2>1, <2>2, <3>2, <3>3, <3>4
    <3> QED
      BY <1>25, <2>2, <2>3, <3>1, <3>5
  <2> QED
    BY <2>4, <2>5
<1>26. \A j \in Index : S[j].depthLevel >= 0 <=> s[j].depthLevel >= 0 /\ j # i
  <2> TAKE j \in Index
  <2>1. CASE j = i
    BY <1>16, <1>17, <2>1
  <2>2. CASE j # i /\ j = t
    BY <1>10, <1>25, <2>2
  <2>3. CASE j # i /\ j # t
    BY <1>17, <2>3
  <2> QED
    BY <2>1, <2>2, <2>3
<1>27. Agree(M, S)
  <2>1. ASSUME NEW j \in Index, S[j].depthLevel >= 0
        PROVE  \E f : Holds(M, S[j].depthLevel + 1, S[j].localIndex + 1, f) /\ f.id.index = j
    <3>1. s[j].depthLevel >= 0 /\ j # i
      BY <1>26, <2>1
    <3>2. PICK h : Holds(m, s[j].depthLevel + 1, s[j].localIndex + 1, h) /\ h.id.index = j
      BY <1>2, <3>1 DEF Agree
    <3> QED
      BY <1>25, <3>1, <3>2
  <2> QED
    BY <1>24, <2>1 DEF Agree
<1>28. PICK q : q = SwapAndPop(r, i)
  OBVIOUS
<1>29. q.mDepth = M /\ q.mSparse = S /\ q = [mDepth |-> q.mDepth, mSparse |-> q.mSparse]
  BY <1>14, <1>28
<1>30. Packed(q) /\ Len(q.mDepth) = Len(r.mDepth)
  BY <1>1, <1>15, <1>17, <1>27, <1>29 DEF Packed
<1>31. \A j \in Index : HasTransform(q, j) <=> HasTransform(r, j) /\ j # i
  BY <1>1, <1>26, <1>29 DEF HasTransform
<1>32. \A j \in Index : \A e : HasTransform(q, j) /\ EntryIs(r, j, e) => EntryIs(q, j, e)
  BY <1>1, <1>25, <1>26, <1>29 DEF HasTransform, EntryIs
<1> QED
  BY <1>28, <1>30, <1>31, <1>32

\* The entry of component i was made for identifier id.
Owns(r, i, id) == HasTransform(r, i) /\ \E e : EntryIs(r, i, e) /\ e.id = id

\* A level is a number: a component without a transform counts as level -1.
LEMMA ChildLevelNat ==
    ASSUME NEW r, Packed(r), NEW parentID \in ID
    PROVE  ChildLevel(r, parentID) \in Nat
<1>1. parentID.index \in Index
  BY DEF ID
<1>2. r.mSparse[parentID.index] \in Place
  BY <1>1 DEF Packed
<1>3. r.mSparse[parentID.index].depthLevel \in Nat \cup {-1}
  BY <1>2 DEF Place
<1>4. r.mSparse[parentID.index].depthLevel + 1 \in Nat
  BY <1>3
<1> QED
  BY <1>4 DEF ChildLevel

\* A transform on its level, in a registry with levels enough.
LEMMA PushOwns ==
    ASSUME NEW r, Packed(r), NEW d \in Nat, d + 1 <= Len(r.mDepth), NEW e \in Entry, e.transform = e.id,
           ~HasTransform(r, e.id.index), NEW q, q = PushEntry(r, d, e)
    PROVE  /\ Packed(q)
           /\ \A j \in Index : HasTransform(q, j) <=> HasTransform(r, j) \/ j = e.id.index
           /\ \A j \in Index : \A x : Owns(r, j, x) => Owns(q, j, x)
           /\ Owns(q, e.id.index, e.id)
<1>1. d < Len(r.mDepth)
  <2>1. Len(r.mDepth) \in Nat
    BY DEF Packed
  <2> QED
    BY <2>1
<1>2. /\ Packed(q)
      /\ HasTransform(q, e.id.index) /\ EntryIs(q, e.id.index, e)
      /\ \A j \in Index : j # e.id.index => q.mSparse[j] = r.mSparse[j]
      /\ \A b, c, f : Holds(r.mDepth, b, c, f) => Holds(q.mDepth, b, c, f)
  BY <1>1, PushKeeps
<1>3. \A j \in Index : HasTransform(q, j) <=> HasTransform(r, j) \/ j = e.id.index
  BY <1>2 DEF HasTransform
<1>4. ASSUME NEW j \in Index, NEW x, Owns(r, j, x) PROVE Owns(q, j, x)
  <2>1. j # e.id.index
    BY <1>4 DEF Owns
  <2>2. PICK f : EntryIs(r, j, f) /\ f.id = x
    BY <1>4 DEF Owns
  <2>3. EntryIs(q, j, f)
    BY <1>2, <2>1, <2>2 DEF EntryIs
  <2>4. HasTransform(q, j)
    BY <1>3, <1>4 DEF Owns
  <2> QED
    BY <2>2, <2>3, <2>4 DEF Owns
<1> QED
  BY <1>2, <1>3, <1>4 DEF Owns

\* An empty level changes nothing.
LEMMA ReserveOwns ==
    ASSUME NEW r, Packed(r), NEW n \in Nat, NEW q, q = ReserveDepth(r, n)
    PROVE  /\ Packed(q) /\ n <= Len(q.mDepth)
           /\ \A j \in Index : HasTransform(q, j) <=> HasTransform(r, j)
           /\ \A j \in Index : \A x : Owns(r, j, x) => Owns(q, j, x)
<1>1. /\ Packed(q) /\ q.mSparse = r.mSparse /\ n <= Len(q.mDepth)
      /\ \A d, k, e : Holds(q.mDepth, d, k, e) <=> Holds(r.mDepth, d, k, e)
  BY ReserveKeeps
<1> QED
  BY <1>1 DEF HasTransform, Owns, EntryIs

\* A transform that is removed is the only one that goes.
LEMMA PopOwns ==
    ASSUME NEW r, Packed(r), NEW i \in Index, HasTransform(r, i), NEW q, q = SwapAndPop(r, i)
    PROVE  /\ Packed(q) /\ Len(q.mDepth) = Len(r.mDepth)
           /\ \A j \in Index : HasTransform(q, j) <=> HasTransform(r, j) /\ j # i
           /\ \A j \in Index : \A x : Owns(r, j, x) /\ j # i => Owns(q, j, x)
<1>1. /\ Packed(q) /\ Len(q.mDepth) = Len(r.mDepth)
      /\ \A j \in Index : HasTransform(q, j) <=> HasTransform(r, j) /\ j # i
      /\ \A j \in Index : \A e : HasTransform(q, j) /\ EntryIs(r, j, e) => EntryIs(q, j, e)
  BY PopKeeps
<1> QED
  BY <1>1 DEF Owns

\* create_transform.
LEMMA CreateOwns ==
    ASSUME NEW r, Packed(r), NEW id \in ID, NEW parentID \in ID, ~HasTransform(r, id.index),
           NEW q, q = CreateTransform(r, id, parentID)
    PROVE  /\ Packed(q)
           /\ \A j \in Index : HasTransform(q, j) <=> HasTransform(r, j) \/ j = id.index
           /\ \A j \in Index : \A x : Owns(r, j, x) => Owns(q, j, x)
           /\ Owns(q, id.index, id)
<1>1. PICK d, e, v : /\ d = ChildLevel(r, parentID)
                     /\ e = [id |-> id, parentID |-> parentID, transform |-> id]
                     /\ v = ReserveDepth(r, d + 1)
  OBVIOUS
<1>2. d \in Nat /\ d + 1 \in Nat
  BY <1>1, ChildLevelNat
<1>3. q = PushEntry(v, d, e)
  BY <1>1 DEF CreateTransform
<1>4. e \in Entry /\ e.transform = e.id /\ e.id = id /\ id.index \in Index
  BY <1>1 DEF Entry, ID
<1>5. /\ Packed(v) /\ d + 1 <= Len(v.mDepth)
      /\ \A j \in Index : HasTransform(v, j) <=> HasTransform(r, j)
      /\ \A j \in Index : \A x : Owns(r, j, x) => Owns(v, j, x)
  BY <1>1, <1>2, ReserveOwns
<1>6. ~HasTransform(v, e.id.index)
  BY <1>4, <1>5
<1>7. /\ Packed(q)
      /\ \A j \in Index : HasTransform(q, j) <=> HasTransform(v, j) \/ j = e.id.index
      /\ \A j \in Index : \A x : Owns(v, j, x) => Owns(q, j, x)
      /\ Owns(q, e.id.index, e.id)
  BY <1>2, <1>3, <1>4, <1>5, <1>6, PushOwns
<1> QED
  BY <1>4, <1>5, <1>7

\* One iteration of reparent_subtree: the transform moves to another level.
LEMMA MoveOwns ==
    ASSUME NEW r, Packed(r), NEW id \in ID, NEW parentID \in ID, Owns(r, id.index, id),
           NEW q, q = MoveTransform(r, id, parentID)
    PROVE  /\ Packed(q)
           /\ \A j \in Index : HasTransform(q, j) <=> HasTransform(r, j)
           /\ \A j \in Index : \A x : j # id.index /\ Owns(r, j, x) => Owns(q, j, x)
           /\ Owns(q, id.index, id)
<1>1. PICK d, v, w, i : /\ d = ChildLevel(r, parentID)
                        /\ v = ReserveDepth(r, d + 1)
                        /\ i = id.index
                        /\ w = SwapAndPop(v, i)
  OBVIOUS
<1>2. d \in Nat /\ d + 1 \in Nat /\ i \in Index
  BY <1>1, ChildLevelNat DEF ID
<1>3. HasTransform(r, i) /\ EntryOf(r, i).transform = id
  <2>1. PICK f : EntryIs(r, i, f) /\ f.id = id
    BY <1>1 DEF Owns
  <2>2. HasTransform(r, i)
    BY <1>1 DEF Owns
  <2>3. EntryIs(r, i, EntryOf(r, i)) /\ EntryOf(r, i).transform = EntryOf(r, i).id
    BY <1>2, <2>2, PackedHas
  <2>4. EntryOf(r, i) = f
    BY <2>1, <2>3 DEF EntryIs, Holds
  <2> QED
    BY <2>1, <2>2, <2>3, <2>4
<1>4. PICK e : e = [id |-> id, parentID |-> parentID, transform |-> id]
  OBVIOUS
<1>5. q = PushEntry(w, d, e)
  BY <1>1, <1>3, <1>4 DEF MoveTransform
<1>6. e \in Entry /\ e.transform = e.id /\ e.id = id
  BY <1>4 DEF Entry
<1>7. /\ Packed(v) /\ d + 1 <= Len(v.mDepth)
      /\ \A j \in Index : HasTransform(v, j) <=> HasTransform(r, j)
      /\ \A j \in Index : \A x : Owns(r, j, x) => Owns(v, j, x)
  BY <1>1, <1>2, ReserveOwns
<1>8. /\ Packed(w) /\ Len(w.mDepth) = Len(v.mDepth)
      /\ \A j \in Index : HasTransform(w, j) <=> HasTransform(v, j) /\ j # i
      /\ \A j \in Index : \A x : Owns(v, j, x) /\ j # i => Owns(w, j, x)
  BY <1>1, <1>2, <1>3, <1>7, PopOwns
<1>9. ~HasTransform(w, e.id.index) /\ d + 1 <= Len(w.mDepth)
  BY <1>1, <1>2, <1>6, <1>7, <1>8
<1>10. /\ Packed(q)
       /\ \A j \in Index : HasTransform(q, j) <=> HasTransform(w, j) \/ j = e.id.index
       /\ \A j \in Index : \A x : Owns(w, j, x) => Owns(q, j, x)
       /\ Owns(q, e.id.index, e.id)
  BY <1>2, <1>5, <1>6, <1>8, <1>9, PushOwns
<1> QED
  BY <1>1, <1>2, <1>3, <1>6, <1>7, <1>8, <1>10

-----------------------------------------------------------------------------
(***************************************************************************)
(* Which component has a transform.  Where transforms hang below           *)
(* transforms, the walks over the transforms reach all of a subtree.       *)
(***************************************************************************)
Has(i) == HasTransform(transform2DRegistry, i)
WorkItem == [id : ID, parentID : ID]
Works(queue, i) == \E k \in DOMAIN queue : queue[k].id.index = i
Distinct(queue) == \A j, k \in DOMAIN queue : queue[j].id.index = queue[k].id.index => j = k

\* The component of w is alive and should have a transform.
Current(w) == w.id.index \in Live /\ Is2D(w.id.index) /\ w.id = comp[w.id.index].cuid

\* A transform belongs to a live component that should have one.
OwnersLive ==
    \A i \in Index : Has(i) => i \in Live /\ Is2D(i) /\ Owns(transform2DRegistry, i, comp[i].cuid)

\* Transforms hang below transforms.
NotMixed ==
    \A i \in Live : Is2D(i) => comp[i].parent \in {Root, Adrift} \/ Is2D(comp[i].parent)

WorkLive ==
    op \in {"popping", "moving"} => work \in Seq(WorkItem) /\ \A k \in DOMAIN work : Current(work[k])

\* destroy_subtree goes through the transforms from the top down: done grows by
\* what is in the queue, and the queue is what hangs from done.
PoppedFromTop ==
    op = "popping" =>
        /\ \A i \in done : i \in Live /\ Is2D(i) /\ ~Works(work, i)
        /\ \A i \in Live : Is2D(i) => (Has(i) <=> i \notin done)
        /\ Distinct(work)
        /\ \A i \in Live : Works(work, i) \/ i \in done => i = doomed[1] \/ comp[i].parent \in done
        /\ \A i \in Live : Is2D(i) /\ (i = doomed[1] \/ comp[i].parent \in done) => Works(work, i) \/ i \in done

\* Then the transforms that are missing are those of the subtree that is freed.
MissingFreed ==
    /\ op \in {"none", "moving", "cloning"} => \A i \in Live : Is2D(i) => Has(i)
    /\ op = "freeing" =>
          /\ \A i \in Live : Is2D(i) => (Has(i) <=> i \notin Subtree(doomed[1]))
          /\ \A k \in DOMAIN doomed : doomed[k] \in Subtree(doomed[1])
    /\ op \in {"none", "cloning", "freeing"} => done = {}

TransformInv ==
    /\ Packed(transform2DRegistry)
    /\ OwnersLive
    /\ NotMixed
    /\ WorkLive
    /\ PoppedFromTop
    /\ MissingFreed

\* At the start there is no transform.
LEMMA TransformInvInit == Init => TransformInv
<1> SUFFICES ASSUME Init PROVE TransformInv
  OBVIOUS
<1>1. /\ transform2DRegistry = EmptyTransforms
      /\ op = "none" /\ done = {}
      /\ comp = [i \in Index |-> NoComponent]
  BY DEF Init
<1>2. Live = {}
  BY <1>1 DEF Live, NoComponent
<1>3. /\ EmptyTransforms.mDepth = <<>> /\ EmptyTransforms.mSparse = [i \in Index |-> Nowhere]
      /\ EmptyTransforms = [mDepth |-> EmptyTransforms.mDepth, mSparse |-> EmptyTransforms.mSparse]
  BY DEF EmptyTransforms
<1>4. Nowhere \in Place /\ ~(Nowhere.depthLevel >= 0)
  BY DEF Nowhere, Place
<1>5. \A i \in Index : EmptyTransforms.mSparse[i] = Nowhere
  BY <1>3
<1>6. Agree(EmptyTransforms.mDepth, EmptyTransforms.mSparse)
  <2>1. \A d, k, e : ~Holds(EmptyTransforms.mDepth, d, k, e)
    BY <1>3 DEF Holds
  <2> QED
    BY <1>4, <1>5, <2>1 DEF Agree
<1>7. Packed(transform2DRegistry)
  <2>1. <<>> \in Seq(Seq(Entry))
    OBVIOUS
  <2>2. [i \in Index |-> Nowhere] \in [Index -> Place]
    BY <1>4
  <2> QED
    BY <1>1, <1>3, <1>6, <2>1, <2>2 DEF Packed
<1>8. \A i \in Index : ~Has(i)
  BY <1>1, <1>4, <1>5 DEF Has, HasTransform
<1> QED
  BY <1>1, <1>2, <1>7, <1>8 DEF TransformInv, OwnersLive, NotMixed, WorkLive, PoppedFromTop, MissingFreed

\* The rest of a queue, and its first item.
LEMMA TailWork ==
    ASSUME NEW q \in Seq(WorkItem), q # <<>>
    PROVE  /\ Head(q) \in WorkItem /\ Tail(q) \in Seq(WorkItem)
           /\ \E k \in DOMAIN q : Head(q) = q[k]
           /\ \A k \in DOMAIN Tail(q) : \E j \in DOMAIN q : Tail(q)[k] = q[j]
           /\ \A x : Works(q, x) <=> x = Head(q).id.index \/ Works(Tail(q), x)
           /\ Distinct(q) => Distinct(Tail(q)) /\ ~Works(Tail(q), Head(q).id.index)
<1>1. PICK h, t, n : h = Head(q) /\ t = Tail(q) /\ n = Len(q)
  OBVIOUS
<1>2. PICK m \in Nat : n = m + 1
  <2>1. n \in Nat \ {0}
    BY <1>1
  <2>2. n - 1 \in Nat /\ n = (n - 1) + 1
    BY <2>1
  <2> QED
    BY <2>2
<1>3. /\ h \in WorkItem /\ h = q[1] /\ t \in Seq(WorkItem) /\ DOMAIN q = 1 .. m + 1
      /\ DOMAIN t = 1 .. m /\ \A k \in 1 .. m : t[k] = q[k + 1]
  <2>1. Len(q) = m + 1
    BY <1>1, <1>2
  <2> QED
    BY <1>1, <2>1, InTail
<1>4. /\ \A k \in 1 .. m : k + 1 \in 1 .. m + 1 /\ k + 1 # 1
      /\ 1 \in 1 .. m + 1
      /\ \A k \in 1 .. m + 1 : k = 1 \/ \E j \in 1 .. m : k = j + 1
      /\ \A j, k \in 1 .. m : j + 1 = k + 1 => j = k
  <2>1. ASSUME NEW k \in 1 .. m + 1, k # 1 PROVE \E j \in 1 .. m : k = j + 1
    <3>1. k - 1 \in 1 .. m /\ k = (k - 1) + 1
      BY <2>1
    <3> QED
      BY <3>1
  <2> QED
    BY <2>1
<1>5. ASSUME NEW x PROVE Works(q, x) <=> x = h.id.index \/ Works(t, x)
  <2>1. ASSUME Works(q, x) PROVE x = h.id.index \/ Works(t, x)
    <3>1. PICK k \in 1 .. m + 1 : q[k].id.index = x
      BY <1>3, <2>1 DEF Works
    <3>2. CASE k = 1
      BY <1>3, <3>1, <3>2
    <3>3. CASE k # 1
      <4>1. PICK j \in 1 .. m : k = j + 1
        BY <1>4, <3>3
      <4>2. t[j] = q[k]
        BY <1>3, <4>1
      <4> QED
        BY <1>3, <3>1, <4>2 DEF Works
    <3> QED
      BY <3>2, <3>3
  <2>2. ASSUME Works(t, x) PROVE Works(q, x)
    <3>1. PICK j \in 1 .. m : t[j].id.index = x
      BY <1>3, <2>2 DEF Works
    <3>2. t[j] = q[j + 1] /\ j + 1 \in 1 .. m + 1
      BY <1>3, <1>4
    <3> QED
      BY <1>3, <3>1, <3>2 DEF Works
  <2>3. ASSUME x = h.id.index PROVE Works(q, x)
    BY <1>3, <1>4, <2>3 DEF Works
  <2> QED
    BY <2>1, <2>2, <2>3
<1>6. ASSUME Distinct(q) PROVE Distinct(t) /\ ~Works(t, h.id.index)
  <2>1. ASSUME NEW j \in 1 .. m, NEW k \in 1 .. m, t[j].id.index = t[k].id.index PROVE j = k
    <3>1. t[j] = q[j + 1] /\ j + 1 \in 1 .. m + 1 /\ t[k] = q[k + 1] /\ k + 1 \in 1 .. m + 1
      BY <1>3, <1>4
    <3>2. j + 1 = k + 1
      BY <1>3, <1>6, <2>1, <3>1 DEF Distinct
    <3> QED
      BY <1>4, <3>2
  <2>2. ASSUME Works(t, h.id.index) PROVE FALSE
    <3>1. PICK j \in 1 .. m : t[j].id.index = h.id.index
      BY <1>3, <2>2 DEF Works
    <3>2. t[j] = q[j + 1] /\ j + 1 \in 1 .. m + 1 /\ j + 1 # 1 /\ 1 \in 1 .. m + 1
      BY <1>3, <1>4
    <3> QED
      BY <1>3, <1>6, <3>1, <3>2 DEF Distinct
  <2> QED
    BY <1>3, <2>1, <2>2 DEF Distinct
<1>7. ASSUME NEW k \in DOMAIN t PROVE \E j \in DOMAIN q : t[k] = q[j]
  <2>1. t[k] = q[k + 1] /\ k + 1 \in 1 .. m + 1
    BY <1>3, <1>4
  <2> QED
    BY <1>3, <2>1
<1> QED
  BY <1>1, <1>3, <1>4, <1>5, <1>6, <1>7

\* The identifier of a live component names it.
LEMMA LiveNamed ==
    ASSUME IDInv, TreeInv, NEW c \in Live
    PROVE  c \in Index /\ IDOf(c) = comp[c].cuid /\ comp[c].cuid.index = c /\ comp[c].cuid \in ID
<1>1. c \in Index /\ c # Root
  BY IndexTypes
<1>2. comp[c].cuid = [index |-> c, gen |-> mGenerations[c + 1]]
  BY DEF IDInv, LiveCurrent
<1>3. comp[c].cuid \in ID
  BY <1>1 DEF TreeInv, TreeTypes
<1> QED
  BY <1>1, <1>2, <1>3 DEF IDOf

\* The queue with the children of i that have a transform.
LEMMA PushedIs ==
    ASSUME IDInv, TreeInv, op # "freeing", NEW i \in Live, NEW queue \in Seq(WorkItem), NEW f \in Hierarchy(i),
           NEW q, q = Pushed(queue, i, f)
    PROVE  /\ q \in Seq(WorkItem)
           /\ \A k \in DOMAIN q : Current(q[k]) \/ \E j \in DOMAIN queue : q[k] = queue[j]
           /\ \A x : Works(q, x) <=> Works(queue, x) \/ (In(children[i], x) /\ Is2D(x))
           /\ (Distinct(queue) /\ \A x : In(children[i], x) => ~Works(queue, x)) => Distinct(q)
<1>1. PICK c, u : c = children[i] /\ u = IDOf(i)
  OBVIOUS
<1>2. c \in Seq(Index) /\ NoRepeat(c) /\ (\A k \in DOMAIN c : c[k] \in Live) /\ u \in ID
  <2>1. i \in Index /\ u \in ID
    BY <1>1, LiveNamed
  <2>2. c \in Seq(Index)
    BY <1>1, <2>1 DEF TreeInv, TreeTypes
  <2>3. \A x \in Index : In(c, x) => x \in Live
    BY <1>1 DEF TreeInv, LinksAgree
  <2>4. \A k \in DOMAIN c : c[k] \in Index /\ In(c, c[k])
    BY <2>2 DEF In
  <2> QED
    BY <1>1, <2>1, <2>2, <2>3, <2>4 DEF TreeInv, LinksAgree
<1>3. PICK n \in Nat : f \in [1 .. n -> DOMAIN c]
  <2>1. PICK n \in 0 .. Len(c) : f \in [1 .. n -> DOMAIN c]
    BY <1>1 DEF Hierarchy
  <2> QED
    BY <2>1
<1>4. /\ \A j, k \in 1 .. n : j < k => f[j] < f[k]
      /\ \A k \in DOMAIN c : Is2D(c[k]) <=> \E j \in 1 .. n : f[j] = k
  BY <1>1, <1>3 DEF Hierarchy
<1>5. DOMAIN c \subseteq Nat
  BY <1>2
<1>6. \A j, k \in 1 .. n : f[j] = f[k] => j = k
  <2>1. ASSUME NEW j \in 1 .. n, NEW k \in 1 .. n, j < k PROVE f[j] # f[k]
    <3>1. f[j] \in Nat /\ f[k] \in Nat /\ f[j] < f[k]
      BY <1>3, <1>4, <1>5, <2>1
    <3> QED
      BY <3>1
  <2>2. \A j, k \in 1 .. n : j < k \/ k < j \/ j = k
    OBVIOUS
  <2> QED
    BY <2>1, <2>2
<1>7. PICK a : a = [k \in 1 .. n |-> [id |-> comp[c[f[k]]].cuid, parentID |-> u]]
  OBVIOUS
<1>8. \A k \in 1 .. n : /\ c[f[k]] \in Live /\ IDOf(c[f[k]]) = comp[c[f[k]]].cuid
                        /\ comp[c[f[k]]].cuid.index = c[f[k]] /\ comp[c[f[k]]].cuid \in ID
                        /\ Is2D(c[f[k]])
  <2> TAKE k \in 1 .. n
  <2>1. f[k] \in DOMAIN c
    BY <1>3
  <2>2. c[f[k]] \in Live /\ Is2D(c[f[k]])
    BY <1>2, <1>4, <2>1
  <2> QED
    BY <2>2, LiveNamed
<1>9. q = queue \o a
  <2>1. a = [k \in DOMAIN f |-> [id |-> IDOf(c[f[k]]), parentID |-> u]]
    BY <1>3, <1>7, <1>8
  <2> QED
    BY <1>1, <2>1 DEF Pushed
<1>10. \A k \in 1 .. n : a[k] \in WorkItem /\ a[k].id = comp[c[f[k]]].cuid /\ a[k].id.index = c[f[k]]
  BY <1>2, <1>7, <1>8 DEF WorkItem
<1>11. a \in Seq(WorkItem) /\ Len(a) = n /\ DOMAIN a = 1 .. n
  BY <1>7, <1>10
<1>12. \A x : Works(a, x) <=> In(c, x) /\ Is2D(x)
  <2>1. ASSUME NEW x, Works(a, x) PROVE In(c, x) /\ Is2D(x)
    <3>1. PICK k \in 1 .. n : c[f[k]] = x
      BY <1>10, <1>11, <2>1 DEF Works
    <3> QED
      BY <1>3, <1>8, <3>1 DEF In
  <2>2. ASSUME NEW x, In(c, x), Is2D(x) PROVE Works(a, x)
    <3>1. PICK k \in DOMAIN c : c[k] = x
      BY <2>2 DEF In
    <3>2. PICK j \in 1 .. n : f[j] = k
      BY <1>4, <2>2, <3>1
    <3> QED
      BY <1>10, <1>11, <3>1, <3>2 DEF Works
  <2> QED
    BY <2>1, <2>2
<1>13. Distinct(a)
  <2>1. ASSUME NEW j \in 1 .. n, NEW k \in 1 .. n, c[f[j]] = c[f[k]] PROVE j = k
    BY <1>2, <1>3, <1>6, <2>1 DEF NoRepeat
  <2> QED
    BY <1>10, <1>11, <2>1 DEF Distinct
<1>14. \A k \in 1 .. n : Current(a[k])
  BY <1>8, <1>10 DEF Current
<1>15. PICK m \in Nat : Len(queue) = m
  OBVIOUS
<1>16. /\ DOMAIN queue = 1 .. m /\ q \in Seq(WorkItem) /\ DOMAIN q = 1 .. m + n
       /\ \A k \in 1 .. m : k \in 1 .. m + n /\ q[k] = queue[k]
       /\ \A k \in 1 .. n : m + k \in 1 .. m + n /\ q[m + k] = a[k]
       /\ \A k \in 1 .. m + n : k \in 1 .. m \/ \E j \in 1 .. n : k = m + j
  <2>1. DOMAIN queue = 1 .. m
    BY <1>15
  <2>2. q = queue \o a /\ queue \in Seq(WorkItem) /\ a \in Seq(WorkItem) /\ Len(queue) = m /\ Len(a) = n
    BY <1>9, <1>11, <1>15
  <2> QED
    BY <1>15, <1>3, <2>1, <2>2, InConcat
<1>17. ASSUME NEW k \in DOMAIN q
       PROVE  (k \in 1 .. m /\ q[k] = queue[k]) \/ \E j \in 1 .. n : k = m + j /\ q[k] = a[j]
  <2>1. CASE k \in 1 .. m
    BY <1>16, <2>1
  <2>2. CASE k \notin 1 .. m
    <3>1. PICK j \in 1 .. n : k = m + j
      BY <1>16, <2>2
    <3>2. q[k] = a[j]
      BY <1>16, <3>1
    <3> QED
      BY <3>1, <3>2
  <2> QED
    BY <2>1, <2>2
<1>18. \A k \in DOMAIN q : Current(q[k]) \/ \E j \in DOMAIN queue : q[k] = queue[j]
  BY <1>14, <1>16, <1>17
<1>19. ASSUME NEW x PROVE Works(q, x) <=> Works(queue, x) \/ Works(a, x)
  <2>1. ASSUME Works(q, x) PROVE Works(queue, x) \/ Works(a, x)
    <3>1. PICK k \in DOMAIN q : q[k].id.index = x
      BY <2>1 DEF Works
    <3>2. CASE k \in 1 .. m /\ q[k] = queue[k]
      BY <1>16, <3>1, <3>2 DEF Works
    <3>3. CASE \E j \in 1 .. n : k = m + j /\ q[k] = a[j]
      BY <1>11, <3>1, <3>3 DEF Works
    <3> QED
      BY <1>17, <3>2, <3>3
  <2>2. ASSUME Works(queue, x) PROVE Works(q, x)
    <3>1. PICK k \in 1 .. m : queue[k].id.index = x
      BY <1>16, <2>2 DEF Works
    <3>2. q[k] = queue[k] /\ k \in DOMAIN q
      BY <1>16
    <3> QED
      BY <3>1, <3>2 DEF Works
  <2>3. ASSUME Works(a, x) PROVE Works(q, x)
    <3>1. PICK k \in 1 .. n : a[k].id.index = x
      BY <1>11, <2>3 DEF Works
    <3>2. q[m + k] = a[k] /\ m + k \in DOMAIN q
      BY <1>16
    <3> QED
      BY <3>1, <3>2 DEF Works
  <2> QED
    BY <2>1, <2>2, <2>3
<1>20. ASSUME Distinct(queue), \A x : In(c, x) => ~Works(queue, x) PROVE Distinct(q)
  <2> SUFFICES ASSUME NEW j \in DOMAIN q, NEW k \in DOMAIN q, q[j].id.index = q[k].id.index PROVE j = k
    BY DEF Distinct
  <2>1. ASSUME NEW x \in 1 .. m, NEW y \in 1 .. n PROVE queue[x].id.index # a[y].id.index
    <3>1. Works(queue, queue[x].id.index)
      BY <1>16 DEF Works
    <3>2. Works(a, a[y].id.index)
      BY <1>11 DEF Works
    <3> QED
      BY <1>12, <1>20, <3>1, <3>2
  <2>2. CASE j \in 1 .. m /\ k \in 1 .. m
    BY <1>16, <1>20, <2>2 DEF Distinct
  <2>3. CASE j \in 1 .. m /\ k \notin 1 .. m
    <3>1. PICK y \in 1 .. n : q[k] = a[y]
      BY <1>17, <2>3
    <3>2. q[j] = queue[j]
      BY <1>16, <2>3
    <3> QED
      BY <2>1, <2>3, <3>1, <3>2
  <2>4. CASE j \notin 1 .. m /\ k \in 1 .. m
    <3>1. PICK y \in 1 .. n : q[j] = a[y]
      BY <1>17, <2>4
    <3>2. q[k] = queue[k]
      BY <1>16, <2>4
    <3> QED
      BY <2>1, <2>4, <3>1, <3>2
  <2>5. CASE j \notin 1 .. m /\ k \notin 1 .. m
    <3>1. PICK x \in 1 .. n : j = m + x /\ q[j] = a[x]
      BY <1>17, <2>5
    <3>2. PICK y \in 1 .. n : k = m + y /\ q[k] = a[y]
      BY <1>17, <2>5
    <3>3. x = y
      BY <1>11, <1>13, <3>1, <3>2 DEF Distinct
    <3> QED
      BY <3>1, <3>2, <3>3
  <2> QED
    BY <2>2, <2>3, <2>4, <2>5
<1> QED
  BY <1>1, <1>12, <1>16, <1>18, <1>19, <1>20

\* A new component comes with the transform it should have.
LEMMA NewTransforms ==
    ASSUME IDInv, TreeInv, TransformInv, op \in {"none", "cloning"},
           NEW type \in Types, NEW p \in Live \cup {Root}, type = "data" \/ p = Root \/ Is2D(p),
           NewComponent(type, p)
    PROVE  /\ Packed(transform2DRegistry)' /\ OwnersLive' /\ NotMixed'
           /\ (\A i \in Live : Is2D(i) => Has(i))'
<1>1. PICK id, r, q : id = NextID /\ r = transform2DRegistry /\ q = transform2DRegistry'
  OBVIOUS
<1>2. Added(id, type, p)
  BY <1>1, NewEffect
<1>3. PICK n : n = id.index
  OBVIOUS
<1>4. /\ n \in Index \ Live /\ id \in ID /\ Live' = Live \cup {n}
      /\ comp'[n].cuid = id /\ comp'[n].type = type /\ comp'[n].parent = p
      /\ \A k \in Index : k # n => comp'[k] = comp[k]
  BY <1>2, <1>3 DEF Added
<1>5. Root \notin Index /\ Live \subseteq Index /\ p # n
  BY <1>4, IndexTypes
<1>6. /\ \A k \in Index : k # n => (Is2D(k)' <=> Is2D(k))
      /\ Is2D(n)' <=> type = "2d"
      /\ Is2D(Root)' <=> FALSE
  BY <1>4, <1>5 DEF Is2D
<1>7. /\ Packed(r)
      /\ \A i \in Index : HasTransform(r, i) => i \in Live /\ Is2D(i) /\ Owns(r, i, comp[i].cuid)
      /\ \A i \in Live : Is2D(i) => HasTransform(r, i)
      /\ \A i \in Live : Is2D(i) => comp[i].parent = Root \/ (comp[i].parent \in Live /\ Is2D(comp[i].parent))
  <2>1. \A i \in Live : comp[i].parent \in Live \cup {Root} /\ comp[i].parent # Adrift
    BY IndexTypes DEF TreeInv, ParentsLive
  <2> QED
    BY <1>1, <2>1 DEF TransformInv, OwnersLive, NotMixed, MissingFreed, Has
<1>8. /\ Packed(q)
      /\ \A j \in Index : HasTransform(q, j) <=> HasTransform(r, j) \/ (j = n /\ type = "2d")
      /\ \A j \in Index : \A x : Owns(r, j, x) => Owns(q, j, x)
      /\ type = "2d" => Owns(q, n, id)
  <2>1. CASE type = "2d"
    <3>1. q = CreateTransform(r, id, IDOf(p))
      BY <1>1, <2>1 DEF NewComponent
    <3>2. IDOf(p) \in ID
      <4>1. CASE p = Root
        BY <4>1, IDConstants DEF IDOf, NoID, ID, Index
      <4>2. CASE p \in Live
        BY <4>2, LiveNamed
      <4> QED
        BY <4>1, <4>2
    <3>3. ~HasTransform(r, id.index)
      BY <1>3, <1>4, <1>7
    <3> QED
      BY <1>3, <1>4, <1>7, <2>1, <3>1, <3>2, <3>3, CreateOwns
  <2>2. CASE type # "2d"
    <3>1. q = r
      BY <1>1, <2>2 DEF NewComponent
    <3> QED
      BY <1>7, <2>2, <3>1
  <2> QED
    BY <2>1, <2>2
<1>9. (\A i \in Live : Is2D(i) => Has(i))'
  <2> SUFFICES ASSUME NEW i \in Live \cup {n}, Is2D(i)' PROVE HasTransform(q, i)
    BY <1>1, <1>4 DEF Has
  <2>1. CASE i = n
    BY <1>4, <1>6, <1>8, <2>1
  <2>2. CASE i # n
    BY <1>4, <1>5, <1>6, <1>7, <1>8, <2>2
  <2> QED
    BY <2>1, <2>2
<1>10. OwnersLive'
  <2> SUFFICES ASSUME NEW i \in Index, HasTransform(q, i)
               PROVE  i \in Live' /\ Is2D(i)' /\ Owns(q, i, comp'[i].cuid)
    BY <1>1 DEF Has, OwnersLive
  <2>1. CASE i = n
    <3>1. type = "2d"
      BY <1>4, <1>7, <1>8, <2>1
    <3> QED
      BY <1>4, <1>6, <1>8, <2>1, <3>1
  <2>2. CASE i # n
    <3>1. HasTransform(r, i)
      BY <1>8, <2>2
    <3> QED
      BY <1>4, <1>6, <1>7, <1>8, <2>2, <3>1
  <2> QED
    BY <2>1, <2>2
<1>11. NotMixed'
  <2> SUFFICES ASSUME NEW i \in Live \cup {n}, Is2D(i)'
               PROVE  comp'[i].parent = Root \/ Is2D(comp[i].parent)'
    BY <1>4 DEF NotMixed
  <2>1. CASE i = n
    <3>1. p = Root \/ (p \in Index /\ Is2D(p)')
      BY <1>5, <1>6, <2>1
    <3> QED
      BY <1>4, <2>1, <3>1 DEF Is2D
  <2>2. CASE i # n
    <3>1. i \in Live /\ i \in Index /\ Is2D(i) /\ comp'[i] = comp[i]
      BY <1>4, <1>5, <1>6, <2>2
    <3>2. comp[i].parent = Root \/ (comp[i].parent \in Live /\ Is2D(comp[i].parent))
      BY <1>7, <3>1
    <3>3. PICK u : u = comp[i].parent
      OBVIOUS
    <3>4. u \in Live => u \in Index /\ u # n
      BY <1>4, <1>5
    <3>5. u = Root \/ Is2D(u)'
      BY <1>6, <3>2, <3>3, <3>4
    <3> QED
      BY <3>1, <3>3, <3>5 DEF Is2D
  <2> QED
    BY <2>1, <2>2
<1> QED
  BY <1>1, <1>8, <1>9, <1>10, <1>11

\* create_component.
LEMMA CreateTransforms ==
    ASSUME ~MixedTrees, IDInv, TreeInv, TransformInv, NEW type \in Types, NEW p \in Index \cup {Root},
           CreateComponent(type, p)
    PROVE  TransformInv'
<1>1. /\ op = "none" /\ op' = "none" /\ done' = done /\ p \in Live \cup {Root}
      /\ NewComponent(type, p)
      /\ type = "data" \/ p = Root \/ Is2D(p)
  BY DEF CreateComponent, loopVars, MayHold
<1>2. /\ Packed(transform2DRegistry)' /\ OwnersLive' /\ NotMixed'
      /\ (\A i \in Live : Is2D(i) => Has(i))'
  BY <1>1, NewTransforms
<1> QED
  BY <1>1, <1>2 DEF TransformInv, WorkLive, PoppedFromTop, MissingFreed

\* The copy of a component has the type and the parent of the original.
LEMMA CloneTransforms ==
    ASSUME ~MixedTrees, IDInv, TreeInv, TransformInv, NEW i \in Index, CloneComponentSubtree(i)
    PROVE  TransformInv'
<1>1. /\ op = "none" /\ op' = "cloning" /\ done' = done /\ i \in Live
      /\ NewComponent(comp[i].type, comp[i].parent)
  BY DEF CloneComponentSubtree
<1>2. comp[i].type \in Types /\ comp[i].parent \in Live \cup {Root}
  BY <1>1 DEF TreeInv, TreeTypes, ParentsLive
<1>3. comp[i].type = "data" \/ comp[i].parent = Root \/ Is2D(comp[i].parent)
  <2>1. i # Root /\ comp[i].parent # Adrift
    BY <1>1, <1>2, IndexTypes
  <2>2. comp[i].type = "data" \/ Is2D(i)
    BY <1>2, <2>1 DEF Is2D, Types
  <2> QED
    BY <1>1, <2>1, <2>2 DEF TransformInv, NotMixed
<1>4. PICK type, p : type = comp[i].type /\ p = comp[i].parent
  OBVIOUS
<1>5. /\ Packed(transform2DRegistry)' /\ OwnersLive' /\ NotMixed'
      /\ (\A k \in Live : Is2D(k) => Has(k))'
  BY <1>1, <1>2, <1>3, <1>4, NewTransforms
<1> QED
  BY <1>1, <1>5 DEF TransformInv, WorkLive, PoppedFromTop, MissingFreed

\* The copy of a child goes below the copy of its parent.
LEMMA CopyChildTransforms ==
    ASSUME ~MixedTrees, IDInv, TreeInv, TransformInv, CopyChild
    PROVE  TransformInv'
<1>1. PICK child : child = children[Top.src][Len(children[Top.dst]) + 1]
  OBVIOUS
<1>2. PICK type, p, s : type = comp[child].type /\ p = Top.dst /\ s = Top.src
  OBVIOUS
<1>3. /\ op = "cloning" /\ op' = "cloning" /\ done' = done
      /\ NewComponent(type, p)
  BY <1>1, <1>2 DEF CopyChild
<1>4. child \in Live /\ comp[child].parent = s /\ type \in Types
  BY <1>1, <1>2, NextChild
<1>5. s \in Live /\ p \in Live /\ comp[s].type = comp[p].type
  BY <1>2, <1>3, TopFrame DEF TreeInv
<1>6. type = "data" \/ Is2D(p)
  <2>1. Root \notin Live /\ Adrift \notin Live
    BY IndexTypes
  <2>2. CASE type # "data"
    <3>1. Is2D(child)
      BY <1>2, <1>4, <2>1, <2>2 DEF Is2D, Types
    <3>2. Is2D(s)
      BY <1>4, <1>5, <2>1, <3>1 DEF TransformInv, NotMixed
    <3> QED
      BY <1>5, <2>1, <3>2 DEF Is2D
  <2> QED
    BY <2>2
<1>7. /\ Packed(transform2DRegistry)' /\ OwnersLive' /\ NotMixed'
      /\ (\A k \in Live : Is2D(k) => Has(k))'
  BY <1>3, <1>4, <1>5, <1>6, NewTransforms
<1> QED
  BY <1>3, <1>7 DEF TransformInv, WorkLive, PoppedFromTop, MissingFreed

\* The rest of a clone touches no transform.
LEMMA CopyRestTransforms ==
    ASSUME TransformInv, CopyReturns \/ PlaceClone
    PROVE  TransformInv'
<1>1. /\ op = "cloning" /\ op' \in {"none", "cloning"} /\ done' = done
      /\ comp' = comp /\ transform2DRegistry' = transform2DRegistry
  BY DEF CopyReturns, PlaceClone, treeVars
<1>2. /\ Live' = Live
      /\ \A i : Is2D(i)' <=> Is2D(i)
      /\ \A i : Has(i)' <=> Has(i)
  BY <1>1 DEF Live, Is2D, Has
<1>3. OwnersLive' /\ NotMixed'
  BY <1>1, <1>2 DEF TransformInv, OwnersLive, NotMixed
<1> QED
  BY <1>1, <1>2, <1>3 DEF TransformInv, WorkLive, PoppedFromTop, MissingFreed

\* The walk over the transforms begins at the top of the subtree.
LEMMA DestroyTransforms ==
    ASSUME IDInv, TreeInv, TransformInv, NEW i \in Index, DestroyComponentSubtree(i)
    PROVE  TransformInv'
<1>1. /\ op = "none" /\ op' = "popping" /\ i \in Live /\ doomed' = <<i>>
      /\ done' = done /\ comp' = comp /\ transform2DRegistry' = transform2DRegistry
      /\ work' = IF Is2D(i) /\ Has(i) THEN <<[id |-> IDOf(i), parentID |-> NoID]>> ELSE <<>>
  BY DEF DestroyComponentSubtree, treeVars, Has
<1>2. done = {} /\ (\A k \in Live : Is2D(k) => Has(k))
  BY <1>1 DEF TransformInv, MissingFreed
<1>3. /\ Live' = Live
      /\ \A k : Is2D(k)' <=> Is2D(k)
      /\ \A k : Has(k)' <=> Has(k)
  BY <1>1 DEF Live, Is2D, Has
<1>4. OwnersLive' /\ NotMixed'
  BY <1>1, <1>3 DEF TransformInv, OwnersLive, NotMixed
<1>5. /\ work' \in Seq(WorkItem)
      /\ \A k \in DOMAIN work' : Current(work'[k])
      /\ Distinct(work')
      /\ \A k \in Live : Works(work', k) <=> (k = i /\ Is2D(i))
  <2>1. CASE ~Is2D(i)
    <3>1. work' = <<>>
      BY <1>1, <2>1
    <3>2. DOMAIN work' = {} /\ work' \in Seq(WorkItem)
      BY <3>1
    <3> QED
      BY <2>1, <3>2 DEF Distinct, Works
  <2>2. CASE Is2D(i)
    <3>1. PICK w : w = [id |-> comp[i].cuid, parentID |-> NoID]
      OBVIOUS
    <3>2. comp[i].cuid.index = i /\ comp[i].cuid \in ID /\ IDOf(i) = comp[i].cuid
      BY <1>1, LiveNamed
    <3>3. work' = <<w>>
      BY <1>1, <1>2, <2>2, <3>1, <3>2
    <3>4. w \in WorkItem /\ w.id = comp[i].cuid
      BY <3>1, <3>2, IDConstants DEF WorkItem, NoID, ID, Index
    <3>5. Current(w) /\ w.id.index = i
      BY <1>1, <2>2, <3>2, <3>4 DEF Current
    <3>6. work' \in Seq(WorkItem) /\ DOMAIN work' = {1} /\ work'[1] = w
      BY <3>3, <3>4
    <3> QED
      BY <2>2, <3>5, <3>6 DEF Distinct, Works
  <2> QED
    BY <2>1, <2>2
<1>6. \A w : Current(w)' <=> Current(w)
  BY <1>1, <1>3 DEF Current
<1>7. WorkLive'
  BY <1>5, <1>6 DEF WorkLive
<1>8. PoppedFromTop'
  <2>1. doomed'[1] = i
    BY <1>1
  <2> QED
    BY <1>1, <1>2, <1>3, <1>5, <2>1 DEF PoppedFromTop
<1>9. MissingFreed'
  BY <1>1 DEF MissingFreed
<1> QED
  BY <1>1, <1>4, <1>7, <1>8, <1>9 DEF TransformInv

\* One iteration of destroy_subtree of the transforms: what it takes goes to
\* done, and its children to the queue.
LEMMA PopTransforms ==
    ASSUME IDInv, TreeInv, TransformInv, PopTransform
    PROVE  TransformInv'
<1>1. PICK i, rest, r, q : /\ i = Head(work).id.index /\ rest = Tail(work)
                           /\ r = transform2DRegistry /\ q = transform2DRegistry'
  OBVIOUS
<1>2. PICK f \in Hierarchy(i) : work' = Pushed(rest, i, f)
  BY <1>1 DEF PopTransform
<1>3. /\ op = "popping" /\ op' = "popping" /\ work # <<>>
      /\ q = SwapAndPop(r, i)
      /\ done' = done \cup {i}
      /\ comp' = comp /\ children' = children /\ doomed' = doomed
  BY <1>1 DEF PopTransform, treeVars
<1>4. PICK d : d = doomed[1]
  OBVIOUS
<1>5. /\ work \in Seq(WorkItem)
      /\ \A k \in DOMAIN work : Current(work[k])
      /\ Distinct(work)
      /\ \A k \in done : k \in Live /\ Is2D(k) /\ ~Works(work, k)
      /\ \A k \in Live : Is2D(k) => (Has(k) <=> k \notin done)
      /\ \A k \in Live : Works(work, k) \/ k \in done => k = d \/ comp[k].parent \in done
      /\ \A k \in Live : Is2D(k) /\ (k = d \/ comp[k].parent \in done) => Works(work, k) \/ k \in done
  BY <1>3, <1>4 DEF TransformInv, WorkLive, PoppedFromTop
<1>6. /\ rest \in Seq(WorkItem)
      /\ \E k \in DOMAIN work : Head(work) = work[k]
      /\ \A k \in DOMAIN rest : \E j \in DOMAIN work : rest[k] = work[j]
      /\ \A x : Works(work, x) <=> x = i \/ Works(rest, x)
      /\ Distinct(rest) /\ ~Works(rest, i)
  BY <1>1, <1>3, <1>5, TailWork
<1>7. i \in Live /\ i \in Index /\ Is2D(i) /\ i \notin done /\ Has(i)
  <2>1. Current(Head(work))
    BY <1>5, <1>6
  <2>2. i \in Live /\ Is2D(i) /\ Works(work, i)
    BY <1>1, <1>6, <2>1 DEF Current
  <2> QED
    BY <1>5, <2>2, IndexTypes
<1>8. \A k \in Live : comp[k].parent = i <=> In(children[i], k)
  BY <1>7 DEF TreeInv, LinksAgree
<1>9. \A k \in Index : In(children[i], k) => k \in Live
  BY <1>3, <1>7 DEF TreeInv, LinksAgree
<1>10. \A x : In(children[i], x) => x \in Live /\ comp[x].parent = i
  <2>1. children[i] \in Seq(Index)
    BY <1>7 DEF TreeInv, TreeTypes
  <2>2. \A x : In(children[i], x) => x \in Index
    BY <2>1 DEF In
  <2> QED
    BY <1>8, <1>9, <2>2
<1>11. comp[i].parent # i
  <2>1. {i} \in SUBSET Live /\ {i} # {}
    BY <1>7
  <2>2. \E k \in {i} : comp[k].parent \notin {i}
    BY <2>1 DEF TreeInv, NoCycle
  <2> QED
    BY <2>2
\* The top of the subtree does not hang from the subtree.
<1>12. comp[d].parent # i
  <2> SUFFICES ASSUME comp[d].parent = i PROVE FALSE
    OBVIOUS
  <2> DEFINE Z == {k \in Live : Works(work, k) \/ k \in done}
  <2>1. i \in Z
    BY <1>6, <1>7
  <2>2. ASSUME NEW k \in Z PROVE comp[k].parent \in Z
    <3>1. k = d \/ comp[k].parent \in done
      BY <1>5
    <3> QED
      BY <1>5, <2>1, <3>1
  <2>3. Z \in SUBSET Live /\ Z # {}
    BY <2>1
  <2> HIDE DEF Z
  <2> QED
    BY <2>2, <2>3 DEF TreeInv, NoCycle
<1>13. \A x : In(children[i], x) => ~Works(work, x) /\ x \notin done /\ x # i
  <2>1. ASSUME NEW x, In(children[i], x) PROVE ~Works(work, x) /\ x \notin done /\ x # i
    <3>1. x \in Live /\ comp[x].parent = i
      BY <1>10, <2>1
    <3>2. x # d /\ comp[x].parent \notin done /\ x # i
      BY <1>7, <1>11, <1>12, <3>1
    <3> QED
      BY <1>5, <3>1, <3>2
  <2> QED
    BY <2>1
<1>14. op # "freeing"
  BY <1>3
<1>15. /\ work' \in Seq(WorkItem)
       /\ \A k \in DOMAIN work' : Current(work'[k]) \/ \E j \in DOMAIN rest : work'[k] = rest[j]
       /\ \A x : Works(work', x) <=> Works(rest, x) \/ (In(children[i], x) /\ Is2D(x))
       /\ Distinct(work')
  <2>1. \A x : In(children[i], x) => ~Works(rest, x)
    BY <1>6, <1>13
  <2> QED
    BY <1>2, <1>6, <1>7, <1>14, <2>1, PushedIs
<1>16. \A k \in DOMAIN work' : Current(work'[k])
  <2> TAKE k \in DOMAIN work'
  <2>1. CASE \E j \in DOMAIN rest : work'[k] = rest[j]
    <3>1. PICK j \in DOMAIN rest : work'[k] = rest[j]
      BY <2>1
    <3>2. PICK h \in DOMAIN work : rest[j] = work[h]
      BY <1>6
    <3> QED
      BY <1>5, <3>1, <3>2
  <2> QED
    BY <1>15, <2>1
<1>17. /\ Packed(q)
       /\ \A j \in Index : HasTransform(q, j) <=> HasTransform(r, j) /\ j # i
       /\ \A j \in Index : \A x : Owns(r, j, x) /\ j # i => Owns(q, j, x)
  <2>1. Packed(r) /\ HasTransform(r, i)
    BY <1>1, <1>7 DEF TransformInv, Has
  <2> QED
    BY <1>3, <1>7, <2>1, PopOwns
<1>18. /\ Live' = Live
       /\ \A k : Is2D(k)' <=> Is2D(k)
       /\ \A k \in Index : Has(k)' <=> Has(k) /\ k # i
  BY <1>1, <1>3, <1>17 DEF Live, Is2D, Has
<1>19. OwnersLive'
  BY <1>1, <1>3, <1>17, <1>18 DEF TransformInv, OwnersLive, Has
<1>20. NotMixed'
  BY <1>3, <1>18 DEF TransformInv, NotMixed
<1>21. WorkLive'
  BY <1>3, <1>15, <1>16, <1>18 DEF WorkLive, Current
<1>22. \A k \in done' : k \in Live /\ Is2D(k) /\ ~Works(work', k)
  <2> TAKE k \in done'
  <2>1. CASE k = i
    BY <1>6, <1>7, <1>13, <1>15, <2>1
  <2>2. CASE k \in done
    BY <1>5, <1>6, <1>13, <1>15, <2>2
  <2> QED
    BY <1>3, <2>1, <2>2
<1>23. \A k \in Live : Is2D(k) => ((Has(k) /\ k # i) <=> k \notin done')
  BY <1>3, <1>5
<1>24. \A k \in Live : Works(work', k) \/ k \in done' => k = d \/ comp[k].parent \in done'
  <2> TAKE k \in Live
  <2>1. CASE In(children[i], k)
    BY <1>3, <1>10, <2>1
  <2>2. CASE Works(work, k) \/ k \in done
    BY <1>3, <1>5, <2>2
  <2> QED
    BY <1>3, <1>6, <1>15, <2>1, <2>2
<1>25. \A k \in Live : Is2D(k) /\ (k = d \/ comp[k].parent \in done') => Works(work', k) \/ k \in done'
  <2> TAKE k \in Live
  <2>1. CASE comp[k].parent = i
    BY <1>8, <1>15, <2>1
  <2>2. CASE comp[k].parent # i
    BY <1>3, <1>5, <1>6, <1>15, <2>2
  <2> QED
    BY <2>1, <2>2
<1>26. PoppedFromTop'
  BY <1>3, <1>4, <1>15, <1>18, <1>22, <1>23, <1>24, <1>25, IndexTypes DEF PoppedFromTop
<1>27. MissingFreed'
  BY <1>3 DEF MissingFreed
<1> QED
  BY <1>1, <1>17, <1>19, <1>20, <1>21, <1>26, <1>27 DEF TransformInv

\* The walk is over when it has taken the transforms of the whole subtree.
LEMMA PoppedAll ==
    ASSUME TreeInv, TransformInv, op = "popping", work = <<>>, NEW d, d = doomed[1]
    PROVE  /\ d \in Live
           /\ \A k \in Live : Is2D(k) => (Has(k) <=> k \notin Subtree(d))
<1>1. d \in Live
  BY LastDoomed DEF TreeInv, DoomedChain
<1>2. /\ \A k \in done : k \in Live /\ Is2D(k)
      /\ \A k \in Live : Is2D(k) => (Has(k) <=> k \notin done)
      /\ \A k \in Live : k \in done => k = d \/ comp[k].parent \in done
      /\ \A k \in Live : Is2D(k) /\ (k = d \/ comp[k].parent \in done) => k \in done
  <2>1. \A k : ~Works(work, k)
    BY DEF Works
  <2> QED
    BY <2>1 DEF TransformInv, PoppedFromTop
<1>3. /\ Subtree(d) \subseteq Live /\ d \in Subtree(d)
      /\ \A k \in Live : comp[k].parent \in Subtree(d) => k \in Subtree(d)
      /\ \A S \in SUBSET Live :
            (d \in S /\ \A k \in Live : comp[k].parent \in S => k \in S) => Subtree(d) \subseteq S
  BY <1>1, SubtreeIs
<1>4. done \subseteq Subtree(d)
  <2> DEFINE T == done \ Subtree(d)
  <2>1. ASSUME NEW k \in T PROVE comp[k].parent \in T
    BY <1>2, <1>3
  <2>2. T \in SUBSET Live
    BY <1>2
  <2>3. T = {}
    <3> HIDE DEF T
    <3> QED
      BY <2>1, <2>2 DEF TreeInv, NoCycle
  <2> QED
    BY <2>3
<1>5. \A k \in Subtree(d) : Is2D(k) => k \in done
  <2> DEFINE S == {k \in Subtree(d) : Is2D(k) => k \in done}
  <2>1. d \in S /\ S \in SUBSET Live
    BY <1>1, <1>2, <1>3
  <2>2. ASSUME NEW k \in Live, comp[k].parent \in S PROVE k \in S
    <3>1. k \in Subtree(d) /\ comp[k].parent \in Live
      BY <1>3, <2>2
    <3>2. CASE Is2D(k)
      <4>1. comp[k].parent \notin {Root, Adrift}
        BY <3>1, IndexTypes
      <4>2. Is2D(comp[k].parent)
        BY <3>2, <4>1 DEF TransformInv, NotMixed
      <4> QED
        BY <1>2, <2>2, <3>1, <3>2, <4>2
    <3> QED
      BY <3>1, <3>2
  <2>3. Subtree(d) \subseteq S
    <3> HIDE DEF S
    <3> QED
      BY <1>3, <2>1, <2>2
  <2> QED
    BY <2>3
<1> QED
  BY <1>1, <1>2, <1>4, <1>5

\* The subtree that is cut off is the one the walk went through.
LEMMA DetachTransforms ==
    ASSUME IDInv, TreeInv, TransformInv, Detach
    PROVE  TransformInv'
<1>1. PICK d : d = doomed[1]
  OBVIOUS
<1>2. /\ op = "popping" /\ op' = "freeing" /\ work = <<>>
      /\ done' = {} /\ doomed' = doomed /\ transform2DRegistry' = transform2DRegistry
      /\ comp' = [comp EXCEPT ![d].parent = Adrift]
  BY <1>1 DEF Detach
<1>3. d \in Live /\ d \in Index /\ \A k \in Live : Is2D(k) => (Has(k) <=> k \notin Subtree(d))
  BY <1>1, <1>2, PoppedAll, IndexTypes
<1>4. \A k \in Index : /\ comp'[k].cuid = comp[k].cuid /\ comp'[k].type = comp[k].type
                       /\ comp'[k].parent = IF k = d THEN Adrift ELSE comp[k].parent
  <2>1. comp \in [Index -> [cuid : ID, type : Types, parent : Index \cup {Root, Adrift}]]
    BY DEF TreeInv, TreeTypes
  <2> QED
    BY <1>2, <1>3, <2>1
<1>5. /\ Live' = Live
      /\ \A k \in Index \cup {Root} : Is2D(k)' <=> Is2D(k)
      /\ \A k : Has(k)' <=> Has(k)
  BY <1>2, <1>4 DEF Live, Is2D, Has
<1>6. Subtree(d)' = Subtree(d)
  <2>1. \A S \in SUBSET Live : d \in S =>
          ((\A k \in Live : comp'[k].parent \in S => k \in S) <=> (\A k \in Live : comp[k].parent \in S => k \in S))
    BY <1>4, IndexTypes
  <2>2. Subtree(d)' = {n \in Live : \A S \in SUBSET Live :
                          d \in S /\ (\A k \in Live : comp'[k].parent \in S => k \in S) => n \in S}
    BY <1>5 DEF Subtree
  <2>3. Subtree(d) = {n \in Live : \A S \in SUBSET Live :
                          d \in S /\ (\A k \in Live : comp[k].parent \in S => k \in S) => n \in S}
    BY DEF Subtree
  <2> QED
    BY <2>1, <2>2, <2>3
<1>7. OwnersLive'
  BY <1>2, <1>4, <1>5 DEF TransformInv, OwnersLive
<1>8. NotMixed'
  <2> SUFFICES ASSUME NEW k \in Live, Is2D(k)'
               PROVE  comp'[k].parent \in {Root, Adrift} \/ Is2D(comp[k].parent)'
    BY <1>5 DEF NotMixed
  <2>1. CASE k = d
    BY <1>3, <1>4, <2>1
  <2>2. CASE k # d
    <3>1. PICK u : u = comp[k].parent
      OBVIOUS
    <3>2. k \in Index /\ comp'[k].parent = u /\ Is2D(k)
      BY <1>4, <1>5, <2>2, <3>1, IndexTypes
    <3>3. u \in Live \cup {Root}
      BY <1>2, <3>1 DEF TreeInv, ParentsLive
    <3>4. u \in {Root, Adrift} \/ Is2D(u)
      BY <3>1, <3>2 DEF TransformInv, NotMixed
    <3>5. u \in {Root, Adrift} \/ Is2D(u)'
      BY <1>5, <3>3, <3>4, IndexTypes
    <3> QED
      BY <3>2, <3>5 DEF Is2D
  <2> QED
    BY <2>1, <2>2
<1>9. \A k \in DOMAIN doomed : doomed[k] \in Subtree(d)
  <2>1. DOMAIN doomed = {1}
    BY <1>2, LastDoomed DEF TreeInv, DoomedChain
  <2> QED
    BY <1>1, <1>3, <2>1, SubtreeIs
<1>10. MissingFreed'
  <2>1. Subtree(doomed[1])' = Subtree(d)
    BY <1>1, <1>2, <1>6
  <2> QED
    BY <1>2, <1>3, <1>5, <1>9, <2>1, IndexTypes DEF MissingFreed
<1> QED
  BY <1>2, <1>7, <1>8, <1>10 DEF TransformInv, WorkLive, PoppedFromTop

\* The frames of destroy_subtree stay in the subtree.
LEMMA DescendTransforms ==
    ASSUME IDInv, TreeInv, TransformInv, Descend
    PROVE  TransformInv'
<1>1. PICK n, t, d : n = Len(doomed) /\ t = doomed[n] /\ d = doomed[1]
  OBVIOUS
<1>2. PICK k \in DOMAIN children[t] : children[t][k] \in Live /\ doomed' = Append(doomed, children[t][k])
  BY <1>1 DEF Descend
<1>3. PICK i : i = children[t][k]
  OBVIOUS
<1>4. /\ op = "freeing" /\ op' = "freeing" /\ done' = done
      /\ comp' = comp /\ transform2DRegistry' = transform2DRegistry
      /\ i \in Live /\ doomed' = Append(doomed, i)
  BY <1>2, <1>3 DEF Descend, treeVars
<1>5. n \in Nat \ {0} /\ DOMAIN doomed = 1 .. n /\ n \in DOMAIN doomed /\ t \in Live /\ 1 \in 1 .. n
  BY <1>1, <1>4, LastDoomed DEF TreeInv
<1>6. doomed \in Seq(Index) /\ i \in Index /\ d \in Live
  BY <1>1, <1>4, <1>5, IndexTypes DEF TreeInv, DoomedChain
<1>7. /\ DOMAIN doomed' = 1 .. n + 1 /\ doomed'[n + 1] = i
      /\ \A j \in 1 .. n : doomed'[j] = doomed[j]
      /\ \A j \in 1 .. n + 1 : j \in 1 .. n \/ j = n + 1
  BY <1>1, <1>4, <1>5, <1>6
<1>8. comp[i].parent = t
  <2>1. In(children[t], i)
    BY <1>2, <1>3 DEF In
  <2> QED
    BY <1>4, <1>5, <2>1 DEF TreeInv, LinksAgree
<1>9. /\ \A j \in Live : Is2D(j) => (Has(j) <=> j \notin Subtree(d))
      /\ \A j \in 1 .. n : doomed[j] \in Subtree(d)
      /\ done = {}
  BY <1>1, <1>4, <1>5 DEF TransformInv, MissingFreed
<1>10. i \in Subtree(d)
  BY <1>1, <1>4, <1>5, <1>6, <1>8, <1>9, SubtreeIs
<1>11. /\ Live' = Live
       /\ \A j : Is2D(j)' <=> Is2D(j)
       /\ \A j : Has(j)' <=> Has(j)
       /\ Subtree(d)' = Subtree(d)
  BY <1>4 DEF Live, Is2D, Has, Subtree
<1>12. OwnersLive' /\ NotMixed'
  BY <1>4, <1>11 DEF TransformInv, OwnersLive, NotMixed
<1>13. MissingFreed'
  <2>1. Subtree(doomed[1])' = Subtree(d)
    BY <1>1, <1>5, <1>7, <1>11
  <2>2. \A j \in DOMAIN doomed' : doomed'[j] \in Subtree(d)
    BY <1>7, <1>9, <1>10
  <2> QED
    BY <1>4, <1>9, <1>11, <2>1, <2>2 DEF MissingFreed
<1> QED
  BY <1>4, <1>12, <1>13 DEF TransformInv, WorkLive, PoppedFromTop

\* What a subtree is in the next state.
LEMMA SubtreeIsNext ==
    ASSUME NEW i \in Live'
    PROVE  /\ Subtree(i)' \subseteq Live' /\ i \in Subtree(i)'
           /\ \A k \in Live' : comp'[k].parent \in Subtree(i)' => k \in Subtree(i)'
           /\ \A S \in SUBSET Live' :
                 (i \in S /\ \A k \in Live' : comp'[k].parent \in S => k \in S) => Subtree(i)' \subseteq S
<1> DEFINE Closed(S) == i \in S /\ (\A k \in Live' : comp'[k].parent \in S => k \in S)
<1>1. Subtree(i)' = {n \in Live' : \A S \in SUBSET Live' : Closed(S) => n \in S}
  BY DEF Subtree
<1>2. ASSUME NEW k \in Live', comp'[k].parent \in Subtree(i)' PROVE k \in Subtree(i)'
  BY <1>1, <1>2
<1> QED
  BY <1>1, <1>2

\* The subtree shrinks by the component that is freed, which has no transform.
LEMMA FreeTransforms ==
    ASSUME IDInv, TreeInv, TransformInv, FreeComponent
    PROVE  TransformInv'
<1>1. PICK i, n, d : i = doomed[Len(doomed)] /\ n = Len(doomed) /\ d = doomed[1]
  OBVIOUS
<1>2. /\ Freed(i, n) /\ op = "freeing" /\ done' = done /\ transform2DRegistry' = transform2DRegistry
  BY <1>1, FreeEffect DEF FreeComponent
<1>3. /\ n \in Nat \ {0} /\ DOMAIN doomed = 1 .. n /\ doomed[n] = i
      /\ i \in Live /\ i \in Index
      /\ \A j \in Live : comp[j].parent # i
      /\ Live' = Live \ {i}
      /\ \A k \in Live \ {i} : comp'[k] = comp[k]
      /\ doomed' = SubSeq(doomed, 1, n - 1)
      /\ op' = IF n = 1 THEN "none" ELSE "freeing"
  BY <1>2 DEF Freed
<1>4. /\ comp[d].parent = Adrift
      /\ \A k \in 1 .. n : doomed[k] \in Live
      /\ \A k \in 1 .. n : k # 1 => comp[doomed[k]].parent = doomed[k - 1]
      /\ doomed \in Seq(Index)
  BY <1>1, <1>2, <1>3 DEF TreeInv, DoomedChain
<1>5. /\ \A j \in Live : Is2D(j) => (Has(j) <=> j \notin Subtree(d))
      /\ \A j \in 1 .. n : doomed[j] \in Subtree(d)
      /\ done = {}
  BY <1>1, <1>2, <1>3 DEF TransformInv, MissingFreed
<1>6. ~Has(i)
  <2>1. i \in Subtree(d)
    BY <1>3, <1>5
  <2> QED
    BY <1>3, <1>5, <2>1 DEF TransformInv, OwnersLive
<1>7. /\ \A j \in Live \ {i} : Is2D(j)' <=> Is2D(j)
      /\ \A j : Has(j)' <=> Has(j)
  BY <1>2, <1>3 DEF Is2D, Has
<1>8. OwnersLive'
  BY <1>2, <1>3, <1>6, <1>7 DEF TransformInv, OwnersLive
<1>9. NotMixed'
  <2> SUFFICES ASSUME NEW k \in Live \ {i}, Is2D(k)'
               PROVE  comp'[k].parent \in {Root, Adrift} \/ Is2D(comp[k].parent)'
    BY <1>3 DEF NotMixed
  <2>1. PICK u : u = comp[k].parent
    OBVIOUS
  <2>2. comp'[k].parent = u /\ Is2D(k) /\ u # i
    BY <1>3, <1>7, <2>1
  <2>3. u \in Live \cup {Root, Adrift}
    BY <2>1 DEF TreeInv, ParentsLive
  <2>4. u \in {Root, Adrift} \/ Is2D(u)
    BY <2>1, <2>2 DEF TransformInv, NotMixed
  <2>5. u \in {Root, Adrift} \/ Is2D(u)'
    BY <1>7, <2>2, <2>3, <2>4
  <2> QED
    BY <2>2, <2>5 DEF Is2D
<1>10. CASE n = 1
  <2>1. d = i /\ op' = "none"
    BY <1>1, <1>3, <1>10
  <2>2. Subtree(d) \subseteq {i}
    <3>1. {i} \in SUBSET Live
      BY <1>3
    <3>2. i \in {i} /\ \A k \in Live : comp[k].parent \in {i} => k \in {i}
      BY <1>3
    <3> QED
      BY <1>3, <2>1, <3>1, <3>2, SubtreeIs
  <2>3. (\A j \in Live : Is2D(j) => Has(j))'
    BY <1>3, <1>5, <1>7, <2>2
  <2>4. MissingFreed'
    BY <1>2, <1>5, <2>1, <2>3 DEF MissingFreed
  <2> QED
    BY <1>2, <1>8, <1>9, <2>1, <2>4 DEF TransformInv, WorkLive, PoppedFromTop
<1>11. CASE n # 1
  <2>1. PICK m \in Nat \ {0} : n = m + 1
    <3>1. n - 1 \in Nat \ {0} /\ n = (n - 1) + 1
      BY <1>3, <1>11
    <3> QED
      BY <3>1
  <2>2. DOMAIN doomed' = 1 .. m /\ \A k \in 1 .. m : doomed'[k] = doomed[k]
    <3>1. doomed' = SubSeq(doomed, 1, m) /\ Len(doomed) = m + 1
      BY <1>1, <1>3, <2>1
    <3> QED
      BY <1>4, <2>1, <3>1, InFront
  <2>3. /\ \A k \in 1 .. m : k \in 1 .. n /\ k + 1 \in 1 .. n /\ k + 1 # 1 /\ (k + 1) - 1 = k
        /\ 1 \in 1 .. m
    BY <2>1
  <2>4. \A k \in 1 .. m : doomed[k] \in Live \ {i}
    BY <1>3, <1>4, <2>3
  <2>5. d \in Live \ {i} /\ doomed'[1] = d /\ op' = "freeing"
    BY <1>1, <1>3, <1>11, <2>2, <2>3, <2>4
  <2>6. Subtree(d)' = Subtree(d) \ {i}
    <3>1. Subtree(d)' \subseteq Subtree(d) \ {i}
      <4> DEFINE S == Subtree(d) \ {i}
      <4>1. S \in SUBSET Live' /\ d \in S
        BY <1>3, <2>5, SubtreeIs
      <4>2. ASSUME NEW k \in Live', comp'[k].parent \in S PROVE k \in S
        BY <1>3, <2>5, <4>2, SubtreeIs
      <4> HIDE DEF S
      <4>3. Subtree(d)' \subseteq S
        BY <1>3, <2>5, <4>1, <4>2, SubtreeIsNext
      <4> QED
        BY <4>3 DEF S
    <3>2. Subtree(d) \subseteq Subtree(d)' \cup {i}
      <4> DEFINE S == Subtree(d)' \cup {i}
      <4>0. /\ Subtree(d)' \subseteq Live' /\ d \in Subtree(d)'
            /\ \A k \in Live' : comp'[k].parent \in Subtree(d)' => k \in Subtree(d)'
        BY <1>3, <2>5, SubtreeIsNext
      <4>1. S \in SUBSET Live /\ d \in S
        BY <1>3, <4>0
      <4>2. ASSUME NEW k \in Live, comp[k].parent \in S PROVE k \in S
        BY <1>3, <4>0, <4>2
      <4> HIDE DEF S
      <4>3. Subtree(d) \subseteq S
        BY <2>5, <4>1, <4>2, SubtreeIs
      <4> QED
        BY <4>3 DEF S
    <3>3. i \notin Subtree(d)'
      BY <3>1
    <3> QED
      BY <3>1, <3>2, <3>3
  <2>7. MissingFreed'
    <3>1. Subtree(doomed[1])' = Subtree(d)'
      BY <2>5
    <3>2. \A k \in DOMAIN doomed' : doomed'[k] \in Subtree(d)'
      BY <1>5, <2>2, <2>3, <2>4, <2>6
    <3>3. (\A j \in Live : Is2D(j) => (Has(j) <=> j \notin Subtree(d)))'
      BY <1>3, <1>5, <1>7, <2>5, <2>6
    <3> QED
      BY <1>2, <1>5, <2>5, <3>1, <3>2, <3>3 DEF MissingFreed
  <2> QED
    BY <1>2, <1>8, <1>9, <2>5, <2>7 DEF TransformInv, WorkLive, PoppedFromTop
<1> QED
  BY <1>10, <1>11

\* The component that moves is the first of the queue.
LEMMA ReparentTransforms ==
    ASSUME ~MixedTrees, IDInv, TreeInv, TransformInv, NEW i \in Index, NEW p \in Index,
           ReparentComponentSubtree(i, p)
    PROVE  TransformInv'
<1>1. /\ op = "none" /\ op' \in {"none", "moving"} /\ done' = done
      /\ i \in Live /\ p \in Live
      /\ comp[i].type = "data" \/ Is2D(p)
      /\ comp' = [comp EXCEPT ![i].parent = p]
      /\ transform2DRegistry' = transform2DRegistry
      /\ op' = "moving" => Is2D(i) /\ work' = <<[id |-> IDOf(i), parentID |-> IDOf(p)]>>
  BY IndexTypes DEF ReparentComponentSubtree, MayHold
<1>2. (\A k \in Live : Is2D(k) => Has(k)) /\ done = {}
  BY <1>1 DEF TransformInv, MissingFreed
<1>3. \A k \in Index : /\ comp'[k].cuid = comp[k].cuid /\ comp'[k].type = comp[k].type
                       /\ comp'[k].parent = IF k = i THEN p ELSE comp[k].parent
  <2>1. comp \in [Index -> [cuid : ID, type : Types, parent : Index \cup {Root, Adrift}]]
    BY DEF TreeInv, TreeTypes
  <2> QED
    BY <1>1, <2>1
<1>4. /\ Live' = Live
      /\ \A k \in Index \cup {Root} : Is2D(k)' <=> Is2D(k)
      /\ \A k : Has(k)' <=> Has(k)
  BY <1>1, <1>3 DEF Live, Is2D, Has
<1>5. OwnersLive'
  BY <1>1, <1>3, <1>4 DEF TransformInv, OwnersLive
<1>6. NotMixed'
  <2> SUFFICES ASSUME NEW k \in Live, Is2D(k)'
               PROVE  comp'[k].parent \in {Root, Adrift} \/ Is2D(comp[k].parent)'
    BY <1>4 DEF NotMixed
  <2>1. PICK u : u = comp'[k].parent
    OBVIOUS
  <2>2. k \in Index /\ Is2D(k) /\ u = IF k = i THEN p ELSE comp[k].parent
    BY <1>3, <1>4, <2>1, IndexTypes
  <2>3. u \in Live \cup {Root}
    BY <1>1, <2>2 DEF TreeInv, ParentsLive
  <2>4. u \in {Root, Adrift} \/ Is2D(u)
    BY <1>1, <2>2 DEF TransformInv, NotMixed, Is2D
  <2>5. u \in {Root, Adrift} \/ Is2D(u)'
    BY <1>4, <2>3, <2>4, IndexTypes
  <2> QED
    BY <2>1, <2>5 DEF Is2D
<1>7. WorkLive'
  <2> SUFFICES ASSUME op' = "moving"
               PROVE  work' \in Seq(WorkItem) /\ \A k \in DOMAIN work' : Current(work[k])'
    BY <1>1 DEF WorkLive
  <2>1. PICK w : w = [id |-> IDOf(i), parentID |-> IDOf(p)]
    OBVIOUS
  <2>2. /\ IDOf(i) = comp[i].cuid /\ comp[i].cuid.index = i /\ IDOf(i) \in ID
        /\ IDOf(p) \in ID
    BY <1>1, LiveNamed
  <2>3. work' = <<w>> /\ w \in WorkItem /\ w.id = comp[i].cuid
    BY <1>1, <2>1, <2>2 DEF WorkItem
  <2>4. work' \in Seq(WorkItem) /\ DOMAIN work' = {1} /\ work'[1] = w
    BY <2>3
  <2>5. w.id.index = i /\ i \in Live' /\ Is2D(i)' /\ w.id = comp'[i].cuid
    BY <1>1, <1>3, <1>4, <2>2, <2>3
  <2>6. Current(work[1])'
    BY <2>4, <2>5 DEF Current, Is2D
  <2> QED
    BY <2>4, <2>6
<1>8. MissingFreed'
  <2>1. (\A k \in Live : Is2D(k) => Has(k))'
    BY <1>2, <1>4, IndexTypes
  <2> QED
    BY <1>1, <1>2, <2>1 DEF MissingFreed
<1> QED
  BY <1>1, <1>5, <1>6, <1>7, <1>8 DEF TransformInv, PoppedFromTop

\* One iteration of reparent_subtree of the transforms: nobody loses a transform.
LEMMA MoveTransforms ==
    ASSUME IDInv, TreeInv, TransformInv, MoveTransformStep
    PROVE  TransformInv'
<1>1. PICK w, i, rest, r, q : /\ w = Head(work) /\ i = w.id.index /\ rest = Tail(work)
                              /\ r = transform2DRegistry /\ q = transform2DRegistry'
  OBVIOUS
<1>2. PICK f \in Hierarchy(i) : work' = Pushed(rest, i, f)
  BY <1>1 DEF MoveTransformStep
<1>3. /\ op = "moving" /\ op' \in {"none", "moving"} /\ work # <<>>
      /\ q = MoveTransform(r, w.id, w.parentID)
      /\ op' = "none" => done' = {}
      /\ comp' = comp /\ children' = children
  BY <1>1 DEF MoveTransformStep, treeVars
<1>4. work \in Seq(WorkItem) /\ \A k \in DOMAIN work : Current(work[k])
  BY <1>3 DEF TransformInv, WorkLive
<1>5. /\ rest \in Seq(WorkItem) /\ w \in WorkItem
      /\ \E k \in DOMAIN work : w = work[k]
      /\ \A k \in DOMAIN rest : \E j \in DOMAIN work : rest[k] = work[j]
  BY <1>1, <1>3, <1>4, TailWork
<1>6. Current(w) /\ i \in Live /\ i \in Index /\ Is2D(i) /\ w.id = comp[i].cuid
  <2>1. Current(w)
    BY <1>4, <1>5
  <2> QED
    BY <1>1, <2>1, IndexTypes DEF Current
<1>7. op # "freeing"
  BY <1>3
<1>8. /\ work' \in Seq(WorkItem)
      /\ \A k \in DOMAIN work' : Current(work'[k]) \/ \E j \in DOMAIN rest : work'[k] = rest[j]
  BY <1>2, <1>5, <1>6, <1>7, PushedIs
<1>9. \A k \in DOMAIN work' : Current(work'[k])
  <2> TAKE k \in DOMAIN work'
  <2>1. CASE \E j \in DOMAIN rest : work'[k] = rest[j]
    <3>1. PICK j \in DOMAIN rest : work'[k] = rest[j]
      BY <2>1
    <3>2. PICK h \in DOMAIN work : rest[j] = work[h]
      BY <1>5
    <3> QED
      BY <1>4, <3>1, <3>2
  <2> QED
    BY <1>8, <2>1
<1>10. /\ Packed(r)
       /\ \A k \in Live : Is2D(k) => Has(k)
       /\ \A k \in Index : HasTransform(r, k) => k \in Live /\ Is2D(k) /\ Owns(r, k, comp[k].cuid)
  BY <1>1, <1>3 DEF TransformInv, MissingFreed, OwnersLive, Has
<1>11. /\ Packed(q)
       /\ \A j \in Index : HasTransform(q, j) <=> HasTransform(r, j)
       /\ \A j \in Index : \A x : j # i /\ Owns(r, j, x) => Owns(q, j, x)
       /\ Owns(q, i, w.id)
  <2>1. w.id \in ID /\ w.parentID \in ID
    BY <1>5 DEF WorkItem
  <2>2. Owns(r, w.id.index, w.id)
    BY <1>1, <1>6, <1>10 DEF Has
  <2> QED
    BY <1>1, <1>3, <1>10, <2>1, <2>2, MoveOwns
<1>12. /\ Live' = Live
       /\ \A k : Is2D(k)' <=> Is2D(k)
       /\ \A k \in Index : Has(k)' <=> Has(k)
  BY <1>1, <1>3, <1>11 DEF Live, Is2D, Has
<1>13. OwnersLive'
  <2> SUFFICES ASSUME NEW k \in Index, HasTransform(q, k)
               PROVE  k \in Live /\ Is2D(k) /\ Owns(q, k, comp[k].cuid)
    BY <1>1, <1>3, <1>12 DEF OwnersLive, Has
  <2>1. k \in Live /\ Is2D(k) /\ Owns(r, k, comp[k].cuid)
    BY <1>10, <1>11
  <2> QED
    BY <1>6, <1>11, <2>1
<1>14. NotMixed'
  BY <1>3, <1>12 DEF TransformInv, NotMixed
<1>15. WorkLive'
  BY <1>3, <1>8, <1>9, <1>12 DEF WorkLive, Current
<1>16. MissingFreed'
  BY <1>3, <1>10, <1>12, IndexTypes DEF MissingFreed
<1> QED
  BY <1>1, <1>3, <1>11, <1>13, <1>14, <1>15, <1>16 DEF TransformInv, PoppedFromTop

\* Every step keeps the transforms.
LEMMA TransformInvStep ==
    ASSUME ~MixedTrees
    PROVE  IDInv /\ TreeInv /\ TransformInv /\ [Next]_vars => TransformInv'
<1> SUFFICES ASSUME IDInv, TreeInv, TransformInv, [Next]_vars PROVE TransformInv'
  OBVIOUS
<1>1. CASE UNCHANGED vars
  <2>1. UNCHANGED <<comp, transform2DRegistry, op, work, done, doomed>>
    BY <1>1 DEF vars, treeVars, loopVars
  <2>2. /\ Live' = Live
        /\ \A k : Is2D(k)' <=> Is2D(k)
        /\ \A k : Has(k)' <=> Has(k)
        /\ \A k : Subtree(k)' = Subtree(k)
    BY <2>1 DEF Live, Is2D, Has, Subtree
  <2>3. OwnersLive' /\ NotMixed'
    BY <2>1, <2>2 DEF TransformInv, OwnersLive, NotMixed
  <2>4. WorkLive' /\ PoppedFromTop' /\ MissingFreed'
    BY <2>1, <2>2 DEF TransformInv, WorkLive, PoppedFromTop, MissingFreed, Current
  <2> QED
    BY <2>1, <2>3, <2>4 DEF TransformInv
<1> QED
  BY <1>1, CreateTransforms, CloneTransforms, CopyChildTransforms, CopyRestTransforms, DestroyTransforms,
     PopTransforms, DetachTransforms, DescendTransforms, FreeTransforms, ReparentTransforms, MoveTransforms
     DEF Next

\* The registry is packed as SparseMatchesDense says.
LEMMA PackedMatches == Packed(transform2DRegistry) => SparseMatchesDense
<1> SUFFICES ASSUME Packed(transform2DRegistry) PROVE SparseMatchesDense
  OBVIOUS
<1>1. PICK r, m, s : r = transform2DRegistry /\ m = r.mDepth /\ s = r.mSparse
  OBVIOUS
<1>2. m \in Seq(Seq(Entry)) /\ s \in [Index -> Place] /\ Agree(m, s) /\ Packed(r)
  BY <1>1 DEF Packed
<1>3. ASSUME NEW d \in DOMAIN m, NEW k \in DOMAIN m[d]
      PROVE  /\ s[m[d][k].id.index] = [depthLevel |-> d - 1, localIndex |-> k - 1]
             /\ m[d][k].transform = m[d][k].id
  <2>1. Holds(m, d, k, m[d][k])
    BY <1>3 DEF Holds
  <2> QED
    BY <1>2, <2>1 DEF Agree, PlaceOf
<1>4. ASSUME NEW i \in Index, HasTransform(r, i)
      PROVE  /\ s[i].depthLevel + 1 \in DOMAIN m
             /\ s[i].localIndex + 1 \in DOMAIN Level(r, s[i].depthLevel)
             /\ EntryOf(r, i).id.index = i
  <2>1. EntryIs(r, i, EntryOf(r, i)) /\ EntryOf(r, i).id.index = i
    BY <1>2, <1>4, PackedHas
  <2> QED
    BY <1>1, <2>1 DEF EntryIs, Holds, Level
<1> QED
  BY <1>1, <1>3, <1>4 DEF SparseMatchesDense, transforms

\* An entry belongs to the component it was made for.
LEMMA PackedBelong == ASSUME IDInv, TransformInv PROVE EntriesBelong
<1>1. PICK r, m, s : r = transform2DRegistry /\ m = r.mDepth /\ s = r.mSparse
  OBVIOUS
<1>2. m \in Seq(Seq(Entry)) /\ Agree(m, s)
  BY <1>1 DEF TransformInv, Packed
<1>3. ASSUME NEW d \in DOMAIN m, NEW k \in DOMAIN m[d]
      PROVE  m[d][k].id # NoID /\ comp[m[d][k].id.index].cuid = m[d][k].id
  <2>1. PICK e : e = m[d][k]
    OBVIOUS
  <2>2. Holds(m, d, k, e)
    BY <1>3, <2>1 DEF Holds
  <2>3. PICK i : i = e.id.index
    OBVIOUS
  <2>4. /\ i \in Index /\ s[i].depthLevel >= 0
        /\ s[i].depthLevel + 1 = d /\ s[i].localIndex + 1 = k
    BY <1>2, <2>2, <2>3, HoldsTypes, HoldsPlace
  <2>5. i \in Live /\ Owns(r, i, comp[i].cuid)
    BY <1>1, <2>4 DEF TransformInv, OwnersLive, Has, HasTransform
  <2>6. PICK f : Holds(m, d, k, f) /\ f.id = comp[i].cuid
    BY <1>1, <2>4, <2>5 DEF Owns, EntryIs
  <2>7. f = e
    BY <2>2, <2>6 DEF Holds
  <2> QED
    BY <2>1, <2>3, <2>5, <2>6, <2>7 DEF Live
<1> QED
  BY <1>1, <1>3 DEF EntriesBelong, transforms

(***************************************************************************)
(* Where users keep transforms below transforms, the sparse array and the  *)
(* levels name each other at every step of every loop.                     *)
(***************************************************************************)
THEOREM SparseCorrect == ASSUME ~MixedTrees PROVE Spec => []SparseMatchesDense
<1>1. TransformInv => SparseMatchesDense
  BY PackedMatches DEF TransformInv
<1>2. IDInv /\ TreeInv /\ TransformInv /\ [Next]_vars => TransformInv'
  BY TransformInvStep
<1> QED
  BY IDInvInit, IDInvStep, TreeInvInit, TreeInvStep, TransformInvInit, <1>1, <1>2, PTL DEF Spec

(***************************************************************************)
(* And no entry is left behind by a component that was destroyed, to be    *)
(* found by the next one with its index.                                   *)
(***************************************************************************)
THEOREM EntriesBelongCorrect == ASSUME ~MixedTrees PROVE Spec => []EntriesBelong
<1>1. IDInv /\ TransformInv => EntriesBelong
  BY PackedBelong
<1>2. IDInv /\ TreeInv /\ TransformInv /\ [Next]_vars => TransformInv'
  BY TransformInvStep
<1> QED
  BY IDInvInit, IDInvStep, TreeInvInit, TreeInvStep, TransformInvInit, <1>1, <1>2, PTL DEF Spec

-----------------------------------------------------------------------------
(***************************************************************************)
(* A pass over the levels.  Folds and recursive functions are unfolded: that *)
(* there is a function with the equation the definition names is proved by *)
(* counting up, since nothing else says what a recursive definition computes. *)
(***************************************************************************)
\* A set of natural numbers has a least one.
LEMMA LeastNumber ==
    ASSUME NEW S, S \subseteq Nat, S # {}
    PROVE  \E p \in S : \A q \in S : p <= q
<1>1. PICK x \in S : \A y \in S : ~(<<y, x>> \in OpToRel(<, Nat))
  BY NatLessThanWellFounded, WFMin
<1>2. \A y \in S : ~(y < x)
  BY <1>1 DEF OpToRel
<1> QED
  BY <1>2

\* A set that holds 0 and the successors of its members below N holds all
\* numbers up to N.
LEMMA CountUp ==
    ASSUME NEW N \in Nat, NEW T, 0 \in T, \A k \in 0 .. N - 1 : k \in T => k + 1 \in T
    PROVE  \A k \in 0 .. N : k \in T
<1> DEFINE M == {k \in 0 .. N : k \notin T}
<1> SUFFICES ASSUME M # {} PROVE FALSE
  OBVIOUS
<1>1. PICK m \in M : \A k \in M : m <= k
  <2>1. M \subseteq Nat
    OBVIOUS
  <2> HIDE DEF M
  <2> QED
    BY <2>1, LeastNumber
<1>2. m \in 0 .. N /\ m \notin T /\ m # 0
  OBVIOUS
<1>3. m - 1 \in 0 .. N - 1 /\ m - 1 \in 0 .. N /\ m - 1 + 1 = m
  BY <1>2
<1>4. m - 1 \notin M
  <2> HIDE DEF M
  <2> QED
    BY <1>1, <1>2, <1>3
<1>5. m - 1 \in T
  BY <1>3, <1>4
<1> QED
  BY <1>2, <1>3, <1>5

\* g starts with base and applies one map after the other.
Stepping(g, N, base, s) == g[0] = base /\ \A n \in 1 .. N : g[n] = s[n][g[n - 1]]

\* There is such a function.
LEMMA StepsExist ==
    ASSUME NEW N \in Nat, NEW V, NEW base \in V, NEW s \in [1 .. N -> [V -> V]]
    PROVE  \E g \in [0 .. N -> V] : Stepping(g, N, base, s)
<1> DEFINE Steps(m, g) == g[0] = base /\ \A n \in 1 .. m : g[n] = s[n][g[n - 1]]
           T == {m \in 0 .. N : \E g \in [0 .. m -> V] : Steps(m, g)}
<1>1. 0 \in T
  <2> DEFINE g == [n \in 0 .. 0 |-> base]
  <2>1. g \in [0 .. 0 -> V] /\ Steps(0, g)
    OBVIOUS
  <2> HIDE DEF g
  <2>2. \E x \in [0 .. 0 -> V] : Steps(0, x)
    <3> HIDE DEF Steps
    <3> QED
      BY <2>1
  <2>3. 0 \in 0 .. N
    OBVIOUS
  <2> HIDE DEF Steps
  <2> QED
    BY <2>2, <2>3
<1>2. ASSUME NEW m \in 0 .. N - 1, m \in T PROVE m + 1 \in T
  <2>1. PICK g \in [0 .. m -> V] : Steps(m, g)
    BY <1>2
  <2>2. s[m + 1] \in [V -> V] /\ g[m] \in V
    BY <2>1
  <2>3. PICK v \in V : v = s[m + 1][g[m]]
    BY <2>2
  <2> DEFINE h == [n \in 0 .. m + 1 |-> IF n = m + 1 THEN v ELSE g[n]]
  <2>4. h \in [0 .. m + 1 -> V]
    OBVIOUS
  <2>5. h[0] = base
    BY <2>1
  <2>6. ASSUME NEW n \in 1 .. m + 1 PROVE h[n] = s[n][h[n - 1]]
    <3>1. n - 1 \in 0 .. m /\ n - 1 # m + 1
      OBVIOUS
    <3>2. h[n - 1] = g[n - 1]
      BY <3>1
    <3>3. CASE n = m + 1
      BY <2>3, <3>2, <3>3
    <3>4. CASE n # m + 1
      <4>1. n \in 1 .. m /\ h[n] = g[n]
        BY <3>4
      <4> QED
        BY <2>1, <3>2, <4>1
    <3> QED
      BY <3>3, <3>4
  <2>7. m + 1 \in 0 .. N
    OBVIOUS
  <2>8. \E x \in [0 .. m + 1 -> V] : Steps(m + 1, x)
    BY <2>4, <2>5, <2>6
  <2> HIDE DEF Steps
  <2> QED
    BY <2>7, <2>8
<1>3. \A k \in 0 .. N : k \in T
  <2> HIDE DEF T
  <2> QED
    BY <1>1, <1>2, CountUp
<1>4. N \in T
  BY <1>3
<1> QED
  BY <1>4 DEF Stepping

\* The largest of some numbers up to n.
LEMMA LargestIs ==
    ASSUME NEW n \in Nat, NEW s \in SUBSET (1 .. n), s # {}
    PROVE  Max(s) \in s /\ \A y \in s : y <= Max(s)
<1> DEFINE D == {n - y : y \in s}
<1>1. PICK d \in D : \A e \in D : d <= e
  <2>1. \A y \in s : n - y \in Nat
    OBVIOUS
  <2>2. D \subseteq Nat /\ D # {}
    BY <2>1
  <2> HIDE DEF D
  <2> QED
    BY <2>2, LeastNumber
<1>2. PICK x \in s : d = n - x
  OBVIOUS
<1>3. \A y \in s : x >= y
  <2> SUFFICES ASSUME NEW y \in s PROVE x >= y
    OBVIOUS
  <2>1. d <= n - y
    BY <1>1
  <2> QED
    BY <1>2, <2>1
<1>4. \E z \in s : \A y \in s : z >= y
  BY <1>3
<1>5. Max(s) \in s /\ \A y \in s : Max(s) >= y
  BY <1>4 DEF Max
<1> QED
  BY <1>5

\* The function MapThenFoldSet takes its result from, where elements are taken
\* from the largest down and element k applies m[k].
Folding(it, n, w, m) ==
    /\ it[{}] = w
    /\ \A s \in SUBSET (1 .. n) : s # {} => it[s] = m[Max(s)][it[s \ {Max(s)}]]

\* There is such a function.
LEMMA FoldExists ==
    ASSUME NEW n \in Nat, NEW V, NEW w \in V, NEW m \in [1 .. n -> [V -> V]]
    PROVE  \E it \in [SUBSET (1 .. n) -> V] : Folding(it, n, w, m)
<1> DEFINE S == SUBSET (1 .. n)
           F == [S -> V]
           base == [s \in S |-> w]
           step == [k \in 1 .. n |-> [h \in F |-> [s \in S |-> IF k \in s THEN m[k][h[s]] ELSE h[s]]]]
<1>1. base \in F /\ step \in [1 .. n -> [F -> F]]
  <2>1. ASSUME NEW k \in 1 .. n, NEW h \in F
        PROVE  [s \in S |-> IF k \in s THEN m[k][h[s]] ELSE h[s]] \in F
    <3>1. m[k] \in [V -> V]
      OBVIOUS
    <3>2. \A s \in S : h[s] \in V /\ m[k][h[s]] \in V
      BY <2>1, <3>1
    <3> HIDE DEF S
    <3> QED
      BY <3>2
  <2>2. \A k \in 1 .. n : [h \in F |-> [s \in S |-> IF k \in s THEN m[k][h[s]] ELSE h[s]]] \in [F -> F]
    <3> HIDE DEF S, F
    <3> QED
      BY <2>1
  <2>3. base \in F
    OBVIOUS
  <2> HIDE DEF S, F, base
  <2> QED
    BY <2>2, <2>3
<1>2. PICK g \in [0 .. n -> F] : g[0] = base /\ \A k \in 1 .. n : g[k] = step[k][g[k - 1]]
  <2>1. PICK H, b, u : H = F /\ b = base /\ u = step
    OBVIOUS
  <2> HIDE DEF S, F, base, step
  <2>2. b \in H /\ u \in [1 .. n -> [H -> H]] /\ n \in Nat
    BY <1>1, <2>1
  <2>3. \E g \in [0 .. n -> H] : Stepping(g, n, b, u)
    BY ONLY <2>2, StepsExist
  <2> QED
    BY <2>1, <2>3 DEF Stepping
<1>3. ASSUME NEW k \in 0 .. n - 1, NEW s \in S
      PROVE  g[k + 1][s] = IF k + 1 \in s THEN m[k + 1][g[k][s]] ELSE g[k][s]
  <2>1. k + 1 \in 1 .. n /\ k + 1 - 1 = k /\ k \in 0 .. n
    OBVIOUS
  <2>2. g[k] \in F
    BY <2>1
  <2>3. g[k + 1] = step[k + 1][g[k]]
    <3> HIDE DEF step, F
    <3> QED
      BY <1>2, <2>1
  <2>4. step[k + 1][g[k]] = [t \in S |-> IF k + 1 \in t THEN m[k + 1][g[k][t]] ELSE g[k][t]]
    BY <2>1, <2>2
  <2> HIDE DEF step, F, S
  <2> QED
    BY <2>3, <2>4
<1>4. \A k \in 0 .. n : \A s \in S : g[k][s] \in V
  <2> SUFFICES ASSUME NEW k \in 0 .. n, NEW s \in S PROVE g[k][s] \in V
    OBVIOUS
  <2>1. g[k] \in [S -> V]
    BY <1>2
  <2> QED
    BY <2>1
<1>5. \A s \in S : g[0][s] = w
  BY <1>2
<1> HIDE DEF step, base, F
\* Nothing changes where there are no elements.
<1>6. ASSUME NEW s \in S, NEW a \in 0 .. n, \A k \in s : k <= a
      PROVE  g[n][s] = g[a][s]
  <2> DEFINE T == {j \in 0 .. n : a + j <= n => g[a + j][s] = g[a][s]}
  <2>1. 0 \in T
    OBVIOUS
  <2>2. ASSUME NEW j \in 0 .. n - 1, j \in T PROVE j + 1 \in T
    <3> SUFFICES ASSUME a + (j + 1) <= n PROVE g[a + (j + 1)][s] = g[a][s]
      OBVIOUS
    <3>1. PICK k : k = a + j
      OBVIOUS
    <3>2. k \in 0 .. n - 1 /\ k <= n /\ a + (j + 1) = k + 1 /\ k + 1 > a
      BY <3>1
    <3>3. k + 1 \notin s
      BY <1>6, <3>2
    <3>4. g[k + 1][s] = g[k][s]
      BY <1>3, <3>2, <3>3
    <3>5. g[k][s] = g[a][s]
      BY <2>2, <3>1, <3>2
    <3> QED
      BY <3>2, <3>4, <3>5
  <2>3. \A j \in 0 .. n : j \in T
    <3> HIDE DEF T
    <3> QED
      BY <2>1, <2>2, CountUp
  <2>4. n - a \in 0 .. n /\ a + (n - a) = n
    OBVIOUS
  <2>5. n - a \in T
    BY <2>3, <2>4
  <2> QED
    BY <2>4, <2>5
\* What has the same elements up to a has the same value after a.
<1>7. ASSUME NEW s \in S, NEW t \in S, NEW a \in 0 .. n, \A k \in 1 .. a : k \in s <=> k \in t
      PROVE  g[a][s] = g[a][t]
  <2> DEFINE T == {j \in 0 .. n : j <= a => g[j][s] = g[j][t]}
  <2>1. 0 \in T
    BY <1>5
  <2>2. ASSUME NEW j \in 0 .. n - 1, j \in T PROVE j + 1 \in T
    <3> SUFFICES ASSUME j + 1 <= a PROVE g[j + 1][s] = g[j + 1][t]
      OBVIOUS
    <3>1. j + 1 \in 1 .. a /\ j <= a
      OBVIOUS
    <3>2. g[j][s] = g[j][t]
      BY <2>2, <3>1
    <3>3. j + 1 \in s <=> j + 1 \in t
      BY <1>7, <3>1
    <3>4. /\ g[j + 1][s] = IF j + 1 \in s THEN m[j + 1][g[j][s]] ELSE g[j][s]
          /\ g[j + 1][t] = IF j + 1 \in t THEN m[j + 1][g[j][t]] ELSE g[j][t]
      BY <1>3
    <3> QED
      BY <3>2, <3>3, <3>4
  <2>3. \A j \in 0 .. n : j \in T
    <3> HIDE DEF T
    <3> QED
      BY <2>1, <2>2, CountUp
  <2>4. a \in T
    BY <2>3
  <2> QED
    BY <2>4
<1> DEFINE it == [s \in S |-> g[n][s]]
<1>8. it \in [S -> V]
  BY <1>4
<1>9. ASSUME NEW s \in S PROVE it[s] = IF s = {} THEN w ELSE m[Max(s)][it[s \ {Max(s)}]]
  <2>1. CASE s = {}
    <3>1. g[n][s] = g[0][s]
      BY <1>6, <2>1
    <3> QED
      BY <1>5, <2>1, <3>1
  <2>2. CASE s # {}
    <3>1. PICK x : x = Max(s)
      OBVIOUS
    <3>2. x \in s /\ \A y \in s : y <= x
      BY <2>2, <3>1, LargestIs
    <3>3. x \in 1 .. n /\ x \in 0 .. n /\ x - 1 \in 0 .. n - 1 /\ x - 1 \in 0 .. n /\ x - 1 + 1 = x
      BY <3>2
    <3>4. PICK t \in S : t = s \ {x}
      OBVIOUS
    <3>5. g[n][s] = g[x][s]
      BY <1>6, <3>2, <3>3
    <3>6. g[x][s] = m[x][g[x - 1][s]]
      <4>1. g[x - 1 + 1][s] = IF x - 1 + 1 \in s THEN m[x - 1 + 1][g[x - 1][s]] ELSE g[x - 1][s]
        BY <1>3, <3>3
      <4> QED
        BY <3>2, <3>3, <4>1
    <3>7. g[n][t] = g[x - 1][t]
      <4>1. \A k \in t : k <= x - 1
        BY <3>2, <3>3, <3>4
      <4> QED
        BY <1>6, <3>3, <4>1
    <3>8. g[x - 1][s] = g[x - 1][t]
      <4>1. \A k \in 1 .. x - 1 : k \in s <=> k \in t
        BY <3>3, <3>4
      <4> QED
        BY <1>7, <3>3, <4>1
    <3>9. it[s] = m[x][it[t]]
      BY <3>5, <3>6, <3>7, <3>8
    <3> HIDE DEF it
    <3> QED
      BY <2>2, <3>1, <3>4, <3>9
  <2> QED
    BY <2>1, <2>2
<1> HIDE DEF it
<1>10. {} \in S
  OBVIOUS
<1>11. Folding(it, n, w, m)
  BY <1>9, <1>10 DEF Folding
<1> QED
  BY <1>8, <1>11

\* A sequence of transforms for each index, or unknown.
Worlds == [Index -> Seq(ID \cup {"unknown"})]

\* What WorldOfLevel does with one entry of level d.
Multiplied(d, w, e) ==
    [w EXCEPT ![e.id.index] = Append(IF d = 0 THEN <<>> ELSE w[e.parentID.index], e.transform)]

\* A world stays a world.
LEMMA MultipliedTypes ==
    ASSUME NEW d, NEW w \in Worlds, NEW e \in Entry
    PROVE  Multiplied(d, w, e) \in Worlds
<1>1. e.id.index \in Index /\ e.parentID.index \in Index /\ e.transform \in ID
  BY DEF Entry, ID
<1>2. PICK X : X = Seq(ID \cup {"unknown"})
  OBVIOUS
<1>3. PICK y : y = IF d = 0 THEN <<>> ELSE w[e.parentID.index]
  OBVIOUS
<1>4. w \in [Index -> X]
  BY <1>2 DEF Worlds
<1>5. y \in X
  <2>1. <<>> \in X
    BY <1>2
  <2>2. w[e.parentID.index] \in X
    BY <1>1, <1>4
  <2> QED
    BY <1>3, <2>1, <2>2
<1>6. Append(y, e.transform) \in X
  BY <1>1, <1>2, <1>5
<1>7. Multiplied(d, w, e) = [w EXCEPT ![e.id.index] = Append(y, e.transform)]
  BY <1>3 DEF Multiplied
<1> QED
  BY <1>1, <1>2, <1>4, <1>6, <1>7 DEF Worlds

\* A level is worked off from its first entry to its last.
LEMMA LevelSteps ==
    ASSUME NEW r, NEW d, NEW l \in Seq(Entry), l = Level(r, d), NEW w \in Worlds
    PROVE  \E g \in [0 .. Len(l) -> Worlds] :
              /\ g[0] = w
              /\ \A k \in 1 .. Len(l) : g[k] = Multiplied(d, g[k - 1], l[k])
              /\ WorldOfLevel(r, d, w) = g[Len(l)]
<1>1. PICK n : n = Len(l)
  OBVIOUS
<1>2. n \in Nat /\ DOMAIN l = 1 .. n /\ \A k \in 1 .. n : l[k] \in Entry
  BY <1>1
<1> DEFINE S == SUBSET (1 .. n)
           Equation(it) == it = [s \in S |-> IF s = {} THEN w ELSE Multiplied(d, it[s \ {Max(s)}], l[Max(s)])]
           m == [k \in 1 .. n |-> [v \in Worlds |-> Multiplied(d, v, l[k])]]
<1>3. m \in [1 .. n -> [Worlds -> Worlds]]
  <2>1. ASSUME NEW k \in 1 .. n, NEW v \in Worlds PROVE Multiplied(d, v, l[k]) \in Worlds
    BY <1>2, MultipliedTypes
  <2> QED
    BY <2>1
<1>4. \E it : Equation(it)
  <2>1. PICK V, u : V = Worlds /\ u = m
    OBVIOUS
  <2>2. w \in V /\ u \in [1 .. n -> [V -> V]] /\ n \in Nat
    BY <1>2, <1>3, <2>1
  <2>3. \E it \in [SUBSET (1 .. n) -> V] : Folding(it, n, w, u)
    BY ONLY <2>2, FoldExists
  <2>4. PICK it \in [S -> V] : it[{}] = w /\ \A s \in S : s # {} => it[s] = u[Max(s)][it[s \ {Max(s)}]]
    BY <2>3 DEF Folding
  <2>5. ASSUME NEW s \in S, s # {} PROVE it[s] = Multiplied(d, it[s \ {Max(s)}], l[Max(s)])
    <3>1. PICK x, t : x = Max(s) /\ t = s \ {x}
      OBVIOUS
    <3>2. x \in 1 .. n
      BY <1>2, <2>5, <3>1, LargestIs
    <3>3. t \in S
      BY <3>1
    <3>4. it[s] = u[x][it[t]] /\ it[t] \in Worlds
      <4> HIDE DEF m, S
      <4> QED
        BY <2>1, <2>4, <2>5, <3>1, <3>3
    <3>5. u[x][it[t]] = Multiplied(d, it[t], l[x])
      BY <2>1, <3>2, <3>4
    <3> QED
      BY <3>1, <3>4, <3>5
  <2>6. it = [s \in S |-> it[s]]
    BY <2>4
  <2>7. \A s \in S : it[s] = IF s = {} THEN w ELSE Multiplied(d, it[s \ {Max(s)}], l[Max(s)])
    <3> HIDE DEF m, S
    <3> QED
      BY <2>4, <2>5
  <2>8. Equation(it)
    <3> HIDE DEF m, S
    <3> QED
      BY <2>6, <2>7
  <2> HIDE DEF Equation
  <2> QED
    BY <2>8
<1>5. WorldOfLevel(r, d, w) = (CHOOSE it : Equation(it))[1 .. n]
  BY <1>2 DEF WorldOfLevel, FoldLeft, MapThenFoldSet, Multiplied
<1> DEFINE it == CHOOSE it : Equation(it)
<1>6. Equation(it)
  <2> HIDE DEF Equation
  <2> QED
    BY <1>4
<1>7. WorldOfLevel(r, d, w) = it[1 .. n]
  BY <1>5
<1> HIDE DEF it, m
<1>8. \A s \in S : it[s] = IF s = {} THEN w ELSE Multiplied(d, it[s \ {Max(s)}], l[Max(s)])
  BY <1>6
<1> DEFINE g == [k \in 0 .. n |-> it[1 .. k]]
<1>9. g[0] = w
  <2>1. {} \in S /\ 1 .. 0 = {}
    OBVIOUS
  <2>2. it[{}] = w
    BY <1>8, <2>1
  <2>3. 0 \in 0 .. n
    BY <1>2
  <2> QED
    BY <2>1, <2>2, <2>3
<1>10. ASSUME NEW k \in 1 .. n PROVE g[k] = Multiplied(d, g[k - 1], l[k])
  <2>1. k \in 0 .. n /\ k - 1 \in 0 .. n /\ k \in Nat
    BY <1>2
  <2>2. PICK s : s = 1 .. k
    OBVIOUS
  <2>3. s \in S /\ s # {}
    <3>1. \A j \in 1 .. k : j \in 1 .. n
      BY <1>2, <2>1
    <3>2. k \in 1 .. k
      BY <2>1
    <3> QED
      BY <2>2, <3>1, <3>2
  <2>4. Max(s) = k
    <3>1. s \in SUBSET (1 .. k)
      BY <2>2
    <3>2. Max(s) \in s /\ \A y \in s : y <= Max(s)
      BY <2>1, <2>3, <3>1, LargestIs
    <3>3. k \in s
      BY <2>1, <2>2
    <3> QED
      BY <2>1, <2>2, <3>2, <3>3
  <2>5. s \ {k} = 1 .. k - 1
    BY <2>1, <2>2
  <2>6. it[s] = Multiplied(d, it[s \ {k}], l[k])
    <3> HIDE DEF S
    <3> QED
      BY <1>8, <2>3, <2>4
  <2> QED
    BY <2>1, <2>2, <2>5, <2>6
<1>11. g \in [0 .. n -> Worlds]
  <2> DEFINE T == {k \in 0 .. n : g[k] \in Worlds}
  <2> HIDE DEF g
  <2>1. 0 \in T
    BY <1>2, <1>9
  <2>2. ASSUME NEW k \in 0 .. n - 1, k \in T PROVE k + 1 \in T
    <3>1. k + 1 \in 1 .. n /\ k + 1 - 1 = k /\ k + 1 \in 0 .. n
      BY <1>2
    <3>2. g[k + 1] = Multiplied(d, g[k], l[k + 1])
      BY <1>10, <3>1
    <3>3. l[k + 1] \in Entry /\ g[k] \in Worlds
      BY <1>2, <2>2, <3>1
    <3>4. Multiplied(d, g[k], l[k + 1]) \in Worlds
      BY <3>3, MultipliedTypes
    <3> QED
      BY <3>1, <3>2, <3>4
  <2>3. \A k \in 0 .. n : k \in T
    <3> HIDE DEF T
    <3> QED
      BY <1>2, <2>1, <2>2, CountUp
  <2>4. \A k \in 0 .. n : g[k] \in Worlds
    BY <2>3
  <2> QED
    BY <2>4 DEF g
<1>12. g[n] = it[1 .. n]
  BY <1>2
<1> HIDE DEF g
<1> QED
  BY <1>1, <1>7, <1>9, <1>10, <1>11, <1>12

\* A level above each component: no more levels than components.
LEMMA LevelsBounded ==
    ASSUME NEW S \in SUBSET Index, NEW lev \in [S -> Nat],
           \A i \in S : lev[i] # 0 => \E p \in S : lev[i] = lev[p] + 1
    PROVE  \A i \in S : lev[i] < MaxIndex
<1> SUFFICES ASSUME NEW i \in S PROVE lev[i] < MaxIndex
  OBVIOUS
<1>1. PICK D \in Nat : D = lev[i]
  OBVIOUS
<1> DEFINE T == {m \in 0 .. D : \E j \in S : lev[j] = D - m}
           A == {lev[j] : j \in S}
<1>2. 0 \in T
  BY <1>1
<1>3. ASSUME NEW m \in 0 .. D - 1, m \in T PROVE m + 1 \in T
  <2>1. PICK j \in S : lev[j] = D - m
    BY <1>3
  <2>2. lev[j] # 0
    BY <2>1
  <2>3. PICK p \in S : lev[j] = lev[p] + 1
    BY <2>2
  <2>4. lev[p] \in Nat
    OBVIOUS
  <2>5. lev[p] = D - (m + 1) /\ m + 1 \in 0 .. D
    BY <2>1, <2>3, <2>4
  <2> QED
    BY <2>5
<1>4. \A m \in 0 .. D : m \in T
  <2> HIDE DEF T
  <2> QED
    BY <1>2, <1>3, CountUp
<1>5. 0 .. D \subseteq A
  <2> SUFFICES ASSUME NEW k \in 0 .. D PROVE k \in A
    OBVIOUS
  <2>1. D - k \in 0 .. D /\ D - (D - k) = k
    OBVIOUS
  <2>2. D - k \in T
    BY <1>4, <2>1
  <2>3. PICK j \in S : lev[j] = D - (D - k)
    BY <2>2
  <2> QED
    BY <2>1, <2>3
<1>6. IsFiniteSet(S) /\ Cardinality(S) <= MaxIndex /\ Cardinality(S) \in Nat
  <2>1. MaxIndex \in Nat
    BY IDConstants
  <2>2. IsFiniteSet(0 .. MaxIndex - 1) /\ Cardinality(0 .. MaxIndex - 1) = MaxIndex
    <3>1. /\ IsFiniteSet(0 .. MaxIndex - 1)
          /\ Cardinality(0 .. MaxIndex - 1) = IF 0 > MaxIndex - 1 THEN 0 ELSE MaxIndex - 1 - 0 + 1
      BY <2>1, FS_Interval
    <3> QED
      BY <2>1, <3>1
  <2> QED
    BY <2>2, FS_Subset, FS_CardinalityType DEF Index
<1>7. IsFiniteSet(A) /\ Cardinality(A) <= Cardinality(S) /\ Cardinality(A) \in Nat
  <2>1. A = {lev[j] : j \in S}
    OBVIOUS
  <2>2. lev \in Surjection(S, A)
    BY DEF Surjection
  <2> HIDE DEF A
  <2>3. IsFiniteSet(A) /\ Cardinality(A) <= Cardinality(S)
    BY <1>6, <2>2, FS_Surjection
  <2> QED
    BY <2>3, FS_CardinalityType
<1>8. Cardinality(0 .. D) = D + 1 /\ Cardinality(0 .. D) <= Cardinality(A)
  <2>1. Cardinality(0 .. D) = IF 0 > D THEN 0 ELSE D - 0 + 1
    BY FS_Interval
  <2>2. Cardinality(0 .. D) <= Cardinality(A)
    <3> HIDE DEF A
    <3> QED
      BY <1>5, <1>7, FS_Subset
  <2> QED
    BY <2>1, <2>2
<1> HIDE DEF A
<1>9. MaxIndex \in Nat
  BY IDConstants
<1> QED
  BY <1>1, <1>6, <1>7, <1>8, <1>9

\* The equation of the function PathTo takes its result from, between calls.
LEMMA PathSteps ==
    ASSUME comp \in [Index -> [cuid : ID, type : Types, parent : Index \cup {Root, Adrift}]],
           \A i \in Live : comp[i].parent \in Live \cup {Root}
    PROVE  \E g \in [0 .. MaxIndex -> [Live \cup {Root} -> Seq(ID)]] :
              /\ \A k \in Live \cup {Root} : g[0][k] = <<>>
              /\ \A n \in 1 .. MaxIndex : \A k \in Live \cup {Root} :
                    g[n][k] = IF ~Is2D(k) THEN <<>> ELSE Append(g[n - 1][comp[k].parent], comp[k].cuid)
              /\ \A i : PathTo(i) = g[MaxIndex][i]
<1> DEFINE K == Live \cup {Root}
           V == [K -> Seq(ID)]
           At(h, k) == IF ~Is2D(k) THEN <<>> ELSE Append(h[comp[k].parent], comp[k].cuid)
           s == [n \in 1 .. MaxIndex |-> [h \in V |-> [k \in K |-> At(h, k)]]]
           base == [k \in K |-> <<>>]
           Equation(g) == g = [n \in 0 .. MaxIndex |-> [k \in K |->
                                 IF n = 0 \/ ~Is2D(k) THEN <<>>
                                 ELSE Append(g[n - 1][comp[k].parent], comp[k].cuid)]]
<1>1. MaxIndex \in Nat
  BY IDConstants
<1>2. Root \notin Live /\ Live \subseteq Index
  BY IDConstants DEF Root, Index, Live
<1>3. ASSUME NEW h \in V, NEW k \in K PROVE At(h, k) \in Seq(ID)
  <2>1. CASE ~Is2D(k)
    BY <2>1
  <2>2. CASE Is2D(k)
    <3>1. k \in Live
      BY <2>2 DEF Is2D
    <3>2. comp[k].parent \in K /\ comp[k].cuid \in ID
      BY <1>2, <3>1
    <3>3. h[comp[k].parent] \in Seq(ID)
      BY <3>2
    <3>4. Append(h[comp[k].parent], comp[k].cuid) \in Seq(ID)
      BY <3>2, <3>3
    <3> QED
      BY <2>2, <3>4
  <2> QED
    BY <2>1, <2>2
<1>4. s \in [1 .. MaxIndex -> [V -> V]] /\ base \in V
  <2>1. \A h \in V : [k \in K |-> At(h, k)] \in V
    <3> HIDE DEF At, K
    <3> QED
      BY <1>3
  <2>2. base \in V
    OBVIOUS
  <2> HIDE DEF V, At, K
  <2> QED
    BY <2>1, <2>2
<1>5. PICK g \in [0 .. MaxIndex -> V] : g[0] = base /\ \A n \in 1 .. MaxIndex : g[n] = s[n][g[n - 1]]
  <2>1. PICK H, b, u : H = V /\ b = base /\ u = s
    OBVIOUS
  <2> HIDE DEF V, s, base
  <2>2. b \in H /\ u \in [1 .. MaxIndex -> [H -> H]] /\ MaxIndex \in Nat
    BY <1>1, <1>4, <2>1
  <2>3. \E g \in [0 .. MaxIndex -> H] : Stepping(g, MaxIndex, b, u)
    BY ONLY <2>2, StepsExist
  <2> QED
    BY <2>1, <2>3 DEF Stepping
<1>6. ASSUME NEW n \in 1 .. MaxIndex PROVE g[n] = [k \in K |-> At(g[n - 1], k)]
  <2>1. g[n - 1] \in V
    <3> HIDE DEF V
    <3> QED
      BY <1>1
  <2> HIDE DEF V, At, K
  <2> QED
    BY <1>5, <2>1
<1>7. Equation(g)
  <2>1. g = [n \in 0 .. MaxIndex |-> g[n]]
    OBVIOUS
  <2>2. ASSUME NEW n \in 0 .. MaxIndex
        PROVE  g[n] = [k \in K |-> IF n = 0 \/ ~Is2D(k) THEN <<>>
                                   ELSE Append(g[n - 1][comp[k].parent], comp[k].cuid)]
    <3>1. CASE n = 0
      <4> HIDE DEF K
      <4> QED
        BY <1>5, <3>1
    <3>2. CASE n # 0
      <4>1. n \in 1 .. MaxIndex
        BY <1>1, <3>2
      <4>2. g[n] = [k \in K |-> At(g[n - 1], k)]
        BY <1>6, <4>1
      <4> HIDE DEF K
      <4> QED
        BY <3>2, <4>2
    <3> QED
      BY <3>1, <3>2
  <2> HIDE DEF K
  <2> QED
    BY <2>1, <2>2
<1>8. \A i : PathTo(i) = (CHOOSE f : Equation(f))[MaxIndex][i]
  BY DEF PathTo
<1> DEFINE f == CHOOSE f : Equation(f)
<1>9. Equation(f)
  <2> HIDE DEF Equation
  <2> QED
    BY <1>7
<1>10. \A i : PathTo(i) = f[MaxIndex][i]
  BY <1>8
<1> HIDE DEF f, s, base
<1>11. /\ \A k \in K : f[0][k] = <<>>
       /\ \A n \in 1 .. MaxIndex : \A k \in K : f[n][k] = At(f[n - 1], k)
  <2>1. ASSUME NEW n \in 0 .. MaxIndex, NEW k \in K
        PROVE  f[n][k] = IF n = 0 \/ ~Is2D(k) THEN <<>> ELSE Append(f[n - 1][comp[k].parent], comp[k].cuid)
    <3> HIDE DEF K
    <3>1. f[n] = [j \in K |-> IF n = 0 \/ ~Is2D(j) THEN <<>>
                              ELSE Append(f[n - 1][comp[j].parent], comp[j].cuid)]
      BY <1>9
    <3> QED
      BY <3>1
  <2>2. 0 \in 0 .. MaxIndex /\ \A n \in 1 .. MaxIndex : n \in 0 .. MaxIndex /\ n # 0
    BY <1>1
  <2> HIDE DEF K
  <2> QED
    BY <2>1, <2>2
<1>12. f \in [0 .. MaxIndex -> V]
  <2> DEFINE T == {n \in 0 .. MaxIndex : f[n] \in V}
  <2>1. \A n \in 0 .. MaxIndex : f[n] = [k \in K |-> f[n][k]]
    <3> HIDE DEF K
    <3> QED
      BY <1>9
  <2>2. 0 \in T
    <3>0. \A k \in K : f[0][k] \in Seq(ID)
      <4>1. <<>> \in Seq(ID)
        OBVIOUS
      <4>2. \A k \in K : f[0][k] = <<>>
        BY <1>11
      <4> HIDE DEF K
      <4> QED
        BY <4>1, <4>2
    <3>1. 0 \in 0 .. MaxIndex /\ \A k \in K : f[0][k] \in Seq(ID)
      BY <1>1, <3>0
    <3>2. f[0] \in V
      <4>1. f[0] = [k \in K |-> f[0][k]]
        BY <2>1, <3>1
      <4> HIDE DEF K
      <4> QED
        BY <3>1, <4>1
    <3> HIDE DEF V
    <3> QED
      BY <3>1, <3>2
  <2>3. ASSUME NEW n \in 0 .. MaxIndex - 1, n \in T PROVE n + 1 \in T
    <3>1. n + 1 \in 1 .. MaxIndex /\ n + 1 - 1 = n /\ n + 1 \in 0 .. MaxIndex
      BY <1>1
    <3>2. f[n] \in V
      BY <2>3
    <3>3. \A k \in K : f[n + 1][k] \in Seq(ID)
      <4>1. \A k \in K : f[n + 1][k] = At(f[n], k)
        BY <1>11, <3>1
      <4> HIDE DEF At, K, V
      <4> QED
        BY <1>3, <3>2, <4>1
    <3>4. f[n + 1] \in V
      <4>1. f[n + 1] = [k \in K |-> f[n + 1][k]]
        BY <2>1, <3>1
      <4> HIDE DEF K
      <4> QED
        BY <3>3, <4>1
    <3> QED
      BY <3>1, <3>4
  <2>4. \A n \in 0 .. MaxIndex : n \in T
    <3> HIDE DEF T
    <3> QED
      BY <1>1, <2>2, <2>3, CountUp
  <2>5. f = [n \in 0 .. MaxIndex |-> f[n]]
    <3> HIDE DEF K
    <3> QED
      BY <1>9
  <2>6. \A n \in 0 .. MaxIndex : f[n] \in V
    BY <2>4
  <2> HIDE DEF V
  <2> QED
    BY <2>5, <2>6
<1> HIDE DEF f
<1> QED
  BY <1>10, <1>11, <1>12

\* After the pass an entry's world is P, if P is its own transform behind the P of the
\* entry it hangs from, which is on the level above.
LEMMA PassFollows ==
    ASSUME NEW r, Packed(r), NEW S \in SUBSET Index, \A i \in Index : HasTransform(r, i) => i \in S,
           NEW P,
           \A i \in S : \A e : EntryIs(r, i, e) =>
              IF r.mSparse[i].depthLevel = 0 THEN P[i] = Append(<<>>, e.transform)
              ELSE /\ P[i] = Append(P[e.parentID.index], e.transform)
                   /\ e.parentID.index \in S
                   /\ r.mSparse[e.parentID.index].depthLevel = r.mSparse[i].depthLevel - 1
    PROVE  \A i \in S : HasTransform(r, i) => InvalidateTransforms(r)[i] = P[i]
<1>1. PICK m, s, n : m = r.mDepth /\ s = r.mSparse /\ n = Len(m)
  OBVIOUS
<1>2. m \in Seq(Seq(Entry)) /\ s \in [Index -> Place] /\ Agree(m, s)
  BY <1>1 DEF Packed
<1>3. n \in Nat /\ DOMAIN m = 1 .. n /\ \A d \in 1 .. n : m[d] \in Seq(Entry)
  BY <1>1, <1>2
<1>4. \A d \in 1 .. n : Level(r, d - 1) = m[d]
  BY <1>1, <1>3 DEF Level
<1> DEFINE start == [i \in Index |-> Unknown]
           u == [d \in 1 .. n |-> [w \in Worlds |-> WorldOfLevel(r, d - 1, w)]]
           Equation(g) == g = [d \in 0 .. n |-> IF d = 0 THEN start ELSE WorldOfLevel(r, d - 1, g[d - 1])]
<1>5. start \in Worlds
  <2>1. Unknown \in Seq(ID \cup {"unknown"})
    BY DEF Unknown
  <2> QED
    BY <2>1 DEF Worlds
<1>6. ASSUME NEW d \in 1 .. n, NEW w \in Worlds PROVE WorldOfLevel(r, d - 1, w) \in Worlds
  <2>1. PICK l : l = m[d]
    OBVIOUS
  <2>2. l \in Seq(Entry) /\ l = Level(r, d - 1) /\ Len(l) \in Nat
    BY <1>3, <1>4, <2>1
  <2>3. PICK g \in [0 .. Len(l) -> Worlds] : WorldOfLevel(r, d - 1, w) = g[Len(l)]
    <3>1. PICK b : b = d - 1
      OBVIOUS
    <3> QED
      BY <2>2, <3>1, LevelSteps
  <2>4. Len(l) \in 0 .. Len(l)
    BY <2>2
  <2> QED
    BY <2>3, <2>4
<1>7. \E g : Equation(g)
  <2>1. u \in [1 .. n -> [Worlds -> Worlds]]
    BY <1>6
  <2>2. PICK V, b, v : V = Worlds /\ b = start /\ v = u
    OBVIOUS
  <2>3. b \in V /\ v \in [1 .. n -> [V -> V]] /\ n \in Nat
    <3> HIDE DEF start, u
    <3> QED
      BY <1>3, <1>5, <2>1, <2>2
  <2>4. \E g \in [0 .. n -> V] : Stepping(g, n, b, v)
    BY ONLY <2>3, StepsExist
  <2>5. PICK g \in [0 .. n -> V] : g[0] = b /\ \A d \in 1 .. n : g[d] = v[d][g[d - 1]]
    BY <2>4 DEF Stepping
  <2>6. ASSUME NEW d \in 0 .. n PROVE g[d] = IF d = 0 THEN start ELSE WorldOfLevel(r, d - 1, g[d - 1])
    <3>1. CASE d = 0
      BY <2>2, <2>5, <3>1
    <3>2. CASE d # 0
      <4>1. d \in 1 .. n /\ d - 1 \in 0 .. n
        BY <1>3, <3>2
      <4>2. g[d - 1] \in Worlds
        BY <2>2, <2>5, <4>1
      <4>3. v[d] = [w \in Worlds |-> WorldOfLevel(r, d - 1, w)]
        BY <2>2, <4>1
      <4>4. g[d] = v[d][g[d - 1]]
        BY <2>5, <4>1
      <4> QED
        BY <3>2, <4>2, <4>3, <4>4
    <3> QED
      BY <3>1, <3>2
  <2>7. g = [d \in 0 .. n |-> g[d]]
    BY <2>5
  <2> HIDE DEF start
  <2>8. Equation(g)
    BY <2>6, <2>7
  <2> HIDE DEF Equation
  <2> QED
    BY <2>8
<1>8. InvalidateTransforms(r) = (CHOOSE g : Equation(g))[n]
  BY <1>1 DEF InvalidateTransforms
<1> DEFINE world == CHOOSE g : Equation(g)
<1>9. Equation(world)
  <2> HIDE DEF Equation
  <2> QED
    BY <1>7
<1>10. InvalidateTransforms(r) = world[n]
  BY <1>8
<1> HIDE DEF world
<1>11. ASSUME NEW d \in 1 .. n PROVE world[d] = WorldOfLevel(r, d - 1, world[d - 1])
  <2>1. d \in 0 .. n /\ d # 0
    BY <1>3
  <2> HIDE DEF start
  <2> QED
    BY <1>9, <2>1
<1>12. world[0] \in Worlds
  <2>1. 0 \in 0 .. n
    BY <1>3
  <2>2. world[0] = start
    <3> HIDE DEF start
    <3> QED
      BY <1>9, <2>1
  <2> QED
    BY <1>5, <2>2
<1> HIDE DEF Equation, start, u
\* Right once its level is done.
<1> DEFINE Right(w, d) == \A i \in S : HasTransform(r, i) /\ s[i].depthLevel < d => w[i] = P[i]
           T == {d \in 0 .. n : world[d] \in Worlds /\ Right(world[d], d)}
<1>13. 0 \in T
  <2>1. ASSUME NEW i \in S, HasTransform(r, i), s[i].depthLevel < 0 PROVE FALSE
    <3>1. s[i] \in Place
      BY <1>2
    <3>2. s[i].depthLevel \in Nat \cup {-1} /\ s[i].depthLevel >= 0
      BY <1>1, <2>1, <3>1 DEF HasTransform, Place
    <3> QED
      BY <2>1, <3>2
  <2>2. Right(world[0], 0)
    BY <2>1
  <2> HIDE DEF Right
  <2> QED
    BY <1>3, <1>12, <2>2
<1>14. ASSUME NEW b \in 0 .. n - 1, b \in T PROVE b + 1 \in T
  <2>1. b + 1 \in 1 .. n /\ b + 1 \in 0 .. n /\ b + 1 - 1 = b /\ b \in Nat
    BY <1>3
  <2>2. world[b] \in Worlds /\ Right(world[b], b)
    BY <1>14
  <2>3. PICK l, c, w : l = m[b + 1] /\ c = Len(l) /\ w = world[b]
    OBVIOUS
  <2>4. l \in Seq(Entry) /\ l = Level(r, b) /\ c \in Nat /\ DOMAIN l = 1 .. c
    <3>1. l \in Seq(Entry)
      BY <1>3, <2>1, <2>3
    <3>2. l = Level(r, b)
      BY <1>4, <2>1, <2>3
    <3> QED
      BY <2>3, <3>1, <3>2
  <2>5. w \in Worlds /\ Right(w, b) /\ world[b + 1] = WorldOfLevel(r, b, w)
    <3> HIDE DEF Right
    <3> QED
      BY <1>11, <2>1, <2>2, <2>3
  <2>6. PICK g \in [0 .. c -> Worlds] :
           /\ g[0] = w
           /\ \A k \in 1 .. c : g[k] = Multiplied(b, g[k - 1], l[k])
           /\ WorldOfLevel(r, b, w) = g[c]
    BY <2>3, <2>4, <2>5, LevelSteps
  <2> DEFINE Done(k, i) == s[i].depthLevel < b \/ (s[i].depthLevel = b /\ s[i].localIndex < k)
             Q == {k \in 0 .. c : \A i \in S : HasTransform(r, i) /\ Done(k, i) => g[k][i] = P[i]}
  <2>7. 0 \in Q
    <3>1. ASSUME NEW i \in S, HasTransform(r, i), Done(0, i) PROVE g[0][i] = P[i]
      <4>1. s[i] \in Place /\ i \in Index
        BY <1>2
      <4>2. s[i].localIndex \in Nat
        BY <4>1 DEF Place
      <4>3. s[i].depthLevel < b
        BY <3>1, <4>2
      <4> QED
        BY <2>5, <2>6, <3>1, <4>3
    <3> HIDE DEF Done
    <3> QED
      BY <2>4, <3>1
  <2>8. ASSUME NEW k \in 0 .. c - 1, k \in Q PROVE k + 1 \in Q
    <3>1. k + 1 \in 1 .. c /\ k + 1 \in 0 .. c /\ k + 1 - 1 = k /\ k \in 0 .. c /\ k \in Nat
      BY <2>4
    <3>2. PICK e, j, q, v : e = l[k + 1] /\ j = e.id.index /\ q = e.parentID.index /\ v = g[k]
      OBVIOUS
    <3>3. Holds(m, b + 1, k + 1, e)
      BY <1>3, <2>1, <2>3, <2>4, <3>1, <3>2 DEF Holds
    <3>4. j \in Index /\ s[j] = PlaceOf(b + 1, k + 1) /\ e \in Entry /\ s[j].depthLevel >= 0
          /\ s[j].depthLevel + 1 = b + 1 /\ s[j].localIndex + 1 = k + 1
      BY <1>2, <3>2, <3>3, HoldsTypes, HoldsPlace
    <3>5. s[j].depthLevel = b /\ s[j].localIndex = k
      BY <2>1, <3>1, <3>4 DEF PlaceOf
    <3>6. HasTransform(r, j) /\ j \in S /\ EntryIs(r, j, e)
      BY <1>1, <3>3, <3>4, <3>5 DEF HasTransform, EntryIs
    <3>7. v \in Worlds /\ g[k + 1] = Multiplied(b, v, e)
      BY <2>6, <3>1, <3>2
    <3>8. PICK y : y = IF b = 0 THEN <<>> ELSE v[q]
      OBVIOUS
    <3>9. g[k + 1] = [v EXCEPT ![j] = Append(y, e.transform)] /\ DOMAIN v = Index
      BY <3>2, <3>7, <3>8 DEF Multiplied, Worlds
    <3>10. g[k + 1][j] = Append(y, e.transform) /\ \A i \in Index : i # j => g[k + 1][i] = v[i]
      BY <3>4, <3>9
    <3>11. \A i \in S : HasTransform(r, i) /\ Done(k, i) => v[i] = P[i]
      <4> HIDE DEF Done
      <4> QED
        BY <2>8, <3>2
    <3>12. P[j] = Append(y, e.transform)
      <4>1. CASE b = 0
        BY <1>1, <3>5, <3>6, <3>8, <4>1
      <4>2. CASE b # 0
        <5>1. P[j] = Append(P[q], e.transform) /\ q \in S /\ s[q].depthLevel = b - 1
          BY <1>1, <3>2, <3>5, <3>6, <4>2
        <5>2. s[q].depthLevel < b /\ s[q].depthLevel >= 0
          BY <2>1, <4>2, <5>1
        <5>3. HasTransform(r, q)
          BY <1>1, <5>2 DEF HasTransform
        <5>4. v[q] = P[q]
          BY <3>11, <5>1, <5>2, <5>3
        <5> QED
          BY <3>8, <4>2, <5>1, <5>4
      <4> QED
        BY <4>1, <4>2
    <3>13. ASSUME NEW i \in S, HasTransform(r, i), Done(k + 1, i) PROVE g[k + 1][i] = P[i]
      <4>1. CASE i = j
        BY <3>10, <3>12, <4>1
      <4>2. CASE i # j
        <5>1. PICK f : EntryIs(r, i, f) /\ f.id.index = i
          BY <3>13, PackedHas
        <5>2. ~(s[i].depthLevel = b /\ s[i].localIndex = k)
          <6> SUFFICES ASSUME s[i].depthLevel = b /\ s[i].localIndex = k PROVE FALSE
            OBVIOUS
          <6>1. Holds(m, b + 1, k + 1, f)
            BY <1>1, <5>1 DEF EntryIs
          <6>2. f = e
            BY <3>3, <6>1 DEF Holds
          <6> QED
            BY <3>2, <4>2, <5>1, <6>2
        <5>3. s[i].localIndex \in Nat
          <6>1. s[i] \in Place
            BY <1>2
          <6> QED
            BY <6>1 DEF Place
        <5>4. Done(k, i)
          BY <3>1, <3>13, <5>2, <5>3
        <5> HIDE DEF Done
        <5>5. v[i] = P[i]
          BY <3>11, <3>13, <5>4
        <5> QED
          BY <3>10, <4>2, <5>5
      <4> QED
        BY <4>1, <4>2
    <3> HIDE DEF Done
    <3> QED
      BY <3>1, <3>13
  <2>9. \A k \in 0 .. c : k \in Q
    <3> HIDE DEF Q
    <3> QED
      BY <2>4, <2>7, <2>8, CountUp
  <2>10. c \in 0 .. c
    BY <2>4
  <2>11. \A i \in S : HasTransform(r, i) /\ Done(c, i) => g[c][i] = P[i]
    <3>1. c \in Q
      BY <2>9, <2>10
    <3> HIDE DEF Done
    <3> QED
      BY <3>1
  <2>12. Right(g[c], b + 1)
    <3> SUFFICES ASSUME NEW i \in S, HasTransform(r, i), s[i].depthLevel < b + 1 PROVE g[c][i] = P[i]
      OBVIOUS
    <3>1. PICK f : EntryIs(r, i, f)
      BY PackedHas
    <3>2. /\ s[i].depthLevel + 1 \in Nat /\ s[i].localIndex + 1 \in Nat
          /\ s[i].localIndex + 1 <= Len(m[s[i].depthLevel + 1])
      BY <1>1, <1>2, <3>1, HoldsTypes DEF EntryIs
    <3>3. s[i] \in Place
      BY <1>2
    <3>4. s[i].localIndex \in Nat /\ s[i].depthLevel \in Nat \cup {-1}
      BY <3>3 DEF Place
    <3>5. s[i].depthLevel < b \/ s[i].depthLevel = b
      BY <2>1, <3>4
    <3>6. ASSUME s[i].depthLevel = b PROVE s[i].localIndex < c
      <4>1. m[s[i].depthLevel + 1] = l
        BY <2>3, <3>6
      <4>2. s[i].localIndex + 1 <= c
        BY <2>3, <3>2, <4>1
      <4> QED
        BY <2>4, <3>4, <4>2
    <3>7. Done(c, i)
      BY <3>5, <3>6
    <3> HIDE DEF Done
    <3> QED
      BY <2>11, <3>7
  <2>13. world[b + 1] = g[c] /\ g[c] \in Worlds
    BY <2>5, <2>6, <2>10
  <2> HIDE DEF Right, Q
  <2> QED
    BY <2>1, <2>12, <2>13
<1>15. \A d \in 0 .. n : d \in T
  <2> HIDE DEF T
  <2> QED
    BY <1>3, <1>13, <1>14, CountUp
<1>16. Right(world[n], n)
  <2>1. n \in T
    BY <1>3, <1>15
  <2> HIDE DEF Right
  <2> QED
    BY <2>1
<1> SUFFICES ASSUME NEW i \in S, HasTransform(r, i) PROVE world[n][i] = P[i]
  BY <1>10
<1>17. PICK f : EntryIs(r, i, f)
  BY PackedHas
<1>18. s[i].depthLevel + 1 \in DOMAIN m
  BY <1>1, <1>17 DEF EntryIs, Holds
<1>19. s[i].depthLevel < n
  <2>1. s[i] \in Place
    BY <1>2
  <2>2. s[i].depthLevel \in Nat \cup {-1}
    BY <2>1 DEF Place
  <2> QED
    BY <1>3, <1>18, <2>2
<1> QED
  BY <1>16, <1>19

-----------------------------------------------------------------------------
(***************************************************************************)
(* The levels.  A transform is one level below that of its parent, which its *)
(* entry names, unless it waits to be moved.                               *)
(***************************************************************************)
\* Entry j is on the same level in q as in r, and says the same.
SameLevel(r, q, j) ==
    /\ q.mSparse[j].depthLevel = r.mSparse[j].depthLevel
    /\ \A e : EntryIs(q, j, e) => EntryIs(r, j, e)

\* An entry that is there before and after is the same one.
LEMMA SameEntry ==
    ASSUME NEW r, NEW q, NEW j, NEW f, EntryIs(r, j, f), EntryIs(q, j, f)
    PROVE  \A e : EntryIs(q, j, e) => EntryIs(r, j, e)
BY DEF EntryIs, Holds

\* A new entry leaves the others on their levels.
LEMMA PushLevels ==
    ASSUME NEW r, Packed(r), NEW d \in Nat, d + 1 <= Len(r.mDepth), NEW e \in Entry, e.transform = e.id,
           ~HasTransform(r, e.id.index), NEW q, q = PushEntry(r, d, e)
    PROVE  /\ \A j \in Index : HasTransform(r, j) => SameLevel(r, q, j)
           /\ q.mSparse[e.id.index].depthLevel = d
           /\ \A f : EntryIs(q, e.id.index, f) => f = e
<1>1. d < Len(r.mDepth)
  <2>1. Len(r.mDepth) \in Nat
    BY DEF Packed
  <2> QED
    BY <2>1
<1>2. /\ EntryIs(q, e.id.index, e)
      /\ \A j \in Index : j # e.id.index => q.mSparse[j] = r.mSparse[j]
      /\ \A b, c, f : Holds(r.mDepth, b, c, f) => Holds(q.mDepth, b, c, f)
  BY <1>1, PushKeeps
<1>3. ASSUME NEW j \in Index, HasTransform(r, j) PROVE SameLevel(r, q, j)
  <2>1. j # e.id.index
    BY <1>3
  <2>2. PICK f : EntryIs(r, j, f)
    BY <1>3, PackedHas
  <2>3. EntryIs(q, j, f)
    BY <1>2, <2>1, <2>2 DEF EntryIs
  <2>4. \A x : EntryIs(q, j, x) => EntryIs(r, j, x)
    BY <2>2, <2>3, SameEntry
  <2> QED
    BY <1>2, <2>1, <2>4 DEF SameLevel
<1>4. q.mSparse[e.id.index].depthLevel = d
  <2>1. e.id.index \in Index /\ DOMAIN r.mSparse = Index
    BY DEF Entry, ID, Packed
  <2> QED
    BY <2>1 DEF PushEntry
<1>5. \A f : EntryIs(q, e.id.index, f) => f = e
  BY <1>2 DEF EntryIs, Holds
<1> QED
  BY <1>3, <1>4, <1>5

\* Filling a hole moves an entry within its level.
LEMMA PopLevels ==
    ASSUME NEW r, Packed(r), NEW i \in Index, HasTransform(r, i), NEW q, q = SwapAndPop(r, i)
    PROVE  \A j \in Index : HasTransform(r, j) /\ j # i => SameLevel(r, q, j)
<1>1. /\ \A j \in Index : HasTransform(q, j) <=> HasTransform(r, j) /\ j # i
      /\ \A j \in Index : \A e : HasTransform(q, j) /\ EntryIs(r, j, e) => EntryIs(q, j, e)
  BY PopKeeps
<1> SUFFICES ASSUME NEW j \in Index, HasTransform(r, j), j # i PROVE SameLevel(r, q, j)
  OBVIOUS
<1>2. PICK f : EntryIs(r, j, f)
  BY PackedHas
<1>3. EntryIs(q, j, f)
  BY <1>1, <1>2
<1>4. \A e : EntryIs(q, j, e) => EntryIs(r, j, e)
  BY <1>2, <1>3, SameEntry
<1>5. q.mSparse[j].depthLevel = r.mSparse[j].depthLevel
  <2>1. PICK s, k, x : /\ s = r.mSparse /\ x = s[i].localIndex
                       /\ q.mSparse = [s EXCEPT ![k].localIndex = x, ![i] = Nowhere]
    BY DEF SwapAndPop
  <2>2. s \in [Index -> Place]
    BY <2>1 DEF Packed
  <2>3. PICK t : t = [s EXCEPT ![k].localIndex = x]
    OBVIOUS
  <2>4. t[j].depthLevel = s[j].depthLevel /\ DOMAIN t = Index
    <3>1. s[j] \in Place
      BY <2>2
    <3>2. CASE j = k
      <4>1. t[j] = [s[j] EXCEPT !.localIndex = x]
        BY <2>2, <2>3, <3>2
      <4> QED
        BY <2>2, <2>3, <3>1, <4>1 DEF Place
    <3>3. CASE j # k
      BY <2>2, <2>3, <3>3
    <3> QED
      BY <3>2, <3>3
  <2>5. q.mSparse = [t EXCEPT ![i] = Nowhere]
    BY <2>1, <2>3
  <2> QED
    BY <2>1, <2>4, <2>5
<1> QED
  BY <1>4, <1>5 DEF SameLevel

\* An empty level leaves all where they are.
LEMMA ReserveLevels ==
    ASSUME NEW r, Packed(r), NEW n \in Nat, NEW q, q = ReserveDepth(r, n)
    PROVE  \A j \in Index : SameLevel(r, q, j)
<1>1. /\ q.mSparse = r.mSparse
      /\ \A d, k, e : Holds(q.mDepth, d, k, e) <=> Holds(r.mDepth, d, k, e)
  BY ReserveKeeps
<1> QED
  BY <1>1 DEF SameLevel, EntryIs

\* create_transform: the new one goes below its parent.
LEMMA CreateLevels ==
    ASSUME NEW r, Packed(r), NEW id \in ID, NEW parentID \in ID, ~HasTransform(r, id.index),
           NEW q, q = CreateTransform(r, id, parentID)
    PROVE  /\ \A j \in Index : HasTransform(r, j) => SameLevel(r, q, j)
           /\ q.mSparse[id.index].depthLevel = ChildLevel(r, parentID)
           /\ \A e : EntryIs(q, id.index, e) => e.parentID = parentID
<1>1. PICK d, e, v : /\ d = ChildLevel(r, parentID)
                     /\ e = [id |-> id, parentID |-> parentID, transform |-> id]
                     /\ v = ReserveDepth(r, d + 1)
  OBVIOUS
<1>2. d \in Nat /\ d + 1 \in Nat
  BY <1>1, ChildLevelNat
<1>3. q = PushEntry(v, d, e)
  BY <1>1 DEF CreateTransform
<1>4. e \in Entry /\ e.transform = e.id /\ e.id = id /\ id.index \in Index /\ e.parentID = parentID
  BY <1>1 DEF Entry, ID
<1>5. /\ Packed(v) /\ d + 1 <= Len(v.mDepth)
      /\ \A j \in Index : HasTransform(v, j) <=> HasTransform(r, j)
  BY <1>1, <1>2, ReserveOwns
<1>6. \A j \in Index : SameLevel(r, v, j)
  BY <1>1, <1>2, ReserveLevels
<1>7. ~HasTransform(v, e.id.index)
  BY <1>4, <1>5
<1>8. /\ \A j \in Index : HasTransform(v, j) => SameLevel(v, q, j)
      /\ q.mSparse[e.id.index].depthLevel = d
      /\ \A f : EntryIs(q, e.id.index, f) => f = e
  BY <1>2, <1>3, <1>4, <1>5, <1>7, PushLevels
<1>9. \A j \in Index : HasTransform(r, j) => SameLevel(r, q, j)
  BY <1>5, <1>6, <1>8 DEF SameLevel
<1> QED
  BY <1>1, <1>4, <1>8, <1>9

\* One iteration of reparent_subtree: only the one that moves changes its level.
LEMMA MoveLevels ==
    ASSUME NEW r, Packed(r), NEW id \in ID, NEW parentID \in ID, Owns(r, id.index, id),
           NEW q, q = MoveTransform(r, id, parentID)
    PROVE  /\ \A j \in Index : HasTransform(r, j) /\ j # id.index => SameLevel(r, q, j)
           /\ q.mSparse[id.index].depthLevel = ChildLevel(r, parentID)
           /\ \A e : EntryIs(q, id.index, e) => e.parentID = parentID
<1>1. PICK d, v, w, i : /\ d = ChildLevel(r, parentID)
                        /\ v = ReserveDepth(r, d + 1)
                        /\ i = id.index
                        /\ w = SwapAndPop(v, i)
  OBVIOUS
<1>2. d \in Nat /\ d + 1 \in Nat /\ i \in Index
  BY <1>1, ChildLevelNat DEF ID
<1>3. HasTransform(r, i) /\ EntryOf(r, i).transform = id
  <2>1. PICK f : EntryIs(r, i, f) /\ f.id = id
    BY <1>1 DEF Owns
  <2>2. HasTransform(r, i)
    BY <1>1 DEF Owns
  <2>3. EntryIs(r, i, EntryOf(r, i)) /\ EntryOf(r, i).transform = EntryOf(r, i).id
    BY <1>2, <2>2, PackedHas
  <2>4. EntryOf(r, i) = f
    BY <2>1, <2>3 DEF EntryIs, Holds
  <2> QED
    BY <2>1, <2>2, <2>3, <2>4
<1>4. PICK e : e = [id |-> id, parentID |-> parentID, transform |-> id]
  OBVIOUS
<1>5. q = PushEntry(w, d, e)
  BY <1>1, <1>3, <1>4 DEF MoveTransform
<1>6. e \in Entry /\ e.transform = e.id /\ e.id = id /\ e.parentID = parentID
  BY <1>4 DEF Entry
<1>7. /\ Packed(v) /\ d + 1 <= Len(v.mDepth)
      /\ \A j \in Index : HasTransform(v, j) <=> HasTransform(r, j)
      /\ \A j \in Index : SameLevel(r, v, j)
  BY <1>1, <1>2, ReserveOwns, ReserveLevels
<1>8. /\ Packed(w) /\ Len(w.mDepth) = Len(v.mDepth)
      /\ \A j \in Index : HasTransform(w, j) <=> HasTransform(v, j) /\ j # i
  BY <1>1, <1>2, <1>3, <1>7, PopOwns
<1>9. \A j \in Index : HasTransform(v, j) /\ j # i => SameLevel(v, w, j)
  BY <1>1, <1>2, <1>3, <1>7, PopLevels
<1>10. ~HasTransform(w, e.id.index) /\ d + 1 <= Len(w.mDepth)
  BY <1>1, <1>2, <1>6, <1>7, <1>8
<1>11. /\ \A j \in Index : HasTransform(w, j) => SameLevel(w, q, j)
       /\ q.mSparse[e.id.index].depthLevel = d
       /\ \A f : EntryIs(q, e.id.index, f) => f = e
  BY <1>2, <1>5, <1>6, <1>8, <1>10, PushLevels
<1>12. \A j \in Index : HasTransform(r, j) /\ j # i => SameLevel(r, q, j)
  BY <1>7, <1>8, <1>9, <1>11 DEF SameLevel
<1> QED
  BY <1>1, <1>6, <1>11, <1>12

-----------------------------------------------------------------------------
LevelOf(i) == transform2DRegistry.mSparse[i].depthLevel

\* A transform is one level below that of its parent, which its entry names.
HangsRight(i) ==
    /\ comp[i].parent = Root => LevelOf(i) = 0
    /\ comp[i].parent \in Index /\ Has(comp[i].parent) =>
          /\ LevelOf(i) = LevelOf(comp[i].parent) + 1
          /\ \A e : EntryIs(transform2DRegistry, i, e) => e.parentID = comp[comp[i].parent].cuid

\* Those that wait to be moved are wrong as yet.
LevelRight == \A i \in Index : Has(i) /\ ~(op = "moving" /\ Works(work, i)) => HangsRight(i)

\* The component of w goes below the transform of its parent.
Below(w) ==
    /\ comp[w.id.index].parent \in Live
    /\ Is2D(comp[w.id.index].parent)
    /\ w.parentID = comp[comp[w.id.index].parent].cuid

WorkBelow == op = "moving" => \A k \in DOMAIN work : Below(work[k])

LevelsInv == LevelRight /\ WorkBelow

\* At the start there are no transforms.
LEMMA LevelsInvInit == Init => LevelsInv
<1> SUFFICES ASSUME Init PROVE LevelsInv
  OBVIOUS
<1>1. \A i \in Index : ~Has(i)
  BY DEF Init, EmptyTransforms, Has, HasTransform, Nowhere
<1> QED
  BY <1>1 DEF Init, LevelsInv, LevelRight, WorkBelow

\* A transform hangs right as long as it and its parent stay.
LEMMA HangsKept ==
    ASSUME NEW i, HangsRight(i), comp'[i].parent = comp[i].parent,
           SameLevel(transform2DRegistry, transform2DRegistry', i),
           (comp[i].parent \in Index /\ Has(comp[i].parent)') =>
              /\ Has(comp[i].parent) /\ comp'[comp[i].parent].cuid = comp[comp[i].parent].cuid
              /\ SameLevel(transform2DRegistry, transform2DRegistry', comp[i].parent)
    PROVE  HangsRight(i)'
<1>1. PICK p : p = comp[i].parent
  OBVIOUS
<1>2. LevelOf(i)' = LevelOf(i)
  BY DEF LevelOf, SameLevel
<1>3. ASSUME p = Root PROVE LevelOf(i)' = 0
  BY <1>1, <1>2, <1>3 DEF HangsRight
<1>4. ASSUME p \in Index, Has(p)'
      PROVE  /\ LevelOf(i)' = LevelOf(p)' + 1
             /\ \A e : EntryIs(transform2DRegistry', i, e) => e.parentID = comp'[p].cuid
  <2>1. Has(p) /\ comp'[p].cuid = comp[p].cuid /\ LevelOf(p)' = LevelOf(p)
    BY <1>1, <1>4 DEF SameLevel, LevelOf
  <2>2. /\ LevelOf(i) = LevelOf(p) + 1
        /\ \A e : EntryIs(transform2DRegistry, i, e) => e.parentID = comp[p].cuid
    BY <1>1, <1>4, <2>1 DEF HangsRight
  <2>3. \A e : EntryIs(transform2DRegistry', i, e) => EntryIs(transform2DRegistry, i, e)
    BY DEF SameLevel
  <2> QED
    BY <1>2, <2>1, <2>2, <2>3
<1>5. comp'[i].parent = p
  BY <1>1
<1> QED
  BY <1>3, <1>4, <1>5 DEF HangsRight

\* A new transform goes below that of its parent.
LEMMA NewLevels ==
    ASSUME IDInv, TreeInv, TransformInv, LevelsInv, op \in {"none", "cloning"}, op' \in {"none", "cloning"},
           NEW type \in Types, NEW p \in Live \cup {Root}, type = "data" \/ p = Root \/ Is2D(p),
           NewComponent(type, p)
    PROVE  LevelsInv'
<1>1. PICK id, r, q : id = NextID /\ r = transform2DRegistry /\ q = transform2DRegistry'
  OBVIOUS
<1>2. Added(id, type, p)
  BY <1>1, NewEffect
<1>3. PICK n : n = id.index
  OBVIOUS
<1>4. /\ n \in Index \ Live /\ id \in ID /\ Live' = Live \cup {n}
      /\ comp'[n].cuid = id /\ comp'[n].type = type /\ comp'[n].parent = p
      /\ \A k \in Index : k # n => comp'[k] = comp[k]
  BY <1>2, <1>3 DEF Added
<1>5. Root \notin Index /\ Live \subseteq Index /\ p # n
  BY <1>4, IndexTypes
<1>6. /\ Packed(r)
      /\ \A i \in Index : HasTransform(r, i) => i \in Live /\ HangsRight(i)
      /\ \A i \in Live : Is2D(i) => HasTransform(r, i)
      /\ \A i \in Live : comp[i].parent \in Live \cup {Root}
  BY <1>1 DEF TransformInv, OwnersLive, MissingFreed, Has, LevelsInv, LevelRight, TreeInv, ParentsLive
<1>7. /\ \A i \in Index : HasTransform(q, i) => i = n \/ HasTransform(r, i)
      /\ \A i \in Index : HasTransform(r, i) => SameLevel(r, q, i)
      /\ HasTransform(q, n) =>
            /\ p = Root \/ (p \in Live /\ HasTransform(r, p))
            /\ q.mSparse[n].depthLevel = ChildLevel(r, IDOf(p))
            /\ \A e : EntryIs(q, n, e) => e.parentID = IDOf(p)
  <2>1. CASE type = "2d"
    <3>1. q = CreateTransform(r, id, IDOf(p))
      BY <1>1, <2>1 DEF NewComponent
    <3>2. IDOf(p) \in ID
      <4>1. CASE p = Root
        BY <4>1, IDConstants DEF IDOf, NoID, ID, Index
      <4>2. CASE p \in Live
        BY <4>2, LiveNamed
      <4> QED
        BY <4>1, <4>2
    <3>3. ~HasTransform(r, id.index)
      BY <1>3, <1>4, <1>6
    <3>4. \A j \in Index : HasTransform(q, j) <=> HasTransform(r, j) \/ j = n
      BY <1>3, <1>4, <1>6, <3>1, <3>2, <3>3, CreateOwns
    <3>5. /\ \A j \in Index : HasTransform(r, j) => SameLevel(r, q, j)
          /\ q.mSparse[n].depthLevel = ChildLevel(r, IDOf(p))
          /\ \A e : EntryIs(q, n, e) => e.parentID = IDOf(p)
      BY <1>3, <1>4, <1>6, <3>1, <3>2, <3>3, CreateLevels
    <3>6. p = Root \/ (p \in Live /\ HasTransform(r, p))
      BY <1>6, <2>1
    <3> QED
      BY <3>4, <3>5, <3>6
  <2>2. CASE type # "2d"
    <3>1. q = r
      BY <1>1, <2>2 DEF NewComponent
    <3>2. ~HasTransform(r, n)
      BY <1>4, <1>6
    <3> QED
      BY <3>1, <3>2 DEF SameLevel
  <2> QED
    BY <2>1, <2>2
<1>8. ASSUME NEW i \in Index, HasTransform(q, i) PROVE HangsRight(i)'
  <2>1. CASE i = n
    <3>1. p = Root \/ (p \in Live /\ HasTransform(r, p))
      BY <1>7, <1>8, <2>1
    <3>2. CASE p = Root
      <4>1. q.mSparse[n].depthLevel = 0
        BY <1>7, <1>8, <2>1, <3>2 DEF ChildLevel, IDOf
      <4> QED
        BY <1>1, <1>4, <1>5, <2>1, <3>2, <4>1 DEF HangsRight, LevelOf
    <3>3. CASE p \in Live /\ HasTransform(r, p)
      <4>1. p \in Index /\ p # Root /\ IDOf(p) = comp[p].cuid /\ comp[p].cuid.index = p /\ comp[p].cuid # NoID
        BY <1>5, <3>3, LiveNamed DEF Live
      <4>2. q.mSparse[n].depthLevel = r.mSparse[p].depthLevel + 1
        BY <1>7, <1>8, <2>1, <4>1 DEF ChildLevel
      <4>3. q.mSparse[p].depthLevel = r.mSparse[p].depthLevel /\ comp'[p] = comp[p]
        BY <1>4, <1>5, <1>7, <3>3, <4>1 DEF SameLevel
      <4>4. \A e : EntryIs(q, n, e) => e.parentID = comp'[p].cuid
        BY <1>7, <1>8, <2>1, <4>1, <4>3
      <4> QED
        BY <1>1, <1>4, <2>1, <4>1, <4>2, <4>3, <4>4 DEF HangsRight, LevelOf
    <3> QED
      BY <3>1, <3>2, <3>3
  <2>2. CASE i # n
    <3>1. HasTransform(r, i) /\ i \in Live /\ HangsRight(i) /\ comp'[i] = comp[i] /\ SameLevel(r, q, i)
      BY <1>4, <1>6, <1>7, <1>8, <2>2
    <3>2. PICK u : u = comp[i].parent
      OBVIOUS
    <3>3. ASSUME u \in Index, HasTransform(q, u)
          PROVE  HasTransform(r, u) /\ comp'[u] = comp[u] /\ SameLevel(r, q, u)
      <4>1. u \in Live /\ u # n
        BY <1>4, <1>5, <1>6, <3>1, <3>2, <3>3
      <4> QED
        BY <1>4, <1>7, <3>3, <4>1
    <3> QED
      BY <1>1, <3>1, <3>2, <3>3, HangsKept DEF Has
  <2> QED
    BY <2>1, <2>2
<1> QED
  BY <1>1, <1>8 DEF LevelsInv, LevelRight, WorkBelow, Has

\* create_component.
LEMMA CreateLevelsInv ==
    ASSUME ~MixedTrees, IDInv, TreeInv, TransformInv, LevelsInv, NEW type \in Types, NEW p \in Index \cup {Root},
           CreateComponent(type, p)
    PROVE  LevelsInv'
<1>1. /\ op = "none" /\ op' = "none" /\ p \in Live \cup {Root}
      /\ NewComponent(type, p)
      /\ type = "data" \/ p = Root \/ Is2D(p)
  BY DEF CreateComponent, loopVars, MayHold
<1> QED
  BY <1>1, NewLevels

\* The copy of a component has the type and the parent of the original.
LEMMA CloneLevels ==
    ASSUME ~MixedTrees, IDInv, TreeInv, TransformInv, LevelsInv, NEW i \in Index, CloneComponentSubtree(i)
    PROVE  LevelsInv'
<1>1. /\ op = "none" /\ op' = "cloning" /\ i \in Live
      /\ NewComponent(comp[i].type, comp[i].parent)
  BY DEF CloneComponentSubtree
<1>2. comp[i].type \in Types /\ comp[i].parent \in Live \cup {Root}
  BY <1>1 DEF TreeInv, TreeTypes, ParentsLive
<1>3. comp[i].type = "data" \/ comp[i].parent = Root \/ Is2D(comp[i].parent)
  <2>1. i # Root /\ comp[i].parent # Adrift
    BY <1>1, <1>2, IndexTypes
  <2>2. comp[i].type = "data" \/ Is2D(i)
    BY <1>2, <2>1 DEF Is2D, Types
  <2> QED
    BY <1>1, <2>1, <2>2 DEF TransformInv, NotMixed
<1>4. PICK type, p : type = comp[i].type /\ p = comp[i].parent
  OBVIOUS
<1> QED
  BY <1>1, <1>2, <1>3, <1>4, NewLevels

\* The copy of a child goes below the copy of its parent.
LEMMA CopyChildLevels ==
    ASSUME ~MixedTrees, IDInv, TreeInv, TransformInv, LevelsInv, CopyChild
    PROVE  LevelsInv'
<1>1. PICK child : child = children[Top.src][Len(children[Top.dst]) + 1]
  OBVIOUS
<1>2. PICK type, p, s : type = comp[child].type /\ p = Top.dst /\ s = Top.src
  OBVIOUS
<1>3. op = "cloning" /\ op' = "cloning" /\ NewComponent(type, p)
  BY <1>1, <1>2 DEF CopyChild
<1>4. child \in Live /\ comp[child].parent = s /\ type \in Types
  BY <1>1, <1>2, NextChild
<1>5. s \in Live /\ p \in Live /\ comp[s].type = comp[p].type
  BY <1>2, <1>3, TopFrame DEF TreeInv
<1>6. type = "data" \/ Is2D(p)
  <2>1. Root \notin Live /\ Adrift \notin Live
    BY IndexTypes
  <2>2. CASE type # "data"
    <3>1. Is2D(child)
      BY <1>2, <1>4, <2>1, <2>2 DEF Is2D, Types
    <3>2. Is2D(s)
      BY <1>4, <1>5, <2>1, <3>1 DEF TransformInv, NotMixed
    <3> QED
      BY <1>5, <2>1, <3>2 DEF Is2D
  <2> QED
    BY <2>2
<1> QED
  BY <1>3, <1>4, <1>5, <1>6, NewLevels

\* Steps that touch neither the components nor the transforms.
LEMMA QuietLevels ==
    ASSUME LevelsInv, UNCHANGED <<comp, transform2DRegistry>>, op # "moving", op' # "moving"
    PROVE  LevelsInv'
<1>1. /\ \A i : HangsRight(i)' <=> HangsRight(i)
      /\ \A i : Has(i)' <=> Has(i)
  BY DEF HangsRight, LevelOf, Has
<1> QED
  BY <1>1 DEF LevelsInv, LevelRight, WorkBelow

\* The transform that is popped leaves nothing that hangs from it hanging wrong.
LEMMA PopLevelsInv ==
    ASSUME IDInv, TreeInv, TransformInv, LevelsInv, PopTransform
    PROVE  LevelsInv'
<1>1. PICK i, r, q : i = Head(work).id.index /\ r = transform2DRegistry /\ q = transform2DRegistry'
  OBVIOUS
<1>2. /\ op = "popping" /\ op' = "popping" /\ work # <<>> /\ q = SwapAndPop(r, i) /\ comp' = comp
  BY <1>1 DEF PopTransform, treeVars
<1>3. /\ work \in Seq(WorkItem)
      /\ \A k \in DOMAIN work : Current(work[k])
      /\ \A k \in done : ~Works(work, k)
      /\ \A k \in Live : Is2D(k) => (Has(k) <=> k \notin done)
      /\ Packed(r)
  BY <1>1, <1>2 DEF TransformInv, WorkLive, PoppedFromTop
<1>4. PICK k \in DOMAIN work : Head(work) = work[k]
  BY <1>2, <1>3, TailWork
<1>5. i \in Live /\ i \in Index /\ Is2D(i)
  BY <1>1, <1>3, <1>4, IndexTypes DEF Current
<1>6. HasTransform(r, i)
  <2>1. i \notin done
    BY <1>1, <1>3, <1>4 DEF Works
  <2> QED
    BY <1>1, <1>3, <1>5, <2>1 DEF Has
<1>7. /\ \A j \in Index : HasTransform(q, j) <=> HasTransform(r, j) /\ j # i
      /\ \A j \in Index : HasTransform(r, j) /\ j # i => SameLevel(r, q, j)
  BY <1>2, <1>3, <1>5, <1>6, PopOwns, PopLevels
<1>8. ASSUME NEW j \in Index, HasTransform(q, j) PROVE HangsRight(j)'
  <2>1. HasTransform(r, j) /\ SameLevel(r, q, j)
    BY <1>7, <1>8
  <2>2. HangsRight(j)
    BY <1>1, <1>2, <2>1 DEF LevelsInv, LevelRight, Has
  <2>3. PICK u : u = comp[j].parent
    OBVIOUS
  <2>4. u \in Index /\ HasTransform(q, u) => HasTransform(r, u) /\ SameLevel(r, q, u)
    BY <1>7
  <2> QED
    BY <1>1, <1>2, <2>1, <2>2, <2>3, <2>4, HangsKept DEF Has
<1> QED
  BY <1>1, <1>2, <1>8 DEF LevelsInv, LevelRight, WorkBelow, Has

\* What is detached hangs from nothing.
LEMMA DetachLevels ==
    ASSUME TreeInv, LevelsInv, Detach
    PROVE  LevelsInv'
<1>1. PICK d : d = doomed[1]
  OBVIOUS
<1>2. /\ op = "popping" /\ op' = "freeing" /\ transform2DRegistry' = transform2DRegistry
      /\ comp' = [comp EXCEPT ![d].parent = Adrift]
  BY <1>1 DEF Detach
<1>3. \A k \in Index : /\ comp'[k].cuid = comp[k].cuid
                       /\ comp'[k].parent = IF k = d THEN Adrift ELSE comp[k].parent
  <2>1. comp \in [Index -> [cuid : ID, type : Types, parent : Index \cup {Root, Adrift}]]
    BY DEF TreeInv, TreeTypes
  <2> QED
    BY <1>2, <2>1
<1>4. \A k : Has(k)' <=> Has(k)
  BY <1>2 DEF Has
<1>5. ASSUME NEW i \in Index, Has(i) PROVE HangsRight(i)'
  <2>1. CASE i = d
    BY <1>3, <2>1, IndexTypes DEF HangsRight
  <2>2. CASE i # d
    <3>1. HangsRight(i)
      BY <1>2, <1>5 DEF LevelsInv, LevelRight
    <3>2. \A k : SameLevel(transform2DRegistry, transform2DRegistry', k)
      BY <1>2 DEF SameLevel
    <3>3. comp'[i].parent = comp[i].parent
      BY <1>3, <2>2
    <3> QED
      BY <1>3, <1>4, <3>1, <3>2, <3>3, HangsKept
  <2> QED
    BY <2>1, <2>2
<1> QED
  BY <1>2, <1>4, <1>5 DEF LevelsInv, LevelRight, WorkBelow

\* A component that is freed has no transform any more.
LEMMA FreeLevels ==
    ASSUME IDInv, TreeInv, TransformInv', LevelsInv, FreeComponent
    PROVE  LevelsInv'
<1>1. PICK i, n : i = doomed[Len(doomed)] /\ n = Len(doomed)
  OBVIOUS
<1>2. /\ Freed(i, n) /\ op = "freeing" /\ transform2DRegistry' = transform2DRegistry
  BY <1>1, FreeEffect DEF FreeComponent
<1>3. /\ i \in Live /\ Live' = Live \ {i} /\ op' # "moving"
      /\ \A k \in Live \ {i} : comp'[k] = comp[k]
  BY <1>2 DEF Freed
<1>4. \A k : Has(k)' <=> Has(k)
  BY <1>2 DEF Has
<1>5. \A k \in Index : Has(k) => k \in Live \ {i}
  BY <1>3, <1>4 DEF TransformInv, OwnersLive
<1>6. ASSUME NEW k \in Index, Has(k) PROVE HangsRight(k)'
  <2>1. HangsRight(k) /\ comp'[k] = comp[k]
    BY <1>2, <1>3, <1>5, <1>6 DEF LevelsInv, LevelRight
  <2>2. \A j : SameLevel(transform2DRegistry, transform2DRegistry', j)
    BY <1>2 DEF SameLevel
  <2>3. \A j \in Index : Has(j) => comp'[j] = comp[j]
    BY <1>3, <1>5
  <2> QED
    BY <1>4, <2>1, <2>2, <2>3, HangsKept
<1> QED
  BY <1>3, <1>4, <1>6 DEF LevelsInv, LevelRight, WorkBelow

\* The component that is reparented waits to be moved; without a transform it
\* has none below it.
LEMMA ReparentLevels ==
    ASSUME ~MixedTrees, IDInv, TreeInv, TransformInv, LevelsInv, NEW i \in Index, NEW p \in Index,
           ReparentComponentSubtree(i, p)
    PROVE  LevelsInv'
<1>1. /\ op = "none" /\ i \in Live /\ p \in Live
      /\ comp[i].type = "data" \/ Is2D(p)
      /\ comp' = [comp EXCEPT ![i].parent = p]
      /\ transform2DRegistry' = transform2DRegistry
      /\ IF Is2D(p) /\ Is2D(i) THEN op' = "moving" /\ work' = <<[id |-> IDOf(i), parentID |-> IDOf(p)]>>
         ELSE op' = op
  BY IndexTypes DEF ReparentComponentSubtree, MayHold
<1>2. \A k \in Index : /\ comp'[k].cuid = comp[k].cuid /\ comp'[k].type = comp[k].type
                       /\ comp'[k].parent = IF k = i THEN p ELSE comp[k].parent
  <2>1. comp \in [Index -> [cuid : ID, type : Types, parent : Index \cup {Root, Adrift}]]
    BY DEF TreeInv, TreeTypes
  <2> QED
    BY <1>1, <2>1
<1>3. /\ Live' = Live
      /\ \A k \in Index : Is2D(k)' <=> Is2D(k)
      /\ \A k : Has(k)' <=> Has(k)
  BY <1>1, <1>2 DEF Live, Is2D, Has
<1>4. ASSUME NEW k \in Index, Has(k), k # i PROVE HangsRight(k)'
  <2>1. HangsRight(k)
    BY <1>1, <1>4 DEF LevelsInv, LevelRight
  <2>2. \A j : SameLevel(transform2DRegistry, transform2DRegistry', j)
    BY <1>1 DEF SameLevel
  <2>3. comp'[k].parent = comp[k].parent
    BY <1>2, <1>4
  <2> QED
    BY <1>2, <1>3, <2>1, <2>2, <2>3, HangsKept
<1>5. CASE Is2D(p) /\ Is2D(i)
  <2>1. PICK w : w = [id |-> comp[i].cuid, parentID |-> comp[p].cuid]
    OBVIOUS
  <2>2. op' = "moving" /\ work' = <<w>> /\ w.id.index = i /\ w.parentID = comp[p].cuid
    <3>1. IDOf(i) = comp[i].cuid /\ comp[i].cuid.index = i /\ IDOf(p) = comp[p].cuid
      BY <1>1, LiveNamed
    <3> QED
      BY <1>1, <1>5, <2>1, <3>1
  <2>3. DOMAIN work' = {1} /\ work'[1] = w
    BY <2>2
  <2>4. Works(work', i)
    BY <2>2, <2>3 DEF Works
  <2>5. LevelRight'
    BY <1>3, <1>4, <2>2, <2>4 DEF LevelRight
  <2>6. Below(w)'
    BY <1>1, <1>2, <1>3, <1>5, <2>2 DEF Below
  <2>7. WorkBelow'
    BY <2>3, <2>6 DEF WorkBelow
  <2> QED
    BY <2>5, <2>7 DEF LevelsInv
<1>6. CASE ~(Is2D(p) /\ Is2D(i))
  <2>1. op' = "none"
    BY <1>1, <1>6
  <2>2. ~Has(i)
    <3>1. Is2D(i) => Is2D(p)
      BY <1>1 DEF Is2D
    <3> QED
      BY <1>6, <3>1 DEF TransformInv, OwnersLive
  <2>3. LevelRight'
    BY <1>3, <1>4, <2>2 DEF LevelRight
  <2> QED
    BY <2>1, <2>3 DEF LevelsInv, WorkBelow
<1> QED
  BY <1>5, <1>6

\* What Pushed adds are the children of i, and names i as their parent.
LEMMA PushedBelow ==
    ASSUME IDInv, TreeInv, op # "freeing", NEW i \in Live, NEW queue \in Seq(WorkItem), NEW f \in Hierarchy(i),
           NEW q, q = Pushed(queue, i, f)
    PROVE  \A k \in DOMAIN q : \/ \E j \in DOMAIN queue : q[k] = queue[j]
                               \/ q[k].parentID = comp[i].cuid /\ In(children[i], q[k].id.index)
<1>1. PICK c, u : c = children[i] /\ u = IDOf(i)
  OBVIOUS
<1>2. i \in Index /\ u = comp[i].cuid /\ u \in ID
  BY <1>1, LiveNamed
<1>3. c \in Seq(Index) /\ \A k \in DOMAIN c : In(c, c[k]) /\ c[k] \in Live
  <2>1. c \in Seq(Index)
    BY <1>1, <1>2 DEF TreeInv, TreeTypes
  <2>2. \A x \in Index : In(c, x) => x \in Live
    BY <1>1 DEF TreeInv, LinksAgree
  <2>3. \A k \in DOMAIN c : c[k] \in Index /\ In(c, c[k])
    BY <2>1 DEF In
  <2> QED
    BY <2>1, <2>2, <2>3
<1>4. PICK n \in Nat : f \in [1 .. n -> DOMAIN c]
  <2>1. PICK n \in 0 .. Len(c) : f \in [1 .. n -> DOMAIN c]
    BY <1>1 DEF Hierarchy
  <2> QED
    BY <2>1
<1>5. PICK g : g = [k \in 1 .. n |-> [id |-> IDOf(c[f[k]]), parentID |-> u]]
  OBVIOUS
<1>6. q = queue \o g
  BY <1>1, <1>4, <1>5 DEF Pushed
<1>7. ASSUME NEW j \in 1 .. n PROVE g[j].parentID = comp[i].cuid /\ In(c, g[j].id.index) /\ g[j] \in WorkItem
  <2>1. PICK x : x = c[f[j]]
    OBVIOUS
  <2>2. f[j] \in DOMAIN c
    BY <1>4
  <2>3. In(c, x) /\ x \in Live
    BY <1>3, <2>1, <2>2
  <2>4. IDOf(x).index = x /\ IDOf(x) \in ID
    BY <2>3, LiveNamed
  <2> QED
    BY <1>2, <1>5, <2>1, <2>3, <2>4 DEF WorkItem
<1>8. PICK m \in Nat : Len(queue) = m
  OBVIOUS
<1>9. g \in Seq(WorkItem) /\ Len(g) = n
  <2>1. DOMAIN g = 1 .. n /\ g = [k \in 1 .. n |-> g[k]]
    BY <1>5
  <2> QED
    BY <1>4, <1>7, <2>1
<1>10. /\ DOMAIN queue = 1 .. m /\ DOMAIN q = 1 .. m + n
       /\ \A k \in 1 .. m : q[k] = queue[k]
       /\ \A k \in 1 .. m + n : k > m => q[k] = g[k - m]
  <2>1. DOMAIN queue = 1 .. m
    BY <1>8
  <2>2. Len(q) = m + n /\ q \in Seq(WorkItem)
    BY <1>6, <1>8, <1>9, ConcatProperties
  <2>3. \A k \in 1 .. m + n : q[k] = IF k <= m THEN queue[k] ELSE g[k - m]
    BY <1>6, <1>8, <1>9
  <2>4. \A k \in 1 .. m : k \in 1 .. m + n /\ k <= m
    BY <1>4, <1>8
  <2>5. \A k \in 1 .. m + n : k > m => ~(k <= m)
    BY <1>4, <1>8
  <2> QED
    BY <2>1, <2>2, <2>3, <2>4, <2>5
<1>11. ASSUME NEW k \in 1 .. m + n PROVE k \in 1 .. m \/ (k > m /\ k - m \in 1 .. n)
  BY <1>4, <1>8
<1> QED
  BY <1>1, <1>7, <1>10, <1>11

\* One iteration of reparent_subtree: what was moved hangs right, and what hangs from it
\* waits to be moved.
LEMMA MoveLevelsInv ==
    ASSUME IDInv, TreeInv, TransformInv, LevelsInv, MoveTransformStep
    PROVE  LevelsInv'
<1>1. PICK w, i, rest, r, q : /\ w = Head(work) /\ i = w.id.index /\ rest = Tail(work)
                              /\ r = transform2DRegistry /\ q = transform2DRegistry'
  OBVIOUS
<1>2. PICK f \in Hierarchy(i) : work' = Pushed(rest, i, f)
  BY <1>1 DEF MoveTransformStep
<1>3. /\ op = "moving" /\ work # <<>>
      /\ q = MoveTransform(r, w.id, w.parentID)
      /\ op' = IF work' = <<>> THEN "none" ELSE "moving"
      /\ comp' = comp /\ children' = children
  BY <1>1 DEF MoveTransformStep, treeVars
<1>4. /\ work \in Seq(WorkItem) /\ \A k \in DOMAIN work : Current(work[k]) /\ Below(work[k])
  BY <1>3 DEF TransformInv, WorkLive, LevelsInv, WorkBelow
<1>5. /\ rest \in Seq(WorkItem) /\ w \in WorkItem
      /\ \E k \in DOMAIN work : w = work[k]
      /\ \A k \in DOMAIN rest : \E j \in DOMAIN work : rest[k] = work[j]
      /\ \A x : Works(work, x) <=> x = i \/ Works(rest, x)
  BY <1>1, <1>3, <1>4, TailWork
<1>6. /\ Current(w) /\ Below(w) /\ i \in Live /\ i \in Index /\ Is2D(i) /\ w.id = comp[i].cuid
  <2>1. Current(w) /\ Below(w)
    BY <1>4, <1>5
  <2> QED
    BY <1>1, <2>1, IndexTypes DEF Current
<1>7. op # "freeing"
  BY <1>3
<1>8. /\ \A x : Works(work', x) <=> Works(rest, x) \/ (In(children[i], x) /\ Is2D(x))
      /\ \A k \in DOMAIN work' : Current(work'[k]) \/ \E j \in DOMAIN rest : work'[k] = rest[j]
  BY <1>2, <1>5, <1>6, <1>7, PushedIs
<1>9. \A k \in DOMAIN work' : \/ \E j \in DOMAIN rest : work'[k] = rest[j]
                              \/ work'[k].parentID = comp[i].cuid /\ In(children[i], work'[k].id.index)
  BY <1>2, <1>5, <1>6, <1>7, PushedBelow
<1>10. \A k \in DOMAIN rest : Current(rest[k]) /\ Below(rest[k])
  BY <1>4, <1>5
<1>11. \A x : Live' = Live /\ Is2D(x)' = Is2D(x)
  BY <1>3 DEF Live, Is2D
<1>12. ASSUME NEW k \in DOMAIN work' PROVE Below(work'[k])
  <2>1. PICK v, x : v = work'[k] /\ x = v.id.index
    OBVIOUS
  <2>2. CASE \E j \in DOMAIN rest : v = rest[j]
    BY <1>10, <2>1, <2>2
  <2>3. CASE ~\E j \in DOMAIN rest : v = rest[j]
    <3>1. v.parentID = comp[i].cuid /\ In(children[i], x) /\ Current(v)
      BY <1>8, <1>9, <2>1, <2>3
    <3>2. x \in Live
      BY <2>1, <3>1 DEF Current
    <3>3. comp[x].parent = i
      BY <1>6, <3>1, <3>2 DEF TreeInv, LinksAgree
    <3> QED
      BY <1>6, <2>1, <3>1, <3>3 DEF Below
  <2> QED
    BY <2>2, <2>3
<1>13. WorkBelow'
  <2>1. \A k \in DOMAIN work' : Below(work[k])'
    BY <1>3, <1>11, <1>12 DEF Below
  <2> QED
    BY <2>1 DEF WorkBelow
<1>14. /\ Packed(r)
       /\ \A k \in Live : Is2D(k) => HasTransform(r, k)
       /\ \A k \in Index : HasTransform(r, k) => k \in Live /\ Is2D(k) /\ Owns(r, k, comp[k].cuid)
  BY <1>1, <1>3 DEF TransformInv, MissingFreed, OwnersLive, Has
<1>15. /\ \A j \in Index : HasTransform(q, j) <=> HasTransform(r, j)
       /\ \A j \in Index : HasTransform(r, j) /\ j # i => SameLevel(r, q, j)
       /\ q.mSparse[i].depthLevel = ChildLevel(r, w.parentID)
       /\ \A e : EntryIs(q, i, e) => e.parentID = w.parentID
  <2>1. w.id \in ID /\ w.parentID \in ID
    BY <1>5 DEF WorkItem
  <2>2. Owns(r, w.id.index, w.id)
    BY <1>1, <1>6, <1>14
  <2> QED
    BY <1>1, <1>3, <1>14, <2>1, <2>2, MoveOwns, MoveLevels
<1>16. HangsRight(i)'
  <2>1. PICK p : p = comp[i].parent
    OBVIOUS
  <2>2. p \in Live /\ Is2D(p) /\ w.parentID = comp[p].cuid
    BY <1>1, <1>6, <2>1 DEF Below
  <2>3. p # i
    <3>1. {i} \in SUBSET Live /\ {i} # {}
      BY <1>6
    <3>2. \E x \in {i} : comp[x].parent \notin {i}
      BY <3>1 DEF TreeInv, NoCycle
    <3> QED
      BY <2>1, <3>2
  <2>4. p \in Index /\ p # Root /\ comp[p].cuid.index = p /\ comp[p].cuid # NoID
    BY <2>2, LiveNamed, IndexTypes DEF Live
  <2>5. q.mSparse[i].depthLevel = r.mSparse[p].depthLevel + 1
    BY <1>15, <2>2, <2>4 DEF ChildLevel
  <2>6. q.mSparse[p].depthLevel = r.mSparse[p].depthLevel
    BY <1>14, <1>15, <2>2, <2>3, <2>4 DEF SameLevel
  <2> QED
    BY <1>1, <1>3, <1>15, <2>1, <2>2, <2>4, <2>5, <2>6 DEF HangsRight, LevelOf
<1>17. ASSUME NEW j \in Index, HasTransform(q, j), ~Works(work', j) PROVE HangsRight(j)'
  <2>1. HasTransform(r, j) /\ j \in Live /\ Is2D(j)
    BY <1>14, <1>15, <1>17
  <2>2. CASE j = i
    BY <1>16, <2>2
  <2>3. CASE j # i
    <3>1. ~Works(work, j)
      BY <1>5, <1>8, <1>17, <2>3
    <3>2. HangsRight(j)
      BY <1>1, <2>1, <3>1 DEF LevelsInv, LevelRight, Has
    <3>3. PICK u : u = comp[j].parent
      OBVIOUS
    <3>4. u # i
      <4>1. ~In(children[i], j)
        BY <1>8, <1>17, <2>1
      <4> QED
        BY <1>6, <2>1, <3>3, <4>1 DEF TreeInv, LinksAgree
    <3>5. SameLevel(r, q, j)
      BY <1>15, <2>1, <2>3
    <3>6. u \in Index /\ HasTransform(q, u) => HasTransform(r, u) /\ SameLevel(r, q, u)
      BY <1>15, <3>4
    <3> QED
      BY <1>1, <1>3, <3>2, <3>3, <3>5, <3>6, HangsKept DEF Has
  <2> QED
    BY <2>2, <2>3
<1>18. LevelRight'
  <2>1. ASSUME NEW j \in Index, ~(op' = "moving" /\ Works(work', j)) PROVE ~Works(work', j)
    <3>1. CASE work' = <<>>
      BY <3>1 DEF Works
    <3>2. CASE work' # <<>>
      BY <1>3, <2>1, <3>2
    <3> QED
      BY <3>1, <3>2
  <2> QED
    BY <1>1, <1>17, <2>1 DEF LevelRight, Has
<1> QED
  BY <1>13, <1>18 DEF LevelsInv

\* Every step keeps the levels.
LEMMA LevelsInvStep ==
    ASSUME ~MixedTrees
    PROVE  IDInv /\ TreeInv /\ TransformInv /\ TransformInv' /\ LevelsInv /\ [Next]_vars => LevelsInv'
<1> SUFFICES ASSUME IDInv, TreeInv, TransformInv, TransformInv', LevelsInv, [Next]_vars PROVE LevelsInv'
  OBVIOUS
<1>1. CASE UNCHANGED vars
  <2>1. UNCHANGED <<comp, transform2DRegistry, op, work>>
    BY <1>1 DEF vars, treeVars, loopVars
  <2>2. /\ \A i : HangsRight(i)' <=> HangsRight(i)
        /\ \A i : Has(i)' <=> Has(i)
    BY <2>1 DEF HangsRight, LevelOf, Has
  <2>3. WorkBelow'
    BY <2>1 DEF LevelsInv, WorkBelow, Below, Live, Is2D
  <2> QED
    BY <2>1, <2>2, <2>3 DEF LevelsInv, LevelRight
<1>2. ASSUME NEW i \in Index, DestroyComponentSubtree(i) PROVE LevelsInv'
  BY <1>2, QuietLevels DEF DestroyComponentSubtree, treeVars
<1>3. CASE Descend
  BY <1>3, QuietLevels DEF Descend, treeVars
<1>4. CASE CopyReturns
  BY <1>4, QuietLevels DEF CopyReturns, treeVars
<1>5. CASE PlaceClone
  BY <1>5, QuietLevels DEF PlaceClone
<1> QED
  BY <1>1, <1>2, <1>3, <1>4, <1>5, CreateLevelsInv, CloneLevels, CopyChildLevels, PopLevelsInv, DetachLevels,
     FreeLevels, ReparentLevels, MoveLevelsInv
     DEF Next

-----------------------------------------------------------------------------
\* Between calls the path of a transform is that of its parent, and itself.
LEMMA PathIs ==
    ASSUME TreeTypes, \A i \in Live : comp[i].parent \in Live \cup {Root},
           NEW lev \in [{i \in Live : Is2D(i)} -> Nat],
           \A i \in Live : Is2D(i) =>
              \/ comp[i].parent = Root /\ lev[i] = 0
              \/ comp[i].parent \in Live /\ Is2D(comp[i].parent) /\ lev[i] = lev[comp[i].parent] + 1
    PROVE  \A i \in Live : Is2D(i) =>
              PathTo(i) = Append(IF comp[i].parent = Root THEN <<>> ELSE PathTo(comp[i].parent), comp[i].cuid)
<1> DEFINE S == {i \in Live : Is2D(i)}
<1>1. MaxIndex \in Nat \ {0} /\ Root \notin Live /\ Live \subseteq Index
  BY IDConstants, IndexTypes
<1>2. comp \in [Index -> [cuid : ID, type : Types, parent : Index \cup {Root, Adrift}]]
  BY DEF TreeTypes
<1>3. PICK g \in [0 .. MaxIndex -> [Live \cup {Root} -> Seq(ID)]] :
              /\ \A k \in Live \cup {Root} : g[0][k] = <<>>
              /\ \A n \in 1 .. MaxIndex : \A k \in Live \cup {Root} :
                    g[n][k] = IF ~Is2D(k) THEN <<>> ELSE Append(g[n - 1][comp[k].parent], comp[k].cuid)
              /\ \A i : PathTo(i) = g[MaxIndex][i]
  BY <1>2, PathSteps
<1>4. \A n \in 0 .. MaxIndex : g[n][Root] = <<>>
  <2>1. ~Is2D(Root)
    BY DEF Is2D
  <2>2. \A n \in 0 .. MaxIndex : n = 0 \/ n \in 1 .. MaxIndex
    BY <1>1
  <2> QED
    BY <1>3, <2>1, <2>2
<1>5. \A i \in S : lev[i] < MaxIndex
  <2>1. S \in SUBSET Index /\ lev \in [S -> Nat]
    BY <1>1
  <2>2. \A i \in S : lev[i] # 0 => \E p \in S : lev[i] = lev[p] + 1
    OBVIOUS
  <2> HIDE DEF S
  <2> QED
    BY <2>1, <2>2, LevelsBounded
\* Above level m, m steps are enough.
<1> DEFINE T == {m \in 0 .. MaxIndex - 1 : \A i \in S : lev[i] < m => g[m][i] = g[m + 1][i]}
<1>6. 0 \in T
  <2>1. \A i \in S : lev[i] \in Nat
    OBVIOUS
  <2> QED
    BY <1>1, <2>1
<1>7. ASSUME NEW m \in 0 .. (MaxIndex - 1) - 1, m \in T PROVE m + 1 \in T
  <2>1. /\ m + 1 \in 0 .. MaxIndex - 1 /\ m + 1 \in 1 .. MaxIndex /\ m + 2 \in 1 .. MaxIndex
        /\ m \in 0 .. MaxIndex /\ m + 1 \in 0 .. MaxIndex
        /\ m + 1 - 1 = m /\ m + 2 - 1 = m + 1 /\ (m + 1) + 1 = m + 2 /\ m \in Nat
    BY <1>1
  <2>2. ASSUME NEW i \in S, lev[i] < m + 1 PROVE g[m + 1][i] = g[m + 2][i]
    <3>1. PICK p : p = comp[i].parent
      OBVIOUS
    <3>2. /\ g[m + 1][i] = Append(g[m][p], comp[i].cuid)
          /\ g[m + 2][i] = Append(g[m + 1][p], comp[i].cuid)
      <4>1. i \in Live \cup {Root} /\ Is2D(i)
        OBVIOUS
      <4>2. ASSUME NEW n \in 1 .. MaxIndex PROVE g[n][i] = Append(g[n - 1][p], comp[i].cuid)
        BY <1>3, <3>1, <4>1
      <4> HIDE DEF S, T
      <4>3. g[m + 1][i] = Append(g[m + 1 - 1][p], comp[i].cuid)
        BY <2>1, <4>2
      <4>4. g[m + 2][i] = Append(g[m + 2 - 1][p], comp[i].cuid)
        BY <2>1, <4>2
      <4> QED
        BY <2>1, <4>3, <4>4
    <3>3. CASE p = Root
      BY <1>4, <2>1, <3>2, <3>3
    <3>4. CASE p # Root
      <4>1. p \in S /\ lev[i] = lev[p] + 1
        BY <3>1, <3>4
      <4>2. lev[p] \in Nat
        BY <4>1
      <4>3. lev[p] < m
        BY <2>1, <2>2, <4>1, <4>2
      <4>4. g[m][p] = g[m + 1][p]
        BY <1>7, <4>1, <4>3
      <4> QED
        BY <3>2, <4>4
    <3> QED
      BY <3>3, <3>4
  <2> HIDE DEF S
  <2> QED
    BY <2>1, <2>2
<1>8. \A m \in 0 .. MaxIndex - 1 : m \in T
  <2>1. MaxIndex - 1 \in Nat
    BY <1>1
  <2> HIDE DEF T
  <2> QED
    BY <1>6, <1>7, <2>1, CountUp
<1> SUFFICES ASSUME NEW i \in Live, Is2D(i)
             PROVE  PathTo(i) = Append(IF comp[i].parent = Root THEN <<>> ELSE PathTo(comp[i].parent), comp[i].cuid)
  OBVIOUS
<1>9. PICK p : p = comp[i].parent
  OBVIOUS
<1>10. PathTo(i) = Append(g[MaxIndex - 1][p], comp[i].cuid)
  <2>1. MaxIndex \in 1 .. MaxIndex
    BY <1>1
  <2>2. g[MaxIndex][i] = Append(g[MaxIndex - 1][p], comp[i].cuid)
    BY <1>3, <1>9, <2>1
  <2> QED
    BY <1>3, <2>2
<1>11. MaxIndex - 1 \in 0 .. MaxIndex /\ MaxIndex - 1 \in 0 .. MaxIndex - 1 /\ MaxIndex - 1 + 1 = MaxIndex
  BY <1>1
<1>12. CASE p = Root
  BY <1>4, <1>9, <1>10, <1>11, <1>12
<1>13. CASE p # Root
  <2>1. p \in S /\ lev[i] = lev[p] + 1 /\ lev[i] < MaxIndex /\ lev[p] \in Nat /\ lev[i] \in Nat
    BY <1>5, <1>9, <1>13
  <2>2. lev[p] < MaxIndex - 1
    BY <1>1, <2>1
  <2>3. MaxIndex - 1 \in T
    BY <1>8, <1>11
  <2>4. g[MaxIndex - 1][p] = g[MaxIndex][p]
    BY <1>11, <2>1, <2>2, <2>3
  <2>5. PathTo(p) = g[MaxIndex][p]
    BY <1>3
  <2> QED
    BY <1>9, <1>10, <1>13, <2>4, <2>5
<1> QED
  BY <1>12, <1>13

\* The worlds follow the tree when the transforms hang right.
LEMMA WorldsRight ==
    ASSUME IDInv, TreeInv, TransformInv, LevelsInv
    PROVE  WorldFollowsTree
<1> SUFFICES ASSUME op = "none", NEW x \in Live, Is2D(x)
             PROVE  InvalidateTransforms(transform2DRegistry)[x] = PathTo(x)
  BY DEF WorldFollowsTree, transforms
<1>1. PICK r : r = transform2DRegistry
  OBVIOUS
<1> DEFINE S == {i \in Live : Is2D(i)}
           lev == [i \in S |-> r.mSparse[i].depthLevel]
           P == [i \in S |-> PathTo(i)]
<1>2. /\ Packed(r)
      /\ \A i \in Index : HasTransform(r, i) => i \in Live /\ Is2D(i) /\ Owns(r, i, comp[i].cuid)
      /\ \A i \in Live : Is2D(i) => HasTransform(r, i)
      /\ \A i \in Index : HasTransform(r, i) => HangsRight(i)
      /\ \A i \in Live : comp[i].parent \in Live \cup {Root}
      /\ Root \notin Live /\ Live \subseteq Index
  BY <1>1, IndexTypes
     DEF TransformInv, OwnersLive, MissingFreed, LevelsInv, LevelRight, TreeInv, ParentsLive, Has
<1>3. \A i \in S : comp[i].parent = Root \/ comp[i].parent \in S
  <2> TAKE i \in S
  <2>1. comp[i].parent \in {Root, Adrift} \/ Is2D(comp[i].parent)
    BY DEF TransformInv, NotMixed
  <2>2. comp[i].parent \in Live \cup {Root} /\ comp[i].parent # Adrift
    BY <1>2, IndexTypes
  <2> QED
    BY <2>1, <2>2
<1>4. \A i \in S : lev[i] \in Nat /\ lev[i] = r.mSparse[i].depthLevel
  <2> TAKE i \in S
  <2>1. r.mSparse[i] \in Place
    BY <1>2 DEF Packed
  <2>2. r.mSparse[i].depthLevel \in Nat \cup {-1} /\ r.mSparse[i].depthLevel >= 0
    BY <1>2, <2>1 DEF Place, HasTransform
  <2> QED
    BY <2>2
<1>5. ASSUME NEW i \in S
      PROVE  /\ comp[i].parent = Root => lev[i] = 0
             /\ comp[i].parent # Root =>
                   /\ comp[i].parent \in S /\ lev[i] = lev[comp[i].parent] + 1
                   /\ \A e : EntryIs(r, i, e) => e.parentID.index = comp[i].parent
  <2>1. HangsRight(i)
    BY <1>2
  <2>2. PICK p : p = comp[i].parent
    OBVIOUS
  <2>3. CASE p = Root
    BY <1>1, <2>1, <2>2, <2>3 DEF HangsRight, LevelOf
  <2>4. CASE p # Root
    <3>1. p \in S /\ p \in Index /\ HasTransform(r, p)
      BY <1>2, <1>3, <2>2, <2>4
    <3>2. /\ r.mSparse[i].depthLevel = r.mSparse[p].depthLevel + 1
          /\ \A e : EntryIs(r, i, e) => e.parentID = comp[p].cuid
      BY <1>1, <2>1, <2>2, <3>1 DEF HangsRight, LevelOf, Has
    <3>3. comp[p].cuid.index = p
      BY <3>1, LiveNamed
    <3> QED
      BY <2>2, <2>4, <3>1, <3>2, <3>3
  <2> QED
    BY <2>2, <2>3, <2>4
<1>6. ASSUME NEW i \in S
      PROVE  PathTo(i) = Append(IF comp[i].parent = Root THEN <<>> ELSE PathTo(comp[i].parent), comp[i].cuid)
  <2>1. lev \in [S -> Nat]
    BY <1>4
  <2>2. PICK l \in [S -> Nat] : l = lev
    BY <2>1
  <2>3. \A j \in Live : Is2D(j) =>
           \/ comp[j].parent = Root /\ l[j] = 0
           \/ comp[j].parent \in Live /\ Is2D(comp[j].parent) /\ l[j] = l[comp[j].parent] + 1
    <3> HIDE DEF lev
    <3> QED
      BY <1>5, <2>2
  <2>4. TreeTypes
    BY DEF TreeInv
  <2> HIDE DEF lev
  <2> QED
    BY <1>2, <2>3, <2>4, PathIs
<1>7. ASSUME NEW i \in S, NEW e, EntryIs(r, i, e)
      PROVE  IF r.mSparse[i].depthLevel = 0 THEN P[i] = Append(<<>>, e.transform)
             ELSE /\ P[i] = Append(P[e.parentID.index], e.transform)
                  /\ e.parentID.index \in S
                  /\ r.mSparse[e.parentID.index].depthLevel = r.mSparse[i].depthLevel - 1
  <2>1. e.transform = comp[i].cuid
    <3>1. PICK f : EntryIs(r, i, f) /\ f.id = comp[i].cuid
      BY <1>2 DEF Owns
    <3>2. e = f
      BY <1>7, <3>1 DEF EntryIs, Holds
    <3>3. e.transform = e.id
      BY <1>2, <1>7 DEF Packed, Agree, EntryIs
    <3> QED
      BY <3>1, <3>2, <3>3
  <2>2. PICK p : p = comp[i].parent
    OBVIOUS
  <2>3. CASE p = Root
    <3>1. lev[i] = 0
      BY <1>5, <2>2, <2>3
    <3>2. PathTo(i) = Append(<<>>, comp[i].cuid)
      BY <1>6, <2>2, <2>3
    <3> QED
      BY <1>4, <2>1, <3>1, <3>2
  <2>4. CASE p # Root
    <3>1. p \in S /\ lev[i] = lev[p] + 1 /\ e.parentID.index = p
      BY <1>5, <1>7, <2>2, <2>4
    <3>2. PathTo(i) = Append(PathTo(p), comp[i].cuid)
      BY <1>6, <2>2, <2>4
    <3>3. /\ lev[i] \in Nat /\ lev[p] \in Nat
          /\ r.mSparse[i].depthLevel = lev[i] /\ r.mSparse[p].depthLevel = lev[p]
      BY <1>4, <3>1
    <3>4. r.mSparse[i].depthLevel # 0 /\ r.mSparse[p].depthLevel = r.mSparse[i].depthLevel - 1
      <4> HIDE DEF lev
      <4> QED
        BY <3>1, <3>3
    <3> QED
      BY <2>1, <3>1, <3>2, <3>4
  <2> QED
    BY <2>3, <2>4
<1>8. S \in SUBSET Index /\ \A i \in Index : HasTransform(r, i) => i \in S
  BY <1>2
<1>9. x \in S /\ HasTransform(r, x) /\ P[x] = PathTo(x)
  BY <1>2
<1>10. InvalidateTransforms(r)[x] = P[x]
  <2> HIDE DEF S, lev, P
  <2> QED
    BY <1>2, <1>7, <1>8, <1>9, PassFollows
<1> QED
  BY <1>1, <1>9, <1>10

(***************************************************************************)
(* Where users keep transforms below transforms, a pass over the levels    *)
(* gives each component the product of the transforms on its path in the   *)
(* tree, whatever was created, cloned, reparented and destroyed before.    *)
(***************************************************************************)
THEOREM WorldFollowsTreeCorrect == ASSUME ~MixedTrees PROVE Spec => []WorldFollowsTree
<1>1. IDInv /\ TreeInv /\ TransformInv /\ LevelsInv => WorldFollowsTree
  BY WorldsRight
<1>2. IDInv /\ TreeInv /\ TransformInv /\ [Next]_vars => TransformInv'
  BY TransformInvStep
<1>3. IDInv /\ TreeInv /\ TransformInv /\ TransformInv' /\ LevelsInv /\ [Next]_vars => LevelsInv'
  BY LevelsInvStep
<1> QED
  BY IDInvInit, IDInvStep, TreeInvInit, TreeInvStep, TransformInvInit, LevelsInvInit, <1>1, <1>2, <1>3, PTL DEF Spec
=============================================================================
