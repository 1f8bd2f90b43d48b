---------------------- MODULE DataRegistryForestProofs ----------------------
(***************************************************************************)
(* The loops of DataRegistry together implement the operations of          *)
(* ComponentForest, for any number of indices, of components and of        *)
(* destructions, with mixed trees or without.                              *)
(*                                                                         *)
(* What is shown are the components outside a destruction or a copy under  *)
(* way.  ForestInv says what such a walk knows of the components it has    *)
(* yet to reach, and what its last step makes of the forest.               *)
(***************************************************************************)
EXTENDS DataRegistryProofs

-----------------------------------------------------------------------------
(***************************************************************************)
(* The forest that the registry shows.                                     *)
(***************************************************************************)

\* f takes each component of D, those copied so far, to its copy.  The frames
\* of duplicate_subtree are the components whose children are not all copied.
CopyOf(D, f) ==
    LET top == copying[1].src
    IN  /\ top \in D /\ f[top] = copying[1].dst
        /\ \A i, j \in D : f[i] = f[j] => i = j
        /\ \A i, j \in D : f[i] # j
        /\ \A i \in D : comp[f[i]].type = comp[i].type
        /\ \A i \in D \ {top} : comp[i].parent \in D /\ comp[f[i]].parent = f[comp[i].parent]
        /\ \A i \in D :
             /\ Len(children[f[i]]) <= Len(children[i])
             /\ \A k \in DOMAIN children[f[i]] :
                   children[i][k] \in D /\ children[f[i]][k] = f[children[i][k]]
             /\ Len(children[f[i]]) = Len(children[i]) \/ \E k \in DOMAIN copying : copying[k].src = i
        /\ \A k \in DOMAIN copying : copying[k].src \in D /\ f[copying[k].src] = copying[k].dst

\* A copy that is not placed yet is the last child of its parent.
CopyLast(list, t) == list # <<>> /\ list[Len(list)] = t

CopyMade == op = "cloning" => \E D \in SUBSET Live : \E f \in [D -> Live] : CopyOf(D, f)
CopyUnplaced == op = "cloning" => CopyLast(children[comp[copying[1].dst].parent], copying[1].dst)
LiveIssued == \A i \in Live : comp[i].cuid \in issued
DoomedBelow == op = "freeing" => \A k \in DOMAIN doomed : doomed[k] \in Subtree(doomed[1])

ForestInv == CopyMade /\ CopyUnplaced /\ LiveIssued /\ DoomedBelow
-----------------------------------------------------------------------------
\* What hangs from i, for any links without a cycle.
Under(live, c, i) ==
    {n \in live : \A S \in SUBSET live :
        i \in S /\ (\A k \in live : c[k].parent \in S => k \in S) => n \in S}

Acyclic(live, c) == \A S \in SUBSET live : S # {} => \E k \in S : c[k].parent \notin S

\* The subtree is exactly what hangs from its top, the top apart; whatever
\* only hangs from itself and the top is in it.
LEMMA UnderExact ==
    ASSUME NEW live, NEW c, NEW i \in live, Acyclic(live, c), NEW U, U = Under(live, c, i)
    PROVE  /\ U \subseteq live /\ i \in U
           /\ \A k \in live : c[k].parent \in U <=> k \in U /\ k # i
           /\ \A X \in SUBSET live :
                 i \in X /\ (\A k \in live : c[k].parent \in X => k \in X) => U \subseteq X
           /\ \A X \in SUBSET live : (\A k \in X : k # i => c[k].parent \in X) => X \subseteq U
<1>1. U \subseteq live /\ i \in U
  BY DEF Under
<1>2. \A X \in SUBSET live :
         i \in X /\ (\A k \in live : c[k].parent \in X => k \in X) => U \subseteq X
  BY DEF Under
<1>3. ASSUME NEW k \in live, c[k].parent \in U PROVE k \in U
  BY <1>3 DEF Under
<1>4. ASSUME NEW k \in U, k # i PROVE c[k].parent \in U
  <2> DEFINE X == {x \in U : x = i \/ c[x].parent \in U}
  <2>1. X \in SUBSET live /\ i \in X
    BY <1>1
  <2>2. \A x \in live : c[x].parent \in X => x \in X
    BY <1>3
  <2>3. U \subseteq X
    BY <1>2, <2>1, <2>2
  <2> QED
    BY <1>4, <2>3
<1>5. c[i].parent \notin U
  <2> SUFFICES ASSUME c[i].parent \in U PROVE FALSE
    OBVIOUS
  <2>1. \A k \in U : c[k].parent \in U
    BY <1>4
  <2> QED
    BY <1>1, <2>1 DEF Acyclic
<1>6. ASSUME NEW X \in SUBSET live, \A k \in X : k # i => c[k].parent \in X PROVE X \subseteq U
  <2> SUFFICES ASSUME X \ U # {} PROVE FALSE
    OBVIOUS
  <2>1. PICK k \in X \ U : c[k].parent \notin X \ U
    BY DEF Acyclic
  <2>2. k # i /\ k \in live
    BY <1>1, <2>1
  <2>3. c[k].parent \in X /\ c[k].parent \notin U
    BY <1>3, <1>6, <2>1, <2>2
  <2> QED
    BY <2>1, <2>3
<1> QED
  BY <1>1, <1>2, <1>3, <1>4, <1>5, <1>6

\* The subtree of the model, before and after a step.
LEMMA SubtreeUnder ==
    /\ \A i : Subtree(i) = Under(Live, comp, i)
    /\ \A i : Subtree(i)' = Under(Live', comp', i)
    /\ NoCycle = Acyclic(Live, comp)
    /\ NoCycle' = Acyclic(Live', comp')
BY DEF Subtree, Under, NoCycle, Acyclic

\* The same two facts for the components as they are linked now.
LEMMA SubtreeExact ==
    ASSUME NoCycle, NEW i \in Live, NEW U, U = Subtree(i)
    PROVE  /\ U \subseteq Live /\ i \in U
           /\ \A k \in Live : comp[k].parent \in U <=> k \in U /\ k # i
           /\ \A X \in SUBSET Live :
                 i \in X /\ (\A k \in Live : comp[k].parent \in X => k \in X) => U \subseteq X
           /\ \A X \in SUBSET Live : (\A k \in X : k # i => comp[k].parent \in X) => X \subseteq U
<1>1. Acyclic(Live, comp) /\ U = Under(Live, comp, i)
  BY SubtreeUnder
<1> QED
  BY <1>1, UnderExact

\* And as they are linked after the step.
LEMMA SubtreeExactNext ==
    ASSUME NoCycle', NEW i \in Live', NEW U, U = Subtree(i)'
    PROVE  /\ U \subseteq Live' /\ i \in U
           /\ \A k \in Live' : comp'[k].parent \in U <=> k \in U /\ k # i
           /\ \A X \in SUBSET Live' :
                 i \in X /\ (\A k \in Live' : comp'[k].parent \in X => k \in X) => U \subseteq X
           /\ \A X \in SUBSET Live' : (\A k \in X : k # i => comp'[k].parent \in X) => X \subseteq U
<1>1. Acyclic(Live', comp') /\ U = Under(Live', comp', i)
  BY SubtreeUnder
<1> QED
  BY <1>1, UnderExact
-----------------------------------------------------------------------------
\* At the start there is nothing to show.
LEMMA ForestInvInit == Init => ForestInv
BY DEF Init, ForestInv, CopyMade, CopyUnplaced, LiveIssued, DoomedBelow, Live, NoComponent

\* Every component still has an identifier that was handed out.
LEMMA LiveIssuedNew ==
    ASSUME IDInv, TreeInv, LiveIssued, NEW type \in Types, NEW p \in Live \cup {Root}, NewComponent(type, p)
    PROVE  LiveIssued'
<1>1. PICK id : id = NextID
  OBVIOUS
<1>2. Added(id, type, p) /\ issued' = issued \cup {id}
  BY <1>1, NewEffect DEF NewComponent
<1>3. /\ Live' = Live \cup {id.index}
      /\ \A k \in Index : comp'[k] = IF k = id.index THEN [cuid |-> id, type |-> type, parent |-> p] ELSE comp[k]
      /\ id.index \in Index
  BY <1>2 DEF Added
<1>4. ASSUME NEW k \in Live' PROVE comp'[k].cuid \in issued'
  <2>1. CASE k = id.index
    BY <1>2, <1>3, <2>1
  <2>2. CASE k # id.index
    BY <1>2, <1>3, <1>4, <2>2, IndexTypes DEF LiveIssued
  <2> QED
    BY <2>1, <2>2
<1> QED
  BY <1>4 DEF LiveIssued

\* No component changes its identifier and none is added.
LEMMA LiveIssuedKept ==
    ASSUME LiveIssued, Live' \subseteq Live, issued' = issued, \A k \in Live' : comp'[k].cuid = comp[k].cuid
    PROVE  LiveIssued'
BY DEF LiveIssued

\* A copy begins with its top component alone.
LEMMA CloneCopy ==
    ASSUME IDInv, TreeInv, NEW i \in Index, CloneComponentSubtree(i)
    PROVE  CopyMade' /\ CopyUnplaced'
<1>1. PICK id, p, n : id = NextID /\ p = comp[i].parent /\ n = id.index
  OBVIOUS
<1>2. /\ op = "none" /\ op' = "cloning" /\ i \in Live
      /\ NewComponent(comp[i].type, p)
      /\ copying' = <<[src |-> i, dst |-> n]>>
  BY <1>1 DEF CloneComponentSubtree
<1>3. comp[i].type \in Types /\ p \in Live \cup {Root}
  BY <1>1, <1>2 DEF TreeInv, TreeTypes, ParentsLive
<1>4. Added(id, comp[i].type, p)
  BY <1>1, <1>2, <1>3, NewEffect
<1>5. /\ n \in Index \ Live /\ n \in Live' /\ i \in Live' /\ i # n /\ p # n
      /\ comp'[n].type = comp[i].type /\ comp'[n].parent = p
      /\ comp'[i] = comp[i]
      /\ children'[n] = <<>>
  BY <1>1, <1>2, <1>3, <1>4, IndexTypes DEF Added
<1>6. children'[p] = Append(children[p], n) /\ children[p] \in Seq(Index)
  BY <1>1, <1>3, <1>4, <1>5, IndexTypes DEF Added, TreeInv, TreeTypes
<1>7. copying'[1].src = i /\ copying'[1].dst = n /\ DOMAIN copying' = {1}
  BY <1>2
<1>8. Len(children'[n]) = 0 /\ DOMAIN children'[n] = {}
  BY <1>5
<1>9. Len(children'[i]) \in Nat
  <2>1. TreeInv'
    BY CloneTree
  <2>2. children'[i] \in Seq(Index)
    BY <1>2, <2>1, IndexTypes DEF TreeInv, TreeTypes
  <2> QED
    BY <2>2
<1>10. CopyMade'
  <2>1. PICK D, f : D = {i} /\ f = [x \in D |-> n]
    OBVIOUS
  <2>2. D \in SUBSET Live' /\ f \in [D -> Live'] /\ f[i] = n /\ \A x \in D : x = i
    BY <1>5, <2>1
  <2>3. CopyOf(D, f)'
    BY <1>5, <1>7, <1>8, <1>9, <2>1, <2>2 DEF CopyOf
  <2> QED
    BY <2>2, <2>3 DEF CopyMade
<1>11. CopyUnplaced'
  <2>1. CopyLast(Append(children[p], n), n)
    BY <1>1, <1>5, <1>6 DEF CopyLast
  <2> QED
    BY <1>5, <1>6, <1>7, <2>1 DEF CopyUnplaced
<1> QED
  BY <1>10, <1>11

\* What a copy looks like while duplicate_subtree runs.  The originals are
\* below the first frame's, the copies below its copy, and all of these.
LEMMA CopyShape ==
    ASSUME TreeInv, op = "cloning", NEW D \in SUBSET Live, NEW f \in [D -> Live], CopyOf(D, f),
           NEW s, NEW t, s = copying[1].src, t = copying[1].dst
    PROVE  /\ s \in D /\ s \in Live /\ t \in Live /\ f[s] = t /\ s # t
           /\ comp[s].parent = comp[t].parent
           /\ D \subseteq Subtree(s)
           /\ \A i \in D : f[i] \in Subtree(t)
           /\ comp[s].parent \notin Subtree(s) /\ comp[t].parent \notin Subtree(t)
           /\ \A i \in D \ {s} : comp[i].parent \in D /\ comp[f[i]].parent = f[comp[i].parent]
           /\ \A i \in D : f[i] \notin D
<1>1. /\ s \in D /\ f[s] = t
      /\ \A i \in D \ {s} : comp[i].parent \in D /\ comp[f[i]].parent = f[comp[i].parent]
      /\ \A i, j \in D : f[i] # j
      /\ \A i, j \in D : f[i] = f[j] => i = j
  BY DEF CopyOf
<1>2. s \in Live /\ t \in Live /\ s # t /\ comp[s].parent = comp[t].parent
  BY <1>1 DEF TreeInv, CopyFrames
<1>3. PICK U, V : U = Subtree(s) /\ V = Subtree(t)
  OBVIOUS
<1>4. D \subseteq U /\ comp[s].parent \notin U
  BY <1>1, <1>2, <1>3, SubtreeExact DEF TreeInv
<1>5. PICK R : R = {f[i] : i \in D}
  OBVIOUS
<1>6. R \in SUBSET Live
  BY <1>5
<1>7. ASSUME NEW k \in R, k # t PROVE comp[k].parent \in R
  BY <1>1, <1>5, <1>7
<1>8. R \subseteq V /\ comp[t].parent \notin V
  BY <1>2, <1>3, <1>6, <1>7, SubtreeExact DEF TreeInv
<1> QED
  BY <1>1, <1>2, <1>3, <1>4, <1>5, <1>8

\* A frame that is left is complete.
LEMMA CopyReturnsCopy ==
    ASSUME TreeInv, CopyMade, CopyUnplaced, CopyReturns
    PROVE  CopyMade' /\ CopyUnplaced'
<1>1. /\ op = "cloning" /\ op' = "cloning" /\ Len(copying) > 1
      /\ Len(children[Top.dst]) = Len(children[Top.src])
      /\ copying' = SubSeq(copying, 1, Len(copying) - 1)
      /\ UNCHANGED <<comp, children>>
  BY DEF CopyReturns, treeVars, ChildrenCopied
<1>2. copying \in Seq([src : Index, dst : Index]) /\ Len(copying) \in Nat
  BY <1>1 DEF TreeInv, CopyFrames
<1>3. PICK m \in Nat \ {0} : Len(copying) = m + 1
  <2>1. Len(copying) - 1 \in Nat \ {0} /\ Len(copying) = (Len(copying) - 1) + 1
    BY <1>1, <1>2
  <2> QED
    BY <2>1
<1>4. /\ DOMAIN copying' = 1 .. m /\ DOMAIN copying = 1 .. m + 1
      /\ \A k \in 1 .. m : copying'[k] = copying[k]
      /\ Top = copying[m + 1]
  BY <1>1, <1>2, <1>3, InFront DEF Top
<1>5. /\ 1 \in 1 .. m /\ m + 1 \in 1 .. m + 1
      /\ \A k \in 1 .. m : k \in 1 .. m + 1
      /\ \A k \in 1 .. m + 1 : k \in 1 .. m \/ k = m + 1
  BY <1>3
<1>6. copying'[1] = copying[1] /\ Live' = Live
  BY <1>1, <1>4, <1>5 DEF Live
<1>7. PICK D \in SUBSET Live : \E f \in [D -> Live] : CopyOf(D, f)
  BY <1>1 DEF CopyMade
<1>8. PICK f \in [D -> Live] : CopyOf(D, f)
  BY <1>7
<1>9. /\ copying[m + 1].src \in D /\ f[copying[m + 1].src] = copying[m + 1].dst
      /\ \A k \in 1 .. m : copying[k].src \in D /\ f[copying[k].src] = copying[k].dst
  BY <1>4, <1>5, <1>8 DEF CopyOf
<1>10. ASSUME NEW i \in D
       PROVE  Len(children[f[i]]) = Len(children[i]) \/ \E k \in 1 .. m : copying[k].src = i
  <2>1. Len(children[f[i]]) = Len(children[i]) \/ \E k \in 1 .. m + 1 : copying[k].src = i
    BY <1>4, <1>8 DEF CopyOf
  <2>2. CASE i = copying[m + 1].src
    BY <1>1, <1>4, <1>9, <2>2
  <2> QED
    BY <1>5, <2>1, <2>2
<1>11. \A i \in D : Len(children[f[i]]) = Len(children[i]) \/ \E k \in DOMAIN copying' : copying'[k].src = i
  BY <1>4, <1>10
<1>12. CopyOf(D, f)'
  BY <1>1, <1>4, <1>6, <1>8, <1>9, <1>11 DEF CopyOf
<1>13. CopyMade'
  BY <1>6, <1>12 DEF CopyMade
<1>14. CopyUnplaced'
  BY <1>1, <1>6 DEF CopyUnplaced
<1> QED
  BY <1>13, <1>14

\* What the step that copies a child does to the tree: n is the copy, and b,
\* which gets it, is the copy that the frame on top works on.
CopiedChild(child, a, b, n) ==
    /\ child \in Live /\ comp[child].parent = a
    /\ a \in Live /\ b \in Live /\ Top = [src |-> a, dst |-> b]
    /\ n \in Index /\ n \notin Live /\ n # Root /\ Live' = Live \cup {n}
    /\ \A k \in Live : comp'[k] = comp[k]
    /\ comp'[n].type = comp[child].type /\ comp'[n].parent = b
    /\ children'[n] = <<>> /\ children'[b] = Append(children[b], n)
    /\ \A k \in Live \cup {Root} : k # b => children'[k] = children[k]
    /\ children[b] \in Seq(Index) /\ Len(children[b]) + 1 \in DOMAIN children[a]
    /\ Len(children[b]) < Len(children[a])
    /\ child = children[a][Len(children[b]) + 1]
    /\ copying' = Append(copying, [src |-> child, dst |-> n])
    /\ issued' = issued \cup {NextID} /\ NextID.index = n
    /\ comp'[n].cuid = NextID

\* What duplicate_subtree does with the next child.
LEMMA CopyChildEffect ==
    ASSUME IDInv, TreeInv, CopyChild
    PROVE  \E child, a, b, n : CopiedChild(child, a, b, n)
<1>1. PICK id, child, a, b, n : /\ id = NextID /\ child = children[Top.src][Len(children[Top.dst]) + 1]
                                /\ a = Top.src /\ b = Top.dst /\ n = id.index
  OBVIOUS
<1>2. /\ op = "cloning" /\ op' = "cloning"
      /\ NewComponent(comp[child].type, b)
      /\ copying' = Append(copying, [src |-> child, dst |-> n])
  BY <1>1 DEF CopyChild
<1>3. /\ child \in Live /\ comp[child].type \in Types /\ comp[child].parent = a
      /\ Len(children[b]) < Len(children[a])
      /\ Len(children[b]) \in Nat /\ Len(children[a]) \in Nat
  BY <1>1, NextChild
<1>4. a \in Live /\ b \in Live
  BY <1>1, <1>2, TopFrame DEF TreeInv
<1>5. Top = [src |-> a, dst |-> b]
  <2>0. PICK h, F : h = Len(copying) /\ F = [src : Index, dst : Index]
    OBVIOUS
  <2>1. copying \in Seq(F) /\ Top = copying[h] /\ h \in DOMAIN copying
    BY <1>2, <2>0, TopFrame DEF TreeInv, CopyFrames
  <2>2. Top \in F
    BY <2>1
  <2> QED
    BY <1>1, <2>0, <2>2
<1>6. Added(id, comp[child].type, b) /\ issued' = issued \cup {id}
  BY <1>1, <1>2, <1>3, <1>4, NewEffect DEF NewComponent
<1>7. /\ n \in Index /\ n \notin Live /\ n # Root /\ Live' = Live \cup {n}
      /\ \A k \in Live : comp'[k] = comp[k]
      /\ comp'[n].type = comp[child].type /\ comp'[n].parent = b /\ comp'[n].cuid = id
      /\ children'[n] = <<>> /\ children'[b] = Append(children[b], n)
      /\ \A k \in Live \cup {Root} : k # b => children'[k] = children[k]
  <2>1. /\ n \in Index /\ n \notin Live /\ n # Root /\ Live' = Live \cup {n} /\ n # b
        /\ b \in Index /\ b \in Index \cup {Root} /\ Live \subseteq Index
    BY <1>1, <1>4, <1>6, IndexTypes DEF Added
  <2>2. /\ \A k \in Index :
             comp'[k] = IF k = n THEN [cuid |-> id, type |-> comp[child].type, parent |-> b] ELSE comp[k]
        /\ \A q \in Index \cup {Root} :
             children'[q] = IF q = n THEN <<>> ELSE IF q = b THEN Append(children[b], n) ELSE children[q]
    BY <1>1, <1>6 DEF Added
  <2>3. \A k \in Live : comp'[k] = comp[k]
    BY <2>1, <2>2
  <2>4. \A k \in Live \cup {Root} : k # b => children'[k] = children[k]
    BY <2>1, <2>2
  <2>5. comp'[n] = [cuid |-> id, type |-> comp[child].type, parent |-> b]
    BY <2>1, <2>2
  <2>6. children'[n] = <<>> /\ children'[b] = Append(children[b], n)
    BY <2>1, <2>2
  <2> QED
    BY <2>1, <2>3, <2>4, <2>5, <2>6
<1>8. children[b] \in Seq(Index) /\ children[a] \in Seq(Index)
  BY <1>4, IndexTypes DEF TreeInv, TreeTypes
<1>9. Len(children[b]) + 1 \in DOMAIN children[a]
  BY <1>3, <1>8
<1>10. child = children[a][Len(children[b]) + 1] /\ NextID.index = n /\ comp'[n].cuid = NextID
  BY <1>1, <1>7
<1>11. issued' = issued \cup {NextID}
  BY <1>1, <1>6
<1>12. CopiedChild(child, a, b, n)
  BY <1>2, <1>3, <1>4, <1>5, <1>7, <1>8, <1>9, <1>10, <1>11 DEF CopiedChild
<1> QED
  BY <1>12

\* The child joins the originals and the new component the copies.
LEMMA CopyChildCopy ==
    ASSUME IDInv, TreeInv, CopyMade, CopyUnplaced, CopyChild
    PROVE  CopyMade' /\ CopyUnplaced'
<1>0. op = "cloning" /\ op' = "cloning"
  BY DEF CopyChild
<1>1. PICK child, a, b, n : CopiedChild(child, a, b, n)
  BY CopyChildEffect
<1>2. /\ child \in Live /\ comp[child].parent = a
      /\ a \in Live /\ b \in Live /\ Top = [src |-> a, dst |-> b]
      /\ n \in Index /\ n \notin Live /\ n # Root /\ Live' = Live \cup {n}
      /\ \A k \in Live : comp'[k] = comp[k]
      /\ comp'[n].type = comp[child].type /\ comp'[n].parent = b
      /\ children'[n] = <<>> /\ children'[b] = Append(children[b], n)
      /\ \A k \in Live \cup {Root} : k # b => children'[k] = children[k]
      /\ children[b] \in Seq(Index)
      /\ Len(children[b]) < Len(children[a])
      /\ child = children[a][Len(children[b]) + 1]
      /\ copying' = Append(copying, [src |-> child, dst |-> n])
  BY <1>1 DEF CopiedChild
<1>3. PICK h, m, new : h = Len(copying) /\ m = Len(children[b]) /\ new = [src |-> child, dst |-> n]
  OBVIOUS
<1>4. /\ h \in Nat \ {0} /\ DOMAIN copying = 1 .. h /\ Top = copying[h]
      /\ DOMAIN copying' = 1 .. h + 1
      /\ \A k \in 1 .. h : copying'[k] = copying[k]
      /\ copying'[h + 1] = new
      /\ 1 \in 1 .. h /\ h \in 1 .. h
      /\ \A k \in 1 .. h + 1 : k \in 1 .. h \/ k = h + 1
      /\ \A k \in 1 .. h : k \in 1 .. h + 1
      /\ h + 1 \in 1 .. h + 1
  <2>1. copying \in Seq([src : Index, dst : Index]) /\ h \in Nat \ {0} /\ Top = copying[h]
    BY <1>0, <1>3, TopFrame DEF TreeInv, CopyFrames
  <2>2. new \in [src : Index, dst : Index]
    BY <1>2, <1>3, IndexTypes
  <2>3. copying' = Append(copying, new)
    BY <1>2, <1>3
  <2> QED
    BY <1>3, <2>1, <2>2, <2>3
<1>5. PICK D \in SUBSET Live : \E f \in [D -> Live] : CopyOf(D, f)
  BY <1>0 DEF CopyMade
<1>6. PICK f \in [D -> Live] : CopyOf(D, f)
  BY <1>5
<1>7. PICK s, t : s = copying[1].src /\ t = copying[1].dst
  OBVIOUS
<1>8. /\ s \in D /\ s \in Live /\ t \in Live /\ f[s] = t /\ s # t
      /\ comp[s].parent = comp[t].parent
      /\ D \subseteq Subtree(s)
      /\ \A i \in D : f[i] \in Subtree(t)
      /\ comp[s].parent \notin Subtree(s) /\ comp[t].parent \notin Subtree(t)
      /\ \A i \in D \ {s} : comp[i].parent \in D /\ comp[f[i]].parent = f[comp[i].parent]
      /\ \A i \in D : f[i] \notin D
  BY <1>0, <1>6, <1>7, CopyShape
<1>9. /\ \A i, j \in D : f[i] = f[j] => i = j
      /\ \A i \in D : comp[f[i]].type = comp[i].type
      /\ \A i \in D :
           /\ Len(children[f[i]]) <= Len(children[i])
           /\ \A k \in DOMAIN children[f[i]] :
                children[i][k] \in D /\ children[f[i]][k] = f[children[i][k]]
           /\ Len(children[f[i]]) = Len(children[i]) \/ \E k \in 1 .. h : copying[k].src = i
      /\ \A k \in 1 .. h : copying[k].src \in D /\ f[copying[k].src] = copying[k].dst
  BY <1>4, <1>6 DEF CopyOf
<1>10. a \in D /\ f[a] = b
  BY <1>2, <1>4, <1>9
<1>11. \A i \in Live : children[i] \in Seq(Index) /\ Len(children[i]) \in Nat /\ DOMAIN children[i] = 1 .. Len(children[i])
  <2>1. \A i \in Live : children[i] \in Seq(Index)
    BY IndexTypes DEF TreeInv, TreeTypes
  <2> QED
    BY <2>1
<1>12. m \in Nat /\ DOMAIN children[b] = 1 .. m /\ m + 1 \in DOMAIN children[a] /\ \A k \in 1 .. m : k \in DOMAIN children[a]
  BY <1>2, <1>3, <1>11
<1>13. child # s /\ child # t
  BY <1>2, <1>8, <1>10
<1>14. child \notin D
  <2> SUFFICES ASSUME child \in D PROVE FALSE
    OBVIOUS
  <2>1. comp[f[child]].parent = b /\ f[child] \in Live
    BY <1>2, <1>8, <1>10, <1>13
  <2>2. In(children[b], f[child])
    BY <1>2, <2>1 DEF TreeInv, LinksAgree
  <2>3. PICK k \in 1 .. m : children[b][k] = f[child]
    BY <1>12, <2>2 DEF In
  <2>4. children[a][k] \in D /\ f[children[a][k]] = f[child]
    BY <1>9, <1>10, <1>12, <2>3
  <2>5. children[a][k] = children[a][m + 1]
    BY <1>2, <1>3, <1>9, <2>4
  <2>6. k = m + 1
    BY <1>2, <1>12, <2>5 DEF TreeInv, LinksAgree, NoRepeat
  <2> QED
    BY <1>12, <2>6
<1>15. \A i \in D : f[i] # child
  <2> SUFFICES ASSUME NEW i \in D, f[i] = child PROVE FALSE
    OBVIOUS
  <2>1. i # s
    BY <1>8, <1>13
  <2>2. f[comp[i].parent] = a /\ comp[i].parent \in D
    BY <1>2, <1>8, <2>1
  <2> QED
    BY <1>8, <1>10, <2>2
<1>16. PICK E, g : E = D \cup {child} /\ g = [x \in E |-> IF x = child THEN n ELSE f[x]]
  OBVIOUS
<1>17. /\ E \in SUBSET Live' /\ g \in [E -> Live'] /\ g[child] = n
       /\ \A i \in D : i # child /\ g[i] = f[i] /\ i \in E /\ i \in Live /\ f[i] \in Live /\ i # n /\ f[i] # n /\ i # b
       /\ \A i \in E : i \in D \/ i = child
       /\ child \in E /\ child # n
  BY <1>2, <1>8, <1>10, <1>14, <1>16
<1>18. copying'[1].src = s /\ copying'[1].dst = t
  BY <1>4, <1>7
<1>19. \A i, j \in E : g[i] = g[j] => i = j
  BY <1>9, <1>17
<1>20. \A i, j \in E : g[i] # j
  BY <1>8, <1>15, <1>17
<1>21. \A i \in E : comp'[g[i]].type = comp'[i].type
  BY <1>2, <1>9, <1>17
<1>22. \A i \in E \ {s} : comp'[i].parent \in E /\ comp'[g[i]].parent = g[comp'[i].parent]
  <2> TAKE i \in E \ {s}
  <2>1. CASE i = child
    BY <1>2, <1>10, <1>17, <2>1
  <2>2. CASE i \in D
    BY <1>2, <1>8, <1>17, <2>2
  <2> QED
    BY <1>17, <2>1, <2>2
<1>23. ASSUME NEW i \in E
       PROVE  /\ Len(children'[g[i]]) <= Len(children'[i])
              /\ \A k \in DOMAIN children'[g[i]] :
                    children'[i][k] \in E /\ children'[g[i]][k] = g[children'[i][k]]
              /\ Len(children'[g[i]]) = Len(children'[i]) \/ \E k \in 1 .. h + 1 : copying'[k].src = i
  <2>1. CASE i = child
    <3>1. g[i] = n /\ Len(children'[n]) = 0 /\ DOMAIN children'[n] = {}
      BY <1>2, <1>17, <2>1
    <3>2. Len(children'[child]) \in Nat
      <4>1. TreeInv'
        BY CopyChildTree
      <4>2. children'[child] \in Seq(Index)
        BY <1>2, <4>1, IndexTypes DEF TreeInv, TreeTypes
      <4> QED
        BY <4>2
    <3>3. copying'[h + 1].src = i
      BY <1>3, <1>4, <2>1
    <3> QED
      BY <1>4, <2>1, <3>1, <3>2, <3>3
  <2>2. CASE i \in D /\ i # a
    <3>1. f[i] # b
      BY <1>9, <1>10, <2>2
    <3>2. g[i] = f[i] /\ children'[f[i]] = children[f[i]] /\ children'[i] = children[i]
      BY <1>2, <1>17, <2>2, <3>1
    <3>3. \A k \in DOMAIN children[f[i]] : children[i][k] \in E /\ children[f[i]][k] = g[children[i][k]]
      BY <1>9, <1>17, <2>2
    <3>4. Len(children[f[i]]) = Len(children[i]) \/ \E k \in 1 .. h + 1 : copying'[k].src = i
      BY <1>4, <1>9, <2>2
    <3> QED
      BY <1>9, <2>2, <3>2, <3>3, <3>4
  <2>3. CASE i = a
    <3>1. g[i] = b /\ children'[a] = children[a]
      BY <1>2, <1>10, <1>17, <2>3
    <3>2. PICK list : list = children'[b]
      OBVIOUS
    <3>3. /\ Len(list) = m + 1 /\ DOMAIN list = 1 .. m + 1
          /\ \A k \in 1 .. m : list[k] = children[b][k]
          /\ list[m + 1] = n
      BY <1>2, <1>3, <3>2
    <3>4. m + 1 <= Len(children[a])
      BY <1>2, <1>3, <1>11, <1>12
    <3>5. \A k \in 1 .. m : children[a][k] \in E /\ list[k] = g[children[a][k]]
      BY <1>9, <1>10, <1>12, <1>17, <3>3
    <3>6. children[a][m + 1] \in E /\ list[m + 1] = g[children[a][m + 1]]
      BY <1>2, <1>3, <1>17, <3>3
    <3>7. \A k \in 1 .. m + 1 : k \in 1 .. m \/ k = m + 1
      BY <1>12
    <3>8. copying'[h].src = a
      BY <1>2, <1>4
    <3> QED
      BY <1>4, <2>3, <3>1, <3>2, <3>3, <3>4, <3>5, <3>6, <3>7, <3>8
  <2> QED
    BY <1>17, <2>1, <2>2, <2>3
<1>24. \A k \in 1 .. h + 1 : copying'[k].src \in E /\ g[copying'[k].src] = copying'[k].dst
  <2> TAKE k \in 1 .. h + 1
  <2>1. CASE k = h + 1
    BY <1>3, <1>4, <1>17, <2>1
  <2>2. CASE k \in 1 .. h
    BY <1>4, <1>9, <1>17, <2>2
  <2> QED
    BY <1>4, <2>1, <2>2
<1>25. s \in E /\ g[s] = t
  BY <1>8, <1>17
<1>26. CopyOf(E, g)'
  BY <1>4, <1>18, <1>19, <1>20, <1>21, <1>22, <1>23, <1>24, <1>25 DEF CopyOf
<1>27. CopyMade'
  BY <1>17, <1>26 DEF CopyMade
<1>28. CopyUnplaced'
  <2>1. PICK p : p = comp[t].parent
    OBVIOUS
  <2>2. p # b
    BY <1>8, <1>10, <2>1
  <2>3. p \in Live \cup {Root}
    BY <1>0, <1>8, <2>1 DEF TreeInv, ParentsLive
  <2>4. children'[p] = children[p] /\ comp'[t].parent = p
    BY <1>2, <1>8, <2>1, <2>2, <2>3
  <2> QED
    BY <1>0, <1>7, <1>18, <2>1, <2>4 DEF CopyUnplaced
<1> QED
  BY <1>27, <1>28

\* The next frame is a child of the one above it.
LEMMA DescendBelow == ASSUME TreeInv, DoomedBelow, Descend PROVE DoomedBelow'
<1>1. PICK n, top : n = Len(doomed) /\ top = doomed[n]
  OBVIOUS
<1>2. op = "freeing" /\ op' = "freeing" /\ UNCHANGED <<comp, children>>
  BY DEF Descend, treeVars
<1>3. PICK k \in DOMAIN children[top] : children[top][k] \in Live /\ doomed' = Append(doomed, children[top][k])
  BY <1>1 DEF Descend
<1>4. PICK x : x = children[top][k]
  OBVIOUS
<1>5. n \in Nat \ {0} /\ DOMAIN doomed = 1 .. n /\ n \in DOMAIN doomed /\ top \in Live
  BY <1>1, <1>2, LastDoomed DEF TreeInv
<1>6. x \in Live /\ comp[x].parent = top
  BY <1>3, <1>4, <1>5, IndexTypes DEF TreeInv, LinksAgree, In
<1>7. doomed \in Seq(Index)
  BY <1>2 DEF TreeInv, DoomedChain
<1>8. /\ DOMAIN doomed' = 1 .. n + 1 /\ doomed'[n + 1] = x
      /\ \A j \in 1 .. n : doomed'[j] = doomed[j]
      /\ \A j \in 1 .. n + 1 : j \in 1 .. n \/ j = n + 1
      /\ 1 \in 1 .. n
  BY <1>1, <1>3, <1>4, <1>5, <1>6, <1>7, IndexTypes
<1>9. PICK d : d = doomed[1]
  OBVIOUS
<1>10. d \in Live /\ \A j \in 1 .. n : doomed[j] \in Subtree(d)
  BY <1>2, <1>5, <1>8, <1>9 DEF TreeInv, DoomedChain, DoomedBelow
<1>11. x \in Subtree(d)
  BY <1>1, <1>5, <1>6, <1>10, SubtreeIs
<1>12. Subtree(d)' = Subtree(d) /\ doomed'[1] = d
  BY <1>2, <1>8, <1>9 DEF Subtree, Live
<1>13. \A j \in 1 .. n + 1 : doomed'[j] \in Subtree(d)
  BY <1>8, <1>10, <1>11
<1> QED
  BY <1>2, <1>8, <1>9, <1>12, <1>13 DEF DoomedBelow

\* Freeing a leaf takes it out of the subtree and nothing else.
LEMMA FreedSubtree ==
    ASSUME IDInv, TreeInv, TreeInv', NEW i, NEW n, Freed(i, n), NEW d, d \in Live, d # i
    PROVE  d \in Live' /\ Subtree(d)' = Subtree(d) \ {i}
<1>1. /\ i \in Live /\ Live' = Live \ {i}
      /\ \A j \in Live : comp[j].parent # i
      /\ \A k \in Live' : comp'[k] = comp[k]
  BY DEF Freed
<1>2. PICK U, V : U = Subtree(d) /\ V = Subtree(d)'
  OBVIOUS
<1>3. /\ U \subseteq Live /\ d \in U
      /\ \A k \in Live : comp[k].parent \in U <=> k \in U /\ k # d
  BY <1>2, SubtreeExact DEF TreeInv
<1>4. d \in Live'
  BY <1>1
<1>5. NoCycle'
  BY DEF TreeInv
<1>6. /\ \A X \in SUBSET Live' :
            d \in X /\ (\A k \in Live' : comp'[k].parent \in X => k \in X) => V \subseteq X
      /\ \A X \in SUBSET Live' : (\A k \in X : k # d => comp'[k].parent \in X) => X \subseteq V
  BY <1>2, <1>4, <1>5, SubtreeExactNext
<1>7. PICK X : X = U \ {i}
  OBVIOUS
<1>8. X \in SUBSET Live' /\ d \in X
  BY <1>1, <1>3, <1>7
<1>9. \A k \in Live' : comp'[k].parent \in X => k \in X
  BY <1>1, <1>3, <1>7
<1>10. \A k \in X : k # d => comp'[k].parent \in X
  BY <1>1, <1>3, <1>7
<1>11. V = X
  BY <1>6, <1>8, <1>9, <1>10
<1> QED
  BY <1>2, <1>4, <1>7, <1>11

\* What is left on the stack after a component is freed hangs from the first.
LEMMA FreeBelow == ASSUME IDInv, TreeInv, TreeInv', DoomedBelow, FreeComponent PROVE DoomedBelow'
<1>1. PICK n, i : n = Len(doomed) /\ i = doomed[n]
  OBVIOUS
<1>2. Freed(i, n) /\ op = "freeing"
  BY <1>1, FreeEffect DEF FreeComponent
<1>3. CASE n = 1
  BY <1>2, <1>3 DEF Freed, DoomedBelow
<1>4. CASE n # 1
  <2>1. /\ n \in Nat \ {0} /\ DOMAIN doomed = 1 .. n /\ op' = "freeing" /\ Live' = Live \ {i}
        /\ doomed' = SubSeq(doomed, 1, n - 1)
    BY <1>2, <1>4 DEF Freed
  <2>2. PICK m \in Nat : n = m + 1 /\ m # 0
    <3>1. n - 1 \in Nat /\ n = (n - 1) + 1 /\ n - 1 # 0
      BY <1>4, <2>1
    <3> QED
      BY <3>1
  <2>3. doomed \in Seq(Index) /\ n = m + 1 /\ doomed' = SubSeq(doomed, 1, m)
    BY <1>2, <2>1, <2>2 DEF TreeInv, DoomedChain
  <2>4. DOMAIN doomed' = 1 .. m /\ \A k \in 1 .. m : doomed'[k] = doomed[k]
    BY <1>1, <2>3, InFront
  <2>5. 1 \in 1 .. m /\ \A k \in 1 .. m : k \in 1 .. n
    BY <2>2
  <2>6. PICK d : d = doomed[1]
    OBVIOUS
  <2>7. doomed'[1] = d /\ d \in Live
    BY <1>2, <2>1, <2>4, <2>5, <2>6 DEF TreeInv, DoomedChain
  <2>8. \A k \in 1 .. m : doomed'[k] \in Live'
    BY <2>1, <2>4 DEF TreeInv, DoomedChain
  <2>9. \A k \in 1 .. m : doomed'[k] # i
    BY <2>1, <2>8
  <2>10. Subtree(d)' = Subtree(d) \ {i}
    BY <1>2, <2>5, <2>7, <2>9, FreedSubtree
  <2>11. \A k \in 1 .. m : doomed[k] \in Subtree(d)
    BY <1>2, <2>1, <2>5, <2>6 DEF DoomedBelow
  <2> QED
    BY <2>4, <2>7, <2>9, <2>10, <2>11 DEF DoomedBelow
<1> QED
  BY <1>3, <1>4

\* Cutting the top off its parent leaves the subtree as it is.
LEMMA DetachedSubtree ==
    ASSUME TreeInv, TreeInv', Detach, NEW d, d = doomed[1]
    PROVE  d \in Live /\ Live' = Live /\ Subtree(d)' = Subtree(d)
<1>1. /\ op = "popping"
      /\ comp' = [comp EXCEPT ![d].parent = Adrift]
  BY DEF Detach
<1>2. d \in Live /\ d \in Index
  BY <1>1, LastDoomed, IndexTypes DEF TreeInv, DoomedChain
<1>3. comp \in [Index -> [cuid : ID, type : Types, parent : Index \cup {Root, Adrift}]]
  BY DEF TreeInv, TreeTypes
<1>4. \A k \in Index : /\ comp'[k].cuid = comp[k].cuid
                       /\ comp'[k].parent = IF k = d THEN Adrift ELSE comp[k].parent
  BY <1>1, <1>2, <1>3
<1>5. Live' = Live
  BY <1>4 DEF Live
<1>6. PICK U, V : U = Subtree(d) /\ V = Subtree(d)'
  OBVIOUS
<1>7. /\ U \subseteq Live /\ d \in U
      /\ \A k \in Live : comp[k].parent \in U <=> k \in U /\ k # d
  BY <1>2, <1>6, SubtreeExact DEF TreeInv
<1>8. NoCycle'
  BY DEF TreeInv
<1>9. /\ \A X \in SUBSET Live' :
            d \in X /\ (\A k \in Live' : comp'[k].parent \in X => k \in X) => V \subseteq X
      /\ \A X \in SUBSET Live' : (\A k \in X : k # d => comp'[k].parent \in X) => X \subseteq V
  BY <1>2, <1>5, <1>6, <1>8, SubtreeExactNext
<1>10. \A k \in Live' : comp'[k].parent \in U => k \in U
  BY <1>4, <1>5, <1>7, IndexTypes
<1>11. \A k \in U : k # d => comp'[k].parent \in U
  BY <1>4, <1>7, IndexTypes
<1>12. V = U
  <2>1. U \in SUBSET Live' /\ d \in U
    BY <1>5, <1>7
  <2>2. V \subseteq U
    BY <1>9, <1>10, <2>1
  <2>3. U \subseteq V
    BY <1>9, <1>11, <2>1
  <2> QED
    BY <2>2, <2>3
<1> QED
  BY <1>2, <1>5, <1>6, <1>12

\* The stack starts with the subtree that was detached.
LEMMA DetachBelow == ASSUME TreeInv, TreeInv', Detach PROVE DoomedBelow'
<1>1. PICK d : d = doomed[1]
  OBVIOUS
<1>2. op = "popping" /\ op' = "freeing" /\ doomed' = doomed
  BY DEF Detach
<1>3. d \in Live /\ Subtree(d)' = Subtree(d)
  BY <1>1, DetachedSubtree
<1>4. doomed \in Seq(Index) /\ Len(doomed) = 1
  BY <1>2 DEF TreeInv, DoomedChain
<1>5. \A k \in DOMAIN doomed : k = 1
  BY <1>4
<1>6. d \in Subtree(d)
  BY <1>3, SubtreeIs
<1> QED
  BY <1>1, <1>2, <1>3, <1>5, <1>6 DEF DoomedBelow

\* Every step keeps the invariant.
LEMMA ForestInvStep == IDInv /\ TreeInv /\ TreeInv' /\ ForestInv /\ [Next]_vars => ForestInv'
<1> SUFFICES ASSUME IDInv, TreeInv, TreeInv', ForestInv, [Next]_vars PROVE ForestInv'
  OBVIOUS
<1>1. ASSUME NEW type \in Types, NEW p \in Index \cup {Root}, CreateComponent(type, p) PROVE ForestInv'
  <2>1. op = "none" /\ op' = "none" /\ p \in Live \cup {Root} /\ NewComponent(type, p)
    BY <1>1 DEF CreateComponent, loopVars
  <2>2. LiveIssued'
    BY <2>1, LiveIssuedNew DEF ForestInv
  <2> QED
    BY <2>1, <2>2 DEF ForestInv, CopyMade, CopyUnplaced, DoomedBelow
<1>2. ASSUME NEW i \in Index, DestroyComponentSubtree(i) PROVE ForestInv'
  BY <1>2 DEF ForestInv, CopyMade, CopyUnplaced, DoomedBelow, LiveIssued, DestroyComponentSubtree, treeVars, Live
<1>3. CASE PopTransform
  BY <1>3 DEF ForestInv, CopyMade, CopyUnplaced, DoomedBelow, LiveIssued, PopTransform, treeVars, Live
<1>4. CASE Detach
  <2>1. op = "popping" /\ op' = "freeing" /\ issued' = issued
        /\ comp' = [comp EXCEPT ![doomed[1]].parent = Adrift]
    BY <1>4 DEF Detach
  <2>2. comp \in [Index -> [cuid : ID, type : Types, parent : Index \cup {Root, Adrift}]]
    BY DEF TreeInv, TreeTypes
  <2>3. \A k \in Index : comp'[k].cuid = comp[k].cuid
    BY <2>1, <2>2
  <2>4. LiveIssued'
    BY <2>1, <2>3 DEF ForestInv, LiveIssued, Live
  <2>5. DoomedBelow'
    BY <1>4, DetachBelow
  <2> QED
    BY <2>1, <2>4, <2>5 DEF ForestInv, CopyMade, CopyUnplaced
<1>5. CASE Descend
  <2>1. op' = "freeing" /\ UNCHANGED <<comp, issued>>
    BY <1>5 DEF Descend, treeVars
  <2>2. DoomedBelow'
    BY <1>5, DescendBelow DEF ForestInv
  <2> QED
    BY <2>1, <2>2 DEF ForestInv, CopyMade, CopyUnplaced, LiveIssued, Live
<1>6. CASE FreeComponent
  <2>1. PICK i, n : n = Len(doomed) /\ i = doomed[n]
    OBVIOUS
  <2>2. Freed(i, n) /\ issued' = issued
    BY <1>6, <2>1, FreeEffect DEF FreeComponent
  <2>3. Live' \subseteq Live /\ op' # "cloning" /\ \A k \in Live' : comp'[k].cuid = comp[k].cuid
    BY <2>2 DEF Freed
  <2>4. LiveIssued'
    BY <2>2, <2>3, LiveIssuedKept DEF ForestInv
  <2>5. DoomedBelow'
    BY <1>6, FreeBelow DEF ForestInv
  <2> QED
    BY <2>3, <2>4, <2>5 DEF ForestInv, CopyMade, CopyUnplaced
<1>7. ASSUME NEW i \in Index, NEW p \in Index, ReparentComponentSubtree(i, p) PROVE ForestInv'
  <2>1. op' \in {"none", "moving"} /\ issued' = issued /\ comp' = [comp EXCEPT ![i].parent = p]
    BY <1>7 DEF ReparentComponentSubtree
  <2>2. comp \in [Index -> [cuid : ID, type : Types, parent : Index \cup {Root, Adrift}]]
    BY DEF TreeInv, TreeTypes
  <2>3. \A k \in Index : comp'[k].cuid = comp[k].cuid
    BY <2>1, <2>2
  <2>4. LiveIssued'
    BY <2>1, <2>3 DEF ForestInv, LiveIssued, Live
  <2> QED
    BY <2>1, <2>4 DEF ForestInv, CopyMade, CopyUnplaced, DoomedBelow
<1>8. CASE MoveTransformStep
  BY <1>8 DEF ForestInv, CopyMade, CopyUnplaced, DoomedBelow, LiveIssued, MoveTransformStep, treeVars, Live
<1>9. ASSUME NEW i \in Index, CloneComponentSubtree(i) PROVE ForestInv'
  <2>1. op' = "cloning" /\ i \in Live /\ op = "none" /\ NewComponent(comp[i].type, comp[i].parent)
    BY <1>9 DEF CloneComponentSubtree
  <2>2. comp[i].type \in Types /\ comp[i].parent \in Live \cup {Root}
    BY <2>1 DEF TreeInv, TreeTypes, ParentsLive
  <2>3. LiveIssued'
    BY <2>1, <2>2, LiveIssuedNew DEF ForestInv
  <2> QED
    BY <1>9, <2>1, <2>3, CloneCopy DEF ForestInv, DoomedBelow
<1>10. CASE CopyChild
  <2>1. PICK child, a, b, n : CopiedChild(child, a, b, n)
    BY <1>10, CopyChildEffect
  <2>2. /\ Live' = Live \cup {n} /\ issued' = issued \cup {NextID} /\ comp'[n].cuid = NextID
        /\ \A k \in Live : comp'[k] = comp[k]
    BY <2>1 DEF CopiedChild
  <2>3. LiveIssued'
    BY <2>2 DEF ForestInv, LiveIssued
  <2>4. op' = "cloning"
    BY <1>10 DEF CopyChild
  <2> QED
    BY <1>10, <2>3, <2>4, CopyChildCopy DEF ForestInv, DoomedBelow
<1>11. CASE CopyReturns
  <2>1. op' = "cloning" /\ UNCHANGED <<comp, issued>>
    BY <1>11 DEF CopyReturns, treeVars
  <2>2. CopyMade' /\ CopyUnplaced'
    BY <1>11, CopyReturnsCopy DEF ForestInv
  <2> QED
    BY <2>1, <2>2 DEF ForestInv, DoomedBelow, LiveIssued, Live
<1>12. CASE PlaceClone
  BY <1>12 DEF ForestInv, CopyMade, CopyUnplaced, DoomedBelow, LiveIssued, PlaceClone, Live
<1>13. CASE UNCHANGED vars
  BY <1>13 DEF ForestInv, CopyMade, CopyUnplaced, DoomedBelow, LiveIssued, vars, idVars, treeVars, loopVars,
               Live, Subtree, CopyOf
<1> QED
  BY <1>1, <1>2, <1>3, <1>4, <1>5, <1>6, <1>7, <1>8, <1>9, <1>10, <1>11, <1>12, <1>13 DEF Next

\* How many of the children of i are shown.
ShownCount(i) == Len(children[i]) - (IF op = "cloning" /\ comp[copying[1].dst].parent = i THEN 1 ELSE 0)

\* An identifier is the name of one component, and of none that of the root.
Named ==
    /\ \A i \in Live \cup {Root} : ComponentOf(IDOf(i)) = i
    /\ \A i \in Live : /\ IDOf(i) = comp[i].cuid /\ comp[i].cuid.index = i
                       /\ comp[i].cuid \in ID /\ comp[i].cuid # NoID
    /\ IDOf(Root) = NoID

\* Identifiers name, before a step,
LEMMA NamedNow == IDInv /\ TreeInv => Named
<1> SUFFICES ASSUME IDInv, TreeInv PROVE Named
  OBVIOUS
<1>1. \A i \in Live : IDOf(i) = comp[i].cuid /\ comp[i].cuid.index = i /\ comp[i].cuid \in ID
  BY LiveNamed
<1>2. \A i \in Live : comp[i].cuid # NoID
  BY DEF Live
<1> QED
  BY <1>1, <1>2 DEF Named, ComponentOf, IDOf

\* and after it.
LEMMA NamedNext == IDInv' /\ TreeInv' => Named'
BY NamedNow, PTL

\* The components that are shown, with parents and children that are shown too.
ShownLinks ==
    /\ Visible \subseteq Live
    /\ \A i \in Visible : comp[i].parent \in Visible \cup {Root}
    /\ \A i \in Visible \cup {Root} :
         /\ children[i] \in Seq(Index) /\ ShownCount(i) \in Nat /\ ShownCount(i) <= Len(children[i])
         /\ ChildIDs(i) = [k \in 1 .. ShownCount(i) |-> IDOf(children[i][k])]
         /\ \A k \in 1 .. ShownCount(i) :
              k \in DOMAIN children[i] /\ children[i][k] \in Visible /\ comp[children[i][k]].parent = i

\* What is shown hangs together, before a step,
LEMMA ShownLinksNow == TreeInv /\ ForestInv => ShownLinks
<1> SUFFICES ASSUME TreeInv, ForestInv PROVE ShownLinks
  OBVIOUS
<1>1. Visible \subseteq Live
  BY DEF Visible
<1>2. /\ comp \in [Index -> [cuid : ID, type : Types, parent : Index \cup {Root, Adrift}]]
      /\ children \in [Index \cup {Root} -> Seq(Index)]
  BY DEF TreeInv, TreeTypes
<1>3. \A i \in Visible \cup {Root} : i \in Index \cup {Root} /\ i \in Live \cup {Root} /\ children[i] \in Seq(Index)
  BY <1>1, <1>2, IndexTypes
<1>4. \A i \in Visible \cup {Root} : ChildIDs(i) = [k \in 1 .. ShownCount(i) |-> IDOf(children[i][k])]
  BY DEF ChildIDs, ShownCount
<1>5. CASE op \notin {"freeing", "cloning"}
  <2>1. Visible = Live
    BY <1>5 DEF Visible, Hidden
  <2>2. \A i \in Live : comp[i].parent \in Live \cup {Root}
    BY <1>5 DEF TreeInv, ParentsLive
  <2>3. \A i \in Visible \cup {Root} : Len(children[i]) \in Nat /\ ShownCount(i) = Len(children[i])
    <3> TAKE i \in Visible \cup {Root}
    <3>1. Len(children[i]) \in Nat
      BY <1>3
    <3>2. ShownCount(i) = Len(children[i]) - 0
      BY <1>5 DEF ShownCount
    <3> QED
      BY <3>1, <3>2
  <2>4. \A i \in Visible \cup {Root} : \A k \in 1 .. Len(children[i]) :
           k \in DOMAIN children[i] /\ children[i][k] \in Live /\ comp[children[i][k]].parent = i
    <3> TAKE i \in Visible \cup {Root}
    <3> TAKE k \in 1 .. Len(children[i])
    <3>1. PICK x : x = children[i][k]
      OBVIOUS
    <3>2. k \in DOMAIN children[i] /\ In(children[i], x) /\ x \in Index
      BY <1>3, <3>1 DEF In
    <3>3. x \in Live /\ comp[x].parent = i
      BY <1>3, <1>5, <3>2 DEF TreeInv, LinksAgree
    <3> QED
      BY <3>1, <3>2, <3>3
  <2>5. ASSUME NEW i \in Visible \cup {Root}
        PROVE  /\ children[i] \in Seq(Index) /\ ShownCount(i) \in Nat /\ ShownCount(i) <= Len(children[i])
               /\ \A k \in 1 .. ShownCount(i) :
                    k \in DOMAIN children[i] /\ children[i][k] \in Visible /\ comp[children[i][k]].parent = i
    <3>1. Len(children[i]) \in Nat /\ ShownCount(i) = Len(children[i])
      BY <2>3
    <3>2. ShownCount(i) \in Nat /\ ShownCount(i) <= Len(children[i])
      BY <3>1
    <3>3. \A k \in 1 .. ShownCount(i) :
            k \in DOMAIN children[i] /\ children[i][k] \in Visible /\ comp[children[i][k]].parent = i
      BY <2>1, <2>4, <3>1
    <3> QED
      BY <1>3, <3>2, <3>3
  <2> QED
    BY <1>1, <1>4, <2>1, <2>2, <2>5 DEF ShownLinks
<1>6. CASE op = "freeing"
  <2>1. PICK d, U : d = doomed[1] /\ U = Subtree(d)
    OBVIOUS
  <2>2. Visible = Live \ U /\ d \in Live
    <3>1. /\ 1 \in DOMAIN doomed
      BY <1>6, LastDoomed DEF TreeInv
    <3> QED
      BY <1>6, <2>1, <3>1 DEF Visible, Hidden, TreeInv, DoomedChain
  <2>3. /\ U \subseteq Live /\ d \in U
        /\ \A k \in Live : comp[k].parent \in U <=> k \in U /\ k # d
    BY <2>1, <2>2, SubtreeExact DEF TreeInv
  <2>4. comp[d].parent = Adrift /\ \A i \in Live : i # d => comp[i].parent \in Live \cup {Root}
    BY <1>6, <2>1 DEF TreeInv, ParentsLive, DoomedChain
  <2>5. \A i \in Visible : comp[i].parent \in Visible \cup {Root}
    BY <2>2, <2>3, <2>4
  <2>6. \A i \in Visible \cup {Root} : Len(children[i]) \in Nat /\ ShownCount(i) = Len(children[i])
    <3> TAKE i \in Visible \cup {Root}
    <3>1. Len(children[i]) \in Nat
      BY <1>3
    <3>2. ShownCount(i) = Len(children[i]) - 0
      BY <1>6 DEF ShownCount
    <3> QED
      BY <3>1, <3>2
  <2>7. \A i \in Visible \cup {Root} : ~In(doomed, i) /\ i \notin U /\ i # Adrift
    <3>1. \A k \in DOMAIN doomed : doomed[k] \in U /\ doomed[k] # Root
      BY <1>6, <2>1, <2>3, IndexTypes DEF ForestInv, DoomedBelow
    <3> QED
      BY <2>2, <2>3, <3>1, IndexTypes DEF In
  <2>8. \A i \in Visible \cup {Root} : \A k \in 1 .. Len(children[i]) :
           k \in DOMAIN children[i] /\ children[i][k] \in Visible /\ comp[children[i][k]].parent = i
    <3> TAKE i \in Visible \cup {Root}
    <3> TAKE k \in 1 .. Len(children[i])
    <3>1. PICK x : x = children[i][k]
      OBVIOUS
    <3>2. k \in DOMAIN children[i] /\ In(children[i], x) /\ x \in Index
      BY <1>3, <3>1 DEF In
    <3>3. x \in Live /\ comp[x].parent = i
      BY <1>3, <2>7, <3>2 DEF TreeInv, LinksAgree
    <3>4. x \notin U
      BY <2>3, <2>4, <2>7, <3>3
    <3> QED
      BY <2>2, <3>1, <3>2, <3>3, <3>4
  <2>9. ASSUME NEW i \in Visible \cup {Root}
        PROVE  /\ children[i] \in Seq(Index) /\ ShownCount(i) \in Nat /\ ShownCount(i) <= Len(children[i])
               /\ \A k \in 1 .. ShownCount(i) :
                    k \in DOMAIN children[i] /\ children[i][k] \in Visible /\ comp[children[i][k]].parent = i
    <3>1. Len(children[i]) \in Nat /\ ShownCount(i) = Len(children[i])
      BY <2>6
    <3>2. ShownCount(i) \in Nat /\ ShownCount(i) <= Len(children[i])
      BY <3>1
    <3>3. \A k \in 1 .. ShownCount(i) :
            k \in DOMAIN children[i] /\ children[i][k] \in Visible /\ comp[children[i][k]].parent = i
      BY <2>8, <3>1
    <3> QED
      BY <1>3, <3>2, <3>3
  <2> QED
    BY <1>1, <1>4, <2>5, <2>9 DEF ShownLinks
<1>7. CASE op = "cloning"
  <2>1. PICK t, U, p : t = copying[1].dst /\ U = Subtree(t) /\ p = comp[t].parent
    OBVIOUS
  <2>2. PICK D \in SUBSET Live : \E f \in [D -> Live] : CopyOf(D, f)
    BY <1>7 DEF ForestInv, CopyMade
  <2>3. t \in Live
    BY <1>7, <2>1, <2>2, CopyShape
  <2>4. Visible = Live \ U
    BY <1>7, <2>1 DEF Visible, Hidden
  <2>5. /\ U \subseteq Live /\ t \in U
        /\ \A k \in Live : comp[k].parent \in U <=> k \in U /\ k # t
    BY <2>1, <2>3, SubtreeExact DEF TreeInv
  <2>6. \A i \in Live : comp[i].parent \in Live \cup {Root}
    BY <1>7 DEF TreeInv, ParentsLive
  <2>7. \A i \in Visible : comp[i].parent \in Visible \cup {Root}
    BY <2>4, <2>5, <2>6
  <2>8. CopyLast(children[p], t)
    BY <1>7, <2>1 DEF ForestInv, CopyUnplaced
  <2>9. ASSUME NEW i \in Visible \cup {Root}
        PROVE  /\ ShownCount(i) \in Nat /\ ShownCount(i) <= Len(children[i])
               /\ \A k \in 1 .. ShownCount(i) :
                    k \in DOMAIN children[i] /\ children[i][k] \in Visible /\ comp[children[i][k]].parent = i
    <3>1. PICK c : c = children[i]
      OBVIOUS
    <3>2. c \in Seq(Index) /\ Len(c) \in Nat /\ DOMAIN c = 1 .. Len(c)
      BY <1>3, <3>1
    <3>3. ASSUME NEW k \in 1 .. Len(c), c[k] # t
          PROVE  c[k] \in Visible /\ comp[c[k]].parent = i
      <4>1. PICK x : x = c[k]
        OBVIOUS
      <4>2. In(c, x) /\ x \in Index
        BY <3>2, <4>1 DEF In
      <4>3. x \in Live /\ comp[x].parent = i
        BY <1>3, <1>7, <3>1, <4>2 DEF TreeInv, LinksAgree
      <4>4. i \notin U
        BY <2>4, <2>5, IndexTypes
      <4> QED
        BY <2>4, <2>5, <3>3, <4>1, <4>3, <4>4
    <3>4. CASE i = p
      <4>1. c # <<>> /\ c[Len(c)] = t
        BY <2>8, <3>1, <3>4 DEF CopyLast
      <4>2. ShownCount(i) = Len(c) - 1
        BY <1>7, <2>1, <3>1, <3>4 DEF ShownCount
      <4>3. Len(c) - 1 \in Nat /\ Len(c) - 1 <= Len(c) /\ Len(c) \in 1 .. Len(c)
        BY <3>2, <4>1
      <4>4. \A k \in 1 .. Len(c) - 1 : k \in 1 .. Len(c) /\ k # Len(c)
        <5>1. PICK h \in Nat : h = Len(c)
          BY <3>2
        <5>2. \A k \in 1 .. h - 1 : k \in 1 .. h /\ k # h
          OBVIOUS
        <5> QED
          BY <5>1, <5>2
      <4>5. NoRepeat(c)
        BY <1>3, <3>1 DEF TreeInv, LinksAgree
      <4>6. \A k \in 1 .. Len(c) - 1 : c[k] # t
        BY <3>2, <4>1, <4>3, <4>4, <4>5 DEF NoRepeat
      <4> QED
        BY <3>1, <3>2, <3>3, <4>2, <4>3, <4>4, <4>6
    <3>5. CASE i # p
      <4>1. ShownCount(i) = Len(c)
        <5>1. ShownCount(i) = Len(c) - 0
          BY <2>1, <3>1, <3>5 DEF ShownCount
        <5> QED
          BY <3>2, <5>1
      <4>2. \A k \in 1 .. Len(c) : c[k] # t
        <5> SUFFICES ASSUME NEW k \in 1 .. Len(c), c[k] = t PROVE FALSE
          OBVIOUS
        <5>1. In(children[i], t)
          BY <3>1, <3>2 DEF In
        <5> QED
          BY <1>3, <2>1, <2>3, <3>5, <5>1 DEF TreeInv, LinksAgree
      <4> QED
        BY <3>1, <3>2, <3>3, <4>1, <4>2
    <3> QED
      BY <3>4, <3>5
  <2> QED
    BY <1>1, <1>3, <1>4, <2>7, <2>9 DEF ShownLinks
<1> QED
  BY <1>5, <1>6, <1>7

\* and after it.
LEMMA ShownLinksNext == TreeInv' /\ ForestInv' => ShownLinks'
BY ShownLinksNow, PTL
-----------------------------------------------------------------------------
\* f is a function, so it is known by its domain and its values.
IsFunction(f) == f = [x \in DOMAIN f |-> f[x]]

\* Functions with the same domain and values are the same.
LEMMA SameFunction ==
    ASSUME NEW f, NEW g, IsFunction(f), IsFunction(g), DOMAIN f = DOMAIN g, \A x \in DOMAIN f : f[x] = g[x]
    PROVE  f = g
BY DEF IsFunction

\* The forest that is shown, component by component.
ShownPoints ==
    /\ IsFunction(ShownParent) /\ IsFunction(ShownType) /\ IsFunction(ShownKids)
    /\ DOMAIN ShownParent = IDsOf(Visible) /\ DOMAIN ShownType = IDsOf(Visible)
    /\ DOMAIN ShownKids = IDsOf(Visible) \cup {NoID}
    /\ \A i \in Visible : /\ comp[i].cuid \in IDsOf(Visible)
                          /\ ShownParent[comp[i].cuid] = IDOf(comp[i].parent)
                          /\ ShownType[comp[i].cuid] = comp[i].type
    /\ \A i \in Visible \cup {Root} : ShownKids[IDOf(i)] = ChildIDs(i)
    /\ \A x \in IDsOf(Visible) : \E i \in Visible : x = comp[i].cuid

\* The mapping read component by component, before a step,
LEMMA ShownPointsNow == Named /\ Visible \subseteq Live => ShownPoints
<1> SUFFICES ASSUME Named, Visible \subseteq Live PROVE ShownPoints
  OBVIOUS
<1>1. IsFunction(ShownParent) /\ IsFunction(ShownType) /\ IsFunction(ShownKids)
  BY DEF IsFunction, ShownParent, ShownType, ShownKids
<1>2. /\ DOMAIN ShownParent = IDsOf(Visible) /\ DOMAIN ShownType = IDsOf(Visible)
      /\ DOMAIN ShownKids = IDsOf(Visible) \cup {NoID}
  BY DEF ShownParent, ShownType, ShownKids
<1>3. \A i \in Visible : comp[i].cuid \in IDsOf(Visible)
  BY DEF IDsOf
<1>4. \A i \in Visible : comp[i].cuid.index = i /\ IDOf(i) = comp[i].cuid
  BY DEF Named
<1>5. \A i \in Visible : ShownParent[comp[i].cuid] = IDOf(comp[i].parent) /\ ShownType[comp[i].cuid] = comp[i].type
  BY <1>3, <1>4 DEF ShownParent, ShownType
<1>6. \A i \in Visible \cup {Root} : ShownKids[IDOf(i)] = ChildIDs(i)
  <2> TAKE i \in Visible \cup {Root}
  <2>1. ComponentOf(IDOf(i)) = i
    BY DEF Named
  <2>2. IDOf(i) \in IDsOf(Visible) \cup {NoID}
    BY <1>3, <1>4 DEF Named
  <2> QED
    BY <2>1, <2>2 DEF ShownKids
<1>7. \A x \in IDsOf(Visible) : \E i \in Visible : x = comp[i].cuid
  BY DEF IDsOf
<1> QED
  BY <1>1, <1>2, <1>3, <1>5, <1>6, <1>7 DEF ShownPoints

\* and after it.
LEMMA ShownPointsNext == Named' /\ (Visible \subseteq Live)' => ShownPoints'
BY ShownPointsNow, PTL

\* What is known of the forest before and after a step.
ShownKnown == ShownLinks /\ ShownPoints /\ Named

\* All of this follows from the invariants, before a step,
LEMMA ShownKnownNow == IDInv /\ TreeInv /\ ForestInv => ShownKnown
BY ShownLinksNow, NamedNow, ShownPointsNow DEF ShownKnown, ShownLinks

\* and after it.
LEMMA ShownKnownNext == IDInv' /\ TreeInv' /\ ForestInv' => ShownKnown'
BY ShownKnownNow, PTL

\* The identifiers of components that do not change.
LEMMA SameIDs ==
    ASSUME NEW X, \A i \in X : comp'[i].cuid = comp[i].cuid
    PROVE  IDsOf(X)' = IDsOf(X)
BY DEF IDsOf

\* A step that changes nothing of what is shown.
LEMMA SameForest ==
    ASSUME ShownKnown, ShownKnown', Visible' = Visible, ShownUsed' = ShownUsed,
           \A i \in Visible : comp'[i] = comp[i],
           \A i \in Visible \cup {Root} : ShownCount(i)' = ShownCount(i),
           \A i \in Visible \cup {Root} : \A k \in 1 .. ShownCount(i) : children'[i][k] = children[i][k]
    PROVE  UNCHANGED <<ShownParent, ShownType, ShownKids, ShownUsed>>
<1>1. IDsOf(Visible)' = IDsOf(Visible)
  <2>1. PICK V : V = Visible
    OBVIOUS
  <2>2. IDsOf(V)' = IDsOf(V)
    BY <2>1, SameIDs
  <2> QED
    BY <2>1, <2>2 DEF IDsOf
<1>2. ShownPoints /\ ShownPoints' /\ Named /\ Named' /\ ShownLinks /\ ShownLinks'
  BY DEF ShownKnown
<1>3. \A i \in Visible \cup {Root} : IDOf(i)' = IDOf(i)
  BY DEF IDOf
<1>4. \A i \in Visible : IDOf(comp[i].parent)' = IDOf(comp[i].parent)
  BY <1>2 DEF IDOf, ShownLinks
<1>5. ShownParent' = ShownParent
  <2>1. \A x \in IDsOf(Visible) : ShownParent'[x] = ShownParent[x]
    BY <1>2, <1>4 DEF ShownPoints
  <2> QED
    BY <1>1, <1>2, <2>1, SameFunction DEF ShownPoints
<1>6. ShownType' = ShownType
  <2>1. \A x \in IDsOf(Visible) : ShownType'[x] = ShownType[x]
    BY <1>2 DEF ShownPoints
  <2> QED
    BY <1>1, <1>2, <2>1, SameFunction DEF ShownPoints
<1>7. \A i \in Visible \cup {Root} : ChildIDs(i)' = ChildIDs(i)
  <2> TAKE i \in Visible \cup {Root}
  <2>1. PICK n : n = ShownCount(i)
    OBVIOUS
  <2>2. /\ ChildIDs(i) = [k \in 1 .. n |-> IDOf(children[i][k])]
        /\ \A k \in 1 .. n : children[i][k] \in Visible
    BY <1>2, <2>1 DEF ShownLinks
  <2>3. ChildIDs(i)' = [k \in 1 .. n |-> IDOf(children[i][k])']
    BY <1>2, <2>1 DEF ShownLinks
  <2>4. \A k \in 1 .. n : IDOf(children[i][k])' = IDOf(children[i][k])
    BY <2>1, <2>2 DEF IDOf
  <2> QED
    BY <2>2, <2>3, <2>4
<1>8. ShownKids' = ShownKids
  <2>1. \A x \in IDsOf(Visible) \cup {NoID} : ShownKids'[x] = ShownKids[x]
    <3> TAKE x \in IDsOf(Visible) \cup {NoID}
    <3>1. PICK i \in Visible \cup {Root} : x = IDOf(i)
      BY <1>2 DEF ShownPoints, Named, ShownLinks
    <3>2. ShownKids[x] = ChildIDs(i) /\ ShownKids'[x] = ChildIDs(i)'
      BY <1>2, <1>3, <3>1 DEF ShownPoints
    <3> QED
      BY <1>7, <3>2
  <2> QED
    BY <1>1, <1>2, <2>1, SameFunction DEF ShownPoints
<1> QED
  BY <1>5, <1>6, <1>8

Shown == <<ShownParent, ShownType, ShownKids, ShownUsed>>

\* A step that leaves the tree alone and hides the same components.
LEMMA SameTree ==
    ASSUME ShownKnown, ShownKnown', UNCHANGED <<comp, children, issued>>,
           op' = "cloning" <=> op = "cloning", op = "cloning" => copying'[1] = copying[1], Hidden' = Hidden
    PROVE  UNCHANGED Shown
<1>1. Visible' = Visible
  BY DEF Visible, Live
<1>2. HiddenIDs' = HiddenIDs
  BY DEF HiddenIDs, IDsOf
<1>3. ShownUsed' = ShownUsed
  BY <1>2 DEF ShownUsed
<1>4. \A i \in Visible \cup {Root} : ShownCount(i)' = ShownCount(i)
  BY DEF ShownCount
<1> QED
  BY <1>1, <1>3, <1>4, SameForest DEF Shown

\* The steps that only prepare what comes next.
LEMMA QuietSteps ==
    ASSUME ShownKnown, ShownKnown', TreeInv,
           (\E i \in Index : DestroyComponentSubtree(i)) \/ PopTransform \/ Descend \/ MoveTransformStep
             \/ CopyReturns \/ UNCHANGED vars
    PROVE  UNCHANGED Shown
<1>1. ASSUME NEW i \in Index, DestroyComponentSubtree(i) PROVE UNCHANGED Shown
  <2>1. op = "none" /\ op' = "popping" /\ UNCHANGED <<comp, children, issued>>
    BY <1>1 DEF DestroyComponentSubtree, treeVars
  <2> QED
    BY <2>1, SameTree DEF Hidden
<1>2. CASE PopTransform
  <2>1. op = "popping" /\ op' = "popping" /\ UNCHANGED <<comp, children, issued>>
    BY <1>2 DEF PopTransform, treeVars
  <2> QED
    BY <2>1, SameTree DEF Hidden
<1>3. CASE MoveTransformStep
  <2>1. op = "moving" /\ op' \in {"none", "moving"} /\ UNCHANGED <<comp, children, issued>>
    BY <1>3 DEF MoveTransformStep, treeVars
  <2> QED
    BY <2>1, SameTree DEF Hidden
<1>4. CASE Descend
  <2>1. op = "freeing" /\ op' = "freeing" /\ UNCHANGED <<comp, children, issued>>
    BY <1>4 DEF Descend, treeVars
  <2>2. PICK x : doomed' = Append(doomed, x) /\ x \in Index
    BY <1>4, IndexTypes DEF Descend
  <2>3. doomed \in Seq(Index) /\ 1 \in 1 .. Len(doomed)
    BY <2>1, LastDoomed DEF TreeInv, DoomedChain
  <2>4. doomed'[1] = doomed[1]
    BY <2>2, <2>3
  <2>5. Hidden' = Hidden
    BY <2>1, <2>4 DEF Hidden, Subtree, Live
  <2> QED
    BY <2>1, <2>5, SameTree
<1>5. CASE CopyReturns
  <2>1. /\ op = "cloning" /\ op' = "cloning" /\ UNCHANGED <<comp, children, issued>>
        /\ Len(copying) > 1 /\ copying' = SubSeq(copying, 1, Len(copying) - 1)
    BY <1>5 DEF CopyReturns, treeVars
  <2>2. copying \in Seq([src : Index, dst : Index]) /\ Len(copying) \in Nat
    BY <2>1 DEF TreeInv, CopyFrames
  <2>3. PICK m \in Nat : Len(copying) = m + 1 /\ 1 \in 1 .. m /\ copying' = SubSeq(copying, 1, m)
    <3>1. Len(copying) - 1 \in Nat /\ Len(copying) = (Len(copying) - 1) + 1 /\ 1 \in 1 .. Len(copying) - 1
      BY <2>1, <2>2
    <3> QED
      BY <2>1, <3>1
  <2>4. copying'[1] = copying[1]
    BY <2>2, <2>3, InFront
  <2>5. Hidden' = Hidden
    BY <2>1, <2>4 DEF Hidden, Subtree, Live
  <2> QED
    BY <2>1, <2>4, <2>5, SameTree
<1>6. CASE UNCHANGED vars
  <2>1. UNCHANGED <<comp, children, issued, op, copying, doomed>>
    BY <1>6 DEF vars, treeVars, loopVars
  <2>2. Hidden' = Hidden
    BY <2>1 DEF Hidden, Subtree, Live
  <2> QED
    BY <2>1, <2>2, SameTree
<1> QED
  BY <1>1, <1>2, <1>3, <1>4, <1>5, <1>6

\* What is freed was hidden before.
LEMMA FreeIsHidden ==
    ASSUME IDInv, TreeInv, TreeInv', ForestInv, ShownKnown, ShownKnown', FreeComponent
    PROVE  UNCHANGED Shown
<1>1. PICK n, i, d : n = Len(doomed) /\ i = doomed[n] /\ d = doomed[1]
  OBVIOUS
<1>2. Freed(i, n) /\ op = "freeing" /\ issued' = issued
  BY <1>1, FreeEffect DEF FreeComponent
<1>3. /\ n \in Nat \ {0} /\ DOMAIN doomed = 1 .. n /\ i \in Live
      /\ \A j \in Live : comp[j].parent # i
      /\ Live' = Live \ {i}
      /\ \A k \in Live \ {i} : comp'[k] = comp[k] /\ children'[k] = children[k]
      /\ children'[Root] = children[Root]
      /\ doomed' = SubSeq(doomed, 1, n - 1)
      /\ op' = IF n = 1 THEN "none" ELSE "freeing"
  BY <1>2 DEF Freed
<1>4. PICK U : U = Subtree(d)
  OBVIOUS
<1>5. d \in Live
  BY <1>1, <1>2, <1>3 DEF TreeInv, DoomedChain
<1>6. Visible = Live \ U
  BY <1>1, <1>2, <1>4 DEF Visible, Hidden
<1>7. i \in U /\ Visible' = Live \ U
  <2>1. CASE n = 1
    <3>1. d = i /\ op' = "none"
      BY <1>1, <1>3, <2>1
    <3>2. U = {i}
      <4>1. PICK X : X = {i}
        OBVIOUS
      <4>2. X \in SUBSET Live /\ d \in X /\ \A k \in Live : comp[k].parent \in X => k \in X
        BY <1>3, <3>1, <4>1
      <4>3. U \subseteq X /\ d \in U
        BY <1>4, <1>5, <4>2, SubtreeExact DEF TreeInv
      <4> QED
        BY <3>1, <4>1, <4>3
    <3>3. Visible' = Live'
      BY <3>1 DEF Visible, Hidden
    <3> QED
      BY <1>3, <3>2, <3>3
  <2>2. CASE n # 1
    <3>1. PICK m \in Nat : n = m + 1 /\ m # 0
      <4>1. n - 1 \in Nat /\ n = (n - 1) + 1 /\ n - 1 # 0
        BY <1>3, <2>2
      <4> QED
        BY <4>1
    <3>2. doomed \in Seq(Index) /\ doomed' = SubSeq(doomed, 1, m) /\ op' = "freeing"
      BY <1>2, <1>3, <2>2, <3>1 DEF TreeInv, DoomedChain
    <3>3. DOMAIN doomed' = 1 .. m /\ \A k \in 1 .. m : doomed'[k] = doomed[k]
      BY <1>1, <3>1, <3>2, InFront
    <3>4. 1 \in 1 .. m
      BY <3>1
    <3>5. doomed'[1] = d /\ d \in Live'
      BY <1>1, <3>2, <3>3, <3>4 DEF TreeInv, DoomedChain
    <3>6. d # i
      BY <1>3, <3>5
    <3>7. Subtree(d)' = U \ {i}
      BY <1>2, <1>4, <1>5, <3>6, FreedSubtree
    <3>8. Visible' = Live' \ (U \ {i})
      BY <3>2, <3>5, <3>7 DEF Visible, Hidden
    <3>9. i \in U
      BY <1>1, <1>2, <1>3, <1>4 DEF ForestInv, DoomedBelow
    <3> QED
      BY <1>3, <3>8, <3>9
  <2> QED
    BY <2>1, <2>2
<1>8. Visible' = Visible /\ i \notin Visible /\ Visible \subseteq Live
  BY <1>6, <1>7
<1>9. op' # "cloning"
  BY <1>3
<1>10. ShownUsed' = ShownUsed
  BY <1>2, <1>9 DEF ShownUsed, HiddenIDs
<1>11. \A j \in Visible \cup {Root} : children'[j] = children[j]
  BY <1>3, <1>8
<1>12. \A j \in Visible : comp'[j] = comp[j]
  BY <1>3, <1>8
<1>13. \A j \in Visible \cup {Root} : ShownCount(j)' = ShownCount(j)
  BY <1>2, <1>9, <1>11 DEF ShownCount
<1> QED
  BY <1>8, <1>10, <1>11, <1>12, <1>13, SameForest DEF Shown

\* A copy is hidden from its first component on.
LEMMA CloneIsHidden ==
    ASSUME IDInv, TreeInv, TreeInv', ShownKnown, ShownKnown', NEW i \in Index, CloneComponentSubtree(i)
    PROVE  UNCHANGED Shown
<1>1. PICK id, p, n : id = NextID /\ p = comp[i].parent /\ n = id.index
  OBVIOUS
<1>2. /\ op = "none" /\ op' = "cloning" /\ i \in Live
      /\ NewComponent(comp[i].type, p)
      /\ copying' = <<[src |-> i, dst |-> n]>>
  BY <1>1 DEF CloneComponentSubtree
<1>3. comp[i].type \in Types /\ p \in Live \cup {Root}
  BY <1>1, <1>2 DEF TreeInv, TreeTypes, ParentsLive
<1>4. Added(id, comp[i].type, p) /\ issued' = issued \cup {id} /\ CreateID
  BY <1>1, <1>2, <1>3, NewEffect DEF NewComponent
<1>5. /\ n \in Index /\ n \notin Live /\ Live' = Live \cup {n} /\ p # n /\ n # Root
      /\ comp'[n].cuid = id /\ comp'[n].parent = p
      /\ \A k \in Live : comp'[k] = comp[k]
      /\ \A q \in Live \cup {Root} : q # p => children'[q] = children[q]
      /\ children'[p] = Append(children[p], n)
  <2>1. /\ n \in Index /\ n \notin Live /\ n # Root /\ Live' = Live \cup {n} /\ n # p
        /\ p \in Index \cup {Root} /\ Live \subseteq Index
    BY <1>1, <1>3, <1>4, IndexTypes DEF Added
  <2>2. /\ \A k \in Index :
             comp'[k] = IF k = n THEN [cuid |-> id, type |-> comp[i].type, parent |-> p] ELSE comp[k]
        /\ \A q \in Index \cup {Root} :
             children'[q] = IF q = n THEN <<>> ELSE IF q = p THEN Append(children[p], n) ELSE children[q]
    BY <1>1, <1>4 DEF Added
  <2>3. \A k \in Live : comp'[k] = comp[k]
    BY <2>1, <2>2
  <2>4. \A q \in Live \cup {Root} : q # p => children'[q] = children[q]
    BY <2>1, <2>2
  <2>5. comp'[n] = [cuid |-> id, type |-> comp[i].type, parent |-> p]
    BY <2>1, <2>2
  <2>6. children'[p] = Append(children[p], n)
    BY <2>1, <2>2
  <2> QED
    BY <2>1, <2>3, <2>4, <2>5, <2>6
<1>6. id \notin issued
  BY <1>1, <1>4, CreateIDFresh
<1>7. copying'[1].dst = n
  BY <1>2
<1>8. PICK V, X : V = Subtree(n)' /\ X = {n}
  OBVIOUS
<1>9. V = X
  <2>1. n \in Live' /\ NoCycle' /\ X \in SUBSET Live' /\ n \in X
    BY <1>5, <1>8 DEF TreeInv
  <2>2. \A k \in Live : comp[k].parent \in Live \cup {Root}
    BY <1>2 DEF TreeInv, ParentsLive
  <2>3. \A k \in Live' : comp'[k].parent \in X => k \in X
    BY <1>5, <1>8, <2>2
  <2>4. n \in V /\ (\A Y \in SUBSET Live' :
           n \in Y /\ (\A k \in Live' : comp'[k].parent \in Y => k \in Y) => V \subseteq Y)
    BY <1>8, <2>1, SubtreeExactNext
  <2>5. V \subseteq X
    BY <2>1, <2>3, <2>4
  <2> QED
    BY <1>8, <2>4, <2>5
<1>10. Hidden' = {n} /\ Visible' = Live /\ Visible = Live
  BY <1>2, <1>5, <1>7, <1>8, <1>9 DEF Hidden, Visible
<1>11. HiddenIDs' = {id} /\ HiddenIDs = {}
  <2>1. HiddenIDs' = {comp'[k].cuid : k \in {n}}
    BY <1>2, <1>10 DEF HiddenIDs, IDsOf
  <2> QED
    BY <1>2, <1>5, <2>1 DEF HiddenIDs
<1>12. ShownUsed' = ShownUsed
  BY <1>4, <1>6, <1>11 DEF ShownUsed
<1>13. ASSUME NEW j \in Live \cup {Root}
       PROVE  /\ ShownCount(j)' = ShownCount(j)
              /\ \A k \in 1 .. ShownCount(j) : children'[j][k] = children[j][k]
  <2>1. PICK c : c = children[j]
    OBVIOUS
  <2>2. c \in Seq(Index) /\ Len(c) \in Nat
    BY <2>1, IndexTypes DEF TreeInv, TreeTypes
  <2>3. ShownCount(j) = Len(c) - 0
    BY <1>2, <2>1 DEF ShownCount
  <2>4. CASE j = p
    <3>1. children'[j] = Append(c, n)
      BY <1>5, <2>1, <2>4
    <3>2. Len(children'[j]) = Len(c) + 1 /\ \A k \in 1 .. Len(c) : children'[j][k] = c[k]
      BY <1>5, <2>2, <3>1
    <3>3. ShownCount(j)' = Len(children'[j]) - 1
      BY <1>2, <1>5, <1>7, <2>4 DEF ShownCount
    <3> QED
      BY <2>1, <2>2, <2>3, <3>2, <3>3
  <2>5. CASE j # p
    <3>1. children'[j] = c
      BY <1>5, <2>1, <2>5
    <3>2. ShownCount(j)' = Len(c) - 0
      BY <1>5, <1>7, <2>5, <3>1 DEF ShownCount
    <3> QED
      BY <2>1, <2>2, <2>3, <3>1, <3>2
  <2> QED
    BY <2>4, <2>5
<1> QED
  BY <1>5, <1>10, <1>12, <1>13, SameForest DEF Shown

\* A child that is copied is hidden with the copy it belongs to.
LEMMA CopyChildIsHidden ==
    ASSUME IDInv, TreeInv, TreeInv', ForestInv, ShownKnown, ShownKnown', CopyChild
    PROVE  UNCHANGED Shown
<1>1. op = "cloning" /\ op' = "cloning" /\ NewComponent(comp[children[Top.src][Len(children[Top.dst]) + 1]].type, Top.dst)
  BY DEF CopyChild
<1>2. PICK child, a, b, n : CopiedChild(child, a, b, n)
  BY CopyChildEffect
<1>3. /\ a \in Live /\ b \in Live /\ Top = [src |-> a, dst |-> b]
      /\ n \in Index /\ n \notin Live /\ n # Root /\ Live' = Live \cup {n}
      /\ \A k \in Live : comp'[k] = comp[k]
      /\ comp'[n].parent = b
      /\ \A k \in Live \cup {Root} : k # b => children'[k] = children[k]
      /\ copying' = Append(copying, [src |-> child, dst |-> n])
      /\ issued' = issued \cup {NextID}
      /\ comp'[n].cuid = NextID
      /\ child \in Live
  BY <1>2 DEF CopiedChild
<1>4. NextID \notin issued
  BY <1>1, CreateIDFresh DEF NewComponent
<1>5. PICK D \in SUBSET Live : \E f \in [D -> Live] : CopyOf(D, f)
  BY <1>1 DEF ForestInv, CopyMade
<1>6. PICK f \in [D -> Live] : CopyOf(D, f)
  BY <1>5
<1>7. PICK s, t, h : s = copying[1].src /\ t = copying[1].dst /\ h = Len(copying)
  OBVIOUS
<1>8. t \in Live /\ \A i \in D : f[i] \in Subtree(t)
  BY <1>1, <1>6, <1>7, CopyShape
<1>9. h \in Nat \ {0} /\ h \in DOMAIN copying /\ Top = copying[h]
  BY <1>1, <1>7, TopFrame DEF TreeInv
<1>10. b \in Subtree(t)
  <2>1. copying[h].src \in D /\ f[copying[h].src] = copying[h].dst
    BY <1>6, <1>9 DEF CopyOf
  <2> QED
    BY <1>3, <1>8, <1>9, <2>1
<1>11. copying'[1].dst = t
  <2>1. copying \in Seq([src : Index, dst : Index]) /\ [src |-> child, dst |-> n] \in [src : Index, dst : Index]
    BY <1>1, <1>3, IndexTypes DEF TreeInv, CopyFrames
  <2>2. 1 \in 1 .. h
    BY <1>9
  <2>3. copying'[1] = copying[1]
    BY <1>3, <1>7, <2>1, <2>2
  <2> QED
    BY <1>7, <2>3
<1>12. PICK U, V, X : U = Subtree(t) /\ V = Subtree(t)' /\ X = U \cup {n}
  OBVIOUS
<1>13. /\ U \subseteq Live /\ t \in U
       /\ \A k \in Live : comp[k].parent \in U <=> k \in U /\ k # t
  BY <1>8, <1>12, SubtreeExact DEF TreeInv
<1>14. V = X
  <2>1. t \in Live' /\ NoCycle' /\ X \in SUBSET Live' /\ t \in X
    BY <1>3, <1>8, <1>12, <1>13 DEF TreeInv
  <2>2. \A k \in Live : comp[k].parent \in Live \cup {Root}
    BY <1>1 DEF TreeInv, ParentsLive
  <2>3. \A k \in Live' : comp'[k].parent \in X => k \in X
    BY <1>3, <1>12, <1>13, <2>2
  <2>4. \A k \in X : k # t => comp'[k].parent \in X
    BY <1>3, <1>10, <1>12, <1>13
  <2>0. \A Y \in SUBSET Live' :
           t \in Y /\ (\A k \in Live' : comp'[k].parent \in Y => k \in Y) => V \subseteq Y
    BY <1>12, <2>1, SubtreeExactNext
  <2>5. V \subseteq X
    BY <2>0, <2>1, <2>3
  <2>6. X \subseteq V
    BY <1>12, <2>1, <2>4, SubtreeExactNext
  <2> QED
    BY <2>5, <2>6
<1>15. /\ Hidden = U /\ Hidden' = U \cup {n}
       /\ Visible = Live \ U /\ Visible' = Live \ U
  <2>1. Hidden = U /\ Hidden' = V
    BY <1>1, <1>7, <1>11, <1>12 DEF Hidden
  <2> QED
    BY <1>3, <1>12, <1>14, <2>1 DEF Visible
<1>16. ShownUsed' = ShownUsed
  <2>1. HiddenIDs = {comp[k].cuid : k \in U} /\ HiddenIDs' = {comp'[k].cuid : k \in U \cup {n}}
    BY <1>1, <1>15 DEF HiddenIDs, IDsOf
  <2>2. HiddenIDs' = HiddenIDs \cup {NextID}
    BY <1>3, <1>13, <2>1
  <2> QED
    BY <1>3, <1>4, <2>2 DEF ShownUsed
<1>17. \A j \in Visible \cup {Root} : children'[j] = children[j]
  BY <1>3, <1>10, <1>12, <1>15, IndexTypes
<1>18. \A j \in Visible : comp'[j] = comp[j]
  BY <1>3, <1>15
<1>19. \A j \in Visible \cup {Root} : ShownCount(j)' = ShownCount(j)
  BY <1>1, <1>3, <1>7, <1>8, <1>11, <1>17 DEF ShownCount
<1> QED
  BY <1>15, <1>16, <1>17, <1>18, <1>19, SameForest DEF Shown

\* The elements from the i-th to the h-th.
LEMMA SubSeqIs ==
    ASSUME NEW T, NEW s \in Seq(T), NEW i \in Nat \ {0}, NEW h \in Nat, i <= h + 1, h <= Len(s)
    PROVE  /\ SubSeq(s, i, h) \in Seq(T)
           /\ Len(SubSeq(s, i, h)) = (h + 1) - i
           /\ \A j \in 1 .. (h + 1) - i : SubSeq(s, i, h)[j] = s[(i - 1) + j]
<1>1. PICK n, a : n = Len(s) /\ a = SubSeq(s, i, h)
  OBVIOUS
<1>2. n \in Nat /\ DOMAIN s = 1 .. n /\ (h + 1) - i \in Nat
  BY <1>1
<1>3. \A j \in i .. h : s[j] \in T
  BY <1>1, <1>2
<1>4. /\ a \in Seq(T) /\ Len(a) = IF i <= h THEN (h - i) + 1 ELSE 0
      /\ \A j \in 1 .. (h - i) + 1 : a[j] = s[(i + j) - 1]
  BY <1>1, <1>3, SubSeqProperties
<1>5. (h - i) + 1 = (h + 1) - i /\ (~(i <= h) => (h + 1) - i = 0)
  OBVIOUS
<1>6. \A j \in 1 .. (h + 1) - i : (i + j) - 1 = (i - 1) + j
  BY <1>2
<1> QED
  BY <1>1, <1>4, <1>5, <1>6

\* One list after another.
LEMMA Joined ==
    ASSUME NEW T, NEW a \in Seq(T), NEW b \in Seq(T), NEW c, c = a \o b
    PROVE  /\ c \in Seq(T) /\ Len(c) = Len(a) + Len(b) /\ DOMAIN c = 1 .. Len(a) + Len(b)
           /\ \A j \in 1 .. Len(a) : c[j] = a[j]
           /\ \A j \in 1 .. Len(b) : c[Len(a) + j] = b[j]
<1>1. PICK x, z : x = Len(a) /\ z = Len(b)
  OBVIOUS
<1>2. x \in Nat /\ z \in Nat
  BY <1>1
<1>3. /\ c \in Seq(T) /\ Len(c) = x + z
      /\ \A j \in 1 .. x + z : c[j] = IF j <= x THEN a[j] ELSE b[j - x]
  BY <1>1, ConcatProperties
<1>4. DOMAIN c = 1 .. x + z
  BY <1>3
<1>5. \A j \in 1 .. x : c[j] = a[j]
  BY <1>2, <1>3
<1>6. ASSUME NEW j \in 1 .. z PROVE c[x + j] = b[j]
  <2>1. x + j \in 1 .. x + z /\ ~(x + j <= x) /\ (x + j) - x = j
    BY <1>2
  <2> QED
    BY <1>3, <2>1
<1> QED
  BY <1>1, <1>3, <1>4, <1>5, <1>6

\* The places of a list without repetition, and the list without one of them.
LEMMA WithoutAt ==
    ASSUME NEW T, NEW s \in Seq(T), NoRepeat(s), NEW k \in DOMAIN s
    PROVE  /\ Without(s, s[k]) = [j \in 1 .. Len(s) - 1 |-> IF j < k THEN s[j] ELSE s[j + 1]]
           /\ Forest!Without(s, s[k]) = [j \in 1 .. Len(s) - 1 |-> IF j < k THEN s[j] ELSE s[j + 1]]
<1>1. PICK n : n = Len(s)
  OBVIOUS
<1>2. n \in Nat /\ DOMAIN s = 1 .. n /\ k \in 1 .. n /\ k \in Nat
  BY <1>1
<1>3. (CHOOSE j \in DOMAIN s : s[j] = s[k]) = k
  BY DEF NoRepeat
<1>4. Without(s, s[k]) = [j \in 1 .. n - 1 |-> IF j < k THEN s[j] ELSE s[j + 1]]
  BY <1>1, <1>3 DEF Without
<1>5. PICK a, b : a = SubSeq(s, 1, k - 1) /\ b = SubSeq(s, k + 1, n)
  OBVIOUS
<1>6. /\ a \in Seq(T) /\ Len(a) = k - 1 /\ \A j \in 1 .. k - 1 : a[j] = s[j]
      /\ b \in Seq(T) /\ Len(b) = n - k /\ \A j \in 1 .. n - k : b[j] = s[j + k]
  <2>1. /\ 1 \in Nat \ {0} /\ k + 1 \in Nat \ {0} /\ k - 1 \in Nat
        /\ 1 <= (k - 1) + 1 /\ k + 1 <= n + 1 /\ k - 1 <= n /\ n <= n
        /\ ((k - 1) + 1) - 1 = k - 1 /\ (n + 1) - (k + 1) = n - k
    BY <1>2
  <2>2. a \in Seq(T) /\ Len(a) = k - 1 /\ \A j \in 1 .. k - 1 : a[j] = s[(1 - 1) + j]
    BY <1>1, <1>2, <1>5, <2>1, SubSeqIs
  <2>3. b \in Seq(T) /\ Len(b) = n - k /\ \A j \in 1 .. n - k : b[j] = s[((k + 1) - 1) + j]
    BY <1>1, <1>2, <1>5, <2>1, SubSeqIs
  <2>4. \A j \in Nat : (1 - 1) + j = j /\ ((k + 1) - 1) + j = j + k
    BY <1>2
  <2>5. (\A j \in 1 .. k - 1 : j \in Nat) /\ (\A j \in 1 .. n - k : j \in Nat)
    OBVIOUS
  <2> QED
    BY <2>2, <2>3, <2>4, <2>5
<1>7. Forest!Without(s, s[k]) = a \o b
  <2>1. Forest!Position(s, s[k]) = k
    BY <1>3 DEF Forest!Position
  <2> QED
    BY <1>1, <1>5, <2>1 DEF Forest!Without, Forest!RemoveAt
<1>8. k - 1 \in Nat /\ n - k \in Nat /\ (k - 1) + (n - k) = n - 1
  BY <1>2
<1>9. PICK c : c = a \o b
  OBVIOUS
<1>10. /\ c \in Seq(T) /\ DOMAIN c = 1 .. n - 1
       /\ \A j \in 1 .. k - 1 : c[j] = a[j]
       /\ \A j \in 1 .. n - k : c[(k - 1) + j] = b[j]
  <2>1. a \in Seq(T) /\ b \in Seq(T)
    BY <1>6
  <2>2. /\ c \in Seq(T) /\ DOMAIN c = 1 .. Len(a) + Len(b)
        /\ \A j \in 1 .. Len(a) : c[j] = a[j]
        /\ \A j \in 1 .. Len(b) : c[Len(a) + j] = b[j]
    BY <1>9, <2>1, Joined
  <2> QED
    BY <1>6, <1>8, <2>2
<1>11. \A j \in 1 .. n - 1 : c[j] = IF j < k THEN s[j] ELSE s[j + 1]
  <2> TAKE j \in 1 .. n - 1
  <2>1. CASE j < k
    <3>1. j \in 1 .. k - 1
      BY <1>2, <2>1
    <3>2. c[j] = a[j] /\ a[j] = s[j]
      BY <1>6, <1>10, <3>1
    <3> QED
      BY <2>1, <3>2
  <2>2. CASE ~(j < k)
    <3>1. PICK i : i = j - (k - 1)
      OBVIOUS
    <3>2. i \in 1 .. n - k /\ (k - 1) + i = j /\ i + k = j + 1
      BY <1>2, <2>2, <3>1
    <3> QED
      BY <1>6, <1>10, <2>2, <3>2
  <2> QED
    BY <2>1, <2>2
<1>12. c = [j \in 1 .. n - 1 |-> IF j < k THEN s[j] ELSE s[j + 1]]
  <2>1. c = [j \in 1 .. n - 1 |-> c[j]]
    BY <1>10
  <2> QED
    BY <1>11, <2>1
<1> QED
  BY <1>1, <1>4, <1>7, <1>9, <1>12

\* The list with a new member behind one of them.
LEMMA WithAfterAt ==
    ASSUME NEW T, NEW s \in Seq(T), NoRepeat(s), NEW k \in DOMAIN s, NEW y \in T
    PROVE  /\ WithAfter(s, s[k], y) =
                [j \in 1 .. Len(s) + 1 |-> IF j <= k THEN s[j] ELSE IF j = k + 1 THEN y ELSE s[j - 1]]
           /\ Forest!InsertAfter(s, s[k], y) =
                [j \in 1 .. Len(s) + 1 |-> IF j <= k THEN s[j] ELSE IF j = k + 1 THEN y ELSE s[j - 1]]
<1>1. PICK n : n = Len(s)
  OBVIOUS
<1>2. n \in Nat /\ DOMAIN s = 1 .. n /\ k \in 1 .. n /\ k \in Nat
  BY <1>1
<1>3. (CHOOSE j \in DOMAIN s : s[j] = s[k]) = k
  BY DEF NoRepeat
<1>4. WithAfter(s, s[k], y) =
        [j \in 1 .. n + 1 |-> IF j <= k THEN s[j] ELSE IF j = k + 1 THEN y ELSE s[j - 1]]
  BY <1>1, <1>3 DEF WithAfter
<1>5. PICK a, b, m : a = SubSeq(s, 1, k) /\ b = SubSeq(s, k + 1, n) /\ m = <<y>>
  OBVIOUS
<1>6. /\ a \in Seq(T) /\ Len(a) = k /\ \A j \in 1 .. k : a[j] = s[j]
      /\ b \in Seq(T) /\ Len(b) = n - k /\ \A j \in 1 .. n - k : b[j] = s[j + k]
      /\ m \in Seq(T) /\ Len(m) = 1 /\ m[1] = y
  <2>1. /\ 1 \in Nat \ {0} /\ k + 1 \in Nat \ {0} /\ k <= n /\ n <= n
        /\ 1 <= k + 1 /\ k + 1 <= n + 1
        /\ (k + 1) - 1 = k /\ (n + 1) - (k + 1) = n - k
    BY <1>2
  <2>2. a \in Seq(T) /\ Len(a) = k /\ \A j \in 1 .. k : a[j] = s[(1 - 1) + j]
    BY <1>1, <1>2, <1>5, <2>1, SubSeqIs
  <2>3. b \in Seq(T) /\ Len(b) = n - k /\ \A j \in 1 .. n - k : b[j] = s[((k + 1) - 1) + j]
    BY <1>1, <1>2, <1>5, <2>1, SubSeqIs
  <2>4. \A j \in Nat : (1 - 1) + j = j /\ ((k + 1) - 1) + j = j + k
    BY <1>2
  <2>5. (\A j \in 1 .. k : j \in Nat) /\ (\A j \in 1 .. n - k : j \in Nat)
    OBVIOUS
  <2>6. m \in Seq(T) /\ Len(m) = 1 /\ m[1] = y
    BY <1>5
  <2> QED
    BY <2>2, <2>3, <2>4, <2>5, <2>6
<1>7. Forest!InsertAfter(s, s[k], y) = (a \o m) \o b
  <2>1. (k + 1) - 1 = k
    BY <1>2
  <2>2. Forest!Position(s, s[k]) = k
    BY <1>3 DEF Forest!Position
  <2> QED
    BY <1>1, <1>5, <2>1, <2>2 DEF Forest!InsertAfter, Forest!InsertAt
<1>8. k + 1 \in Nat /\ n - k \in Nat /\ (k + 1) + (n - k) = n + 1 /\ 1 \in 1 .. 1
  BY <1>2
<1>9. PICK d, c : d = a \o m /\ c = d \o b
  OBVIOUS
<1>10. /\ d \in Seq(T) /\ Len(d) = k + 1
       /\ \A j \in 1 .. k : d[j] = a[j]
       /\ d[k + 1] = y
  <2>1. a \in Seq(T) /\ m \in Seq(T)
    BY <1>6
  <2>2. /\ d \in Seq(T) /\ Len(d) = Len(a) + Len(m)
        /\ \A j \in 1 .. Len(a) : d[j] = a[j]
        /\ \A j \in 1 .. Len(m) : d[Len(a) + j] = m[j]
    BY <1>9, <2>1, Joined
  <2> QED
    BY <1>6, <1>8, <2>2
<1>11. /\ c \in Seq(T) /\ DOMAIN c = 1 .. n + 1
       /\ \A j \in 1 .. k + 1 : c[j] = d[j]
       /\ \A j \in 1 .. n - k : c[(k + 1) + j] = b[j]
  <2>1. d \in Seq(T) /\ b \in Seq(T)
    BY <1>6, <1>10
  <2>2. /\ c \in Seq(T) /\ DOMAIN c = 1 .. Len(d) + Len(b)
        /\ \A j \in 1 .. Len(d) : c[j] = d[j]
        /\ \A j \in 1 .. Len(b) : c[Len(d) + j] = b[j]
    BY <1>9, <2>1, Joined
  <2> QED
    BY <1>6, <1>8, <1>10, <2>2
<1>12. \A j \in 1 .. n + 1 : c[j] = IF j <= k THEN s[j] ELSE IF j = k + 1 THEN y ELSE s[j - 1]
  <2> TAKE j \in 1 .. n + 1
  <2>1. CASE j <= k
    <3>1. j \in 1 .. k /\ j \in 1 .. k + 1
      BY <1>2, <2>1
    <3> QED
      BY <1>6, <1>10, <1>11, <2>1, <3>1
  <2>2. CASE j = k + 1
    <3>1. j \in 1 .. k + 1 /\ ~(j <= k)
      BY <1>2, <2>2
    <3> QED
      BY <1>10, <1>11, <2>2, <3>1
  <2>3. CASE ~(j <= k) /\ j # k + 1
    <3>1. PICK i : i = j - (k + 1)
      OBVIOUS
    <3>2. i \in 1 .. n - k /\ (k + 1) + i = j /\ i + k = j - 1
      BY <1>2, <2>3, <3>1
    <3> QED
      BY <1>6, <1>11, <2>3, <3>2
  <2> QED
    BY <2>1, <2>2, <2>3
<1>13. c = [j \in 1 .. n + 1 |-> IF j <= k THEN s[j] ELSE IF j = k + 1 THEN y ELSE s[j - 1]]
  <2>1. c = [j \in 1 .. n + 1 |-> c[j]]
    BY <1>11
  <2> QED
    BY <1>12, <2>1
<1> QED
  BY <1>1, <1>4, <1>7, <1>9, <1>13
-----------------------------------------------------------------------------
\* Two lists with the same members are the same.
LEMMA SameList ==
    ASSUME NEW T, NEW s \in Seq(T), NEW t \in Seq(T), Len(s) = Len(t), \A k \in 1 .. Len(s) : s[k] = t[k]
    PROVE  s = t
OBVIOUS

\* The list of children that is shown.
ListsShown ==
    \A j \in Visible \cup {Root} :
        /\ ChildIDs(j) \in Seq(ID) /\ Len(ChildIDs(j)) = ShownCount(j)
        /\ DOMAIN ChildIDs(j) = 1 .. ShownCount(j)
        /\ \A k \in 1 .. ShownCount(j) :
             ChildIDs(j)[k] = comp[children[j][k]].cuid /\ children[j][k] \in Visible
        /\ NoRepeat(ChildIDs(j))
        /\ op # "cloning" => ShownCount(j) = Len(children[j])
        /\ ShownCount(j) \in Nat /\ children[j] \in Seq(Index)

\* The lists that are shown are known before a step,
LEMMA ListsShownNow == TreeInv /\ ShownKnown => ListsShown
<1> SUFFICES ASSUME TreeInv, ShownKnown, NEW j \in Visible \cup {Root}
             PROVE  /\ ChildIDs(j) \in Seq(ID) /\ Len(ChildIDs(j)) = ShownCount(j)
                    /\ DOMAIN ChildIDs(j) = 1 .. ShownCount(j)
                    /\ \A k \in 1 .. ShownCount(j) :
                         ChildIDs(j)[k] = comp[children[j][k]].cuid /\ children[j][k] \in Visible
                    /\ NoRepeat(ChildIDs(j))
                    /\ op # "cloning" => ShownCount(j) = Len(children[j])
                    /\ ShownCount(j) \in Nat /\ children[j] \in Seq(Index)
  BY DEF ListsShown
<1>1. PICK c, n, l : c = children[j] /\ n = ShownCount(j) /\ l = ChildIDs(j)
  OBVIOUS
<1>2. /\ c \in Seq(Index) /\ n \in Nat /\ n <= Len(c)
      /\ l = [k \in 1 .. n |-> IDOf(c[k])]
      /\ \A k \in 1 .. n : k \in DOMAIN c /\ c[k] \in Visible
      /\ Visible \subseteq Live
  BY <1>1 DEF ShownKnown, ShownLinks
<1>3. \A i \in Live : IDOf(i) = comp[i].cuid /\ comp[i].cuid.index = i /\ comp[i].cuid \in ID
  BY DEF ShownKnown, Named
<1>4. \A k \in 1 .. n : l[k] = comp[c[k]].cuid /\ l[k] \in ID /\ l[k].index = c[k]
  BY <1>2, <1>3
<1>5. l \in Seq(ID) /\ Len(l) = n /\ DOMAIN l = 1 .. n
  BY <1>2, <1>4
<1>6. NoRepeat(c)
  BY <1>1, <1>2 DEF TreeInv, LinksAgree
<1>7. NoRepeat(l)
  BY <1>2, <1>4, <1>5, <1>6 DEF NoRepeat
<1>8. op # "cloning" => n = Len(c)
  <2> SUFFICES ASSUME op # "cloning" PROVE n = Len(c)
    OBVIOUS
  <2>1. n = Len(c) - 0
    BY <1>1 DEF ShownCount
  <2> QED
    BY <1>2, <2>1
<1> QED
  BY <1>1, <1>2, <1>4, <1>5, <1>7, <1>8

\* and after it.
LEMMA ListsShownNext == TreeInv' /\ ShownKnown' => ListsShown'
BY ListsShownNow, PTL

\* A new component appears under a new identifier, last below its parent.
LEMMA CreateShown ==
    ASSUME IDInv, TreeInv, ShownKnown, ListsShown, TreeInv', ShownKnown', ListsShown',
           NEW type \in Types, NEW p \in Index \cup {Root}, CreateComponent(type, p)
    PROVE  Forest!Create
<1>1. PICK id, n : id = NextID /\ n = id.index
  OBVIOUS
<1>2. op = "none" /\ op' = "none" /\ p \in Live \cup {Root} /\ NewComponent(type, p)
  BY DEF CreateComponent, loopVars
<1>3. Added(id, type, p) /\ issued' = issued \cup {id} /\ CreateID
  BY <1>1, <1>2, NewEffect DEF NewComponent
<1>4. /\ n \in Index /\ n \notin Live /\ Live' = Live \cup {n} /\ p # n /\ n # Root
      /\ id \in ID /\ id # NoID
      /\ comp'[n] = [cuid |-> id, type |-> type, parent |-> p]
      /\ \A k \in Live : comp'[k] = comp[k] /\ k # n
      /\ \A q \in Live \cup {Root} : q # p => children'[q] = children[q]
      /\ children'[p] = Append(children[p], n)
      /\ children'[n] = <<>>
  <2>1. /\ n \in Index /\ n \notin Live /\ n # Root /\ Live' = Live \cup {n} /\ n # p
        /\ p \in Index \cup {Root} /\ Live \subseteq Index /\ id \in ID /\ id # NoID
    BY <1>1, <1>2, <1>3, IndexTypes DEF Added
  <2>2. /\ \A k \in Index :
             comp'[k] = IF k = n THEN [cuid |-> id, type |-> type, parent |-> p] ELSE comp[k]
        /\ \A q \in Index \cup {Root} :
             children'[q] = IF q = n THEN <<>> ELSE IF q = p THEN Append(children[p], n) ELSE children[q]
    BY <1>1, <1>3 DEF Added
  <2>3. \A k \in Live : comp'[k] = comp[k] /\ k # n
    BY <2>1, <2>2
  <2>4. \A q \in Live \cup {Root} : q # p => children'[q] = children[q]
    BY <2>1, <2>2
  <2>5. comp'[n] = [cuid |-> id, type |-> type, parent |-> p]
    BY <2>1, <2>2
  <2>6. children'[p] = Append(children[p], n) /\ children'[n] = <<>>
    BY <2>1, <2>2
  <2> QED
    BY <2>1, <2>3, <2>4, <2>5, <2>6
<1>5. id \notin issued
  BY <1>1, <1>3, CreateIDFresh
<1>6. ShownUsed = issued /\ ShownUsed' = issued \cup {id}
  BY <1>2, <1>3 DEF ShownUsed, HiddenIDs
<1>7. Visible = Live /\ Visible' = Live \cup {n}
  BY <1>2, <1>4 DEF Visible, Hidden
<1>8. PICK S, P : S = IDsOf(Visible) /\ P = IDOf(p)
  OBVIOUS
<1>9. ShownPoints /\ ShownPoints' /\ Named /\ Named' /\ ShownLinks
  BY DEF ShownKnown
<1>10. /\ IDsOf(Visible)' = S \cup {id}
       /\ \A x \in S : x # id /\ \E i \in Live : x = comp[i].cuid
  <2>1. IDsOf(Visible)' = {comp'[k].cuid : k \in Live \cup {n}} /\ S = {comp[k].cuid : k \in Live}
    BY <1>7, <1>8 DEF IDsOf
  <2>2. IDsOf(Visible)' = S \cup {id}
    BY <1>4, <2>1
  <2>3. \A k \in Live : comp[k].cuid # id
    BY <1>1, <1>4, <1>9 DEF Named
  <2> QED
    BY <2>1, <2>2, <2>3
<1>11. P \in S \cup {NoID}
  BY <1>2, <1>7, <1>8, <1>9 DEF ShownPoints, Named
<1>12. /\ \A j \in Live \cup {Root} : IDOf(j)' = IDOf(j)
       /\ IDOf(n)' = id /\ IDOf(p)' = P
  BY <1>2, <1>4, <1>8 DEF IDOf
<1>13. ShownParent' = Forest!With(ShownParent, id, P)
  <2>1. PICK g : g = Forest!With(ShownParent, id, P)
    OBVIOUS
  <2>2. IsFunction(g) /\ DOMAIN g = S \cup {id} /\ g[id] = P /\ \A x \in S : g[x] = ShownParent[x]
    BY <1>8, <1>9, <1>10, <2>1 DEF Forest!With, IsFunction, ShownPoints
  <2>3. ASSUME NEW x \in S \cup {id} PROVE ShownParent'[x] = g[x]
    <3>1. CASE x = id
      <4>1. ShownParent'[comp'[n].cuid] = IDOf(comp[n].parent)'
        BY <1>7, <1>9 DEF ShownPoints
      <4>2. IDOf(comp[n].parent)' = IDOf(p)'
        BY <1>4 DEF IDOf
      <4> QED
        BY <1>4, <1>12, <2>2, <3>1, <4>1, <4>2
    <3>2. CASE x # id
      <4>1. PICK i \in Live : x = comp[i].cuid
        BY <1>10, <2>3, <3>2
      <4>2. ShownParent[x] = IDOf(comp[i].parent)
        BY <1>7, <1>9, <4>1 DEF ShownPoints
      <4>3. ShownParent'[x] = IDOf(comp[i].parent)'
        BY <1>4, <1>7, <1>9, <4>1 DEF ShownPoints
      <4>4. comp[i].parent \in Live \cup {Root}
        BY <1>7, <1>9 DEF ShownLinks
      <4>5. IDOf(comp[i].parent)' = IDOf(comp[i].parent)
        BY <1>4, <4>4 DEF IDOf
      <4> QED
        BY <2>2, <2>3, <3>2, <4>2, <4>3, <4>5
    <3> QED
      BY <3>1, <3>2
  <2>4. IsFunction(ShownParent') /\ DOMAIN ShownParent' = S \cup {id}
    BY <1>9, <1>10 DEF ShownPoints, IsFunction
  <2> QED
    BY <2>1, <2>2, <2>3, <2>4, SameFunction
<1>14. ShownType' = Forest!With(ShownType, id, type)
  <2>1. PICK g : g = Forest!With(ShownType, id, type)
    OBVIOUS
  <2>2. IsFunction(g) /\ DOMAIN g = S \cup {id} /\ g[id] = type /\ \A x \in S : g[x] = ShownType[x]
    BY <1>8, <1>9, <1>10, <2>1 DEF Forest!With, IsFunction, ShownPoints
  <2>3. ASSUME NEW x \in S \cup {id} PROVE ShownType'[x] = g[x]
    <3>1. CASE x = id
      <4>1. ShownType'[comp'[n].cuid] = comp'[n].type
        BY <1>7, <1>9 DEF ShownPoints
      <4> QED
        BY <1>4, <2>2, <3>1, <4>1
    <3>2. CASE x # id
      <4>1. PICK i \in Live : x = comp[i].cuid
        BY <1>10, <2>3, <3>2
      <4>2. ShownType[x] = comp[i].type /\ ShownType'[x] = comp[i].type
        BY <1>4, <1>7, <1>9, <4>1 DEF ShownPoints
      <4> QED
        BY <2>2, <2>3, <3>2, <4>2
    <3> QED
      BY <3>1, <3>2
  <2>4. IsFunction(ShownType') /\ DOMAIN ShownType' = S \cup {id}
    BY <1>9, <1>10 DEF ShownPoints, IsFunction
  <2> QED
    BY <2>1, <2>2, <2>3, <2>4, SameFunction
<1>15. PICK f : f = [ShownKids EXCEPT ![P] = Append(@, id)]
  OBVIOUS
<1>16. ChildIDs(p)' = Append(ChildIDs(p), id)
  <2>1. PICK c, l, m : c = children[p] /\ l = ChildIDs(p) /\ m = Len(c)
    OBVIOUS
  <2>2. /\ l \in Seq(ID) /\ Len(l) = m /\ m \in Nat /\ c \in Seq(Index)
        /\ \A k \in 1 .. m : l[k] = comp[c[k]].cuid /\ c[k] \in Live
    BY <1>2, <1>7, <2>1 DEF ListsShown
  <2>3. PICK d, r : d = children'[p] /\ r = ChildIDs(p)'
    OBVIOUS
  <2>4. d = Append(c, n)
    BY <1>4, <2>1, <2>3
  <2>5. /\ r \in Seq(ID) /\ Len(r) = Len(d)
        /\ \A k \in 1 .. Len(d) : r[k] = comp'[d[k]].cuid
    BY <1>2, <1>7, <2>3 DEF ListsShown
  <2>6. Len(d) = m + 1 /\ d[m + 1] = n /\ \A k \in 1 .. m : d[k] = c[k]
    BY <1>4, <2>1, <2>2, <2>4
  <2>7. PICK a : a = Append(l, id)
    OBVIOUS
  <2>8. a \in Seq(ID) /\ Len(a) = m + 1 /\ a[m + 1] = id /\ \A k \in 1 .. m : a[k] = l[k]
    BY <1>4, <2>2, <2>7
  <2>9. \A k \in 1 .. m : r[k] = a[k]
    <3> TAKE k \in 1 .. m
    <3>1. k \in 1 .. Len(d)
      BY <2>2, <2>6
    <3> QED
      BY <1>4, <2>2, <2>5, <2>6, <2>8, <3>1
  <2>10. r[m + 1] = a[m + 1]
    <3>1. m + 1 \in 1 .. Len(d)
      BY <2>2, <2>6
    <3> QED
      BY <1>4, <2>5, <2>6, <2>8, <3>1
  <2>11. \A k \in 1 .. m + 1 : k \in 1 .. m \/ k = m + 1
    BY <2>2
  <2>12. r = a
    BY <2>5, <2>6, <2>8, <2>9, <2>10, <2>11, SameList
  <2> QED
    BY <2>1, <2>3, <2>7, <2>12
<1>17. ShownKids' = Forest!With(f, id, <<>>)
  <2>1. PICK g : g = Forest!With(f, id, <<>>)
    OBVIOUS
  <2>2. DOMAIN f = S \cup {NoID} /\ \A x \in S \cup {NoID} : f[x] = IF x = P THEN Append(ShownKids[P], id) ELSE ShownKids[x]
    BY <1>8, <1>9, <1>11, <1>15 DEF ShownPoints, IsFunction
  <2>3. IsFunction(g) /\ DOMAIN g = S \cup {NoID} \cup {id} /\ g[id] = <<>> /\ \A x \in S \cup {NoID} : g[x] = f[x]
    BY <1>4, <1>10, <2>1, <2>2 DEF Forest!With, IsFunction
  <2>4. ASSUME NEW x \in S \cup {NoID} \cup {id} PROVE ShownKids'[x] = g[x]
    <3>1. CASE x = id
      <4>1. ShownKids'[id] = ChildIDs(n)'
        BY <1>7, <1>9, <1>12 DEF ShownPoints
      <4>2. ChildIDs(n)' \in Seq(ID) /\ Len(ChildIDs(n)') = Len(children'[n])
        BY <1>2, <1>7 DEF ListsShown
      <4>3. ChildIDs(n)' = <<>>
        BY <1>4, <4>2
      <4> QED
        BY <2>3, <3>1, <4>1, <4>3
    <3>2. CASE x # id
      <4>1. PICK j \in Live \cup {Root} : x = IDOf(j)
        BY <1>9, <1>10, <2>4, <3>2 DEF Named
      <4>2. ShownKids[x] = ChildIDs(j) /\ ShownKids'[x] = ChildIDs(j)'
        BY <1>7, <1>9, <1>12, <4>1 DEF ShownPoints
      <4>3. x = P <=> j = p
        BY <1>2, <1>8, <1>9, <4>1 DEF Named
      <4>4. CASE j = p
        BY <1>16, <2>2, <2>3, <2>4, <3>2, <4>2, <4>3, <4>4
      <4>5. CASE j # p
        <5>1. ChildIDs(j)' = ChildIDs(j)
          <6>1. children'[j] = children[j]
            BY <1>4, <4>1, <4>5
          <6>2. /\ ChildIDs(j) \in Seq(ID) /\ Len(ChildIDs(j)) = Len(children[j])
                /\ \A k \in 1 .. Len(children[j]) : ChildIDs(j)[k] = comp[children[j][k]].cuid /\ children[j][k] \in Live
            BY <1>2, <1>7 DEF ListsShown
          <6>3. /\ ChildIDs(j)' \in Seq(ID) /\ Len(ChildIDs(j)') = Len(children[j])
                /\ \A k \in 1 .. Len(children[j]) : ChildIDs(j)'[k] = comp'[children[j][k]].cuid
            BY <1>2, <1>7, <6>1 DEF ListsShown
          <6>4. \A k \in 1 .. Len(children[j]) : ChildIDs(j)'[k] = ChildIDs(j)[k]
            BY <1>4, <6>2, <6>3
          <6> QED
            BY <6>2, <6>3, <6>4, SameList
        <5> QED
          BY <2>2, <2>3, <2>4, <3>2, <4>2, <4>3, <4>5, <5>1
      <4> QED
        BY <4>4, <4>5
    <3> QED
      BY <3>1, <3>2
  <2>5. IsFunction(ShownKids') /\ DOMAIN ShownKids' = S \cup {NoID} \cup {id}
    BY <1>9, <1>10 DEF ShownPoints, IsFunction
  <2> QED
    BY <2>1, <2>3, <2>4, <2>5, SameFunction
<1>18. id \in ShownUsed' \ ShownUsed /\ ShownUsed' = ShownUsed \cup {id} /\ id \in ID \ {NoID}
  BY <1>4, <1>5, <1>6
<1>19. P \in Forest!Nodes \cup {NoID}
  BY <1>8, <1>9, <1>11 DEF Forest!Nodes, ShownPoints
<1> QED
  BY <1>13, <1>14, <1>15, <1>17, <1>18, <1>19 DEF Forest!Create

\* A subtree that is shown is the same in the forest.
LEMMA ForestSubtree ==
    ASSUME TreeInv, ShownKnown, NEW i \in Visible, NEW U, U = Subtree(i), U \subseteq Visible
    PROVE  Forest!Subtree(comp[i].cuid) = IDsOf(U)
<1>1. ShownPoints /\ Named /\ ShownLinks
  BY DEF ShownKnown
<1>2. Visible \subseteq Live /\ i \in Live
  BY <1>1 DEF ShownLinks
<1>3. /\ U \subseteq Live /\ i \in U
      /\ \A k \in Live : comp[k].parent \in U <=> k \in U /\ k # i
      /\ \A X \in SUBSET Live :
            i \in X /\ (\A k \in Live : comp[k].parent \in X => k \in X) => U \subseteq X
  BY <1>2, SubtreeExact DEF TreeInv
<1>4. PICK N, c, F : N = IDsOf(Visible) /\ c = comp[i].cuid /\ F = Forest!Subtree(c)
  OBVIOUS
<1>5. F = {x \in N : \A S \in SUBSET N : c \in S /\ (\A k \in N : ShownParent[k] \in S => k \in S) => x \in S}
  BY <1>1, <1>4 DEF Forest!Subtree, ShownPoints
<1>6. /\ \A j \in Visible : comp[j].cuid \in N /\ ShownParent[comp[j].cuid] = IDOf(comp[j].parent)
      /\ \A x \in N : \E j \in Visible : x = comp[j].cuid
  BY <1>1, <1>4 DEF ShownPoints
<1>7. \A j \in Visible : comp[j].parent \in Visible \cup {Root}
  BY <1>1 DEF ShownLinks
<1>8. /\ \A j \in Live : IDOf(j) = comp[j].cuid /\ comp[j].cuid # NoID /\ comp[j].cuid.index = j
      /\ IDOf(Root) = NoID
  BY <1>1 DEF Named
<1>9. PICK S : S = IDsOf(U)
  OBVIOUS
<1>10. /\ S \subseteq N /\ c \in S
       /\ \A j \in Visible : comp[j].cuid \in S <=> j \in U
       /\ NoID \notin S
       /\ \A x \in S : \E j \in U : x = comp[j].cuid
  BY <1>2, <1>3, <1>4, <1>6, <1>8, <1>9 DEF IDsOf
<1>11. F \subseteq S
  <2>1. ASSUME NEW k \in N, ShownParent[k] \in S PROVE k \in S
    <3>1. PICK j \in Visible : k = comp[j].cuid
      BY <1>6
    <3>2. IDOf(comp[j].parent) \in S
      BY <1>6, <2>1, <3>1
    <3>3. comp[j].parent \in Visible
      BY <1>7, <1>8, <1>10, <3>2
    <3>4. comp[j].parent \in U
      BY <1>2, <1>8, <1>10, <3>2, <3>3
    <3> QED
      BY <1>2, <1>3, <1>10, <3>1, <3>4
  <2>2. S \in SUBSET N
    BY <1>10
  <2> QED
    BY <1>5, <1>10, <2>1, <2>2
<1>12. S \subseteq F
  <2> SUFFICES ASSUME NEW x \in S, NEW T \in SUBSET N, c \in T, \A k \in N : ShownParent[k] \in T => k \in T
               PROVE  x \in T
    BY <1>5, <1>10
  <2>1. PICK X : X = {j \in U : comp[j].cuid \in T}
    OBVIOUS
  <2>2. X \in SUBSET Live /\ i \in X
    BY <1>3, <1>4, <2>1
  <2>3. ASSUME NEW k \in Live, comp[k].parent \in X PROVE k \in X
    <3>1. comp[k].parent \in U /\ comp[comp[k].parent].cuid \in T
      BY <2>1, <2>3
    <3>2. k \in U /\ k \in Visible
      BY <1>3, <3>1
    <3>3. ShownParent[comp[k].cuid] \in T /\ comp[k].cuid \in N
      BY <1>3, <1>6, <1>8, <3>1, <3>2
    <3> QED
      BY <2>1, <3>2, <3>3
  <2>4. U \subseteq X
    BY <1>3, <2>2, <2>3
  <2> QED
    BY <1>10, <2>1, <2>4
<1> QED
  BY <1>4, <1>9, <1>11, <1>12

\* A component leaves the list of its parent: the same in both.
LEMMA ListWithout ==
    ASSUME TreeInv, op # "cloning", NEW j \in Visible \cup {Root}, NEW d, In(children[j], d),
           ListsShown, NEW w, w = Without(children[j], d),
           NEW g, g = Forest!Without(ChildIDs(j), comp[d].cuid)
    PROVE  /\ w \in Seq(Index) /\ g \in Seq(ID) /\ Len(g) = Len(w)
           /\ \A k \in 1 .. Len(w) : g[k] = comp[w[k]].cuid /\ w[k] \in Visible
<1>1. PICK c, l, n : c = children[j] /\ l = ChildIDs(j) /\ n = Len(c)
  OBVIOUS
<1>2. /\ c \in Seq(Index) /\ l \in Seq(ID) /\ n \in Nat /\ Len(l) = n /\ DOMAIN l = 1 .. n /\ DOMAIN c = 1 .. n
      /\ \A k \in 1 .. n : l[k] = comp[c[k]].cuid /\ c[k] \in Visible
      /\ NoRepeat(l)
  BY <1>1 DEF ListsShown
<1>3. PICK k \in 1 .. n : c[k] = d
  BY <1>1, <1>2 DEF In
<1>4. l[k] = comp[d].cuid
  BY <1>2, <1>3
<1>5. NoRepeat(c)
  BY <1>2 DEF NoRepeat
<1>6. w = [h \in 1 .. n - 1 |-> IF h < k THEN c[h] ELSE c[h + 1]]
  <2>1. k \in DOMAIN c /\ c \in Seq(Index)
    BY <1>2
  <2>2. Without(c, c[k]) = [h \in 1 .. Len(c) - 1 |-> IF h < k THEN c[h] ELSE c[h + 1]]
    BY <1>5, <2>1, WithoutAt
  <2> QED
    BY <1>1, <1>3, <2>2
<1>7. g = [h \in 1 .. n - 1 |-> IF h < k THEN l[h] ELSE l[h + 1]]
  <2>1. k \in DOMAIN l /\ l \in Seq(ID) /\ NoRepeat(l)
    BY <1>2
  <2>2. Forest!Without(l, l[k]) = [h \in 1 .. Len(l) - 1 |-> IF h < k THEN l[h] ELSE l[h + 1]]
    BY <2>1, WithoutAt
  <2> QED
    BY <1>1, <1>2, <1>4, <2>2
<1>8. n - 1 \in Nat
  BY <1>2
<1>9. ASSUME NEW h \in 1 .. n - 1
      PROVE  w[h] \in Index /\ g[h] \in ID /\ g[h] = comp[w[h]].cuid /\ w[h] \in Visible
  <2>1. CASE h < k
    <3>1. h \in 1 .. n /\ w[h] = c[h] /\ g[h] = l[h]
      BY <1>2, <1>6, <1>7, <2>1
    <3> QED
      BY <1>2, <3>1
  <2>2. CASE ~(h < k)
    <3>1. h + 1 \in 1 .. n /\ w[h] = c[h + 1] /\ g[h] = l[h + 1]
      BY <1>2, <1>6, <1>7, <2>2
    <3> QED
      BY <1>2, <3>1
  <2> QED
    BY <2>1, <2>2
<1>10. w \in Seq(Index) /\ Len(w) = n - 1
  BY <1>6, <1>8, <1>9
<1>11. g \in Seq(ID) /\ Len(g) = n - 1
  BY <1>7, <1>8, <1>9
<1> QED
  BY <1>9, <1>10, <1>11

\* A subtree is gone from the forest when it is detached.
LEMMA DetachShown ==
    ASSUME IDInv, TreeInv, ShownKnown, ListsShown, TreeInv', ShownKnown', ListsShown', Detach
    PROVE  UNCHANGED ShownUsed /\ \E c \in Forest!Nodes : Forest!DestroySubtree(c)
<1>1. PICK d, p, U, c : d = doomed[1] /\ p = comp[d].parent /\ U = Subtree(d) /\ c = comp[d].cuid
  OBVIOUS
<1>2. /\ op = "popping" /\ op' = "freeing" /\ issued' = issued /\ doomed' = doomed
      /\ children' = [children EXCEPT ![p] = Without(@, d)]
      /\ comp' = [comp EXCEPT ![d].parent = Adrift]
  BY <1>1 DEF Detach
<1>3. d \in Live /\ Live' = Live /\ Subtree(d)' = U
  BY <1>1, DetachedSubtree
<1>4. /\ comp \in [Index -> [cuid : ID, type : Types, parent : Index \cup {Root, Adrift}]]
      /\ children \in [Index \cup {Root} -> Seq(Index)]
  BY DEF TreeInv, TreeTypes
<1>5. \A k \in Live : /\ comp'[k].cuid = comp[k].cuid /\ comp'[k].type = comp[k].type
                      /\ k # d => comp'[k].parent = comp[k].parent
  BY <1>2, <1>3, <1>4, IndexTypes
<1>6. /\ U \subseteq Live /\ d \in U
      /\ \A k \in Live : comp[k].parent \in U <=> k \in U /\ k # d
  BY <1>1, <1>3, SubtreeExact DEF TreeInv
<1>7. Visible = Live /\ Visible' = Live \ U
  BY <1>1, <1>2, <1>3 DEF Visible, Hidden
<1>8. ShownUsed' = ShownUsed
  BY <1>2 DEF ShownUsed, HiddenIDs
<1>9. ShownPoints /\ ShownPoints' /\ Named /\ Named' /\ ShownLinks /\ ShownLinks'
  BY DEF ShownKnown
<1>10. /\ \A j \in Live : IDOf(j) = comp[j].cuid /\ comp[j].cuid # NoID /\ comp[j].cuid.index = j
       /\ IDOf(Root) = NoID
  BY <1>9 DEF Named
<1>11. p \in Live \cup {Root} /\ p \in Index \cup {Root} /\ p \notin U
  <2>1. p \in Live \cup {Root}
    BY <1>1, <1>3, <1>7, <1>9 DEF ShownLinks
  <2>2. p \notin U
    BY <1>1, <1>3, <1>6
  <2> QED
    BY <2>1, <2>2, IndexTypes
<1>12. children'[p] = Without(children[p], d) /\ \A q \in Live \cup {Root} : q # p => children'[q] = children[q]
  BY <1>2, <1>4, <1>11, IndexTypes
<1>13. PICK N, R : N = IDsOf(Visible) /\ R = IDsOf(Visible)'
  OBVIOUS
<1>14. /\ R = N \ IDsOf(U)
       /\ \A x \in N : \E j \in Live : x = comp[j].cuid
       /\ \A x \in R : x \in N /\ \E j \in Live \ U : x = comp[j].cuid
       /\ c \in N
  <2>1. N = {comp[k].cuid : k \in Live} /\ R = {comp'[k].cuid : k \in Live \ U} /\ IDsOf(U) = {comp[k].cuid : k \in U}
    BY <1>7, <1>13 DEF IDsOf
  <2>2. R = {comp[k].cuid : k \in Live \ U}
    BY <1>5, <2>1
  <2>3. R = N \ IDsOf(U)
    <3>1. \A k \in Live : comp[k].cuid \in IDsOf(U) <=> k \in U
      BY <1>6, <1>10, <2>1
    <3> QED
      BY <2>1, <2>2, <3>1
  <2> QED
    BY <1>1, <1>3, <2>1, <2>2, <2>3
<1>15. R = Forest!Nodes \ Forest!Subtree(c) /\ c \in Forest!Nodes
  <2>1. Forest!Nodes = N
    BY <1>9, <1>13 DEF Forest!Nodes, ShownPoints
  <2>2. Forest!Subtree(c) = IDsOf(U)
    BY <1>1, <1>3, <1>6, <1>7, ForestSubtree
  <2> QED
    BY <1>14, <2>1, <2>2
<1>16. ShownType' = Forest!Restrict(ShownType, R)
  <2>1. PICK g : g = Forest!Restrict(ShownType, R)
    OBVIOUS
  <2>2. IsFunction(g) /\ DOMAIN g = R /\ \A x \in R : g[x] = ShownType[x]
    BY <2>1 DEF Forest!Restrict, IsFunction
  <2>3. ASSUME NEW x \in R PROVE ShownType'[x] = g[x]
    <3>1. PICK j \in Live \ U : x = comp[j].cuid
      BY <1>14
    <3>2. ShownType[comp[j].cuid] = comp[j].type /\ ShownType'[comp'[j].cuid] = comp'[j].type
      BY <1>7, <1>9 DEF ShownPoints
    <3> QED
      BY <1>5, <2>2, <3>1, <3>2
  <2>4. IsFunction(ShownType') /\ DOMAIN ShownType' = R
    BY <1>9, <1>13 DEF ShownPoints, IsFunction
  <2> QED
    BY <2>1, <2>2, <2>3, <2>4, SameFunction
<1>17. \A j \in Live \cup {Root} : IDOf(j)' = IDOf(j)
  BY <1>5, <1>10 DEF IDOf
<1>18. ShownParent' = Forest!Restrict(ShownParent, R)
  <2>1. PICK g : g = Forest!Restrict(ShownParent, R)
    OBVIOUS
  <2>2. IsFunction(g) /\ DOMAIN g = R /\ \A x \in R : g[x] = ShownParent[x]
    BY <2>1 DEF Forest!Restrict, IsFunction
  <2>3. ASSUME NEW x \in R PROVE ShownParent'[x] = g[x]
    <3>1. PICK j \in Live \ U : x = comp[j].cuid
      BY <1>14
    <3>2. ShownParent[comp[j].cuid] = IDOf(comp[j].parent) /\ ShownParent'[comp'[j].cuid] = IDOf(comp[j].parent)'
      BY <1>7, <1>9 DEF ShownPoints
    <3>3. comp[j].parent \in Live \cup {Root} /\ comp'[j].parent = comp[j].parent
      BY <1>5, <1>6, <1>7, <1>9, <3>1 DEF ShownLinks
    <3>4. IDOf(comp[j].parent)' = IDOf(comp[j].parent)
      <4>1. PICK q : q = comp[j].parent
        OBVIOUS
      <4>2. IDOf(comp[j].parent)' = IDOf(q)'
        BY <3>3, <4>1 DEF IDOf
      <4> QED
        BY <1>17, <3>3, <4>1, <4>2
    <3> QED
      BY <1>5, <2>2, <3>1, <3>2, <3>4
  <2>4. IsFunction(ShownParent') /\ DOMAIN ShownParent' = R
    BY <1>9, <1>13 DEF ShownPoints, IsFunction
  <2> QED
    BY <2>1, <2>2, <2>3, <2>4, SameFunction
<1>19. ASSUME NEW j \in (Live \ U) \cup {Root}
       PROVE  ChildIDs(j)' = IF j = p THEN Forest!Without(ChildIDs(j), c) ELSE ChildIDs(j)
  <2>1. PICK r : r = ChildIDs(j)'
    OBVIOUS
  <2>2. /\ r \in Seq(ID) /\ Len(r) = Len(children'[j])
        /\ \A k \in 1 .. Len(children'[j]) : r[k] = comp'[children'[j][k]].cuid
    BY <1>2, <1>7, <2>1 DEF ListsShown
  <2>3. CASE j = p
    <3>1. PICK w, g : w = Without(children[j], d) /\ g = Forest!Without(ChildIDs(j), c)
      OBVIOUS
    <3>2. In(children[j], d)
      BY <1>1, <1>3, <1>11, <2>3 DEF TreeInv, LinksAgree
    <3>3. /\ g \in Seq(ID) /\ Len(g) = Len(w)
          /\ \A k \in 1 .. Len(w) : g[k] = comp[w[k]].cuid /\ w[k] \in Live
      BY <1>1, <1>2, <1>7, <3>1, <3>2, ListWithout
    <3>4. children'[j] = w
      BY <1>12, <2>3, <3>1
    <3>5. \A k \in 1 .. Len(r) : r[k] = g[k]
      BY <1>5, <2>2, <3>3, <3>4
    <3>6. r = g
      BY <2>2, <3>3, <3>4, <3>5, SameList
    <3> QED
      BY <2>1, <2>3, <3>1, <3>6
  <2>4. CASE j # p
    <3>1. children'[j] = children[j]
      BY <1>12, <2>4
    <3>2. PICK l : l = ChildIDs(j)
      OBVIOUS
    <3>3. /\ l \in Seq(ID) /\ Len(l) = Len(children[j])
          /\ \A k \in 1 .. Len(children[j]) : l[k] = comp[children[j][k]].cuid /\ children[j][k] \in Live
      BY <1>2, <1>7, <3>2 DEF ListsShown
    <3>4. \A k \in 1 .. Len(r) : r[k] = l[k]
      BY <1>5, <2>2, <3>1, <3>3
    <3>5. r = l
      BY <2>2, <3>1, <3>3, <3>4, SameList
    <3> QED
      BY <2>1, <2>4, <3>2, <3>5
  <2> QED
    BY <2>3, <2>4
<1>20. ShownKids' = [n \in R \cup {NoID} |->
                        IF n = ShownParent[c] THEN Forest!Without(ShownKids[n], c) ELSE ShownKids[n]]
  <2>1. PICK g : g = [n \in R \cup {NoID} |->
                        IF n = ShownParent[c] THEN Forest!Without(ShownKids[n], c) ELSE ShownKids[n]]
    OBVIOUS
  <2>2. IsFunction(g) /\ DOMAIN g = R \cup {NoID}
    BY <2>1 DEF IsFunction
  <2>3. ASSUME NEW x \in R \cup {NoID} PROVE ShownKids'[x] = g[x]
    <3>1. PICK j \in (Live \ U) \cup {Root} : x = IDOf(j)
      BY <1>10, <1>14
    <3>2. ShownKids[IDOf(j)] = ChildIDs(j) /\ ShownKids'[IDOf(j)'] = ChildIDs(j)'
      BY <1>7, <1>9 DEF ShownPoints
    <3>3. ShownParent[c] = IDOf(p)
      BY <1>1, <1>3, <1>7, <1>9 DEF ShownPoints
    <3>4. x = ShownParent[c] <=> j = p
      BY <1>9, <1>11, <3>1, <3>3 DEF Named
    <3>5. g[x] = IF x = ShownParent[c] THEN Forest!Without(ShownKids[x], c) ELSE ShownKids[x]
      BY <2>1
    <3> QED
      BY <1>17, <1>19, <3>1, <3>2, <3>4, <3>5
  <2>4. IsFunction(ShownKids') /\ DOMAIN ShownKids' = R \cup {NoID}
    BY <1>9, <1>13 DEF ShownPoints, IsFunction
  <2> QED
    BY <2>1, <2>2, <2>3, <2>4, SameFunction
<1>21. Forest!DestroySubtree(c)
  BY <1>15, <1>16, <1>18, <1>20 DEF Forest!DestroySubtree
<1> QED
  BY <1>8, <1>15, <1>21

\* A subtree moves to the end of another list.
LEMMA ReparentShown ==
    ASSUME IDInv, TreeInv, ShownKnown, ListsShown, TreeInv', ShownKnown', ListsShown',
           NEW i \in Index, NEW p \in Index, ReparentComponentSubtree(i, p)
    PROVE  UNCHANGED ShownUsed /\ \E c, t \in Forest!Nodes : Forest!Reparent(c, t)
<1>1. PICK from, c, P, U : from = comp[i].parent /\ c = comp[i].cuid /\ P = comp[p].cuid /\ U = Subtree(i)
  OBVIOUS
<1>2. PICK left : left = [children EXCEPT ![from] = Without(@, i)]
  OBVIOUS
<1>3. /\ op = "none" /\ op' \in {"none", "moving"} /\ issued' = issued
      /\ i \in Live /\ p \in Live /\ p \notin U
      /\ children' = [left EXCEPT ![p] = Append(@, i)]
      /\ comp' = [comp EXCEPT ![i].parent = p]
  BY <1>1, <1>2 DEF ReparentComponentSubtree
<1>4. /\ comp \in [Index -> [cuid : ID, type : Types, parent : Index \cup {Root, Adrift}]]
      /\ children \in [Index \cup {Root} -> Seq(Index)]
  BY DEF TreeInv, TreeTypes
<1>5. /\ \A k \in Live : /\ comp'[k].cuid = comp[k].cuid /\ comp'[k].type = comp[k].type
                         /\ k # i => comp'[k].parent = comp[k].parent
      /\ comp'[i].parent = p
      /\ Live' = Live
  <2>1. \A k \in Index : /\ comp'[k].cuid = comp[k].cuid /\ comp'[k].type = comp[k].type
                         /\ k # i => comp'[k].parent = comp[k].parent
    BY <1>3, <1>4
  <2>2. comp'[i].parent = p
    BY <1>3, <1>4
  <2> QED
    BY <2>1, <2>2, IndexTypes DEF Live
<1>6. Visible = Live /\ Visible' = Live
  BY <1>3, <1>5 DEF Visible, Hidden
<1>7. ShownUsed' = ShownUsed
  BY <1>3 DEF ShownUsed, HiddenIDs
<1>8. ShownPoints /\ ShownPoints' /\ Named /\ Named' /\ ShownLinks /\ ShownLinks'
  BY DEF ShownKnown
<1>9. /\ \A j \in Live : IDOf(j) = comp[j].cuid /\ comp[j].cuid # NoID /\ comp[j].cuid.index = j
      /\ IDOf(Root) = NoID
  BY <1>8 DEF Named
<1>10. from \in Live \cup {Root} /\ from \in Index \cup {Root}
  BY <1>1, <1>3, <1>6, <1>8, IndexTypes DEF ShownLinks
<1>11. /\ left[from] = Without(children[from], i)
       /\ \A q \in Live \cup {Root} : q # from => left[q] = children[q]
       /\ children'[p] = Append(left[p], i)
       /\ \A q \in Live \cup {Root} : q # p => children'[q] = left[q]
  BY <1>2, <1>3, <1>4, <1>10, IndexTypes
<1>12. PICK N : N = IDsOf(Visible)
  OBVIOUS
<1>13. /\ IDsOf(Visible)' = N
       /\ \A x \in N : \E j \in Live : x = comp[j].cuid
       /\ \A j \in Live : comp[j].cuid \in N
       /\ c \in N /\ P \in N /\ Forest!Nodes = N
  <2>1. N = {comp[k].cuid : k \in Live} /\ IDsOf(Visible)' = {comp'[k].cuid : k \in Live}
    BY <1>6, <1>12 DEF IDsOf
  <2>2. Forest!Nodes = N
    BY <1>8, <1>12 DEF Forest!Nodes, ShownPoints
  <2> QED
    BY <1>1, <1>3, <1>5, <2>1, <2>2
<1>14. P \notin Forest!Subtree(c)
  <2>1. U \subseteq Live
    BY <1>1, <1>3, SubtreeIs
  <2>2. Forest!Subtree(c) = IDsOf(U)
    BY <1>1, <1>3, <1>6, <2>1, ForestSubtree
  <2>3. P \notin IDsOf(U)
    BY <1>1, <1>3, <1>9, <2>1 DEF IDsOf
  <2> QED
    BY <2>2, <2>3
<1>15. ShownType' = ShownType
  <2>1. ASSUME NEW x \in N PROVE ShownType'[x] = ShownType[x]
    <3>1. PICK j \in Live : x = comp[j].cuid
      BY <1>13
    <3>2. ShownType[comp[j].cuid] = comp[j].type /\ ShownType'[comp'[j].cuid] = comp'[j].type
      BY <1>6, <1>8 DEF ShownPoints
    <3> QED
      BY <1>5, <3>1, <3>2
  <2>2. DOMAIN ShownType = N /\ DOMAIN ShownType' = N /\ IsFunction(ShownType) /\ IsFunction(ShownType')
    BY <1>8, <1>12, <1>13 DEF ShownPoints, IsFunction
  <2> QED
    BY <2>1, <2>2, SameFunction
<1>16. \A j \in Live \cup {Root} : IDOf(j)' = IDOf(j)
  BY <1>5, <1>9 DEF IDOf
<1>17. ShownParent' = [ShownParent EXCEPT ![c] = P]
  <2>1. PICK g : g = [ShownParent EXCEPT ![c] = P]
    OBVIOUS
  <2>2. IsFunction(g) /\ DOMAIN g = N /\ \A x \in N : g[x] = IF x = c THEN P ELSE ShownParent[x]
    BY <1>8, <1>12, <2>1 DEF IsFunction, ShownPoints
  <2>3. ASSUME NEW x \in N PROVE ShownParent'[x] = g[x]
    <3>1. PICK j \in Live : x = comp[j].cuid
      BY <1>13
    <3>2. ShownParent[comp[j].cuid] = IDOf(comp[j].parent) /\ ShownParent'[comp'[j].cuid] = IDOf(comp[j].parent)'
      BY <1>6, <1>8 DEF ShownPoints
    <3>3. PICK q : q = comp'[j].parent
      OBVIOUS
    <3>4. IDOf(comp[j].parent)' = IDOf(q)'
      BY <3>3 DEF IDOf
    <3>5. CASE j = i
      <4>1. q = p /\ x = c
        BY <1>1, <1>5, <3>1, <3>3, <3>5
      <4>2. IDOf(q)' = P
        BY <1>1, <1>3, <1>9, <1>16, <4>1
      <4> QED
        BY <1>5, <2>2, <3>1, <3>2, <3>4, <4>1, <4>2
    <3>6. CASE j # i
      <4>1. q = comp[j].parent
        BY <1>5, <3>3, <3>6
      <4>2. comp[j].parent \in Live \cup {Root}
        BY <1>3, <1>6, <1>8 DEF ShownLinks
      <4>3. x # c
        BY <1>1, <1>3, <1>9, <3>1, <3>6
      <4>4. IDOf(q)' = IDOf(comp[j].parent)
        BY <1>16, <4>1, <4>2
      <4> QED
        BY <1>5, <2>2, <3>1, <3>2, <3>4, <4>1, <4>3, <4>4
    <3> QED
      BY <3>5, <3>6
  <2>4. IsFunction(ShownParent') /\ DOMAIN ShownParent' = N
    BY <1>8, <1>13 DEF ShownPoints, IsFunction
  <2> QED
    BY <2>1, <2>2, <2>3, <2>4, SameFunction
<1>18. PICK gone : gone = [ShownKids EXCEPT ![ShownParent[c]] = Forest!Without(@, c)]
  OBVIOUS
<1>19. ShownParent[c] = IDOf(from) /\ IDOf(from) \in N \cup {NoID}
  BY <1>1, <1>3, <1>6, <1>8, <1>9, <1>10, <1>13 DEF ShownPoints
<1>20. /\ DOMAIN gone = N \cup {NoID} /\ IsFunction(gone)
       /\ \A x \in N \cup {NoID} :
             gone[x] = IF x = IDOf(from) THEN Forest!Without(ShownKids[x], c) ELSE ShownKids[x]
  BY <1>8, <1>12, <1>18, <1>19 DEF ShownPoints, IsFunction
<1>21. ASSUME NEW j \in Live \cup {Root}
       PROVE  /\ left[j] \in Seq(Index) /\ gone[IDOf(j)] \in Seq(ID) /\ Len(gone[IDOf(j)]) = Len(left[j])
              /\ \A k \in 1 .. Len(left[j]) : gone[IDOf(j)][k] = comp[left[j][k]].cuid /\ left[j][k] \in Live
  <2>1. PICK l, x : l = ChildIDs(j) /\ x = IDOf(j)
    OBVIOUS
  <2>2. ShownKids[x] = l /\ x \in N \cup {NoID}
    BY <1>6, <1>8, <1>9, <1>13, <2>1 DEF ShownPoints
  <2>3. x = IDOf(from) <=> j = from
    BY <1>8, <1>10, <2>1 DEF Named
  <2>4. CASE j = from
    <3>1. PICK w, g : w = Without(children[j], i) /\ g = Forest!Without(l, c)
      OBVIOUS
    <3>2. In(children[j], i)
      BY <1>1, <1>3, <1>10, <2>4 DEF TreeInv, LinksAgree
    <3>3. /\ w \in Seq(Index) /\ g \in Seq(ID) /\ Len(g) = Len(w)
          /\ \A k \in 1 .. Len(w) : g[k] = comp[w[k]].cuid /\ w[k] \in Live
      BY <1>1, <1>3, <1>6, <2>1, <3>1, <3>2, ListWithout
    <3>4. left[j] = w /\ gone[x] = g
      BY <1>11, <1>20, <2>2, <2>3, <2>4, <3>1
    <3> QED
      BY <2>1, <3>3, <3>4
  <2>5. CASE j # from
    <3>1. left[j] = children[j] /\ gone[x] = l
      BY <1>11, <1>20, <2>2, <2>3, <2>5
    <3>2. /\ children[j] \in Seq(Index) /\ l \in Seq(ID) /\ Len(l) = Len(children[j])
          /\ \A k \in 1 .. Len(children[j]) : l[k] = comp[children[j][k]].cuid /\ children[j][k] \in Live
      BY <1>3, <1>6, <2>1 DEF ListsShown
    <3> QED
      BY <2>1, <3>1, <3>2
  <2> QED
    BY <2>4, <2>5
<1>22. ShownKids' = [gone EXCEPT ![P] = Append(@, c)]
  <2>1. PICK g : g = [gone EXCEPT ![P] = Append(@, c)]
    OBVIOUS
  <2>2. IsFunction(g) /\ DOMAIN g = N \cup {NoID}
        /\ \A x \in N \cup {NoID} : g[x] = IF x = P THEN Append(gone[x], c) ELSE gone[x]
    BY <1>13, <1>20, <2>1 DEF IsFunction
  <2>3. ASSUME NEW x \in N \cup {NoID} PROVE ShownKids'[x] = g[x]
    <3>1. PICK j \in Live \cup {Root} : x = IDOf(j)
      BY <1>9, <1>13
    <3>2. PICK r, l, w : r = ChildIDs(j)' /\ l = gone[x] /\ w = left[j]
      OBVIOUS
    <3>3. ShownKids'[x] = r
      BY <1>6, <1>8, <1>16, <3>1, <3>2 DEF ShownPoints
    <3>4. /\ w \in Seq(Index) /\ l \in Seq(ID) /\ Len(l) = Len(w)
          /\ \A k \in 1 .. Len(w) : l[k] = comp[w[k]].cuid /\ w[k] \in Live
      BY <1>21, <3>1, <3>2
    <3>5. /\ r \in Seq(ID) /\ Len(r) = Len(children'[j])
          /\ \A k \in 1 .. Len(children'[j]) : r[k] = comp'[children'[j][k]].cuid
      BY <1>3, <1>6, <3>2 DEF ListsShown
    <3>6. x = P <=> j = p
      BY <1>1, <1>3, <1>8, <1>9, <3>1 DEF Named
    <3>7. CASE j = p
      <4>1. PICK m, d, a : m = Len(w) /\ d = Append(w, i) /\ a = Append(l, c)
        OBVIOUS
      <4>2. c \in ID
        BY <1>1, <1>3, <1>8 DEF Named
      <4>3. m \in Nat /\ Len(d) = m + 1 /\ d[m + 1] = i /\ \A k \in 1 .. m : d[k] = w[k]
        BY <1>3, <3>4, <4>1, IndexTypes
      <4>4. a \in Seq(ID) /\ Len(a) = m + 1 /\ a[m + 1] = c /\ \A k \in 1 .. m : a[k] = l[k]
        BY <3>4, <4>1, <4>2
      <4>5. children'[j] = d
        BY <1>11, <3>2, <3>7, <4>1
      <4>6. \A k \in 1 .. m : r[k] = a[k]
        <5> TAKE k \in 1 .. m
        <5>1. k \in 1 .. m + 1
          BY <4>3
        <5>2. PICK v : v = w[k]
          OBVIOUS
        <5>3. v \in Live /\ l[k] = comp[v].cuid /\ a[k] = l[k] /\ d[k] = v
          BY <3>4, <4>1, <4>3, <4>4, <5>2
        <5>4. r[k] = comp'[d[k]].cuid
          BY <3>5, <4>3, <4>5, <5>1
        <5>5. comp'[v].cuid = comp[v].cuid
          BY <1>5, <5>3
        <5> QED
          BY <5>3, <5>4, <5>5
      <4>7. r[m + 1] = a[m + 1]
        <5>1. m + 1 \in 1 .. m + 1
          BY <4>3
        <5> QED
          BY <1>1, <1>3, <1>5, <3>5, <4>3, <4>4, <4>5, <5>1
      <4>8. \A k \in 1 .. m + 1 : k \in 1 .. m \/ k = m + 1
        BY <4>3
      <4>9. r = a
        BY <3>5, <4>3, <4>4, <4>5, <4>6, <4>7, <4>8, SameList
      <4> QED
        BY <2>2, <3>2, <3>3, <3>6, <3>7, <4>1, <4>9
    <3>8. CASE j # p
      <4>1. children'[j] = w
        BY <1>11, <3>2, <3>8
      <4>2. \A k \in 1 .. Len(r) : r[k] = l[k]
        BY <1>5, <3>4, <3>5, <4>1
      <4>3. r = l
        BY <3>4, <3>5, <4>1, <4>2, SameList
      <4> QED
        BY <2>2, <3>2, <3>3, <3>6, <3>8, <4>3
    <3> QED
      BY <3>7, <3>8
  <2>4. IsFunction(ShownKids') /\ DOMAIN ShownKids' = N \cup {NoID}
    BY <1>8, <1>13 DEF ShownPoints, IsFunction
  <2> QED
    BY <2>1, <2>2, <2>3, <2>4, SameFunction
<1>23. Forest!Reparent(c, P)
  BY <1>14, <1>15, <1>17, <1>18, <1>22 DEF Forest!Reparent
<1> QED
  BY <1>7, <1>13, <1>23

\* The copy below t is finished: f takes the subtree U of s to T, that of t.
WholeCopy(U, T, f, s, t, p) ==
    /\ U = Subtree(s) /\ T = Subtree(t) /\ U \subseteq Live /\ T \subseteq Live
    /\ \A i \in U : i \notin T
    /\ s \in U /\ t \in T /\ f[s] = t
    /\ p = comp[s].parent /\ p = comp[t].parent /\ p \notin U /\ p \notin T
    /\ f \in [U -> T]
    /\ \A i, j \in U : f[i] = f[j] => i = j
    /\ \A k \in T : \E i \in U : f[i] = k
    /\ \A i \in U : comp[f[i]].type = comp[i].type
    /\ \A i \in U : i # s => comp[i].parent \in U /\ comp[f[i]].parent = f[comp[i].parent]
    /\ \A k \in T : k # t => comp[k].parent \in T
    /\ \A i \in U : /\ Len(children[f[i]]) = Len(children[i])
                    /\ \A k \in 1 .. Len(children[i]) :
                          children[i][k] \in U /\ children[f[i]][k] = f[children[i][k]]

\* When the first frame is complete, so is the copy.
LEMMA CopyIsWhole ==
    ASSUME TreeInv, CopyMade, PlaceClone
    PROVE  \E U, T, f : WholeCopy(U, T, f, Top.src, Top.dst, comp[Top.src].parent)
<1>1. PICK s, t, p : s = Top.src /\ t = Top.dst /\ p = comp[s].parent
  OBVIOUS
<1>2. op = "cloning" /\ Len(copying) = 1 /\ Len(children[t]) = Len(children[s])
  BY <1>1 DEF PlaceClone, ChildrenCopied
<1>3. copying \in Seq([src : Index, dst : Index]) /\ DOMAIN copying = 1 .. 1 /\ Top = copying[1]
  BY <1>2 DEF TreeInv, CopyFrames, Top
<1>4. s = copying[1].src /\ t = copying[1].dst
  BY <1>1, <1>3
<1>5. PICK D \in SUBSET Live : \E f \in [D -> Live] : CopyOf(D, f)
  BY <1>2 DEF CopyMade
<1>6. PICK f \in [D -> Live] : CopyOf(D, f)
  BY <1>5
<1>7. PICK U, T : U = Subtree(s) /\ T = Subtree(t)
  OBVIOUS
<1>8. /\ s \in D /\ s \in Live /\ t \in Live /\ f[s] = t /\ s # t
      /\ comp[s].parent = comp[t].parent
      /\ D \subseteq U
      /\ \A i \in D : f[i] \in T
      /\ comp[s].parent \notin U /\ comp[t].parent \notin T
      /\ \A i \in D \ {s} : comp[i].parent \in D /\ comp[f[i]].parent = f[comp[i].parent]
      /\ \A i \in D : f[i] \notin D
  BY <1>2, <1>4, <1>5, <1>6, <1>7, CopyShape
<1>9. /\ \A i, j \in D : f[i] = f[j] => i = j
      /\ \A i \in D : comp[f[i]].type = comp[i].type
      /\ \A i \in D :
           /\ \A k \in DOMAIN children[f[i]] :
                children[i][k] \in D /\ children[f[i]][k] = f[children[i][k]]
           /\ Len(children[f[i]]) = Len(children[i]) \/ \E k \in 1 .. 1 : copying[k].src = i
  BY <1>3, <1>6 DEF CopyOf
<1>10. \A i \in D : Len(children[f[i]]) = Len(children[i])
  <2> TAKE i \in D
  <2>1. CASE \E k \in 1 .. 1 : copying[k].src = i
    <3>1. i = s
      BY <1>4, <2>1
    <3> QED
      BY <1>2, <1>8, <3>1
  <2> QED
    BY <1>9, <2>1
<1>11. \A i \in Live : children[i] \in Seq(Index) /\ DOMAIN children[i] = 1 .. Len(children[i])
  <2>1. \A i \in Live : children[i] \in Seq(Index)
    BY IndexTypes DEF TreeInv, TreeTypes
  <2> QED
    BY <2>1
<1>12. \A i \in D : \A k \in 1 .. Len(children[i]) : children[i][k] \in D /\ children[f[i]][k] = f[children[i][k]]
  BY <1>6, <1>9, <1>10, <1>11
<1>13. ASSUME NEW k \in Live, comp[k].parent \in D PROVE k \in D
  <2>1. PICK i \in D : i = comp[k].parent
    BY <1>13
  <2>2. In(children[i], k)
    BY <1>5, <2>1 DEF TreeInv, LinksAgree
  <2>3. PICK j \in 1 .. Len(children[i]) : children[i][j] = k
    BY <1>5, <1>11, <2>2 DEF In
  <2> QED
    BY <1>12, <2>3
<1>14. U \subseteq Live /\ T \subseteq Live /\ t \in T /\ s \in U /\ U = D
  <2>1. U \subseteq D
    BY <1>7, <1>8, <1>13, SubtreeExact DEF TreeInv
  <2>2. T \subseteq Live /\ t \in T
    BY <1>7, <1>8, SubtreeExact DEF TreeInv
  <2> QED
    BY <1>5, <1>8, <2>1, <2>2
<1>15. PICK R : R = {f[i] : i \in D}
  OBVIOUS
<1>16. ASSUME NEW k \in Live, comp[k].parent \in R PROVE k \in R
  <2>1. PICK i \in D : comp[k].parent = f[i]
    BY <1>15, <1>16
  <2>2. f[i] \in Live
    BY <1>6
  <2>3. In(children[f[i]], k)
    BY <2>1, <2>2 DEF TreeInv, LinksAgree
  <2>4. PICK j \in 1 .. Len(children[i]) : children[f[i]][j] = k
    BY <1>10, <1>11, <2>2, <2>3 DEF In
  <2> QED
    BY <1>12, <1>15, <2>4
<1>17. \A k \in T : \E i \in U : f[i] = k
  <2>1. R \in SUBSET Live /\ t \in R
    BY <1>6, <1>8, <1>15
  <2>2. T \subseteq R
    BY <1>7, <1>8, <1>16, <2>1, SubtreeExact DEF TreeInv
  <2> QED
    BY <1>14, <1>15, <2>2
<1>18. \A i \in U : i \notin T
  BY <1>8, <1>14, <1>17
<1>19. f \in [U -> T]
  BY <1>6, <1>8, <1>14
<1>20. \A k \in T : k # t => comp[k].parent \in T
  BY <1>7, <1>8, <1>14, SubtreeExact DEF TreeInv
<1>21. WholeCopy(U, T, f, s, t, p)
  BY <1>1, <1>7, <1>8, <1>9, <1>10, <1>12, <1>14, <1>17, <1>18, <1>19, <1>20 DEF WholeCopy
<1> QED
  BY <1>1, <1>21

\* The copy takes its place behind the original, in the same way in the two lists.
LEMMA PlacedList ==
    ASSUME TreeInv, ShownKnown, ListsShown, ShownKnown', ListsShown', CopyUnplaced, PlaceClone,
           NEW s, s = Top.src, NEW t, t = Top.dst, NEW p, p = comp[s].parent,
           s \in Live, t \in Live, s # t, comp[t].parent = p, p \in Visible \cup {Root}, s \in Visible,
           Visible' = Live
    PROVE  ChildIDs(p)' = Forest!InsertAfter(ChildIDs(p), comp[s].cuid, comp[t].cuid)
<1>1. /\ op = "cloning" /\ op' = "none" /\ Len(copying) = 1 /\ comp' = comp
      /\ children' = [children EXCEPT ![p] = WithAfter(Without(@, t), s, t)]
  BY DEF PlaceClone
<1>2. t = copying[1].dst
  BY <1>1 DEF Top
<1>3. p \in Live \cup {Root} /\ p \in Index \cup {Root} /\ t \in Index /\ s \in Index
  BY IndexTypes DEF ShownKnown, ShownLinks
<1>4. PICK c, l, n : c = children[p] /\ l = ChildIDs(p) /\ n = ShownCount(p)
  OBVIOUS
<1>5. /\ l \in Seq(ID) /\ Len(l) = n /\ DOMAIN l = 1 .. n /\ n \in Nat
      /\ \A k \in 1 .. n : l[k] = comp[c[k]].cuid /\ c[k] \in Visible
      /\ NoRepeat(l) /\ c \in Seq(Index)
  BY <1>4 DEF ListsShown
<1>6. Len(c) = n + 1 /\ DOMAIN c = 1 .. n + 1
  <2>1. n = Len(c) - 1
    BY <1>1, <1>2, <1>4 DEF ShownCount
  <2> QED
    BY <1>5, <2>1
<1>7. n + 1 \in DOMAIN c /\ c[n + 1] = t
  <2>1. c[n + 1] = t
    BY <1>1, <1>2, <1>4, <1>6 DEF CopyUnplaced, CopyLast
  <2> QED
    BY <1>5, <1>6, <2>1
<1>8. NoRepeat(c) /\ In(c, s)
  BY <1>3, <1>4 DEF TreeInv, LinksAgree
<1>9. PICK h \in 1 .. n : c[h] = s
  <2>1. PICK h \in 1 .. n + 1 : c[h] = s
    BY <1>6, <1>8 DEF In
  <2>2. h # n + 1
    BY <1>7, <2>1
  <2>3. h \in 1 .. n
    BY <1>5, <2>1, <2>2
  <2> QED
    BY <2>1, <2>3
<1>10. PICK w : w = Without(c, t)
  OBVIOUS
<1>11. w = [j \in 1 .. n |-> c[j]]
  <2>1. Without(c, c[n + 1]) = [j \in 1 .. Len(c) - 1 |-> IF j < n + 1 THEN c[j] ELSE c[j + 1]]
    BY <1>5, <1>7, <1>8, WithoutAt
  <2>2. Len(c) - 1 = n /\ \A j \in 1 .. n : j < n + 1
    BY <1>5, <1>6
  <2> QED
    BY <1>7, <1>10, <2>1, <2>2
<1>12. /\ w \in Seq(Index) /\ Len(w) = n /\ DOMAIN w = 1 .. n
       /\ \A k \in 1 .. n : w[k] = c[k]
       /\ NoRepeat(w) /\ w[h] = s
  <2>1. \A k \in 1 .. n : c[k] \in Index
    BY <1>5, IndexTypes DEF ShownKnown, ShownLinks
  <2>2. w \in Seq(Index) /\ Len(w) = n /\ DOMAIN w = 1 .. n /\ \A k \in 1 .. n : w[k] = c[k]
    BY <1>5, <1>11, <2>1
  <2>3. \A k \in 1 .. n : k \in DOMAIN c
    BY <1>5, <1>6
  <2>4. NoRepeat(w)
    BY <1>8, <2>2, <2>3 DEF NoRepeat
  <2> QED
    BY <1>9, <2>2, <2>4
<1>13. PICK a, r, v : a = WithAfter(w, s, t) /\ r = Forest!InsertAfter(l, v, comp[t].cuid) /\ v = comp[s].cuid
  OBVIOUS
<1>14. a = [j \in 1 .. n + 1 |-> IF j <= h THEN w[j] ELSE IF j = h + 1 THEN t ELSE w[j - 1]]
  <2>1. PICK y : y = t
    OBVIOUS
  <2>2. h \in DOMAIN w /\ w \in Seq(Index) /\ NoRepeat(w) /\ y \in Index /\ w[h] = s
    BY <1>3, <1>12, <2>1
  <2>3. WithAfter(w, w[h], y) = [j \in 1 .. Len(w) + 1 |-> IF j <= h THEN w[j] ELSE IF j = h + 1 THEN y ELSE w[j - 1]]
    BY ONLY <2>2, WithAfterAt
  <2> QED
    BY <1>12, <1>13, <2>1, <2>2, <2>3
<1>15. comp[t].cuid \in ID
  BY DEF ShownKnown, Named
<1>16. r = [j \in 1 .. n + 1 |-> IF j <= h THEN l[j] ELSE IF j = h + 1 THEN comp[t].cuid ELSE l[j - 1]]
  <2>1. PICK y : y = comp[t].cuid
    OBVIOUS
  <2>2. h \in DOMAIN l /\ l \in Seq(ID) /\ NoRepeat(l) /\ y \in ID /\ l[h] = v
    BY <1>5, <1>9, <1>13, <1>15, <2>1
  <2>3. Forest!InsertAfter(l, l[h], y)
          = [j \in 1 .. Len(l) + 1 |-> IF j <= h THEN l[j] ELSE IF j = h + 1 THEN y ELSE l[j - 1]]
    BY <2>2, WithAfterAt
  <2> QED
    BY <1>5, <1>13, <2>1, <2>2, <2>3
<1>17. h \in Nat /\ h <= n
  BY <1>5, <1>9
<1>18. ASSUME NEW j \in 1 .. n + 1 PROVE r[j] = comp[a[j]].cuid /\ r[j] \in ID
  <2>1. CASE j <= h
    <3>1. j \in 1 .. n /\ r[j] = l[j] /\ a[j] = w[j]
      BY <1>5, <1>14, <1>16, <1>17, <2>1
    <3> QED
      BY <1>5, <1>12, <3>1
  <2>2. CASE j = h + 1
    <3>1. ~(j <= h)
      BY <1>17, <2>2
    <3>2. r[j] = comp[t].cuid /\ a[j] = t
      BY <1>14, <1>16, <2>2, <3>1
    <3> QED
      BY <1>15, <3>2
  <2>3. CASE ~(j <= h) /\ j # h + 1
    <3>1. j - 1 \in 1 .. n
      BY <1>5, <1>17, <2>3
    <3>2. r[j] = l[j - 1] /\ a[j] = w[j - 1]
      BY <1>14, <1>16, <2>3
    <3> QED
      BY <1>5, <1>12, <3>1, <3>2
  <2> QED
    BY <2>1, <2>2, <2>3
<1>19. r \in Seq(ID) /\ Len(r) = n + 1 /\ Len(a) = n + 1
  <2>1. n + 1 \in Nat
    BY <1>5
  <2>2. r = [j \in 1 .. n + 1 |-> r[j]]
    BY <1>16
  <2> QED
    BY <1>14, <1>18, <2>1, <2>2
<1>20. children'[p] = a
  BY <1>1, <1>3, <1>4, <1>10, <1>13 DEF TreeInv, TreeTypes
<1>21. PICK q : q = ChildIDs(p)'
  OBVIOUS
<1>22. /\ q \in Seq(ID) /\ Len(q) = n + 1
       /\ \A k \in 1 .. n + 1 : q[k] = comp'[a[k]].cuid
  <2>1. ShownCount(p)' = Len(children'[p])
    BY <1>1, <1>3 DEF ListsShown
  <2> QED
    BY <1>3, <1>19, <1>20, <1>21, <2>1 DEF ListsShown
<1>23. \A k \in 1 .. Len(q) : q[k] = r[k]
  BY <1>1, <1>18, <1>22
<1>24. q = r
  BY <1>19, <1>22, <1>23, SameList
<1> QED
  BY <1>4, <1>13, <1>21, <1>24

\* A finished copy appears next to the original, whole and in the same order.
LEMMA PlaceCloneShown ==
    ASSUME IDInv, TreeInv, ForestInv, ShownKnown, ListsShown, TreeInv', ShownKnown', ListsShown', PlaceClone
    PROVE  /\ ShownUsed \subseteq ShownUsed' /\ ShownUsed' # ShownUsed
           /\ \E c \in Forest!Nodes : Forest!Clone(c)
<1>1. PICK s, t, p : s = Top.src /\ t = Top.dst /\ p = comp[s].parent
  OBVIOUS
<1>2. PICK U, T, f : WholeCopy(U, T, f, s, t, p)
  BY <1>1, CopyIsWhole DEF ForestInv
<1>3. /\ op = "cloning" /\ op' = "none" /\ Len(copying) = 1 /\ comp' = comp /\ issued' = issued
      /\ children' = [children EXCEPT ![p] = WithAfter(Without(@, t), s, t)]
  BY <1>1 DEF PlaceClone
<1>4. t = copying[1].dst
  BY <1>1, <1>3 DEF Top
<1>5. Visible = Live \ T /\ Visible' = Live /\ Live' = Live
  BY <1>2, <1>3, <1>4 DEF Visible, Hidden, Live, WholeCopy
<1>6. /\ U \subseteq Visible /\ T \subseteq Live /\ s \in U /\ t \in T /\ f[s] = t /\ p \notin U /\ p \notin T
      /\ p = comp[s].parent /\ p = comp[t].parent
      /\ \A i \in U : f[i] \in T
      /\ \A i, j \in U : f[i] = f[j] => i = j
      /\ \A k \in T : \E i \in U : f[i] = k
      /\ \A i \in U : comp[f[i]].type = comp[i].type
      /\ \A i \in U : i # s => comp[i].parent \in U /\ comp[f[i]].parent = f[comp[i].parent]
      /\ \A k \in T : k # t => comp[k].parent \in T
      /\ \A i \in U : /\ Len(children[f[i]]) = Len(children[i])
                      /\ \A k \in 1 .. Len(children[i]) :
                            children[i][k] \in U /\ children[f[i]][k] = f[children[i][k]]
  BY <1>2, <1>5 DEF WholeCopy
<1>7. ShownPoints /\ ShownPoints' /\ Named /\ ShownLinks
  BY DEF ShownKnown
<1>8. /\ \A j \in Live : IDOf(j) = comp[j].cuid /\ comp[j].cuid # NoID /\ comp[j].cuid.index = j
      /\ IDOf(Root) = NoID
  BY <1>7 DEF Named
<1>9. PICK c : c = comp[s].cuid
  OBVIOUS
<1>10. /\ ShownUsed' = issued /\ ShownUsed = issued \ IDsOf(T) /\ IDsOf(T) \subseteq issued
  <2>1. ShownUsed' = issued
    BY <1>3 DEF ShownUsed, HiddenIDs
  <2>2. Hidden = T
    BY <1>2, <1>3, <1>4 DEF Hidden, WholeCopy
  <2>3. ShownUsed = issued \ IDsOf(T)
    BY <1>3, <2>2 DEF ShownUsed, HiddenIDs, IDsOf
  <2>4. IDsOf(T) \subseteq issued
    BY <1>6 DEF ForestInv, LiveIssued, IDsOf
  <2> QED
    BY <2>1, <2>3, <2>4
<1> DEFINE K == ShownUsed' \ ShownUsed
           M == Forest!Subtree(c)
<1>11. K = IDsOf(T) /\ M = IDsOf(U)
  <2>1. U = Subtree(s)
    BY <1>2 DEF WholeCopy
  <2> QED
    BY <1>9, <1>10, <1>6, <2>1, ForestSubtree
<1> HIDE DEF K, M
<1>12. PICK N : N = IDsOf(Visible)
  OBVIOUS
<1>13. /\ \A j \in Visible : comp[j].cuid \in N
       /\ \A j \in T : comp[j].cuid \in K
       /\ \A j \in U : comp[j].cuid \in M
       /\ \A x \in N : \E j \in Visible : x = comp[j].cuid
       /\ \A x \in K : \E j \in T : x = comp[j].cuid
       /\ \A x \in M : \E j \in U : x = comp[j].cuid
  BY <1>11, <1>12 DEF IDsOf
<1>14. /\ \A x \in K : x \notin N
       /\ IDsOf(Visible)' = N \cup K
       /\ M \subseteq N /\ NoID \notin N /\ NoID \notin K
  <2>1. \A x \in K : x \notin N
    BY <1>5, <1>6, <1>8, <1>13
  <2>2. IDsOf(Visible)' = {comp[j].cuid : j \in Live}
    BY <1>3, <1>5 DEF IDsOf
  <2>3. IDsOf(Visible)' = N \cup K
    <3>1. N = {comp[j].cuid : j \in Live \ T} /\ K = {comp[j].cuid : j \in T}
      BY <1>11, <1>5, <1>12 DEF IDsOf
    <3> QED
      BY <1>6, <2>2, <3>1
  <2>4. M \subseteq N /\ NoID \notin N /\ NoID \notin K
    BY <1>5, <1>6, <1>8, <1>13
  <2> QED
    BY <2>1, <2>3, <2>4
<1>15. ShownUsed \subseteq ShownUsed' /\ ShownUsed' # ShownUsed
  BY <1>10, <1>11, <1>6, <1>13
<1>16. c \in M /\ Forest!Nodes = N
  BY <1>9, <1>6, <1>7, <1>12, <1>13 DEF Forest!Nodes, ShownPoints
<1>17. PICK copy : copy = [x \in M |-> comp[f[x.index]].cuid]
  OBVIOUS
<1>18. ASSUME NEW i \in U PROVE copy[comp[i].cuid] = comp[f[i]].cuid
  BY <1>5, <1>6, <1>8, <1>13, <1>17
<1>19. copy \in Forest!Injection(M, K) /\ K = Forest!Range(copy)
  <2>1. \A x \in M : \E i \in U : x = comp[i].cuid /\ copy[x] = comp[f[i]].cuid
    BY <1>13, <1>18
  <2>2. \A x \in M : copy[x] \in K
    BY <1>6, <1>13, <2>1
  <2>3. ASSUME NEW x \in M, NEW y \in M, copy[x] = copy[y] PROVE x = y
    <3>1. PICK i \in U : x = comp[i].cuid /\ copy[x] = comp[f[i]].cuid
      BY <2>1
    <3>2. PICK j \in U : y = comp[j].cuid /\ copy[y] = comp[f[j]].cuid
      BY <2>1
    <3>3. f[i] = f[j]
      BY <1>6, <1>8, <2>3, <3>1, <3>2
    <3> QED
      BY <1>6, <3>1, <3>2, <3>3
  <2>4. copy \in [M -> K] /\ DOMAIN copy = M
    BY <1>17, <2>2
  <2>5. \A x \in K : \E y \in M : copy[y] = x
    BY <1>6, <1>13, <1>18
  <2>6. copy \in Forest!Injection(M, K)
    BY <2>3, <2>4 DEF Forest!Injection, Forest!IsInjective
  <2>7. K = Forest!Range(copy)
    BY <2>2, <2>4, <2>5 DEF Forest!Range
  <2> QED
    BY <2>6, <2>7
<1> DEFINE source == [k \in K |-> CHOOSE n \in M : copy[n] = k]
<1>20. ASSUME NEW i \in U PROVE source[comp[f[i]].cuid] = comp[i].cuid
  <2>1. PICK k, x : k = comp[f[i]].cuid /\ x = comp[i].cuid
    OBVIOUS
  <2>2. x \in M /\ copy[x] = k /\ k \in K
    BY <1>6, <1>13, <1>18, <2>1
  <2>3. \A y \in M : copy[y] = k => y = x
    BY <1>19, <2>2 DEF Forest!Injection, Forest!IsInjective
  <2>4. (CHOOSE n \in M : copy[n] = k) = x
    BY <2>2, <2>3
  <2> QED
    BY <2>1, <2>2, <2>4
<1> HIDE DEF source
<1>21. /\ \A j \in Live \cup {Root} : IDOf(j)' = IDOf(j)
       /\ \A j \in Live : /\ ShownParent'[comp[j].cuid] = IDOf(comp[j].parent)
                          /\ ShownType'[comp[j].cuid] = comp[j].type
       /\ \A j \in Live \cup {Root} : ShownKids'[IDOf(j)] = ChildIDs(j)'
  <2>1. \A j : IDOf(j)' = IDOf(j)
    BY <1>3 DEF IDOf
  <2>2. \A j \in Live : /\ ShownParent'[comp'[j].cuid] = IDOf(comp[j].parent)'
                        /\ ShownType'[comp'[j].cuid] = comp'[j].type
    BY <1>5, <1>7 DEF ShownPoints
  <2>3. \A j : IDOf(comp[j].parent)' = IDOf(comp[j].parent)
    BY <1>3 DEF IDOf
  <2>4. \A j \in Live \cup {Root} : ShownKids'[IDOf(j)'] = ChildIDs(j)'
    BY <1>5, <1>7 DEF ShownPoints
  <2> QED
    BY <1>3, <2>1, <2>2, <2>3, <2>4
<1>22. ShownType' = Forest!Over([k \in K |-> ShownType[source[k]]], ShownType)
  <2>1. PICK a, g : a = [k \in K |-> ShownType[source[k]]] /\ g = Forest!Over(a, ShownType)
    OBVIOUS
  <2>2. /\ IsFunction(g) /\ DOMAIN g = N \cup K
        /\ \A x \in K : g[x] = ShownType[source[x]]
        /\ \A x \in N : x \notin K => g[x] = ShownType[x]
    BY <1>7, <1>12, <2>1 DEF Forest!Over, IsFunction, ShownPoints
  <2>3. ASSUME NEW x \in N PROVE ShownType'[x] = g[x]
    <3>1. PICK j \in Visible : x = comp[j].cuid
      BY <1>13
    <3>2. ShownType[x] = comp[j].type /\ ShownType'[x] = comp[j].type
      BY <1>5, <1>7, <1>21, <3>1 DEF ShownPoints
    <3> QED
      BY <1>14, <2>2, <3>2
  <2>4. ASSUME NEW x \in K PROVE ShownType'[x] = g[x]
    <3>1. PICK j \in T : x = comp[j].cuid
      BY <1>13
    <3>2. PICK i \in U : f[i] = j
      BY <1>6
    <3>3. source[x] = comp[i].cuid
      BY <1>20, <3>1, <3>2
    <3>4. ShownType[comp[i].cuid] = comp[i].type
      BY <1>6, <1>7 DEF ShownPoints
    <3>5. ShownType'[x] = comp[j].type /\ comp[j].type = comp[i].type
      BY <1>6, <1>21, <3>1, <3>2
    <3> QED
      BY <2>2, <3>3, <3>4, <3>5
  <2>5. IsFunction(ShownType') /\ DOMAIN ShownType' = N \cup K
    BY <1>7, <1>14 DEF ShownPoints, IsFunction
  <2> QED
    BY <2>1, <2>2, <2>3, <2>4, <2>5, SameFunction
<1>23. ShownParent[c] = IDOf(p)
  <2>1. s \in Visible /\ p = comp[s].parent
    BY <1>6
  <2>2. ShownParent[comp[s].cuid] = IDOf(comp[s].parent)
    BY <1>7, <2>1 DEF ShownPoints
  <2> QED
    BY <1>9, <2>1, <2>2
<1>24. ShownParent' = Forest!Over([k \in K |-> IF source[k] = c THEN ShownParent[c]
                                               ELSE copy[ShownParent[source[k]]]], ShownParent)
  <2>1. PICK a, g : /\ a = [k \in K |-> IF source[k] = c THEN ShownParent[c] ELSE copy[ShownParent[source[k]]]]
                    /\ g = Forest!Over(a, ShownParent)
    OBVIOUS
  <2>2. /\ IsFunction(g) /\ DOMAIN g = N \cup K
        /\ \A x \in K : g[x] = IF source[x] = c THEN ShownParent[c] ELSE copy[ShownParent[source[x]]]
        /\ \A x \in N : x \notin K => g[x] = ShownParent[x]
    BY <1>7, <1>12, <2>1 DEF Forest!Over, IsFunction, ShownPoints
  <2>3. ASSUME NEW x \in N PROVE ShownParent'[x] = g[x]
    <3>1. PICK j \in Visible : x = comp[j].cuid
      BY <1>13
    <3>2. ShownParent[x] = IDOf(comp[j].parent) /\ ShownParent'[x] = IDOf(comp[j].parent)
      BY <1>5, <1>7, <1>21, <3>1 DEF ShownPoints
    <3> QED
      BY <1>14, <2>2, <3>2
  <2>4. ASSUME NEW x \in K PROVE ShownParent'[x] = g[x]
    <3>1. PICK j \in T : x = comp[j].cuid
      BY <1>13
    <3>2. PICK i \in U : f[i] = j
      BY <1>6
    <3>3. source[x] = comp[i].cuid
      BY <1>20, <3>1, <3>2
    <3>4. ShownParent'[x] = IDOf(comp[j].parent)
      BY <1>6, <1>21, <3>1
    <3>5. CASE i = s
      BY <1>6, <1>9, <1>23, <2>2, <3>2, <3>3, <3>4, <3>5
    <3>6. CASE i # s
      <4>1. comp[i].cuid # c
        BY <1>5, <1>6, <1>8, <1>9, <3>6
      <4>2. PICK q \in U : q = comp[i].parent /\ comp[j].parent = f[q]
        BY <1>6, <3>2, <3>6
      <4>3. f[q] \in Live /\ q \in Live
        BY <1>5, <1>6
      <4>4. ShownParent[comp[i].cuid] = comp[q].cuid
        BY <1>6, <1>7, <1>8, <4>2, <4>3 DEF ShownPoints
      <4>5. ShownParent'[x] = comp[f[q]].cuid
        BY <1>8, <3>4, <4>2, <4>3
      <4> QED
        BY <1>18, <2>2, <3>3, <4>1, <4>4, <4>5
    <3> QED
      BY <3>5, <3>6
  <2>5. IsFunction(ShownParent') /\ DOMAIN ShownParent' = N \cup K
    BY <1>7, <1>14 DEF ShownPoints, IsFunction
  <2> QED
    BY <2>1, <2>2, <2>3, <2>4, <2>5, SameFunction
<1>25. /\ p \in Visible \cup {Root} /\ s \in Live /\ t \in Live /\ s # t /\ s \in Visible
       /\ \A i \in U : f[i] # p /\ f[i] \in Live
  <2>1. s \in Visible /\ t \in T /\ s \in Live /\ t \in Live /\ s # t
    BY <1>5, <1>6
  <2>2. p \in Visible \cup {Root}
    <3>1. comp[s].parent \in Visible \cup {Root}
      BY <1>7, <2>1 DEF ShownLinks
    <3> QED
      BY <1>6, <3>1
  <2>3. \A i \in U : f[i] # p /\ f[i] \in Live
    BY <1>6
  <2> QED
    BY <2>1, <2>2, <2>3
<1>26. \A j \in Live : j # p => children'[j] = children[j]
  BY <1>3, IndexTypes DEF TreeInv, TreeTypes
<1>27. ChildIDs(p)' = Forest!InsertAfter(ChildIDs(p), c, copy[c])
  <2>1. CopyUnplaced
    BY DEF ForestInv
  <2>2. copy[c] = comp[t].cuid
    BY <1>6, <1>9, <1>18
  <2>3. ChildIDs(p)' = Forest!InsertAfter(ChildIDs(p), comp[s].cuid, comp[t].cuid)
    <3>1. /\ s = Top.src /\ t = Top.dst /\ p = comp[s].parent /\ comp[t].parent = p /\ Visible' = Live
          /\ p \in Visible \cup {Root} /\ s \in Live /\ t \in Live /\ s # t /\ s \in Visible
      BY <1>1, <1>5, <1>6, <1>25
    <3> QED
      BY ONLY TreeInv, ShownKnown, ListsShown, ShownKnown', ListsShown', PlaceClone, <2>1, <3>1, PlacedList
  <2> QED
    BY <1>9, <2>2, <2>3
<1>28. \A j \in Live \cup {Root} :
          /\ ChildIDs(j)' \in Seq(ID) /\ Len(ChildIDs(j)') = Len(children'[j])
          /\ \A k \in 1 .. Len(children'[j]) : ChildIDs(j)'[k] = comp[children'[j][k]].cuid
  BY <1>3, <1>5 DEF ListsShown
<1>29. ASSUME NEW j \in Visible \cup {Root}, j # p
       PROVE  /\ ChildIDs(j)' = ChildIDs(j) /\ ChildIDs(j) \in Seq(ID) /\ Len(ChildIDs(j)) = Len(children[j])
              /\ \A k \in 1 .. Len(children[j]) : ChildIDs(j)[k] = comp[children[j][k]].cuid
  <2>1. PICK l, r, d : l = ChildIDs(j) /\ r = ChildIDs(j)' /\ d = children[j]
    OBVIOUS
  <2>2. ShownCount(j) = Len(d)
    <3>1. ShownCount(j) = Len(d) - 0 /\ d \in Seq(Index)
      BY <1>4, <1>6, <1>29, <2>1 DEF ShownCount, ListsShown
    <3> QED
      BY <3>1
  <2>3. /\ l \in Seq(ID) /\ Len(l) = Len(d)
        /\ \A k \in 1 .. Len(d) : l[k] = comp[d[k]].cuid
    BY <2>1, <2>2 DEF ListsShown
  <2>4. children'[j] = d
    <3>1. j \in Index \cup {Root}
      BY <1>5, IndexTypes
    <3> QED
      BY <1>3, <1>29, <2>1, <3>1 DEF TreeInv, TreeTypes
  <2>5. /\ r \in Seq(ID) /\ Len(r) = Len(d)
        /\ \A k \in 1 .. Len(d) : r[k] = comp[d[k]].cuid
    BY <1>5, <1>28, <2>1, <2>4
  <2>6. \A k \in 1 .. Len(l) : l[k] = r[k]
    BY <2>3, <2>5
  <2>7. l = r
    BY <2>3, <2>5, <2>6, SameList
  <2> QED
    BY <2>1, <2>3, <2>7
<1>30. PICK left : left = [ShownKids EXCEPT ![ShownParent[c]] = Forest!InsertAfter(@, c, copy[c])]
  OBVIOUS
<1>31. /\ DOMAIN left = N \cup {NoID} /\ IsFunction(left)
       /\ \A x \in N \cup {NoID} :
             left[x] = IF x = IDOf(p) THEN Forest!InsertAfter(ShownKids[x], c, copy[c]) ELSE ShownKids[x]
  <2>1. IDOf(p) \in N \cup {NoID}
    BY <1>5, <1>8, <1>13, <1>25
  <2> QED
    BY <1>7, <1>12, <1>23, <1>30, <2>1 DEF ShownPoints, IsFunction
<1>32. ShownKids' = Forest!Over([k \in K |-> [n \in DOMAIN ShownKids[source[k]] |->
                                                  copy[ShownKids[source[k]][n]]]], left)
  <2>1. PICK a, g : /\ a = [k \in K |-> [n \in DOMAIN ShownKids[source[k]] |-> copy[ShownKids[source[k]][n]]]]
                    /\ g = Forest!Over(a, left)
    OBVIOUS
  <2>2. /\ IsFunction(g) /\ DOMAIN g = (N \cup {NoID}) \cup K
        /\ \A x \in K : g[x] = [n \in DOMAIN ShownKids[source[x]] |-> copy[ShownKids[source[x]][n]]]
        /\ \A x \in N \cup {NoID} : x \notin K => g[x] = left[x]
    BY <1>31, <2>1 DEF Forest!Over, IsFunction
  <2>3. ASSUME NEW x \in N \cup {NoID} PROVE ShownKids'[x] = g[x]
    <3>1. PICK j \in Visible \cup {Root} : x = IDOf(j)
      BY <1>5, <1>8, <1>13
    <3>2. ShownKids[x] = ChildIDs(j) /\ ShownKids'[x] = ChildIDs(j)'
      BY <1>5, <1>7, <1>21, <3>1 DEF ShownPoints
    <3>3. x = IDOf(p) <=> j = p
      BY <1>5, <1>7, <1>25, <3>1 DEF Named
    <3>4. g[x] = left[x]
      BY <1>14, <2>2
    <3>5. CASE j = p
      BY <1>27, <1>31, <3>2, <3>3, <3>4, <3>5
    <3>6. CASE j # p
      BY <1>29, <1>31, <3>2, <3>3, <3>4, <3>6
    <3> QED
      BY <3>5, <3>6
  <2>4. ASSUME NEW x \in K PROVE ShownKids'[x] = g[x]
    <3>1. PICK j \in T : x = comp[j].cuid
      BY <1>13
    <3>2. PICK i \in U : f[i] = j
      BY <1>6
    <3>3. source[x] = comp[i].cuid
      BY <1>20, <3>1, <3>2
    <3>4. i \in Visible /\ i # p /\ j \in Live /\ j # p /\ i \in Live
      BY <1>5, <1>6
    <3>5. PICK l, r, d : l = ChildIDs(i) /\ r = ChildIDs(j)' /\ d = children[i]
      OBVIOUS
    <3>6. ShownKids[comp[i].cuid] = l /\ ShownKids'[x] = r
      BY <1>6, <1>7, <1>8, <1>21, <3>1, <3>4, <3>5 DEF ShownPoints
    <3>7. /\ l \in Seq(ID) /\ Len(l) = Len(d) /\ DOMAIN l = 1 .. Len(d)
          /\ \A k \in 1 .. Len(d) : l[k] = comp[d[k]].cuid /\ d[k] \in U
      BY <1>6, <1>29, <3>4, <3>5
    <3>8. /\ r \in Seq(ID) /\ Len(r) = Len(d) /\ DOMAIN r = 1 .. Len(d)
          /\ \A k \in 1 .. Len(d) : r[k] = comp[f[d[k]]].cuid
      <4>1. children'[j] = children[j] /\ Len(children[j]) = Len(d)
            /\ \A k \in 1 .. Len(d) : children[j][k] = f[d[k]]
        BY <1>6, <1>26, <3>2, <3>4, <3>5
      <4> QED
        BY <1>28, <3>4, <3>5, <4>1
    <3>9. \A k \in 1 .. Len(d) : r[k] = copy[l[k]]
      BY <1>18, <3>7, <3>8
    <3>10. r = [n \in 1 .. Len(d) |-> copy[l[n]]]
      <4>1. r = [n \in 1 .. Len(d) |-> r[n]]
        BY <3>8
      <4> QED
        BY <3>9, <4>1
    <3> QED
      BY <2>2, <3>3, <3>6, <3>7, <3>10
  <2>5. IsFunction(ShownKids') /\ DOMAIN ShownKids' = (N \cup {NoID}) \cup K
    BY <1>7, <1>14 DEF ShownPoints, IsFunction
  <2> QED
    BY <2>1, <2>2, <2>3, <2>4, <2>5, SameFunction
<1>33. Forest!Clone(c)
  BY <1>15, <1>16, <1>19, <1>22, <1>24, <1>30, <1>32 DEF K, M, source, Forest!Clone
<1> QED
  BY <1>14, <1>15, <1>16, <1>33

\* Nothing is shown at first.
LEMMA ForestInit == Init => Forest!Init
<1> SUFFICES ASSUME Init PROVE Forest!Init
  OBVIOUS
<1>1. Live = {} /\ op = "none" /\ issued = {} /\ children = [i \in Index \cup {Root} |-> <<>>]
  BY DEF Init, Live, NoComponent
<1>2. Visible = {} /\ IDsOf(Visible) = {}
  BY <1>1 DEF Visible, IDsOf
<1>3. ShownUsed = {}
  BY <1>1 DEF ShownUsed
<1>4. ChildIDs(Root) = <<>>
  <2>1. children[Root] = <<>>
    BY <1>1
  <2>2. ChildIDs(Root) = [k \in 1 .. Len(<<>>) - 0 |-> IDOf(children[Root][k])]
    BY <1>1, <2>1 DEF ChildIDs
  <2>3. 1 .. Len(<<>>) - 0 = {}
    OBVIOUS
  <2> QED
    BY <2>2, <2>3
<1>5. ShownKids = [n \in {NoID} |-> <<>>]
  <2>1. ShownKids = [n \in {NoID} |-> ChildIDs(ComponentOf(n))]
    BY <1>2 DEF ShownKids
  <2>2. ComponentOf(NoID) = Root
    BY DEF ComponentOf
  <2> QED
    BY <1>4, <2>1, <2>2
<1>6. ShownParent = <<>> /\ ShownType = <<>>
  BY <1>2 DEF ShownParent, ShownType
<1> QED
  BY <1>3, <1>5, <1>6 DEF Forest!Init

\* A step of the registry is an operation on the forest, or changes nothing of it.
LEMMA ForestStep ==
    ASSUME IDInv, TreeInv, ForestInv, ShownKnown, ListsShown,
           IDInv', TreeInv', ForestInv', ShownKnown', ListsShown', [Next]_vars
    PROVE  [Forest!Next]_Shown
<1>1. ASSUME NEW type \in Types, NEW p \in Index \cup {Root}, CreateComponent(type, p) PROVE Forest!Next
  BY <1>1, CreateShown DEF Forest!Next
<1>2. CASE Detach
  BY <1>2, DetachShown DEF Forest!Next
<1>3. CASE FreeComponent
  BY <1>3, FreeIsHidden
<1>4. ASSUME NEW i \in Index, NEW p \in Index, ReparentComponentSubtree(i, p) PROVE Forest!Next
  BY <1>4, ReparentShown DEF Forest!Next
<1>5. ASSUME NEW i \in Index, CloneComponentSubtree(i) PROVE UNCHANGED Shown
  BY <1>5, CloneIsHidden
<1>6. CASE CopyChild
  BY <1>6, CopyChildIsHidden
<1>7. CASE PlaceClone
  BY <1>7, PlaceCloneShown DEF Forest!Next
<1>8. CASE (\E i \in Index : DestroyComponentSubtree(i)) \/ PopTransform \/ Descend \/ MoveTransformStep
             \/ CopyReturns \/ UNCHANGED vars
  BY <1>8, QuietSteps
<1> QED
  BY <1>1, <1>2, <1>3, <1>4, <1>5, <1>6, <1>7, <1>8 DEF Next

(***************************************************************************)
(* The loops of the registry implement the operations on a forest: whoever *)
(* looks between two calls sees a subtree destroyed whole, moved whole, or *)
(* copied whole, in order and under identifiers that were never used.      *)
(***************************************************************************)
THEOREM ForestImplemented == Spec => ImplementsForest
<1>1. Init => IDInv /\ TreeInv /\ ForestInv
  BY IDInvInit, TreeInvInit, ForestInvInit
<1>2. IDInv /\ TreeInv /\ ForestInv /\ [Next]_vars => (IDInv /\ TreeInv /\ ForestInv)'
  BY IDInvStep, TreeInvStep, ForestInvStep
<1>3. IDInv /\ TreeInv /\ ForestInv /\ (IDInv /\ TreeInv /\ ForestInv)' /\ [Next]_vars => [Forest!Next]_(Forest!vars)
  <2> SUFFICES ASSUME IDInv, TreeInv, ForestInv, IDInv', TreeInv', ForestInv', [Next]_vars
               PROVE  [Forest!Next]_(Forest!vars)
    OBVIOUS
  <2>1. ShownKnown /\ ShownKnown'
    BY ShownKnownNow, ShownKnownNext
  <2>2. ListsShown /\ ListsShown'
    BY <2>1, ListsShownNow, ListsShownNext
  <2>3. [Forest!Next]_Shown
    BY <2>1, <2>2, ForestStep
  <2> QED
    BY <2>3 DEF Forest!vars, Shown
<1> QED
  BY <1>1, <1>2, <1>3, ForestInit, PTL DEF ImplementsForest, Forest!Spec, Spec
=============================================================================
