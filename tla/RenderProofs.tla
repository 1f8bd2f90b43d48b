---------------------------- MODULE RenderProofs ----------------------------
(***************************************************************************)
(* The render graph, for any passes, images and calls, and what the frames *)
(* of RenderSystem make of it.                                             *)
(*                                                                         *)
(* The order that RGraphObj::sort gives the passes respects every          *)
(* dependency, in any order in which the hash containers are walked.  The  *)
(* argument is that of a depth-first search in a graph without cycles:     *)
(* edges go up in the order Before, so a pass that was visited and is the  *)
(* target of the pass on top of the stack is finished.                     *)
(*                                                                         *)
(* A frame of RenderSystem never closes a cycle, and orders every two      *)
(* passes that conflict on an image.  FrameInv says in which phase of the  *)
(* frame each component, pass, use and connection is declared, whatever    *)
(* methods are called and skipped, and that no declaration comes after one *)
(* of a later phase; so the connections are those of a table, and between  *)
(* the passes of the table that write what another one touches there is an *)
(* edge.                                                                   *)
(***************************************************************************)
EXTENDS RenderSystem, FiniteSetTheorems, SequenceTheorems, WellFoundedInduction, TLAPS

(* RenderGraph *)

Existing == {p \in Passes : Exists(p)}

\* What an edge says of its two passes while images are connected forward.
Before(p, q) ==
    \/ added[Owner[p]] < added[Owner[q]]
    \/ Owner[p] = Owner[q] /\ declared[p] < declared[q]

TypeInv ==
    /\ added \in [Components -> Nat]
    /\ declared \in [Passes -> Nat]
    /\ edges \subseteq Passes \X Passes
    /\ forward \in BOOLEAN

\* A pass belongs to a component that was added before it.
OwnerInv == \A p \in Passes : Exists(p) => added[Owner[p]] # 0

EdgeInv ==
    forward => \A e \in edges : Exists(e[1]) /\ Exists(e[2]) /\ Before(e[1], e[2])

Finished == {passOrder[k] : k \in 1..Len(passOrder)}
OnStack == {stack[k].pass : k \in 1..Len(stack)}

BeforeSort == graphState \in {"none", "CREATED"} => visited = {} /\ stack = <<>> /\ passOrder = <<>>

StackEntry == [pass : Passes, left : SUBSET Passes]

\* The sequences of the sort, and which passes are in them.
SortType ==
    /\ passOrder \in Seq(Passes)
    /\ stack \in Seq(StackEntry)
    /\ visited \subseteq Existing
    /\ visited = Finished \cup OnStack
    /\ Finished \cap OnStack = {}
    /\ \A j, k \in 1..Len(passOrder) : passOrder[j] = passOrder[k] => j = k

\* The stack goes up in the order of the edges.
StackRises ==
    \A j, k \in 1..Len(stack) : j < k => Before(stack[j].pass, stack[k].pass)

\* What a pass of the stack has left are targets of it; a target that it is
\* done with is finished, or is the next pass of the stack.
StackCovers == \A k \in 1..Len(stack) :
    /\ stack[k].left \subseteq Targets(stack[k].pass)
    /\ \A q \in Targets(stack[k].pass) :
          \/ q \in stack[k].left
          \/ q \in Finished
          \/ k < Len(stack) /\ q = stack[k + 1].pass

\* The targets of a finished pass finished before it.
FinishedCovers ==
    \A k \in 1..Len(passOrder) : \A q \in Targets(passOrder[k]) :
        \E j \in 1..Len(passOrder) : j < k /\ passOrder[j] = q

SortInv ==
    graphState = "sorting" /\ forward => SortType /\ StackRises /\ StackCovers /\ FinishedCovers

\* What is left of it when the order was reversed.
SortedInv ==
    graphState \in {"SORTED", "submitted"} /\ forward =>
        /\ passOrder \in Seq(Passes)
        /\ \A j, k \in 1..Len(passOrder) : passOrder[j] = passOrder[k] => j = k
        /\ Finished = Existing
        /\ \A k \in 1..Len(passOrder) : \A q \in Targets(passOrder[k]) :
              \E j \in 1..Len(passOrder) : k < j /\ passOrder[j] = q

GraphInv == TypeInv /\ OwnerInv /\ EdgeInv /\ BeforeSort /\ SortInv /\ SortedInv
-----------------------------------------------------------------------------
\* The order of the edges is strict.
LEMMA BeforeStrict ==
    ASSUME TypeInv, NEW p \in Passes, NEW q \in Passes, Before(p, q)
    PROVE  /\ ~Before(q, p)
           /\ p # q
           /\ \A r \in Passes : Before(r, p) => Before(r, q)
<1>1. /\ \A x \in Passes : Owner[x] \in Components /\ declared[x] \in Nat
      /\ \A c \in Components : added[c] \in Nat
  BY RenderGraphConstants DEF TypeInv
<1>2. ~Before(q, p)
  BY <1>1 DEF Before
<1>3. \A r \in Passes : Before(r, p) => Before(r, q)
  BY <1>1 DEF Before
<1> QED
  BY <1>2, <1>3

\* The number of the latest declaration is a number.
LEMMA LatestIsNat ==
    ASSUME NEW S, IsFiniteSet(S), NEW f \in [S -> Nat]
    PROVE  Latest(f) \in Nat
<1>1. {x \in DOMAIN f : f[x] # 0} \subseteq S
  OBVIOUS
<1> QED
  BY <1>1, FS_Subset, FS_CardinalityType DEF Latest

\* The graph begins empty.
LEMMA InvInit == GraphInit => GraphInv
BY RenderGraphConstants
   DEF GraphInit, GraphInv, TypeInv, OwnerInv, EdgeInv, BeforeSort, SortInv, SortedInv, Exists
-----------------------------------------------------------------------------
(* Declarations                                                            *)

\* While a frame is declared the sort has not begun: what is left to show is
\* about the declarations themselves.
LEMMA Declaring ==
    ASSUME GraphInv, graphState \in {"none", "CREATED"}, graphState' \in {"CREATED", "trapped"},
           UNCHANGED sortVars, TypeInv', OwnerInv', EdgeInv'
    PROVE  GraphInv'
BY DEF GraphInv, BeforeSort, SortInv, SortedInv, sortVars

\* A component begins without passes.
LEMMA AddComponentStep ==
    ASSUME GraphInv, NEW c \in Components, AddComponent(c)
    PROVE  GraphInv'
<1> USE RenderGraphConstants
<1>1. Latest(added) \in Nat
  BY LatestIsNat DEF GraphInv, TypeInv
<1>2. /\ added' \in [Components -> Nat]
      /\ \A x \in Components : added[x] # 0 => added'[x] = added[x]
      /\ UNCHANGED <<graphState, declared, edges, forward, sortVars>>
  BY <1>1 DEF AddComponent, GraphInv, TypeInv, passVars, linkVars, lateVars
<1>3. TypeInv'
  BY <1>2 DEF GraphInv, TypeInv
<1>4. OwnerInv'
  BY <1>2 DEF GraphInv, TypeInv, OwnerInv, Exists
<1>5. EdgeInv'
  <2> SUFFICES ASSUME forward, NEW e \in edges
               PROVE  Exists(e[1])' /\ Exists(e[2])' /\ Before(e[1], e[2])'
    BY <1>2 DEF EdgeInv
  <2>1. e[1] \in Passes /\ e[2] \in Passes /\ Exists(e[1]) /\ Exists(e[2]) /\ Before(e[1], e[2])
    BY DEF GraphInv, TypeInv, EdgeInv
  <2>2. added'[Owner[e[1]]] = added[Owner[e[1]]] /\ added'[Owner[e[2]]] = added[Owner[e[2]]]
    BY <1>2, <2>1 DEF GraphInv, OwnerInv
  <2> QED
    BY <1>2, <2>1, <2>2 DEF Before, Exists
<1> QED
  BY <1>2, <1>3, <1>4, <1>5, Declaring DEF AddComponent

\* A pass begins without uses and edges.
LEMMA AddPassStep ==
    ASSUME GraphInv, NEW p \in Passes, AddPass(p)
    PROVE  GraphInv'
<1> USE RenderGraphConstants
<1>1. Latest(declared) \in Nat
  BY LatestIsNat DEF GraphInv, TypeInv
<1>2. /\ declared' \in [Passes -> Nat]
      /\ \A x \in Passes : x # p => declared'[x] = declared[x]
      /\ added[Owner[p]] # 0 /\ ~Exists(p)
      /\ UNCHANGED <<graphState, added, edges, forward, sortVars>>
  BY <1>1 DEF AddPass, GraphInv, TypeInv, passVars, linkVars, lateVars
<1>3. TypeInv'
  BY <1>2 DEF GraphInv, TypeInv
<1>4. OwnerInv'
  BY <1>2 DEF GraphInv, OwnerInv, Exists
<1>5. EdgeInv'
  <2> SUFFICES ASSUME forward, NEW e \in edges
               PROVE  Exists(e[1])' /\ Exists(e[2])' /\ Before(e[1], e[2])'
    BY <1>2 DEF EdgeInv
  <2>1. e[1] \in Passes /\ e[2] \in Passes /\ Exists(e[1]) /\ Exists(e[2]) /\ Before(e[1], e[2])
    BY DEF GraphInv, TypeInv, EdgeInv
  <2>2. e[1] # p /\ e[2] # p
    BY <1>2, <2>1
  <2> QED
    BY <1>2, <2>1, <2>2 DEF Before, Exists
<1> QED
  BY <1>2, <1>3, <1>4, <1>5, Declaring DEF AddPass

\* New edges only have to go up.
LEMMA AddEdges ==
    ASSUME GraphInv, graphState \in {"none", "CREATED"}, graphState' \in {"CREATED", "trapped"},
           UNCHANGED <<added, declared, sortVars>>, forward' \in BOOLEAN, forward' => forward,
           NEW S \in SUBSET (Passes \X Passes), edges' = edges \cup S,
           forward' => \A e \in S : Exists(e[1]) /\ Exists(e[2]) /\ Before(e[1], e[2])
    PROVE  GraphInv'
<1>1. TypeInv' /\ OwnerInv'
  BY DEF GraphInv, TypeInv, OwnerInv, Exists
<1>2. EdgeInv'
  BY DEF GraphInv, EdgeInv, Exists, Before
<1> QED
  BY <1>1, <1>2, Declaring

\* A use of an image.
LEMMA UseStep ==
    ASSUME GraphInv, NEW p \in Passes, NEW i, NEW u, Use(p, i, u)
    PROVE  GraphInv'
<1> USE RenderGraphConstants
<1>1. /\ Exists(p) /\ graphState = "CREATED" /\ graphState' \in {"CREATED", "trapped"}
      /\ UNCHANGED <<added, declared, forward, sortVars>>
      /\ edges' = edges \/ edges' = edges \cup EdgesInto(p, i, u)
  BY DEF Use, linkVars, lateVars
<1>2. EdgesInto(p, i, u) \in SUBSET (Passes \X Passes)
  BY DEF EdgesInto, PassesOf
<1>3. \A e \in EdgesInto(p, i, u) : Exists(e[1]) /\ Exists(e[2]) /\ Before(e[1], e[2])
  BY <1>1 DEF EdgesInto, PassesOf, Before
<1>4. forward \in BOOLEAN
  BY DEF GraphInv, TypeInv
<1>5. CASE edges' = edges
  <2> DEFINE S == {}
  <2>1. S \in SUBSET (Passes \X Passes) /\ edges' = edges \cup S
    BY <1>5
  <2>2. \A e \in S : Exists(e[1]) /\ Exists(e[2]) /\ Before(e[1], e[2])
    OBVIOUS
  <2> HIDE DEF S
  <2> QED
    BY <1>1, <1>4, <2>1, <2>2, AddEdges
<1>6. CASE edges' = edges \cup EdgesInto(p, i, u)
  BY <1>1, <1>2, <1>3, <1>4, <1>6, AddEdges
<1> QED
  BY <1>1, <1>5, <1>6

\* A connection of an input to an output.
LEMMA ConnectStep ==
    ASSUME GraphInv, NEW src, NEW dst, connect_image(src, dst)
    PROVE  GraphInv'
<1> USE RenderGraphConstants
<1> DEFINE A == PassesOf(Home[src])
           B == PassesOf(Home[dst])
           S == {e \in A \X B : has_image_dependency(UsageOrInsert(e[1], src), UsageOrInsert(e[2], dst))}
<1>1. /\ graphState = "CREATED" /\ graphState' = "CREATED"
      /\ UNCHANGED <<added, declared, sortVars>>
      /\ edges' = edges \cup S
      /\ forward' = (forward /\ added[Home[src]] < added[Home[dst]])
  BY DEF connect_image, lateVars
<1>2. S \in SUBSET (Passes \X Passes)
  BY DEF PassesOf
<1>3. ASSUME forward', NEW e \in S
      PROVE  Exists(e[1]) /\ Exists(e[2]) /\ Before(e[1], e[2])
  BY <1>1, <1>3 DEF PassesOf, Before
<1>4. forward' \in BOOLEAN /\ (forward' => forward)
  BY <1>1 DEF GraphInv, TypeInv
<1> HIDE DEF S
<1> QED
  BY <1>1, <1>2, <1>3, <1>4, AddEdges

\* The other declarations say nothing of the passes.
LEMMA OtherDeclarations ==
    ASSUME GraphInv,
           \/ Create
           \/ \E i, t, e : AddImage(i, t, e)
           \/ \E src, w : connect_swapchain_image(src, w)
    PROVE  GraphInv'
<1>1. /\ graphState \in {"none", "CREATED"} /\ graphState' = "CREATED"
      /\ UNCHANGED <<added, declared, edges, forward, sortVars>>
  BY DEF Create, AddImage, connect_swapchain_image, declVars, passVars, linkVars, lateVars
<1>2. TypeInv' /\ OwnerInv' /\ EdgeInv'
  BY <1>1 DEF GraphInv, TypeInv, OwnerInv, EdgeInv, Exists, Before
<1> QED
  BY <1>1, <1>2, Declaring
-----------------------------------------------------------------------------
(* The sort                                                                *)

\* A step of the sort declares nothing.
LEMMA Sorting ==
    ASSUME GraphInv, UNCHANGED declVars
    PROVE  /\ TypeInv' /\ OwnerInv' /\ EdgeInv'
           /\ Existing' = Existing
           /\ \A p : Targets(p)' = Targets(p)
           /\ \A p, q : Before(p, q)' = Before(p, q)
BY DEF GraphInv, TypeInv, OwnerInv, EdgeInv, Existing, Targets, Exists, Before,
       declVars, passVars, linkVars

\* An edge leads to a pass that exists, upwards.
LEMMA TargetsRise ==
    ASSUME GraphInv, forward, NEW p \in Passes, NEW q \in Targets(p)
    PROVE  q \in Existing /\ Before(p, q)
BY DEF GraphInv, EdgeInv, Targets, Existing

\* The sort begins.
LEMMA BeginStep ==
    ASSUME GraphInv, BeginSort
    PROVE  GraphInv'
<1>1. UNCHANGED <<declVars, sortVars>> /\ graphState = "CREATED" /\ graphState' = "sorting"
  BY DEF BeginSort, lateVars
<1>2. visited' = {} /\ stack' = <<>> /\ passOrder' = <<>>
  BY <1>1 DEF GraphInv, BeforeSort, sortVars
<1>3. SortInv'
  BY <1>2 DEF SortInv, SortType, StackRises, StackCovers, FinishedCovers, Finished, OnStack
<1> QED
  BY <1>1, <1>3, Sorting DEF GraphInv, BeforeSort, SortedInv

\* The sort visits another pass.
LEMMA RootStep ==
    ASSUME GraphInv, NEW p \in Passes, SortRoot(p)
    PROVE  GraphInv'
<1>1. /\ UNCHANGED declVars /\ UNCHANGED passOrder /\ UNCHANGED forward
      /\ graphState = "sorting" /\ graphState' = "sorting"
      /\ stack = <<>> /\ stack' = <<[pass |-> p, left |-> Targets(p)]>>
      /\ p \in Existing /\ p \notin visited /\ visited' = visited \cup {p}
  BY DEF SortRoot, Existing, declVars, linkVars
<1>2. ASSUME forward PROVE SortType' /\ StackRises' /\ StackCovers' /\ FinishedCovers'
  <2>1. SortType /\ FinishedCovers
    BY <1>1, <1>2 DEF GraphInv, SortInv
  <2>2. Finished' = Finished /\ OnStack = {} /\ OnStack' = {p} /\ Len(stack') = 1
    BY <1>1 DEF Finished, OnStack
  <2>3. Targets(p) \subseteq Passes
    BY DEF Targets
  <2>4. SortType'
    BY <1>1, <2>1, <2>2, <2>3, Sorting DEF SortType, StackEntry
  <2>5. StackRises'
    BY <2>2 DEF StackRises
  <2>6. StackCovers'
    BY <1>1, <2>2, Sorting DEF StackCovers
  <2>7. FinishedCovers'
    BY <1>1, <2>1, Sorting DEF FinishedCovers
  <2> QED
    BY <2>4, <2>5, <2>6, <2>7
<1> QED
  BY <1>1, <1>2, Sorting DEF GraphInv, BeforeSort, SortInv, SortedInv

\* The sort follows an edge.
LEMMA EdgeStep ==
    ASSUME GraphInv, NEW q \in Passes, SortEdge(q)
    PROVE  GraphInv'
<1> DEFINE n == Len(stack)
           top == stack[n]
           rest == [stack EXCEPT ![n].left = @ \ {q}]
<1>1. /\ UNCHANGED <<declVars, passOrder, forward>>
      /\ graphState = "sorting" /\ graphState' = "sorting"
      /\ stack # <<>> /\ q \in top.left
      /\ \/ q \in visited /\ stack' = rest /\ visited' = visited
         \/ /\ q \notin visited /\ visited' = visited \cup {q}
            /\ stack' = Append(rest, [pass |-> q, left |-> Targets(q)])
  BY DEF SortEdge, Last, declVars, linkVars
<1>2. ASSUME forward PROVE SortType' /\ StackRises' /\ StackCovers' /\ FinishedCovers'
  <2>1. SortType /\ StackRises /\ StackCovers /\ FinishedCovers
    BY <1>1, <1>2 DEF GraphInv, SortInv
  <2> DEFINE e == [top EXCEPT !.left = @ \ {q}]
  <2>2. stack \in Seq(StackEntry) /\ n \in Nat \ {0} /\ \A k \in 1..n : stack[k] \in StackEntry
    <3>1. stack \in Seq(StackEntry)
      BY <2>1 DEF SortType
    <3> QED
      BY <1>1, <3>1
  <2>3. e \in StackEntry /\ e.pass = top.pass /\ e.left = top.left \ {q}
    <3>1. top \in StackEntry
      BY <2>2
    <3> HIDE DEF top
    <3> QED
      BY <3>1 DEF StackEntry
  <2>4. rest = [stack EXCEPT ![n] = e]
    OBVIOUS
  <2>5. /\ rest \in Seq(StackEntry) /\ Len(rest) = n /\ rest[n] = e
        /\ \A k \in 1..n - 1 : rest[k] = stack[k]
    <3> HIDE DEF e, rest
    <3> QED
      BY <2>2, <2>3, <2>4
  <2>6. \A k \in 1..n : rest[k].pass = stack[k].pass /\ rest[k].pass \in Passes
    BY <2>2, <2>3, <2>5 DEF StackEntry
  <2>7. top.pass \in Passes /\ q \in Targets(top.pass) /\ q \in Existing /\ Before(top.pass, q)
    <3>1. top.pass \in Passes /\ q \in Targets(top.pass)
      BY <1>1, <2>1, <2>2, <2>6 DEF StackCovers
    <3> QED
      BY <1>2, <3>1, TargetsRise
  <2>8. q \notin OnStack
    <3> SUFFICES ASSUME NEW k \in 1..n, stack[k].pass = q PROVE FALSE
      BY DEF OnStack
    <3>1. k # n
      BY <2>7, BeforeStrict DEF GraphInv
    <3>2. Before(q, top.pass)
      BY <2>1, <2>2, <3>1 DEF StackRises
    <3> QED
      BY <2>7, <3>2, BeforeStrict DEF GraphInv
  <2>9. Finished' = Finished /\ FinishedCovers'
    BY <1>1, <2>1, Sorting DEF Finished, FinishedCovers
  <2>10. \A k \in 1..n : \A r \in Targets(stack[k].pass) :
            r \in rest[k].left \/ r \in Finished \/ (k < n /\ r = stack[k + 1].pass) \/ (k = n /\ r = q)
    BY <2>1, <2>2, <2>3, <2>5 DEF StackCovers
  <2>11. \A k \in 1..n : rest[k].left \subseteq Targets(stack[k].pass)
    BY <2>1, <2>2, <2>3, <2>5 DEF StackCovers
  <2>12. CASE q \in visited /\ stack' = rest /\ visited' = visited
    <3> HIDE DEF rest, e
    <3>1. q \in Finished
      BY <2>1, <2>8, <2>12 DEF SortType
    <3>2. Len(stack') = n /\ OnStack' = OnStack
      BY <2>5, <2>6, <2>12 DEF OnStack
    <3>3. SortType'
      BY <1>1, <2>1, <2>5, <2>9, <2>12, <3>2, Sorting DEF SortType
    <3>4. StackRises'
      BY <1>1, <2>1, <2>6, <2>12, <3>2, Sorting DEF StackRises
    <3>5. StackCovers'
      BY <1>1, <2>2, <2>6, <2>9, <2>10, <2>11, <2>12, <3>1, <3>2, Sorting DEF StackCovers
    <3> QED
      BY <2>9, <3>3, <3>4, <3>5
  <2>13. CASE /\ q \notin visited /\ visited' = visited \cup {q}
              /\ stack' = Append(rest, [pass |-> q, left |-> Targets(q)])
    <3> DEFINE new == [pass |-> q, left |-> Targets(q)]
    <3>1. new \in StackEntry /\ new.pass = q /\ new.left = Targets(q)
      BY DEF StackEntry, Targets
    <3> HIDE DEF rest, e, new
    <3>2. /\ stack' \in Seq(StackEntry) /\ Len(stack') = n + 1 /\ stack'[n + 1] = new
          /\ \A k \in 1..n : stack'[k] = rest[k]
      BY <2>2, <2>5, <2>13, <3>1 DEF new
    <3>3. OnStack' = OnStack \cup {q}
      BY <2>2, <2>6, <3>1, <3>2 DEF OnStack
    <3>4. SortType'
      BY <1>1, <2>1, <2>7, <2>9, <2>13, <3>2, <3>3, Sorting DEF SortType
    <3>5. StackRises'
      <4>1. \A k \in 1..n : Before(stack[k].pass, q)
        BY <2>1, <2>2, <2>6, <2>7, BeforeStrict DEF GraphInv, StackRises
      <4> SUFFICES ASSUME NEW j \in 1..n + 1, NEW k \in 1..n + 1, j < k
                   PROVE  Before(stack'[j].pass, stack'[k].pass)
        BY <1>1, <3>2, Sorting DEF StackRises
      <4>2. stack'[j].pass = stack[j].pass
        BY <2>2, <2>6, <3>2
      <4>3. CASE k = n + 1
        BY <2>2, <3>1, <3>2, <4>1, <4>2, <4>3
      <4>4. CASE k \in 1..n
        BY <2>1, <2>2, <2>6, <3>2, <4>2, <4>4 DEF StackRises
      <4> QED
        BY <2>2, <4>3, <4>4
    <3>6. StackCovers'
      <4> SUFFICES ASSUME NEW k \in 1..n + 1
                   PROVE  /\ stack'[k].left \subseteq Targets(stack'[k].pass)
                          /\ \A r \in Targets(stack'[k].pass) :
                                r \in stack'[k].left \/ r \in Finished
                                \/ (k < n + 1 /\ r = stack'[k + 1].pass)
        BY <1>1, <2>9, <3>2, Sorting DEF StackCovers
      <4>1. CASE k = n + 1
        BY <3>1, <3>2, <4>1
      <4>2. CASE k \in 1..n
        BY <2>2, <2>6, <2>10, <2>11, <3>1, <3>2, <4>2
      <4> QED
        BY <2>2, <4>1, <4>2
    <3> QED
      BY <2>9, <3>4, <3>5, <3>6
  <2> QED
    BY <1>1, <2>12, <2>13
<1> QED
  BY <1>1, <1>2, Sorting DEF GraphInv, BeforeSort, SortInv, SortedInv

\* A pass whose edges are done is appended to the order.
LEMMA ReturnStep ==
    ASSUME GraphInv, SortReturn
    PROVE  GraphInv'
<1> DEFINE n == Len(stack)
           m == Len(passOrder)
           p == stack[n].pass
<1>1. /\ UNCHANGED <<declVars, visited, forward>>
      /\ graphState = "sorting" /\ graphState' = "sorting"
      /\ stack # <<>> /\ stack[n].left = {}
      /\ passOrder' = Append(passOrder, p)
      /\ stack' = SubSeq(stack, 1, n - 1)
  BY DEF SortReturn, Last, Front, declVars, linkVars
<1>2. ASSUME forward PROVE SortType' /\ StackRises' /\ StackCovers' /\ FinishedCovers'
  <2>1. SortType /\ StackRises /\ StackCovers /\ FinishedCovers
    BY <1>1, <1>2 DEF GraphInv, SortInv
  <2>2. stack \in Seq(StackEntry) /\ n \in Nat \ {0} /\ \A k \in 1..n : stack[k] \in StackEntry
    <3>1. stack \in Seq(StackEntry)
      BY <2>1 DEF SortType
    <3> QED
      BY <1>1, <3>1
  <2>3. /\ stack' \in Seq(StackEntry) /\ Len(stack') = n - 1
        /\ \A k \in 1..n - 1 : stack'[k] = stack[k]
    <3>1. \A k \in 1..n - 1 : stack[k] \in StackEntry
      BY <2>2
    <3>2. /\ SubSeq(stack, 1, n - 1) \in Seq(StackEntry)
          /\ Len(SubSeq(stack, 1, n - 1)) = IF 1 <= n - 1 THEN n - 1 - 1 + 1 ELSE 0
          /\ \A k \in 1..n - 1 - 1 + 1 : SubSeq(stack, 1, n - 1)[k] = stack[1 + k - 1]
      BY <2>2, <3>1, SubSeqProperties
    <3> HIDE DEF n
    <3> QED
      BY <1>1, <2>2, <3>2
  <2>4. \A k \in 1..n : stack[k].pass \in Passes
    BY <2>2 DEF StackEntry
  <2>5. /\ passOrder' \in Seq(Passes) /\ m \in Nat /\ Len(passOrder') = m + 1
        /\ passOrder'[m + 1] = p /\ \A k \in 1..m : passOrder'[k] = passOrder[k]
    BY <1>1, <2>1, <2>2, <2>4 DEF SortType
  <2>6. Finished' = Finished \cup {p}
    BY <2>5 DEF Finished
  <2>7. \A k \in 1..n - 1 : stack[k].pass # p
    <3> SUFFICES ASSUME NEW k \in 1..n - 1 PROVE stack[k].pass # p
      OBVIOUS
    <3>1. Before(stack[k].pass, p)
      BY <2>1, <2>2 DEF StackRises
    <3> QED
      BY <2>2, <2>4, <3>1, BeforeStrict DEF GraphInv
  <2>8. OnStack = OnStack' \cup {p} /\ p \notin OnStack'
    BY <2>2, <2>3, <2>7 DEF OnStack
  <2>9. SortType'
    <3>1. p \notin Finished
      BY <2>1, <2>8 DEF SortType
    <3>2. \A j, k \in 1..m + 1 : passOrder'[j] = passOrder'[k] => j = k
      BY <2>1, <2>5, <3>1 DEF SortType, Finished
    <3> QED
      BY <1>1, <2>1, <2>3, <2>5, <2>6, <2>8, <3>1, <3>2, Sorting DEF SortType
  <2>10. StackRises'
    <3> SUFFICES ASSUME NEW j \in 1..n - 1, NEW k \in 1..n - 1, j < k
                 PROVE  Before(stack'[j].pass, stack'[k].pass)
      BY <1>1, <2>3, Sorting DEF StackRises
    <3> QED
      BY <2>1, <2>2, <2>3 DEF StackRises
  <2>11. StackCovers'
    <3>1. ASSUME NEW k \in 1..n - 1
          PROVE  /\ stack'[k].left \subseteq Targets(stack'[k].pass)
                 /\ \A r \in Targets(stack'[k].pass) :
                       r \in stack'[k].left \/ r \in Finished'
                       \/ (k < n - 1 /\ r = stack'[k + 1].pass)
      <4>1. stack'[k] = stack[k] /\ (k < n - 1 => stack'[k + 1] = stack[k + 1])
        BY <2>2, <2>3
      <4>2. k = n - 1 => stack[k + 1].pass \in Finished'
        BY <2>2, <2>6
      <4> QED
        BY <2>1, <2>2, <2>6, <4>1, <4>2 DEF StackCovers
    <3>2. Len(stack') = n - 1
      BY <2>2, <2>3
    <3>3. \A q : Targets(q)' = Targets(q)
      BY <1>1, Sorting
    <3> QED
      BY <3>1, <3>2, <3>3 DEF StackCovers
  <2>12. FinishedCovers'
    <3>1. \A r \in Targets(p) : r \in Finished
      BY <1>1, <2>1, <2>2 DEF StackCovers
    <3> SUFFICES ASSUME NEW k \in 1..m + 1
                 PROVE  \A r \in Targets(passOrder'[k]) : \E j \in 1..m + 1 : j < k /\ passOrder'[j] = r
      <4>1. FinishedCovers' <=> \A k \in 1..Len(passOrder') : \A r \in Targets(passOrder'[k]) :
                \E j \in 1..Len(passOrder') : j < k /\ passOrder'[j] = r
        BY <1>1 DEF FinishedCovers, Targets, declVars, passVars
      <4> QED
        BY <2>5, <4>1
    <3>2. CASE k = m + 1
      BY <2>5, <3>1, <3>2 DEF Finished
    <3>3. CASE k \in 1..m
      <4>1. passOrder'[k] = passOrder[k] /\ \A j \in 1..m : passOrder'[j] = passOrder[j]
        BY <2>5, <3>3
      <4>2. \A r \in Targets(passOrder[k]) : \E j \in 1..m : j < k /\ passOrder[j] = r
        BY <2>1, <3>3 DEF FinishedCovers
      <4> QED
        BY <2>5, <4>1, <4>2
    <3> QED
      BY <2>5, <3>2, <3>3
  <2> QED
    BY <2>9, <2>10, <2>11, <2>12
<1> QED
  BY <1>1, <1>2, Sorting DEF GraphInv, BeforeSort, SortInv, SortedInv

\* Nothing is on the stack: every pass finished, and they are turned around.
LEMMA EndStep ==
    ASSUME GraphInv, SortEnd
    PROVE  GraphInv'
<1> DEFINE m == Len(passOrder)
<1>1. /\ UNCHANGED <<declVars, forward>>
      /\ graphState = "sorting" /\ graphState' = "SORTED"
      /\ stack = <<>> /\ Existing \subseteq visited
      /\ passOrder' = Reverse(passOrder)
  BY DEF SortEnd, Existing, declVars, linkVars
<1>2. ASSUME forward PROVE SortedInv'
  <2>1. SortType /\ FinishedCovers
    BY <1>1, <1>2 DEF GraphInv, SortInv
  <2>2. Finished = Existing
    <3>1. OnStack = {}
      BY <1>1 DEF OnStack
    <3> QED
      BY <1>1, <2>1, <3>1 DEF SortType
  <2>3. m \in Nat /\ \A k \in 1..m : passOrder[k] \in Passes
    <3>1. passOrder \in Seq(Passes)
      BY <2>1 DEF SortType
    <3> QED
      BY <3>1
  <2>4. passOrder' = [k \in 1..m |-> passOrder[m - k + 1]]
    BY <1>1 DEF Reverse
  <2>5. /\ passOrder' \in Seq(Passes) /\ Len(passOrder') = m
        /\ \A k \in 1..m : passOrder'[k] = passOrder[m - k + 1]
    <3>1. \A k \in 1..m : m - k + 1 \in 1..m
      BY <2>3
    <3> HIDE DEF m
    <3> QED
      BY <2>3, <2>4, <3>1
  <2>6. \A j, k \in 1..m : passOrder'[j] = passOrder'[k] => j = k
    <3> SUFFICES ASSUME NEW j \in 1..m, NEW k \in 1..m, passOrder'[j] = passOrder'[k]
                 PROVE  j = k
      OBVIOUS
    <3>1. m - j + 1 \in 1..m /\ m - k + 1 \in 1..m
      BY <2>3
    <3>2. m - j + 1 = m - k + 1
      BY <2>1, <2>5, <3>1 DEF SortType
    <3> QED
      BY <2>3, <3>2
  <2>7. Finished' = Existing'
    <3>1. Finished' = {passOrder'[k] : k \in 1..m}
      BY <2>5 DEF Finished
    <3>2. \A k \in 1..m : m - k + 1 \in 1..m /\ m - (m - k + 1) + 1 = k
      BY <2>3
    <3>3. Finished' \subseteq Finished
      BY <2>5, <3>1, <3>2 DEF Finished
    <3>4. ASSUME NEW k \in 1..m PROVE passOrder[k] \in Finished'
      <4>1. m - k + 1 \in 1..m /\ passOrder'[m - k + 1] = passOrder[k]
        BY <2>5, <3>2
      <4> QED
        BY <3>1, <4>1
    <3>5. Finished \subseteq Finished'
      BY <3>4 DEF Finished
    <3> QED
      BY <1>1, <2>2, <3>3, <3>5, Sorting
  <2>8. ASSUME NEW k \in 1..m, NEW q \in Targets(passOrder'[k])
        PROVE  \E j \in 1..m : k < j /\ passOrder'[j] = q
    <3>1. m - k + 1 \in 1..m /\ q \in Targets(passOrder[m - k + 1])
      BY <2>3, <2>5
    <3>2. PICK i \in 1..m : i < m - k + 1 /\ passOrder[i] = q
      BY <2>1, <3>1 DEF FinishedCovers
    <3>3. m - i + 1 \in 1..m /\ k < m - i + 1 /\ m - (m - i + 1) + 1 = i
      BY <2>3, <3>2
    <3> QED
      BY <2>5, <3>2, <3>3
  <2>9. \A k \in 1..Len(passOrder') : \A q \in Targets(passOrder'[k]) :
           \E j \in 1..Len(passOrder') : k < j /\ passOrder'[j] = q
    BY <2>5, <2>8
  <2>10. \A k \in 1..Len(passOrder') : Targets(passOrder[k])' = Targets(passOrder'[k])
    BY <1>1 DEF Targets, declVars, passVars
  <2> QED
    BY <2>5, <2>6, <2>7, <2>9, <2>10 DEF SortedInv
<1>3. SortedInv'
  BY <1>1, <1>2 DEF SortedInv
<1> QED
  BY <1>1, <1>3, Sorting DEF GraphInv, BeforeSort, SortInv

\* What follows the sort leaves the declarations and the order alone.
LEMMA AfterSort ==
    ASSUME GraphInv,
           \/ RecordPass
           \/ \E windows : Submit(windows)
           \/ UNCHANGED graphVars
    PROVE  GraphInv'
<1>1. UNCHANGED <<declVars, forward, visited, stack, passOrder>>
  BY DEF RecordPass, Submit, graphVars, sortVars, declVars, linkVars
<1>2. \/ graphState' = graphState
      \/ graphState = "SORTED" /\ graphState' \in {"submitted", "trapped"}
  BY DEF RecordPass, Submit, graphVars
<1>3. TypeInv' /\ OwnerInv' /\ EdgeInv' /\ BeforeSort'
  BY <1>1, <1>2, Sorting DEF GraphInv, BeforeSort
<1>4. SortInv'
  <2>1. SortType' <=> SortType
    <3>1. Existing' = Existing
      BY <1>1 DEF Existing, Exists, declVars
    <3>2. Finished' = Finished /\ OnStack' = OnStack
      BY <1>1 DEF Finished, OnStack
    <3> QED
      BY <1>1, <3>1, <3>2 DEF SortType
  <2>2. StackRises' <=> StackRises
    BY <1>1, Sorting DEF StackRises
  <2>3. StackCovers' <=> StackCovers
    BY <1>1 DEF StackCovers, Targets, Finished, declVars, passVars
  <2>4. FinishedCovers' <=> FinishedCovers
    BY <1>1 DEF FinishedCovers, Targets, declVars, passVars
  <2> QED
    BY <1>1, <1>2, <2>1, <2>2, <2>3, <2>4 DEF GraphInv, SortInv
<1>5. SortedInv'
  BY <1>1, <1>2 DEF GraphInv, SortedInv, Finished, Existing, Exists, Targets, declVars, passVars
<1> QED
  BY <1>3, <1>4, <1>5 DEF GraphInv

\* The graph is destroyed.
LEMMA DestroyStep ==
    ASSUME DestroyGraph
    PROVE  GraphInv'
BY RenderGraphConstants
   DEF DestroyGraph, GraphInv, TypeInv, OwnerInv, EdgeInv, BeforeSort, SortInv, SortedInv, Exists

\* The invariant is inductive over the whole life of the graph, frame after frame.
THEOREM GraphInvariant == GraphSpec => []GraphInv
<1>1. GraphInit => GraphInv
  BY InvInit
<1>2. GraphInv /\ [\E windows \in SUBSET Windows : GraphNext(windows)]_graphVars => GraphInv'
  <2> SUFFICES ASSUME GraphInv,
                      [\E windows \in SUBSET Windows : GraphNext(windows)]_graphVars
               PROVE  GraphInv'
    OBVIOUS
  <2>1. CASE UNCHANGED graphVars
    BY <2>1, AfterSort
  <2>2. ASSUME NEW windows \in SUBSET Windows, GraphNext(windows)
        PROVE  GraphInv'
    <3>1. CASE \E c \in Components : AddComponent(c)
      BY <3>1, AddComponentStep
    <3>2. CASE \E p \in Passes : AddPass(p)
      BY <3>2, AddPassStep
    <3>3. CASE \E p \in Passes, i \in Images, u \in AttachmentUsages \union {"SAMPLED", "STORAGE"} :
                  Use(p, i, u)
      BY <3>3, UseStep
    <3>4. CASE \E src, dst \in Images : connect_image(src, dst)
      BY <3>4, ConnectStep
    <3>5. CASE Create
      BY <3>5, OtherDeclarations
    <3>6. CASE \E i \in Images, t \in {"PRIVATE", "OUTPUT", "INPUT", "IO"}, e \in Extents :
                  AddImage(i, t, e)
      BY <3>6, OtherDeclarations
    <3>7. CASE \E src \in Images, w \in Windows : connect_swapchain_image(src, w)
      BY <3>7, OtherDeclarations
    <3>8. CASE SortStep
      BY <3>8, BeginStep, RootStep, EdgeStep, ReturnStep, EndStep DEF SortStep
    <3>9. CASE RecordPass \/ Submit(windows)
      BY <3>9, AfterSort
    <3>10. CASE DestroyGraph
      BY <3>10, DestroyStep
    <3> QED
      BY <2>2, <3>1, <3>2, <3>3, <3>4, <3>5, <3>6, <3>7, <3>8, <3>9, <3>10 DEF GraphNext
  <2> QED
    BY <2>1, <2>2
<1> QED
  BY <1>1, <1>2, PTL DEF GraphSpec

\* RGraphObj::topological_sort: when the images of a frame are connected from
\* components to components that were added later, every declared pass is in
\* passOrder once and after all the passes it depends on.
THEOREM OrderCorrect == GraphSpec => []OrderRespectsEdges
<1>1. GraphInv => OrderRespectsEdges
  <2> SUFFICES ASSUME GraphInv, graphState \in {"SORTED", "submitted"}, forward
               PROVE  /\ IsInjective(passOrder)
                      /\ ToSet(passOrder) = {p \in Passes : Exists(p)}
                      /\ \A e \in edges : IndexIn(e[1]) < IndexIn(e[2])
    BY DEF OrderRespectsEdges
  <2> DEFINE m == Len(passOrder)
  <2>1. /\ passOrder \in Seq(Passes)
        /\ \A j, k \in 1..m : passOrder[j] = passOrder[k] => j = k
        /\ Finished = Existing
        /\ \A k \in 1..m : \A q \in Targets(passOrder[k]) :
              \E j \in 1..m : k < j /\ passOrder[j] = q
    BY DEF GraphInv, SortedInv
  <2>2. m \in Nat /\ DOMAIN passOrder = 1..m
    BY <2>1
  <2>3. IsInjective(passOrder)
    BY <2>1, <2>2 DEF IsInjective
  <2>4. ToSet(passOrder) = {p \in Passes : Exists(p)}
    BY <2>1, <2>2 DEF ToSet, Finished, Existing
  <2>5. \A k \in 1..m : IndexIn(passOrder[k]) = k
    BY <2>1 DEF IndexIn
  <2>6. ASSUME NEW e \in edges PROVE IndexIn(e[1]) < IndexIn(e[2])
    <3>1. e[1] \in Passes /\ e[2] \in Targets(e[1]) /\ e[1] \in Existing
      BY DEF GraphInv, TypeInv, EdgeInv, Targets, Existing
    <3>2. PICK k \in 1..m : passOrder[k] = e[1]
      BY <2>1, <3>1 DEF Finished
    <3>3. PICK j \in 1..m : k < j /\ passOrder[j] = e[2]
      BY <2>1, <3>1, <3>2
    <3>4. IndexIn(e[1]) = k /\ IndexIn(e[2]) = j
      BY <2>5, <3>2, <3>3
    <3> QED
      BY <3>3, <3>4
  <2> QED
    BY <2>3, <2>4, <2>6
<1> QED
  BY <1>1, GraphInvariant, PTL

-----------------------------------------------------------------------------
(* RenderSystem                                                            *)

\* The order in which a frame declares its parts: what a component, a pass or the
\* connection of an input comes after has a smaller number.
CompPhase == [c \in {"Forward", "Overlay", "SceneScreen", "Editor", "ScreenPick", "EditorDialog"} |->
    CASE c = "Forward" -> 1 [] c = "Overlay" -> 2 [] c = "SceneScreen" -> 5
      [] c = "Editor" -> 7 [] c = "ScreenPick" -> 9 [] OTHER -> 11]
PassPhase == [p \in {"forward", "outline", "gizmo", "screen", "editor", "pick", "dialog"} |->
    CASE p = "forward" -> 1 [] p = "outline" -> 2 [] p = "gizmo" -> 3 [] p = "screen" -> 5
      [] p = "editor" -> 7 [] p = "pick" -> 9 [] OTHER -> 11]
LinkPhase == [i \in {"in_color", "in_id", "screen_io", "editor_in", "pick_in"} |->
    CASE i \in {"in_color", "in_id"} -> 4 [] i = "screen_io" -> 6 [] i = "editor_in" -> 8 [] OTHER -> 10]

\* Which pass uses which image, and which image may be connected to which.
UseTable ==
    {<<"forward", "color", "COLOR">>, <<"forward", "id", "COLOR">>, <<"forward", "depth", "DEPTH">>,
     <<"outline", "in_color", "COLOR">>, <<"outline", "in_id", "SAMPLED">>,
     <<"gizmo", "out_color", "COLOR">>, <<"gizmo", "out_id", "COLOR">>,
     <<"gizmo", "in_color", "SAMPLED">>, <<"gizmo", "in_id", "SAMPLED">>,
     <<"screen", "screen_io", "COLOR">>,
     <<"editor", "editor_io", "COLOR">>, <<"editor", "editor_in", "SAMPLED">>,
     <<"pick", "pick_in", "STORAGE">>, <<"dialog", "dialog_io", "COLOR">>}
LinkTable ==
    {<<"color", "in_color">>, <<"id", "in_id">>,
     <<"color", "screen_io">>, <<"out_color", "screen_io">>,
     <<"color", "editor_in">>, <<"out_color", "editor_in">>, <<"screen_io", "editor_in">>,
     <<"id", "pick_in">>, <<"out_id", "pick_in">>}

PhaseOf(c) ==
    CASE c.call = "component" -> CompPhase[c.c]
      [] c.call = "image" -> CompPhase[ImageHome[c.i]]
      [] c.call \in {"pass", "use"} -> PassPhase[c.p]
      [] c.call = "connect" -> LinkPhase[c.dst]
      [] OTHER -> IF c.w = "dialog" THEN 11 ELSE 12

Calls ==
    {Component(c) : c \in DOMAIN CompPhase}
    \cup {Image(i, t) : i \in DOMAIN ImageHome, t \in {"OUTPUT", "INPUT", "IO"}}
    \cup {Pass(p) : p \in DOMAIN PassPhase}
    \cup {UseImage(x[1], x[2], x[3]) : x \in UseTable}
    \cup {Connect(x[1], x[2]) : x \in LinkTable}
    \cup {Blit(i, w) : i \in DOMAIN ImageHome, w \in {"root", "dialog"}}

\* The methods that declare parts of phase n, and those that are called after them.
Methods(n) ==
    (IF n < 5 THEN {"world"} ELSE {}) \cup (IF n < 7 THEN {"screen"} ELSE {})
    \cup (IF n < 11 THEN {"editor"} ELSE {}) \cup (IF n < 12 THEN {"dialog"} ELSE {}) \cup {"submit"}
Since(n) == called \cap Methods(n) # {}

\* The calls still to make, and what connects them.
Elements(s) == {s[k] : k \in 1..Len(s)}
Pending == Elements(todo)
ConnectsIn(S) == {<<c.src, c.dst>> : c \in {c \in S : c.call = "connect"}}

\* A part of phase n was declared.
Done(n) == Since(n) /\ \A c \in Pending : n <= PhaseOf(c)

\* The calls come in the order of their phases.
TodoInv ==
    /\ todo \in Seq(Calls)
    /\ \A j, k \in 1..Len(todo) : j <= k => PhaseOf(todo[j]) <= PhaseOf(todo[k])
    /\ \A c \in Pending : Since(PhaseOf(c))

DoneInv ==
    /\ \A c \in Components : added[c] # 0 => Done(CompPhase[c])
    /\ \A p \in Passes : declared[p] # 0 => Done(PassPhase[p])
    /\ \A d \in DOMAIN imageRefs : Done(LinkPhase[d])

\* What is numbered later has no smaller rank.
Ranked(S, f, rank) ==
    /\ \A c, d \in S : f[c] # 0 /\ f[d] # 0 /\ rank[c] < rank[d] => f[c] < f[d]
    /\ \A c \in S : f[c] <= Latest(f)

RankInv == Ranked(Components, added, CompPhase) /\ Ranked(Passes, declared, PassPhase)

UseInv ==
    /\ DOMAIN used = Passes /\ DOMAIN imageUsages = Passes
    /\ \A i \in DOMAIN images : i \in Images /\ added[Home[i]] # 0
    /\ \A p \in Passes : \A i \in DOMAIN used[p] :
          /\ <<p, i, used[p][i]>> \in UseTable /\ Exists(p)
          /\ i \in DOMAIN imageUsages[p] /\ imageUsages[p][i] = used[p][i]

\* The connections made, and those to come.
Links == {<<imageRefs[d], d>> : d \in DOMAIN imageRefs} \cup ConnectsIn(Pending)

LinkInv ==
    /\ Links \subseteq LinkTable
    /\ \A x, y \in Links : x[1] = y[1] => x = y
    /\ \A x \in Links : x[1] # mLastColorAttachment
    /\ "editor" \notin called => \A x \in Links : x[1] # mLastIDFlagsAttachment
    /\ mLastColorAttachment \in {NoImage, "color", "out_color", "screen_io", "editor_io"}
    /\ mLastColorAttachment = "screen_io" => Since(5)
    /\ mLastColorAttachment = "editor_io" => Since(7)
    /\ mLastIDFlagsAttachment \in {NoImage, "id", "out_id"}

ScreenUse == UseImage("screen", "screen_io", "COLOR")
ScreenInv ==
    "screen_io" \in DOMAIN images \/ (\E t \in {"OUTPUT", "INPUT", "IO"} : Image("screen_io", t) \in Pending) =>
        ScreenUse \in Pending \/ "screen_io" \in DOMAIN used["screen"]

EdgesInv ==
    /\ \A d \in DOMAIN imageRefs : \A p, q \in Passes :
          /\ imageRefs[d] \in DOMAIN used[p] /\ d \in DOMAIN used[q]
          /\ has_image_dependency(used[p][imageRefs[d]], used[q][d])
          => <<p, q>> \in edges
    /\ "in_color" \in DOMAIN used["outline"] \cap DOMAIN used["gizmo"] => <<"outline", "gizmo">> \in edges
    /\ \A d \in DOMAIN imageRefs : imageRefs[d] = "screen_io" => "screen_io" \in DOMAIN used["screen"]

IdleInv == graphState = "none" =>
    /\ todo = <<>>
    /\ \A c \in Components : added[c] = 0
    /\ \A p \in Passes : declared[p] = 0
    /\ DOMAIN imageRefs = {}

RecordInv ==
    /\ graphState \in {"none", "CREATED", "sorting", "SORTED", "submitted", "trapped"}
    /\ graphState \notin {"SORTED", "submitted"} => recorded = <<>>
    /\ graphState \in {"SORTED", "submitted"} =>
          /\ Len(recorded) <= Len(passOrder) /\ \E S : recorded \in Seq(S)
          /\ \A k \in 1..Len(recorded) : recorded[k].pass = passOrder[k]

FrameInv == graphState # "trapped" =>
    forward /\ TodoInv /\ DoneInv /\ RankInv /\ UseInv /\ LinkInv /\ ScreenInv /\ EdgesInv /\ IdleInv /\ RecordInv
-----------------------------------------------------------------------------
\* The parts that RenderSystem declares are those of the tables.
LEMMA Tables ==
    /\ Passes = DOMAIN PassPhase /\ Components = DOMAIN CompPhase /\ Images = DOMAIN ImageHome
    /\ Owner = PassOwner /\ Home = ImageHome
    /\ \A p \in Passes : Owner[p] \in Components /\ PassPhase[p] \in 1..11
    /\ \A i \in Images : Home[i] \in Components
    /\ \A c \in Components : CompPhase[c] \in 1..11
    /\ \A d \in DOMAIN LinkPhase : LinkPhase[d] \in 4..10
<1>1. Passes = DOMAIN PassPhase /\ Images = DOMAIN ImageHome /\ Owner = PassOwner /\ Home = ImageHome
  BY RenderSystemConstants DEF PassPhase, PassOwner
<1>2. \A p \in Passes : PassOwner[p] \in DOMAIN CompPhase /\ PassPhase[p] \in 1..11
  BY <1>1 DEF PassOwner, CompPhase, PassPhase
<1>3. Components = DOMAIN CompPhase
  <2>1. Components = {PassOwner[p] : p \in Passes}
    BY RenderSystemConstants
  <2>2. /\ PassOwner["forward"] = "Forward" /\ PassOwner["outline"] = "Overlay"
        /\ PassOwner["screen"] = "SceneScreen" /\ PassOwner["editor"] = "Editor"
        /\ PassOwner["pick"] = "ScreenPick" /\ PassOwner["dialog"] = "EditorDialog"
        /\ {"forward", "outline", "screen", "editor", "pick", "dialog"} \subseteq Passes
    BY <1>1 DEF PassOwner, PassPhase
  <2>3. DOMAIN CompPhase \subseteq Components
    BY <2>1, <2>2 DEF CompPhase
  <2> QED
    BY <1>2, <2>1, <2>3
<1>4. \A i \in Images : ImageHome[i] \in DOMAIN CompPhase
  BY <1>1 DEF ImageHome, CompPhase
<1>5. \A c \in DOMAIN CompPhase : CompPhase[c] \in 1..11
  BY DEF CompPhase
<1>6. \A d \in DOMAIN LinkPhase : LinkPhase[d] \in 4..10
  BY DEF LinkPhase
<1> QED
  BY <1>1, <1>2, <1>3, <1>4, <1>5, <1>6

\* A use comes after its pass.
LEMMA UseTableFacts ==
    ASSUME NEW x \in UseTable
    PROVE  /\ x[1] \in Passes /\ x[2] \in Images /\ x = <<x[1], x[2], x[3]>>
           /\ Home[x[2]] = Owner[x[1]]
           /\ x[3] \in {"COLOR", "DEPTH", "SAMPLED", "STORAGE"}
<1>1. x[1] \in DOMAIN PassOwner /\ x[2] \in DOMAIN ImageHome /\ x = <<x[1], x[2], x[3]>>
  BY DEF UseTable, PassOwner, ImageHome
<1>2. ImageHome[x[2]] = PassOwner[x[1]]
  BY DEF UseTable, PassOwner, ImageHome
<1>3. x[3] \in {"COLOR", "DEPTH", "SAMPLED", "STORAGE"}
  BY DEF UseTable
<1> QED
  BY <1>1, <1>2, <1>3, RenderSystemConstants

\* An image is connected after its uses, from a component to a later one.
LEMMA LinkTableFacts ==
    ASSUME NEW x \in LinkTable
    PROVE  /\ x[1] \in Images /\ x[2] \in Images /\ x = <<x[1], x[2]>>
           /\ x[2] \in DOMAIN LinkPhase
           /\ CompPhase[Home[x[1]]] < CompPhase[Home[x[2]]]
           /\ \A y \in UseTable : y[2] \in {x[1], x[2]} => PassPhase[y[1]] < LinkPhase[x[2]]
<1>1. x[1] \in DOMAIN ImageHome /\ x[2] \in DOMAIN ImageHome /\ x = <<x[1], x[2]>> /\ x[2] \in DOMAIN LinkPhase
  BY DEF LinkTable, ImageHome, LinkPhase
<1>2. CompPhase[ImageHome[x[1]]] < CompPhase[ImageHome[x[2]]]
  BY DEF LinkTable, ImageHome, CompPhase
<1>3. ASSUME NEW y \in UseTable, y[2] \in {x[1], x[2]}
      PROVE  PassPhase[y[1]] < LinkPhase[x[2]]
  <2>1. \/ x[2] \in {"in_color", "in_id"} /\ LinkPhase[x[2]] = 4 /\ y[2] \in {"in_color", "in_id", "color", "id"}
        \/ x[2] = "screen_io" /\ LinkPhase[x[2]] = 6 /\ y[2] \in {"screen_io", "color", "out_color"}
        \/ x[2] = "editor_in" /\ LinkPhase[x[2]] = 8 /\ y[2] \in {"editor_in", "screen_io", "color", "out_color"}
        \/ x[2] = "pick_in" /\ LinkPhase[x[2]] = 10 /\ y[2] \in {"pick_in", "id", "out_id"}
    BY <1>3 DEF LinkTable, LinkPhase
  <2>2. /\ y[2] \in {"in_color", "in_id", "color", "id", "out_color", "out_id"} => PassPhase[y[1]] <= 3
        /\ y[2] = "screen_io" => PassPhase[y[1]] = 5
        /\ y[2] = "editor_in" => PassPhase[y[1]] = 7
        /\ y[2] = "pick_in" => PassPhase[y[1]] = 9
    BY DEF UseTable, PassPhase
  <2>3. PassPhase[y[1]] \in Int
    BY UseTableFacts, Tables
  <2> QED
    BY <2>1, <2>2, <2>3
<1> QED
  BY <1>1, <1>2, <1>3, RenderSystemConstants

\* What a call is.
LEMMA CallFacts ==
    ASSUME NEW c \in Calls
    PROVE  /\ PhaseOf(c) \in 1..12
           /\ c.call \in {"component", "image", "pass", "use", "connect", "blit"}
           /\ c.call = "component" => c.c \in Components /\ PhaseOf(c) = CompPhase[c.c]
           /\ c.call = "image" => /\ c.i \in Images /\ PhaseOf(c) = CompPhase[Home[c.i]]
                                  /\ c = Image(c.i, c.type) /\ c.type \in {"OUTPUT", "INPUT", "IO"}
           /\ c.call = "pass" => c.p \in Passes /\ PhaseOf(c) = PassPhase[c.p]
           /\ c.call = "use" => /\ <<c.p, c.i, c.u>> \in UseTable /\ PhaseOf(c) = PassPhase[c.p]
                                /\ c = UseImage(c.p, c.i, c.u)
           /\ c.call = "connect" => <<c.src, c.dst>> \in LinkTable /\ PhaseOf(c) = LinkPhase[c.dst]
           /\ c.call = "blit" => c.src \in Images /\ c.w \in {"root", "dialog"}
<1>1. CASE c \in {Component(x) : x \in DOMAIN CompPhase}
  BY <1>1, Tables DEF Component, PhaseOf
<1>2. CASE c \in {Image(i, t) : i \in DOMAIN ImageHome, t \in {"OUTPUT", "INPUT", "IO"}}
  <2>1. PICK i \in DOMAIN ImageHome, t \in {"OUTPUT", "INPUT", "IO"} : c = Image(i, t)
    BY <1>2
  <2>2. c.call = "image" /\ c.i = i /\ c.type = t
    BY <2>1 DEF Image
  <2>3. PhaseOf(c) = CompPhase[Home[i]] /\ PhaseOf(c) \in 1..12
    BY <2>2, Tables DEF PhaseOf
  <2> QED
    BY <2>1, <2>2, <2>3, Tables
<1>3. CASE c \in {Pass(p) : p \in DOMAIN PassPhase}
  BY <1>3, Tables DEF Pass, PhaseOf
<1>4. CASE c \in {UseImage(x[1], x[2], x[3]) : x \in UseTable}
  <2>1. PICK x \in UseTable : c = UseImage(x[1], x[2], x[3])
    BY <1>4
  <2>2. c.call = "use" /\ c.p = x[1] /\ c.i = x[2] /\ c.u = x[3]
    BY <2>1 DEF UseImage
  <2>3. x[1] \in Passes /\ x = <<x[1], x[2], x[3]>>
    BY UseTableFacts
  <2>4. PhaseOf(c) = PassPhase[x[1]] /\ PhaseOf(c) \in 1..12
    BY <2>2, <2>3, Tables DEF PhaseOf
  <2> QED
    BY <2>1, <2>2, <2>3, <2>4
<1>5. CASE c \in {Connect(x[1], x[2]) : x \in LinkTable}
  <2>1. PICK x \in LinkTable : c = Connect(x[1], x[2])
    BY <1>5
  <2>2. c.call = "connect" /\ c.src = x[1] /\ c.dst = x[2]
    BY <2>1 DEF Connect
  <2>3. x[2] \in DOMAIN LinkPhase /\ x = <<x[1], x[2]>>
    BY LinkTableFacts
  <2>4. PhaseOf(c) = LinkPhase[x[2]] /\ PhaseOf(c) \in 1..12
    BY <2>2, <2>3, Tables DEF PhaseOf
  <2> QED
    BY <2>2, <2>3, <2>4
<1>6. CASE c \in {Blit(i, w) : i \in DOMAIN ImageHome, w \in {"root", "dialog"}}
  BY <1>6, Tables DEF Blit, PhaseOf
<1> QED
  BY <1>1, <1>2, <1>3, <1>4, <1>5, <1>6 DEF Calls

\* The first call is made: it does not come after those that are left.
LEMMA TodoStep ==
    ASSUME TodoInv, todo # <<>>, todo' = Tail(todo), UNCHANGED called
    PROVE  /\ TodoInv'
           /\ Head(todo) \in Calls /\ Since(PhaseOf(Head(todo)))
           /\ Pending = Pending' \cup {Head(todo)}
           /\ Pending \subseteq Calls
           /\ \A d \in Pending : PhaseOf(Head(todo)) <= PhaseOf(d)
<1> DEFINE n == Len(todo)
<1>1. todo \in Seq(Calls) /\ n \in Nat \ {0} /\ Head(todo) = todo[1] /\ \A k \in 1..n : todo[k] \in Calls
  BY DEF TodoInv
<1>2. /\ todo' \in Seq(Calls) /\ Len(todo') = n - 1
      /\ \A k \in 1..n - 1 : todo'[k] = todo[k + 1]
  BY <1>1
<1>3. \A k \in 1..n - 1 : k + 1 \in 1..n
  BY <1>1
<1>4. \A k \in 1..n : k = 1 \/ k - 1 \in 1..n - 1
  BY <1>1
<1> HIDE DEF n
<1>5. Pending = Pending' \cup {Head(todo)}
  <2>1. ASSUME NEW k \in 1..n PROVE todo[k] \in Pending' \cup {todo[1]}
    <3>1. CASE k # 1
      <4>1. k - 1 \in 1..n - 1 /\ (k - 1) + 1 = k
        BY <1>1, <1>4, <3>1
      <4> QED
        BY <1>2, <4>1 DEF Pending, Elements
    <3> QED
      BY <3>1
  <2>2. \A k \in 1..n - 1 : todo'[k] \in Pending
    BY <1>2, <1>3 DEF Pending, Elements, n
  <2>3. Head(todo) \in Pending
    BY <1>1 DEF Pending, Elements, n
  <2>4. Pending \subseteq Pending' \cup {Head(todo)}
    BY <1>1, <2>1 DEF Pending, Elements, n
  <2>5. Pending' \subseteq Pending
    <3>1. Pending' = {todo'[k] : k \in 1..n - 1}
      BY <1>2 DEF Pending, Elements
    <3> QED
      BY <2>2, <3>1
  <2> QED
    BY <2>3, <2>4, <2>5
<1>6. \A j, k \in 1..n : j <= k => PhaseOf(todo[j]) <= PhaseOf(todo[k])
  BY DEF TodoInv, n
<1>7. \A j, k \in 1..n - 1 : j <= k => PhaseOf(todo'[j]) <= PhaseOf(todo'[k])
  <2> SUFFICES ASSUME NEW j \in 1..n - 1, NEW k \in 1..n - 1, j <= k
               PROVE  PhaseOf(todo'[j]) <= PhaseOf(todo'[k])
    OBVIOUS
  <2>1. j + 1 <= k + 1 /\ j + 1 \in 1..n /\ k + 1 \in 1..n
    BY <1>3
  <2> QED
    BY <1>2, <1>6, <2>1
<1>8. \A d : Since(d)' <=> Since(d)
  BY DEF Since
<1>9. \A d \in Pending : Since(PhaseOf(d))
  BY DEF TodoInv
<1>10. TodoInv'
  BY <1>2, <1>5, <1>7, <1>8, <1>9 DEF TodoInv
<1>11. \A d \in Pending : PhaseOf(Head(todo)) <= PhaseOf(d)
  BY <1>1, <1>6 DEF Pending, Elements, n
<1>12. Head(todo) \in Calls /\ Head(todo) \in Pending /\ Pending \subseteq Calls
  BY <1>1 DEF Pending, Elements, n
<1> QED
  BY <1>5, <1>9, <1>10, <1>11, <1>12

\* So nothing comes back that was declared.
LEMMA DoneStep ==
    ASSUME TodoInv, todo # <<>>, todo' = Tail(todo), UNCHANGED called, NEW c, c = Head(todo)
    PROVE  /\ \A n : Done(n) => Done(n)' /\ n <= PhaseOf(c)
           /\ Done(PhaseOf(c))'
<1>1. \A d : Since(d)' <=> Since(d)
  BY DEF Since
<1>2. /\ c \in Pending /\ Pending' \subseteq Pending /\ Since(PhaseOf(c))
      /\ \A d \in Pending : PhaseOf(c) <= PhaseOf(d)
  BY TodoStep
<1>3. ASSUME NEW n, Done(n) PROVE Done(n)' /\ n <= PhaseOf(c)
  BY <1>1, <1>2, <1>3 DEF Done
<1>4. Done(PhaseOf(c))'
  BY <1>1, <1>2 DEF Done
<1> QED
  BY <1>3, <1>4

-----------------------------------------------------------------------------
(* What a call adds                                                        *)

\* What is numbered last has the highest rank, so the numbers follow the ranks.
LEMMA RankGrows ==
    ASSUME NEW S, IsFiniteSet(S), NEW f \in [S -> Nat], NEW x \in S, f[x] = 0,
           NEW rank \in [S -> Int],
           Ranked(S, f, rank),
           \A c \in S : f[c] # 0 => rank[c] <= rank[x],
           NEW g, g = [f EXCEPT ![x] = Latest(f) + 1]
    PROVE  Ranked(S, g, rank)
<1>1. Latest(f) \in Nat /\ Latest(f) + 1 \in Nat \ {0}
  BY LatestIsNat
<1>2. Latest(g) = Latest(f) + 1
  <2> DEFINE T == {y \in S : f[y] # 0}
  <2>1. IsFiniteSet(T)
    BY FS_Subset
  <2>2. x \notin T /\ {y \in S : g[y] # 0} = T \cup {x}
    BY <1>1
  <2>3. Cardinality(T \cup {x}) = Cardinality(T) + 1
    BY <2>1, <2>2, FS_AddElement
  <2>4. Latest(f) = Cardinality(T) /\ Latest(g) = Cardinality(T \cup {x})
    BY <2>2 DEF Latest
  <2> QED
    BY <2>3, <2>4
<1>3. \A c \in S : g[c] = IF c = x THEN Latest(f) + 1 ELSE f[c]
  OBVIOUS
<1>4. \A c \in S : f[c] \in Nat /\ rank[c] \in Int
  OBVIOUS
<1>5. ASSUME NEW c \in S, NEW d \in S, g[c] # 0, g[d] # 0, rank[c] < rank[d] PROVE g[c] < g[d]
  BY <1>1, <1>3, <1>4, <1>5 DEF Ranked
<1>6. ASSUME NEW c \in S PROVE g[c] <= Latest(g)
  BY <1>1, <1>2, <1>3, <1>4 DEF Ranked
<1> QED
  BY <1>5, <1>6 DEF Ranked

\* A call leaves the connections that are made or to be made.
LEMMA LinkStep ==
    ASSUME LinkInv, NEW c, Pending = Pending' \cup {c}, UNCHANGED systemVars,
           \/ c.call # "connect" /\ imageRefs' = imageRefs
           \/ c.call = "connect" /\ c.dst \notin DOMAIN imageRefs /\ imageRefs' = With(imageRefs, c.dst, c.src)
    PROVE  LinkInv'
<1> DEFINE made == {<<imageRefs[d], d>> : d \in DOMAIN imageRefs}
<1>1. UNCHANGED <<called, mLastColorAttachment, mLastIDFlagsAttachment>>
  BY DEF systemVars
<1>2. Links = made \cup ConnectsIn(Pending) /\ Links' = made' \cup ConnectsIn(Pending')
  BY DEF Links
<1>3. Links' \subseteq Links
  <2>1. CASE c.call # "connect" /\ imageRefs' = imageRefs
    <3>1. made' = made
      BY <2>1
    <3>2. ConnectsIn(Pending') \subseteq ConnectsIn(Pending)
      BY DEF ConnectsIn
    <3> QED
      BY <1>2, <3>1, <3>2
  <2>2. CASE c.call = "connect" /\ c.dst \notin DOMAIN imageRefs /\ imageRefs' = With(imageRefs, c.dst, c.src)
    <3>1. /\ DOMAIN imageRefs' = DOMAIN imageRefs \cup {c.dst}
          /\ imageRefs'[c.dst] = c.src
          /\ \A d \in DOMAIN imageRefs : imageRefs'[d] = imageRefs[d]
      BY <2>2 DEF With
    <3>2. made' \subseteq made \cup {<<c.src, c.dst>>}
      BY <3>1
    <3>3. ConnectsIn(Pending') \subseteq ConnectsIn(Pending) /\ <<c.src, c.dst>> \in ConnectsIn(Pending)
      BY <2>2 DEF ConnectsIn
    <3> QED
      BY <1>2, <3>2, <3>3
  <2> QED
    BY <2>1, <2>2
<1>4. \A n : Since(n)' <=> Since(n)
  BY <1>1 DEF Since
<1> HIDE DEF made
<1> QED
  BY <1>1, <1>3, <1>4 DEF LinkInv

\* The screen's image is used once it is there.
LEMMA ScreenStep ==
    ASSUME ScreenInv, NEW c, Pending = Pending' \cup {c},
           \A i \in DOMAIN images' : i \in DOMAIN images \/ \E t \in {"OUTPUT", "INPUT", "IO"} : c = Image(i, t),
           "screen_io" \in DOMAIN used["screen"] \/ c = ScreenUse => "screen_io" \in DOMAIN used'["screen"]
    PROVE  ScreenInv'
BY DEF ScreenInv, ScreenUse

\* What the calls share: the rest of the frame and of the invariant is as before.
Declared ==
    /\ todo # <<>> /\ todo' = Tail(todo)
    /\ UNCHANGED <<systemVars, lateVars>>
    /\ graphState = "CREATED" /\ graphState' = "CREATED"

\* A declaration that keeps the parts about what is declared keeps the frame in order.
LEMMA DeclaredStep ==
    ASSUME FrameInv, Declared,
           forward', DoneInv', RankInv', UseInv', LinkInv', ScreenInv', EdgesInv'
    PROVE  FrameInv'
<1>1. TodoInv /\ RecordInv
  BY DEF FrameInv, Declared
<1>2. TodoInv'
  BY <1>1, TodoStep DEF Declared, systemVars
<1>3. RecordInv'
  BY <1>1 DEF RecordInv, Declared, lateVars
<1>4. IdleInv'
  BY DEF IdleInv, Declared
<1> QED
  BY <1>2, <1>3, <1>4 DEF FrameInv

\* Nothing else is declared: what holds of the uses and connections stays.
LEMMA NoUse ==
    ASSUME FrameInv, Declared, UNCHANGED <<usage, passVars, linkVars>>, NEW c, c = Head(todo), c.call # "connect",
           c.call # "use",
           \A i \in DOMAIN images' : i \in DOMAIN images \/ \E t \in {"OUTPUT", "INPUT", "IO"} : c = Image(i, t)
    PROVE  forward' /\ LinkInv' /\ ScreenInv' /\ EdgesInv'
<1>1. TodoInv /\ LinkInv /\ ScreenInv /\ EdgesInv /\ forward
  BY DEF FrameInv, Declared
<1>2. Pending = Pending' \cup {c}
  BY <1>1, TodoStep DEF Declared, systemVars
<1>3. UNCHANGED <<used, imageUsages, edges, imageRefs, forward, systemVars>>
  BY DEF Declared, passVars, linkVars
<1>4. LinkInv'
  BY <1>1, <1>2, <1>3, LinkStep
<1>5. c # ScreenUse
  BY DEF ScreenUse, UseImage
<1>6. ScreenInv'
  BY <1>1, <1>2, <1>3, <1>5, ScreenStep
<1>7. EdgesInv'
  BY <1>1, <1>3 DEF EdgesInv, has_image_dependency
<1> QED
  BY <1>1, <1>3, <1>4, <1>6, <1>7

\* A component is numbered after all components of earlier phases.
LEMMA FrameComponent ==
    ASSUME FrameInv, GraphInv, Declared, NEW c, c = Head(todo), c.call = "component", AddComponent(c.c)
    PROVE  FrameInv'
<1>1. TodoInv /\ DoneInv /\ RankInv /\ UseInv
  BY DEF FrameInv, Declared
<1>2. c \in Calls /\ c.c \in Components /\ PhaseOf(c) = CompPhase[c.c]
  BY <1>1, TodoStep, CallFacts DEF Declared, systemVars
<1>3. /\ \A n : Done(n) => Done(n)' /\ n <= CompPhase[c.c]
      /\ Done(CompPhase[c.c])'
  <2>1. UNCHANGED called
    BY DEF Declared, systemVars
  <2> QED
    BY <1>1, <1>2, <2>1, DoneStep DEF Declared
<1>4. /\ added[c.c] = 0 /\ added' = [added EXCEPT ![c.c] = Latest(added) + 1]
      /\ UNCHANGED <<declared, images, usage, passVars, linkVars>>
  BY DEF AddComponent
<1>5. added \in [Components -> Nat] /\ IsFiniteSet(Components)
  BY RenderGraphConstants DEF GraphInv, TypeInv
<1>6. UNCHANGED <<declared, images, used, imageUsages, imageRefs>>
  BY <1>4 DEF passVars, linkVars
<1>7. \A x \in Components : x # c.c => added'[x] = added[x]
  BY <1>4, <1>5
<1>8. DoneInv'
  <2>1. \A x \in Components : added'[x] # 0 => Done(CompPhase[x])'
    BY <1>1, <1>3, <1>7 DEF DoneInv
  <2> QED
    BY <1>1, <1>3, <1>6, <2>1 DEF DoneInv
<1>9. RankInv'
  <2>1. CompPhase \in [Components -> Int]
    BY Tables DEF CompPhase
  <2>2. \A x \in Components : added[x] # 0 => CompPhase[x] <= CompPhase[c.c]
    BY <1>1, <1>3 DEF DoneInv
  <2>3. Ranked(Components, added, CompPhase)
    BY <1>1 DEF RankInv
  <2>4. Ranked(Components, added', CompPhase)
    BY <1>2, <1>4, <1>5, <2>1, <2>2, <2>3, RankGrows
  <2> QED
    BY <1>1, <1>6, <2>4 DEF RankInv, Ranked, Latest
<1>10. UseInv'
  <2>1. \A x \in Components : added[x] # 0 => added'[x] # 0
    BY <1>4, <1>7
  <2>2. \A i \in DOMAIN images : Home[i] \in Components
    BY <1>1, Tables DEF UseInv
  <2> QED
    BY <1>1, <1>6, <2>1, <2>2 DEF UseInv, Exists
<1>11. forward' /\ LinkInv' /\ ScreenInv' /\ EdgesInv'
  BY <1>4, NoUse
<1> QED
  BY <1>8, <1>9, <1>10, <1>11, DeclaredStep

\* A pass is numbered after all passes of earlier phases.
LEMMA FramePass ==
    ASSUME FrameInv, GraphInv, Declared, NEW c, c = Head(todo), c.call = "pass", AddPass(c.p)
    PROVE  FrameInv'
<1>1. TodoInv /\ DoneInv /\ RankInv /\ UseInv
  BY DEF FrameInv, Declared
<1>2. c \in Calls /\ c.p \in Passes /\ PhaseOf(c) = PassPhase[c.p]
  BY <1>1, TodoStep, CallFacts DEF Declared, systemVars
<1>3. /\ \A n : Done(n) => Done(n)' /\ n <= PassPhase[c.p]
      /\ Done(PassPhase[c.p])'
  <2>1. UNCHANGED called
    BY DEF Declared, systemVars
  <2> QED
    BY <1>1, <1>2, <2>1, DoneStep DEF Declared
<1>4. /\ declared[c.p] = 0 /\ declared' = [declared EXCEPT ![c.p] = Latest(declared) + 1]
      /\ UNCHANGED <<added, images, usage, passVars, linkVars>>
  BY DEF AddPass, Exists
<1>5. declared \in [Passes -> Nat] /\ IsFiniteSet(Passes)
  BY RenderGraphConstants DEF GraphInv, TypeInv
<1>6. UNCHANGED <<added, images, used, imageUsages, imageRefs>>
  BY <1>4 DEF passVars, linkVars
<1>7. \A x \in Passes : x # c.p => declared'[x] = declared[x]
  BY <1>4, <1>5
<1>8. DoneInv'
  <2>1. \A x \in Passes : declared'[x] # 0 => Done(PassPhase[x])'
    BY <1>1, <1>3, <1>7 DEF DoneInv
  <2> QED
    BY <1>1, <1>3, <1>6, <2>1 DEF DoneInv
<1>9. RankInv'
  <2>1. PassPhase \in [Passes -> Int]
    BY Tables DEF PassPhase
  <2>2. \A x \in Passes : declared[x] # 0 => PassPhase[x] <= PassPhase[c.p]
    BY <1>1, <1>3 DEF DoneInv
  <2>3. Ranked(Passes, declared, PassPhase)
    BY <1>1 DEF RankInv
  <2>4. Ranked(Passes, declared', PassPhase)
    BY <1>2, <1>4, <1>5, <2>1, <2>2, <2>3, RankGrows
  <2> QED
    BY <1>1, <1>6, <2>4 DEF RankInv, Ranked, Latest
<1>10. UseInv'
  <2>1. \A x \in Passes : declared[x] # 0 => declared'[x] # 0
    BY <1>4, <1>7
  <2> QED
    BY <1>1, <1>6, <2>1 DEF UseInv, Exists
<1>11. forward' /\ LinkInv' /\ ScreenInv' /\ EdgesInv'
  BY <1>4, NoUse
<1> QED
  BY <1>8, <1>9, <1>10, <1>11, DeclaredStep

\* An image is added to its component, and the image of the screen while its use is still to come.
LEMMA FrameImage ==
    ASSUME FrameInv, GraphInv, Declared, NEW c, c = Head(todo), c.call = "image", AddImage(c.i, c.type, extent)
    PROVE  FrameInv'
<1>1. TodoInv /\ DoneInv /\ RankInv /\ UseInv
  BY DEF FrameInv, Declared
<1>2. c \in Calls /\ c.i \in Images /\ c = Image(c.i, c.type) /\ c.type \in {"OUTPUT", "INPUT", "IO"}
  BY <1>1, TodoStep, CallFacts DEF Declared, systemVars
<1>3. \A n : Done(n) => Done(n)'
  BY <1>1, DoneStep DEF Declared, systemVars
<1>4. /\ added[Home[c.i]] # 0 /\ DOMAIN images' = DOMAIN images \cup {c.i}
      /\ UNCHANGED <<added, declared, usage, passVars, linkVars>>
  BY DEF AddImage, With
<1>5. UNCHANGED <<added, declared, used, imageUsages, imageRefs>>
  BY <1>4 DEF passVars, linkVars
<1>6. DoneInv' /\ RankInv'
  BY <1>1, <1>3, <1>5 DEF DoneInv, RankInv, Ranked, Exists, Latest
<1>7. UseInv'
  BY <1>1, <1>2, <1>4, <1>5 DEF UseInv, Exists
<1>8. forward' /\ LinkInv' /\ ScreenInv' /\ EdgesInv'
  BY <1>2, <1>4, NoUse
<1> QED
  BY <1>6, <1>7, <1>8, DeclaredStep

\* A blit changes only what a window shows.
LEMMA FrameBlit ==
    ASSUME FrameInv, GraphInv, Declared, NEW c, c = Head(todo), c.call = "blit", connect_swapchain_image(c.src, c.w)
    PROVE  FrameInv'
<1>1. TodoInv /\ DoneInv /\ RankInv /\ UseInv /\ LinkInv /\ ScreenInv /\ EdgesInv /\ forward
  BY DEF FrameInv, Declared
<1>2. \A n : Done(n) => Done(n)'
  BY <1>1, DoneStep DEF Declared, systemVars
<1>3. UNCHANGED <<added, declared, images, used, imageUsages, edges, imageRefs, forward, systemVars>>
  BY DEF connect_swapchain_image, passVars, Declared
<1>4. DoneInv' /\ RankInv' /\ UseInv'
  BY <1>1, <1>2, <1>3 DEF DoneInv, RankInv, Ranked, UseInv, Exists, Latest
<1>5. Pending = Pending' \cup {c}
  BY <1>1, TodoStep DEF Declared, systemVars
<1>6. LinkInv'
  BY <1>1, <1>3, <1>5, LinkStep
<1>7. c # ScreenUse
  BY DEF ScreenUse, UseImage
<1>8. ScreenInv'
  BY <1>1, <1>3, <1>5, <1>7, ScreenStep
<1>9. EdgesInv'
  BY <1>1, <1>3 DEF EdgesInv, has_image_dependency
<1> QED
  BY <1>1, <1>3, <1>4, <1>6, <1>8, <1>9, DeclaredStep

-----------------------------------------------------------------------------
\* What is connected is not used any more in this frame.
LEMMA LinksUsed ==
    ASSUME FrameInv, GraphInv, Declared, NEW c, c = Head(todo), c.call = "use",
           NEW d \in DOMAIN imageRefs
    PROVE  <<imageRefs[d], d>> \in LinkTable /\ c.i # d /\ c.i # imageRefs[d]
<1>1. TodoInv /\ DoneInv /\ LinkInv
  BY DEF FrameInv, Declared
<1>2. <<c.p, c.i, c.u>> \in UseTable /\ PhaseOf(c) = PassPhase[c.p]
  BY <1>1, TodoStep, CallFacts DEF Declared, systemVars
<1>3. Done(LinkPhase[d])
  BY <1>1 DEF DoneInv
<1>4. LinkPhase[d] <= PassPhase[c.p]
  BY <1>1, <1>2, <1>3, DoneStep DEF Declared, systemVars
<1>5. <<imageRefs[d], d>> \in LinkTable
  BY <1>1 DEF LinkInv, Links
<1>6. d \in DOMAIN LinkPhase /\ LinkPhase[d] \in Int
  BY <1>5, LinkTableFacts, Tables
<1>7. c.p \in Passes /\ PassPhase[c.p] \in Int
  BY <1>2, UseTableFacts, Tables
<1>8. ASSUME c.i \in {imageRefs[d], d} PROVE PassPhase[c.p] < LinkPhase[d]
  <2> DEFINE x == <<imageRefs[d], d>>
             y == <<c.p, c.i, c.u>>
  <2>1. y[2] \in {x[1], x[2]} /\ x \in LinkTable /\ y \in UseTable
    BY <1>2, <1>5, <1>8
  <2>2. PassPhase[y[1]] < LinkPhase[x[2]]
    BY <2>1, LinkTableFacts
  <2> QED
    BY <2>2
<1> QED
  BY <1>4, <1>5, <1>6, <1>7, <1>8

\* A pass uses what the table allows, before anything is connected to it; an image that
\* the outline and the gizmo share gives them an edge.
LEMMA FrameUse ==
    ASSUME FrameInv, GraphInv, Declared, NEW c, c = Head(todo), c.call = "use", Use(c.p, c.i, c.u)
    PROVE  FrameInv'
<1> DEFINE p == c.p
           i == c.i
           u == c.u
<1>1. TodoInv /\ DoneInv /\ RankInv /\ UseInv /\ LinkInv /\ ScreenInv /\ EdgesInv /\ forward
  BY DEF FrameInv, Declared
<1>2. /\ c \in Calls /\ c = UseImage(p, i, u) /\ <<p, i, u>> \in UseTable /\ PhaseOf(c) = PassPhase[p]
      /\ Pending = Pending' \cup {c}
  BY <1>1, TodoStep, CallFacts DEF Declared, systemVars
<1>3. \A n : Done(n) => Done(n)' /\ n <= PassPhase[p]
  BY <1>1, <1>2, DoneStep DEF Declared, systemVars
<1>4. /\ Exists(p) /\ i \notin DOMAIN imageUsages[p]
      /\ used' = [used EXCEPT ![p] = With(@, i, u)]
      /\ imageUsages' = [imageUsages EXCEPT ![p] = With(@, i, u)]
      /\ edges' = edges \cup EdgesInto(p, i, u)
      /\ UNCHANGED <<added, declared, images, imageRefs, forward>>
  BY DEF Use, Declared, linkVars
<1>5. p \in Passes /\ i \in Images
  <2>1. <<p, i, u>>[1] = p /\ <<p, i, u>>[2] = i
    OBVIOUS
  <2> QED
    BY <1>2, <2>1, UseTableFacts
<1>6. DOMAIN used = Passes /\ DOMAIN imageUsages = Passes
  BY <1>1 DEF UseInv
<1>7. /\ \A q \in Passes : q # p => used'[q] = used[q] /\ imageUsages'[q] = imageUsages[q]
      /\ used'[p] = With(used[p], i, u) /\ imageUsages'[p] = With(imageUsages[p], i, u)
      /\ DOMAIN used' = Passes /\ DOMAIN imageUsages' = Passes
  BY <1>4, <1>5, <1>6
<1>8. /\ DOMAIN used'[p] = DOMAIN used[p] \cup {i} /\ used'[p][i] = u
      /\ DOMAIN imageUsages'[p] = DOMAIN imageUsages[p] \cup {i} /\ imageUsages'[p][i] = u
      /\ \A k \in DOMAIN used[p] : k # i => used'[p][k] = used[p][k]
      /\ \A k \in DOMAIN imageUsages[p] : k # i => imageUsages'[p][k] = imageUsages[p][k]
  BY <1>7 DEF With
<1>9. /\ \A q \in Passes : DOMAIN used[q] \subseteq DOMAIN used'[q]
      /\ \A q \in Passes : \A k \in DOMAIN used'[q] :
            \/ q = p /\ k = i /\ used'[q][k] = u
            \/ k \in DOMAIN used[q] /\ used'[q][k] = used[q][k]
  BY <1>7, <1>8
<1>10. DoneInv' /\ RankInv'
  BY <1>1, <1>3, <1>4 DEF DoneInv, RankInv, Ranked, Latest
<1>11. UseInv'
  <2>1. ASSUME NEW q \in Passes, NEW k \in DOMAIN used'[q]
        PROVE  /\ <<q, k, used'[q][k]>> \in UseTable /\ Exists(q)
               /\ k \in DOMAIN imageUsages'[q] /\ imageUsages'[q][k] = used'[q][k]
    <3>1. CASE q = p /\ k = i
      BY <1>2, <1>4, <1>8, <3>1
    <3>2. CASE ~(q = p /\ k = i)
      <4>1. k \in DOMAIN used[q] /\ used'[q][k] = used[q][k]
        BY <1>9, <3>2
      <4>2. /\ <<q, k, used[q][k]>> \in UseTable /\ Exists(q)
            /\ k \in DOMAIN imageUsages[q] /\ imageUsages[q][k] = used[q][k]
        BY <1>1, <4>1 DEF UseInv
      <4>3. k \in DOMAIN imageUsages'[q] /\ imageUsages'[q][k] = imageUsages[q][k]
        BY <1>7, <1>8, <3>2, <4>2
      <4> QED
        BY <4>1, <4>2, <4>3
    <3> QED
      BY <3>1, <3>2
  <2>2. \A k \in DOMAIN images : k \in Images /\ added[Home[k]] # 0
    BY <1>1 DEF UseInv
  <2> QED
    BY <1>4, <1>7, <2>1, <2>2 DEF UseInv, Exists
<1>12. LinkInv'
  <2>1. UNCHANGED systemVars
    BY DEF Declared
  <2> QED
    BY <1>1, <1>2, <1>4, <2>1, LinkStep
<1>13. ScreenInv'
  <2>1. c = ScreenUse => p = "screen" /\ i = "screen_io"
    BY DEF ScreenUse, UseImage
  <2>2. "screen" \in Passes
    BY Tables DEF PassPhase
  <2>3. "screen_io" \in DOMAIN used["screen"] \/ c = ScreenUse => "screen_io" \in DOMAIN used'["screen"]
    BY <1>8, <1>9, <2>1, <2>2
  <2> QED
    BY <1>1, <1>2, <1>4, <2>3, ScreenStep
<1>14. EdgesInv'
  <2>1. ASSUME NEW d \in DOMAIN imageRefs, NEW q \in Passes, NEW r \in Passes,
               imageRefs[d] \in DOMAIN used'[q], d \in DOMAIN used'[r],
               has_image_dependency(used'[q][imageRefs[d]], used'[r][d])
        PROVE  <<q, r>> \in edges'
    <3>1. i # d /\ i # imageRefs[d]
      BY LinksUsed
    <3>2. /\ imageRefs[d] \in DOMAIN used[q] /\ used'[q][imageRefs[d]] = used[q][imageRefs[d]]
          /\ d \in DOMAIN used[r] /\ used'[r][d] = used[r][d]
      BY <1>9, <2>1, <3>1
    <3> QED
      BY <1>1, <1>4, <2>1, <3>2 DEF EdgesInv
  <2>2. ASSUME "in_color" \in DOMAIN used'["outline"], "in_color" \in DOMAIN used'["gizmo"]
        PROVE  <<"outline", "gizmo">> \in edges'
    <3>1. "outline" \in Passes /\ "gizmo" \in Passes /\ PassPhase["outline"] = 2 /\ PassPhase["gizmo"] = 3
      BY Tables DEF PassPhase
    <3>2. CASE i = "in_color" /\ p = "gizmo"
      <4>1. u = "SAMPLED"
        BY <1>2, <3>2 DEF UseTable
      <4>2. "in_color" \in DOMAIN used["outline"]
        BY <1>7, <2>2, <3>1, <3>2
      <4>3. /\ <<"outline", "in_color", used["outline"]["in_color"]>> \in UseTable /\ Exists("outline")
            /\ "in_color" \in DOMAIN imageUsages["outline"]
            /\ imageUsages["outline"]["in_color"] = used["outline"]["in_color"]
        BY <1>1, <3>1, <4>2 DEF UseInv
      <4>4. imageUsages["outline"]["in_color"] = "COLOR"
        BY <4>3 DEF UseTable
      <4>5. declared["outline"] < declared["gizmo"]
        BY <1>1, <1>4, <3>1, <3>2, <4>3 DEF RankInv, Ranked, Exists
      <4>6. Owner["outline"] = Owner["gizmo"]
        BY <3>1, Tables DEF PassOwner
      <4>7. has_image_dependency("COLOR", "SAMPLED")
        BY DEF has_image_dependency
      <4>8. <<"outline", "gizmo">> \in EdgesInto(p, i, u)
        BY <3>1, <3>2, <4>1, <4>3, <4>4, <4>5, <4>6, <4>7 DEF EdgesInto, PassesOf
      <4> QED
        BY <1>4, <4>8
    <3>3. CASE i = "in_color" /\ p = "outline"
      <4>1. "in_color" \in DOMAIN used["gizmo"]
        BY <1>7, <2>2, <3>1, <3>3
      <4>2. declared["gizmo"] # 0
        BY <1>1, <3>1, <4>1 DEF UseInv, Exists
      <4>3. Done(PassPhase["gizmo"])
        BY <1>1, <3>1, <4>2 DEF DoneInv
      <4> QED
        BY <1>3, <3>1, <3>3, <4>3
    <3>4. CASE ~(i = "in_color" /\ p \in {"outline", "gizmo"})
      <4>1. "in_color" \in DOMAIN used["outline"] /\ "in_color" \in DOMAIN used["gizmo"]
        BY <1>9, <2>2, <3>1, <3>4
      <4> QED
        BY <1>1, <1>4, <4>1 DEF EdgesInv
    <3> QED
      BY <3>2, <3>3, <3>4
  <2>3. ASSUME NEW d \in DOMAIN imageRefs, imageRefs[d] = "screen_io"
        PROVE  "screen_io" \in DOMAIN used'["screen"]
    <3>1. "screen" \in Passes
      BY Tables DEF PassPhase
    <3> QED
      BY <1>1, <1>9, <2>3, <3>1 DEF EdgesInv
  <2> QED
    BY <1>4, <2>1, <2>2, <2>3 DEF EdgesInv, has_image_dependency
<1> QED
  BY <1>1, <1>4, <1>10, <1>11, <1>12, <1>13, <1>14, DeclaredStep

\* A connection gives an edge to every two passes that touch its ends, for both have
\* declared their uses.
LEMMA FrameConnect ==
    ASSUME FrameInv, GraphInv, Declared, NEW c, c = Head(todo), c.call = "connect", connect_image(c.src, c.dst)
    PROVE  FrameInv'
<1> DEFINE src == c.src
           dst == c.dst
           A == PassesOf(Home[src])
           B == PassesOf(Home[dst])
<1>1. TodoInv /\ DoneInv /\ RankInv /\ UseInv /\ LinkInv /\ ScreenInv /\ EdgesInv /\ forward
  BY DEF FrameInv, Declared
<1>2. /\ c \in Calls /\ <<src, dst>> \in LinkTable /\ PhaseOf(c) = LinkPhase[dst]
      /\ Pending = Pending' \cup {c} /\ Pending \subseteq Calls
      /\ \A d \in Pending : PhaseOf(c) <= PhaseOf(d)
  BY <1>1, TodoStep, CallFacts DEF Declared, systemVars
<1>3. (\A n : Done(n) => Done(n)') /\ Done(LinkPhase[dst])'
  BY <1>1, <1>2, DoneStep DEF Declared, systemVars
<1>4. /\ src \in DOMAIN images /\ dst \in DOMAIN images /\ dst \notin DOMAIN imageRefs
      /\ imageUsages' = [p \in Passes |->
            IF p \in A /\ B # {} THEN With(imageUsages[p], src, UsageOrInsert(p, src))
            ELSE IF p \in B /\ A # {} THEN With(imageUsages[p], dst, UsageOrInsert(p, dst))
            ELSE imageUsages[p]]
      /\ edges' = edges \cup {e \in A \X B :
            has_image_dependency(UsageOrInsert(e[1], src), UsageOrInsert(e[2], dst))}
      /\ DOMAIN images' = DOMAIN images
      /\ imageRefs' = With(imageRefs, dst, src)
      /\ forward' = (forward /\ added[Home[src]] < added[Home[dst]])
      /\ UNCHANGED <<added, declared, used>>
  BY DEF connect_image
<1> HIDE DEF A, B
<1>5. /\ src \in Images /\ dst \in Images /\ dst \in DOMAIN LinkPhase
      /\ CompPhase[Home[src]] < CompPhase[Home[dst]]
  <2>1. <<src, dst>>[1] = src /\ <<src, dst>>[2] = dst
    OBVIOUS
  <2> QED
    BY <1>2, <2>1, LinkTableFacts
<1>6. forward'
  <2>1. Home[src] \in Components /\ Home[dst] \in Components
    BY <1>5, Tables
  <2>2. added[Home[src]] # 0 /\ added[Home[dst]] # 0
    BY <1>1, <1>4 DEF UseInv
  <2>3. added[Home[src]] < added[Home[dst]]
    BY <1>1, <1>5, <2>1, <2>2 DEF RankInv, Ranked
  <2> QED
    BY <1>1, <1>4, <2>3
<1>7. /\ DOMAIN imageRefs' = DOMAIN imageRefs \cup {dst} /\ imageRefs'[dst] = src
      /\ \A d \in DOMAIN imageRefs : imageRefs'[d] = imageRefs[d]
  BY <1>4 DEF With
<1>8. DoneInv' /\ RankInv'
  BY <1>1, <1>3, <1>4, <1>7 DEF DoneInv, RankInv, Ranked, Latest
<1>9. UseInv'
  <2>1. ASSUME NEW q \in Passes, NEW k \in DOMAIN used[q]
        PROVE  k \in DOMAIN imageUsages'[q] /\ imageUsages'[q][k] = used[q][k]
    <3>1. k \in DOMAIN imageUsages[q] /\ imageUsages[q][k] = used[q][k]
      BY <1>1 DEF UseInv
    <3> QED
      BY <1>4, <3>1 DEF With, UsageOrInsert
  <2>2. /\ \A k \in DOMAIN images : k \in Images /\ added[Home[k]] # 0
        /\ \A q \in Passes : \A k \in DOMAIN used[q] : <<q, k, used[q][k]>> \in UseTable /\ Exists(q)
        /\ DOMAIN used = Passes
    BY <1>1 DEF UseInv
  <2>3. DOMAIN imageUsages' = Passes
    BY <1>4
  <2> QED
    BY <1>4, <2>1, <2>2, <2>3 DEF UseInv, Exists
<1>10. LinkInv'
  <2>1. UNCHANGED systemVars
    BY DEF Declared
  <2> QED
    BY <1>1, <1>2, <1>4, <2>1, LinkStep
<1>11. c # ScreenUse
  BY DEF ScreenUse, UseImage
<1>12. ScreenInv'
  BY <1>1, <1>2, <1>4, <1>11, ScreenStep
<1>13. EdgesInv'
  <2>1. ASSUME NEW d \in DOMAIN imageRefs', NEW q \in Passes, NEW r \in Passes,
               imageRefs'[d] \in DOMAIN used[q], d \in DOMAIN used[r],
               has_image_dependency(used[q][imageRefs'[d]], used[r][d])
        PROVE  <<q, r>> \in edges'
    <3>1. CASE d # dst
      BY <1>1, <1>4, <1>7, <2>1, <3>1 DEF EdgesInv
    <3>2. CASE d = dst
      <4>1. src \in DOMAIN used[q] /\ dst \in DOMAIN used[r] /\ has_image_dependency(used[q][src], used[r][dst])
        BY <1>7, <2>1, <3>2
      <4>2. /\ <<q, src, used[q][src]>> \in UseTable /\ Exists(q) /\ UsageOrInsert(q, src) = used[q][src]
            /\ <<r, dst, used[r][dst]>> \in UseTable /\ Exists(r) /\ UsageOrInsert(r, dst) = used[r][dst]
        BY <1>1, <4>1 DEF UseInv, UsageOrInsert
      <4>3. ASSUME NEW x, NEW y, NEW z, <<x, y, z>> \in UseTable PROVE Home[y] = Owner[x]
        <5>1. <<x, y, z>>[1] = x /\ <<x, y, z>>[2] = y
          OBVIOUS
        <5> QED
          BY <4>3, <5>1, UseTableFacts
      <4>4. q \in A /\ r \in B
        BY <4>2, <4>3 DEF A, B, PassesOf
      <4> QED
        BY <1>4, <4>1, <4>2, <4>4
    <3> QED
      BY <3>1, <3>2
  <2>2. "in_color" \in DOMAIN used["outline"] \cap DOMAIN used["gizmo"] => <<"outline", "gizmo">> \in edges'
    BY <1>1, <1>4 DEF EdgesInv
  <2>3. ASSUME NEW d \in DOMAIN imageRefs', imageRefs'[d] = "screen_io"
        PROVE  "screen_io" \in DOMAIN used["screen"]
    <3>1. CASE d # dst
      BY <1>1, <1>7, <2>3, <3>1 DEF EdgesInv
    <3>2. CASE d = dst
      <4>1. src = "screen_io" /\ "screen_io" \in DOMAIN images
        BY <1>4, <1>7, <2>3, <3>2
      <4>2. LinkPhase[dst] = 8
        BY <1>2, <4>1 DEF LinkTable, LinkPhase
      <4>3. PhaseOf(ScreenUse) = 5
        BY DEF PhaseOf, ScreenUse, UseImage, PassPhase
      <4>4. ScreenUse \notin Pending
        BY <1>2, <4>2, <4>3
      <4> QED
        BY <1>1, <4>1, <4>4 DEF ScreenInv
    <3> QED
      BY <3>1, <3>2
  <2> QED
    BY <1>4, <2>1, <2>2, <2>3 DEF EdgesInv, has_image_dependency
<1> QED
  BY <1>6, <1>8, <1>9, <1>10, <1>12, <1>13, DeclaredStep

\* Every call of a frame keeps what the frame has declared in order.
LEMMA FrameStep ==
    ASSUME FrameInv, GraphInv, graphState # "trapped", Step, graphState' # "trapped"
    PROVE  FrameInv'
<1> DEFINE c == Head(todo)
<1>1. todo # <<>> /\ Perform(c) /\ todo' = Tail(todo) /\ UNCHANGED systemVars
  BY DEF Step
<1>2. TodoInv
  BY DEF FrameInv
<1>3. c \in Calls
  BY <1>1, <1>2, TodoStep DEF systemVars
<1> HIDE DEF c
<1>4. c = Head(todo)
  BY DEF c
<1>5. CASE c.call = "component" /\ AddComponent(c.c)
  <2>1. Declared
    BY <1>1, <1>5 DEF Declared, AddComponent
  <2> QED
    BY <1>4, <1>5, <2>1, FrameComponent
<1>6. CASE c.call = "image" /\ AddImage(c.i, c.type, extent)
  <2>1. Declared
    BY <1>1, <1>6 DEF Declared, AddImage
  <2> QED
    BY <1>4, <1>6, <2>1, FrameImage
<1>7. CASE c.call = "pass" /\ AddPass(c.p)
  <2>1. Declared
    BY <1>1, <1>7 DEF Declared, AddPass
  <2> QED
    BY <1>4, <1>7, <2>1, FramePass
<1>8. CASE c.call = "use" /\ Use(c.p, c.i, c.u)
  <2>1. Declared
    BY <1>1, <1>8 DEF Declared, Use
  <2> QED
    BY <1>4, <1>8, <2>1, FrameUse
<1>9. CASE c.call = "connect" /\ connect_image(c.src, c.dst)
  <2>1. Declared
    BY <1>1, <1>9 DEF Declared, connect_image
  <2> QED
    BY <1>4, <1>9, <2>1, FrameConnect
<1>10. CASE c.call = "blit" /\ connect_swapchain_image(c.src, c.w)
  <2>1. Declared
    BY <1>1, <1>10 DEF Declared, connect_swapchain_image
  <2> QED
    BY <1>4, <1>10, <2>1, FrameBlit
<1> QED
  BY <1>1, <1>5, <1>6, <1>7, <1>8, <1>9, <1>10 DEF Perform

-----------------------------------------------------------------------------
(* What the methods queue                                                  *)

\* s are calls from phase a to phase b, in order.
Script(s, a, b) ==
    /\ s \in Seq(Calls)
    /\ \A j, k \in 1..Len(s) : j <= k => PhaseOf(s[j]) <= PhaseOf(s[k])
    /\ \A k \in 1..Len(s) : a <= PhaseOf(s[k]) /\ PhaseOf(s[k]) <= b

\* One after the other.
Follows(a, b, c, d) == a \in Int /\ b \in Int /\ c \in Int /\ d \in Int /\ b <= c /\ a <= c /\ b <= d

\* A script and a later one are one script.
LEMMA ScriptsJoin ==
    ASSUME NEW s, NEW t, NEW a, NEW b, NEW c, NEW d, Follows(a, b, c, d), Script(s, a, b), Script(t, c, d)
    PROVE  Script(s \o t, a, d)
<1> DEFINE m == Len(s)
           n == Len(t)
           w == s \o t
<1>1. /\ s \in Seq(Calls) /\ t \in Seq(Calls) /\ m \in Nat /\ n \in Nat
      /\ a \in Int /\ b \in Int /\ c \in Int /\ d \in Int /\ b <= c /\ a <= c /\ b <= d
  BY DEF Script, Follows
<1>2. /\ w \in Seq(Calls) /\ Len(w) = m + n
      /\ \A k \in 1..m : w[k] = s[k]
      /\ \A k \in 1..n : w[k + m] = t[k]
  BY <1>1
<1>3. \A k \in 1..m + n : k \in 1..m \/ (k - m \in 1..n /\ k = (k - m) + m)
  BY <1>1
<1> HIDE DEF w
<1>4. /\ \A k \in 1..m : PhaseOf(s[k]) \in Int /\ a <= PhaseOf(s[k]) /\ PhaseOf(s[k]) <= b
      /\ \A k \in 1..n : PhaseOf(t[k]) \in Int /\ c <= PhaseOf(t[k]) /\ PhaseOf(t[k]) <= d
  <2>1. ASSUME NEW x \in Calls PROVE PhaseOf(x) \in Int
    <3>1. PhaseOf(x) \in 1..12
      BY CallFacts
    <3> QED
      BY <3>1
  <2>2. (\A k \in 1..m : s[k] \in Calls) /\ (\A k \in 1..n : t[k] \in Calls)
    BY <1>1
  <2>3. \A k \in 1..m : a <= PhaseOf(s[k]) /\ PhaseOf(s[k]) <= b
    BY DEF Script
  <2>4. \A k \in 1..n : c <= PhaseOf(t[k]) /\ PhaseOf(t[k]) <= d
    BY DEF Script
  <2> QED
    BY <2>1, <2>2, <2>3, <2>4
<1>5. \A k \in 1..m + n : \/ k \in 1..m /\ w[k] = s[k]
                          \/ k - m \in 1..n /\ w[k] = t[k - m]
  BY <1>2, <1>3
<1>6. ASSUME NEW k \in 1..m + n PROVE a <= PhaseOf(w[k]) /\ PhaseOf(w[k]) <= d
  <2>1. CASE k \in 1..m /\ w[k] = s[k]
    BY <1>1, <1>4, <2>1
  <2>2. CASE k - m \in 1..n /\ w[k] = t[k - m]
    BY <1>1, <1>4, <2>2
  <2> QED
    BY <1>5, <2>1, <2>2
<1>7. ASSUME NEW j \in 1..m + n, NEW k \in 1..m + n, j <= k PROVE PhaseOf(w[j]) <= PhaseOf(w[k])
  <2>1. CASE j \in 1..m /\ w[j] = s[j] /\ k \in 1..m /\ w[k] = s[k]
    BY <1>7, <2>1 DEF Script
  <2>2. CASE j \in 1..m /\ w[j] = s[j] /\ k - m \in 1..n /\ w[k] = t[k - m]
    BY <1>1, <1>4, <2>2
  <2>3. CASE j - m \in 1..n /\ w[j] = t[j - m] /\ k - m \in 1..n /\ w[k] = t[k - m]
    <3>1. j - m <= k - m
      BY <1>1, <1>7
    <3> QED
      BY <2>3, <3>1 DEF Script
  <2>4. CASE j - m \in 1..n /\ k \in 1..m
    BY <1>1, <1>7, <2>4
  <2> QED
    BY <1>5, <2>1, <2>2, <2>3, <2>4
<1>8. Script(w, a, d)
  BY <1>2, <1>6, <1>7 DEF Script
<1> QED
  BY <1>8 DEF w

\* Two scripts together make the calls of both.
LEMMA ElementsJoin ==
    ASSUME NEW s, NEW t, NEW a, NEW b, NEW c, NEW d, Script(s, a, b), Script(t, c, d)
    PROVE  Elements(s \o t) = Elements(s) \cup Elements(t)
<1> DEFINE m == Len(s)
           n == Len(t)
           w == s \o t
<1>1. s \in Seq(Calls) /\ t \in Seq(Calls) /\ m \in Nat /\ n \in Nat
  BY DEF Script
<1>2. /\ w \in Seq(Calls) /\ Len(w) = m + n
      /\ \A k \in 1..m : w[k] = s[k]
      /\ \A k \in 1..n : w[k + m] = t[k]
  BY <1>1
<1>3. /\ \A k \in 1..m : k \in 1..m + n
      /\ \A k \in 1..n : k + m \in 1..m + n
      /\ \A k \in 1..m + n : k \in 1..m \/ (k - m \in 1..n /\ k = (k - m) + m)
  BY <1>1
<1> HIDE DEF w
<1>4. Elements(w) \subseteq Elements(s) \cup Elements(t)
  BY <1>2, <1>3 DEF Elements
<1>5. Elements(s) \subseteq Elements(w)
  BY <1>2, <1>3 DEF Elements
<1>6. Elements(t) \subseteq Elements(w)
  BY <1>2, <1>3 DEF Elements
<1> QED
  BY <1>4, <1>5, <1>6 DEF w

\* The connections of more calls are those of each.
LEMMA ConnectsUnion == ASSUME NEW S, NEW T PROVE ConnectsIn(S \cup T) = ConnectsIn(S) \cup ConnectsIn(T)
BY DEF ConnectsIn

\* Calls of one phase.
LEMMA ScriptOfPhase ==
    ASSUME NEW n \in Int, NEW s \in Seq({c \in Calls : PhaseOf(c) = n})
    PROVE  Script(s, n, n)
<1>1. s \in Seq(Calls) /\ \A k \in 1..Len(s) : PhaseOf(s[k]) = n
  BY SMT
<1> QED
  BY <1>1 DEF Script

\* A method may call nothing.
LEMMA EmptyScript == ASSUME NEW a, NEW b PROVE Script(<<>>, a, b) /\ Elements(<<>>) = {}
BY DEF Script, Elements

\* Every call that the tables have belongs to the phase the tables give it.
LEMMA CallPhases ==
    /\ \A x \in DOMAIN CompPhase : Component(x) \in Calls /\ PhaseOf(Component(x)) = CompPhase[x]
    /\ \A i \in DOMAIN ImageHome, t \in {"OUTPUT", "INPUT", "IO"} :
          Image(i, t) \in Calls /\ PhaseOf(Image(i, t)) = CompPhase[ImageHome[i]]
    /\ \A p \in DOMAIN PassPhase : Pass(p) \in Calls /\ PhaseOf(Pass(p)) = PassPhase[p]
    /\ \A p, i, u : <<p, i, u>> \in UseTable =>
          UseImage(p, i, u) \in Calls /\ PhaseOf(UseImage(p, i, u)) = PassPhase[p]
    /\ \A i, d : <<i, d>> \in LinkTable =>
          Connect(i, d) \in Calls /\ PhaseOf(Connect(i, d)) = LinkPhase[d]
    /\ \A i \in DOMAIN ImageHome, w \in {"root", "dialog"} :
          Blit(i, w) \in Calls /\ PhaseOf(Blit(i, w)) = IF w = "dialog" THEN 11 ELSE 12
<1>1. \A x \in DOMAIN CompPhase : Component(x) \in Calls /\ PhaseOf(Component(x)) = CompPhase[x]
  BY DEF Calls, Component, PhaseOf
<1>2. \A i \in DOMAIN ImageHome, t \in {"OUTPUT", "INPUT", "IO"} :
          Image(i, t) \in Calls /\ PhaseOf(Image(i, t)) = CompPhase[ImageHome[i]]
  BY DEF Calls, Image, PhaseOf
<1>3. \A p \in DOMAIN PassPhase : Pass(p) \in Calls /\ PhaseOf(Pass(p)) = PassPhase[p]
  BY DEF Calls, Pass, PhaseOf
<1>4. ASSUME NEW p, NEW i, NEW u, <<p, i, u>> \in UseTable
      PROVE  UseImage(p, i, u) \in Calls /\ PhaseOf(UseImage(p, i, u)) = PassPhase[p]
  <2> DEFINE x == <<p, i, u>>
  <2>1. UseImage(p, i, u) = UseImage(x[1], x[2], x[3])
    OBVIOUS
  <2>2. UseImage(p, i, u) \in Calls
    BY <1>4, <2>1 DEF Calls
  <2>3. PhaseOf(UseImage(p, i, u)) = PassPhase[p]
    BY DEF UseImage, PhaseOf
  <2> QED
    BY <2>2, <2>3
<1>5. ASSUME NEW i, NEW d, <<i, d>> \in LinkTable
      PROVE  Connect(i, d) \in Calls /\ PhaseOf(Connect(i, d)) = LinkPhase[d]
  <2> DEFINE x == <<i, d>>
  <2>1. Connect(i, d) = Connect(x[1], x[2])
    OBVIOUS
  <2>2. Connect(i, d) \in Calls
    BY <1>5, <2>1 DEF Calls
  <2>3. PhaseOf(Connect(i, d)) = LinkPhase[d]
    BY DEF Connect, PhaseOf
  <2> QED
    BY <2>2, <2>3
<1>6. \A i \in DOMAIN ImageHome, w \in {"root", "dialog"} :
          Blit(i, w) \in Calls /\ PhaseOf(Blit(i, w)) = IF w = "dialog" THEN 11 ELSE 12
  BY DEF Calls, Blit, PhaseOf
<1> QED
  BY <1>1, <1>2, <1>3, <1>4, <1>5, <1>6

\* A call that connects nothing and does not declare the image of the screen.
PlainCall(c) == c.call \in {"component", "pass", "use", "blit"} \/ (c.call = "image" /\ c.i # "screen_io")
Plain(S) == \A c \in S : PlainCall(c)

\* The calls that neither connect anything nor add the image of the screen.
LEMMA PlainCalls ==
    /\ \A c : PlainCall(Component(c))
    /\ \A i, t : i # "screen_io" => PlainCall(Image(i, t))
    /\ \A p : PlainCall(Pass(p))
    /\ \A p, i, u : PlainCall(UseImage(p, i, u))
    /\ \A i, w : PlainCall(Blit(i, w))
<1>1. \A c : PlainCall(Component(c))
  BY DEF PlainCall, Component
<1>2. \A i, t : i # "screen_io" => PlainCall(Image(i, t))
  BY DEF PlainCall, Image
<1>3. \A p : PlainCall(Pass(p))
  BY DEF PlainCall, Pass
<1>4. \A p, i, u : PlainCall(UseImage(p, i, u))
  BY DEF PlainCall, UseImage
<1>5. \A i, w : PlainCall(Blit(i, w))
  BY DEF PlainCall, Blit
<1> QED
  BY <1>1, <1>2, <1>3, <1>4, <1>5

\* Plain calls connect nothing and leave the image of the screen alone.
LEMMA PlainFacts ==
    ASSUME NEW S, Plain(S)
    PROVE  ConnectsIn(S) = {} /\ \A t : Image("screen_io", t) \notin S
<1>1. \A c \in S : c.call # "connect"
  BY DEF Plain, PlainCall
<1>2. \A t : ~PlainCall(Image("screen_io", t))
  BY DEF PlainCall, Image
<1> QED
  BY <1>1, <1>2 DEF ConnectsIn, Plain

PhaseCalls(n) == {c \in Calls : PhaseOf(c) = n /\ PlainCall(c)}

\* Plain calls of one phase, in any order, are a plain script of this phase.
LEMMA PlainScript ==
    ASSUME NEW n \in Int, NEW s \in Seq(PhaseCalls(n))
    PROVE  Script(s, n, n) /\ Plain(Elements(s))
<1>1. /\ s \in Seq(Calls) /\ \A k \in 1..Len(s) : PhaseOf(s[k]) = n
      /\ \A k \in 1..Len(s) : PlainCall(s[k])
  BY SMT DEF PhaseCalls
<1>2. Script(s, n, n)
  BY <1>1 DEF Script
<1> QED
  BY <1>1, <1>2 DEF Plain, Elements

\* The plain calls of each phase.
LEMMA PhaseCall ==
    /\ \A x \in DOMAIN CompPhase : Component(x) \in PhaseCalls(CompPhase[x])
    /\ \A i \in DOMAIN ImageHome : i # "screen_io" =>
          \A t \in {"OUTPUT", "INPUT", "IO"} : Image(i, t) \in PhaseCalls(CompPhase[ImageHome[i]])
    /\ \A p \in DOMAIN PassPhase : Pass(p) \in PhaseCalls(PassPhase[p])
    /\ \A p, i, u : <<p, i, u>> \in UseTable => UseImage(p, i, u) \in PhaseCalls(PassPhase[p])
    /\ \A i \in DOMAIN ImageHome : Blit(i, "dialog") \in PhaseCalls(11) /\ Blit(i, "root") \in PhaseCalls(12)
<1>1. \A x \in DOMAIN CompPhase : Component(x) \in PhaseCalls(CompPhase[x])
  BY CallPhases, PlainCalls DEF PhaseCalls
<1>2. \A i \in DOMAIN ImageHome : i # "screen_io" =>
          \A t \in {"OUTPUT", "INPUT", "IO"} : Image(i, t) \in PhaseCalls(CompPhase[ImageHome[i]])
  BY CallPhases, PlainCalls DEF PhaseCalls
<1>3. \A p \in DOMAIN PassPhase : Pass(p) \in PhaseCalls(PassPhase[p])
  BY CallPhases, PlainCalls DEF PhaseCalls
<1>4. \A p, i, u : <<p, i, u>> \in UseTable => UseImage(p, i, u) \in PhaseCalls(PassPhase[p])
  BY CallPhases, PlainCalls DEF PhaseCalls
<1>5. \A i \in DOMAIN ImageHome : Blit(i, "dialog") \in PhaseCalls(11) /\ Blit(i, "root") \in PhaseCalls(12)
  BY CallPhases, PlainCalls DEF PhaseCalls
<1> QED
  BY <1>1, <1>2, <1>3, <1>4, <1>5

\* ForwardRenderComponent::add declares parts of its phase only.
LEMMA ForwardScript ==
    Script(ForwardRenderComponent_add, 1, 1) /\ Plain(Elements(ForwardRenderComponent_add))
<1>1. Component("Forward") \in PhaseCalls(1)
  BY PhaseCall DEF CompPhase
<1>2. Image("color", "OUTPUT") \in PhaseCalls(1)
  <2>1. "color" \in DOMAIN ImageHome /\ ImageHome["color"] = "Forward"
    BY DEF ImageHome
  <2>2. CompPhase["Forward"] = 1
    BY DEF CompPhase
  <2> QED
    BY <2>1, <2>2, PhaseCall
<1>3. Image("id", "OUTPUT") \in PhaseCalls(1)
  <2>1. "id" \in DOMAIN ImageHome /\ ImageHome["id"] = "Forward"
    BY DEF ImageHome
  <2>2. CompPhase["Forward"] = 1
    BY DEF CompPhase
  <2> QED
    BY <2>1, <2>2, PhaseCall
<1>4. Image("depth", "OUTPUT") \in PhaseCalls(1)
  <2>1. "depth" \in DOMAIN ImageHome /\ ImageHome["depth"] = "Forward"
    BY DEF ImageHome
  <2>2. CompPhase["Forward"] = 1
    BY DEF CompPhase
  <2> QED
    BY <2>1, <2>2, PhaseCall
<1>5. Pass("forward") \in PhaseCalls(1)
  BY PhaseCall DEF PassPhase
<1>6. UseImage("forward", "color", "COLOR") \in PhaseCalls(1)
  <2>1. <<"forward", "color", "COLOR">> \in UseTable
    BY DEF UseTable
  <2>2. PassPhase["forward"] = 1
    BY DEF PassPhase
  <2> QED
    BY <2>1, <2>2, PhaseCall
<1>7. UseImage("forward", "id", "COLOR") \in PhaseCalls(1)
  <2>1. <<"forward", "id", "COLOR">> \in UseTable
    BY DEF UseTable
  <2>2. PassPhase["forward"] = 1
    BY DEF PassPhase
  <2> QED
    BY <2>1, <2>2, PhaseCall
<1>8. UseImage("forward", "depth", "DEPTH") \in PhaseCalls(1)
  <2>1. <<"forward", "depth", "DEPTH">> \in UseTable
    BY DEF UseTable
  <2>2. PassPhase["forward"] = 1
    BY DEF PassPhase
  <2> QED
    BY <2>1, <2>2, PhaseCall
<1>9. ForwardRenderComponent_add \in Seq(PhaseCalls(1))
  BY <1>1, <1>2, <1>3, <1>4, <1>5, <1>6, <1>7, <1>8 DEF ForwardRenderComponent_add
<1> QED
  BY <1>9, PlainScript

\* SceneOverlayComponent::add declares the outline before the gizmo.
LEMMA OverlayScript ==
    Script(SceneOverlayComponent_add, 2, 3) /\ Plain(Elements(SceneOverlayComponent_add))
<1> DEFINE w == SceneOverlayComponent_add
           s == <<Component("Overlay"), Image("in_color", "INPUT"),
                  Image("in_id", "INPUT"), Image("out_color", "OUTPUT"),
                  Image("out_id", "OUTPUT"), Pass("outline"),
                  UseImage("outline", "in_color", "COLOR"),
                  UseImage("outline", "in_id", "SAMPLED")>>
           t == <<Pass("gizmo"), UseImage("gizmo", "out_color", "COLOR"),
                  UseImage("gizmo", "out_id", "COLOR"),
                  UseImage("gizmo", "in_color", "SAMPLED"),
                  UseImage("gizmo", "in_id", "SAMPLED")>>
<1>1. Component("Overlay") \in PhaseCalls(2)
  BY PhaseCall DEF CompPhase
<1>2. Image("in_color", "INPUT") \in PhaseCalls(2)
  <2>1. "in_color" \in DOMAIN ImageHome /\ ImageHome["in_color"] = "Overlay"
    BY DEF ImageHome
  <2>2. CompPhase["Overlay"] = 2
    BY DEF CompPhase
  <2> QED
    BY <2>1, <2>2, PhaseCall
<1>3. Image("in_id", "INPUT") \in PhaseCalls(2)
  <2>1. "in_id" \in DOMAIN ImageHome /\ ImageHome["in_id"] = "Overlay"
    BY DEF ImageHome
  <2>2. CompPhase["Overlay"] = 2
    BY DEF CompPhase
  <2> QED
    BY <2>1, <2>2, PhaseCall
<1>4. Image("out_color", "OUTPUT") \in PhaseCalls(2)
  <2>1. "out_color" \in DOMAIN ImageHome /\ ImageHome["out_color"] = "Overlay"
    BY DEF ImageHome
  <2>2. CompPhase["Overlay"] = 2
    BY DEF CompPhase
  <2> QED
    BY <2>1, <2>2, PhaseCall
<1>5. Image("out_id", "OUTPUT") \in PhaseCalls(2)
  <2>1. "out_id" \in DOMAIN ImageHome /\ ImageHome["out_id"] = "Overlay"
    BY DEF ImageHome
  <2>2. CompPhase["Overlay"] = 2
    BY DEF CompPhase
  <2> QED
    BY <2>1, <2>2, PhaseCall
<1>6. Pass("outline") \in PhaseCalls(2)
  BY PhaseCall DEF PassPhase
<1>7. UseImage("outline", "in_color", "COLOR") \in PhaseCalls(2)
  <2>1. <<"outline", "in_color", "COLOR">> \in UseTable
    BY DEF UseTable
  <2>2. PassPhase["outline"] = 2
    BY DEF PassPhase
  <2> QED
    BY <2>1, <2>2, PhaseCall
<1>8. UseImage("outline", "in_id", "SAMPLED") \in PhaseCalls(2)
  <2>1. <<"outline", "in_id", "SAMPLED">> \in UseTable
    BY DEF UseTable
  <2>2. PassPhase["outline"] = 2
    BY DEF PassPhase
  <2> QED
    BY <2>1, <2>2, PhaseCall
<1>9. Pass("gizmo") \in PhaseCalls(3)
  BY PhaseCall DEF PassPhase
<1>10. UseImage("gizmo", "out_color", "COLOR") \in PhaseCalls(3)
  <2>1. <<"gizmo", "out_color", "COLOR">> \in UseTable
    BY DEF UseTable
  <2>2. PassPhase["gizmo"] = 3
    BY DEF PassPhase
  <2> QED
    BY <2>1, <2>2, PhaseCall
<1>11. UseImage("gizmo", "out_id", "COLOR") \in PhaseCalls(3)
  <2>1. <<"gizmo", "out_id", "COLOR">> \in UseTable
    BY DEF UseTable
  <2>2. PassPhase["gizmo"] = 3
    BY DEF PassPhase
  <2> QED
    BY <2>1, <2>2, PhaseCall
<1>12. UseImage("gizmo", "in_color", "SAMPLED") \in PhaseCalls(3)
  <2>1. <<"gizmo", "in_color", "SAMPLED">> \in UseTable
    BY DEF UseTable
  <2>2. PassPhase["gizmo"] = 3
    BY DEF PassPhase
  <2> QED
    BY <2>1, <2>2, PhaseCall
<1>13. UseImage("gizmo", "in_id", "SAMPLED") \in PhaseCalls(3)
  <2>1. <<"gizmo", "in_id", "SAMPLED">> \in UseTable
    BY DEF UseTable
  <2>2. PassPhase["gizmo"] = 3
    BY DEF PassPhase
  <2> QED
    BY <2>1, <2>2, PhaseCall
<1>14. s \in Seq(PhaseCalls(2))
  BY <1>1, <1>2, <1>3, <1>4, <1>5, <1>6, <1>7, <1>8
<1>15. t \in Seq(PhaseCalls(3))
  BY <1>9, <1>10, <1>11, <1>12, <1>13
<1>16. w = s \o t
  BY DEF SceneOverlayComponent_add, s, t, w
<1> HIDE DEF s, t, w
<1>17. Script(s, 2, 2) /\ Plain(Elements(s))
  BY <1>14, PlainScript
<1>18. Script(t, 3, 3) /\ Plain(Elements(t))
  BY <1>15, PlainScript
<1>19. Script(s \o t, 2, 3)
  <2>1. Follows(2, 2, 3, 3)
    BY DEF Follows
  <2> QED
    BY <1>17, <1>18, <2>1, ScriptsJoin
<1>20. Elements(w) = Elements(s) \cup Elements(t)
  BY <1>16, <1>17, <1>18, ElementsJoin
<1> QED
  BY <1>16, <1>17, <1>18, <1>19, <1>20 DEF Plain, w

\* The screen component uses its image.
LEMMA ScreenScript ==
    ASSUME NEW c, NEW p, NEW io, NEW input \in BOOLEAN, NEW n \in Int,
           c \in DOMAIN CompPhase, CompPhase[c] = n, p \in DOMAIN PassPhase, PassPhase[p] = n,
           io \in DOMAIN ImageHome, ImageHome[io] = c, <<p, io, "COLOR">> \in UseTable
    PROVE  /\ Script(ScreenRenderComponent_add(c, p, io, input), n, n)
           /\ ConnectsIn(Elements(ScreenRenderComponent_add(c, p, io, input))) = {}
           /\ UseImage(p, io, "COLOR") \in Elements(ScreenRenderComponent_add(c, p, io, input))
           /\ \A i, t : Image(i, t) \in Elements(ScreenRenderComponent_add(c, p, io, input)) => i = io
<1> DEFINE X == {d \in Calls : PhaseOf(d) = n}
           s == ScreenRenderComponent_add(c, p, io, input)
           type == IF input THEN "IO" ELSE "OUTPUT"
<1>1. /\ Component(c) \in X /\ Image(io, type) \in X /\ Pass(p) \in X
      /\ UseImage(p, io, "COLOR") \in X
  BY CallPhases
<1> HIDE DEF X
<1>2. s = <<Component(c), Image(io, type), Pass(p), UseImage(p, io, "COLOR")>>
  BY DEF ScreenRenderComponent_add
<1> HIDE DEF type
<1>3. s \in Seq(X) /\ Elements(s) = {Component(c), Image(io, type), Pass(p), UseImage(p, io, "COLOR")}
  BY <1>1, <1>2 DEF Elements
<1>4. \A d \in Elements(s) : d.call # "connect" /\ \A i, t : d = Image(i, t) => i = io
  BY <1>3 DEF Component, Image, Pass, UseImage
<1> HIDE DEF s
<1>5. Script(s, n, n)
  BY <1>3, ScriptOfPhase DEF X
<1>6. ConnectsIn(Elements(s)) = {} /\ \A i, t : Image(i, t) \in Elements(s) => i = io
  BY <1>4 DEF ConnectsIn
<1> QED
  BY <1>3, <1>5, <1>6 DEF s

\* ScreenPickComponent::add declares parts of its phase only.
LEMMA PickScript ==
    Script(ScreenPickComponent_add, 9, 9) /\ Plain(Elements(ScreenPickComponent_add))
<1>1. Component("ScreenPick") \in PhaseCalls(9)
  BY PhaseCall DEF CompPhase
<1>2. Image("pick_in", "INPUT") \in PhaseCalls(9)
  <2>1. "pick_in" \in DOMAIN ImageHome /\ ImageHome["pick_in"] = "ScreenPick"
    BY DEF ImageHome
  <2>2. CompPhase["ScreenPick"] = 9
    BY DEF CompPhase
  <2> QED
    BY <2>1, <2>2, PhaseCall
<1>3. Pass("pick") \in PhaseCalls(9)
  BY PhaseCall DEF PassPhase
<1>4. UseImage("pick", "pick_in", "STORAGE") \in PhaseCalls(9)
  <2>1. <<"pick", "pick_in", "STORAGE">> \in UseTable
    BY DEF UseTable
  <2>2. PassPhase["pick"] = 9
    BY DEF PassPhase
  <2> QED
    BY <2>1, <2>2, PhaseCall
<1>5. ScreenPickComponent_add \in Seq(PhaseCalls(9))
  BY <1>1, <1>2, <1>3, <1>4 DEF ScreenPickComponent_add
<1> QED
  BY <1>5, PlainScript

\* A connection or a blit of its own.
LEMMA ConnectScript ==
    ASSUME NEW i, NEW d, <<i, d>> \in LinkTable
    PROVE  /\ Script(<<Connect(i, d)>>, LinkPhase[d], LinkPhase[d])
           /\ ConnectsIn(Elements(<<Connect(i, d)>>)) = {<<i, d>>}
           /\ \A t : Image("screen_io", t) \notin Elements(<<Connect(i, d)>>)
<1>1. Connect(i, d) \in Calls /\ PhaseOf(Connect(i, d)) = LinkPhase[d] /\ LinkPhase[d] \in Int
  <2>1. <<i, d>>[2] = d
    OBVIOUS
  <2> QED
    BY <2>1, CallPhases, LinkTableFacts, Tables
<1>2. Elements(<<Connect(i, d)>>) = {Connect(i, d)}
  BY DEF Elements
<1>3. Script(<<Connect(i, d)>>, LinkPhase[d], LinkPhase[d])
  BY <1>1 DEF Script
<1> QED
  BY <1>2, <1>3 DEF ConnectsIn, Connect, Image

\* What is shown in a dialog comes before what is shown in the main window.
LEMMA BlitScript ==
    ASSUME NEW i \in DOMAIN ImageHome
    PROVE  /\ Script(<<Blit(i, "dialog")>>, 11, 11) /\ Plain(Elements(<<Blit(i, "dialog")>>))
           /\ Script(<<Blit(i, "root")>>, 12, 12) /\ Plain(Elements(<<Blit(i, "root")>>))
<1> DEFINE s == <<Blit(i, "dialog")>>
           t == <<Blit(i, "root")>>
<1>1. Blit(i, "dialog") \in PhaseCalls(11) /\ Blit(i, "root") \in PhaseCalls(12)
  BY PhaseCall
<1>2. s \in Seq(PhaseCalls(11)) /\ t \in Seq(PhaseCalls(12))
  BY <1>1
<1> HIDE DEF s, t
<1>3. Script(s, 11, 11) /\ Plain(Elements(s))
  BY <1>2, PlainScript
<1>4. Script(t, 12, 12) /\ Plain(Elements(t))
  BY <1>2, PlainScript
<1> QED
  BY <1>3, <1>4 DEF s, t

-----------------------------------------------------------------------------
(* The methods                                                             *)

\* The method m comes after all that was declared, and declares what comes up to phase b.
Turn(m, a, b) ==
    /\ graphState = "CREATED" /\ todo = <<>> /\ called' = called \cup {m}
    /\ a \in Int /\ b \in Int
    /\ \A n \in Int : n > a => ~Since(n)
    /\ \A n \in Int : n <= b => m \in Methods(n)

\* A method queues what comes after all that was declared.
LEMMA MethodStep ==
    ASSUME FrameInv, UNCHANGED graphVars,
           NEW m, NEW a, NEW b, Turn(m, a, b), Script(todo', a, b),
           LinkInv',
           \A t \in {"OUTPUT", "INPUT", "IO"} : Image("screen_io", t) \in Pending' => ScreenUse \in Pending'
    PROVE  FrameInv'
<1> USE DEF Turn
<1>1. DoneInv /\ RankInv /\ UseInv /\ ScreenInv /\ EdgesInv /\ RecordInv /\ forward
  BY DEF FrameInv
<1>2. UNCHANGED <<graphState, added, declared, images, used, imageUsages, edges, imageRefs, forward,
                  passOrder, recorded>>
  BY DEF graphVars, declVars, passVars, linkVars, sortVars
<1>3. /\ todo' \in Seq(Calls)
      /\ \A j, k \in 1..Len(todo') : j <= k => PhaseOf(todo'[j]) <= PhaseOf(todo'[k])
      /\ \A k \in 1..Len(todo') : a <= PhaseOf(todo'[k]) /\ PhaseOf(todo'[k]) <= b
  BY DEF Script
<1>4. Pending' \subseteq Calls /\ \A c \in Pending' : a <= PhaseOf(c) /\ PhaseOf(c) <= b
  BY <1>3 DEF Pending, Elements
<1>5. ASSUME NEW c \in Calls PROVE PhaseOf(c) \in Int
  <2>1. PhaseOf(c) \in 1..12
    BY CallFacts
  <2> QED
    BY <2>1
<1>6. \A n : Since(n) => Since(n)'
  BY DEF Since
<1>7. TodoInv'
  <2>1. ASSUME NEW c \in Pending' PROVE Since(PhaseOf(c))'
    <3>1. m \in Methods(PhaseOf(c))
      BY <1>4, <1>5
    <3> QED
      BY <3>1 DEF Since
  <2> QED
    BY <1>3, <2>1 DEF TodoInv
<1>8. ASSUME NEW n \in Int, Done(n) PROVE Done(n)'
  <2>1. Since(n) /\ n <= a
    BY <1>8 DEF Done
  <2>2. \A c \in Pending' : n <= PhaseOf(c)
    BY <1>4, <1>5, <2>1
  <2> QED
    BY <1>6, <2>1, <2>2 DEF Done
<1>9. DoneInv'
  <2>1. /\ \A c \in Components : CompPhase[c] \in Int
        /\ \A p \in Passes : PassPhase[p] \in Int
    BY Tables
  <2>2. \A d \in DOMAIN imageRefs : LinkPhase[d] \in Int
    <3> SUFFICES ASSUME NEW d \in DOMAIN imageRefs PROVE LinkPhase[d] \in Int
      OBVIOUS
    <3>1. <<imageRefs[d], d>> \in LinkTable
      BY DEF FrameInv, LinkInv, Links
    <3>2. <<imageRefs[d], d>>[2] = d
      OBVIOUS
    <3>3. d \in DOMAIN LinkPhase
      BY <3>1, <3>2, LinkTableFacts
    <3> QED
      BY <3>3, Tables
  <2> QED
    BY <1>1, <1>2, <1>8, <2>1, <2>2 DEF DoneInv
<1>10. RankInv' /\ UseInv'
  BY <1>1, <1>2 DEF RankInv, Ranked, Latest, UseInv, Exists
<1>11. ScreenInv'
  <2>1. Pending = {}
    BY DEF Pending, Elements
  <2>2. "screen_io" \in DOMAIN images => "screen_io" \in DOMAIN used["screen"]
    BY <1>1, <2>1 DEF ScreenInv
  <2> QED
    BY <1>2, <2>2 DEF ScreenInv
<1>12. EdgesInv'
  BY <1>1, <1>2 DEF EdgesInv, has_image_dependency
<1>13. IdleInv' /\ RecordInv'
  BY <1>1, <1>2 DEF IdleInv, RecordInv
<1> QED
  BY <1>1, <1>2, <1>7, <1>9, <1>10, <1>11, <1>12, <1>13 DEF FrameInv

\* Before it is called, only what was connected counts.
LEMMA LinksBefore ==
    ASSUME FrameInv, graphState = "CREATED", todo = <<>>, imageRefs' = imageRefs
    PROVE  /\ LinkInv /\ Links' = Links \cup ConnectsIn(Pending')
           /\ \A x \in Links : x \in LinkTable /\ Since(LinkPhase[x[2]]) /\ LinkPhase[x[2]] \in Int
<1>1. LinkInv /\ DoneInv
  BY DEF FrameInv
<1>2. Pending = {}
  BY DEF Pending, Elements
<1>3. Links = {<<imageRefs[d], d>> : d \in DOMAIN imageRefs}
  BY <1>2 DEF Links, ConnectsIn
<1>4. Links' = Links \cup ConnectsIn(Pending')
  BY <1>3 DEF Links
<1>5. ASSUME NEW x \in Links PROVE x \in LinkTable /\ Since(LinkPhase[x[2]]) /\ LinkPhase[x[2]] \in Int
  <2>1. PICK d \in DOMAIN imageRefs : x = <<imageRefs[d], d>>
    BY <1>3
  <2>2. x[2] = d
    BY <2>1
  <2>3. Done(LinkPhase[d])
    BY <1>1 DEF DoneInv
  <2>4. x \in LinkTable
    BY <1>1 DEF LinkInv
  <2>5. x[2] \in DOMAIN LinkPhase
    BY <2>4, LinkTableFacts
  <2> QED
    BY <2>2, <2>3, <2>4, <2>5, Tables DEF Done
<1> QED
  BY <1>1, <1>4, <1>5

\* A method that connects nothing and leaves the last images.
LEMMA LinkSame ==
    ASSUME FrameInv, graphState = "CREATED", todo = <<>>, imageRefs' = imageRefs,
           ConnectsIn(Pending') = {}, called \subseteq called',
           UNCHANGED <<mLastColorAttachment, mLastIDFlagsAttachment>>
    PROVE  LinkInv'
<1>1. LinkInv /\ Links' = Links \cup ConnectsIn(Pending')
  BY LinksBefore
<1>2. \A n : Since(n) => Since(n)'
  BY DEF Since
<1> QED
  BY <1>1, <1>2 DEF LinkInv

\* A method that returns early declares nothing.
LEMMA SkippedStep ==
    ASSUME FrameInv, UNCHANGED graphVars, Skipped, NEW m, NEW a, NEW b, Turn(m, a, b)
    PROVE  FrameInv'
<1>1. todo' = <<>> /\ UNCHANGED <<mLastColorAttachment, mLastIDFlagsAttachment>>
  BY DEF Skipped, Turn
<1>2. Script(todo', a, b) /\ Pending' = {}
  BY <1>1, EmptyScript DEF Pending
<1>3. ConnectsIn(Pending') = {}
  BY <1>2 DEF ConnectsIn
<1>4. imageRefs' = imageRefs
  BY DEF graphVars, declVars, linkVars
<1>5. LinkInv'
  <2>1. graphState = "CREATED" /\ todo = <<>> /\ called \subseteq called'
    BY DEF Turn
  <2> QED
    BY <1>1, <1>3, <1>4, <2>1, LinkSame
<1> QED
  BY <1>2, <1>5, MethodStep

\* Whose turn it is.
LEMMA Turns ==
    /\ MayCall("world", {"screen", "editor", "dialog"}) => Turn("world", 1, 4) /\ \A n \in Int : ~Since(n)
    /\ MayCall("screen", {"editor", "dialog"}) => Turn("screen", 5, 6) /\ Turn("screen", 4, 6)
    /\ MayCall("editor", {"dialog"}) => Turn("editor", 7, 10) /\ Turn("editor", 6, 10)
    /\ MayCall("dialog", {}) => Turn("dialog", 11, 11)
    /\ MayCall("submit", {}) => Turn("submit", 12, 12)
<1>1. /\ \A n \in Int : Methods(n) \subseteq {"world", "screen", "editor", "dialog", "submit"}
      /\ \A n \in Int : n > 4 => Methods(n) \subseteq {"screen", "editor", "dialog", "submit"}
      /\ \A n \in Int : n > 6 => Methods(n) \subseteq {"editor", "dialog", "submit"}
      /\ \A n \in Int : n > 11 => Methods(n) \subseteq {"submit"}
      /\ \A n \in Int : n <= 4 => "world" \in Methods(n)
      /\ \A n \in Int : n <= 6 => "screen" \in Methods(n)
      /\ \A n \in Int : n <= 10 => "editor" \in Methods(n)
      /\ \A n \in Int : n <= 11 => "dialog" \in Methods(n)
      /\ \A n \in Int : "submit" \in Methods(n)
  BY DEF Methods
<1>2. ASSUME MayCall("world", {"screen", "editor", "dialog"}) PROVE Turn("world", 1, 4) /\ \A n \in Int : ~Since(n)
  <2>1. called \cap {"world", "screen", "editor", "dialog", "submit"} = {}
    BY <1>2 DEF MayCall
  <2>2. \A n \in Int : ~Since(n)
    BY <1>1, <2>1 DEF Since
  <2>3. graphState = "CREATED" /\ todo = <<>> /\ called' = called \cup {"world"}
    BY <1>2 DEF MayCall
  <2> QED
    BY <1>1, <2>2, <2>3 DEF Turn
<1>3. ASSUME MayCall("screen", {"editor", "dialog"}) PROVE Turn("screen", 5, 6) /\ Turn("screen", 4, 6)
  <2>1. called \cap {"screen", "editor", "dialog", "submit"} = {}
    BY <1>3 DEF MayCall
  <2>2. \A n \in Int : n > 4 => ~Since(n)
    BY <1>1, <2>1 DEF Since
  <2>3. graphState = "CREATED" /\ todo = <<>> /\ called' = called \cup {"screen"}
    BY <1>3 DEF MayCall
  <2> QED
    BY <1>1, <2>2, <2>3 DEF Turn
<1>4. ASSUME MayCall("editor", {"dialog"}) PROVE Turn("editor", 7, 10) /\ Turn("editor", 6, 10)
  <2>1. called \cap {"editor", "dialog", "submit"} = {}
    BY <1>4 DEF MayCall
  <2>2. \A n \in Int : n > 6 => ~Since(n)
    BY <1>1, <2>1 DEF Since
  <2>3. graphState = "CREATED" /\ todo = <<>> /\ called' = called \cup {"editor"}
    BY <1>4 DEF MayCall
  <2> QED
    BY <1>1, <2>2, <2>3 DEF Turn
<1>5. ASSUME MayCall("dialog", {}) PROVE Turn("dialog", 11, 11)
  <2>1. called \cap {"dialog", "submit"} = {}
    BY <1>5 DEF MayCall
  <2>2. \A n \in Int : n > 11 => ~Since(n)
    BY <1>1, <2>1 DEF Since
  <2>3. graphState = "CREATED" /\ todo = <<>> /\ called' = called \cup {"dialog"}
    BY <1>5 DEF MayCall
  <2> QED
    BY <1>1, <2>2, <2>3 DEF Turn
<1>6. ASSUME MayCall("submit", {}) PROVE Turn("submit", 12, 12)
  <2>1. called \cap {"submit"} = {}
    BY <1>6 DEF MayCall
  <2>2. \A n \in Int : n > 12 => ~Since(n)
    BY <1>1, <2>1 DEF Since
  <2>3. graphState = "CREATED" /\ todo = <<>> /\ called' = called \cup {"submit"}
    BY <1>6 DEF MayCall
  <2> QED
    BY <1>1, <2>2, <2>3 DEF Turn
<1> QED
  BY <1>2, <1>3, <1>4, <1>5, <1>6

-----------------------------------------------------------------------------
\* s are calls from phase a to phase b that make the connections L, and do not
\* declare the image of the screen.
Queues(s, a, b, L) ==
    Script(s, a, b) /\ ConnectsIn(Elements(s)) = L /\ \A t : Image("screen_io", t) \notin Elements(s)

\* A later script adds its connections.
LEMMA QueuesJoin ==
    ASSUME NEW s, NEW t, NEW a, NEW b, NEW c, NEW d, NEW L, NEW M,
           Follows(a, b, c, d), Queues(s, a, b, L), Queues(t, c, d, M)
    PROVE  Queues(s \o t, a, d, L \cup M)
<1>1. Script(s, a, b) /\ Script(t, c, d)
  BY DEF Queues
<1>2. Script(s \o t, a, d)
  BY <1>1, ScriptsJoin
<1>3. Elements(s \o t) = Elements(s) \cup Elements(t)
  BY <1>1, ElementsJoin
<1>4. ConnectsIn(Elements(s \o t)) = ConnectsIn(Elements(s)) \cup ConnectsIn(Elements(t))
  BY <1>3, ConnectsUnion
<1>5. ConnectsIn(Elements(s)) = L /\ ConnectsIn(Elements(t)) = M
  BY DEF Queues
<1>6. \A x : Image("screen_io", x) \notin Elements(s \o t)
  BY <1>3 DEF Queues
<1> QED
  BY <1>2, <1>4, <1>5, <1>6 DEF Queues

\* A method that calls nothing connects nothing.
LEMMA QueuesNothing == ASSUME NEW a, NEW b PROVE Queues(<<>>, a, b, {})
BY EmptyScript DEF Queues, ConnectsIn

\* A plain script connects nothing.
LEMMA QueuesPlain ==
    ASSUME NEW s, NEW a, NEW b, Script(s, a, b), Plain(Elements(s))
    PROVE  Queues(s, a, b, {})
BY PlainFacts DEF Queues

\* One connection of the table.
LEMMA QueuesConnect ==
    ASSUME NEW i, NEW d, <<i, d>> \in LinkTable, NEW n, n = LinkPhase[d]
    PROVE  Queues(<<Connect(i, d)>>, n, n, {<<i, d>>})
BY ConnectScript DEF Queues

\* The forward component, and the overlay on its images.
LEMMA WorldScript ==
    ASSUME NEW overlay \in BOOLEAN,
           NEW s, s = ForwardRenderComponent_add \o
                IF overlay
                THEN SceneOverlayComponent_add \o <<Connect("color", "in_color"), Connect("id", "in_id")>>
                ELSE <<>>
    PROVE  Queues(s, 1, 4, IF overlay THEN {<<"color", "in_color">>, <<"id", "in_id">>} ELSE {})
<1> DEFINE F == ForwardRenderComponent_add
           O == SceneOverlayComponent_add
           C == <<Connect("color", "in_color")>>
           D == <<Connect("id", "in_id")>>
           x == <<"color", "in_color">>
           y == <<"id", "in_id">>
<1>1. x \in LinkTable /\ y \in LinkTable /\ LinkPhase["in_color"] = 4 /\ LinkPhase["in_id"] = 4
  BY DEF LinkTable, LinkPhase
<1>2. Queues(C, 4, 4, {x}) /\ Queues(D, 4, 4, {y})
  BY <1>1, QueuesConnect
<1>3. <<Connect("color", "in_color"), Connect("id", "in_id")>> = C \o D
  OBVIOUS
<1> HIDE DEF C, D
<1>4. Queues(F, 1, 1, {}) /\ Queues(O, 2, 3, {})
  BY ForwardScript, OverlayScript, QueuesPlain
<1>5. Follows(4, 4, 4, 4) /\ Follows(2, 3, 4, 4) /\ Follows(1, 1, 2, 4) /\ Follows(1, 1, 1, 4)
  BY DEF Follows
<1> HIDE DEF F, O
<1>6. CASE overlay
  <2> HIDE DEF x, y
  <2>1. Queues(C \o D, 4, 4, {x} \cup {y})
    BY <1>2, <1>5, QueuesJoin
  <2>2. Queues(O \o (C \o D), 2, 4, {} \cup ({x} \cup {y}))
    BY <1>4, <1>5, <2>1, QueuesJoin
  <2>3. Queues(F \o (O \o (C \o D)), 1, 4, {} \cup ({} \cup ({x} \cup {y})))
    BY <1>4, <1>5, <2>2, QueuesJoin
  <2>4. {} \cup ({} \cup ({x} \cup {y})) = {x, y}
    OBVIOUS
  <2>5. s = F \o (O \o (C \o D))
    BY <1>3, <1>6 DEF F, O
  <2>6. Queues(s, 1, 4, {x, y})
    BY <2>3, <2>4, <2>5
  <2> QED
    BY <1>6, <2>6 DEF x, y
<1>7. CASE ~overlay
  <2>1. Queues(<<>>, 1, 4, {})
    BY QueuesNothing
  <2>2. Queues(F \o <<>>, 1, 4, {} \cup {})
    BY <1>4, <1>5, <2>1, QueuesJoin
  <2>3. s = F \o <<>> /\ {} \cup {} = {}
    BY <1>7 DEF F
  <2>4. Queues(s, 1, 4, {})
    BY <2>2, <2>3
  <2> QED
    BY <1>7, <2>4
<1> QED
  BY <1>6, <1>7

\* world_pass keeps the frame in order, with or without the overlay.
LEMMA WorldStep ==
    ASSUME FrameInv, graphState # "trapped", NEW overlay \in BOOLEAN, world_pass(overlay)
    PROVE  FrameInv'
<1>1. Turn("world", 1, 4) /\ (\A n \in Int : ~Since(n)) /\ graphState = "CREATED" /\ todo = <<>>
  BY Turns DEF world_pass, Turn
<1>2. UNCHANGED graphVars
  BY DEF world_pass
<1>4. CASE Skipped
  BY <1>1, <1>2, <1>4, SkippedStep
<1>5. CASE ~Skipped
  <2>1. /\ todo' = ForwardRenderComponent_add \o
                IF overlay
                THEN SceneOverlayComponent_add \o <<Connect("color", "in_color"), Connect("id", "in_id")>>
                ELSE <<>>
        /\ mLastColorAttachment' = IF overlay THEN "out_color" ELSE "color"
        /\ mLastIDFlagsAttachment' = IF overlay THEN "out_id" ELSE "id"
    BY <1>5 DEF world_pass
  <2>2. /\ Script(todo', 1, 4)
        /\ ConnectsIn(Pending') = IF overlay THEN {<<"color", "in_color">>, <<"id", "in_id">>} ELSE {}
        /\ \A t : Image("screen_io", t) \notin Pending'
    <3>1. Queues(todo', 1, 4, IF overlay THEN {<<"color", "in_color">>, <<"id", "in_id">>} ELSE {})
      BY <2>1, WorldScript
    <3> QED
      BY <3>1 DEF Queues, Pending
  <2>3. imageRefs' = imageRefs
    BY <1>2 DEF graphVars, declVars, linkVars
  <2>4. Links' = IF overlay THEN {<<"color", "in_color">>, <<"id", "in_id">>} ELSE {}
    <3>1. Links' = Links \cup ConnectsIn(Pending')
      BY <1>1, <2>3, LinksBefore
    <3>2. \A x \in Links : Since(LinkPhase[x[2]]) /\ LinkPhase[x[2]] \in Int
      BY <1>1, <2>3, LinksBefore
    <3> QED
      BY <1>1, <2>2, <3>1, <3>2
  <2>5. LinkInv'
    <3>1. {<<"color", "in_color">>, <<"id", "in_id">>} \subseteq LinkTable
      BY DEF LinkTable
    <3>2. Links' \subseteq LinkTable
      BY <2>4, <3>1
    <3>3. \A x \in Links' : x[1] \in {"color", "id"} /\ overlay
      BY <2>4
    <3>4. \A x, y \in Links' : x[1] = y[1] => x = y
      BY <2>4
    <3>5. (\A x \in Links' : x[1] # mLastColorAttachment') /\ (\A x \in Links' : x[1] # mLastIDFlagsAttachment')
      BY <2>1, <3>3
    <3>6. mLastColorAttachment' \in {"color", "out_color"} /\ mLastIDFlagsAttachment' \in {"id", "out_id"}
      BY <2>1
    <3> QED
      BY <3>2, <3>4, <3>5, <3>6 DEF LinkInv
  <2> QED
    BY <1>1, <1>2, <2>2, <2>5, MethodStep
<1> QED
  BY <1>4, <1>5

\* The screen: on its own image, or on the one that was drawn last.
LEMMA ScreenPassStep ==
    ASSUME FrameInv, graphState # "trapped", screen_pass
    PROVE  FrameInv'
<1>1. Turn("screen", 5, 6) /\ Turn("screen", 4, 6)
  BY Turns DEF screen_pass
<1>2. graphState = "CREATED" /\ todo = <<>> /\ called' = called \cup {"screen"} /\ \A n \in Int : n > 4 => ~Since(n)
  BY <1>1 DEF Turn
<1>3. UNCHANGED graphVars
  BY DEF screen_pass
<1>5. CASE Skipped
  BY <1>1, <1>3, <1>5, SkippedStep
<1>6. CASE ~Skipped
  <2> DEFINE input == mLastColorAttachment # NoImage
             S == ScreenRenderComponent_add("SceneScreen", "screen", "screen_io", input)
             C == IF input THEN <<Connect(mLastColorAttachment, "screen_io")>> ELSE <<>>
  <2>1. /\ todo' = S \o C
        /\ mLastColorAttachment' = "screen_io"
        /\ UNCHANGED mLastIDFlagsAttachment
    BY <1>6 DEF screen_pass
  <2>2. imageRefs' = imageRefs
    BY <1>3 DEF graphVars, declVars, linkVars
  <2>3. /\ LinkInv /\ Links' = Links \cup ConnectsIn(Pending')
        /\ \A x \in Links : x \in LinkTable /\ LinkPhase[x[2]] <= 4
    <3>1. /\ LinkInv /\ Links' = Links \cup ConnectsIn(Pending')
          /\ \A x \in Links : x \in LinkTable /\ Since(LinkPhase[x[2]]) /\ LinkPhase[x[2]] \in Int
      BY <1>2, <2>2, LinksBefore
    <3> QED
      BY <1>2, <3>1
  <2>4. input => mLastColorAttachment \in {"color", "out_color"}
    BY <1>2, <2>3 DEF LinkInv
  <2>5. input => <<mLastColorAttachment, "screen_io">> \in LinkTable
    BY <2>4 DEF LinkTable
  <2>6. /\ Script(C, 6, 6)
        /\ ConnectsIn(Elements(C)) = IF input THEN {<<mLastColorAttachment, "screen_io">>} ELSE {}
        /\ \A t : Image("screen_io", t) \notin Elements(C)
    <3>1. CASE input
      <4>1. LinkPhase["screen_io"] = 6
        BY DEF LinkPhase
      <4> QED
        BY <2>5, <3>1, <4>1, ConnectScript
    <3>2. CASE ~input
      <4>1. C = <<>>
        BY <3>2
      <4>2. Script(C, 6, 6) /\ Elements(C) = {}
        BY <4>1, EmptyScript
      <4>3. ConnectsIn(Elements(C)) = {}
        BY <4>2 DEF ConnectsIn
      <4>4. \A t : Image("screen_io", t) \notin Elements(C)
        BY <4>2
      <4>5. Script(C, 6, 6)
        BY <4>2
      <4> HIDE DEF input, C
      <4> QED
        BY <3>2, <4>3, <4>4, <4>5
    <3> QED
      BY <3>1, <3>2
  <2>7. /\ Script(S, 5, 5) /\ ConnectsIn(Elements(S)) = {}
        /\ ScreenUse \in Elements(S)
    <3>1. "SceneScreen" \in DOMAIN CompPhase /\ CompPhase["SceneScreen"] = 5
      BY DEF CompPhase
    <3>2. "screen" \in DOMAIN PassPhase /\ PassPhase["screen"] = 5
      BY DEF PassPhase
    <3>3. "screen_io" \in DOMAIN ImageHome /\ ImageHome["screen_io"] = "SceneScreen"
      BY DEF ImageHome
    <3>4. <<"screen", "screen_io", "COLOR">> \in UseTable
      BY DEF UseTable
    <3>5. input \in BOOLEAN
      OBVIOUS
    <3> HIDE DEF input
    <3> QED
      BY <3>1, <3>2, <3>3, <3>4, <3>5, ScreenScript DEF ScreenUse
  <2> HIDE DEF S, C
  <2>8. Script(S \o C, 5, 6)
    <3>1. Follows(5, 5, 6, 6)
      BY DEF Follows
    <3> QED
      BY <2>6, <2>7, <3>1, ScriptsJoin
  <2>9. Pending' = Elements(S) \cup Elements(C)
    BY <2>1, <2>6, <2>7, ElementsJoin DEF Pending
  <2>10. ConnectsIn(Pending') = IF input THEN {<<mLastColorAttachment, "screen_io">>} ELSE {}
    <3>1. ConnectsIn(Pending') = ConnectsIn(Elements(S)) \cup ConnectsIn(Elements(C))
      BY <2>9, ConnectsUnion
    <3>2. ConnectsIn(Elements(S)) = {}
      BY <2>7
    <3>3. ConnectsIn(Elements(C)) = IF input THEN {<<mLastColorAttachment, "screen_io">>} ELSE {}
      BY <2>6
    <3> HIDE DEF input
    <3> QED
      BY <3>1, <3>2, <3>3
  <2>11. LinkInv'
    <3>1. Links' \subseteq LinkTable
      BY <2>3, <2>5, <2>10 DEF LinkInv
    <3>2. \A x \in Links' : x \in Links \/ (input /\ x = <<mLastColorAttachment, "screen_io">>)
      BY <2>3, <2>10
    <3>3. \A x, y \in Links : x[1] = y[1] => x = y
      BY <2>3 DEF LinkInv
    <3>4. \A x \in Links : x[1] # mLastColorAttachment
      BY <2>3 DEF LinkInv
    <3>5. \A x, y \in Links' : x[1] = y[1] => x = y
      BY <3>2, <3>3, <3>4
    <3>6. \A x \in LinkTable : x[1] = "screen_io" => LinkPhase[x[2]] = 8
      BY DEF LinkTable, LinkPhase
    <3>7. \A x \in Links : x[1] # "screen_io"
      <4> SUFFICES ASSUME NEW x \in Links, x[1] = "screen_io" PROVE FALSE
        OBVIOUS
      <4>1. LinkPhase[x[2]] = 8 /\ LinkPhase[x[2]] <= 4
        BY <2>3, <3>6
      <4> QED
        BY <4>1
    <3>8. \A x \in Links' : x[1] # mLastColorAttachment'
      BY <2>1, <2>4, <3>2, <3>7
    <3>9. "editor" \notin called' => \A x \in Links' : x[1] # mLastIDFlagsAttachment'
      <4>1. mLastIDFlagsAttachment \in {NoImage, "id", "out_id"}
        BY <2>3 DEF LinkInv
      <4>2. NoImage \notin {"color", "out_color"}
        BY RenderSystemConstants DEF ImageHome
      <4>3. "editor" \notin called' => \A x \in Links : x[1] # mLastIDFlagsAttachment
        BY <1>2, <2>3 DEF LinkInv
      <4> QED
        BY <2>1, <2>4, <3>2, <4>1, <4>2, <4>3
    <3>10. Since(5)'
      <4>1. "screen" \in Methods(5)
        BY DEF Methods
      <4> QED
        BY <1>2, <4>1 DEF Since
    <3>11. mLastIDFlagsAttachment' \in {NoImage, "id", "out_id"}
      BY <2>1, <2>3 DEF LinkInv
    <3> QED
      BY <2>1, <3>1, <3>5, <3>8, <3>9, <3>10, <3>11 DEF LinkInv
  <2>12. ScreenUse \in Pending'
    BY <2>7, <2>9
  <2>13. Script(todo', 5, 6)
    BY <2>1, <2>8
  <2> QED
    BY <1>1, <1>3, <2>11, <2>12, <2>13, MethodStep
<1> QED
  BY <1>5, <1>6

-----------------------------------------------------------------------------
\* The editor draws with the last image, and picks from the last flags.
LEMMA EditorScript ==
    ASSUME NEW last, NEW flags, <<last, "editor_in">> \in LinkTable,
           flags # NoImage => <<flags, "pick_in">> \in LinkTable,
           NEW s, s = ScreenRenderComponent_add("Editor", "editor", "editor_io", FALSE) \o
                <<Image("editor_in", "INPUT"), UseImage("editor", "editor_in", "SAMPLED"),
                  Connect(last, "editor_in")>> \o
                IF flags = NoImage THEN <<>>
                ELSE ScreenPickComponent_add \o <<Connect(flags, "pick_in")>>
    PROVE  Queues(s, 7, 10,
               {<<last, "editor_in">>} \cup IF flags = NoImage THEN {} ELSE {<<flags, "pick_in">>})
<1> DEFINE E == ScreenRenderComponent_add("Editor", "editor", "editor_io", FALSE)
           I == <<Image("editor_in", "INPUT"), UseImage("editor", "editor_in", "SAMPLED")>>
           K == <<Connect(last, "editor_in")>>
           P == ScreenPickComponent_add
           L == <<Connect(flags, "pick_in")>>
           x == <<last, "editor_in">>
           y == <<flags, "pick_in">>
<1>1. Queues(E, 7, 7, {})
  <2> DEFINE input == FALSE
  <2>1. "Editor" \in DOMAIN CompPhase /\ CompPhase["Editor"] = 7
    BY DEF CompPhase
  <2>2. "editor" \in DOMAIN PassPhase /\ PassPhase["editor"] = 7
    BY DEF PassPhase
  <2>3. "editor_io" \in DOMAIN ImageHome /\ ImageHome["editor_io"] = "Editor"
    BY DEF ImageHome
  <2>4. <<"editor", "editor_io", "COLOR">> \in UseTable
    BY DEF UseTable
  <2>5. input \in BOOLEAN /\ E = ScreenRenderComponent_add("Editor", "editor", "editor_io", input)
    OBVIOUS
  <2> HIDE DEF input, E
  <2>6. /\ Script(E, 7, 7) /\ ConnectsIn(Elements(E)) = {}
        /\ \A i, t : Image(i, t) \in Elements(E) => i = "editor_io"
    BY <2>1, <2>2, <2>3, <2>4, <2>5, ScreenScript
  <2>7. \A t : Image("screen_io", t) \notin Elements(E)
    BY <2>6
  <2> QED
    BY <2>6, <2>7 DEF Queues
<1>2. Queues(I, 7, 7, {})
  <2>1. Image("editor_in", "INPUT") \in PhaseCalls(7)
    <3>1. "editor_in" \in DOMAIN ImageHome /\ ImageHome["editor_in"] = "Editor"
      BY DEF ImageHome
    <3>2. CompPhase["Editor"] = 7
      BY DEF CompPhase
    <3> QED
      BY <3>1, <3>2, PhaseCall
  <2>2. UseImage("editor", "editor_in", "SAMPLED") \in PhaseCalls(7)
    <3>1. <<"editor", "editor_in", "SAMPLED">> \in UseTable
      BY DEF UseTable
    <3>2. PassPhase["editor"] = 7
      BY DEF PassPhase
    <3> QED
      BY <3>1, <3>2, PhaseCall
  <2>3. I \in Seq(PhaseCalls(7))
    BY <2>1, <2>2
  <2> HIDE DEF I
  <2>4. Script(I, 7, 7) /\ Plain(Elements(I))
    BY <2>3, PlainScript
  <2> QED
    BY <2>4, QueuesPlain
<1>3. Queues(K, 8, 8, {x})
  <2>1. LinkPhase["editor_in"] = 8
    BY DEF LinkPhase
  <2> QED
    BY <2>1, QueuesConnect
<1>4. Queues(P, 9, 9, {})
  BY PickScript, QueuesPlain
<1>5. flags # NoImage => Queues(L, 10, 10, {y})
  <2>1. LinkPhase["pick_in"] = 10
    BY DEF LinkPhase
  <2> QED
    BY <2>1, QueuesConnect
<1>6. /\ Follows(7, 7, 8, 8) /\ Follows(7, 7, 7, 8) /\ Follows(9, 9, 10, 10) /\ Follows(7, 8, 9, 10)
      /\ Follows(7, 8, 8, 10)
  BY DEF Follows
<1>7. <<Image("editor_in", "INPUT"), UseImage("editor", "editor_in", "SAMPLED"), Connect(last, "editor_in")>>
      = I \o K
  OBVIOUS
<1>8. s = (E \o (I \o K)) \o IF flags = NoImage THEN <<>> ELSE P \o L
  BY <1>7
<1> HIDE DEF E, I, K, P, L, x, y
<1>9. Queues(I \o K, 7, 8, {} \cup {x})
  BY <1>2, <1>3, <1>6, QueuesJoin
<1>10. Queues(E \o (I \o K), 7, 8, {} \cup ({} \cup {x}))
  BY <1>1, <1>6, <1>9, QueuesJoin
<1>11. CASE flags = NoImage
  <2>1. Queues(<<>>, 8, 10, {})
    BY QueuesNothing
  <2>2. Queues((E \o (I \o K)) \o <<>>, 7, 10, ({} \cup ({} \cup {x})) \cup {})
    BY <1>6, <1>10, <2>1, QueuesJoin
  <2>3. ({} \cup ({} \cup {x})) \cup {} = {x} \cup {}
    OBVIOUS
  <2>4. s = (E \o (I \o K)) \o <<>>
    BY <1>8, <1>11
  <2>5. Queues(s, 7, 10, {x} \cup {})
    BY <2>2, <2>3, <2>4
  <2> QED
    BY <1>11, <2>5 DEF x
<1>12. CASE flags # NoImage
  <2>1. Queues(P \o L, 9, 10, {} \cup {y})
    BY <1>4, <1>5, <1>6, <1>12, QueuesJoin
  <2>2. Queues((E \o (I \o K)) \o (P \o L), 7, 10, ({} \cup ({} \cup {x})) \cup ({} \cup {y}))
    BY <1>6, <1>10, <2>1, QueuesJoin
  <2>3. ({} \cup ({} \cup {x})) \cup ({} \cup {y}) = {x} \cup {y}
    OBVIOUS
  <2>4. s = (E \o (I \o K)) \o (P \o L)
    BY <1>8, <1>12
  <2>5. Queues(s, 7, 10, {x} \cup {y})
    BY <2>2, <2>3, <2>4
  <2> QED
    BY <1>12, <2>5 DEF x, y
<1> QED
  BY <1>11, <1>12

\* editor_pass keeps the frame in order, whatever was drawn before it.
LEMMA EditorPassStep ==
    ASSUME FrameInv, graphState # "trapped", editor_pass
    PROVE  FrameInv'
<1> DEFINE last == mLastColorAttachment
           flags == mLastIDFlagsAttachment
           x == <<last, "editor_in">>
           y == <<flags, "pick_in">>
<1>1. Turn("editor", 7, 10) /\ Turn("editor", 6, 10) /\ "editor" \notin called
  BY Turns DEF editor_pass, MayCall
<1>2. graphState = "CREATED" /\ todo = <<>> /\ called' = called \cup {"editor"} /\ \A n \in Int : n > 6 => ~Since(n)
  BY <1>1 DEF Turn
<1>3. UNCHANGED graphVars
  BY DEF editor_pass
<1>4. CASE Skipped
  BY <1>1, <1>3, <1>4, SkippedStep
<1>5. CASE ~Skipped
  <2>1. /\ last # NoImage
        /\ todo' = ScreenRenderComponent_add("Editor", "editor", "editor_io", FALSE) \o
                <<Image("editor_in", "INPUT"), UseImage("editor", "editor_in", "SAMPLED"),
                  Connect(last, "editor_in")>> \o
                IF flags = NoImage THEN <<>>
                ELSE ScreenPickComponent_add \o <<Connect(flags, "pick_in")>>
        /\ mLastColorAttachment' = "editor_io"
        /\ UNCHANGED mLastIDFlagsAttachment
    BY <1>5 DEF editor_pass
  <2>2. imageRefs' = imageRefs
    BY <1>3 DEF graphVars, declVars, linkVars
  <2>3. LinkInv /\ Links' = Links \cup ConnectsIn(Pending')
    BY <1>2, <2>2, LinksBefore
  <2>4. last \in {"color", "out_color", "screen_io"} /\ flags \in {NoImage, "id", "out_id"}
    BY <1>2, <2>1, <2>3 DEF LinkInv
  <2>5. x \in LinkTable /\ (flags # NoImage => y \in LinkTable)
    BY <2>4 DEF LinkTable
  <2> DEFINE new == {x} \cup IF flags = NoImage THEN {} ELSE {y}
  <2>6. Queues(todo', 7, 10, new)
    BY <2>1, <2>5, EditorScript
  <2>7. Links' = Links \cup new /\ new \subseteq LinkTable
    BY <2>3, <2>5, <2>6 DEF Queues, Pending
  <2>8. \A z \in new : z = x \/ (flags # NoImage /\ z = y)
    OBVIOUS
  <2> HIDE DEF new
  <2>9. LinkInv'
    <3>1. Links' \subseteq LinkTable
      BY <2>3, <2>7 DEF LinkInv
    <3>2. \A z \in Links : z[1] # last /\ z[1] # flags
      BY <1>1, <2>3 DEF LinkInv
    <3>3. \A z, v \in Links : z[1] = v[1] => z = v
      BY <2>3 DEF LinkInv
    <3>4. last # flags
      BY <2>1, <2>4
    <3>5. \A z, v \in Links' : z[1] = v[1] => z = v
      BY <2>7, <2>8, <3>2, <3>3, <3>4
    <3>6. \A z \in LinkTable : z[1] # "editor_io"
      BY DEF LinkTable
    <3>7. Since(7)'
      <4>1. "editor" \in Methods(7)
        BY DEF Methods
      <4> QED
        BY <1>2, <4>1 DEF Since
    <3>8. "editor" \in called'
      BY <1>2
    <3> QED
      BY <2>1, <2>4, <3>1, <3>5, <3>6, <3>7, <3>8 DEF LinkInv
  <2>10. Script(todo', 7, 10) /\ \A t : Image("screen_io", t) \notin Pending'
    BY <2>6 DEF Queues, Pending
  <2> QED
    BY <1>1, <1>3, <2>9, <2>10, MethodStep
<1> QED
  BY <1>4, <1>5

\* The dialog has a window of its own.
LEMMA DialogPassStep ==
    ASSUME FrameInv, graphState # "trapped", editor_dialog_pass
    PROVE  FrameInv'
<1> DEFINE E == ScreenRenderComponent_add("EditorDialog", "dialog", "dialog_io", FALSE)
           B == <<Blit("dialog_io", "dialog")>>
<1>1. Turn("dialog", 11, 11)
  BY Turns DEF editor_dialog_pass
<1>2. UNCHANGED <<graphVars, mLastColorAttachment, mLastIDFlagsAttachment>> /\ todo' = E \o B
  BY DEF editor_dialog_pass
<1>3. Queues(E, 11, 11, {})
  <2> DEFINE input == FALSE
  <2>1. "EditorDialog" \in DOMAIN CompPhase /\ CompPhase["EditorDialog"] = 11
    BY DEF CompPhase
  <2>2. "dialog" \in DOMAIN PassPhase /\ PassPhase["dialog"] = 11
    BY DEF PassPhase
  <2>3. "dialog_io" \in DOMAIN ImageHome /\ ImageHome["dialog_io"] = "EditorDialog"
    BY DEF ImageHome
  <2>4. <<"dialog", "dialog_io", "COLOR">> \in UseTable
    BY DEF UseTable
  <2>5. input \in BOOLEAN /\ E = ScreenRenderComponent_add("EditorDialog", "dialog", "dialog_io", input)
    OBVIOUS
  <2> HIDE DEF input, E
  <2>6. /\ Script(E, 11, 11) /\ ConnectsIn(Elements(E)) = {}
        /\ \A i, t : Image(i, t) \in Elements(E) => i = "dialog_io"
    BY <2>1, <2>2, <2>3, <2>4, <2>5, ScreenScript
  <2>7. \A t : Image("screen_io", t) \notin Elements(E)
    BY <2>6
  <2> QED
    BY <2>6, <2>7 DEF Queues
<1>4. Queues(B, 11, 11, {})
  <2>1. "dialog_io" \in DOMAIN ImageHome
    BY DEF ImageHome
  <2>2. Script(B, 11, 11) /\ Plain(Elements(B))
    BY <2>1, BlitScript
  <2> QED
    BY <2>2, QueuesPlain
<1>5. Follows(11, 11, 11, 11)
  BY DEF Follows
<1> HIDE DEF E, B
<1>6. Queues(E \o B, 11, 11, {} \cup {})
  BY <1>3, <1>4, <1>5, QueuesJoin
<1>7. Queues(todo', 11, 11, {})
  <2>1. {} \cup {} = {}
    OBVIOUS
  <2> QED
    BY <1>2, <1>6, <2>1
<1>8. LinkInv'
  <2>1. graphState = "CREATED" /\ todo = <<>> /\ called \subseteq called'
    BY <1>1 DEF Turn
  <2>2. imageRefs' = imageRefs
    BY <1>2 DEF graphVars, declVars, linkVars
  <2>3. ConnectsIn(Pending') = {}
    BY <1>7 DEF Queues, Pending
  <2> QED
    BY <1>2, <2>1, <2>2, <2>3, LinkSame
<1>9. Script(todo', 11, 11) /\ \A t : Image("screen_io", t) \notin Pending'
  BY <1>7 DEF Queues, Pending
<1> QED
  BY <1>1, <1>2, <1>8, <1>9, MethodStep

\* The last image goes to the root window.
LEMMA SubmitFrameStep ==
    ASSUME FrameInv, graphState # "trapped", submit_frame
    PROVE  FrameInv'
<1> DEFINE B == <<Blit(mLastColorAttachment, "root")>>
<1>1. Turn("submit", 12, 12)
  BY Turns DEF submit_frame
<1>2. /\ UNCHANGED <<graphVars, mLastColorAttachment, mLastIDFlagsAttachment>>
      /\ (todo' = B /\ mLastColorAttachment # NoImage) \/ todo' = <<>>
  BY DEF submit_frame
<1>3. Queues(todo', 12, 12, {})
  <2>1. CASE todo' = B /\ mLastColorAttachment # NoImage
    <3>1. mLastColorAttachment \in {"color", "out_color", "screen_io", "editor_io"}
      BY <2>1 DEF FrameInv, LinkInv
    <3>2. mLastColorAttachment \in DOMAIN ImageHome
      BY <3>1 DEF ImageHome
    <3>3. Script(B, 12, 12) /\ Plain(Elements(B))
      BY <3>2, BlitScript
    <3> QED
      BY <2>1, <3>3, QueuesPlain
  <2>2. CASE todo' = <<>>
    BY <2>2, QueuesNothing
  <2> QED
    BY <1>2, <2>1, <2>2
<1>4. LinkInv'
  <2>1. graphState = "CREATED" /\ todo = <<>> /\ called \subseteq called'
    BY <1>1 DEF Turn
  <2>2. imageRefs' = imageRefs
    BY <1>2 DEF graphVars, declVars, linkVars
  <2>3. ConnectsIn(Pending') = {}
    BY <1>3 DEF Queues, Pending
  <2> QED
    BY <1>2, <2>1, <2>2, <2>3, LinkSame
<1>5. Script(todo', 12, 12) /\ \A t : Image("screen_io", t) \notin Pending'
  BY <1>3 DEF Queues, Pending
<1> QED
  BY <1>1, <1>2, <1>4, <1>5, MethodStep

-----------------------------------------------------------------------------
(* The life of a frame                                                     *)

\* The mark of no image is not the name of one.
LEMMA NoImageFact == NoImage \notin {"screen_io", "editor_io"}
<1>1. {"screen_io", "editor_io"} \subseteq Images
  BY RenderSystemConstants DEF ImageHome
<1> QED
  BY <1>1, RenderSystemConstants

\* No frame has begun.
LEMMA FrameInit ==
    ASSUME RenderInit
    PROVE  FrameInv
<1>1. /\ todo = <<>> /\ called = {} /\ graphState = "none" /\ forward /\ recorded = <<>>
      /\ mLastColorAttachment = NoImage /\ mLastIDFlagsAttachment = NoImage
      /\ \A c \in Components : added[c] = 0
      /\ \A p \in Passes : declared[p] = 0
      /\ DOMAIN images = {} /\ DOMAIN imageRefs = {}
      /\ DOMAIN used = Passes /\ DOMAIN imageUsages = Passes /\ \A p \in Passes : DOMAIN used[p] = {}
  BY DEF RenderInit, GraphInit, Nothing
<1>2. Pending = {} /\ Links = {}
  BY <1>1 DEF Pending, Elements, Links, ConnectsIn
<1>3. TodoInv /\ DoneInv
  BY <1>1, <1>2 DEF TodoInv, DoneInv
<1>4. RankInv
  <2>1. IsFiniteSet(Components) /\ IsFiniteSet(Passes)
    BY RenderGraphConstants
  <2>2. added \in [Components -> Nat] /\ declared \in [Passes -> Nat]
    BY DEF RenderInit, GraphInit
  <2>3. Latest(added) \in Nat /\ Latest(declared) \in Nat
    BY <2>1, <2>2, LatestIsNat
  <2> QED
    BY <1>1, <2>3 DEF RankInv, Ranked
<1>5. UseInv /\ LinkInv
  BY <1>1, <1>2, NoImageFact DEF UseInv, LinkInv
<1>6. ScreenInv
  BY <1>1, <1>2 DEF ScreenInv
<1>7. "outline" \in Passes
  BY Tables DEF PassPhase
<1>8. EdgesInv
  BY <1>1, <1>7 DEF EdgesInv
<1>9. IdleInv /\ RecordInv
  BY <1>1 DEF IdleInv, RecordInv
<1> QED
  BY <1>1, <1>3, <1>4, <1>5, <1>6, <1>8, <1>9 DEF FrameInv

\* next_frame begins a frame without any part.
LEMMA NextFrameStep ==
    ASSUME FrameInv, GraphInv, NEW windows, NEW e, next_frame(windows, e)
    PROVE  FrameInv'
<1>1. /\ graphState = "none" /\ graphState' = "CREATED" /\ UNCHANGED <<declVars, lateVars, todo>>
      /\ called' = {} /\ mLastColorAttachment' = NoImage /\ mLastIDFlagsAttachment' = NoImage
  BY DEF next_frame, Create
<1>2. UNCHANGED <<added, declared, images, used, imageUsages, edges, imageRefs, forward, recorded>>
  BY <1>1 DEF declVars, passVars, linkVars, lateVars
<1>3. FrameInv /\ RankInv /\ UseInv /\ ScreenInv /\ EdgesInv /\ IdleInv /\ RecordInv /\ forward
  BY <1>1 DEF FrameInv
<1>4. /\ todo' = <<>> /\ \A c \in Components : added'[c] = 0
      /\ \A p \in Passes : declared'[p] = 0
      /\ DOMAIN imageRefs' = {}
  BY <1>1, <1>2, <1>3 DEF IdleInv
<1>5. Pending' = {} /\ Links' = {} /\ Pending = Pending'
  BY <1>1, <1>4 DEF Pending, Elements, Links, ConnectsIn
<1>6. TodoInv' /\ DoneInv' /\ LinkInv'
  BY <1>1, <1>4, <1>5, NoImageFact DEF TodoInv, DoneInv, LinkInv
<1>7. RankInv' /\ UseInv'
  BY <1>2, <1>3 DEF RankInv, Ranked, Latest, UseInv, Exists
<1>8. ScreenInv'
  BY <1>2, <1>3, <1>5 DEF ScreenInv
<1>9. EdgesInv'
  BY <1>2, <1>3 DEF EdgesInv, has_image_dependency
<1>10. IdleInv' /\ RecordInv'
  BY <1>1, <1>2, <1>3 DEF IdleInv, RecordInv
<1> QED
  BY <1>2, <1>3, <1>6, <1>7, <1>8, <1>9, <1>10 DEF FrameInv

\* The graph works on what was declared.
LEMMA SameFrame ==
    ASSUME FrameInv, graphState # "trapped", UNCHANGED <<declVars, todo, systemVars>>, graphState' # "none",
           RecordInv'
    PROVE  FrameInv'
<1>1. UNCHANGED <<added, declared, images, used, imageUsages, edges, imageRefs, forward, todo, called,
                  mLastColorAttachment, mLastIDFlagsAttachment>>
  BY DEF declVars, passVars, linkVars, systemVars
<1>2. TodoInv /\ DoneInv /\ RankInv /\ UseInv /\ LinkInv /\ ScreenInv /\ EdgesInv /\ forward
  BY DEF FrameInv
<1>3. Pending' = Pending /\ Links' = Links /\ (\A n : Since(n)' <=> Since(n)) /\ (\A n : Done(n)' <=> Done(n))
  <2>1. Pending' = Pending
    BY <1>1 DEF Pending
  <2> QED
    BY <1>1, <2>1 DEF Links, Since, Done
<1>4. TodoInv' /\ DoneInv'
  BY <1>1, <1>2, <1>3 DEF TodoInv, DoneInv
<1>5. RankInv' /\ UseInv'
  BY <1>1, <1>2 DEF RankInv, Ranked, Latest, UseInv, Exists
<1>6. LinkInv' /\ ScreenInv'
  BY <1>1, <1>2, <1>3 DEF LinkInv, ScreenInv
<1>7. EdgesInv'
  BY <1>1, <1>2 DEF EdgesInv, has_image_dependency
<1>8. IdleInv'
  BY DEF IdleInv
<1> QED
  BY <1>1, <1>2, <1>4, <1>5, <1>6, <1>7, <1>8 DEF FrameInv

\* In order, since they are recorded one by one in the order of the sort.
LEMMA RecordedStep ==
    ASSUME FrameInv, graphState # "trapped", GraphInv, GraphInv',
           SortStep \/ RecordPass \/ (\E windows : Submit(windows)) \/ UNCHANGED graphVars
    PROVE  UNCHANGED declVars /\ (graphState' # "trapped" => RecordInv')
<1>1. RecordInv /\ forward
  BY DEF FrameInv
<1>2. UNCHANGED declVars
  BY DEF SortStep, BeginSort, SortRoot, SortEdge, SortReturn, SortEnd, RecordPass, Submit, graphVars
<1>3. forward'
  BY <1>1, <1>2 DEF declVars, linkVars
<1>4. CASE UNCHANGED graphVars
  <2>1. UNCHANGED <<graphState, recorded, passOrder>>
    BY <1>4 DEF graphVars, sortVars
  <2> QED
    BY <1>1, <1>2, <2>1 DEF RecordInv
<1>5. CASE BeginSort \/ SortReturn \/ \E p \in Passes : SortRoot(p) \/ SortEdge(p)
  <2>1. graphState \in {"CREATED", "sorting"} /\ graphState' = "sorting" /\ recorded' = recorded
    BY <1>5 DEF BeginSort, SortReturn, SortRoot, SortEdge, lateVars
  <2> QED
    BY <1>1, <1>2, <2>1 DEF RecordInv
<1>6. CASE SortEnd
  <2>1. graphState = "sorting" /\ graphState' = "SORTED" /\ recorded' = recorded
    BY <1>6 DEF SortEnd
  <2>2. recorded' = <<>>
    BY <1>1, <2>1 DEF RecordInv
  <2>3. passOrder' \in Seq(Passes)
    BY <1>3, <2>1 DEF GraphInv, SortedInv
  <2>4. Len(passOrder') \in Nat /\ Len(recorded') = 0 /\ recorded' \in Seq(Passes)
    BY <2>2, <2>3
  <2>5. \A k \in 1..Len(recorded') : recorded'[k].pass = passOrder'[k]
    BY <2>4
  <2> QED
    BY <1>2, <2>1, <2>4, <2>5 DEF RecordInv
<1>7. CASE RecordPass
  <2> DEFINE n == Len(recorded)
  <2>1. PICK r : /\ recorded' = Append(recorded, r) /\ r.pass = passOrder[n + 1]
                 /\ graphState = "SORTED" /\ graphState' = "SORTED" /\ passOrder' = passOrder
                 /\ n < Len(passOrder)
    BY <1>7 DEF RecordPass, sortVars
  <2>2. PICK S : recorded \in Seq(S)
    BY <1>1, <2>1 DEF RecordInv
  <2>3. n \in Nat /\ \A k \in 1..n : recorded[k] \in S
    BY <2>2
  <2>4. recorded \in Seq(S \cup {r})
    BY <2>2
  <2>5. recorded' \in Seq(S \cup {r}) /\ Len(recorded') = n + 1
    BY <2>1, <2>4
  <2>6. \A k \in 1..n + 1 : recorded'[k] = IF k = n + 1 THEN r ELSE recorded[k]
    BY <2>1, <2>4
  <2>7. \A k \in 1..n : recorded[k].pass = passOrder[k]
    BY <1>1, <2>1 DEF RecordInv
  <2>8. \A k \in 1..n + 1 : k = n + 1 \/ k \in 1..n
    BY <2>3
  <2>9. \A k \in 1..Len(recorded') : recorded'[k].pass = passOrder'[k]
    BY <2>1, <2>3, <2>5, <2>6, <2>7, <2>8
  <2>10. passOrder \in Seq(Passes)
    BY <1>1, <2>1 DEF GraphInv, SortedInv
  <2>11. Len(recorded') <= Len(passOrder')
    BY <2>1, <2>3, <2>5, <2>10
  <2>12. RecordInv'
    BY <2>1, <2>5, <2>9, <2>11 DEF RecordInv
  <2> QED
    BY <1>2, <2>12
<1>8. CASE \E windows : Submit(windows)
  <2>1. /\ graphState = "SORTED" /\ graphState' \in {"submitted", "trapped"}
        /\ recorded' = recorded /\ passOrder' = passOrder
    BY <1>8 DEF Submit, sortVars
  <2> QED
    BY <1>1, <1>2, <2>1 DEF RecordInv
<1> QED
  BY <1>4, <1>5, <1>6, <1>7, <1>8 DEF SortStep

\* A destroyed graph has no parts, and no calls are left to make.
LEMMA DestroyFrameStep ==
    ASSUME FrameInv, DestroyGraph, todo = <<>>, UNCHANGED <<todo, systemVars>>
    PROVE  FrameInv'
<1>1. /\ todo' = <<>> /\ graphState = "submitted" /\ graphState' = "none" /\ forward' /\ recorded' = <<>>
      /\ UNCHANGED <<called, mLastColorAttachment, mLastIDFlagsAttachment>>
      /\ added' = [c \in Components |-> 0]
      /\ declared' = [p \in Passes |-> 0]
      /\ DOMAIN images' = {} /\ DOMAIN imageRefs' = {}
      /\ DOMAIN used' = Passes /\ DOMAIN imageUsages' = Passes /\ \A p \in Passes : DOMAIN used'[p] = {}
  BY DEF DestroyGraph, Nothing, systemVars
<1>2. Pending' = {} /\ Links' = {}
  BY <1>1 DEF Pending, Elements, Links, ConnectsIn
<1>3. TodoInv' /\ DoneInv'
  BY <1>1, <1>2 DEF TodoInv, DoneInv
<1>4. RankInv'
  <2>1. IsFiniteSet(Components) /\ IsFiniteSet(Passes)
    BY RenderGraphConstants
  <2>2. added' \in [Components -> Nat] /\ declared' \in [Passes -> Nat]
    BY <1>1
  <2>3. Latest(added') \in Nat /\ Latest(declared') \in Nat
    BY <2>1, <2>2, LatestIsNat
  <2>4. Ranked(Components, added', CompPhase) /\ Ranked(Passes, declared', PassPhase)
    BY <1>1, <2>3 DEF Ranked
  <2> QED
    BY <2>4 DEF RankInv, Ranked, Latest
<1>5. UseInv'
  BY <1>1 DEF UseInv
<1>6. LinkInv'
  <2>1. LinkInv
    BY <1>1 DEF FrameInv
  <2>2. \A n : Since(n)' <=> Since(n)
    BY <1>1 DEF Since
  <2> QED
    BY <1>1, <1>2, <2>1, <2>2 DEF LinkInv
<1>7. ScreenInv'
  BY <1>1, <1>2 DEF ScreenInv
<1>8. "outline" \in Passes
  BY Tables DEF PassPhase
<1>9. EdgesInv'
  BY <1>1, <1>8 DEF EdgesInv
<1>10. IdleInv' /\ RecordInv'
  BY <1>1 DEF IdleInv, RecordInv
<1> QED
  BY <1>1, <1>3, <1>4, <1>5, <1>6, <1>7, <1>9, <1>10 DEF FrameInv

\* Every step of a frame is a step of the graph, or leaves the graph alone.
LEMMA GraphStep ==
    ASSUME GraphInv, [RenderNext]_renderVars, FrameInv
    PROVE  GraphInv'
<1>1. CASE Step
  <2>1. graphState = "CREATED" /\ Perform(Head(todo)) /\ TodoInv /\ todo # <<>> /\ todo' = Tail(todo) /\ UNCHANGED called
    <3>1. graphState = "CREATED" /\ Perform(Head(todo))
      BY <1>1 DEF Step, Perform, AddComponent, AddImage, AddPass, Use, connect_image, connect_swapchain_image
    <3> QED
      BY <1>1, <3>1 DEF FrameInv, Step, systemVars
  <2> DEFINE c == Head(todo)
  <2>2. c \in Calls
    BY <2>1, TodoStep
  <2> HIDE DEF c
  <2>3. /\ c.call = "component" => c.c \in Components
        /\ c.call = "pass" => c.p \in Passes
        /\ c.call = "use" => c.p \in Passes
    <3>1. c.call = "use" => <<c.p, c.i, c.u>> \in UseTable
      BY <2>2, CallFacts
    <3>2. <<c.p, c.i, c.u>>[1] = c.p
      OBVIOUS
    <3>3. c.call = "use" => c.p \in Passes
      BY <3>1, <3>2, UseTableFacts
    <3> QED
      BY <2>2, <3>3, CallFacts
  <2>4. \/ c.call = "component" /\ AddComponent(c.c)
        \/ c.call = "image" /\ AddImage(c.i, c.type, extent)
        \/ c.call = "pass" /\ AddPass(c.p)
        \/ c.call = "use" /\ Use(c.p, c.i, c.u)
        \/ c.call = "connect" /\ connect_image(c.src, c.dst)
        \/ c.call = "blit" /\ connect_swapchain_image(c.src, c.w)
    BY <2>1 DEF Perform, c
  <2>5. CASE c.call = "component" /\ AddComponent(c.c)
    BY <2>3, <2>5, AddComponentStep
  <2>6. CASE c.call = "pass" /\ AddPass(c.p)
    BY <2>3, <2>6, AddPassStep
  <2>7. CASE c.call = "use" /\ Use(c.p, c.i, c.u)
    BY <2>3, <2>7, UseStep
  <2>8. CASE c.call = "connect" /\ connect_image(c.src, c.dst)
    BY <2>8, ConnectStep
  <2>9. CASE c.call = "image" /\ AddImage(c.i, c.type, extent)
    BY <2>9, OtherDeclarations
  <2>10. CASE c.call = "blit" /\ connect_swapchain_image(c.src, c.w)
    BY <2>10, OtherDeclarations
  <2> QED
    BY <2>4, <2>5, <2>6, <2>7, <2>8, <2>9, <2>10
<1>2. CASE InGraph
  <2>1. SortStep \/ RecordPass \/ Submit(acquired) \/ DestroyGraph
    BY <1>2 DEF InGraph
  <2>2. CASE SortStep
    BY <2>2, BeginStep, RootStep, EdgeStep, ReturnStep, EndStep DEF SortStep
  <2>3. CASE RecordPass \/ Submit(acquired)
    BY <2>3, AfterSort
  <2>4. CASE DestroyGraph
    BY <2>4, DestroyStep
  <2> QED
    BY <2>1, <2>2, <2>3, <2>4
<1>3. CASE \E windows \in SUBSET {"root", "dialog"}, e \in Extents : next_frame(windows, e)
  <2>1. Create
    BY <1>3 DEF next_frame
  <2> QED
    BY <2>1, OtherDeclarations
<1>4. CASE UNCHANGED graphVars
  BY <1>4, AfterSort
<1>5. (\E overlay \in BOOLEAN : world_pass(overlay)) \/ screen_pass \/ editor_pass \/ editor_dialog_pass
      \/ submit_frame \/ UNCHANGED renderVars => UNCHANGED graphVars
  BY DEF world_pass, screen_pass, editor_pass, editor_dialog_pass, submit_frame, renderVars
<1> QED
  BY <1>1, <1>2, <1>3, <1>4, <1>5 DEF RenderNext

\* The invariant of the frame is inductive while nothing traps.
LEMMA FrameNext ==
    ASSUME GraphInv, GraphInv', FrameInv, graphState # "trapped", [RenderNext]_renderVars, graphState' # "trapped"
    PROVE  FrameInv'
<1>1. CASE Step
  BY <1>1, FrameStep
<1>2. CASE InGraph
  <2>1. todo = <<>> /\ UNCHANGED <<todo, systemVars>> /\ (SortStep \/ RecordPass \/ Submit(acquired) \/ DestroyGraph)
    BY <1>2 DEF InGraph
  <2>2. CASE SortStep \/ RecordPass \/ Submit(acquired)
    <3>1. UNCHANGED declVars /\ RecordInv'
      BY <2>2, RecordedStep
    <3>2. graphState' # "none"
      BY <2>2 DEF SortStep, BeginSort, SortRoot, SortEdge, SortReturn, SortEnd, RecordPass, Submit
    <3> QED
      BY <2>1, <3>1, <3>2, SameFrame
  <2>3. CASE DestroyGraph
    BY <2>1, <2>3, DestroyFrameStep
  <2> QED
    BY <2>1, <2>2, <2>3
<1>3. CASE \E windows \in SUBSET {"root", "dialog"}, e \in Extents : next_frame(windows, e)
  BY <1>3, NextFrameStep
<1>4. CASE (\E overlay \in BOOLEAN : world_pass(overlay)) \/ screen_pass \/ editor_pass \/ editor_dialog_pass
           \/ submit_frame
  BY <1>4, WorldStep, ScreenPassStep, EditorPassStep, DialogPassStep, SubmitFrameStep
<1>5. CASE UNCHANGED renderVars
  <2>1. UNCHANGED <<graphVars, todo, systemVars>>
    BY <1>5 DEF renderVars
  <2>2. CASE graphState # "none"
    <3>1. UNCHANGED declVars /\ RecordInv' /\ graphState' # "none"
      BY <2>1, <2>2, RecordedStep DEF graphVars
    <3> QED
      BY <2>1, <3>1, SameFrame
  <2>3. CASE graphState = "none"
    <3>1. UNCHANGED <<graphState, added, declared, images, used, imageUsages, edges, imageRefs, forward,
                      todo, called, mLastColorAttachment, mLastIDFlagsAttachment, passOrder, recorded>>
      BY <2>1 DEF graphVars, declVars, passVars, linkVars, sortVars, systemVars
    <3>2. FrameInv'
      BY <3>1 DEF FrameInv, TodoInv, DoneInv, RankInv, Ranked, Latest, UseInv, LinkInv, ScreenInv, EdgesInv,
                  IdleInv, RecordInv, Pending, Links, Since, Done, Exists, has_image_dependency
    <3> QED
      BY <3>2
  <2> QED
    BY <2>2, <2>3
<1> QED
  BY <1>1, <1>2, <1>3, <1>4, <1>5 DEF RenderNext

-----------------------------------------------------------------------------
(* The images                                                              *)

\* One reference, if there is one.
Ref(i) == IF i \in DOMAIN imageRefs THEN imageRefs[i] ELSE i

\* The references of a frame: no image is referred to twice, and a chain of them
\* has two at most.
LEMMA References ==
    ASSUME LinkInv
    PROVE  /\ \A i \in DOMAIN imageRefs : <<imageRefs[i], i>> \in LinkTable
           /\ \A i, j \in DOMAIN imageRefs : imageRefs[i] = imageRefs[j] => i = j
           /\ \A i \in Images : Ref(i) \in Images
           /\ \A i \in DOMAIN imageRefs : imageRefs[i] \in DOMAIN imageRefs =>
                 imageRefs[i] = "screen_io" /\ i = "editor_in"
           /\ \A i : Ref(Ref(Ref(i))) = Ref(Ref(i))
<1>1. \A i \in DOMAIN imageRefs : <<imageRefs[i], i>> \in Links
  BY DEF Links
<1>2. ASSUME NEW i \in DOMAIN imageRefs
      PROVE  <<imageRefs[i], i>> \in LinkTable /\ imageRefs[i] \in Images /\ i \in Images
  <2>1. <<imageRefs[i], i>> \in LinkTable
    BY <1>1 DEF LinkInv
  <2>2. <<imageRefs[i], i>>[1] = imageRefs[i] /\ <<imageRefs[i], i>>[2] = i
    OBVIOUS
  <2> QED
    BY <2>1, <2>2, LinkTableFacts
<1>3. ASSUME NEW i \in DOMAIN imageRefs, NEW j \in DOMAIN imageRefs, imageRefs[i] = imageRefs[j]
      PROVE  i = j
  <2> DEFINE x == <<imageRefs[i], i>>
             y == <<imageRefs[j], j>>
  <2>1. x \in Links /\ y \in Links /\ x[1] = y[1]
    BY <1>1, <1>3
  <2>2. x = y
    BY <2>1 DEF LinkInv
  <2> QED
    BY <2>2
<1>4. \A i \in Images : Ref(i) \in Images
  BY <1>2 DEF Ref
<1>5. \A x, y \in LinkTable : x[1] = y[2] => y[2] = "screen_io" /\ x[2] = "editor_in"
  BY DEF LinkTable
<1>6. ASSUME NEW i \in DOMAIN imageRefs, imageRefs[i] \in DOMAIN imageRefs
      PROVE  imageRefs[i] = "screen_io" /\ i = "editor_in"
  <2> DEFINE x == <<imageRefs[i], i>>
             y == <<imageRefs[imageRefs[i]], imageRefs[i]>>
  <2>1. x \in LinkTable /\ y \in LinkTable /\ x[1] = y[2] /\ x[2] = i /\ y[2] = imageRefs[i]
    BY <1>2, <1>6
  <2> QED
    BY <1>5, <2>1
<1>7. \A i : Ref(Ref(Ref(i))) = Ref(Ref(i))
  <2> SUFFICES ASSUME NEW i, Ref(Ref(i)) \in DOMAIN imageRefs PROVE FALSE
    BY DEF Ref
  <2>1. CASE i \in DOMAIN imageRefs
    <3>1. Ref(i) = imageRefs[i]
      BY <2>1 DEF Ref
    <3>2. CASE imageRefs[i] \in DOMAIN imageRefs
      <4>1. imageRefs[i] = "screen_io" /\ Ref(Ref(i)) = imageRefs["screen_io"] /\ "screen_io" \in DOMAIN imageRefs
        BY <1>6, <2>1, <3>1, <3>2 DEF Ref
      <4>2. "screen_io" = "editor_in"
        BY <1>6, <4>1
      <4> QED
        BY <4>2
    <3>3. CASE imageRefs[i] \notin DOMAIN imageRefs
      BY <3>1, <3>3 DEF Ref
    <3> QED
      BY <3>2, <3>3
  <2>2. CASE i \notin DOMAIN imageRefs
    BY <2>2 DEF Ref
  <2> QED
    BY <2>1, <2>2
<1> QED
  BY <1>2, <1>3, <1>4, <1>6, <1>7

\* So the image behind an image is at most two references away.
LEMMA Dereferenced ==
    ASSUME LinkInv, NEW i \in Images
    PROVE  dereference(i) = Ref(Ref(i))
<1> DEFINE E(f) == f = [k \in Images |-> IF k \in DOMAIN imageRefs THEN f[imageRefs[k]] ELSE k]
           g == [k \in Images |-> Ref(Ref(k))]
           h == CHOOSE f : E(f)
<1>1. E(g)
  <2>1. ASSUME NEW k \in Images
        PROVE  Ref(Ref(k)) = IF k \in DOMAIN imageRefs THEN g[imageRefs[k]] ELSE k
    <3>1. CASE k \in DOMAIN imageRefs
      <4>1. Ref(k) = imageRefs[k] /\ imageRefs[k] \in Images
        BY <3>1, References DEF Ref
      <4>2. g[imageRefs[k]] = Ref(Ref(Ref(k)))
        BY <4>1
      <4> QED
        BY <3>1, <4>2, References
    <3>2. CASE k \notin DOMAIN imageRefs
      BY <3>2 DEF Ref
    <3> QED
      BY <3>1, <3>2
  <2> QED
    BY <2>1
<1>2. E(h)
  <2> HIDE DEF E, g
  <2> QED
    BY <1>1
<1>3. \A k \in Images : h[k] = IF k \in DOMAIN imageRefs THEN h[imageRefs[k]] ELSE k
  <2> HIDE DEF h
  <2> QED
    BY <1>2
<1>4. dereference(i) = h[i]
  BY DEF dereference
<1> HIDE DEF h
<1>5. \A k \in Images : h[k] = h[Ref(k)] /\ (Ref(k) = k => h[k] = k)
  <2> SUFFICES ASSUME NEW k \in Images PROVE h[k] = h[Ref(k)] /\ (Ref(k) = k => h[k] = k)
    OBVIOUS
  <2>1. CASE k \in DOMAIN imageRefs
    <3>1. imageRefs[k] # k
      <4>1. <<imageRefs[k], k>> \in LinkTable
        BY <2>1, References
      <4>2. \A x \in LinkTable : x[1] # x[2]
        BY DEF LinkTable
      <4>3. <<imageRefs[k], k>>[1] = imageRefs[k] /\ <<imageRefs[k], k>>[2] = k
        OBVIOUS
      <4> QED
        BY <4>1, <4>2, <4>3
    <3> QED
      BY <1>3, <2>1, <3>1 DEF Ref
  <2>2. CASE k \notin DOMAIN imageRefs
    BY <1>3, <2>2 DEF Ref
  <2> QED
    BY <2>1, <2>2
<1>6. Ref(i) \in Images /\ Ref(Ref(i)) \in Images /\ Ref(Ref(Ref(i))) = Ref(Ref(i))
  BY References
<1>7. h[i] = h[Ref(Ref(i))] /\ h[Ref(Ref(i))] = Ref(Ref(i))
  BY <1>5, <1>6
<1> QED
  BY <1>4, <1>7

\* Two images with one image behind them: a chain of references.
Linked(i, j) == j \in DOMAIN imageRefs /\ imageRefs[j] = i
LinkedTwice(i, j) == Linked(i, "screen_io") /\ Linked("screen_io", j) /\ j = "editor_in"

\* Two names of one image are equal, connected or connected through the image of the screen.
LEMMA OneImage ==
    ASSUME LinkInv, NEW i \in Images, NEW j \in Images, dereference(i) = dereference(j)
    PROVE  i = j \/ Linked(i, j) \/ Linked(j, i) \/ LinkedTwice(i, j) \/ LinkedTwice(j, i)
<1>1. Ref(Ref(i)) = Ref(Ref(j))
  BY Dereferenced
<1>2. /\ \A k, l \in DOMAIN imageRefs : imageRefs[k] = imageRefs[l] => k = l
      /\ \A k \in DOMAIN imageRefs : imageRefs[k] \in DOMAIN imageRefs =>
                 imageRefs[k] = "screen_io" /\ k = "editor_in"
  BY References
<1>3. ASSUME NEW k, NEW l, Ref(Ref(k)) = Ref(Ref(l)), Ref(k) = k
      PROVE  k = l \/ Linked(k, l) \/ LinkedTwice(k, l)
  <2>1. Ref(Ref(l)) = k
    BY <1>3
  <2>2. CASE l \notin DOMAIN imageRefs
    BY <2>1, <2>2 DEF Ref
  <2>3. CASE l \in DOMAIN imageRefs /\ imageRefs[l] \notin DOMAIN imageRefs
    BY <2>1, <2>3 DEF Ref, Linked
  <2>4. CASE l \in DOMAIN imageRefs /\ imageRefs[l] \in DOMAIN imageRefs
    BY <1>2, <2>1, <2>4 DEF Ref, Linked, LinkedTwice
  <2> QED
    BY <2>2, <2>3, <2>4
<1>4. ASSUME i \in DOMAIN imageRefs, j \in DOMAIN imageRefs
      PROVE  i = j \/ Linked(i, j) \/ Linked(j, i)
  <2>1. Ref(i) = imageRefs[i] /\ Ref(j) = imageRefs[j]
    BY <1>4 DEF Ref
  <2>2. CASE imageRefs[i] \in DOMAIN imageRefs /\ imageRefs[j] \in DOMAIN imageRefs
    BY <1>2, <1>4, <2>2
  <2>3. CASE imageRefs[i] \notin DOMAIN imageRefs /\ imageRefs[j] \notin DOMAIN imageRefs
    BY <1>1, <1>2, <1>4, <2>1, <2>3 DEF Ref
  <2>4. CASE imageRefs[i] \in DOMAIN imageRefs /\ imageRefs[j] \notin DOMAIN imageRefs
    <3>1. imageRefs[imageRefs[i]] = imageRefs[j]
      BY <1>1, <2>1, <2>4 DEF Ref
    <3>2. imageRefs[i] = j
      BY <1>2, <1>4, <2>4, <3>1
    <3> QED
      BY <1>4, <3>2 DEF Linked
  <2>5. CASE imageRefs[i] \notin DOMAIN imageRefs /\ imageRefs[j] \in DOMAIN imageRefs
    <3>1. imageRefs[imageRefs[j]] = imageRefs[i]
      BY <1>1, <2>1, <2>5 DEF Ref
    <3>2. imageRefs[j] = i
      BY <1>2, <1>4, <2>5, <3>1
    <3> QED
      BY <1>4, <3>2 DEF Linked
  <2> QED
    BY <2>2, <2>3, <2>4, <2>5
<1>5. CASE i \notin DOMAIN imageRefs
  <2>1. Ref(i) = i
    BY <1>5 DEF Ref
  <2> QED
    BY <1>1, <1>3, <2>1
<1>6. CASE j \notin DOMAIN imageRefs
  <2>1. Ref(j) = j
    BY <1>6 DEF Ref
  <2> QED
    BY <1>1, <1>3, <2>1
<1> QED
  BY <1>4, <1>5, <1>6
-----------------------------------------------------------------------------
(* The order                                                               *)

\* Who uses one end of a connection of the table comes before who uses the other, and
\* one of the two writes.
LEMMA LinkUses ==
    ASSUME NEW x \in LinkTable, NEW y \in UseTable, NEW z \in UseTable, y[2] = x[1], z[2] = x[2]
    PROVE  PassPhase[y[1]] < PassPhase[z[1]] /\ has_image_dependency(y[3], z[3])
<1>1. y[3] = "COLOR"
  BY DEF LinkTable, UseTable
<1>2. z[3] \in {"COLOR", "SAMPLED", "STORAGE"}
  BY DEF LinkTable, UseTable
<1>3. \/ x[2] \in {"in_color", "in_id"} /\ x[1] \in {"color", "id"}
      \/ x[2] = "screen_io" /\ x[1] \in {"color", "out_color"}
      \/ x[2] = "editor_in" /\ x[1] \in {"color", "out_color", "screen_io"}
      \/ x[2] = "pick_in" /\ x[1] \in {"id", "out_id"}
  BY DEF LinkTable
<1>4. \A v \in UseTable :
         /\ v[2] \in {"color", "id"} => PassPhase[v[1]] = 1
         /\ v[2] \in {"in_color", "in_id"} => PassPhase[v[1]] \in {2, 3}
         /\ v[2] \in {"out_color", "out_id"} => PassPhase[v[1]] = 3
         /\ v[2] = "screen_io" => PassPhase[v[1]] = 5
         /\ v[2] = "editor_in" => PassPhase[v[1]] = 7
         /\ v[2] = "pick_in" => PassPhase[v[1]] = 9
  BY DEF UseTable, PassPhase
<1>5. PassPhase[y[1]] < PassPhase[z[1]]
  BY <1>3, <1>4
<1>6. has_image_dependency(y[3], z[3])
  BY <1>1, <1>2 DEF has_image_dependency
<1> QED
  BY <1>5, <1>6

\* Two passes that use linked images are in order.
LEMMA LinkedOrder ==
    ASSUME FrameInv, graphState # "trapped", NEW p \in Passes, NEW q \in Passes,
           NEW i \in DOMAIN used[p], NEW j \in DOMAIN used[q], Linked(i, j)
    PROVE  declared[p] < declared[q] /\ <<p, q>> \in edges
<1>1. UseInv /\ LinkInv /\ RankInv /\ EdgesInv
  BY DEF FrameInv
<1> DEFINE x == <<i, j>>
           y == <<p, i, used[p][i]>>
           z == <<q, j, used[q][j]>>
<1>2. y \in UseTable /\ z \in UseTable /\ Exists(p) /\ Exists(q)
  BY <1>1 DEF UseInv
<1>3. x \in LinkTable
  BY <1>1, References DEF Linked
<1>4. /\ y[2] = x[1] /\ z[2] = x[2] /\ y[1] = p /\ z[1] = q
      /\ y[3] = used[p][i] /\ z[3] = used[q][j]
  OBVIOUS
<1> HIDE DEF x, y, z
<1>5. PassPhase[y[1]] < PassPhase[z[1]] /\ has_image_dependency(y[3], z[3])
  BY <1>2, <1>3, <1>4, LinkUses
<1>6. PassPhase[p] < PassPhase[q] /\ has_image_dependency(used[p][i], used[q][j])
  BY <1>4, <1>5
<1>7. declared[p] < declared[q]
  BY <1>1, <1>2, <1>6 DEF RankInv, Ranked, Exists
<1>8. <<p, q>> \in edges
  BY <1>1, <1>6 DEF EdgesInv, Linked
<1> QED
  BY <1>7, <1>8

\* Passes that share an image through the image of the screen have the pass of the
\* screen between them.
LEMMA LinkedTwiceOrder ==
    ASSUME FrameInv, graphState # "trapped", NEW p \in Passes, NEW q \in Passes,
           NEW i \in DOMAIN used[p], NEW j \in DOMAIN used[q], LinkedTwice(i, j),
           GraphInv
    PROVE  /\ declared[p] < declared[q]
           /\ \E r \in Passes : <<p, r>> \in edges /\ <<r, q>> \in edges
<1>1. Linked(i, "screen_io") /\ Linked("screen_io", j)
  BY DEF LinkedTwice
<1>2. "screen" \in Passes /\ "screen_io" \in DOMAIN used["screen"]
  <2>1. "screen" \in Passes
    BY Tables DEF PassPhase
  <2> QED
    BY <1>1, <2>1 DEF FrameInv, EdgesInv, Linked
<1>3. declared[p] < declared["screen"] /\ <<p, "screen">> \in edges
  BY <1>1, <1>2, LinkedOrder
<1>4. declared["screen"] < declared[q] /\ <<"screen", q>> \in edges
  BY <1>1, <1>2, LinkedOrder
<1>5. declared[p] \in Nat /\ declared[q] \in Nat /\ declared["screen"] \in Nat
  BY <1>2 DEF GraphInv, TypeInv
<1> QED
  BY <1>2, <1>3, <1>4, <1>5

\* Passes that conflict are ordered by one edge, or by two.
LEMMA ConflictOrder ==
    ASSUME FrameInv, GraphInv, graphState # "trapped", NEW p \in Passes, NEW q \in Passes,
           declared[p] < declared[q], Conflict(p, q)
    PROVE  <<p, q>> \in edges \/ \E r \in Passes : <<p, r>> \in edges /\ <<r, q>> \in edges
<1>1. UseInv /\ LinkInv /\ RankInv /\ EdgesInv
  BY DEF FrameInv
<1>2. PICK i \in DOMAIN used[p], j \in DOMAIN used[q] :
         /\ dereference(i) = dereference(j)
         /\ ~(used[p][i] \in Reads /\ used[q][j] \in Reads)
  <2>1. PICK s \in UsesOf(p), t \in UsesOf(q) : s[1] = t[1] /\ ~(s[2] \in Reads /\ t[2] \in Reads)
    BY DEF Conflict
  <2>2. PICK i \in DOMAIN used[p] : s = <<dereference(i), used[p][i]>>
    BY <2>1 DEF UsesOf
  <2>3. PICK j \in DOMAIN used[q] : t = <<dereference(j), used[q][j]>>
    BY <2>1 DEF UsesOf
  <2>4. dereference(i) = dereference(j) /\ ~(used[p][i] \in Reads /\ used[q][j] \in Reads)
    BY <2>1, <2>2, <2>3
  <2> QED
    BY <2>4
<1> DEFINE y == <<p, i, used[p][i]>>
           z == <<q, j, used[q][j]>>
<1>3. y \in UseTable /\ z \in UseTable /\ Exists(p) /\ Exists(q)
  BY <1>1 DEF UseInv
<1>4. y[1] = p /\ y[2] = i /\ y[3] = used[p][i] /\ z[1] = q /\ z[2] = j /\ z[3] = used[q][j]
  OBVIOUS
<1> HIDE DEF y, z
<1>5. i \in Images /\ j \in Images
  BY <1>3, <1>4, UseTableFacts
<1>6. i = j \/ Linked(i, j) \/ Linked(j, i) \/ LinkedTwice(i, j) \/ LinkedTwice(j, i)
  BY <1>1, <1>2, <1>5, OneImage
<1>7. declared[p] \in Nat /\ declared[q] \in Nat
  BY DEF GraphInv, TypeInv
<1>8. CASE i = j
  <2>1. \A u, v \in UseTable : u[2] = v[2] /\ u[1] # v[1] /\ ~(u[3] \in Reads /\ v[3] \in Reads) =>
           /\ u[2] = "in_color"
           /\ (u[1] = "outline" /\ v[1] = "gizmo") \/ (u[1] = "gizmo" /\ v[1] = "outline")
    BY DEF UseTable, Reads
  <2>2. p # q
    BY <1>7
  <2>3. i = "in_color" /\ ((p = "outline" /\ q = "gizmo") \/ (p = "gizmo" /\ q = "outline"))
    BY <1>2, <1>3, <1>4, <1>8, <2>1, <2>2
  <2>4. PassPhase["outline"] < PassPhase["gizmo"]
    BY DEF PassPhase
  <2>5. ~(p = "gizmo" /\ q = "outline")
    BY <1>1, <1>3, <1>7, <2>4 DEF RankInv, Ranked, Exists
  <2>6. p = "outline" /\ q = "gizmo"
    BY <2>3, <2>5
  <2> QED
    BY <1>1, <1>8, <2>3, <2>6 DEF EdgesInv
<1>9. CASE Linked(i, j)
  BY <1>9, LinkedOrder
<1>10. CASE Linked(j, i)
  <2>1. declared[q] < declared[p]
    BY <1>10, LinkedOrder
  <2> QED
    BY <1>7, <2>1
<1>11. CASE LinkedTwice(i, j)
  BY <1>11, LinkedTwiceOrder
<1>12. CASE LinkedTwice(j, i)
  <2>1. declared[q] < declared[p]
    BY <1>12, LinkedTwiceOrder
  <2> QED
    BY <1>7, <2>1
<1> QED
  BY <1>6, <1>8, <1>9, <1>10, <1>11, <1>12

\* What is recorded follows the order of the sort.
LEMMA OrderDrawn ==
    ASSUME FrameInv, GraphInv, graphState # "trapped"
    PROVE  DrawnInOrder
<1> SUFFICES ASSUME NEW p \in Passes, NEW q \in Passes, declared[p] < declared[q], Conflict(p, q),
                    NEW m \in Drawn(p), NEW n \in Drawn(q)
             PROVE  m < n
  BY DEF DrawnInOrder
<1>1. RecordInv /\ forward
  BY DEF FrameInv
<1>2. m \in 1..Len(recorded) /\ recorded[m].pass = p /\ n \in 1..Len(recorded) /\ recorded[n].pass = q
  BY DEF Drawn
<1>3. graphState \in {"SORTED", "submitted"}
  <2> SUFFICES ASSUME graphState \notin {"SORTED", "submitted"} PROVE FALSE
    OBVIOUS
  <2>1. recorded = <<>>
    BY <1>1 DEF RecordInv
  <2> QED
    BY <1>2, <2>1
<1>4. /\ passOrder \in Seq(Passes)
      /\ \A j, k \in 1..Len(passOrder) : passOrder[j] = passOrder[k] => j = k
      /\ \A k \in 1..Len(passOrder) : \A r \in Targets(passOrder[k]) :
            \E j \in 1..Len(passOrder) : k < j /\ passOrder[j] = r
  BY <1>1, <1>3 DEF GraphInv, SortedInv
<1> DEFINE size == Len(passOrder)
<1>5. size \in Nat /\ m \in 1..size /\ n \in 1..size /\ passOrder[m] = p /\ passOrder[n] = q
  <2>1. /\ Len(recorded) <= size /\ Len(recorded) \in Nat /\ size \in Nat
        /\ \A k \in 1..Len(recorded) : recorded[k].pass = passOrder[k]
    BY <1>1, <1>3, <1>4 DEF RecordInv
  <2> QED
    BY <1>2, <2>1
<1>6. \A a, b \in Passes : <<a, b>> \in edges => b \in Targets(a)
  BY DEF Targets
<1>7. ASSUME NEW k \in 1..size, NEW b \in Passes, <<passOrder[k], b>> \in edges
      PROVE  \E j \in 1..size : k < j /\ passOrder[j] = b
  <2>1. passOrder[k] \in Passes
    BY <1>4
  <2> QED
    BY <1>4, <1>6, <1>7, <2>1
<1>8. CASE <<p, q>> \in edges
  <2>1. PICK j \in 1..size : m < j /\ passOrder[j] = q
    BY <1>5, <1>7, <1>8
  <2>2. j = n
    BY <1>4, <1>5, <2>1
  <2> QED
    BY <2>1, <2>2
<1>9. CASE \E r \in Passes : <<p, r>> \in edges /\ <<r, q>> \in edges
  <2>1. PICK r \in Passes : <<p, r>> \in edges /\ <<r, q>> \in edges
    BY <1>9
  <2>2. PICK l \in 1..size : m < l /\ passOrder[l] = r
    BY <1>5, <1>7, <2>1
  <2>3. PICK j \in 1..size : l < j /\ passOrder[j] = q
    BY <1>7, <2>1, <2>2
  <2>4. j = n
    BY <1>4, <1>5, <2>3
  <2> QED
    BY <1>5, <2>2, <2>3, <2>4
<1> QED
  BY <1>8, <1>9, ConflictOrder

\* A frame that traps has recorded nothing, or has recorded everything in order.
LEMMA TrapKeepsOrder ==
    ASSUME FrameInv, GraphInv, DrawnInOrder, [RenderNext]_renderVars, graphState' = "trapped"
    PROVE  DrawnInOrder'
<1>1. CASE graphState = "trapped"
  <2>1. UNCHANGED graphVars
    <3>1. ~SortStep /\ ~RecordPass /\ ~DestroyGraph /\ \A w : ~Submit(w)
      BY <1>1 DEF SortStep, BeginSort, SortRoot, SortEdge, SortReturn, SortEnd, RecordPass, DestroyGraph, Submit
    <3>2. ~Step
      BY <1>1 DEF Step, Perform, AddComponent, AddImage, AddPass, Use, connect_image, connect_swapchain_image
    <3>3. \A w, e : ~next_frame(w, e)
      BY <1>1 DEF next_frame, Create
    <3>4. ~InGraph
      BY <3>1 DEF InGraph
    <3> QED
      BY <3>2, <3>3, <3>4
         DEF RenderNext, world_pass, screen_pass, editor_pass, editor_dialog_pass, submit_frame, renderVars
  <2>2. UNCHANGED <<recorded, declared, used, imageRefs>>
    BY <2>1 DEF graphVars, declVars, passVars, linkVars
  <2> QED
    BY <2>2 DEF DrawnInOrder, Drawn, Conflict, UsesOf, dereference
<1>2. CASE graphState # "trapped"
  <2>1. RecordInv
    BY <1>2 DEF FrameInv
  <2>2. \/ graphState = "CREATED" /\ recorded' = recorded
        \/ \E w : Submit(w)
    <3>1. CASE Step
      BY <3>1, <1>2
         DEF Step, Perform, AddComponent, AddImage, AddPass, Use, connect_image, connect_swapchain_image, lateVars
    <3>2. CASE InGraph
      BY <3>2, <1>2 DEF InGraph, SortStep, BeginSort, SortRoot, SortEdge, SortReturn, SortEnd, RecordPass, DestroyGraph
    <3>3. CASE \E w \in SUBSET {"root", "dialog"}, e \in Extents : next_frame(w, e)
      BY <3>3 DEF next_frame, Create
    <3>4. CASE (\E overlay \in BOOLEAN : world_pass(overlay)) \/ screen_pass \/ editor_pass \/ editor_dialog_pass
               \/ submit_frame \/ UNCHANGED renderVars
      <4>1. UNCHANGED graphState
        BY <3>4 DEF world_pass, screen_pass, editor_pass, editor_dialog_pass, submit_frame, renderVars, graphVars
      <4> QED
        BY <1>2, <4>1
    <3> QED
      BY <3>1, <3>2, <3>3, <3>4 DEF RenderNext
  <2>3. CASE graphState = "CREATED" /\ recorded' = recorded
    <3>1. recorded' = <<>>
      BY <2>1, <2>3 DEF RecordInv
    <3>2. \A p : Drawn(p)' = {}
      BY <3>1 DEF Drawn
    <3> QED
      BY <3>2 DEF DrawnInOrder
  <2>4. CASE \E w : Submit(w)
    <3>1. UNCHANGED <<recorded, declared, used, imageRefs>>
      BY <2>4 DEF Submit, declVars, passVars, linkVars
    <3> QED
      BY <3>1 DEF DrawnInOrder, Drawn, Conflict, UsesOf, dereference
  <2> QED
    BY <2>2, <2>3, <2>4
<1> QED
  BY <1>1, <1>2

\* RenderSystem.cpp declares its passes in the order in which they are to be drawn: of two
\* passes that use one image and do not both only read it, the one that was declared first
\* is recorded first, whatever order the sort of RGraph.cpp walks the passes in.
THEOREM DrawnInOrderCorrect == RenderSpec => []DrawnInOrder
<1> DEFINE Inv == GraphInv /\ FrameInv /\ DrawnInOrder
<1>1. RenderInit => Inv
  <2> SUFFICES ASSUME RenderInit PROVE Inv
    OBVIOUS
  <2>1. GraphInv /\ FrameInv /\ graphState # "trapped"
    BY InvInit, FrameInit DEF RenderInit, GraphInit
  <2> QED
    BY <2>1, OrderDrawn
<1>2. Inv /\ [RenderNext]_renderVars => Inv'
  <2> SUFFICES ASSUME Inv, [RenderNext]_renderVars PROVE Inv'
    OBVIOUS
  <2>1. GraphInv'
    BY GraphStep
  <2>2. CASE graphState' = "trapped"
    <3>1. DrawnInOrder'
      BY <2>2, TrapKeepsOrder
    <3>2. FrameInv'
      BY <2>2 DEF FrameInv
    <3> QED
      BY <2>1, <3>1, <3>2
  <2>3. CASE graphState' # "trapped"
    <3>1. graphState # "trapped"
      <4> SUFFICES ASSUME graphState = "trapped" PROVE FALSE
        OBVIOUS
      <4>1. ~SortStep /\ ~RecordPass /\ ~DestroyGraph /\ \A w : ~Submit(w)
        BY DEF SortStep, BeginSort, SortRoot, SortEdge, SortReturn, SortEnd, RecordPass, DestroyGraph, Submit
      <4>2. ~Step
        BY DEF Step, Perform, AddComponent, AddImage, AddPass, Use, connect_image, connect_swapchain_image
      <4> QED
        BY <2>3, <4>1, <4>2 DEF RenderNext, next_frame, Create, InGraph, world_pass, screen_pass, editor_pass,
           editor_dialog_pass, submit_frame, MayCall, renderVars, graphVars
    <3>2. FrameInv'
      BY <2>1, <2>3, <3>1, FrameNext
    <3>3. DrawnInOrder'
      <4>1. FrameInv' /\ GraphInv' /\ (graphState # "trapped")'
        BY <2>1, <2>3, <3>2
      <4> QED
        BY <4>1, OrderDrawn, PTL
    <3> QED
      BY <2>1, <3>2, <3>3
  <2> QED
    BY <2>2, <2>3
<1>3. Inv => DrawnInOrder
  OBVIOUS
<1> QED
  BY <1>1, <1>2, <1>3, PTL DEF RenderSpec
=============================================================================
