-------------------------- MODULE ComponentForest ---------------------------
(***************************************************************************)
(* What the component registry promises its users: an ordered forest of    *)
(* components, changed by whole operations, under identifiers that are     *)
(* never used again.                                                       *)
(***************************************************************************)
EXTENDS Integers, Sequences, SequencesExt, Functions

CONSTANTS IDs, Types, None

VARIABLES
    parentOf,  \* the parent of each component, None at the top
    typeOf,
    kids,      \* the children of each component, and of None, in order
    used       \* every identifier handed out so far

vars == <<parentOf, typeOf, kids, used>>

Nodes == DOMAIN parentOf

\* c and everything below it.
Subtree(c) ==
    LET up == parentOf
        nodes == DOMAIN up
    IN  {n \in nodes : \A S \in SUBSET nodes :
            c \in S /\ (\A k \in nodes : up[k] \in S => k \in S) => n \in S}

\* f with the value v at x.
With(f, x, v) == [n \in DOMAIN f \cup {x} |-> IF n = x THEN v ELSE f[n]]

\* f, and g where f is not defined.
Over(f, g) ==
    [n \in DOMAIN f \cup DOMAIN g |-> IF n \in DOMAIN f THEN f[n] ELSE g[n]]

Position(s, x) == CHOOSE k \in DOMAIN s : s[k] = x
Without(s, x) == RemoveAt(s, Position(s, x))
InsertAfter(s, x, y) == InsertAt(s, Position(s, x) + 1, y)

Init ==
    /\ parentOf = <<>>
    /\ typeOf = <<>>
    /\ kids = [n \in {None} |-> <<>>]
    /\ used = {}

Create ==
    \E c \in used' \ used :
        /\ c \in IDs
        /\ used' = used \cup {c}
        /\ \E t \in Types, p \in Nodes \cup {None} :
             /\ parentOf' = With(parentOf, c, p)
             /\ typeOf' = With(typeOf, c, t)
             /\ kids' = With([kids EXCEPT ![p] = Append(@, c)], c, <<>>)

DestroySubtree(c) ==
    LET rest == Nodes \ Subtree(c)
        up == parentOf
        lists == kids
    IN  /\ typeOf' = Restrict(typeOf, rest)
        /\ parentOf' = Restrict(up, rest)
        /\ kids' = [n \in rest \cup {None} |->
                       IF n = up[c] THEN Without(lists[n], c) ELSE lists[n]]

\* The newcomer is the last child of p.
Reparent(c, p) ==
    LET left == [kids EXCEPT ![parentOf[c]] = Without(@, c)]
    IN  /\ parentOf' = [parentOf EXCEPT ![c] = p]
        /\ p \notin Subtree(c)
        /\ kids' = [left EXCEPT ![p] = Append(@, c)]
        /\ UNCHANGED typeOf

\* A copy of the subtree of c, next to c, under identifiers never used before.
Clone(c) ==
    LET tree == Subtree(c)
        up == parentOf
        lists == kids
        new == used' \ used
    IN  \E copy \in Injection(tree, new) :
          LET source == [k \in new |-> CHOOSE n \in tree : copy[n] = k]
          IN  /\ new = Range(copy)
              /\ typeOf' = Over([k \in new |-> typeOf[source[k]]], typeOf)
              /\ parentOf' = Over([k \in new |-> IF source[k] = c THEN up[c]
                                                 ELSE copy[up[source[k]]]], up)
              /\ kids' = Over([k \in new |-> [n \in DOMAIN lists[source[k]] |->
                                                 copy[lists[source[k]][n]]]],
                              [lists EXCEPT ![up[c]] = InsertAfter(@, c, copy[c])])

\* An operation uses identifiers up or it does not.
Next ==
    \/ UNCHANGED used /\ \E c \in Nodes : DestroySubtree(c) \/ \E p \in Nodes : Reparent(c, p)
    \/ Create
    \/ used \subseteq used' /\ used' # used /\ \E c \in Nodes : Clone(c)

Spec == Init /\ [][Next]_vars
=============================================================================
