----------------------------- MODULE IDRegistry -----------------------------
(***************************************************************************)
(* Include/Ludens/DSA/IDRegistry.h: 64-bit identifiers made of an index    *)
(* that is reused and a generation that is not.  The zero identifier means *)
(* "none"; generations start at one, so no identifier handed out is zero.  *)
(***************************************************************************)
EXTENDS Integers, Sequences

CONSTANTS
    MaxIndex       \* 0xFFFFFF: indices in use at the same time

ASSUME IDConstants == MaxIndex \in Nat \ {0}

VARIABLES
    mGenerations,  \* mGenerations[i + 1] is the generation of index i
    mFreeIndexList

idVars == <<mGenerations, mFreeIndexList>>

Index == 0 .. MaxIndex - 1
ID == [index : Index, gen : Nat]
NoID == [index |-> 0, gen |-> 0]

IDInit ==
    /\ mGenerations = <<>>
    /\ mFreeIndexList = <<>>

\* Has create an identifier left to hand out?
HasID == mFreeIndexList # <<>> \/ Len(mGenerations) < MaxIndex

\* What create returns: the index freed last, or a new one.
NextID ==
    IF mFreeIndexList # <<>>
    THEN LET i == mFreeIndexList[Len(mFreeIndexList)]
         IN  [index |-> i, gen |-> mGenerations[i + 1]]
    ELSE [index |-> Len(mGenerations), gen |-> 1]

CreateID ==
    IF mFreeIndexList # <<>>
    THEN /\ mFreeIndexList' = SubSeq(mFreeIndexList, 1, Len(mFreeIndexList) - 1)
         /\ UNCHANGED mGenerations
    ELSE /\ mGenerations' = Append(mGenerations, 1)
         /\ UNCHANGED mFreeIndexList

\* Mutant: the index is reused under the generation it had.
DestroyIDKeepsGeneration(id) ==
    /\ mFreeIndexList' = Append(mFreeIndexList, id.index)
    /\ UNCHANGED mGenerations

DestroyID(id) ==
    IF id # NoID /\ id.index < Len(mGenerations) /\ mGenerations[id.index + 1] = id.gen
    THEN /\ mGenerations' = [mGenerations EXCEPT ![id.index + 1] = @ + 1]
         /\ mFreeIndexList' = Append(mFreeIndexList, id.index)
    ELSE UNCHANGED idVars
=============================================================================
