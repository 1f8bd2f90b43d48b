---------------------------- MODULE PoolAllocator ---------------------------
(***************************************************************************)
(* PoolAllocatorObj (LDCore/Memory/Lib/Allocator.cpp): pages of equal      *)
(* blocks, a list of free blocks for each page, and the iterator over the  *)
(* allocated blocks, one step per ++. A pool may be destroyed, and another *)
(* one made, at any time; a page is numbered by its age, and pageList has  *)
(* the youngest first.                                                     *)
(***************************************************************************)
EXTENDS Integers, FiniteSets, Sequences, SequencesExt

CONSTANTS
    pageSize,
    isMultiPage,
    MaxPages     \* bound on the pages of a pool

ASSUME PoolConstants == pageSize \in Nat \ {0} /\ isMultiPage \in BOOLEAN /\ MaxPages \in Nat

Blocks == 0..pageSize - 1

VARIABLES
    pages,         \* how many there are
    freeBlocks,    \* of each page, the blocks in the order of the list
    freeBlockCount,
    owned,         \* the blocks with an owner, as pairs of page and block
    client,        \* the blocks that allocate returned and free did not take back
    ite,           \* an iterator, or Null
    seen           \* the blocks that it has shown

poolVars == <<pages, freeBlocks, freeBlockCount, owned, client, ite, seen>>

Null == [page |-> 0, block |-> 0, left |-> 0]

PoolInit ==
    /\ pages = 0
    /\ freeBlocks = <<>>
    /\ freeBlockCount = <<>>
    /\ owned = {}
    /\ client = {}
    /\ ite = Null
    /\ seen = {}
-----------------------------------------------------------------------------
\* allocate takes the first free block of the youngest page that has one.
Candidates == {p \in 1..pages : freeBlocks[p] # <<>>}
Youngest(S) == CHOOSE p \in S : \A q \in S : q <= p

Taken(p, b) ==
    /\ owned' = owned \union {<<p, b>>}
    /\ client' = client \union {<<p, b>>}
    /\ UNCHANGED <<ite, seen>>

Allocate ==
    /\ ite = Null
    /\ Candidates # {}
    /\ LET p == Youngest(Candidates) IN
       /\ freeBlocks' = [freeBlocks EXCEPT ![p] = Tail(@)]
       /\ freeBlockCount' = [freeBlockCount EXCEPT ![p] = @ - 1]
       /\ Taken(p, Head(freeBlocks[p]))
    /\ UNCHANGED pages

\* The blocks of a new page are linked in order.
AllocatePage ==
    /\ ite = Null
    /\ Candidates = {}
    /\ pages < MaxPages
    /\ pages = 0 \/ isMultiPage
    /\ pages' = pages + 1
    /\ freeBlocks' = Append(freeBlocks, [k \in 1..pageSize - 1 |-> k])
    /\ freeBlockCount' = Append(freeBlockCount, pageSize - 1)
    /\ Taken(pages + 1, 0)

\* Mutant: the block goes back to the youngest page.
FreeToYoungest(block) ==
    /\ ite = Null
    /\ block \in client
    /\ freeBlocks' = [freeBlocks EXCEPT ![pages] = <<block[2]>> \o @]
    /\ freeBlockCount' = [freeBlockCount EXCEPT ![pages] = @ + 1]
    /\ owned' = owned \ {block}
    /\ client' = client \ {block}
    /\ UNCHANGED <<pages, ite, seen>>

\* A caller frees what it allocated, once, and not while the pool is walked.
Free(block) ==
    LET p == block[1] IN
    /\ ite = Null
    /\ block \in client
    /\ freeBlocks' = [freeBlocks EXCEPT ![p] = <<block[2]>> \o @]
    /\ freeBlockCount' = [freeBlockCount EXCEPT ![p] = @ + 1]
    /\ owned' = owned \ {block}
    /\ client' = client \ {block}
    /\ UNCHANGED <<pages, ite, seen>>

DestroyPool ==
    /\ ite = Null
    /\ pages' = 0
    /\ freeBlocks' = <<>>
    /\ freeBlockCount' = <<>>
    /\ owned' = {}
    /\ client' = {}
    /\ UNCHANGED <<ite, seen>>
-----------------------------------------------------------------------------
(* The iterator                                                            *)

OwnedIn(p, from) == {b \in Blocks : b >= from /\ <<p, b>> \in owned}
Lowest(S) == CHOOSE b \in S : \A c \in S : b <= c
get_first_allocated_block(p) ==
    IF freeBlockCount[p] = pageSize THEN {} ELSE OwnedIn(p, 0)
allocated_block_count(p) == pageSize - freeBlockCount[p]

\* Mutant: the first block of a page is not counted.
FirstOfUncounted(below) ==
    LET S == {p \in 1..below - 1 : get_first_allocated_block(p) # {}}
        p == Youngest(S)
    IN  IF S = {} THEN Null
        ELSE [page |-> p, block |-> Lowest(get_first_allocated_block(p)), left |-> allocated_block_count(p)]

\* To the first block of the youngest page below `below' that shows one.
FirstOf(below) ==
    LET S == {p \in 1..below - 1 : get_first_allocated_block(p) # {}}
        p == Youngest(S)
    IN  IF S = {} THEN Null
        ELSE [page |-> p, block |-> Lowest(get_first_allocated_block(p)), left |-> allocated_block_count(p) - 1]

Show(i) == IF i = Null THEN {} ELSE {<<i.page, i.block>>}

BeginWalk ==
    /\ ite = Null
    /\ ite' = FirstOf(pages + 1)
    /\ seen' = Show(ite')
    /\ ite' # Null
    /\ UNCHANGED <<pages, freeBlocks, freeBlockCount, owned, client>>

\* Within a page the loop runs on to the next owned block, wherever that is.
AdvanceWalk ==
    /\ ite # Null
    /\ ite' = IF ite.left = 0 THEN FirstOf(ite.page)
              ELSE [page |-> ite.page, left |-> ite.left - 1, block |->
                    LET S == OwnedIn(ite.page, ite.block + 1) IN IF S = {} THEN pageSize ELSE Lowest(S)]
    /\ seen' = seen \union Show(ite')
    /\ UNCHANGED <<pages, freeBlocks, freeBlockCount, owned, client>>
-----------------------------------------------------------------------------
PoolNext ==
    \/ Allocate \/ AllocatePage \/ DestroyPool
    \/ \E block \in client : Free(block)
    \/ BeginWalk \/ AdvanceWalk

PoolSpec == PoolInit /\ [][PoolNext]_poolVars
-----------------------------------------------------------------------------
(* Properties                                                              *)

ClientOf(p) == {block \in client : block[1] = p}

\* allocate and free keep three records of a block in the memory of the block itself
\* (Allocator.cpp:263-298): of each page, the list holds every block that no caller has
\* exactly once, the count is the length of the list, and a block has an owner exactly
\* while a caller has it - so no block is handed out twice or lost.
PoolExact ==
    /\ owned = client
    /\ \A p \in 1..pages :
          /\ IsInjective(freeBlocks[p])
          /\ {<<p, b>> : b \in ToSet(freeBlocks[p])} = ({p} \X Blocks) \ ClientOf(p)
          /\ freeBlockCount[p] = Len(freeBlocks[p])

\* The iterator stops by counting (Allocator.cpp:318-353), not by looking at the end of
\* the page: whatever holes the pages have, it shows only blocks that a caller has, never
\* runs off a page, and has shown all of them when it ends.
WalkExact ==
    [][/\ ite' # Null => seen' \subseteq client'
       /\ ite # Null /\ ite' = Null => seen = client]_poolVars
=============================================================================
