--------------------------- MODULE SceneCommands ----------------------------
(***************************************************************************)
(* SceneCommandQueue (LDCore/Scene/Lib/SceneCommand.cpp): commands are     *)
(* made in the pages of a LinearAllocator (LDCore/Memory/Lib/              *)
(* Allocator.cpp), applied in turn by poll_commands and freed together.    *)
(* Applying a command, and the callback that gets its response, may        *)
(* enqueue another one. Sizes are in units of eight bytes; the data of a   *)
(* page is aligned, because both of the headers before it have 16 bytes.   *)
(***************************************************************************)
EXTENDS Integers, Sequences, SequencesExt

CONSTANTS
    capacity, alignment,
    CommandSize,    \* the size of each type of command
    MaxCommands     \* bound on the commands made between two frees

ASSUME CommandConstants ==
    /\ alignment \in Nat \ {0}
    /\ capacity \in Nat /\ capacity % alignment = 0
    /\ \A t \in DOMAIN CommandSize : CommandSize[t] \in 1..capacity - alignment

VARIABLES
    pageList,     \* Page::used, the oldest page first
    commands,     \* the queue: where each command was made
    isPolling,    \* poll_commands is running
    made,         \* bounded by MaxCommands
    fullPage      \* some command was made when the last page had no byte left

commandVars == <<pageList, commands, isPolling, made, fullPage>>

CommandsInit ==
    /\ pageList = <<>>
    /\ commands = <<>>
    /\ isPolling = FALSE
    /\ made = 0
    /\ fullPage = FALSE
-----------------------------------------------------------------------------
\* What is left in the last page, but a full page counts as an empty one.
remain(used) == IF used = capacity THEN capacity ELSE capacity - used

\* Mutant: the page does not count the padding as used.
allocate_alignedUncounted(size) ==
    LET opened == IF pageList = <<>> THEN <<0>> ELSE pageList
        pad == -Last(opened) % alignment
        paged == IF pad + size > remain(Last(opened)) THEN Append(opened, 0) ELSE opened
        used == Last(paged)
    IN  [pages |-> [paged EXCEPT ![Len(paged)] = used + size], page |-> Len(paged), at |-> used + pad, size |-> size]

\* The padding is computed for the last page, and used in the page after it if
\* the command goes there. The assertions that follow do nothing in a release.
allocate_aligned(size) ==
    LET opened == IF pageList = <<>> THEN <<0>> ELSE pageList
        pad == -Last(opened) % alignment
        paged == IF pad + size > remain(Last(opened)) THEN Append(opened, 0) ELSE opened
        at == Last(paged) + pad
    IN  [pages |-> [paged EXCEPT ![Len(paged)] = at + size], page |-> Len(paged), at |-> at, size |-> size]

enqueue(t) ==
    LET new == allocate_aligned(CommandSize[t]) IN
    /\ made < MaxCommands
    /\ pageList' = new.pages
    /\ commands' = Append(commands, [page |-> new.page, at |-> new.at, size |-> new.size])
    /\ made' = made + 1
    /\ fullPage' = (fullPage \/ (pageList # <<>> /\ Last(pageList) = capacity))
    /\ UNCHANGED isPolling

BeginCommands ==
    /\ ~isPolling
    /\ isPolling' = TRUE
    /\ UNCHANGED <<pageList, commands, made, fullPage>>

\* A command leaves the queue before it is applied.
ApplyCommand ==
    /\ isPolling
    /\ commands # <<>>
    /\ commands' = Tail(commands)
    /\ UNCHANGED <<pageList, isPolling, made, fullPage>>

EndCommands ==
    /\ isPolling
    /\ commands = <<>>
    /\ isPolling' = FALSE
    /\ pageList' = <<>>
    /\ made' = 0
    /\ fullPage' = FALSE
    /\ UNCHANGED commands

CommandsNext ==
    \/ \E t \in DOMAIN CommandSize : enqueue(t)
    \/ BeginCommands \/ ApplyCommand \/ EndCommands

CommandsSpec == CommandsInit /\ [][CommandsNext]_commandVars
-----------------------------------------------------------------------------
(* Properties                                                              *)

InPage(c) == c.page \in DOMAIN pageList /\ c.at + c.size <= capacity
Apart(c, d) == c.page # d.page \/ c.at + c.size <= d.at \/ d.at + d.size <= c.at

\* A command that was not applied yet lies in a page that was not freed, inside it, and
\* apart from the others, whatever was padded and however many pages there are - unless
\* one was made when the last page was exactly full (remain, Allocator.cpp:94).
CommandsApart ==
    ~fullPage =>
        /\ \A k \in DOMAIN commands : InPage(commands[k])
        /\ \A j, k \in DOMAIN commands : j # k => Apart(commands[j], commands[k])

\* allocate_aligned asserts that what it returns is in the page and aligned
\* (Allocator.cpp:140, 145).
CommandsPlaced ==
    \A k \in DOMAIN commands : InPage(commands[k]) /\ commands[k].at % alignment = 0
=============================================================================
