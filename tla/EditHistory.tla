---------------------------- MODULE EditHistory -----------------------------
(***************************************************************************)
(* What an editor promises its user: a document, the versions of it that   *)
(* undo and redo walk through, the copy on disk, and a mark that says      *)
(* whether the two are the same.  Editor implements it with commands that  *)
(* know only how to change a scene, until something happens that they do   *)
(* not survive (excused): from then on nothing is promised before another  *)
(* document is opened.                                                     *)
(***************************************************************************)
EXTENDS Integers

VARIABLES
    doc,       \* what the user sees
    versions,  \* the documents before the first and after every command
    size,      \* commands on the stack
    index,     \* commands that are not undone
    saved,     \* the document on disk
    savedAt,   \* what the mark compares index with
    unsound,   \* the saved version left the stack, or was never on it
    excused

stack == <<versions, size>>
disk == <<saved, savedAt>>
vars == <<doc, stack, index, disk, unsound, excused>>

Clean == index = savedAt

Init ==
    /\ versions = [k \in 0 .. 0 |-> doc]
    /\ size = 0
    /\ index = 0
    /\ saved = doc
    /\ savedAt = 0
    /\ unsound = FALSE
    /\ excused = FALSE

\* A new command cuts off the versions that were undone.
Execute ==
    /\ index' = index + 1
    /\ size' = index + 1
    /\ versions' = [k \in 0 .. index + 1 |-> IF k <= index THEN versions[k] ELSE doc']
    /\ unsound' = (unsound \/ savedAt > index)
    /\ UNCHANGED disk

Undo ==
    /\ index > 0
    /\ index' = index - 1
    /\ doc' = versions[index - 1]
    /\ UNCHANGED <<stack, disk, unsound>>

Redo ==
    /\ index < size
    /\ index' = index + 1
    /\ doc' = versions[index + 1]
    /\ UNCHANGED <<stack, disk, unsound>>

Save ==
    /\ saved' = doc
    /\ savedAt' = index
    /\ unsound' = FALSE
    /\ UNCHANGED <<doc, stack, index>>

\* The stack is emptied, for another document or for the same one.
Restart ==
    /\ size' = 0
    /\ index' = 0
    /\ versions' = [k \in 0 .. 0 |-> doc']

\* A document that is new on disk keeps what the mark compares with.
Open ==
    /\ Restart
    /\ saved' = doc'
    /\ \/ savedAt' = 0 /\ unsound' = FALSE
       \/ UNCHANGED savedAt /\ unsound' = (savedAt # 0)

Reopen ==
    /\ Restart
    /\ savedAt' = 0
    /\ unsound' = TRUE
    /\ UNCHANGED <<doc, saved>>

Next ==
    \/ excused'
    \/ ~excused' /\ Open
    \/ ~excused /\ ~excused' /\ (Execute \/ Undo \/ Redo \/ Save \/ Reopen)

Spec == Init /\ [][Next]_vars
=============================================================================
