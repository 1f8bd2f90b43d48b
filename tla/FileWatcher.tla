---------------------------- MODULE FileWatcher -----------------------------
(***************************************************************************)
(* LDCore/System/Lib/FileWatcherLinux.cpp over inotify: one watch for each *)
(* file, which the kernel drops when another program deletes or replaces   *)
(* the file, and which poll then attaches again.                           *)
(*                                                                         *)
(* poll is one step per read, per event and for the callbacks, and other   *)
(* programs change the files in between.                                   *)
(***************************************************************************)
EXTENDS Integers, Sequences, SequencesExt

CONSTANTS
    Files,
    QueueLimit,   \* events the kernel keeps before it reports an overflow
    BufferLimit,  \* events that fit INOTIFY_EVENT_BUF_SIZE
    MaxChanges    \* bound on what other programs do to the files

ASSUME WatchConstants ==
    /\ QueueLimit \in Nat \ {0}
    /\ BufferLimit \in Nat \ {0}

VARIABLES
    present,      \* the files that exist
    attached,     \* the watch descriptor on each file's current inode, or none
    queue,        \* the events in the kernel
    nextWd,
    watchers,     \* InotifyWatcher::handle of each file that was added
    polling,      \* where poll is
    buf,          \* the events of the last read still to handle
    fileHashes,
    changed,      \* added files that changed since their last callback
    lost,         \* files of which a change was dropped since, or that lost their watch for good
    changes

watchVars == <<present, attached, queue, nextWd, watchers, polling, buf, fileHashes, changed, lost, changes>>
filesVars == <<present, attached, queue, changes>>
pollVars == <<nextWd, watchers, polling, buf, fileHashes>>

NoWatch == 0
Failed == -1     \* what inotify_add_watch returns, and the descriptor of an overflow
Added == {f \in Files : watchers[f] # NoWatch}
WatchersOf(wd) == {f \in Files : watchers[f] = wd}

WatchInit ==
    /\ present = Files
    /\ attached = [f \in Files |-> NoWatch]
    /\ queue = <<>>
    /\ nextWd = 1
    /\ watchers = [f \in Files |-> NoWatch]
    /\ polling = "no"
    /\ buf = <<>>
    /\ fileHashes = {}
    /\ changed = {}
    /\ lost = {}
    /\ changes = 0
-----------------------------------------------------------------------------
\* The kernel: equal events in a row are one, and a full queue takes an overflow.
Overflow == [wd |-> Failed, mask |-> "overflow"]

Post(f, mask) ==
    LET event == [wd |-> attached[f], mask |-> mask] IN
    IF attached[f] = NoWatch \/ (queue # <<>> /\ Last(queue) = event)
    THEN UNCHANGED <<queue, lost>>
    ELSE IF Len(queue) < QueueLimit
    THEN queue' = Append(queue, event) /\ UNCHANGED lost
    ELSE /\ queue' = IF Last(queue) = Overflow THEN queue ELSE Append(queue, Overflow)
         /\ lost' = lost \cup {f}

Changes(f) ==
    /\ changes < MaxChanges
    /\ changes' = changes + 1
    /\ changed' = changed \cup ({f} \cap Added)
    /\ UNCHANGED pollVars

WriteFile(f) ==
    /\ f \in present
    /\ Changes(f)
    /\ Post(f, "closeWrite")
    /\ UNCHANGED <<present, attached>>

\* Another file is renamed over f, as editors do.
ReplaceFile(f) ==
    /\ f \in present
    /\ Changes(f)
    /\ Post(f, "ignored")
    /\ attached' = [attached EXCEPT ![f] = NoWatch]
    /\ UNCHANGED present

RemoveFile(f) ==
    /\ f \in present
    /\ Changes(f)
    /\ Post(f, "ignored")
    /\ attached' = [attached EXCEPT ![f] = NoWatch]
    /\ present' = present \ {f}

CreateFile(f) ==
    /\ f \notin present
    /\ Changes(f)
    /\ present' = present \cup {f}
    /\ UNCHANGED <<attached, queue, lost>>
-----------------------------------------------------------------------------
\* A file that has a watcher gets another entry only, whatever its handle is.
AddFile(f) ==
    /\ polling = "no"
    /\ f \in present
    /\ watchers[f] = NoWatch
    /\ watchers' = [watchers EXCEPT ![f] = nextWd]
    /\ attached' = [attached EXCEPT ![f] = nextWd]
    /\ nextWd' = nextWd + 1
    /\ UNCHANGED <<present, queue, polling, buf, fileHashes, changed, lost, changes>>

PollBegin ==
    /\ polling = "no"
    /\ polling' = "read"
    /\ fileHashes' = {}
    /\ UNCHANGED <<filesVars, nextWd, watchers, buf, changed, lost>>

PollRead ==
    /\ polling = "read"
    /\ buf = <<>>
    /\ LET n == IF Len(queue) < BufferLimit THEN Len(queue) ELSE BufferLimit IN
       /\ buf' = SubSeq(queue, 1, n)
       /\ queue' = SubSeq(queue, n + 1, Len(queue))
       /\ polling' = IF n = 0 THEN "call" ELSE "read"
    /\ UNCHANGED <<present, attached, nextWd, watchers, fileHashes, changed, lost, changes>>

\* poll returns early: what it has collected and read is dropped.
PollCut(dropped) ==
    /\ polling' = "no"
    /\ buf' = <<>>
    /\ lost' = lost \cup dropped \cup fileHashes \cup UNION {WatchersOf(e.wd) : e \in ToSet(buf)}
    /\ UNCHANGED fileHashes

PollHandled(collected) ==
    /\ fileHashes' = fileHashes \cup collected
    /\ buf' = Tail(buf)
    /\ UNCHANGED <<polling, lost>>

PollUnknown ==
    /\ polling = "read" /\ buf # <<>>
    /\ WatchersOf(Head(buf).wd) = {}
    /\ PollCut({})
    /\ UNCHANGED <<filesVars, nextWd, watchers, changed>>

PollOverflow ==
    /\ polling = "read" /\ buf # <<>>
    /\ Head(buf) = Overflow
    /\ WatchersOf(Failed) # {}
    /\ PollHandled({})
    /\ UNCHANGED <<filesVars, nextWd, watchers, changed>>

PollWritten(f) ==
    /\ polling = "read" /\ buf # <<>>
    /\ Head(buf).mask = "closeWrite" /\ watchers[f] = Head(buf).wd
    /\ PollHandled({f})
    /\ UNCHANGED <<filesVars, nextWd, watchers, changed>>

\* Mutant: the handle of the new watch is not kept.
PollAttachForgets(f) ==
    /\ polling = "read" /\ buf # <<>>
    /\ Head(buf).mask = "ignored" /\ watchers[f] = Head(buf).wd
    /\ f \in present
    /\ attached' = [attached EXCEPT ![f] = nextWd]
    /\ nextWd' = nextWd + 1
    /\ PollHandled({f})
    /\ UNCHANGED <<present, queue, watchers, changed, changes>>

PollAttach(f) ==
    /\ polling = "read" /\ buf # <<>>
    /\ Head(buf).mask = "ignored" /\ watchers[f] = Head(buf).wd
    /\ f \in present
    /\ watchers' = [watchers EXCEPT ![f] = nextWd]
    /\ attached' = [attached EXCEPT ![f] = nextWd]
    /\ nextWd' = nextWd + 1
    /\ PollHandled({f})
    /\ UNCHANGED <<present, queue, changed, changes>>

PollAttachFails(f) ==
    /\ polling = "read" /\ buf # <<>>
    /\ Head(buf).mask = "ignored" /\ watchers[f] = Head(buf).wd
    /\ f \notin present
    /\ watchers' = [watchers EXCEPT ![f] = Failed]
    /\ PollCut({f})
    /\ UNCHANGED <<filesVars, nextWd, changed>>

\* The kernel watches the file, or has announced that it stopped to.
Watched(f) == attached[f] = watchers[f] \/ [wd |-> watchers[f], mask |-> "ignored"] \in ToSet(queue)

PollCalls ==
    /\ polling = "call"
    /\ polling' = "no"
    /\ changed' = changed \ fileHashes
    /\ lost' = lost \ {f \in fileHashes : Watched(f)}
    /\ UNCHANGED <<filesVars, nextWd, watchers, buf, fileHashes>>

WatchNext ==
    \/ \E f \in Files :
          \/ WriteFile(f) \/ ReplaceFile(f) \/ RemoveFile(f) \/ CreateFile(f)
          \/ AddFile(f) \/ PollWritten(f) \/ PollAttach(f) \/ PollAttachFails(f)
    \/ PollBegin \/ PollRead \/ PollUnknown \/ PollOverflow \/ PollCalls

WatchSpec == WatchInit /\ [][WatchNext]_watchVars
-----------------------------------------------------------------------------
(***************************************************************************)
(* A change of a watched file is called back by this poll or announced to  *)
(* the next by an event under the watcher's current descriptor, through    *)
(* replacements, repeated events and reads that split them.  It is lost    *)
(* only if the kernel's queue overflowed, or if poll returned early on a   *)
(* file that was missing or an overflow; a file missing then is never      *)
(* watched again.                                                          *)
(***************************************************************************)
NoChangeMissed ==
    \A f \in changed \ lost :
        \/ polling # "no" /\ f \in fileHashes
        \/ \E event \in ToSet(queue \o buf) : event.wd = watchers[f]
=============================================================================
