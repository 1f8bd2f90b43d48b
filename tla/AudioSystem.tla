---------------------------- MODULE AudioSystem -----------------------------
(***************************************************************************)
(* AudioSystem, AudioMixer and the audio objects they share: the main      *)
(* thread allocates and frees buffers and playbacks and sends commands     *)
(* through a bounded queue; the audio thread runs the commands and mixes   *)
(* the playbacks in a callback of the audio device.                        *)
(* LDCore/AudioSystem, LDCore/AudioMixer, LDCore/AudioBackend.             *)
(*                                                                         *)
(* Samples are left out: what is read is a number of frames.  Nothing is   *)
(* said of the audio thread once it has touched freed memory: it is then   *)
(* "undefined" and takes no further step.  Effects are left out: no code   *)
(* outside the mixer's tests creates one.                                  *)
(***************************************************************************)
EXTENDS Integers, Sequences, SequencesExt

CONSTANTS
    Buffers,    \* audio buffers, each created at most once
    Playbacks,  \* playbacks, each created at most once
    NoBuffer,   \* the null buffer handle
    Frames,     \* AudioBufferObj::frameCount of each buffer
    Period,     \* frames the device asks for in one callback
    Capacity,   \* room in the command queue, 256 in the code
    Controls    \* which of start, stop, pause and resume the client calls

ASSUME AudioConstants ==
    /\ NoBuffer \notin Buffers
    /\ Buffers \cap Playbacks = {}
    /\ Frames \in [Buffers -> Nat]
    /\ Period \in Nat \ {0}
    /\ Capacity \in Nat
    /\ Controls \subseteq {"start", "stop", "pause", "resume"}

Objects == Buffers \cup Playbacks

VARIABLES
    \* main thread
    mpc,        \* "running", in "update", in the "destructor" or "down"
    visit,      \* buffers poll_deferred_destruction has yet to look at
    mDeferredBufferDestruction,
    wants,      \* the buffer the client last asked each playback it holds to play
    memory,     \* of each object: not yet allocated ("none"), "live" or "freed"
    \* shared
    mCommands,
    acquired,   \* the objects whose mAudioThreadAcquired is set
    \* audio thread
    apc,        \* "off" (no device), "idle", "poll", "mix" or "undefined"
    mPlaybackList,
    mixing,     \* what is left of the list in the loop of mix
    buffer,     \* AudioPlaybackObj::buffer
    frameCursor,
    playing,    \* the playbacks whose isPlaying is set
    \* history
    lost,       \* the kinds of command the full queue refused
    early       \* the buffers the client destroyed before they were acquired

mixerVars == <<mPlaybackList, buffer, frameCursor, playing>>
mainVars == <<mpc, visit, mDeferredBufferDestruction, wants, memory, lost, early>>
vars == <<mainVars, mCommands, acquired, apc, mixing, mixerVars>>

Init ==
    /\ mpc = "running"
    /\ visit = {}
    /\ mDeferredBufferDestruction = {}
    /\ wants = [p \in Playbacks |-> NoBuffer]
    /\ memory = [o \in Objects |-> "none"]
    /\ mCommands = <<>>
    /\ acquired = {}
    /\ apc \in {"off", "idle"}
    /\ mPlaybackList = <<>>
    /\ mixing = <<>>
    /\ buffer = [p \in Playbacks |-> NoBuffer]
    /\ frameCursor = [p \in Playbacks |-> 0]
    /\ playing = {}
    /\ lost = {}
    /\ early = {}
-----------------------------------------------------------------------------
(* Main thread.  The client obeys the warnings of AudioSystemCache: it     *)
(* uses no handle it destroyed, and it destroys a buffer once it has       *)
(* destroyed, or given another buffer to, every playback that plays it.    *)

Usable(b) == memory[b] = "live" /\ b \notin mDeferredBufferDestruction
Held(p) == wants[p] # NoBuffer

\* enqueue; no caller looks at its result.
Send(cmd) ==
    IF Len(mCommands) < Capacity
    THEN mCommands' = Append(mCommands, cmd) /\ UNCHANGED lost
    ELSE lost' = lost \cup {cmd.op} /\ UNCHANGED mCommands

ClientCalls(cmd) ==
    /\ mpc = "running"
    /\ Send(cmd)
    /\ UNCHANGED <<mpc, visit, acquired, apc, mixing, mixerVars>>

CreateBuffer(b) ==
    /\ memory[b] = "none"
    /\ memory' = [memory EXCEPT ![b] = "live"]
    /\ ClientCalls([op |-> "createBuffer", buffer |-> b])
    /\ UNCHANGED <<mDeferredBufferDestruction, wants, early>>

\* Mutant: the buffer is freed at once.
DestroyBufferNow(b) ==
    /\ Usable(b)
    /\ \A p \in Playbacks : wants[p] # b
    /\ memory' = [memory EXCEPT ![b] = "freed"]
    /\ early' = IF b \in acquired THEN early ELSE early \cup {b}
    /\ ClientCalls([op |-> "destroyBuffer", buffer |-> b])
    /\ UNCHANGED <<mDeferredBufferDestruction, wants>>

DestroyBuffer(b) ==
    /\ Usable(b)
    /\ \A p \in Playbacks : wants[p] # b
    /\ mDeferredBufferDestruction' = mDeferredBufferDestruction \cup {b}
    /\ early' = IF b \in acquired THEN early ELSE early \cup {b}
    /\ ClientCalls([op |-> "destroyBuffer", buffer |-> b])
    /\ UNCHANGED <<wants, memory>>

CreatePlayback(p, b) ==
    /\ memory[p] = "none"
    /\ Usable(b)
    /\ memory' = [memory EXCEPT ![p] = "live"]
    /\ wants' = [wants EXCEPT ![p] = b]
    /\ ClientCalls([op |-> "createPlayback", playback |-> p, buffer |-> b])
    /\ UNCHANGED <<mDeferredBufferDestruction, early>>

\* The memory goes back to no pool until the system is destroyed.
DestroyPlayback(p) ==
    /\ Held(p)
    /\ wants' = [wants EXCEPT ![p] = NoBuffer]
    /\ ClientCalls([op |-> "destroyPlayback", playback |-> p])
    /\ UNCHANGED <<mDeferredBufferDestruction, memory, early>>

SetPlaybackBuffer(p, b) ==
    /\ Held(p)
    /\ Usable(b)
    /\ wants' = [wants EXCEPT ![p] = b]
    /\ ClientCalls([op |-> "setPlaybackBuffer", playback |-> p, buffer |-> b])
    /\ UNCHANGED <<mDeferredBufferDestruction, memory, early>>

ControlPlayback(p, op) ==
    /\ Held(p)
    /\ ClientCalls([op |-> op, playback |-> p])
    /\ UNCHANGED <<mDeferredBufferDestruction, wants, memory, early>>

Update ==
    /\ mpc = "running"
    /\ mpc' = "update"
    /\ visit' = mDeferredBufferDestruction
    /\ UNCHANGED <<mDeferredBufferDestruction, wants, memory, lost, early,
                   mCommands, acquired, apc, mixing, mixerVars>>

\* Mutant: the buffer is freed whether or not it is acquired.
PollDeferredDestructionBlind(b) ==
    /\ b \in visit
    /\ visit' = visit \ {b}
    /\ memory' = [memory EXCEPT ![b] = "freed"]
    /\ mDeferredBufferDestruction' = mDeferredBufferDestruction \ {b}
    /\ UNCHANGED <<mpc, wants, lost, early, mCommands, acquired, apc, mixing, mixerVars>>

\* One iteration of poll_deferred_destruction, called by update and by the
\* destructor.
PollDeferredDestruction(b) ==
    /\ b \in visit
    /\ visit' = visit \ {b}
    /\ IF b \in acquired
       THEN UNCHANGED <<memory, mDeferredBufferDestruction>>
       ELSE /\ memory' = [memory EXCEPT ![b] = "freed"]
            /\ mDeferredBufferDestruction' = mDeferredBufferDestruction \ {b}
    /\ UNCHANGED <<mpc, wants, lost, early, mCommands, acquired, apc, mixing, mixerVars>>

UpdateReturns ==
    /\ mpc = "update"
    /\ visit = {}
    /\ mpc' = "running"
    /\ UNCHANGED <<visit, mDeferredBufferDestruction, wants, memory, lost, early,
                   mCommands, acquired, apc, mixing, mixerVars>>

Destroy ==
    /\ mpc = "running"
    /\ mpc' = "destructor"
    /\ UNCHANGED <<visit, mDeferredBufferDestruction, wants, memory, lost, early,
                   mCommands, acquired, apc, mixing, mixerVars>>

DestructorPolls ==
    /\ mpc = "destructor"
    /\ visit = {}
    /\ mDeferredBufferDestruction # {}
    /\ visit' = mDeferredBufferDestruction
    /\ UNCHANGED <<mpc, mDeferredBufferDestruction, wants, memory, lost, early,
                   mCommands, acquired, apc, mixing, mixerVars>>

\* MiniAudio::destroy waits for a callback to return; then the playback pool
\* is freed.
DestructorEnds ==
    /\ mpc = "destructor"
    /\ mDeferredBufferDestruction = {}
    /\ visit = {}
    /\ apc \in {"off", "idle"}
    /\ mpc' = "down"
    /\ apc' = "off"
    /\ memory' = [o \in Objects |->
                    IF o \in Playbacks /\ memory[o] = "live" THEN "freed" ELSE memory[o]]
    /\ UNCHANGED <<visit, mDeferredBufferDestruction, wants, lost, early,
                   mCommands, acquired, mixing, mixerVars>>

Stopped == mpc = "down" \/ apc = "undefined"
Terminated == Stopped /\ UNCHANGED vars

Destructor ==
    \/ \E b \in Buffers : PollDeferredDestruction(b)
    \/ DestructorPolls
    \/ DestructorEnds

MainThread ==
    \/ \E b \in Buffers : CreateBuffer(b) \/ DestroyBuffer(b)
    \/ \E p \in Playbacks, b \in Buffers : CreatePlayback(p, b) \/ SetPlaybackBuffer(p, b)
    \/ \E p \in Playbacks : DestroyPlayback(p)
    \/ \E p \in Playbacks, op \in Controls : ControlPlayback(p, op)
    \/ Update \/ UpdateReturns \/ Destroy
    \/ Destructor
-----------------------------------------------------------------------------
(* Audio thread.                                                           *)

\* The next object the callback reads or writes.
Touched ==
    IF apc = "poll" /\ mCommands # <<>>
    THEN {Head(mCommands)[f] : f \in DOMAIN Head(mCommands) \ {"op"}}
    ELSE IF apc = "mix" /\ mixing # <<>>
         THEN {Head(mixing)} \cup {buffer[p] : p \in {Head(mixing)} \cap playing}
         ELSE {}

TouchesFreed == \E o \in Touched \cap Objects : memory[o] = "freed"

AudioThreadFaults ==
    /\ TouchesFreed
    /\ apc' = "undefined"
    /\ UNCHANGED <<mainVars, mCommands, acquired, mixing, mixerVars>>

CallbackBegins ==
    /\ apc = "idle"
    /\ apc' = "poll"
    /\ UNCHANGED <<mainVars, mCommands, acquired, mixing, mixerVars>>

\* poll_commands takes the next command, of kind op.
Runs(op) ==
    /\ apc = "poll"
    /\ mCommands # <<>>
    /\ Head(mCommands).op = op
    /\ ~TouchesFreed
    /\ mCommands' = Tail(mCommands)
    /\ UNCHANGED <<mainVars, apc, mixing>>

RunCreateBuffer ==
    /\ Runs("createBuffer")
    /\ acquired' = acquired \cup {Head(mCommands).buffer}
    /\ UNCHANGED mixerVars

\* Mutant: a buffer some playback samples is kept.
RunDestroyBufferUnlessSampled ==
    /\ Runs("destroyBuffer")
    /\ acquired' = IF \E p \in ToSet(mPlaybackList) : buffer[p] = Head(mCommands).buffer
                   THEN acquired
                   ELSE acquired \ {Head(mCommands).buffer}
    /\ UNCHANGED mixerVars

RunDestroyBuffer ==
    /\ Runs("destroyBuffer")
    /\ acquired' = acquired \ {Head(mCommands).buffer}
    /\ UNCHANGED mixerVars

\* isPlaying, frameCursor after set_buffer, start, stop.
Rewind(p, isPlaying) ==
    /\ frameCursor' = [frameCursor EXCEPT ![p] = 0]
    /\ playing' = IF isPlaying THEN playing \cup {p} ELSE playing \ {p}

RunCreatePlayback ==
    LET p == Head(mCommands).playback
        b == Head(mCommands).buffer
    IN  /\ Runs("createPlayback")
        /\ IF p \notin acquired /\ b \in acquired
           THEN /\ acquired' = acquired \cup {p}
                /\ buffer' = [buffer EXCEPT ![p] = b]
                /\ Rewind(p, FALSE)
                /\ mPlaybackList' = <<p>> \o mPlaybackList
           ELSE UNCHANGED <<acquired, mixerVars>>

\* Mutant: the head of the list is unlinked.
RunDestroyPlaybackHead ==
    LET p == Head(mCommands).playback
    IN  /\ Runs("destroyPlayback")
        /\ acquired' = acquired \ {p}
        /\ mPlaybackList' = IF p \in acquired THEN Tail(mPlaybackList) ELSE mPlaybackList
        /\ UNCHANGED <<buffer, frameCursor, playing>>

\* Where a playback is linked.
PlaceOf(p) == CHOOSE i \in DOMAIN mPlaybackList : mPlaybackList[i] = p

RunDestroyPlayback ==
    LET p == Head(mCommands).playback
    IN  /\ Runs("destroyPlayback")
        /\ acquired' = acquired \ {p}
        /\ mPlaybackList' = IF p \in acquired THEN RemoveAt(mPlaybackList, PlaceOf(p))
                            ELSE mPlaybackList
        /\ UNCHANGED <<buffer, frameCursor, playing>>

\* Mutant: the cursor stays where it was in the old buffer.
RunSetPlaybackBufferKeepsCursor ==
    LET p == Head(mCommands).playback
        b == Head(mCommands).buffer
    IN  /\ Runs("setPlaybackBuffer")
        /\ buffer' = IF p \in acquired /\ b \in acquired THEN [buffer EXCEPT ![p] = b] ELSE buffer
        /\ UNCHANGED <<acquired, mPlaybackList, frameCursor, playing>>

RunSetPlaybackBuffer ==
    LET p == Head(mCommands).playback
        b == Head(mCommands).buffer
    IN  /\ Runs("setPlaybackBuffer")
        /\ IF p \in acquired /\ b \in acquired
           THEN buffer' = [buffer EXCEPT ![p] = b] /\ Rewind(p, FALSE)
           ELSE UNCHANGED <<buffer, frameCursor, playing>>
        /\ UNCHANGED <<acquired, mPlaybackList>>

RunControl(op) ==
    LET p == Head(mCommands).playback
    IN  /\ Runs(op)
        /\ IF p \notin acquired
           THEN UNCHANGED <<frameCursor, playing>>
           ELSE \/ op = "start" /\ Rewind(p, TRUE)
                \/ op = "stop" /\ Rewind(p, FALSE)
                \/ op = "pause" /\ playing' = playing \ {p} /\ UNCHANGED frameCursor
                \/ op = "resume" /\ playing' = playing \cup {p} /\ UNCHANGED frameCursor
        /\ UNCHANGED <<acquired, mPlaybackList, buffer>>

\* The queue is empty: mix starts at the head of the list.
CommandsPolled ==
    /\ apc = "poll"
    /\ mCommands = <<>>
    /\ apc' = "mix"
    /\ mixing' = mPlaybackList
    /\ UNCHANGED <<mainVars, mCommands, acquired, mixerVars>>

\* mix_playback reads until it has a period's frames or the buffer is exhausted.
MixPlayback ==
    LET p == Head(mixing)
        left == Frames[buffer[p]] - frameCursor[p]
    IN  /\ apc = "mix"
        /\ mixing # <<>>
        /\ ~TouchesFreed
        /\ IF p \notin playing
           THEN UNCHANGED <<frameCursor, playing>>
           ELSE IF left >= Period
                THEN /\ frameCursor' = [frameCursor EXCEPT ![p] = @ + Period]
                     /\ UNCHANGED playing
                ELSE /\ frameCursor' = [frameCursor EXCEPT ![p] = Frames[buffer[p]]]
                     /\ playing' = playing \ {p}
        /\ mixing' = Tail(mixing)
        /\ UNCHANGED <<mainVars, mCommands, acquired, apc, mPlaybackList, buffer>>

CallbackReturns ==
    /\ apc = "mix"
    /\ mixing = <<>>
    /\ apc' = "idle"
    /\ UNCHANGED <<mainVars, mCommands, acquired, mixing, mixerVars>>

AudioThread ==
    \/ CallbackBegins
    \/ RunCreateBuffer \/ RunDestroyBuffer
    \/ RunCreatePlayback \/ RunDestroyPlayback \/ RunSetPlaybackBuffer
    \/ \E op \in Controls : RunControl(op)
    \/ CommandsPolled \/ MixPlayback \/ CallbackReturns
    \/ AudioThreadFaults
-----------------------------------------------------------------------------
Next == MainThread \/ AudioThread \/ Terminated

Spec == Init /\ [][Next]_vars

\* The device, when there is one, keeps calling back and callbacks make
\* progress; a destructor that was called keeps running.  A device that is
\* asked to stop is given the chance between two callbacks.
Fairness == WF_vars(AudioThread) /\ WF_vars(Destructor) /\ SF_vars(DestructorEnds)

FairSpec == Spec /\ Fairness
=============================================================================
