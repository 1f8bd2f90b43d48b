-------------------------- MODULE AudioSystemProps --------------------------
(* What the audio system is relied on for, stated over AudioSystem.        *)
EXTENDS AudioSystem

(***************************************************************************)
(* The audio thread never touches a buffer the main thread has freed ("We  *)
(* can only free heap memory after audio thread releases the resource").   *)
(***************************************************************************)
NoTouchAfterFree == apc # "undefined"

(***************************************************************************)
(* The same, when the client destroyed no buffer the audio thread had not  *)
(* acquired yet, and no command was lost on which taking the buffer away   *)
(* from a playback depends: deferring the destruction until the release is *)
(* then enough, though the playbacks may be mixed until their commands run.*)
(***************************************************************************)
LostDetach == lost \cap {"createBuffer", "destroyPlayback", "setPlaybackBuffer"} # {}
NoTouchUnlessEarly == early = {} /\ ~LostDetach => NoTouchAfterFree

(***************************************************************************)
(* What the audio thread has acquired is live until it releases it.        *)
(***************************************************************************)
AcquiredIsLive == mpc # "down" => \A o \in acquired : memory[o] = "live"

(***************************************************************************)
(* The mixer's list holds each acquired playback once and no other: none   *)
(* is linked twice, which would make the list cyclic, and none is          *)
(* forgotten when another one is unlinked.                                 *)
(***************************************************************************)
PlaybackListExact ==
    /\ ToSet(mPlaybackList) = acquired \cap Playbacks
    /\ \A i, k \in DOMAIN mPlaybackList : mPlaybackList[i] = mPlaybackList[k] => i = k

(***************************************************************************)
(* The cursor of a playback is within its buffer, so that the unsigned     *)
(* number of frames left does not wrap and no frame is read past the end.  *)
(***************************************************************************)
CursorInBuffer ==
    \A p \in acquired \cap Playbacks :
        buffer[p] \in Buffers /\ frameCursor[p] <= Frames[buffer[p]]

(***************************************************************************)
(* ~AudioSystemObj returns, whatever the user destroyed, if no             *)
(* destroy_buffer command was lost ("Technically this deadlocks if user    *)
(* does not call destroy_buffer on all handles": it does not, it deadlocks *)
(* when the full queue refused the command).                               *)
(***************************************************************************)
DestructorReturnsUnlessLost ==
    mpc = "destructor" /\ "destroyBuffer" \notin lost ~> mpc = "down" \/ ~NoTouchAfterFree
=============================================================================
