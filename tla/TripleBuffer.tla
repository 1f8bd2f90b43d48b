---------------------------- MODULE TripleBuffer ----------------------------
(***************************************************************************)
(* TripleBuffer<T> of Include/Ludens/DSA/TripleBuffer.h: the main thread   *)
(* stores the state of an audio playback (pan, volume) while the audio     *)
(* thread loads it, without a lock.                                        *)
(*                                                                         *)
(* One writer, one reader, one step per atomic operation and two for the   *)
(* copy of the data, so that a reader of a slot being written sees Torn.   *)
(* The n-th store writes the value n and the slots start with the value 0. *)
(* The steps are sequentially consistent: exchange is a full fence on the  *)
(* x86-64 targets of the project, whatever memory order it names.          *)
(***************************************************************************)
EXTENDS Integers

CONSTANT MaxStores \* bound on the stores the writer makes

ASSUME MaxStoresIsNat == MaxStores \in Nat

VARIABLES
    mBuffers,
    mWriteIdx,
    mReadIdx,
    mLastIdx,
    mIsDirty,
    wpc,      \* where the writer is in store
    rpc,      \* where the reader is in load; it uses the result while "using"
    stored,   \* number of stores that returned
    due,      \* the value of stored when the reader's last load began
    overlap,  \* a load ran between the two atomic operations of the last store
    excused   \* overlap, when the reader's last load began

tripleVars == <<mBuffers, mWriteIdx, mReadIdx, mLastIdx, mIsDirty, wpc, rpc, stored, due, overlap, excused>>
writerVars == <<mWriteIdx, wpc, stored>>
readerVars == <<mReadIdx, rpc, due, excused>>

Slot == 0 .. 2
Torn == -1

TripleInit ==
    /\ mBuffers = [i \in Slot |-> 0]
    /\ mWriteIdx = 0
    /\ mReadIdx = 1
    /\ mLastIdx = 2
    /\ mIsDirty = FALSE
    /\ wpc = "idle"
    /\ rpc = "using"
    /\ stored = 0
    /\ due = 0
    /\ overlap = FALSE
    /\ excused = FALSE
-----------------------------------------------------------------------------
StoreBegin ==
    /\ wpc = "idle"
    /\ stored < MaxStores
    /\ mBuffers' = [mBuffers EXCEPT ![mWriteIdx] = Torn]
    /\ wpc' = "copy"
    /\ UNCHANGED <<mWriteIdx, mLastIdx, mIsDirty, stored, overlap, readerVars>>

StoreCopy ==
    /\ wpc = "copy"
    /\ mBuffers' = [mBuffers EXCEPT ![mWriteIdx] = stored + 1]
    /\ wpc' = "swap"
    /\ UNCHANGED <<mWriteIdx, mLastIdx, mIsDirty, stored, overlap, readerVars>>

\* Mutant: the index is published by a plain store.
StoreSwapKeeps ==
    /\ wpc = "swap"
    /\ mLastIdx' = mWriteIdx
    /\ wpc' = "mark"
    /\ overlap' = (rpc = "swap")
    /\ UNCHANGED <<mBuffers, mWriteIdx, mIsDirty, stored, readerVars>>

StoreSwap ==
    /\ wpc = "swap"
    /\ mWriteIdx' = mLastIdx
    /\ mLastIdx' = mWriteIdx
    /\ wpc' = "mark"
    /\ overlap' = (rpc = "swap")
    /\ UNCHANGED <<mBuffers, mIsDirty, stored, readerVars>>

\* Mutant: the reader is not told of the new value.
StoreMarkSilent ==
    /\ wpc = "mark"
    /\ wpc' = "idle"
    /\ stored' = stored + 1
    /\ UNCHANGED <<mBuffers, mWriteIdx, mLastIdx, mIsDirty, overlap, readerVars>>

StoreMark ==
    /\ wpc = "mark"
    /\ mIsDirty' = TRUE
    /\ wpc' = "idle"
    /\ stored' = stored + 1
    /\ UNCHANGED <<mBuffers, mWriteIdx, mLastIdx, overlap, readerVars>>

LoadTest ==
    /\ rpc = "using"
    /\ mIsDirty' = FALSE
    /\ rpc' = IF mIsDirty THEN "swap" ELSE "using"
    /\ due' = stored
    /\ overlap' = (overlap \/ wpc = "mark")
    /\ excused' = overlap'
    /\ UNCHANGED <<mBuffers, mLastIdx, mReadIdx, writerVars>>

LoadSwap ==
    /\ rpc = "swap"
    /\ mReadIdx' = mLastIdx
    /\ mLastIdx' = mReadIdx
    /\ rpc' = "using"
    /\ UNCHANGED <<mBuffers, mIsDirty, due, overlap, excused, writerVars>>

TripleNext == StoreBegin \/ StoreCopy \/ StoreSwap \/ StoreMark \/ LoadTest \/ LoadSwap

TripleSpec == TripleInit /\ [][TripleNext]_tripleVars
-----------------------------------------------------------------------------
TripleTypeOK ==
    /\ mBuffers \in [Slot -> 0 .. MaxStores \cup {Torn}]
    /\ mWriteIdx \in Slot
    /\ mReadIdx \in Slot
    /\ mLastIdx \in Slot
    /\ mIsDirty \in BOOLEAN
    /\ wpc \in {"idle", "copy", "swap", "mark"}
    /\ rpc \in {"using", "swap"}
    /\ stored \in 0 .. MaxStores
    /\ due \in 0 .. MaxStores
    /\ overlap \in BOOLEAN
    /\ excused \in BOOLEAN

(***************************************************************************)
(* Between two loads the reader uses a reference into mBuffers: no store   *)
(* ever writes the slot it refers to, so the audio thread never mixes with *)
(* a half-written pan and volume.                                          *)
(***************************************************************************)
ReadsWhole == mBuffers[mReadIdx] # Torn

(***************************************************************************)
(* load returns at least the newest value whose store had returned when it *)
(* was called ("Load latest buffer data").                                 *)
(***************************************************************************)
LoadsLatest == rpc = "using" => mBuffers[mReadIdx] >= due

(***************************************************************************)
(* The same, unless a load ran between the two atomic operations of the    *)
(* last store.  Only then can a load go back to an older value, and the    *)
(* next store that no load overlaps repairs it.                            *)
(***************************************************************************)
LatestUnlessOverlap == ~excused => LoadsLatest

(***************************************************************************)
(* The value of the last store that returned is never overwritten before a *)
(* newer one is in place: it stays in the slot of the reader or in the one *)
(* the reader takes next.                                                  *)
(***************************************************************************)
LastStoreKept ==
    wpc # "mark" => stored \in {mBuffers[mReadIdx], mBuffers[mLastIdx]}
=============================================================================
