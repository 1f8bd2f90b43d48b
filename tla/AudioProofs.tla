----------------------------- MODULE AudioProofs ----------------------------
(***************************************************************************)
(* Proofs about TripleBuffer, for any number of stores, and about          *)
(* AudioSystem, for any buffers, playbacks, frames and queue capacity.     *)
(*                                                                         *)
(* AudioSystem: AudioInv is inductive by itself and gives everything but   *)
(* the absence of faults. Ownership adds to it, for as long as no buffer   *)
(* was destroyed early and no command it depends on was lost, the order in *)
(* which the queue holds the commands about a buffer: it is created before *)
(* it is named, nothing names it after it is destroyed, and before it is   *)
(* destroyed it is taken away from each playback that plays it or is about *)
(* to.                                                                     *)
(***************************************************************************)
EXTENDS TripleBuffer, AudioSystemProps, SequenceTheorems, TLAPS

-----------------------------------------------------------------------------
(* TripleBuffer.                                                           *)

Values == 0 .. MaxStores

\* The three indices name the three slots.
Partition == mWriteIdx # mReadIdx /\ mWriteIdx # mLastIdx /\ mReadIdx # mLastIdx

\* Only the writer's slot can be torn.
OthersWhole == mBuffers[mReadIdx] \in Values /\ mBuffers[mLastIdx] \in Values

\* The value being stored is in the writer's slot until the indices are
\* swapped, and within the reader's reach from then on.
StoreInProgress ==
    /\ wpc # "idle" => stored < MaxStores
    /\ wpc = "swap" => mBuffers[mWriteIdx] = stored + 1
    /\ wpc = "mark" => stored + 1 \in {mBuffers[mReadIdx], mBuffers[mLastIdx]}

\* What mIsDirty means as long as no load overlapped the last store.
DirtyMeansNewer ==
    ~overlap =>
        IF wpc = "mark" THEN rpc = "using" /\ mBuffers[mLastIdx] = stored + 1
        ELSE \/ mBuffers[mReadIdx] = stored /\ ~mIsDirty /\ rpc = "using"
             \/ mBuffers[mLastIdx] = stored /\ mIsDirty /\ rpc = "using"
             \/ mBuffers[mLastIdx] = stored /\ ~mIsDirty /\ rpc = "swap"

LoadInProgress ==
    /\ due <= stored
    /\ ~excused => IF rpc = "swap" THEN mBuffers[mLastIdx] >= due
                                   ELSE mBuffers[mReadIdx] >= due

TripleInv ==
    /\ TripleTypeOK
    /\ Partition
    /\ OthersWhole
    /\ StoreInProgress
    /\ LastStoreKept
    /\ DirtyMeansNewer
    /\ LoadInProgress

-----------------------------------------------------------------------------
(* The initial slots and indices satisfy the inductive invariant.          *)
LEMMA TripleInvInit == TripleInit => TripleInv
<1> SUFFICES ASSUME TripleInit PROVE TripleInv
  OBVIOUS
<1> USE MaxStoresIsNat DEF TripleInit, Values, Slot, Torn
<1>1. TripleTypeOK
  <2>1. mBuffers \in [Slot -> 0 .. MaxStores \cup {Torn}]
    OBVIOUS
  <2>2. /\ mIsDirty \in BOOLEAN
        /\ overlap \in BOOLEAN
        /\ excused \in BOOLEAN
    OBVIOUS
  <2> QED
    BY <2>1, <2>2 DEF TripleTypeOK
<1>2. Partition /\ OthersWhole
  BY DEF Partition, OthersWhole
<1>3. StoreInProgress /\ LastStoreKept
  BY DEF StoreInProgress, LastStoreKept
<1>4. DirtyMeansNewer
  BY DEF DirtyMeansNewer
<1>5. LoadInProgress
  BY DEF LoadInProgress
<1> QED
  BY <1>1, <1>2, <1>3, <1>4, <1>5 DEF TripleInv

(* Every step of the writer and of the reader preserves it.                *)
LEMMA TripleInvStep == TripleInv /\ [TripleNext]_tripleVars => TripleInv'
<1> SUFFICES ASSUME TripleInv, [TripleNext]_tripleVars PROVE TripleInv'
  OBVIOUS
<1> USE MaxStoresIsNat DEF TripleInv, TripleTypeOK, Partition, OthersWhole, Values, Slot, Torn,
        StoreInProgress, LastStoreKept, DirtyMeansNewer, LoadInProgress
<1>1. CASE StoreBegin
  BY <1>1 DEF StoreBegin, readerVars
<1>2. CASE StoreCopy
  BY <1>2 DEF StoreCopy, readerVars
<1>3. CASE StoreSwap
  <2> USE <1>3 DEF StoreSwap, readerVars
  <2>1. overlap' \in BOOLEAN
    OBVIOUS
  <2>2. TripleTypeOK'
    BY <2>1
  <2>3. Partition' /\ OthersWhole'
    OBVIOUS
  <2>4. StoreInProgress' /\ LastStoreKept'
    OBVIOUS
  <2>5. ~overlap' => rpc' = "using"
    OBVIOUS
  <2>6. DirtyMeansNewer'
    BY <2>5
  <2>7. LoadInProgress'
    OBVIOUS
  <2> QED
    BY <2>2, <2>3, <2>4, <2>6, <2>7
<1>4. CASE StoreMark
  BY <1>4 DEF StoreMark, readerVars
<1>5. CASE LoadTest
  <2> USE <1>5 DEF LoadTest, writerVars
  <2>1. overlap' \in BOOLEAN /\ excused' \in BOOLEAN
    OBVIOUS
  <2>2. TripleTypeOK'
    BY <2>1
  <2>3. Partition' /\ OthersWhole'
    OBVIOUS
  <2>4. StoreInProgress' /\ LastStoreKept'
    OBVIOUS
  <2>5. ~overlap' => ~overlap /\ wpc # "mark"
    OBVIOUS
  <2>6. ~excused' => ~overlap /\ wpc # "mark"
    OBVIOUS
  <2>7. DirtyMeansNewer'
    BY <2>5
  <2>8. LoadInProgress'
    BY <2>6
  <2> QED
    BY <2>2, <2>3, <2>4, <2>7, <2>8
<1>6. CASE LoadSwap
  BY <1>6 DEF LoadSwap, writerVars
<1>7. CASE UNCHANGED tripleVars
  BY <1>7 DEF tripleVars
<1> QED
  BY <1>1, <1>2, <1>3, <1>4, <1>5, <1>6, <1>7 DEF TripleNext

(* The inductive invariant holds in every reachable state.                 *)
THEOREM TripleInvCorrect == TripleSpec => []TripleInv
  BY TripleInvInit, TripleInvStep, PTL DEF TripleSpec

(* The types of the shared slots, indices and flag, for any number of      *)
(* stores.                                                                 *)
THEOREM TripleTypeCorrect == TripleSpec => []TripleTypeOK
<1>1. TripleInv => TripleTypeOK
  BY DEF TripleInv
<1> QED
  BY <1>1, TripleInvCorrect, PTL

(* The audio thread never reads a half-written state.                      *)
THEOREM ReadsWholeCorrect == TripleSpec => []ReadsWhole
<1>1. TripleInv => ReadsWhole
  BY MaxStoresIsNat DEF TripleInv, OthersWhole, ReadsWhole, Values, Torn
<1> QED
  BY <1>1, TripleInvCorrect, PTL

(* The last value whose store returned is not overwritten.                 *)
THEOREM LastStoreKeptCorrect == TripleSpec => []LastStoreKept
<1>1. TripleInv => LastStoreKept
  BY DEF TripleInv
<1> QED
  BY <1>1, TripleInvCorrect, PTL

(* A load is stale only after a load that overlapped the last store.       *)
THEOREM LatestCorrect == TripleSpec => []LatestUnlessOverlap
<1>1. TripleInv => LatestUnlessOverlap
  BY DEF TripleInv, LoadInProgress, LatestUnlessOverlap, LoadsLatest
<1> QED
  BY <1>1, TripleInvCorrect, PTL
-----------------------------------------------------------------------------
(* AudioSystem.                                                            *)

\* The kinds of command.
Ops ==
    {"createBuffer", "destroyBuffer", "createPlayback", "destroyPlayback", "setPlaybackBuffer"}
    \cup Controls

\* The commands of the client, by the fields they have.
Command ==
    [op : {"createBuffer", "destroyBuffer"}, buffer : Buffers] \cup
    [op : {"destroyPlayback"} \cup Controls, playback : Playbacks] \cup
    [op : {"createPlayback", "setPlaybackBuffer"}, playback : Playbacks, buffer : Buffers]

\* Which buffer, and which playback, a command names.
OfBuffer(c, b) ==
    c.op \in {"createBuffer", "destroyBuffer", "createPlayback", "setPlaybackBuffer"} /\ c.buffer = b
OfPlayback(c, p) == c.op \notin {"createBuffer", "destroyBuffer"} /\ c.playback = p

\* The commands that make the audio thread acquire and release a buffer.
Creates(c, b) == c.op = "createBuffer" /\ c.buffer = b
Destroys(c, b) == c.op = "destroyBuffer" /\ c.buffer = b

\* What makes p play b, and what takes b away from p.
Attaches(c, p, b) ==
    c.op \in {"createPlayback", "setPlaybackBuffer"} /\ c.playback = p /\ c.buffer = b
Detaches(c, p, b) ==
    \/ c.op = "destroyPlayback" /\ c.playback = p
    \/ c.op = "setPlaybackBuffer" /\ c.playback = p /\ c.buffer # b

AudioTypeOK ==
    /\ mpc \in {"running", "update", "destructor", "down"}
    /\ visit \subseteq Buffers
    /\ mDeferredBufferDestruction \subseteq Buffers
    /\ wants \in [Playbacks -> Buffers \cup {NoBuffer}]
    /\ memory \in [Objects -> {"none", "live", "freed"}]
    /\ mCommands \in Seq(Command)
    /\ acquired \subseteq Objects
    /\ apc \in {"off", "idle", "poll", "mix", "undefined"}
    /\ mPlaybackList \in Seq(Playbacks)
    /\ mixing \in Seq(Playbacks)
    /\ buffer \in [Playbacks -> Buffers \cup {NoBuffer}]
    /\ frameCursor \in [Playbacks -> Nat]
    /\ playing \subseteq Playbacks
    /\ lost \subseteq Ops
    /\ early \subseteq Buffers

\* What is left to mix is acquired: commands run between two mixes only.
MixingAcquired == apc = "mix" => \A i \in DOMAIN mixing : mixing[i] \in acquired

\* A queued command names objects that were allocated.
CommandsAllocated ==
    \A i \in DOMAIN mCommands :
        /\ \A b \in Buffers : OfBuffer(mCommands[i], b) => memory[b] # "none"
        /\ \A p \in Playbacks : OfPlayback(mCommands[i], p) => memory[p] # "none"

\* The playbacks are freed with the system, when the device is off, and the
\* client holds none it did not create.
PlaybacksFreedLast ==
    /\ mpc = "down" => apc = "off"
    /\ \A p \in Playbacks : memory[p] = "freed" => mpc = "down"
    /\ \A p \in Playbacks : memory[p] = "none" => wants[p] = NoBuffer

\* A buffer whose destruction is deferred is not freed yet, and no playback
\* the client holds wants it.
DeferredLive ==
    /\ visit \subseteq mDeferredBufferDestruction
    /\ \A b \in mDeferredBufferDestruction : memory[b] = "live"
    /\ \A p \in Playbacks : Held(p) => Usable(wants[p])

\* The client destroyed the buffer and the audio thread does not have it.
Released(b) == memory[b] # "none" /\ ~Usable(b) /\ b \notin acquired

\* The client does not use a buffer once the command to destroy it is queued.
DestroyedOnce ==
    \A b \in Buffers, k \in DOMAIN mCommands :
        Destroys(mCommands[k], b) => memory[b] # "none" /\ ~Usable(b)

\* No command that follows it names the buffer.
NothingAfterDestroy ==
    \A b \in Buffers, k, m \in DOMAIN mCommands :
        Destroys(mCommands[k], b) /\ k < m => ~OfBuffer(mCommands[m], b)

\* Neither the queue nor the mixer names a buffer that was released.
ReleasedForgotten ==
    \A b \in Buffers : Released(b) =>
        /\ \A k \in DOMAIN mCommands : ~OfBuffer(mCommands[k], b)
        /\ \A p \in acquired \cap Playbacks : buffer[p] # b

\* A playback that plays a buffer about to be destroyed loses it first.
PlayedIsDetached ==
    \A b \in Buffers, k \in DOMAIN mCommands, p \in acquired \cap Playbacks :
        Destroys(mCommands[k], b) /\ buffer[p] = b => \E i \in 1 .. k - 1 : Detaches(mCommands[i], p, b)

\* So does one that a queued command will have play it.
AttachedIsDetached ==
    \A b \in Buffers, k \in DOMAIN mCommands, p \in Playbacks : \A j \in 1 .. k - 1 :
        Destroys(mCommands[k], b) /\ Attaches(mCommands[j], p, b) =>
            \E i \in j + 1 .. k - 1 : Detaches(mCommands[i], p, b)

\* A playback whose client wants it to play something else, or nothing, will
\* lose the buffer it plays, or will be made to play.
UnwantedPlayedIsDetached ==
    \A b \in Buffers, p \in acquired \cap Playbacks :
        buffer[p] = b /\ wants[p] # b => \E i \in DOMAIN mCommands : Detaches(mCommands[i], p, b)
UnwantedAttachedIsDetached ==
    \A b \in Buffers, p \in Playbacks, j \in DOMAIN mCommands :
        Attaches(mCommands[j], p, b) /\ wants[p] # b =>
        \E i \in DOMAIN mCommands : j < i /\ Detaches(mCommands[i], p, b)

\* A buffer is acquired before a command that names it runs.
CreatedBefore ==
    \A b \in Buffers, k \in DOMAIN mCommands :
        OfBuffer(mCommands[k], b) /\ ~Creates(mCommands[k], b) =>
            b \in acquired \/ \E i \in 1 .. k - 1 : Creates(mCommands[i], b)

\* A buffer the client may use is acquired or will be.
UsableCreated ==
    \A b \in Buffers : Usable(b) => b \in acquired \/ \E i \in DOMAIN mCommands : Creates(mCommands[i], b)

\* No buffer was destroyed early and no command was lost that ownership
\* depends on.
Orderly == early = {} /\ ~LostDetach

Owned ==
    /\ NothingAfterDestroy
    /\ ReleasedForgotten
    /\ PlayedIsDetached
    /\ AttachedIsDetached
    /\ UnwantedPlayedIsDetached
    /\ UnwantedAttachedIsDetached
    /\ CreatedBefore
    /\ UsableCreated

\* The inductive invariant.
AudioInv ==
    /\ AudioTypeOK
    /\ PlaybackListExact
    /\ CursorInBuffer
    /\ MixingAcquired
    /\ CommandsAllocated
    /\ PlaybacksFreedLast
    /\ DeferredLive
    /\ DestroyedOnce
    /\ AcquiredIsLive

\* What it needs beside it for the absence of faults.
Ownership == Orderly => Owned /\ NoTouchAfterFree

-----------------------------------------------------------------------------
(* What a command names is what the callback touches when it runs it.      *)
LEMMA CommandNames ==
    ASSUME NEW c \in Command, NEW o \in Objects
    PROVE  o \in {c[f] : f \in DOMAIN c \ {"op"}} <=>
               \/ o \in Buffers /\ OfBuffer(c, o)
               \/ o \in Playbacks /\ OfPlayback(c, o)
<1> USE AudioConstants DEF Objects, OfBuffer, OfPlayback
<1>1. CASE c \in [op : {"createBuffer", "destroyBuffer"}, buffer : Buffers]
  <2>1. DOMAIN c = {"op", "buffer"} /\ c.op \in {"createBuffer", "destroyBuffer"} /\ c.buffer \in Buffers
    BY <1>1
  <2> QED
    BY <2>1
<1>2. CASE c \in [op : {"destroyPlayback"} \cup Controls, playback : Playbacks]
  <2>1. DOMAIN c = {"op", "playback"} /\ c.op \in {"destroyPlayback"} \cup Controls /\ c.playback \in Playbacks
    BY <1>2
  <2>2. c.op \notin {"createBuffer", "destroyBuffer", "createPlayback", "setPlaybackBuffer"}
    BY <2>1
  <2> QED
    BY <2>1, <2>2
<1>3. CASE c \in [op : {"createPlayback", "setPlaybackBuffer"}, playback : Playbacks, buffer : Buffers]
  <2>1. /\ DOMAIN c = {"op", "playback", "buffer"}
        /\ c.op \in {"createPlayback", "setPlaybackBuffer"}
        /\ c.playback \in Playbacks
        /\ c.buffer \in Buffers
    BY <1>3
  <2> QED
    BY <2>1
<1> QED
  BY <1>1, <1>2, <1>3 DEF Command

\* The fields a command of each kind has.
LEMMA CommandFields ==
    ASSUME NEW c \in Command
    PROVE  /\ c.op \in Ops
           /\ c.op \in {"createBuffer", "destroyBuffer", "createPlayback", "setPlaybackBuffer"}
                  => c.buffer \in Buffers
           /\ c.op \notin {"createBuffer", "destroyBuffer"} => c.playback \in Playbacks
<1> USE AudioConstants DEF Ops
<1>1. CASE c \in [op : {"createBuffer", "destroyBuffer"}, buffer : Buffers]
  BY <1>1
<1>2. CASE c \in [op : {"destroyPlayback"} \cup Controls, playback : Playbacks]
  <2>1. c.op \notin {"createBuffer", "destroyBuffer", "createPlayback", "setPlaybackBuffer"}
    BY <1>2
  <2> QED
    BY <1>2, <2>1
<1>3. CASE c \in [op : {"createPlayback", "setPlaybackBuffer"}, playback : Playbacks, buffer : Buffers]
  BY <1>3
<1> QED
  BY <1>1, <1>2, <1>3 DEF Command

\* A command is queued last or lost.
LEMMA SendEffect ==
    ASSUME mCommands \in Seq(Command), NEW cmd \in Command, Send(cmd)
    PROVE  /\ mCommands' \in Seq(Command)
           /\ \/ /\ lost' = lost
                 /\ Len(mCommands') = Len(mCommands) + 1
                 /\ \A i \in 1 .. Len(mCommands) : mCommands'[i] = mCommands[i]
                 /\ mCommands'[Len(mCommands) + 1] = cmd
              \/ lost' = lost \cup {cmd.op} /\ mCommands' = mCommands
BY DEF Send

\* Running a command leaves the others, one place further on.
LEMMA RunEffect ==
    ASSUME mCommands \in Seq(Command), NEW op, Runs(op)
    PROVE  /\ Head(mCommands) = mCommands[1]
           /\ mCommands[1] \in Command
           /\ Len(mCommands) \in Nat \ {0}
           /\ mCommands' \in Seq(Command)
           /\ Len(mCommands') = Len(mCommands) - 1
           /\ \A i \in 1 .. Len(mCommands) - 1 : mCommands'[i] = mCommands[i + 1]
BY DEF Runs

\* RemoveAt closes the gap.
LEMMA RemoveAtShifts ==
    ASSUME NEW S, NEW s \in Seq(S), NEW n \in 1 .. Len(s)
    PROVE  /\ RemoveAt(s, n) \in Seq(S)
           /\ Len(RemoveAt(s, n)) = Len(s) - 1
           /\ \A i \in 1 .. Len(s) - 1 : RemoveAt(s, n)[i] = IF i < n THEN s[i] ELSE s[i + 1]
<1> DEFINE before == SubSeq(s, 1, n - 1)
           after == SubSeq(s, n + 1, Len(s))
<1>0. /\ Len(s) \in Nat
      /\ n \in Nat
      /\ n - 1 \in Int
      /\ n + 1 \in Int
      /\ \A i \in 1 .. Len(s) : s[i] \in S
  OBVIOUS
<1>1. /\ before \in Seq(S)
      /\ Len(before) = n - 1
      /\ \A i \in 1 .. n - 1 : before[i] = s[i]
  <2>1. \A i \in 1 .. n - 1 : s[i] \in S
    BY <1>0
  <2>2. /\ before \in Seq(S)
        /\ Len(before) = IF 1 <= n - 1 THEN n - 1 - 1 + 1 ELSE 0
        /\ \A i \in 1 .. n - 1 - 1 + 1 : before[i] = s[1 + i - 1]
    BY <1>0, <2>1, SubSeqProperties
  <2> QED
    BY <1>0, <2>2
<1>2. /\ after \in Seq(S)
      /\ Len(after) = Len(s) - n
      /\ \A i \in 1 .. Len(s) - n : after[i] = s[n + i]
  <2>1. \A i \in n + 1 .. Len(s) : s[i] \in S
    BY <1>0
  <2>2. /\ after \in Seq(S)
        /\ Len(after) = IF n + 1 <= Len(s) THEN Len(s) - (n + 1) + 1 ELSE 0
        /\ \A i \in 1 .. Len(s) - (n + 1) + 1 : after[i] = s[n + 1 + i - 1]
    BY <1>0, <2>1, SubSeqProperties
  <2> QED
    BY <1>0, <2>2
<1>3. RemoveAt(s, n) = before \o after
  BY DEF RemoveAt
<1> HIDE DEF before, after
<1>4. /\ RemoveAt(s, n) \in Seq(S)
      /\ Len(RemoveAt(s, n)) = Len(s) - 1
  BY <1>0, <1>1, <1>2, <1>3
<1>5. ASSUME NEW i \in 1 .. Len(s) - 1
      PROVE  RemoveAt(s, n)[i] = IF i < n THEN s[i] ELSE s[i + 1]
  <2>1. CASE i < n
    BY <1>0, <1>1, <1>2, <1>3, <2>1
  <2>2. CASE ~(i < n)
    <3>1. i - (n - 1) \in 1 .. Len(s) - n /\ n + (i - (n - 1)) = i + 1
      BY <1>0, <2>2
    <3>2. RemoveAt(s, n)[i] = after[i - (n - 1)]
      BY <1>0, <1>1, <1>2, <1>3, <2>2
    <3> QED
      BY <1>2, <2>2, <3>1, <3>2
  <2> QED
    BY <2>1, <2>2
<1> QED
  BY <1>4, <1>5

\* What unlinking a playback leaves of a list that holds it once.
LEMMA Unlinked ==
    ASSUME mPlaybackList \in Seq(Playbacks),
           \A i, k \in DOMAIN mPlaybackList : mPlaybackList[i] = mPlaybackList[k] => i = k,
           NEW p \in ToSet(mPlaybackList)
    PROVE  LET rest == RemoveAt(mPlaybackList, PlaceOf(p))
           IN  /\ rest \in Seq(Playbacks)
               /\ ToSet(rest) = ToSet(mPlaybackList) \ {p}
               /\ \A i, k \in DOMAIN rest : rest[i] = rest[k] => i = k
<1> DEFINE n == PlaceOf(p)
           rest == RemoveAt(mPlaybackList, n)
<1>1. n \in DOMAIN mPlaybackList /\ mPlaybackList[n] = p
  <2>1. \E i \in DOMAIN mPlaybackList : mPlaybackList[i] = p
    BY DEF ToSet
  <2> QED
    BY <2>1 DEF PlaceOf
<1>2. n \in 1 .. Len(mPlaybackList)
  BY <1>1
<1> HIDE DEF n
<1>3. /\ rest \in Seq(Playbacks)
      /\ Len(rest) = Len(mPlaybackList) - 1
      /\ \A i \in 1 .. Len(rest) :
            rest[i] = IF i < n THEN mPlaybackList[i] ELSE mPlaybackList[i + 1]
  BY <1>2, RemoveAtShifts
<1> HIDE DEF rest
<1>4. ToSet(rest) \subseteq ToSet(mPlaybackList) \ {p}
  <2> SUFFICES ASSUME NEW i \in 1 .. Len(rest) PROVE rest[i] \in ToSet(mPlaybackList) \ {p}
    BY <1>3 DEF ToSet
  <2>1. PICK j \in 1 .. Len(mPlaybackList) : rest[i] = mPlaybackList[j] /\ j # n
    BY <1>2, <1>3
  <2> QED
    BY <2>1, <1>1 DEF ToSet
<1>5. ToSet(mPlaybackList) \ {p} \subseteq ToSet(rest)
  <2> SUFFICES ASSUME NEW j \in 1 .. Len(mPlaybackList), j # n PROVE mPlaybackList[j] \in ToSet(rest)
    BY <1>1 DEF ToSet
  <2>1. PICK i \in 1 .. Len(rest) : rest[i] = mPlaybackList[j]
    <3>1. CASE j < n
      BY <3>1, <1>2, <1>3
    <3>2. CASE j > n
      <4>1. j - 1 \in 1 .. Len(rest) /\ ~(j - 1 < n) /\ (j - 1) + 1 = j
        BY <3>2, <1>2, <1>3
      <4> QED
        BY <4>1, <1>3
    <3> QED
      BY <3>1, <3>2, <1>2
  <2> QED
    BY <2>1, <1>3 DEF ToSet
<1>6. ASSUME NEW i \in DOMAIN rest, NEW k \in DOMAIN rest, rest[i] = rest[k]
      PROVE  i = k
  <2> DEFINE at(m) == IF m < n THEN m ELSE m + 1
  <2>1. at(i) \in DOMAIN mPlaybackList /\ rest[i] = mPlaybackList[at(i)]
    BY <1>2, <1>3
  <2>2. at(k) \in DOMAIN mPlaybackList /\ rest[k] = mPlaybackList[at(k)]
    BY <1>2, <1>3
  <2>3. at(i) = at(k)
    BY <1>6, <2>1, <2>2
  <2> QED
    BY <1>2, <1>3, <2>3
<1> QED
  BY <1>3, <1>4, <1>5, <1>6 DEF n, rest
\* The initial state satisfies AudioInv.
LEMMA AudioInvInit == Init => AudioInv
<1> SUFFICES ASSUME Init PROVE AudioInv
  OBVIOUS
<1> USE AudioConstants DEF Init, Objects
<1>1. AudioTypeOK
  BY DEF AudioTypeOK, Ops
<1>2. PlaybackListExact /\ CursorInBuffer /\ MixingAcquired
  BY DEF PlaybackListExact, CursorInBuffer, MixingAcquired, ToSet
<1>3. CommandsAllocated /\ DestroyedOnce
  BY DEF CommandsAllocated, DestroyedOnce
<1>4. PlaybacksFreedLast /\ DeferredLive /\ AcquiredIsLive
  BY DEF PlaybacksFreedLast, DeferredLive, AcquiredIsLive, Held
<1> QED
  BY <1>1, <1>2, <1>3, <1>4 DEF AudioInv

\* A call that sends a command leaves the audio thread's state alone.
LEMMA ClientLeavesMixer ==
    ASSUME AudioInv, NEW cmd, ClientCalls(cmd)
    PROVE  PlaybackListExact' /\ CursorInBuffer' /\ MixingAcquired'
BY DEF AudioInv, ClientCalls, mixerVars, PlaybackListExact, CursorInBuffer, MixingAcquired

\* A command that is queued names allocated objects, and what it destroys is
\* no longer usable.
LEMMA ClientSends ==
    ASSUME AudioInv, NEW cmd \in Command, ClientCalls(cmd),
           \A o \in Objects : memory[o] # "none" => memory'[o] # "none",
           \A b \in Buffers : memory[b] # "none" /\ ~Usable(b) => ~Usable(b)',
           \A b \in Buffers : OfBuffer(cmd, b) => memory'[b] # "none",
           \A p \in Playbacks : OfPlayback(cmd, p) => memory'[p] # "none",
           \A b \in Buffers : Destroys(cmd, b) => ~Usable(b)'
    PROVE  /\ mCommands' \in Seq(Command)
           /\ lost' \subseteq Ops
           /\ CommandsAllocated'
           /\ DestroyedOnce'
<1>1. mCommands \in Seq(Command) /\ lost \subseteq Ops
  BY DEF AudioInv, AudioTypeOK
<1>2. /\ mCommands' \in Seq(Command)
      /\ \/ /\ lost' = lost
            /\ Len(mCommands') = Len(mCommands) + 1
            /\ \A i \in 1 .. Len(mCommands) : mCommands'[i] = mCommands[i]
            /\ mCommands'[Len(mCommands) + 1] = cmd
         \/ lost' = lost \cup {cmd.op} /\ mCommands' = mCommands
  BY <1>1, SendEffect DEF ClientCalls
<1>3. lost' \subseteq Ops
  BY <1>1, <1>2, CommandFields
<1>4. ASSUME NEW i \in DOMAIN mCommands'
      PROVE  mCommands'[i] = cmd \/ (i \in DOMAIN mCommands /\ mCommands'[i] = mCommands[i])
  BY <1>1, <1>2
<1>5. CommandsAllocated'
  <2> SUFFICES ASSUME NEW i \in DOMAIN mCommands'
               PROVE  /\ \A b \in Buffers : OfBuffer(mCommands'[i], b) => memory'[b] # "none"
                      /\ \A p \in Playbacks : OfPlayback(mCommands'[i], p) => memory'[p] # "none"
    BY DEF CommandsAllocated
  <2>1. CASE mCommands'[i] = cmd
    BY <2>1
  <2>2. CASE i \in DOMAIN mCommands /\ mCommands'[i] = mCommands[i]
    BY <2>2 DEF AudioInv, CommandsAllocated, Objects
  <2> QED
    BY <1>4, <2>1, <2>2
<1>6. DestroyedOnce'
  <2> SUFFICES ASSUME NEW b \in Buffers, NEW k \in DOMAIN mCommands', Destroys(mCommands'[k], b)
               PROVE  memory'[b] # "none" /\ ~Usable(b)'
    BY DEF DestroyedOnce
  <2>1. CASE mCommands'[k] = cmd
    BY <2>1 DEF Destroys, OfBuffer
  <2>2. CASE k \in DOMAIN mCommands /\ mCommands'[k] = mCommands[k]
    BY <2>2 DEF AudioInv, DestroyedOnce, Objects
  <2> QED
    BY <1>4, <2>1, <2>2
<1> QED
  BY <1>2, <1>3, <1>5, <1>6

\* The calls of the client keep AudioInv.
LEMMA CreateBufferStep ==
    ASSUME AudioInv, NEW b \in Buffers, CreateBuffer(b)
    PROVE  AudioInv'
<1> DEFINE cmd == [op |-> "createBuffer", buffer |-> b]
<1> USE AudioConstants DEF Objects
<1>1. /\ ClientCalls(cmd)
      /\ mpc = "running"
      /\ memory[b] = "none"
      /\ memory' = [memory EXCEPT ![b] = "live"]
      /\ UNCHANGED <<mpc, visit, mDeferredBufferDestruction, wants, early, acquired, apc, mixing, mixerVars>>
  BY DEF CreateBuffer, ClientCalls
<1>2. cmd \in Command /\ cmd.op = "createBuffer" /\ cmd.buffer = b
  BY DEF Command
<1> HIDE DEF cmd
<1>3. /\ \A o \in Objects : memory[o] # "none" => memory'[o] # "none"
      /\ \A a \in Buffers : memory[a] # "none" /\ ~Usable(a) => ~Usable(a)'
      /\ memory'[b] # "none"
  BY <1>1 DEF AudioInv, AudioTypeOK, Usable
<1>4. /\ mCommands' \in Seq(Command)
      /\ lost' \subseteq Ops
      /\ CommandsAllocated'
      /\ DestroyedOnce'
  BY <1>1, <1>2, <1>3, ClientSends DEF OfBuffer, OfPlayback, Destroys
<1>5. AudioTypeOK'
  BY <1>1, <1>4 DEF AudioInv, AudioTypeOK, mixerVars
<1>6. PlaybackListExact' /\ CursorInBuffer' /\ MixingAcquired'
  BY <1>1, ClientLeavesMixer
<1>7. PlaybacksFreedLast'
  BY <1>1 DEF AudioInv, AudioTypeOK, PlaybacksFreedLast
<1>8. DeferredLive'
  BY <1>1 DEF AudioInv, AudioTypeOK, DeferredLive, Held, Usable
<1>9. AcquiredIsLive'
  BY <1>1 DEF AudioInv, AudioTypeOK, AcquiredIsLive
<1> QED
  BY <1>4, <1>5, <1>6, <1>7, <1>8, <1>9 DEF AudioInv

\* Destroying a buffer defers its destruction and frees nothing.
LEMMA DestroyBufferStep ==
    ASSUME AudioInv, NEW b \in Buffers, DestroyBuffer(b)
    PROVE  AudioInv'
<1> DEFINE cmd == [op |-> "destroyBuffer", buffer |-> b]
<1> USE AudioConstants DEF Objects
<1>1. /\ ClientCalls(cmd)
      /\ mpc = "running"
      /\ Usable(b)
      /\ \A p \in Playbacks : wants[p] # b
      /\ mDeferredBufferDestruction' = mDeferredBufferDestruction \cup {b}
      /\ early' \in {early, early \cup {b}}
      /\ UNCHANGED <<mpc, visit, wants, memory, acquired, apc, mixing, mixerVars>>
  BY DEF DestroyBuffer, ClientCalls
<1>2. cmd \in Command /\ cmd.op = "destroyBuffer" /\ cmd.buffer = b
  BY DEF Command
<1> HIDE DEF cmd
<1>3. /\ \A o \in Objects : memory[o] # "none" => memory'[o] # "none"
      /\ \A a \in Buffers : memory[a] # "none" /\ ~Usable(a) => ~Usable(a)'
      /\ memory'[b] # "none"
      /\ ~Usable(b)'
  BY <1>1 DEF AudioInv, AudioTypeOK, Usable
<1>4. /\ mCommands' \in Seq(Command)
      /\ lost' \subseteq Ops
      /\ CommandsAllocated'
      /\ DestroyedOnce'
  BY <1>1, <1>2, <1>3, ClientSends DEF OfBuffer, OfPlayback, Destroys
<1>5. AudioTypeOK'
  BY <1>1, <1>4 DEF AudioInv, AudioTypeOK, mixerVars
<1>6. PlaybackListExact' /\ CursorInBuffer' /\ MixingAcquired'
  BY <1>1, ClientLeavesMixer
<1>7. PlaybacksFreedLast' /\ AcquiredIsLive'
  BY <1>1 DEF AudioInv, AudioTypeOK, PlaybacksFreedLast, AcquiredIsLive
<1>8. DeferredLive'
  BY <1>1 DEF AudioInv, AudioTypeOK, DeferredLive, Held, Usable
<1> QED
  BY <1>4, <1>5, <1>6, <1>7, <1>8 DEF AudioInv

\* A new playback wants a usable buffer.
LEMMA CreatePlaybackStep ==
    ASSUME AudioInv, NEW p \in Playbacks, NEW b \in Buffers, CreatePlayback(p, b)
    PROVE  AudioInv'
<1> DEFINE cmd == [op |-> "createPlayback", playback |-> p, buffer |-> b]
<1> USE AudioConstants DEF Objects
<1>1. /\ ClientCalls(cmd)
      /\ mpc = "running"
      /\ Usable(b)
      /\ memory[p] = "none"
      /\ memory' = [memory EXCEPT ![p] = "live"]
      /\ wants' = [wants EXCEPT ![p] = b]
      /\ UNCHANGED <<mpc, visit, mDeferredBufferDestruction, early, acquired, apc, mixing, mixerVars>>
  BY DEF CreatePlayback, ClientCalls
<1>2. cmd \in Command /\ cmd.op = "createPlayback" /\ cmd.playback = p /\ cmd.buffer = b
  BY DEF Command
<1> HIDE DEF cmd
<1>3. /\ \A o \in Objects : memory[o] # "none" => memory'[o] # "none"
      /\ \A a \in Buffers : memory'[a] = memory[a] /\ (Usable(a)' <=> Usable(a))
      /\ memory'[b] # "none"
      /\ memory'[p] # "none"
  BY <1>1 DEF AudioInv, AudioTypeOK, Usable
<1>4. /\ mCommands' \in Seq(Command)
      /\ lost' \subseteq Ops
      /\ CommandsAllocated'
      /\ DestroyedOnce'
  BY <1>1, <1>2, <1>3, ClientSends DEF OfBuffer, OfPlayback, Destroys
<1>5. AudioTypeOK'
  BY <1>1, <1>4 DEF AudioInv, AudioTypeOK, mixerVars
<1>6. PlaybackListExact' /\ CursorInBuffer' /\ MixingAcquired'
  BY <1>1, ClientLeavesMixer
<1>7. PlaybacksFreedLast' /\ AcquiredIsLive'
  BY <1>1 DEF AudioInv, AudioTypeOK, PlaybacksFreedLast, AcquiredIsLive
<1>8. DeferredLive'
  BY <1>1, <1>3 DEF AudioInv, AudioTypeOK, DeferredLive, Held
<1> QED
  BY <1>4, <1>5, <1>6, <1>7, <1>8 DEF AudioInv

\* The calls on a playback the client holds.
LEMMA HeldAllocated ==
    ASSUME AudioInv, NEW p \in Playbacks, Held(p)
    PROVE  memory[p] # "none"
BY DEF AudioInv, PlaybacksFreedLast, Held

\* A destroyed playback stays allocated.
LEMMA DestroyPlaybackStep ==
    ASSUME AudioInv, NEW p \in Playbacks, DestroyPlayback(p)
    PROVE  AudioInv'
<1> DEFINE cmd == [op |-> "destroyPlayback", playback |-> p]
<1> USE AudioConstants DEF Objects
<1>1. /\ ClientCalls(cmd)
      /\ mpc = "running"
      /\ Held(p)
      /\ wants' = [wants EXCEPT ![p] = NoBuffer]
      /\ UNCHANGED <<mpc, visit, mDeferredBufferDestruction, memory, early, acquired, apc, mixing, mixerVars>>
  BY DEF DestroyPlayback, ClientCalls
<1>2. cmd \in Command /\ cmd.op = "destroyPlayback" /\ cmd.playback = p
  BY DEF Command
<1> HIDE DEF cmd
<1>3. \A a \in Buffers : Usable(a)' <=> Usable(a)
  BY <1>1 DEF Usable
<1>4. /\ mCommands' \in Seq(Command)
      /\ lost' \subseteq Ops
      /\ CommandsAllocated'
      /\ DestroyedOnce'
  BY <1>1, <1>2, <1>3, HeldAllocated, ClientSends DEF OfBuffer, OfPlayback, Destroys
<1>5. AudioTypeOK'
  BY <1>1, <1>4 DEF AudioInv, AudioTypeOK, mixerVars
<1>6. PlaybackListExact' /\ CursorInBuffer' /\ MixingAcquired'
  BY <1>1, ClientLeavesMixer
<1>7. PlaybacksFreedLast' /\ AcquiredIsLive'
  BY <1>1 DEF AudioInv, AudioTypeOK, PlaybacksFreedLast, AcquiredIsLive
<1>8. DeferredLive'
  BY <1>1, <1>3 DEF AudioInv, AudioTypeOK, DeferredLive, Held
<1> QED
  BY <1>4, <1>5, <1>6, <1>7, <1>8 DEF AudioInv

\* A playback is given a usable buffer.
LEMMA SetPlaybackBufferStep ==
    ASSUME AudioInv, NEW p \in Playbacks, NEW b \in Buffers, SetPlaybackBuffer(p, b)
    PROVE  AudioInv'
<1> DEFINE cmd == [op |-> "setPlaybackBuffer", playback |-> p, buffer |-> b]
<1> USE AudioConstants DEF Objects
<1>1. /\ ClientCalls(cmd)
      /\ mpc = "running"
      /\ Held(p)
      /\ Usable(b)
      /\ wants' = [wants EXCEPT ![p] = b]
      /\ UNCHANGED <<mpc, visit, mDeferredBufferDestruction, memory, early, acquired, apc, mixing, mixerVars>>
  BY DEF SetPlaybackBuffer, ClientCalls
<1>2. cmd \in Command /\ cmd.op = "setPlaybackBuffer" /\ cmd.playback = p /\ cmd.buffer = b
  BY DEF Command
<1> HIDE DEF cmd
<1>3. memory[b] = "live" /\ \A a \in Buffers : Usable(a)' <=> Usable(a)
  BY <1>1 DEF Usable
<1>4. /\ mCommands' \in Seq(Command)
      /\ lost' \subseteq Ops
      /\ CommandsAllocated'
      /\ DestroyedOnce'
  BY <1>1, <1>2, <1>3, HeldAllocated, ClientSends DEF OfBuffer, OfPlayback, Destroys
<1>5. AudioTypeOK'
  BY <1>1, <1>4 DEF AudioInv, AudioTypeOK, mixerVars
<1>6. PlaybackListExact' /\ CursorInBuffer' /\ MixingAcquired'
  BY <1>1, ClientLeavesMixer
<1>7. PlaybacksFreedLast' /\ AcquiredIsLive'
  BY <1>1, HeldAllocated DEF AudioInv, AudioTypeOK, PlaybacksFreedLast, AcquiredIsLive
<1>8. DeferredLive'
  BY <1>1, <1>3 DEF AudioInv, AudioTypeOK, DeferredLive, Held
<1> QED
  BY <1>4, <1>5, <1>6, <1>7, <1>8 DEF AudioInv

\* start, stop, pause and resume only send their command.
LEMMA ControlPlaybackStep ==
    ASSUME AudioInv, NEW p \in Playbacks, NEW op \in Controls, ControlPlayback(p, op)
    PROVE  AudioInv'
<1> DEFINE cmd == [op |-> op, playback |-> p]
<1> USE AudioConstants DEF Objects
<1>1. /\ ClientCalls(cmd)
      /\ Held(p)
      /\ UNCHANGED <<mpc, visit, mDeferredBufferDestruction, wants, memory, early, acquired, apc, mixing, mixerVars>>
  BY DEF ControlPlayback, ClientCalls
<1>2. cmd \in Command /\ cmd.op = op /\ cmd.playback = p
  BY DEF Command
<1>3. op \notin {"createBuffer", "destroyBuffer", "createPlayback", "setPlaybackBuffer"}
  OBVIOUS
<1> HIDE DEF cmd
<1>4. /\ mCommands' \in Seq(Command)
      /\ lost' \subseteq Ops
      /\ CommandsAllocated'
      /\ DestroyedOnce'
  <2>1. \A a \in Buffers : Usable(a)' <=> Usable(a)
    BY <1>1 DEF Usable
  <2> QED
    BY <1>1, <1>2, <1>3, <2>1, HeldAllocated, ClientSends DEF OfBuffer, OfPlayback, Destroys
<1>5. AudioTypeOK'
  BY <1>1, <1>4 DEF AudioInv, AudioTypeOK, mixerVars
<1>6. PlaybackListExact' /\ CursorInBuffer' /\ MixingAcquired'
  BY <1>1, ClientLeavesMixer
<1>7. PlaybacksFreedLast' /\ AcquiredIsLive' /\ DeferredLive'
  BY <1>1 DEF AudioInv, PlaybacksFreedLast, AcquiredIsLive, DeferredLive, Held, Usable
<1> QED
  BY <1>4, <1>5, <1>6, <1>7 DEF AudioInv

\* A buffer is freed when it is not acquired.
LEMMA PollDeferredDestructionStep ==
    ASSUME AudioInv, NEW b \in Buffers, PollDeferredDestruction(b)
    PROVE  AudioInv'
<1> USE AudioConstants DEF Objects
<1>1. /\ b \in visit
      /\ visit' = visit \ {b}
      /\ \/ /\ b \in acquired
            /\ UNCHANGED <<memory, mDeferredBufferDestruction>>
         \/ /\ b \notin acquired
            /\ memory' = [memory EXCEPT ![b] = "freed"]
            /\ mDeferredBufferDestruction' = mDeferredBufferDestruction \ {b}
      /\ UNCHANGED <<mpc, wants, lost, early, mCommands, acquired, apc, mixing, mixerVars>>
  BY DEF PollDeferredDestruction
<1>2. /\ \A o \in Objects : memory[o] # "none" => memory'[o] # "none"
      /\ \A a \in Buffers : memory[a] # "none" /\ ~Usable(a) => ~Usable(a)'
      /\ \A a \in Buffers : Usable(a) => Usable(a)'
      /\ \A p \in Playbacks : memory'[p] = memory[p]
  BY <1>1 DEF AudioInv, AudioTypeOK, Usable, DeferredLive
<1>3. AudioTypeOK'
  BY <1>1 DEF AudioInv, AudioTypeOK, mixerVars
<1>4. PlaybackListExact' /\ CursorInBuffer' /\ MixingAcquired'
  BY <1>1 DEF AudioInv, PlaybackListExact, CursorInBuffer, MixingAcquired, mixerVars
<1>5. CommandsAllocated'
  BY <1>1, <1>2 DEF AudioInv, CommandsAllocated
<1>6. DestroyedOnce'
  BY <1>1, <1>2 DEF AudioInv, DestroyedOnce
<1>7. PlaybacksFreedLast' /\ AcquiredIsLive'
  BY <1>1, <1>2 DEF AudioInv, AudioTypeOK, PlaybacksFreedLast, AcquiredIsLive
<1>8. DeferredLive'
  <2>1. \A a \in mDeferredBufferDestruction' : memory'[a] = "live"
    BY <1>1 DEF AudioInv, AudioTypeOK, DeferredLive
  <2>2. \A p \in Playbacks : Held(p)' => Usable(wants[p])'
    BY <1>1, <1>2 DEF AudioInv, AudioTypeOK, DeferredLive, Held
  <2> QED
    BY <1>1, <2>1, <2>2 DEF AudioInv, DeferredLive
<1> QED
  BY <1>3, <1>4, <1>5, <1>6, <1>7, <1>8 DEF AudioInv

\* The steps of update and of the destructor that free nothing.
LEMMA MainMovesStep ==
    ASSUME AudioInv, Update \/ UpdateReturns \/ Destroy \/ DestructorPolls
    PROVE  AudioInv'
<1>1. /\ visit' \in {visit, mDeferredBufferDestruction}
      /\ mpc \in {"running", "update", "destructor"}
      /\ mpc' \in {"running", "update", "destructor"}
      /\ UNCHANGED <<mDeferredBufferDestruction, wants, memory, lost, early, mCommands, acquired, apc,
                     mixing, mixerVars>>
  BY DEF Update, UpdateReturns, Destroy, DestructorPolls
<1>2. AudioTypeOK'
  BY <1>1 DEF AudioInv, AudioTypeOK, mixerVars
<1>3. PlaybackListExact' /\ CursorInBuffer' /\ MixingAcquired'
  BY <1>1 DEF AudioInv, PlaybackListExact, CursorInBuffer, MixingAcquired, mixerVars
<1>4. CommandsAllocated' /\ DestroyedOnce'
  BY <1>1 DEF AudioInv, CommandsAllocated, DestroyedOnce, Usable
<1>5. PlaybacksFreedLast' /\ AcquiredIsLive' /\ DeferredLive'
  BY <1>1 DEF AudioInv, PlaybacksFreedLast, AcquiredIsLive, DeferredLive, Held, Usable
<1> QED
  BY <1>2, <1>3, <1>4, <1>5 DEF AudioInv

\* The playbacks are freed once the device is off.
LEMMA DestructorEndsStep ==
    ASSUME AudioInv, DestructorEnds
    PROVE  AudioInv'
<1> USE AudioConstants DEF Objects
<1>1. /\ mpc' = "down"
      /\ apc' = "off"
      /\ memory' = [o \in Objects |->
                      IF o \in Playbacks /\ memory[o] = "live" THEN "freed" ELSE memory[o]]
      /\ UNCHANGED <<visit, mDeferredBufferDestruction, wants, lost, early, mCommands, acquired, mixing,
                     mixerVars>>
  BY DEF DestructorEnds
<1>2. /\ \A o \in Objects : memory[o] # "none" <=> memory'[o] # "none"
      /\ \A b \in Buffers : Usable(b)' <=> Usable(b)
      /\ \A b \in Buffers : memory'[b] = memory[b]
  BY <1>1 DEF AudioInv, AudioTypeOK, Usable
<1>3. AudioTypeOK'
  BY <1>1 DEF AudioInv, AudioTypeOK, mixerVars
<1>4. PlaybackListExact' /\ CursorInBuffer' /\ MixingAcquired'
  BY <1>1 DEF AudioInv, PlaybackListExact, CursorInBuffer, MixingAcquired, mixerVars
<1>5. CommandsAllocated' /\ DestroyedOnce'
  BY <1>1, <1>2 DEF AudioInv, CommandsAllocated, DestroyedOnce
<1>6. PlaybacksFreedLast' /\ AcquiredIsLive'
  BY <1>1, <1>2 DEF AudioInv, PlaybacksFreedLast, AcquiredIsLive
<1>7. DeferredLive'
  BY <1>1, <1>2 DEF AudioInv, AudioTypeOK, DeferredLive, Held
<1> QED
  BY <1>3, <1>4, <1>5, <1>6, <1>7 DEF AudioInv

-----------------------------------------------------------------------------
\* The command the audio thread takes names live objects, and the others
\* name what they named.
LEMMA CommandTaken ==
    ASSUME AudioInv, NEW op, Runs(op)
    PROVE  /\ Head(mCommands) \in Command
           /\ Head(mCommands).op = op
           /\ mpc # "down"
           /\ \A b \in Buffers : OfBuffer(Head(mCommands), b) => memory[b] = "live"
           /\ \A p \in Playbacks : OfPlayback(Head(mCommands), p) => memory[p] = "live"
           /\ mCommands' \in Seq(Command)
           /\ CommandsAllocated'
           /\ DestroyedOnce'
           /\ MixingAcquired'
           /\ PlaybacksFreedLast'
           /\ DeferredLive'
<1> USE AudioConstants DEF Objects
<1>1. mCommands \in Seq(Command)
  BY DEF AudioInv, AudioTypeOK
<1>2. /\ Head(mCommands) = mCommands[1]
      /\ mCommands[1] \in Command
      /\ Len(mCommands) \in Nat \ {0}
      /\ mCommands' \in Seq(Command)
      /\ Len(mCommands') = Len(mCommands) - 1
      /\ \A i \in 1 .. Len(mCommands) - 1 : mCommands'[i] = mCommands[i + 1]
  BY <1>1, RunEffect
<1>3. /\ apc = "poll" /\ mCommands # <<>> /\ Head(mCommands).op = op /\ ~TouchesFreed
      /\ UNCHANGED <<mainVars, apc, mixing>>
  BY DEF Runs
<1>4. ASSUME NEW o \in Objects,
             \/ o \in Buffers /\ OfBuffer(Head(mCommands), o)
             \/ o \in Playbacks /\ OfPlayback(Head(mCommands), o)
      PROVE  memory[o] = "live"
  <2>1. memory[o] # "freed"
    BY <1>2, <1>3, <1>4, CommandNames DEF TouchesFreed, Touched
  <2>2. memory[o] # "none"
    BY <1>1, <1>2, <1>4 DEF AudioInv, CommandsAllocated
  <2> QED
    BY <2>1, <2>2 DEF AudioInv, AudioTypeOK
<1>5. \A i \in DOMAIN mCommands' : i + 1 \in DOMAIN mCommands /\ mCommands'[i] = mCommands[i + 1]
  BY <1>1, <1>2
<1>6. CommandsAllocated' /\ DestroyedOnce'
  BY <1>3, <1>5 DEF AudioInv, CommandsAllocated, DestroyedOnce, mainVars, Usable
<1>7. mpc # "down"
  BY <1>3 DEF AudioInv, PlaybacksFreedLast
<1>8. MixingAcquired' /\ PlaybacksFreedLast' /\ DeferredLive'
  BY <1>3 DEF AudioInv, MixingAcquired, PlaybacksFreedLast, DeferredLive, Held, Usable, mainVars
<1> QED
  BY <1>2, <1>3, <1>4, <1>6, <1>7, <1>8

\* The commands keep AudioInv: a buffer is acquired while it is live.
LEMMA RunCreateBufferStep ==
    ASSUME AudioInv, RunCreateBuffer
    PROVE  AudioInv'
<1> USE AudioConstants DEF Objects
<1> DEFINE b == Head(mCommands).buffer
<1>1. /\ Runs("createBuffer")
      /\ acquired' = acquired \cup {b}
      /\ UNCHANGED <<mainVars, apc, mixing, mixerVars>>
  BY DEF RunCreateBuffer, Runs
<1>2. b \in Buffers /\ memory[b] = "live"
  BY <1>1, CommandTaken, CommandFields DEF OfBuffer
<1> HIDE DEF b
<1>3. AudioTypeOK'
  BY <1>1, <1>2, CommandTaken DEF AudioInv, AudioTypeOK, mixerVars, mainVars
<1>4. PlaybackListExact' /\ CursorInBuffer'
  BY <1>1, <1>2 DEF AudioInv, PlaybackListExact, CursorInBuffer, mixerVars
<1>5. AcquiredIsLive'
  BY <1>1, <1>2 DEF AudioInv, AcquiredIsLive, mainVars
<1> QED
  BY <1>1, <1>3, <1>4, <1>5, CommandTaken DEF AudioInv

\* A buffer is released, whoever plays it.
LEMMA RunDestroyBufferStep ==
    ASSUME AudioInv, RunDestroyBuffer
    PROVE  AudioInv'
<1> USE AudioConstants DEF Objects
<1> DEFINE b == Head(mCommands).buffer
<1>1. /\ Runs("destroyBuffer")
      /\ acquired' = acquired \ {b}
      /\ UNCHANGED <<mainVars, apc, mixing, mixerVars>>
  BY DEF RunDestroyBuffer, Runs
<1>2. b \in Buffers
  BY <1>1, CommandTaken, CommandFields
<1> HIDE DEF b
<1>3. AudioTypeOK'
  BY <1>1, <1>2, CommandTaken DEF AudioInv, AudioTypeOK, mixerVars, mainVars
<1>4. PlaybackListExact' /\ CursorInBuffer'
  BY <1>1, <1>2 DEF AudioInv, PlaybackListExact, CursorInBuffer, mixerVars
<1>5. AcquiredIsLive'
  BY <1>1, <1>2 DEF AudioInv, AcquiredIsLive, mainVars
<1> QED
  BY <1>1, <1>3, <1>4, <1>5, CommandTaken DEF AudioInv

\* A playback is linked first, when it is not linked yet.
LEMMA RunCreatePlaybackStep ==
    ASSUME AudioInv, RunCreatePlayback
    PROVE  AudioInv'
<1> USE AudioConstants DEF Objects
<1> DEFINE p == Head(mCommands).playback
           b == Head(mCommands).buffer
<1>1. /\ Runs("createPlayback")
      /\ \/ /\ p \notin acquired /\ b \in acquired
            /\ acquired' = acquired \cup {p}
            /\ buffer' = [buffer EXCEPT ![p] = b]
            /\ frameCursor' = [frameCursor EXCEPT ![p] = 0]
            /\ playing' = playing \ {p}
            /\ mPlaybackList' = <<p>> \o mPlaybackList
         \/ UNCHANGED <<acquired, mixerVars>>
      /\ UNCHANGED <<mainVars, apc, mixing>>
  BY DEF RunCreatePlayback, Runs, Rewind
<1>2. p \in Playbacks /\ b \in Buffers /\ memory[p] = "live"
  BY <1>1, CommandTaken, CommandFields DEF OfPlayback
<1> HIDE DEF p, b
<1>3. CASE UNCHANGED <<acquired, mixerVars>>
  <2>1. AudioTypeOK'
    BY <1>1, <1>3, CommandTaken DEF AudioInv, AudioTypeOK, mixerVars, mainVars
  <2>2. PlaybackListExact' /\ CursorInBuffer' /\ AcquiredIsLive'
    BY <1>1, <1>3 DEF AudioInv, PlaybackListExact, CursorInBuffer, AcquiredIsLive, mixerVars, mainVars
  <2> QED
    BY <1>1, <2>1, <2>2, CommandTaken DEF AudioInv
<1>4. CASE /\ p \notin acquired /\ b \in acquired
           /\ acquired' = acquired \cup {p}
           /\ buffer' = [buffer EXCEPT ![p] = b]
           /\ frameCursor' = [frameCursor EXCEPT ![p] = 0]
           /\ playing' = playing \ {p}
           /\ mPlaybackList' = <<p>> \o mPlaybackList
  <2>1. /\ mPlaybackList' \in Seq(Playbacks)
        /\ Len(mPlaybackList') = Len(mPlaybackList) + 1
        /\ mPlaybackList'[1] = p
        /\ \A i \in 2 .. Len(mPlaybackList) + 1 : mPlaybackList'[i] = mPlaybackList[i - 1]
    BY <1>2, <1>4 DEF AudioInv, AudioTypeOK
  <2>2. AudioTypeOK'
    BY <1>1, <1>2, <1>4, <2>1, CommandTaken DEF AudioInv, AudioTypeOK, mainVars
  <2>3. AcquiredIsLive'
    BY <1>1, <1>2, <1>4 DEF AudioInv, AcquiredIsLive, mainVars
  <2>4. CursorInBuffer'
    BY <1>2, <1>4 DEF AudioInv, AudioTypeOK, CursorInBuffer
  <2>5. PlaybackListExact'
    <3>1. mPlaybackList \in Seq(Playbacks) /\ Len(mPlaybackList) \in Nat
      BY DEF AudioInv, AudioTypeOK
    <3>2. ToSet(mPlaybackList)' = ToSet(mPlaybackList) \cup {p}
      <4>1. \A i \in DOMAIN mPlaybackList' :
               mPlaybackList'[i] = p \/ (i - 1 \in DOMAIN mPlaybackList /\ mPlaybackList'[i] = mPlaybackList[i - 1])
        BY <2>1, <3>1
      <4>2. \A i \in DOMAIN mPlaybackList :
               i + 1 \in DOMAIN mPlaybackList' /\ mPlaybackList'[i + 1] = mPlaybackList[i]
        <5> SUFFICES ASSUME NEW i \in 1 .. Len(mPlaybackList)
                     PROVE  i + 1 \in DOMAIN mPlaybackList' /\ mPlaybackList'[i + 1] = mPlaybackList[i]
          BY <3>1
        <5>1. i + 1 \in 2 .. Len(mPlaybackList) + 1 /\ (i + 1) - 1 = i
          BY <3>1
        <5> QED
          BY <2>1, <3>1, <5>1
      <4>3. 1 \in DOMAIN mPlaybackList'
        BY <2>1, <3>1
      <4> QED
        BY <2>1, <4>1, <4>2, <4>3 DEF ToSet
    <3>3. p \notin ToSet(mPlaybackList)
      BY <1>4 DEF AudioInv, PlaybackListExact
    <3>4. ASSUME NEW i \in DOMAIN mPlaybackList', NEW k \in DOMAIN mPlaybackList',
                 mPlaybackList'[i] = mPlaybackList'[k]
          PROVE  i = k
      <4>1. ASSUME NEW j \in DOMAIN mPlaybackList', j # 1
            PROVE  /\ j - 1 \in DOMAIN mPlaybackList
                   /\ mPlaybackList'[j] = mPlaybackList[j - 1]
                   /\ mPlaybackList'[j] # p
        <5>1. j - 1 \in DOMAIN mPlaybackList /\ mPlaybackList'[j] = mPlaybackList[j - 1]
          BY <2>1, <3>1, <4>1
        <5> QED
          BY <5>1, <3>3 DEF ToSet
      <4>2. CASE i = 1 \/ k = 1
        BY <2>1, <3>4, <4>1, <4>2
      <4>3. CASE i # 1 /\ k # 1
        <5>1. i - 1 = k - 1
          BY <3>4, <4>1, <4>3 DEF AudioInv, PlaybackListExact
        <5> QED
          BY <2>1, <3>1, <5>1
      <4> QED
        BY <4>2, <4>3
    <3> QED
      BY <1>2, <1>4, <3>2, <3>4 DEF AudioInv, PlaybackListExact
  <2> QED
    BY <1>1, <2>2, <2>3, <2>4, <2>5, CommandTaken DEF AudioInv
<1> QED
  BY <1>1, <1>3, <1>4

\* A playback is unlinked and the rest of the list stays.
LEMMA RunDestroyPlaybackStep ==
    ASSUME AudioInv, RunDestroyPlayback
    PROVE  AudioInv'
<1> USE AudioConstants DEF Objects
<1> DEFINE p == Head(mCommands).playback
<1>1. /\ Runs("destroyPlayback")
      /\ acquired' = acquired \ {p}
      /\ mPlaybackList' = IF p \in acquired THEN RemoveAt(mPlaybackList, PlaceOf(p)) ELSE mPlaybackList
      /\ UNCHANGED <<mainVars, apc, mixing, buffer, frameCursor, playing>>
  BY DEF RunDestroyPlayback, Runs
<1>2. p \in Playbacks
  BY <1>1, CommandTaken, CommandFields
<1> HIDE DEF p
<1>3. mPlaybackList' \in Seq(Playbacks) /\ PlaybackListExact'
  <2>1. CASE p \notin acquired
    BY <1>1, <2>1 DEF AudioInv, AudioTypeOK, PlaybackListExact
  <2>2. CASE p \in acquired
    <3>1. p \in ToSet(mPlaybackList)
      BY <1>2, <2>2 DEF AudioInv, PlaybackListExact
    <3>2. /\ mPlaybackList' \in Seq(Playbacks)
          /\ ToSet(mPlaybackList') = ToSet(mPlaybackList) \ {p}
          /\ \A i, k \in DOMAIN mPlaybackList' : mPlaybackList'[i] = mPlaybackList'[k] => i = k
      BY <1>1, <2>2, <3>1, Unlinked DEF AudioInv, AudioTypeOK, PlaybackListExact
    <3> QED
      BY <1>1, <3>2 DEF AudioInv, PlaybackListExact
  <2> QED
    BY <2>1, <2>2
<1>4. AudioTypeOK'
  BY <1>1, <1>3, CommandTaken DEF AudioInv, AudioTypeOK, mainVars
<1>5. CursorInBuffer' /\ AcquiredIsLive'
  BY <1>1 DEF AudioInv, CursorInBuffer, AcquiredIsLive, mainVars
<1> QED
  BY <1>1, <1>3, <1>4, <1>5, CommandTaken DEF AudioInv

\* The cursor is rewound with the new buffer.
LEMMA RunSetPlaybackBufferStep ==
    ASSUME AudioInv, RunSetPlaybackBuffer
    PROVE  AudioInv'
<1> USE AudioConstants DEF Objects
<1> DEFINE p == Head(mCommands).playback
           b == Head(mCommands).buffer
<1>1. /\ Runs("setPlaybackBuffer")
      /\ \/ /\ buffer' = [buffer EXCEPT ![p] = b]
            /\ frameCursor' = [frameCursor EXCEPT ![p] = 0]
            /\ playing' = playing \ {p}
         \/ UNCHANGED <<buffer, frameCursor, playing>>
      /\ UNCHANGED <<mainVars, apc, mixing, acquired, mPlaybackList>>
  BY DEF RunSetPlaybackBuffer, Runs, Rewind
<1>2. p \in Playbacks /\ b \in Buffers
  BY <1>1, CommandTaken, CommandFields
<1> HIDE DEF p, b
<1>3. /\ buffer' \in [Playbacks -> Buffers \cup {NoBuffer}]
      /\ frameCursor' \in [Playbacks -> Nat]
      /\ playing' \subseteq Playbacks
      /\ \A q \in Playbacks : \/ buffer'[q] \in Buffers /\ frameCursor'[q] = 0
                              \/ buffer'[q] = buffer[q] /\ frameCursor'[q] = frameCursor[q]
  <2>1. /\ buffer \in [Playbacks -> Buffers \cup {NoBuffer}]
        /\ frameCursor \in [Playbacks -> Nat]
        /\ playing \subseteq Playbacks
    BY DEF AudioInv, AudioTypeOK
  <2>2. CASE UNCHANGED <<buffer, frameCursor, playing>>
    BY <2>1, <2>2
  <2>3. CASE /\ buffer' = [buffer EXCEPT ![p] = b]
             /\ frameCursor' = [frameCursor EXCEPT ![p] = 0]
             /\ playing' = playing \ {p}
    BY <1>2, <2>1, <2>3
  <2> QED
    BY <1>1, <2>2, <2>3
<1>4. AudioTypeOK'
  BY <1>1, <1>3, CommandTaken DEF AudioInv, AudioTypeOK, mainVars
<1>5. PlaybackListExact' /\ AcquiredIsLive'
  BY <1>1 DEF AudioInv, PlaybackListExact, AcquiredIsLive, mainVars
<1>6. CursorInBuffer'
  BY <1>1, <1>3 DEF AudioInv, AudioTypeOK, CursorInBuffer
<1> QED
  BY <1>1, <1>4, <1>5, <1>6, CommandTaken DEF AudioInv

\* start and stop rewind, pause and resume leave the cursor.
LEMMA RunControlStep ==
    ASSUME AudioInv, NEW op \in Controls, RunControl(op)
    PROVE  AudioInv'
<1> USE AudioConstants DEF Objects
<1> DEFINE p == Head(mCommands).playback
<1>1. /\ Runs(op)
      /\ frameCursor' \in {frameCursor, [frameCursor EXCEPT ![p] = 0]}
      /\ playing' \in {playing, playing \cup {p}, playing \ {p}}
      /\ UNCHANGED <<mainVars, apc, mixing, acquired, mPlaybackList, buffer>>
  BY DEF RunControl, Runs, Rewind
<1>2. p \in Playbacks
  <2>1. op \notin {"createBuffer", "destroyBuffer"}
    OBVIOUS
  <2> QED
    BY <1>1, <2>1, CommandTaken, CommandFields
<1> HIDE DEF p
<1>3. /\ frameCursor' \in [Playbacks -> Nat]
      /\ playing' \subseteq Playbacks
      /\ \A q \in Playbacks : frameCursor'[q] \in {0, frameCursor[q]}
  BY <1>1, <1>2 DEF AudioInv, AudioTypeOK
<1>4. AudioTypeOK'
  BY <1>1, <1>3, CommandTaken DEF AudioInv, AudioTypeOK, mainVars
<1>5. PlaybackListExact' /\ AcquiredIsLive'
  BY <1>1 DEF AudioInv, PlaybackListExact, AcquiredIsLive, mainVars
<1>6. CursorInBuffer'
  BY <1>1, <1>3 DEF AudioInv, AudioTypeOK, CursorInBuffer
<1> QED
  BY <1>1, <1>4, <1>5, <1>6, CommandTaken DEF AudioInv

\* The cursor stops at the end of the buffer.
LEMMA MixPlaybackStep ==
    ASSUME AudioInv, MixPlayback
    PROVE  AudioInv'
<1> USE AudioConstants DEF Objects
<1> DEFINE p == Head(mixing)
           left == Frames[buffer[p]] - frameCursor[p]
<1>1. /\ apc = "mix"
      /\ mixing # <<>>
      /\ IF p \notin playing
         THEN UNCHANGED <<frameCursor, playing>>
         ELSE IF left >= Period
              THEN /\ frameCursor' = [frameCursor EXCEPT ![p] = @ + Period]
                   /\ UNCHANGED playing
              ELSE /\ frameCursor' = [frameCursor EXCEPT ![p] = Frames[buffer[p]]]
                   /\ playing' = playing \ {p}
      /\ mixing' = Tail(mixing)
      /\ UNCHANGED <<mainVars, mCommands, acquired, apc, mPlaybackList, buffer>>
  BY DEF MixPlayback
<1>2. /\ mixing \in Seq(Playbacks)
      /\ mixing' \in Seq(Playbacks)
      /\ p = mixing[1]
      /\ 1 \in DOMAIN mixing
      /\ \A i \in DOMAIN mixing' : i + 1 \in DOMAIN mixing /\ mixing'[i] = mixing[i + 1]
  BY <1>1 DEF AudioInv, AudioTypeOK
<1>3. /\ p \in Playbacks
      /\ buffer[p] \in Buffers
      /\ frameCursor \in [Playbacks -> Nat]
      /\ Frames[buffer[p]] \in Nat
      /\ Period \in Nat
      /\ frameCursor[p] <= Frames[buffer[p]]
  BY <1>1, <1>2 DEF AudioInv, AudioTypeOK, MixingAcquired, CursorInBuffer
<1>4. /\ frameCursor' \in [Playbacks -> Nat]
      /\ \A q \in Playbacks : q # p => frameCursor'[q] = frameCursor[q]
      /\ frameCursor'[p] <= Frames[buffer[p]]
  <2>1. CASE p \notin playing
    BY <1>1, <1>3, <2>1
  <2>2. CASE p \in playing /\ left >= Period
    <3>1. frameCursor' = [frameCursor EXCEPT ![p] = @ + Period]
      BY <1>1, <2>2
    <3>2. frameCursor[p] + Period \in Nat /\ frameCursor[p] + Period <= Frames[buffer[p]]
      BY <1>3, <2>2
    <3> QED
      BY <1>3, <3>1, <3>2
  <2>3. CASE p \in playing /\ ~(left >= Period)
    <3>1. frameCursor' = [frameCursor EXCEPT ![p] = Frames[buffer[p]]]
      BY <1>1, <2>3
    <3> QED
      BY <1>3, <3>1
  <2> QED
    BY <2>1, <2>2, <2>3
<1>5. playing' \subseteq Playbacks
  BY <1>1 DEF AudioInv, AudioTypeOK
<1> HIDE DEF p, left
<1>6. AudioTypeOK'
  BY <1>1, <1>2, <1>4, <1>5 DEF AudioInv, AudioTypeOK, mainVars
<1>7. CursorInBuffer'
  BY <1>1, <1>3, <1>4 DEF AudioInv, AudioTypeOK, CursorInBuffer
<1>8. MixingAcquired'
  BY <1>1, <1>2 DEF AudioInv, MixingAcquired
<1>9. PlaybackListExact' /\ CommandsAllocated' /\ DestroyedOnce'
  BY <1>1 DEF AudioInv, PlaybackListExact, CommandsAllocated, DestroyedOnce, Usable, mainVars
<1>10. PlaybacksFreedLast' /\ DeferredLive' /\ AcquiredIsLive'
  BY <1>1 DEF AudioInv, PlaybacksFreedLast, DeferredLive, AcquiredIsLive, Held, Usable, mainVars
<1> QED
  BY <1>6, <1>7, <1>8, <1>9, <1>10 DEF AudioInv

\* The steps that only move the audio thread on.
LEMMA CallbackMovesStep ==
    ASSUME AudioInv, CallbackBegins \/ CommandsPolled \/ CallbackReturns \/ AudioThreadFaults
    PROVE  AudioInv'
<1>1. /\ apc \in {"idle", "poll", "mix"}
      /\ apc' \in {"idle", "poll", "mix", "undefined"}
      /\ mixing' \in {mixing, mPlaybackList}
      /\ apc' = "mix" => mixing' = mPlaybackList
      /\ UNCHANGED <<mainVars, mCommands, acquired, mixerVars>>
  <2>1. TouchesFreed => apc \in {"poll", "mix"}
    BY DEF TouchesFreed, Touched
  <2> QED
    BY <2>1 DEF CallbackBegins, CommandsPolled, CallbackReturns, AudioThreadFaults
<1>2. AudioTypeOK'
  BY <1>1 DEF AudioInv, AudioTypeOK, mainVars, mixerVars
<1>3. MixingAcquired'
  BY <1>1 DEF AudioInv, MixingAcquired, PlaybackListExact, ToSet, mixerVars
<1>4. PlaybackListExact' /\ CursorInBuffer' /\ CommandsAllocated' /\ DestroyedOnce'
  BY <1>1 DEF AudioInv, PlaybackListExact, CursorInBuffer, CommandsAllocated, DestroyedOnce, Usable,
              mainVars, mixerVars
<1>5. PlaybacksFreedLast'
  BY <1>1 DEF AudioInv, PlaybacksFreedLast, mainVars
<1>6. DeferredLive' /\ AcquiredIsLive'
  BY <1>1 DEF AudioInv, DeferredLive, AcquiredIsLive, Held, Usable, mainVars
<1> QED
  BY <1>2, <1>3, <1>4, <1>5, <1>6 DEF AudioInv

\* Every step keeps AudioInv.
LEMMA AudioInvStep == AudioInv /\ [Next]_vars => AudioInv'
<1> SUFFICES ASSUME AudioInv, [Next]_vars PROVE AudioInv'
  OBVIOUS
<1>1. CASE MainThread
  BY <1>1, CreateBufferStep, DestroyBufferStep, CreatePlaybackStep, SetPlaybackBufferStep,
     DestroyPlaybackStep, ControlPlaybackStep, PollDeferredDestructionStep, MainMovesStep,
     DestructorEndsStep
     DEF MainThread, Destructor
<1>2. CASE AudioThread
  BY <1>2, RunCreateBufferStep, RunDestroyBufferStep, RunCreatePlaybackStep, RunDestroyPlaybackStep,
     RunSetPlaybackBufferStep, RunControlStep, MixPlaybackStep, CallbackMovesStep
     DEF AudioThread
<1>3. CASE UNCHANGED vars
  BY <1>3 DEF vars, mainVars, mixerVars, AudioInv, AudioTypeOK, PlaybackListExact, CursorInBuffer,
              MixingAcquired, CommandsAllocated, PlaybacksFreedLast, DeferredLive, DestroyedOnce,
              AcquiredIsLive, Held, Usable
<1> QED
  BY <1>1, <1>2, <1>3 DEF Next, Terminated

\* AudioInv holds in every state of every instance.
THEOREM AudioInvariant == Spec => []AudioInv
<1> QED
  BY AudioInvInit, AudioInvStep, PTL DEF Spec

-----------------------------------------------------------------------------
(* Ownership.                                                              *)

\* Once a command was lost or a buffer destroyed early, it stays so.
LEMMA OrderlyBefore ==
    ASSUME [Next]_vars
    PROVE  Orderly' => Orderly
<1>1. /\ early \subseteq early'
      /\ lost \subseteq lost'
  <2> USE DEF mainVars
  <2>1. CASE MainThread
    <3>1. ASSUME NEW cmd, ClientCalls(cmd) PROVE lost \subseteq lost'
      BY <3>1 DEF ClientCalls, Send
    <3>2. CASE \E b \in Buffers : CreateBuffer(b) \/ DestroyBuffer(b)
      BY <3>1, <3>2 DEF CreateBuffer, DestroyBuffer
    <3>3. CASE \E p \in Playbacks, b \in Buffers : CreatePlayback(p, b) \/ SetPlaybackBuffer(p, b)
      BY <3>1, <3>3 DEF CreatePlayback, SetPlaybackBuffer
    <3>4. CASE \/ \E p \in Playbacks : DestroyPlayback(p)
               \/ \E p \in Playbacks, op \in Controls : ControlPlayback(p, op)
      BY <3>1, <3>4 DEF DestroyPlayback, ControlPlayback
    <3>5. CASE Update \/ UpdateReturns \/ Destroy \/ Destructor
      BY <3>5 DEF Update, UpdateReturns, Destroy, Destructor, PollDeferredDestruction, DestructorPolls,
                  DestructorEnds
    <3> QED
      BY <2>1, <3>2, <3>3, <3>4, <3>5 DEF MainThread
  <2>2. CASE AudioThread
    BY <2>2 DEF AudioThread, CallbackBegins, RunCreateBuffer, RunDestroyBuffer, RunCreatePlayback,
                RunDestroyPlayback, RunSetPlaybackBuffer, RunControl, Runs, CommandsPolled, MixPlayback,
                CallbackReturns, AudioThreadFaults
  <2>3. CASE UNCHANGED vars
    BY <2>3 DEF vars
  <2> QED
    BY <2>1, <2>2, <2>3 DEF Next, Terminated
<1> QED
  BY <1>1 DEF Orderly, LostDetach

\* A step that touches neither the queue nor what is acquired, played or
\* wanted, and makes no buffer usable or unusable.
LEMMA QuietOwned ==
    ASSUME Owned,
           UNCHANGED <<mCommands, acquired, buffer, wants>>,
           \A b \in Buffers : (Usable(b)' <=> Usable(b)) /\ (memory'[b] # "none" <=> memory[b] # "none")
    PROVE  Owned'
<1>1. NothingAfterDestroy' /\ AttachedIsDetached' /\ CreatedBefore'
  BY DEF Owned, NothingAfterDestroy, AttachedIsDetached, CreatedBefore
<1>2. PlayedIsDetached' /\ UnwantedPlayedIsDetached' /\ UnwantedAttachedIsDetached'
  BY DEF Owned, PlayedIsDetached, UnwantedPlayedIsDetached, UnwantedAttachedIsDetached
<1>3. ReleasedForgotten' /\ UsableCreated'
  BY DEF Owned, ReleasedForgotten, Released, UsableCreated
<1> QED
  BY <1>1, <1>2, <1>3 DEF Owned

\* A command in order names usable buffers, takes each buffer away from the
\* playbacks that no longer want it, and destroys none that one wants.
InOrder(cmd) ==
    /\ \A b \in Buffers :
        /\ memory[b] # "none" => memory'[b] # "none" /\ (Usable(b)' => Usable(b))
        /\ memory[b] = "none" => memory'[b] = "none" \/ Usable(b)'
        /\ Usable(b)' /\ ~Usable(b) => Creates(cmd, b)
        /\ Usable(b) /\ ~Usable(b)' => b \in acquired
        /\ OfBuffer(cmd, b) => Usable(b) \/ Creates(cmd, b)
        /\ Creates(cmd, b) => memory[b] = "none"
        /\ Destroys(cmd, b) => \A p \in Playbacks : wants[p] # b
    /\ \A b \in Buffers, p \in Playbacks :
        /\ wants[p] = b /\ wants'[p] # b => Detaches(cmd, p, b)
        /\ Attaches(cmd, p, b) => wants'[p] = b

\* Sending it keeps the order of ownership.
LEMMA SendsOwned ==
    ASSUME AudioInv, Owned, NEW cmd \in Command, ClientCalls(cmd), Orderly', InOrder(cmd)
    PROVE  Owned'
<1> DEFINE n == Len(mCommands)
<1>1. mCommands \in Seq(Command) /\ n \in Nat
  BY DEF AudioInv, AudioTypeOK
<1>2. UNCHANGED <<acquired, buffer>>
  BY DEF ClientCalls, mixerVars
<1>3. /\ mCommands' \in Seq(Command)
      /\ \/ /\ lost' = lost
            /\ Len(mCommands') = n + 1
            /\ \A i \in 1 .. n : mCommands'[i] = mCommands[i]
            /\ mCommands'[n + 1] = cmd
         \/ lost' = lost \cup {cmd.op} /\ mCommands' = mCommands
  BY <1>1, SendEffect DEF ClientCalls
<1> HIDE DEF n
<1>4. /\ n \in Nat
      /\ DOMAIN mCommands = 1 .. n
      /\ \A i \in 1 .. n : i \in DOMAIN mCommands' /\ mCommands'[i] = mCommands[i]
      /\ \A i \in DOMAIN mCommands' : i \in 1 .. n \/ (i = n + 1 /\ mCommands'[i] = cmd)
  BY <1>1, <1>3 DEF n
<1>5. ASSUME cmd.op \in {"createBuffer", "destroyPlayback", "setPlaybackBuffer"}
      PROVE  n + 1 \in DOMAIN mCommands' /\ mCommands'[n + 1] = cmd
  <2>1. ~(cmd.op \in lost')
    BY <1>5 DEF Orderly, LostDetach
  <2> QED
    BY <1>1, <1>3, <2>1
<1>6. ASSUME NEW b \in Buffers, memory[b] # "none", ~Usable(b)
      PROVE  ~OfBuffer(cmd, b)
  BY <1>6 DEF InOrder, Creates, OfBuffer
<1>7. NothingAfterDestroy'
  <2> SUFFICES ASSUME NEW b \in Buffers, NEW k \in DOMAIN mCommands', NEW m \in DOMAIN mCommands',
                      Destroys(mCommands'[k], b), k < m
               PROVE  ~OfBuffer(mCommands'[m], b)
    BY DEF NothingAfterDestroy
  <2>1. k \in 1 .. n /\ mCommands'[k] = mCommands[k]
    BY <1>4
  <2>2. CASE m \in 1 .. n
    BY <1>4, <2>1, <2>2 DEF Owned, NothingAfterDestroy
  <2>3. CASE mCommands'[m] = cmd
    BY <1>4, <1>6, <2>1, <2>3 DEF AudioInv, DestroyedOnce
  <2> QED
    BY <1>4, <2>2, <2>3
<1>8. ReleasedForgotten'
  <2> SUFFICES ASSUME NEW b \in Buffers, Released(b)'
               PROVE  /\ \A k \in DOMAIN mCommands' : ~OfBuffer(mCommands'[k], b)
                      /\ \A p \in acquired' \cap Playbacks : buffer'[p] # b
    BY DEF ReleasedForgotten
  <2>1. Released(b)
    BY <1>2 DEF Released, InOrder
  <2>2. ~OfBuffer(cmd, b)
    BY <1>6, <2>1 DEF Released
  <2> QED
    BY <1>2, <1>4, <2>1, <2>2 DEF Owned, ReleasedForgotten
<1>9. PlayedIsDetached'
  <2> SUFFICES ASSUME NEW b \in Buffers, NEW k \in DOMAIN mCommands', NEW p \in acquired \cap Playbacks,
                      Destroys(mCommands'[k], b), buffer[p] = b
               PROVE  \E i \in 1 .. k - 1 : Detaches(mCommands'[i], p, b)
    BY <1>2 DEF PlayedIsDetached
  <2>1. CASE k \in 1 .. n
    <3>1. PICK i \in 1 .. k - 1 : Detaches(mCommands[i], p, b)
      BY <1>4, <2>1 DEF Owned, PlayedIsDetached
    <3> QED
      BY <1>4, <2>1, <3>1
  <2>2. CASE k = n + 1 /\ mCommands'[k] = cmd
    <3>1. PICK i \in 1 .. n : Detaches(mCommands[i], p, b)
      BY <1>4, <2>2 DEF Owned, UnwantedPlayedIsDetached, InOrder
    <3> QED
      BY <1>4, <2>2, <3>1
  <2> QED
    BY <1>4, <2>1, <2>2
<1>10. AttachedIsDetached'
  <2> SUFFICES ASSUME NEW b \in Buffers, NEW k \in DOMAIN mCommands', NEW p \in Playbacks,
                      NEW j \in 1 .. k - 1, Destroys(mCommands'[k], b), Attaches(mCommands'[j], p, b)
               PROVE  \E i \in j + 1 .. k - 1 : Detaches(mCommands'[i], p, b)
    BY DEF AttachedIsDetached
  <2>1. j \in 1 .. n /\ Attaches(mCommands[j], p, b)
    BY <1>4
  <2>2. CASE k \in 1 .. n
    <3>1. PICK i \in j + 1 .. k - 1 : Detaches(mCommands[i], p, b)
      BY <1>4, <2>1, <2>2 DEF Owned, AttachedIsDetached
    <3> QED
      BY <1>4, <2>2, <3>1
  <2>3. CASE k = n + 1 /\ mCommands'[k] = cmd
    <3>1. PICK i \in 1 .. n : j < i /\ Detaches(mCommands[i], p, b)
      BY <1>4, <2>1, <2>3 DEF Owned, UnwantedAttachedIsDetached, InOrder
    <3> QED
      BY <1>4, <2>3, <3>1
  <2> QED
    BY <1>4, <2>2, <2>3
<1>11. UnwantedPlayedIsDetached'
  <2> SUFFICES ASSUME NEW b \in Buffers, NEW p \in acquired \cap Playbacks, buffer[p] = b, wants'[p] # b
               PROVE  \E i \in DOMAIN mCommands' : Detaches(mCommands'[i], p, b)
    BY <1>2 DEF UnwantedPlayedIsDetached
  <2>1. CASE wants[p] # b
    <3>1. PICK i \in 1 .. n : Detaches(mCommands[i], p, b)
      BY <1>4, <2>1 DEF Owned, UnwantedPlayedIsDetached
    <3> QED
      BY <1>4, <3>1
  <2>2. CASE wants[p] = b
    BY <1>5, <2>2 DEF Detaches, InOrder
  <2> QED
    BY <2>1, <2>2
<1>12. UnwantedAttachedIsDetached'
  <2> SUFFICES ASSUME NEW b \in Buffers, NEW p \in Playbacks, NEW j \in DOMAIN mCommands',
                      Attaches(mCommands'[j], p, b), wants'[p] # b
               PROVE  \E i \in DOMAIN mCommands' : j < i /\ Detaches(mCommands'[i], p, b)
    BY DEF UnwantedAttachedIsDetached
  <2>1. j \in 1 .. n /\ Attaches(mCommands[j], p, b)
    BY <1>4 DEF InOrder
  <2>2. CASE wants[p] # b
    <3>1. PICK i \in 1 .. n : j < i /\ Detaches(mCommands[i], p, b)
      BY <1>4, <2>1, <2>2 DEF Owned, UnwantedAttachedIsDetached
    <3> QED
      BY <1>4, <3>1
  <2>3. CASE wants[p] = b
    <3>1. Detaches(cmd, p, b)
      BY <2>3 DEF InOrder
    <3>2. n + 1 \in DOMAIN mCommands' /\ mCommands'[n + 1] = cmd
      BY <1>5, <3>1 DEF Detaches
    <3>3. j < n + 1
      BY <1>4, <2>1
    <3> QED
      BY <3>1, <3>2, <3>3
  <2> QED
    BY <2>2, <2>3
<1>13. CreatedBefore'
  <2> SUFFICES ASSUME NEW b \in Buffers, NEW k \in DOMAIN mCommands',
                      OfBuffer(mCommands'[k], b), ~Creates(mCommands'[k], b), b \notin acquired
               PROVE  \E i \in 1 .. k - 1 : Creates(mCommands'[i], b)
    BY <1>2 DEF CreatedBefore
  <2>1. CASE k \in 1 .. n
    <3>1. PICK i \in 1 .. k - 1 : Creates(mCommands[i], b)
      BY <1>4, <2>1 DEF Owned, CreatedBefore
    <3> QED
      BY <1>4, <2>1, <3>1
  <2>2. CASE k = n + 1 /\ mCommands'[k] = cmd
    <3>1. PICK i \in 1 .. n : Creates(mCommands[i], b)
      BY <1>4, <2>2 DEF Owned, UsableCreated, InOrder
    <3> QED
      BY <1>4, <2>2, <3>1
  <2> QED
    BY <1>4, <2>1, <2>2
<1>14. UsableCreated'
  <2> SUFFICES ASSUME NEW b \in Buffers, Usable(b)', b \notin acquired
               PROVE  \E i \in DOMAIN mCommands' : Creates(mCommands'[i], b)
    BY <1>2 DEF UsableCreated
  <2>1. CASE Usable(b)
    <3>1. PICK i \in 1 .. n : Creates(mCommands[i], b)
      BY <1>4, <2>1 DEF Owned, UsableCreated
    <3> QED
      BY <1>4, <3>1
  <2>2. CASE ~Usable(b)
    BY <1>5, <2>2 DEF Creates, InOrder
  <2> QED
    BY <2>1, <2>2
<1> QED
  BY <1>7, <1>8, <1>9, <1>10, <1>11, <1>12, <1>13, <1>14 DEF Owned

\* A command the audio thread runs keeps the order of ownership: the buffers
\* it names are acquired by then, so that what takes one away does.
LEMMA RunsOwned ==
    ASSUME AudioInv, Owned, NEW op, Runs(op),
           \A b \in Buffers : b \in acquired => b \in acquired' \/ Destroys(Head(mCommands), b),
           \A b \in Buffers : Creates(Head(mCommands), b) => b \in acquired',
           \A p \in acquired' \cap Playbacks :
               \/ p \in acquired /\ buffer'[p] = buffer[p]
               \/ Attaches(Head(mCommands), p, buffer'[p]),
           \A p \in acquired' \cap Playbacks, b \in Buffers :
               /\ Detaches(Head(mCommands), p, b)
               /\ \A a \in Buffers : OfBuffer(Head(mCommands), a) => a \in acquired
               => buffer'[p] # b
    PROVE  Owned'
<1> DEFINE n == Len(mCommands)
           c == Head(mCommands)
<1>1. /\ mCommands \in Seq(Command)
      /\ c = mCommands[1]
      /\ n \in Nat \ {0}
      /\ DOMAIN mCommands = 1 .. n
      /\ DOMAIN mCommands' = 1 .. n - 1
      /\ \A i \in 1 .. n - 1 : mCommands'[i] = mCommands[i + 1] /\ i + 1 \in 1 .. n /\ 1 < i + 1
  BY RunEffect DEF AudioInv, AudioTypeOK
<1>2. UNCHANGED <<wants, memory>> /\ \A b \in Buffers : Usable(b)' <=> Usable(b)
  BY DEF Runs, mainVars, Usable
<1> HIDE DEF n, c
<1>3. \A i \in 2 .. n : i - 1 \in 1 .. n - 1 /\ mCommands'[i - 1] = mCommands[i]
  <2> SUFFICES ASSUME NEW i \in 2 .. n PROVE i - 1 \in 1 .. n - 1 /\ mCommands'[i - 1] = mCommands[i]
    OBVIOUS
  <2>1. i - 1 \in 1 .. n - 1 /\ (i - 1) + 1 = i
    BY <1>1
  <2> QED
    BY <1>1, <2>1
<1>4. ASSUME NEW p \in acquired' \cap Playbacks, NEW b \in Buffers, buffer'[p] = b
      PROVE  /\ (p \in acquired /\ buffer[p] = b) \/ Attaches(c, p, b)
             /\ ~Detaches(c, p, b)
  <2>1. ~Detaches(c, p, b)
    <3>1. ASSUME c.op = "setPlaybackBuffer", NEW a \in Buffers, OfBuffer(c, a)
          PROVE  a \in acquired
      <4>1. ~Creates(mCommands[1], a) /\ OfBuffer(mCommands[1], a) /\ 1 \in DOMAIN mCommands
        BY <1>1, <3>1 DEF Creates
      <4> QED
        BY <4>1 DEF Owned, CreatedBefore
    <3> QED
      BY <1>4, <3>1 DEF Detaches, OfBuffer, c
  <2> QED
    BY <1>4, <2>1 DEF c
<1>5. NothingAfterDestroy'
  <2> SUFFICES ASSUME NEW b \in Buffers, NEW k \in 1 .. n - 1, NEW m \in 1 .. n - 1,
                      Destroys(mCommands'[k], b), k < m
               PROVE  ~OfBuffer(mCommands'[m], b)
    BY <1>1 DEF NothingAfterDestroy
  <2>1. k + 1 < m + 1
    BY <1>1
  <2> QED
    BY <1>1, <2>1 DEF Owned, NothingAfterDestroy
<1>6. ReleasedForgotten'
  <2> SUFFICES ASSUME NEW b \in Buffers, Released(b)'
               PROVE  /\ \A k \in 1 .. n - 1 : ~OfBuffer(mCommands'[k], b)
                      /\ \A p \in acquired' \cap Playbacks : buffer'[p] # b
    BY <1>1 DEF ReleasedForgotten
  <2>1. CASE b \notin acquired
    <3>1. Released(b)
      BY <1>2, <2>1 DEF Released
    <3>2. \A k \in 1 .. n : ~OfBuffer(mCommands[k], b)
      BY <1>1, <3>1 DEF Owned, ReleasedForgotten
    <3>3. \A p \in Playbacks : ~Attaches(c, p, b)
      BY <1>1, <3>2 DEF Attaches, OfBuffer
    <3>4. \A p \in acquired \cap Playbacks : buffer[p] # b
      BY <3>1 DEF Owned, ReleasedForgotten
    <3> QED
      BY <1>1, <1>4, <3>2, <3>3, <3>4
  <2>2. CASE b \in acquired
    <3>1. Destroys(c, b)
      BY <2>2 DEF Released, c
    <3>2. \A k \in 2 .. n : ~OfBuffer(mCommands[k], b)
      BY <1>1, <3>1 DEF Owned, NothingAfterDestroy
    <3>3. \A p \in acquired \cap Playbacks : buffer[p] # b
      BY <1>1, <3>1 DEF Owned, PlayedIsDetached
    <3>4. \A p \in Playbacks : ~Attaches(c, p, b)
      BY <3>1 DEF Destroys, Attaches
    <3> QED
      BY <1>1, <1>4, <3>2, <3>3, <3>4
  <2> QED
    BY <2>1, <2>2
<1>7. PlayedIsDetached'
  <2> SUFFICES ASSUME NEW b \in Buffers, NEW k \in 1 .. n - 1, NEW p \in acquired' \cap Playbacks,
                      Destroys(mCommands'[k], b), buffer'[p] = b
               PROVE  \E i \in 1 .. k - 1 : Detaches(mCommands'[i], p, b)
    BY <1>1 DEF PlayedIsDetached
  <2>1. k + 1 \in 1 .. n /\ Destroys(mCommands[k + 1], b) /\ (k + 1) - 1 = k
    BY <1>1
  <2>2. PICK i \in 2 .. k : Detaches(mCommands[i], p, b)
    <3>1. CASE p \in acquired /\ buffer[p] = b
      <4>1. PICK i \in 1 .. k : Detaches(mCommands[i], p, b)
        BY <1>1, <2>1, <3>1 DEF Owned, PlayedIsDetached
      <4>2. i # 1
        BY <1>1, <1>4, <4>1
      <4> QED
        BY <4>1, <4>2
    <3>2. CASE Attaches(c, p, b)
      <4>1. 1 \in 1 .. k /\ 1 + 1 = 2
        OBVIOUS
      <4> QED
        BY <1>1, <2>1, <3>2, <4>1 DEF Owned, AttachedIsDetached
    <3> QED
      BY <1>4, <3>1, <3>2
  <2>3. i - 1 \in 1 .. k - 1 /\ i \in 2 .. n
    BY <1>1
  <2> QED
    BY <1>3, <2>2, <2>3
<1>8. AttachedIsDetached'
  <2> SUFFICES ASSUME NEW b \in Buffers, NEW k \in 1 .. n - 1, NEW p \in Playbacks,
                      NEW j \in 1 .. k - 1, Destroys(mCommands'[k], b), Attaches(mCommands'[j], p, b)
               PROVE  \E i \in j + 1 .. k - 1 : Detaches(mCommands'[i], p, b)
    BY <1>1 DEF AttachedIsDetached
  <2>1. /\ k + 1 \in 1 .. n /\ Destroys(mCommands[k + 1], b) /\ (k + 1) - 1 = k
        /\ j + 1 \in 1 .. k /\ Attaches(mCommands[j + 1], p, b)
    BY <1>1
  <2>2. PICK i \in (j + 1) + 1 .. k : Detaches(mCommands[i], p, b)
    BY <1>1, <2>1 DEF Owned, AttachedIsDetached
  <2>3. i - 1 \in j + 1 .. k - 1 /\ i \in 2 .. n
    BY <1>1
  <2> QED
    BY <1>3, <2>2, <2>3
<1>9. UnwantedPlayedIsDetached'
  <2> SUFFICES ASSUME NEW b \in Buffers, NEW p \in acquired' \cap Playbacks, buffer'[p] = b, wants[p] # b
               PROVE  \E i \in 1 .. n - 1 : Detaches(mCommands'[i], p, b)
    BY <1>1, <1>2 DEF UnwantedPlayedIsDetached
  <2>1. PICK i \in 2 .. n : Detaches(mCommands[i], p, b)
    <3>1. CASE p \in acquired /\ buffer[p] = b
      <4>1. PICK i \in 1 .. n : Detaches(mCommands[i], p, b)
        BY <1>1, <3>1 DEF Owned, UnwantedPlayedIsDetached
      <4>2. i # 1
        BY <1>1, <1>4, <4>1
      <4> QED
        BY <1>1, <4>1, <4>2
    <3>2. CASE Attaches(c, p, b)
      BY <1>1, <3>2 DEF Owned, UnwantedAttachedIsDetached
    <3> QED
      BY <1>4, <3>1, <3>2
  <2> QED
    BY <1>3, <2>1
<1>10. UnwantedAttachedIsDetached'
  <2> SUFFICES ASSUME NEW b \in Buffers, NEW p \in Playbacks, NEW j \in 1 .. n - 1,
                      Attaches(mCommands'[j], p, b), wants[p] # b
               PROVE  \E i \in 1 .. n - 1 : j < i /\ Detaches(mCommands'[i], p, b)
    BY <1>1, <1>2 DEF UnwantedAttachedIsDetached
  <2>1. PICK i \in 1 .. n : j + 1 < i /\ Detaches(mCommands[i], p, b)
    BY <1>1 DEF Owned, UnwantedAttachedIsDetached
  <2>2. i \in 2 .. n /\ j < i - 1
    BY <1>1, <2>1
  <2> QED
    BY <1>3, <2>1, <2>2
<1>11. CreatedBefore'
  <2> SUFFICES ASSUME NEW b \in Buffers, NEW k \in 1 .. n - 1,
                      OfBuffer(mCommands'[k], b), ~Creates(mCommands'[k], b), b \notin acquired'
               PROVE  \E i \in 1 .. k - 1 : Creates(mCommands'[i], b)
    BY <1>1 DEF CreatedBefore
  <2>1. k + 1 \in 1 .. n /\ OfBuffer(mCommands[k + 1], b) /\ ~Creates(mCommands[k + 1], b) /\ (k + 1) - 1 = k
    BY <1>1
  <2>2. b \notin acquired
    <3>1. ~Destroys(c, b)
      BY <1>1, <2>1 DEF Owned, NothingAfterDestroy
    <3> QED
      BY <3>1 DEF c
  <2>3. PICK i \in 1 .. k : Creates(mCommands[i], b)
    BY <1>1, <2>1, <2>2 DEF Owned, CreatedBefore
  <2>4. i # 1
    BY <1>1, <2>3 DEF c
  <2>5. i - 1 \in 1 .. k - 1 /\ i \in 2 .. n
    BY <1>1, <2>4
  <2> QED
    BY <1>3, <2>3, <2>5
<1>12. UsableCreated'
  <2> SUFFICES ASSUME NEW b \in Buffers, Usable(b), b \notin acquired'
               PROVE  \E i \in 1 .. n - 1 : Creates(mCommands'[i], b)
    BY <1>1, <1>2 DEF UsableCreated
  <2>1. ~Destroys(c, b)
    BY <1>1 DEF AudioInv, DestroyedOnce
  <2>2. PICK i \in 1 .. n : Creates(mCommands[i], b)
    BY <1>1, <2>1 DEF Owned, UsableCreated, c
  <2>3. i \in 2 .. n
    BY <1>1, <2>2 DEF c
  <2> QED
    BY <1>3, <2>2, <2>3
<1> QED
  BY <1>5, <1>6, <1>7, <1>8, <1>9, <1>10, <1>11, <1>12 DEF Owned

\* With ownership in order no command and no playback of the mixer names
\* freed memory.
LEMMA TouchesLive ==
    ASSUME AudioInv, Owned
    PROVE  ~TouchesFreed
<1> USE AudioConstants DEF Objects
<1> SUFFICES ASSUME NEW o \in Touched \cap Objects, memory[o] = "freed"
             PROVE  FALSE
  BY DEF TouchesFreed
<1>1. apc \in {"poll", "mix"}
  BY DEF Touched
<1>2. ASSUME o \in Playbacks PROVE FALSE
  BY <1>1, <1>2 DEF AudioInv, PlaybacksFreedLast
<1>3. o \in Buffers /\ mpc # "down"
  BY <1>1, <1>2 DEF AudioInv, PlaybacksFreedLast
<1>4. Released(o)
  BY <1>3 DEF AudioInv, AcquiredIsLive, Released, Usable
<1>5. CASE apc = "poll"
  <2>1. /\ mCommands \in Seq(Command)
        /\ mCommands # <<>>
        /\ o \in {Head(mCommands)[f] : f \in DOMAIN Head(mCommands) \ {"op"}}
    BY <1>5 DEF Touched, AudioInv, AudioTypeOK
  <2>2. Head(mCommands) = mCommands[1] /\ 1 \in DOMAIN mCommands /\ mCommands[1] \in Command
    BY <2>1
  <2>3. OfBuffer(mCommands[1], o)
    BY <1>3, <2>1, <2>2, CommandNames
  <2> QED
    BY <1>3, <1>4, <2>2, <2>3 DEF Owned, ReleasedForgotten
<1>6. CASE apc = "mix"
  <2>1. /\ mixing \in Seq(Playbacks)
        /\ mixing # <<>>
        /\ o \in {Head(mixing)} \cup {buffer[p] : p \in {Head(mixing)} \cap playing}
    BY <1>6 DEF Touched, AudioInv, AudioTypeOK
  <2>2. Head(mixing) = mixing[1] /\ 1 \in DOMAIN mixing /\ mixing[1] \in Playbacks
    BY <2>1
  <2>3. o = buffer[mixing[1]] /\ mixing[1] \in acquired \cap Playbacks
    BY <1>3, <1>6, <2>1, <2>2 DEF AudioInv, MixingAcquired
  <2> QED
    BY <1>3, <1>4, <2>3 DEF Owned, ReleasedForgotten
<1> QED
  BY <1>1, <1>5, <1>6

\* The calls of the client are in order.
LEMMA ClientOwned ==
    ASSUME AudioInv, AudioInv', Owned, Orderly',
           \/ \E b \in Buffers : CreateBuffer(b) \/ DestroyBuffer(b)
           \/ \E p \in Playbacks, b \in Buffers : CreatePlayback(p, b) \/ SetPlaybackBuffer(p, b)
           \/ \E p \in Playbacks : DestroyPlayback(p)
           \/ \E p \in Playbacks, op \in Controls : ControlPlayback(p, op)
    PROVE  Owned' /\ (NoTouchAfterFree => NoTouchAfterFree')
<1> USE AudioConstants DEF Objects
<1>0. /\ memory \in [Objects -> {"none", "live", "freed"}]
      /\ wants \in [Playbacks -> Buffers \cup {NoBuffer}]
      /\ mDeferredBufferDestruction \subseteq Buffers
      /\ \A a \in mDeferredBufferDestruction : memory[a] = "live"
  BY DEF AudioInv, AudioTypeOK, DeferredLive
<1>1. ASSUME NEW b \in Buffers, CreateBuffer(b)
      PROVE  Owned' /\ (NoTouchAfterFree => NoTouchAfterFree')
  <2> DEFINE cmd == [op |-> "createBuffer", buffer |-> b]
  <2>1. /\ ClientCalls(cmd)
        /\ memory[b] = "none"
        /\ memory' = [memory EXCEPT ![b] = "live"]
        /\ UNCHANGED <<mDeferredBufferDestruction, wants>>
        /\ apc' = apc
    BY <1>1 DEF CreateBuffer, ClientCalls
  <2>2. cmd \in Command /\ cmd.op = "createBuffer" /\ cmd.buffer = b
    BY DEF Command
  <2> HIDE DEF cmd
  <2>3. InOrder(cmd)
    BY <1>0, <2>1, <2>2 DEF InOrder, Usable, OfBuffer, Creates, Destroys, Attaches
  <2> QED
    BY <2>1, <2>2, <2>3, SendsOwned DEF NoTouchAfterFree
<1>2. ASSUME NEW b \in Buffers, DestroyBuffer(b)
      PROVE  Owned' /\ (NoTouchAfterFree => NoTouchAfterFree')
  <2> DEFINE cmd == [op |-> "destroyBuffer", buffer |-> b]
  <2>1. /\ ClientCalls(cmd)
        /\ Usable(b)
        /\ \A q \in Playbacks : wants[q] # b
        /\ mDeferredBufferDestruction' = mDeferredBufferDestruction \cup {b}
        /\ early' = IF b \in acquired THEN early ELSE early \cup {b}
        /\ UNCHANGED <<wants, memory>>
        /\ apc' = apc
    BY <1>2 DEF DestroyBuffer, ClientCalls
  <2>2. cmd \in Command /\ cmd.op = "destroyBuffer" /\ cmd.buffer = b
    BY DEF Command
  <2> HIDE DEF cmd
  <2>3. b \in acquired
    BY <2>1 DEF Orderly
  <2>4. InOrder(cmd)
    BY <1>0, <2>1, <2>2, <2>3 DEF InOrder, Usable, OfBuffer, Creates, Destroys, Attaches
  <2> QED
    BY <2>1, <2>2, <2>4, SendsOwned DEF NoTouchAfterFree
<1>3. ASSUME NEW p \in Playbacks, NEW b \in Buffers, CreatePlayback(p, b)
      PROVE  Owned' /\ (NoTouchAfterFree => NoTouchAfterFree')
  <2> DEFINE cmd == [op |-> "createPlayback", playback |-> p, buffer |-> b]
  <2>1. /\ ClientCalls(cmd)
        /\ Usable(b)
        /\ memory[p] = "none"
        /\ memory' = [memory EXCEPT ![p] = "live"]
        /\ wants' = [wants EXCEPT ![p] = b]
        /\ UNCHANGED mDeferredBufferDestruction
        /\ apc' = apc
    BY <1>3 DEF CreatePlayback, ClientCalls
  <2>2. cmd \in Command /\ cmd.op = "createPlayback" /\ cmd.playback = p /\ cmd.buffer = b
    BY DEF Command
  <2> HIDE DEF cmd
  <2>3. wants[p] = NoBuffer
    BY <2>1 DEF AudioInv, PlaybacksFreedLast
  <2>4. \A a \in Buffers : memory'[a] = memory[a] /\ (Usable(a)' <=> Usable(a))
    BY <1>0, <2>1 DEF Usable
  <2>5. InOrder(cmd)
    BY <1>0, <2>1, <2>2, <2>3, <2>4 DEF InOrder, OfBuffer, Creates, Destroys, Attaches
  <2> QED
    BY <2>1, <2>2, <2>5, SendsOwned DEF NoTouchAfterFree
<1>4. ASSUME NEW p \in Playbacks, NEW b \in Buffers, SetPlaybackBuffer(p, b)
      PROVE  Owned' /\ (NoTouchAfterFree => NoTouchAfterFree')
  <2> DEFINE cmd == [op |-> "setPlaybackBuffer", playback |-> p, buffer |-> b]
  <2>1. /\ ClientCalls(cmd)
        /\ Usable(b)
        /\ wants' = [wants EXCEPT ![p] = b]
        /\ UNCHANGED <<mDeferredBufferDestruction, memory>>
        /\ apc' = apc
    BY <1>4 DEF SetPlaybackBuffer, ClientCalls
  <2>2. cmd \in Command /\ cmd.op = "setPlaybackBuffer" /\ cmd.playback = p /\ cmd.buffer = b
    BY DEF Command
  <2> HIDE DEF cmd
  <2>3. \A a \in Buffers : memory'[a] = memory[a] /\ (Usable(a)' <=> Usable(a))
    BY <2>1 DEF Usable
  <2>4. InOrder(cmd)
    BY <1>0, <2>1, <2>2, <2>3 DEF InOrder, OfBuffer, Creates, Destroys, Attaches, Detaches
  <2> QED
    BY <2>1, <2>2, <2>4, SendsOwned DEF NoTouchAfterFree
<1>5. ASSUME NEW p \in Playbacks, DestroyPlayback(p)
      PROVE  Owned' /\ (NoTouchAfterFree => NoTouchAfterFree')
  <2> DEFINE cmd == [op |-> "destroyPlayback", playback |-> p]
  <2>1. /\ ClientCalls(cmd)
        /\ wants' = [wants EXCEPT ![p] = NoBuffer]
        /\ UNCHANGED <<mDeferredBufferDestruction, memory>>
        /\ apc' = apc
    BY <1>5 DEF DestroyPlayback, ClientCalls
  <2>2. cmd \in Command /\ cmd.op = "destroyPlayback" /\ cmd.playback = p
    BY DEF Command
  <2> HIDE DEF cmd
  <2>3. \A a \in Buffers : memory'[a] = memory[a] /\ (Usable(a)' <=> Usable(a))
    BY <2>1 DEF Usable
  <2>4. InOrder(cmd)
    BY <1>0, <2>1, <2>2, <2>3 DEF InOrder, OfBuffer, Creates, Destroys, Attaches, Detaches
  <2> QED
    BY <2>1, <2>2, <2>4, SendsOwned DEF NoTouchAfterFree
<1>6. ASSUME NEW p \in Playbacks, NEW op \in Controls, ControlPlayback(p, op)
      PROVE  Owned' /\ (NoTouchAfterFree => NoTouchAfterFree')
  <2> DEFINE cmd == [op |-> op, playback |-> p]
  <2>1. ClientCalls(cmd) /\ UNCHANGED <<mDeferredBufferDestruction, wants, memory, apc>>
    BY <1>6 DEF ControlPlayback, ClientCalls
  <2>2. cmd \in Command /\ cmd.op \notin {"createBuffer", "destroyBuffer", "createPlayback", "setPlaybackBuffer"}
    BY DEF Command
  <2> HIDE DEF cmd
  <2>3. InOrder(cmd)
    BY <2>1, <2>2 DEF InOrder, Usable, OfBuffer, Creates, Destroys, Attaches
  <2> QED
    BY <2>1, <2>2, <2>3, SendsOwned DEF NoTouchAfterFree
<1> QED
  BY <1>1, <1>2, <1>3, <1>4, <1>5, <1>6

\* Freeing an unacquired buffer, update and the destructor are quiet.
LEMMA MainMovesOwned ==
    ASSUME AudioInv, Owned,
           (\E b \in Buffers : PollDeferredDestruction(b))
             \/ Update \/ UpdateReturns \/ Destroy \/ DestructorPolls \/ DestructorEnds
    PROVE  Owned' /\ (NoTouchAfterFree => NoTouchAfterFree')
<1> USE AudioConstants DEF Objects
<1>0. /\ memory \in [Objects -> {"none", "live", "freed"}]
      /\ visit \subseteq mDeferredBufferDestruction
      /\ mDeferredBufferDestruction \subseteq Buffers
      /\ \A a \in mDeferredBufferDestruction : memory[a] = "live"
  BY DEF AudioInv, AudioTypeOK, DeferredLive
<1>1. CASE \E b \in Buffers : PollDeferredDestruction(b)
  <2>1. PICK b \in Buffers :
            /\ b \in visit
            /\ \/ UNCHANGED <<memory, mDeferredBufferDestruction>>
               \/ /\ memory' = [memory EXCEPT ![b] = "freed"]
                  /\ mDeferredBufferDestruction' = mDeferredBufferDestruction \ {b}
            /\ UNCHANGED <<mCommands, acquired, buffer, wants, apc>>
    BY <1>1 DEF PollDeferredDestruction, mixerVars
  <2>2. \A a \in Buffers : (Usable(a)' <=> Usable(a)) /\ (memory'[a] # "none" <=> memory[a] # "none")
    BY <1>0, <2>1 DEF Usable
  <2> QED
    BY <2>1, <2>2, QuietOwned DEF NoTouchAfterFree
<1>2. CASE Update \/ UpdateReturns \/ Destroy \/ DestructorPolls
  <2>1. UNCHANGED <<memory, mDeferredBufferDestruction, mCommands, acquired, buffer, wants, apc>>
    BY <1>2 DEF Update, UpdateReturns, Destroy, DestructorPolls, mixerVars
  <2> QED
    BY <2>1, QuietOwned DEF NoTouchAfterFree, Usable
<1>3. CASE DestructorEnds
  <2>1. /\ memory' = [o \in Objects |->
                         IF o \in Playbacks /\ memory[o] = "live" THEN "freed" ELSE memory[o]]
        /\ UNCHANGED <<mDeferredBufferDestruction, mCommands, acquired, buffer, wants>>
        /\ apc' = "off"
    BY <1>3 DEF DestructorEnds, mixerVars
  <2>2. \A a \in Buffers : memory'[a] = memory[a] /\ (Usable(a)' <=> Usable(a))
    BY <2>1 DEF Usable
  <2> QED
    BY <2>1, <2>2, QuietOwned DEF NoTouchAfterFree
<1> QED
  BY <1>1, <1>2, <1>3

\* So is a callback, but for the commands it runs; and it does not fault.
LEMMA CallbackOwned ==
    ASSUME AudioInv, Owned, NoTouchAfterFree, AudioThread
    PROVE  Owned' /\ NoTouchAfterFree'
<1> USE AudioConstants DEF Objects
<1> DEFINE c == Head(mCommands)
<1>0. buffer \in [Playbacks -> Buffers \cup {NoBuffer}] /\ acquired \subseteq Objects
  BY DEF AudioInv, AudioTypeOK
<1>1. ASSUME NEW op, Runs(op)
      PROVE  c \in Command /\ c.op = op /\ NoTouchAfterFree'
  BY <1>1, CommandTaken DEF Runs, NoTouchAfterFree
<1>2. CASE RunCreateBuffer
  <2>1. /\ Runs("createBuffer")
        /\ acquired' = acquired \cup {c.buffer}
        /\ c.buffer \in Buffers
        /\ UNCHANGED buffer
    BY <1>2, <1>1, CommandFields DEF RunCreateBuffer, mixerVars
  <2> HIDE DEF c
  <2>2. c.op = "createBuffer" /\ NoTouchAfterFree'
    BY <1>1, <2>1
  <2> QED
    BY <1>0, <2>1, <2>2, RunsOwned DEF Destroys, Creates, Attaches, Detaches, c
<1>3. CASE RunDestroyBuffer
  <2>1. /\ Runs("destroyBuffer")
        /\ acquired' = acquired \ {c.buffer}
        /\ c.buffer \in Buffers
        /\ UNCHANGED buffer
    BY <1>3, <1>1, CommandFields DEF RunDestroyBuffer, mixerVars
  <2>2. c.op = "destroyBuffer" /\ NoTouchAfterFree'
    BY <1>1, <2>1
  <2> QED
    BY <1>0, <2>1, <2>2, RunsOwned DEF Destroys, Creates, Attaches, Detaches
<1>4. CASE RunCreatePlayback
  <2>1. Runs("createPlayback")
    BY <1>4 DEF RunCreatePlayback
  <2>2. c.op = "createPlayback" /\ c.playback \in Playbacks /\ NoTouchAfterFree'
    BY <1>1, <2>1, CommandFields
  <2>3. CASE UNCHANGED <<acquired, buffer>>
    BY <2>1, <2>2, <2>3, RunsOwned DEF Destroys, Creates, Attaches, Detaches
  <2>4. CASE /\ acquired' = acquired \cup {c.playback}
             /\ buffer' = [buffer EXCEPT ![c.playback] = c.buffer]
    BY <1>0, <2>1, <2>2, <2>4, RunsOwned DEF Destroys, Creates, Attaches, Detaches
  <2> QED
    BY <1>4, <2>3, <2>4 DEF RunCreatePlayback, mixerVars
<1>5. CASE RunDestroyPlayback
  <2>1. /\ Runs("destroyPlayback")
        /\ acquired' = acquired \ {c.playback}
        /\ c.playback \in Playbacks
        /\ UNCHANGED buffer
    BY <1>5, <1>1, CommandFields DEF RunDestroyPlayback
  <2>2. c.op = "destroyPlayback" /\ NoTouchAfterFree'
    BY <1>1, <2>1
  <2> QED
    BY <1>0, <2>1, <2>2, RunsOwned DEF Destroys, Creates, Attaches, Detaches
<1>6. CASE RunSetPlaybackBuffer
  <2>1. /\ Runs("setPlaybackBuffer")
        /\ buffer' = IF c.playback \in acquired /\ c.buffer \in acquired
                     THEN [buffer EXCEPT ![c.playback] = c.buffer]
                     ELSE buffer
        /\ UNCHANGED acquired
    BY <1>6 DEF RunSetPlaybackBuffer
  <2>2. c.op = "setPlaybackBuffer" /\ c.playback \in Playbacks /\ c.buffer \in Buffers /\ NoTouchAfterFree'
    BY <1>1, <2>1, CommandFields
  <2> QED
    BY <1>0, <2>1, <2>2, RunsOwned DEF Destroys, Creates, Attaches, Detaches, OfBuffer
<1>7. CASE \E op \in Controls : RunControl(op)
  <2>1. PICK op \in Controls : Runs(op) /\ UNCHANGED <<acquired, buffer>>
    BY <1>7 DEF RunControl
  <2>2. c.op = op /\ NoTouchAfterFree'
    BY <1>1, <2>1
  <2>3. op \notin {"createBuffer", "destroyBuffer", "createPlayback", "destroyPlayback", "setPlaybackBuffer"}
    OBVIOUS
  <2> QED
    BY <2>1, <2>2, <2>3, RunsOwned DEF Destroys, Creates, Attaches, Detaches
<1>8. CASE CallbackBegins \/ CommandsPolled \/ MixPlayback \/ CallbackReturns
  <2>1. /\ UNCHANGED <<memory, mDeferredBufferDestruction, mCommands, acquired, buffer, wants>>
        /\ apc' \in {"poll", "mix", "idle"}
    BY <1>8 DEF CallbackBegins, CommandsPolled, MixPlayback, CallbackReturns, mainVars, mixerVars
  <2> QED
    BY <2>1, QuietOwned DEF NoTouchAfterFree, Usable
<1>9. CASE AudioThreadFaults
  BY <1>9, TouchesLive DEF AudioThreadFaults
<1> QED
  BY <1>2, <1>3, <1>4, <1>5, <1>6, <1>7, <1>8, <1>9 DEF AudioThread

\* Every step keeps Ownership.
LEMMA OwnershipStep == AudioInv /\ AudioInv' /\ Ownership /\ [Next]_vars => Ownership'
<1> SUFFICES ASSUME AudioInv, AudioInv', Ownership, [Next]_vars, Orderly'
             PROVE  Owned' /\ NoTouchAfterFree'
  BY DEF Ownership
<1>1. Owned /\ NoTouchAfterFree
  BY OrderlyBefore DEF Ownership
<1>2. CASE MainThread
  BY <1>1, <1>2, ClientOwned, MainMovesOwned DEF MainThread, Destructor
<1>3. CASE AudioThread
  BY <1>1, <1>3, CallbackOwned
<1>4. CASE UNCHANGED vars
  <2>1. UNCHANGED <<memory, mDeferredBufferDestruction, mCommands, acquired, buffer, wants, apc>>
    BY <1>4 DEF vars, mainVars, mixerVars
  <2> QED
    BY <1>1, <2>1, QuietOwned DEF NoTouchAfterFree, Usable
<1> QED
  BY <1>2, <1>3, <1>4 DEF Next, Terminated

\* The initial state satisfies it.
LEMMA OwnershipInit == Init => Ownership
<1> SUFFICES ASSUME Init PROVE Owned /\ NoTouchAfterFree
  BY DEF Ownership
<1> USE AudioConstants DEF Init, Objects
<1>1. NothingAfterDestroy /\ PlayedIsDetached /\ AttachedIsDetached /\ CreatedBefore
  BY DEF NothingAfterDestroy, PlayedIsDetached, AttachedIsDetached, CreatedBefore
<1>2. UnwantedPlayedIsDetached /\ UnwantedAttachedIsDetached
  BY DEF UnwantedPlayedIsDetached, UnwantedAttachedIsDetached
<1>3. ReleasedForgotten /\ UsableCreated /\ NoTouchAfterFree
  BY DEF ReleasedForgotten, Released, UsableCreated, Usable, NoTouchAfterFree
<1> QED
  BY <1>1, <1>2, <1>3 DEF Owned

\* As long as the client destroys no buffer before the audio thread acquired
\* it, and the queue refuses no command that ownership depends on, the audio
\* thread touches no freed memory (poll_deferred_destruction).
THEOREM OwnershipCorrect == Spec => []NoTouchUnlessEarly
<1>1. AudioInv /\ Ownership => NoTouchUnlessEarly
  BY DEF Ownership, Orderly, NoTouchUnlessEarly
<1> QED
  BY <1>1, AudioInvInit, AudioInvStep, OwnershipInit, OwnershipStep, PTL DEF Spec

\* The mixer's list holds each acquired playback once (create_playback,
\* destroy_playback).
THEOREM PlaybackListCorrect == Spec => []PlaybackListExact
<1>1. AudioInv => PlaybackListExact
  BY DEF AudioInv
<1> QED
  BY <1>1, AudioInvariant, PTL

\* What the audio thread has acquired is live until it releases it.
THEOREM AcquiredCorrect == Spec => []AcquiredIsLive
<1>1. AudioInv => AcquiredIsLive
  BY DEF AudioInv
<1> QED
  BY <1>1, AudioInvariant, PTL

\* The cursor of a playback stays within its buffer (read_frames,
\* set_playback_buffer).
THEOREM CursorCorrect == Spec => []CursorInBuffer
<1>1. AudioInv => CursorInBuffer
  BY DEF AudioInv
<1> QED
  BY <1>1, AudioInvariant, PTL
=============================================================================
