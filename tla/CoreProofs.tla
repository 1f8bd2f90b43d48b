----------------------------- MODULE CoreProofs ------------------------------
(***************************************************************************)
(* Six parts, which share nothing, for any sizes and any sequence of       *)
(* calls.                                                                  *)
(*                                                                         *)
(* JobQueue, a ring, implements JobFifo.  QueueInv relates the two indices *)
(* and the counter to the contents, and says of a running prioritize what  *)
(* its loop keeps: the slots hold the old contents permuted, first the     *)
(* promoted jobs in their old order, then the other jobs the loop has      *)
(* looked at, then those it has not moved yet.                             *)
(*                                                                         *)
(* PoolAllocator keeps three records of a block, which agree.              *)
(*                                                                         *)
(* The commands that a scene puts into the pages of its LinearAllocator    *)
(* stay apart until a page was exactly full.                               *)
(*                                                                         *)
(* The assets on disk and in the editor: the tables of SUIDTable, the      *)
(* changes the FileWatcher reports and what ProjectLoad opens, imports and *)
(* saves, for any files, projects and identifiers.                         *)
(***************************************************************************)
EXTENDS JobQueue, PoolAllocator, SceneCommands, SUIDTable, ProjectLoad, FileWatcher,
        FiniteSetTheorems, SequenceTheorems, WellFoundedInduction, TLAPS

-----------------------------------------------------------------------------
(* JobQueue *)

\* The number of queued jobs, and the slot of the i-th of them.
Queued == Ahead(mTail, mHead)
SlotOf(i) == IF mTail + i - 1 < mCap THEN mTail + i - 1 ELSE mTail + i - 1 - mCap

QueueTypeOK ==
    /\ mJobs \in [Slots -> Jobs \cup {NoJob}]
    /\ mHead \in Slots
    /\ mTail \in Slots
    /\ mSize \in Nat
    /\ out \in Jobs \cup {NoJob}
    /\ \/ scan = NoScan
       \/ scan \in [on : {TRUE}, type : JobTypes, now : Slots, front : Slots, before : Seq(Jobs)]

\* The counter counts the jobs, and the slots between the indices hold some.
CounterExact ==
    /\ mSize = Queued
    /\ \A i \in 1 .. Queued : mJobs[SlotOf(i)] \in Jobs

\* p is a permutation of 1 .. n.
Permutes(p, n) ==
    /\ p \in [1 .. n -> 1 .. n]
    /\ \A i, k \in 1 .. n : p[i] = p[k] => i = k
    /\ \A k \in 1 .. n : \E i \in 1 .. n : p[i] = k

\* A permutation p of 1 .. n after a look at the first upto positions: the
\* members of typed among them come first and in their old order, the others
\* follow, and what was not looked at is where it was.
Separated(p, n, typed, promoted, upto) ==
    /\ Permutes(p, n)
    /\ \A i \in 1 .. n : i <= upto => p[i] <= upto
    /\ \A i \in 1 .. n : upto < i => p[i] = i
    /\ \A i \in 1 .. n : i <= promoted => p[i] \in typed
    /\ \A i \in 1 .. n : promoted < i /\ i <= upto => p[i] \notin typed
    /\ \A i, k \in 1 .. n : i < k /\ k <= promoted => p[i] < p[k]

\* The positions of the jobs of type t.
OfType(before, t) == {i \in 1 .. Queued : JobType[before[i]] = t}

\* Where the loop has put the jobs after it looked at the first upto of them
\* and promoted some.
Promoted(p, before, t, promoted, upto) ==
    /\ Separated(p, Queued, OfType(before, t), promoted, upto)
    /\ \A i \in 1 .. Queued : mJobs[SlotOf(i)] = before[p[i]]

ScanInProgress ==
    Scanning =>
        /\ Len(scan.before) = Queued
        /\ Ahead(mTail, scan.front) <= Ahead(mTail, scan.now)
        /\ Ahead(mTail, scan.now) <= Queued
        /\ \E p \in [1 .. Queued -> 1 .. Queued] :
              Promoted(p, scan.before, scan.type, Ahead(mTail, scan.front), Ahead(mTail, scan.now))

QueueInv == QueueTypeOK /\ CounterExact /\ ScanInProgress

\* The contents, slot by slot.
ContentsExact ==
    /\ Contents \in Seq(Jobs)
    /\ Len(Contents) = Queued
    /\ Queued \in 0 .. mCap - 1
    /\ \A i \in 1 .. Queued : Contents[i] = mJobs[SlotOf(i)]

-----------------------------------------------------------------------------
\* The indices wrap at the capacity.
LEMMA SuccWraps ==
    ASSUME NEW i \in Slots
    PROVE  Succ(i) \in Slots /\ Succ(i) = IF i = mCap - 1 THEN 0 ELSE i + 1
BY QueueConstants DEF Succ, Slots

\* Where the i-th job is.
LEMMA SlotOfJob ==
    ASSUME mTail \in Slots, NEW i \in 1 .. mCap
    PROVE  SlotOf(i) \in Slots /\ (mTail + i - 1) % mCap = SlotOf(i)
BY QueueConstants DEF SlotOf, Slots

\* Different jobs are in different slots.
LEMMA SlotsApart ==
    ASSUME mTail \in Slots, NEW i \in 1 .. mCap, NEW k \in 1 .. mCap, SlotOf(i) = SlotOf(k)
    PROVE  i = k
BY QueueConstants DEF SlotOf, Slots

\* The slot as far ahead of the tail as a slot is that slot.
LEMMA AheadSlot ==
    ASSUME mTail \in Slots, NEW s \in Slots
    PROVE  /\ Ahead(mTail, s) \in 0 .. mCap - 1
           /\ SlotOf(Ahead(mTail, s) + 1) = s
           /\ Ahead(mTail, Succ(s)) = IF Ahead(mTail, s) = mCap - 1 THEN 0 ELSE Ahead(mTail, s) + 1
BY QueueConstants, SuccWraps DEF SlotOf, Slots, Ahead

\* The invariant gives the contents.
LEMMA ContentsOf == QueueInv => ContentsExact
<1> SUFFICES ASSUME QueueInv PROVE ContentsExact
  OBVIOUS
<1>1. Queued \in 0 .. mCap - 1 /\ mCap \in Nat
  BY AheadSlot, QueueConstants DEF QueueInv, QueueTypeOK, Queued
<1>2. Contents = [i \in 1 .. Queued |-> mJobs[(mTail + i - 1) % mCap]]
  BY DEF Contents, Queued
<1>3. ASSUME NEW i \in 1 .. Queued
      PROVE  Contents[i] = mJobs[SlotOf(i)] /\ Contents[i] \in Jobs
  <2>1. i \in 1 .. mCap
    BY <1>1
  <2>2. (mTail + i - 1) % mCap = SlotOf(i)
    BY <2>1, SlotOfJob DEF QueueInv, QueueTypeOK
  <2> QED
    BY <1>2, <2>2 DEF QueueInv, CounterExact
<1>4. Contents \in Seq(Jobs) /\ Len(Contents) = Queued
  BY <1>1, <1>2, <1>3
<1> QED
  BY <1>1, <1>3, <1>4 DEF ContentsExact

\* A slot is the next but the last one before the tail when the ring is full.
LEMMA FullRing ==
    ASSUME QueueInv
    PROVE  Succ(mHead) = mTail <=> Queued = mCap - 1
<1>1. /\ mTail \in Slots
      /\ mHead \in Slots
      /\ Succ(mHead) \in Slots
      /\ mCap \in Nat \ {0}
  BY SuccWraps, QueueConstants DEF QueueInv, QueueTypeOK
<1>2. Ahead(mTail, Succ(mHead)) = IF Queued = mCap - 1 THEN 0 ELSE Queued + 1
  BY <1>1, AheadSlot DEF Queued
<1>3. Queued \in 0 .. mCap - 1 /\ Ahead(mTail, mTail) = 0
  BY <1>1, AheadSlot DEF Queued, Ahead, Slots
<1>4. Ahead(mTail, Succ(mHead)) = 0 => Succ(mHead) = mTail
  BY <1>1 DEF Ahead, Slots
<1> QED
  BY <1>1, <1>2, <1>3, <1>4

\* The queue begins empty.
LEMMA QueueInvInit == QueueInit => QueueInv
<1> SUFFICES ASSUME QueueInit PROVE QueueInv
  OBVIOUS
<1> USE QueueConstants DEF QueueInit
<1>1. QueueTypeOK
  BY DEF QueueTypeOK, Slots
<1>2. CounterExact
  BY DEF CounterExact, Queued, Ahead
<1>3. ScanInProgress
  BY DEF ScanInProgress, Scanning, NoScan
<1> QED
  BY <1>1, <1>2, <1>3 DEF QueueInv

\* enqueue appends a job, unless the ring is full.
LEMMA EnqueueStep ==
    ASSUME QueueInv, NEW j \in Jobs, Enqueue(j)
    PROVE  /\ QueueInv'
           /\ ~Scanning /\ ~Scanning'
           /\ out' = out
           /\ \/ /\ Queued < mCap - 1
                 /\ Contents' = Append(Contents, j)
                 /\ mSize' = mSize + 1
              \/ Queued = mCap - 1 /\ Contents' = Contents /\ mSize' = mSize
<1>1. /\ QueueTypeOK
      /\ ~Scanning /\ ~Scanning'
      /\ UNCHANGED <<mTail, out, scan>>
  BY DEF Enqueue, QueueInv, Scanning
<1>2. ScanInProgress'
  BY <1>1 DEF ScanInProgress
<1>3. CASE Succ(mHead) = mTail
  <2>1. UNCHANGED queueVars
    BY <1>3 DEF Enqueue, queueVars
  <2>2. QueueInv' /\ Contents' = Contents
    BY <1>1, <1>2, <2>1 DEF QueueInv, QueueTypeOK, CounterExact, Queued, SlotOf, queueVars, Contents
  <2> QED
    BY <1>1, <1>3, <2>1, <2>2, FullRing DEF queueVars
<1>4. CASE Succ(mHead) # mTail
  <2>1. /\ mJobs' = [mJobs EXCEPT ![mHead] = j]
        /\ mHead' = Succ(mHead)
        /\ mSize' = mSize + 1
    BY <1>4 DEF Enqueue
  <2>2. /\ Queued \in Nat
        /\ Queued < mCap - 1
        /\ mCap \in Nat
        /\ SlotOf(Queued + 1) = mHead
        /\ Queued' = Queued + 1
    <3>1. Queued \in 0 .. mCap - 1 /\ Queued # mCap - 1 /\ mCap \in Nat
      BY <1>1, <1>4, FullRing, AheadSlot, QueueConstants DEF QueueTypeOK, Queued
    <3> QED
      BY <1>1, <2>1, <3>1, AheadSlot DEF QueueTypeOK, Queued
  <2>3. QueueTypeOK'
    <3>1. mJobs' \in [Slots -> Jobs \cup {NoJob}]
      BY <1>1, <2>1 DEF QueueTypeOK
    <3>2. mHead' \in Slots /\ mSize' \in Nat
      BY <1>1, <2>1, SuccWraps DEF QueueTypeOK
    <3> QED
      BY <1>1, <3>1, <3>2 DEF QueueTypeOK
  <2>4. \A i \in 1 .. Queued + 1 :
           mJobs'[SlotOf(i)] = IF i = Queued + 1 THEN j ELSE mJobs[SlotOf(i)]
    <3> SUFFICES ASSUME NEW i \in 1 .. Queued + 1
                 PROVE  mJobs'[SlotOf(i)] = IF i = Queued + 1 THEN j ELSE mJobs[SlotOf(i)]
      OBVIOUS
    <3>1. i \in 1 .. mCap /\ Queued + 1 \in 1 .. mCap
      BY <2>2
    <3>2. SlotOf(i) \in Slots /\ (SlotOf(i) = mHead => i = Queued + 1)
      BY <1>1, <2>2, <3>1, SlotOfJob, SlotsApart DEF QueueTypeOK
    <3> QED
      BY <1>1, <2>1, <2>2, <3>2 DEF QueueTypeOK
  <2>5. \A i \in Nat : SlotOf(i)' = SlotOf(i)
    BY <1>1 DEF SlotOf
  <2>6. CounterExact'
    <3>1. ASSUME NEW i \in 1 .. Queued + 1 PROVE mJobs'[SlotOf(i)'] \in Jobs
      <4>1. i \in Nat /\ (i = Queued + 1 \/ i \in 1 .. Queued)
        BY <2>2
      <4> QED
        BY <2>4, <2>5, <4>1 DEF QueueInv, CounterExact
    <3> QED
      BY <2>1, <2>2, <3>1 DEF QueueInv, CounterExact
  <2>7. QueueInv'
    BY <1>2, <2>3, <2>6 DEF QueueInv
  <2>8. Contents' = Append(Contents, j)
    <3>1. /\ Contents \in Seq(Jobs)
          /\ Len(Contents) = Queued
          /\ \A i \in 1 .. Queued : Contents[i] = mJobs[SlotOf(i)]
      BY ContentsOf DEF ContentsExact
    <3>2. /\ Contents' \in Seq(Jobs)
          /\ Len(Contents') = Queued + 1
          /\ \A i \in 1 .. Queued + 1 : Contents'[i] = mJobs'[SlotOf(i)']
      <4>1. ContentsExact'
        BY <2>7, ContentsOf, PTL
      <4> QED
        BY <4>1, <2>2 DEF ContentsExact
    <3>3. ASSUME NEW i \in 1 .. Queued + 1
          PROVE  Contents'[i] = IF i = Queued + 1 THEN j ELSE Contents[i]
      <4>1. i \in Nat /\ (i = Queued + 1 \/ i \in 1 .. Queued)
        BY <2>2
      <4> QED
        BY <2>4, <2>5, <3>1, <3>2, <4>1
    <3>4. /\ Append(Contents, j) \in Seq(Jobs)
          /\ Len(Append(Contents, j)) = Queued + 1
          /\ \A i \in 1 .. Queued + 1 : Append(Contents, j)[i] = IF i = Queued + 1 THEN j ELSE Contents[i]
      BY <3>1
    <3> QED
      BY <3>2, <3>3, <3>4, SeqEqual
  <2> QED
    BY <1>1, <2>1, <2>2, <2>7, <2>8
<1> QED
  BY <1>3, <1>4

\* dequeue takes the oldest job, unless there is none.
LEMMA DequeueStep ==
    ASSUME QueueInv, Dequeue
    PROVE  /\ QueueInv'
           /\ ~Scanning /\ ~Scanning'
           /\ \/ /\ Contents # <<>>
                 /\ out' = Head(Contents)
                 /\ Contents' = Tail(Contents)
                 /\ mSize' = mSize - 1
              \/ Contents = <<>> /\ out' = NoJob /\ Contents' = Contents /\ mSize' = mSize
<1>1. /\ QueueTypeOK
      /\ ~Scanning /\ ~Scanning'
      /\ UNCHANGED <<mJobs, mHead, scan>>
  BY DEF Dequeue, QueueInv, Scanning
<1>2. ScanInProgress'
  BY <1>1 DEF ScanInProgress
<1>3. /\ Contents \in Seq(Jobs)
      /\ Len(Contents) = Queued
      /\ Queued \in 0 .. mCap - 1
      /\ mCap \in Nat
      /\ \A i \in 1 .. Queued : Contents[i] = mJobs[SlotOf(i)]
  BY ContentsOf, QueueConstants DEF ContentsExact
<1>4. CASE mHead = mTail
  <2>1. out' = NoJob /\ UNCHANGED <<mTail, mSize>>
    BY <1>4 DEF Dequeue
  <2>2. QueueTypeOK' /\ CounterExact'
    BY <1>1, <2>1 DEF QueueInv, QueueTypeOK, CounterExact, Queued, SlotOf
  <2>3. Contents' = Contents
    BY <1>1, <2>1 DEF Contents
  <2>4. Queued = 0
    BY <1>1, <1>4 DEF Queued, Ahead, QueueTypeOK, Slots
  <2>5. Contents = <<>>
    BY <1>3, <2>4, EmptySeq
  <2> QED
    BY <1>1, <1>2, <2>1, <2>2, <2>3, <2>5 DEF QueueInv
<1>5. CASE mHead # mTail
  <2>1. /\ out' = mJobs[mTail]
        /\ mTail' = Succ(mTail)
        /\ mSize' = mSize - 1
    BY <1>5 DEF Dequeue
  <2>2. /\ mTail \in Slots /\ mHead \in Slots
        /\ mTail' = IF mTail = mCap - 1 THEN 0 ELSE mTail + 1
        /\ mTail' \in Slots
    BY <1>1, <2>1, SuccWraps DEF QueueTypeOK
  <2>3. Queued \in Nat \ {0} /\ Queued' = Queued - 1 /\ SlotOf(1) = mTail
    <3>1. Queued # 0
      BY <1>3, <1>5, <2>2 DEF Queued, Ahead, Slots
    <3>2. Queued' = Queued - 1
      BY <1>1, <1>3, <1>5, <2>2 DEF Queued, Ahead, Slots
    <3>3. SlotOf(1) = mTail
      BY <1>3, <2>2 DEF SlotOf, Slots
    <3> QED
      BY <1>3, <3>1, <3>2, <3>3
  <2>4. \A i \in 1 .. Queued - 1 : SlotOf(i)' = SlotOf(i + 1)
    BY <1>3, <2>2 DEF SlotOf, Slots
  <2>5. ASSUME NEW i \in 1 .. Queued - 1
        PROVE  i + 1 \in 1 .. Queued /\ mJobs'[SlotOf(i)'] = mJobs[SlotOf(i + 1)]
    BY <1>1, <2>3, <2>4
  <2>6. \A i \in 1 .. Queued : mJobs[SlotOf(i)] \in Jobs
    BY DEF QueueInv, CounterExact
  <2>7. QueueTypeOK'
    <3>1. out' \in Jobs
      BY <2>1, <2>3, <2>6
    <3>2. mSize' \in Nat
      BY <2>1, <2>3 DEF QueueInv, CounterExact
    <3> QED
      BY <1>1, <2>2, <3>1, <3>2 DEF QueueTypeOK
  <2>8. CounterExact'
    BY <2>1, <2>3, <2>5, <2>6 DEF QueueInv, CounterExact
  <2>9. QueueInv'
    BY <1>2, <2>7, <2>8 DEF QueueInv
  <2>10. /\ Contents' \in Seq(Jobs)
         /\ Len(Contents') = Queued - 1
         /\ \A i \in 1 .. Queued - 1 : Contents'[i] = mJobs'[SlotOf(i)']
    <3>1. ContentsExact'
      BY <2>9, ContentsOf, PTL
    <3> QED
      BY <2>3, <3>1 DEF ContentsExact
  <2>11. Contents # <<>>
    BY <1>3, <2>3, EmptySeq
  <2>12. out' = Head(Contents)
    BY <1>3, <2>1, <2>3
  <2>13. Contents' = Tail(Contents)
    <3>1. /\ Tail(Contents) \in Seq(Jobs)
          /\ Len(Tail(Contents)) = Queued - 1
          /\ \A i \in 1 .. Queued - 1 : Tail(Contents)[i] = Contents[i + 1]
      BY <1>3, <2>11, HeadTailProperties
    <3>2. \A i \in 1 .. Queued - 1 : Contents'[i] = Tail(Contents)[i]
      BY <1>3, <2>5, <2>10, <3>1
    <3> QED
      BY <2>10, <3>1, <3>2, SeqEqual
  <2> QED
    BY <1>1, <2>1, <2>9, <2>11, <2>12, <2>13
<1> QED
  BY <1>4, <1>5

-----------------------------------------------------------------------------
\* prioritize starts with the contents as they are.
LEMMA PrioritizeBeginStep ==
    ASSUME QueueInv, NEW t \in JobTypes, PrioritizeBegin(t)
    PROVE  /\ QueueInv'
           /\ ~Scanning /\ Scanning'
           /\ scan'.before = Contents
           /\ out' = out /\ mSize' = mSize
<1>1. /\ ~Scanning
      /\ scan' = [on |-> TRUE, type |-> t, now |-> mTail, front |-> mTail, before |-> Contents]
      /\ UNCHANGED <<mJobs, mHead, mTail, mSize, out>>
  BY DEF PrioritizeBegin
<1>2. /\ Contents \in Seq(Jobs)
      /\ Len(Contents) = Queued
      /\ Queued \in 0 .. mCap - 1
      /\ \A i \in 1 .. Queued : Contents[i] = mJobs[SlotOf(i)]
  BY ContentsOf DEF ContentsExact
<1>3. /\ Queued' = Queued
      /\ \A i \in 1 .. Queued : SlotOf(i)' = SlotOf(i)
  BY <1>1 DEF Queued, SlotOf
<1>4. /\ scan'.on = TRUE /\ scan'.type = t /\ scan'.now = mTail /\ scan'.front = mTail
      /\ scan'.before = Contents
      /\ Scanning'
  BY <1>1 DEF Scanning
<1>5. QueueTypeOK'
  BY <1>1, <1>2 DEF QueueInv, QueueTypeOK
<1>6. CounterExact'
  BY <1>1, <1>3 DEF QueueInv, CounterExact
<1>7. Ahead(mTail', mTail) = 0
  BY <1>1 DEF QueueInv, QueueTypeOK, Slots, Ahead
<1>8. ScanInProgress'
  <2>1. \E p \in [1 .. Queued -> 1 .. Queued] : Promoted(p, Contents, t, 0, 0)
    <3> DEFINE id == [i \in 1 .. Queued |-> i]
    <3>1. id \in [1 .. Queued -> 1 .. Queued] /\ Permutes(id, Queued)
      BY DEF Permutes
    <3>2. Promoted(id, Contents, t, 0, 0)
      BY <1>2, <3>1 DEF Promoted, Separated
    <3> QED
      BY <3>1, <3>2
  <2>2. PICK p \in [1 .. Queued -> 1 .. Queued] : Promoted(p, Contents, t, 0, 0)
    BY <2>1
  <2>3. Promoted(p, scan.before, scan.type, Ahead(mTail, scan.front), Ahead(mTail, scan.now))'
    BY <1>1, <1>3, <1>4, <1>7, <2>2 DEF Promoted, OfType
  <2> QED
    BY <1>1, <1>2, <1>3, <1>4, <1>7, <2>3 DEF ScanInProgress
<1> QED
  BY <1>1, <1>4, <1>5, <1>6, <1>8 DEF QueueInv

\* q is p with the values at a and b exchanged.
Exchanged(q, p, a, b, n) ==
    /\ q[a] = p[b] /\ q[b] = p[a]
    /\ \A i \in 1 .. n : i # a /\ i # b => q[i] = p[i]

\* Two values of a permutation exchanged.
LEMMA SlotsSwapped ==
    ASSUME NEW n \in Nat, NEW p \in [1 .. n -> 1 .. n], Permutes(p, n), NEW a \in 1 .. n, NEW b \in 1 .. n
    PROVE  \E q \in [1 .. n -> 1 .. n] :
              /\ Permutes(q, n)
              /\ Exchanged(q, p, a, b, n)
<1> DEFINE q == [p EXCEPT ![a] = p[b], ![b] = p[a]]
<1>1. p \in [1 .. n -> 1 .. n]
  BY DEF Permutes
<1>2. q \in [1 .. n -> 1 .. n]
  BY <1>1
<1>3. \A i \in 1 .. n : q[i] = IF i = b THEN p[a] ELSE IF i = a THEN p[b] ELSE p[i]
  BY <1>1
<1> HIDE DEF q
<1>4. \A i, k \in 1 .. n : q[i] = q[k] => i = k
  BY <1>3 DEF Permutes
<1>5. ASSUME NEW v \in 1 .. n PROVE \E i \in 1 .. n : q[i] = v
  <2>1. PICK i \in 1 .. n : p[i] = v
    BY DEF Permutes
  <2>2. CASE i = a
    BY <1>3, <2>1, <2>2
  <2>3. CASE i = b
    BY <1>3, <2>1, <2>3
  <2>4. CASE i # a /\ i # b
    BY <1>3, <2>1, <2>4
  <2> QED
    BY <2>2, <2>3, <2>4
<1>6. Permutes(q, n)
  BY <1>2, <1>4, <1>5 DEF Permutes
<1>7. Exchanged(q, p, a, b, n)
  BY <1>3 DEF Exchanged
<1> QED
  BY <1>2, <1>6, <1>7

\* The look at one more position that is not in the set.
LEMMA SeparatedSkip ==
    ASSUME NEW n \in Nat, NEW p \in [1 .. n -> 1 .. n], NEW typed, NEW f \in Nat, NEW d \in Nat, f <= d, d < n,
           Separated(p, n, typed, f, d), d + 1 \notin typed
    PROVE  Separated(p, n, typed, f, d + 1)
<1>1. /\ \A i \in 1 .. n : p[i] \in 1 .. n
      /\ d + 1 \in 1 .. n
      /\ p[d + 1] = d + 1
  BY DEF Separated, Permutes
<1>2. \A i \in 1 .. n : (i <= d + 1 => i <= d \/ i = d + 1) /\ (d + 1 < i => d < i)
  OBVIOUS
<1>3. ASSUME NEW i \in 1 .. n, i <= d + 1 PROVE p[i] <= d + 1
  <2>1. CASE i = d + 1
    BY <1>1, <2>1
  <2>2. CASE i <= d
    <3>1. p[i] <= d /\ p[i] \in 1 .. n
      BY <1>1, <2>2 DEF Separated
    <3> QED
      BY <3>1
  <2> QED
    BY <1>2, <1>3, <2>1, <2>2
<1>4. ASSUME NEW i \in 1 .. n, f < i, i <= d + 1 PROVE p[i] \notin typed
  <2>1. CASE i = d + 1
    BY <1>1, <2>1
  <2>2. CASE i <= d
    BY <1>4, <2>2 DEF Separated
  <2> QED
    BY <1>2, <1>4, <2>1, <2>2
<1> QED
  BY <1>2, <1>3, <1>4 DEF Separated

\* The look at one more position that is in the set: it is exchanged with the
\* first one that is not.
LEMMA SeparatedSwap ==
    ASSUME NEW n \in Nat, NEW p \in [1 .. n -> 1 .. n], NEW typed, NEW f \in Nat, NEW d \in Nat, f <= d, d < n,
           Separated(p, n, typed, f, d), d + 1 \in typed,
           NEW a, NEW b, a = f + 1, b = d + 1
    PROVE  \E q \in [1 .. n -> 1 .. n] :
              /\ Separated(q, n, typed, a, b)
              /\ Exchanged(q, p, a, b, n)
<1>1. /\ Permutes(p, n)
      /\ a \in 1 .. n
      /\ b \in 1 .. n
  BY DEF Separated
<1>2. PICK q \in [1 .. n -> 1 .. n] :
         /\ Permutes(q, n)
         /\ Exchanged(q, p, a, b, n)
  BY <1>1, SlotsSwapped
<1>2a. /\ q[a] = p[b] /\ q[b] = p[a]
       /\ \A i \in 1 .. n : i # a /\ i # b => q[i] = p[i]
  BY <1>2 DEF Exchanged
<1>3. /\ p[d + 1] = d + 1
      /\ \A i \in 1 .. n : p[i] \in 1 .. n
  <2>1. p \in [1 .. n -> 1 .. n]
    BY <1>1 DEF Permutes
  <2>2. d < d + 1
    OBVIOUS
  <2> QED
    BY <1>1, <2>1, <2>2 DEF Separated
<1>4. p[a] <= d + 1
  <2>1. CASE f = d
    BY <1>3, <2>1
  <2>2. CASE f # d
    <3>1. f + 1 <= d
      BY <2>2
    <3>2. p[a] <= d /\ p[a] \in 1 .. n
      BY <1>1, <1>3, <3>1 DEF Separated
    <3>3. \A v \in 1 .. n : v <= d => v <= d + 1
      OBVIOUS
    <3> QED
      BY <3>2, <3>3, Zenon
  <2> QED
    BY <2>1, <2>2
<1>5. ASSUME NEW i \in 1 .. n, i <= d + 1 PROVE q[i] <= d + 1
  <2>1. CASE i = d + 1
    BY <1>2a, <1>2, <1>4, <2>1
  <2>2. CASE i = f + 1
    BY <1>2a, <1>2, <1>3, <2>2
  <2>3. CASE i # d + 1 /\ i # f + 1
    <3>1. i <= d
      BY <1>5, <2>3
    <3>2. p[i] <= d /\ p[i] \in 1 .. n
      BY <1>3, <3>1 DEF Separated
    <3>3. q[i] = p[i]
      BY <1>2a, <1>2, <2>3
    <3> QED
      BY <3>2, <3>3
  <2> QED
    BY <2>1, <2>2, <2>3
<1>6. ASSUME NEW i \in 1 .. n, d + 1 < i PROVE q[i] = i
  <2>1. i # d + 1 /\ i # f + 1 /\ d < i
    BY <1>6
  <2> QED
    BY <1>2a, <1>2, <2>1 DEF Separated
<1>7. ASSUME NEW i \in 1 .. n, i <= f + 1 PROVE q[i] \in typed
  <2>1. CASE i = f + 1
    BY <1>2a, <1>2, <1>3, <2>1
  <2>2. CASE i # f + 1
    <3>1. i <= f /\ i # d + 1
      BY <1>7, <2>2
    <3> QED
      BY <1>2a, <1>2, <2>2, <3>1 DEF Separated
  <2> QED
    BY <2>1, <2>2
<1>8. ASSUME NEW i \in 1 .. n, f + 1 < i, i <= d + 1 PROVE q[i] \notin typed
  <2>1. CASE i = d + 1
    <3>1. f < f + 1 /\ f + 1 <= d
      BY <1>8, <2>1
    <3>2. p[f + 1] \notin typed
      BY <1>1, <3>1 DEF Separated
    <3> QED
      BY <1>2a, <1>2, <2>1, <3>2
  <2>2. CASE i # d + 1
    <3>1. f < i /\ i <= d /\ i # f + 1
      BY <1>8, <2>2
    <3> QED
      BY <1>2a, <1>2, <2>2, <3>1 DEF Separated
  <2> QED
    BY <2>1, <2>2
<1>9. ASSUME NEW i \in 1 .. n, NEW k \in 1 .. n, i < k, k <= f + 1 PROVE q[i] < q[k]
  <2>1. i <= f /\ i <= d /\ i # f + 1 /\ i # d + 1
    BY <1>9
  <2>2. q[i] = p[i] /\ p[i] <= d /\ p[i] \in 1 .. n
    BY <1>2a, <1>2, <1>3, <2>1 DEF Separated
  <2>3. CASE k = f + 1
    <3>1. q[k] = d + 1
      BY <1>2a, <1>2, <1>3, <2>3
    <3> QED
      BY <2>2, <3>1
  <2>4. CASE k # f + 1
    <3>1. k <= f /\ k # d + 1
      BY <1>9, <2>4
    <3>2. q[k] = p[k] /\ p[i] < p[k]
      BY <1>2a, <1>2, <1>9, <2>4, <3>1 DEF Separated
    <3> QED
      BY <2>2, <3>2
  <2> QED
    BY <2>3, <2>4
<1> QED
  BY <1>2a, <1>2, <1>5, <1>6, <1>7, <1>8, <1>9 DEF Separated

\* One iteration of prioritize looks at one more job and moves it behind those
\* it promoted before, if it has the type.
LEMMA PrioritizeStepStep ==
    ASSUME QueueInv, PrioritizeStep
    PROVE  /\ QueueInv'
           /\ Scanning /\ Scanning'
           /\ scan'.before = scan.before
           /\ out' = out /\ mSize' = mSize
<1> DEFINE d == Ahead(mTail, scan.now)
           f == Ahead(mTail, scan.front)
           before == scan.before
           t == scan.type
<1>1. /\ Scanning
      /\ scan.now # mHead
      /\ UNCHANGED <<mHead, mTail, mSize, out>>
      /\ IF JobType[mJobs[scan.now]] = scan.type
         THEN /\ mJobs' = [mJobs EXCEPT ![scan.front] = mJobs[scan.now],
                                        ![scan.now]   = mJobs[scan.front]]
              /\ scan' = [scan EXCEPT !.now = Succ(@), !.front = Succ(@)]
         ELSE scan' = [scan EXCEPT !.now = Succ(@)] /\ UNCHANGED mJobs
  BY DEF PrioritizeStep
<1>2. /\ scan # NoScan
      /\ scan \in [on : {TRUE}, type : JobTypes, now : Slots, front : Slots, before : Seq(Jobs)]
      /\ mJobs \in [Slots -> Jobs \cup {NoJob}]
      /\ mTail \in Slots /\ mHead \in Slots
  <2>1. scan # NoScan
    <3>1. NoScan.on = FALSE
      BY DEF NoScan
    <3> QED
      BY <1>1, <3>1 DEF Scanning
  <2> QED
    BY <2>1 DEF QueueInv, QueueTypeOK
<1>3. /\ scan.now \in Slots /\ scan.front \in Slots
      /\ Succ(scan.now) \in Slots /\ Succ(scan.front) \in Slots
      /\ before \in Seq(Jobs) /\ Len(before) = Queued
  BY <1>1, <1>2, SuccWraps DEF QueueInv, ScanInProgress
<1>4. /\ Queued \in Nat /\ Queued < mCap /\ mCap \in Nat
      /\ f \in Nat /\ d \in Nat
      /\ f <= d /\ d < Queued
      /\ Ahead(mTail, Succ(scan.now)) = d + 1
      /\ Ahead(mTail, Succ(scan.front)) = f + 1
      /\ SlotOf(d + 1) = scan.now /\ SlotOf(f + 1) = scan.front
  <2>1. f <= d /\ d <= Queued
    BY <1>1 DEF QueueInv, ScanInProgress
  <2>2. Queued \in 0 .. mCap - 1 /\ SlotOf(Queued + 1) = mHead /\ mCap \in Nat
    BY <1>2, AheadSlot, QueueConstants DEF Queued
  <2>3. /\ d \in 0 .. mCap - 1 /\ SlotOf(d + 1) = scan.now
        /\ Ahead(mTail, Succ(scan.now)) = IF d = mCap - 1 THEN 0 ELSE d + 1
    BY <1>2, <1>3, AheadSlot
  <2>4. /\ f \in 0 .. mCap - 1 /\ SlotOf(f + 1) = scan.front
        /\ Ahead(mTail, Succ(scan.front)) = IF f = mCap - 1 THEN 0 ELSE f + 1
    BY <1>2, <1>3, AheadSlot
  <2> HIDE DEF d, f
  <2>5. d # Queued
    BY <1>1, <2>2, <2>3
  <2> QED
    BY <2>1, <2>2, <2>3, <2>4, <2>5
<1>5. PICK p \in [1 .. Queued -> 1 .. Queued] : Promoted(p, before, t, f, d)
  BY <1>1 DEF QueueInv, ScanInProgress
<1>6. /\ Queued' = Queued
      /\ \A i \in 1 .. Queued : SlotOf(i)' = SlotOf(i)
  BY <1>1 DEF Queued, SlotOf
<1>7. /\ d + 1 \in 1 .. Queued /\ f + 1 \in 1 .. Queued
      /\ p[d + 1] = d + 1
      /\ mJobs[scan.now] = before[d + 1]
  <2>1. d + 1 \in 1 .. Queued /\ f + 1 \in 1 .. Queued /\ d < d + 1
    BY <1>4
  <2> QED
    BY <1>4, <1>5, <2>1 DEF Promoted, Separated
<1>8. /\ Scanning' /\ scan'.before = before /\ scan'.type = t
      /\ scan'.now = Succ(scan.now)
      /\ scan'.front = IF JobType[mJobs[scan.now]] = t THEN Succ(scan.front) ELSE scan.front
      /\ scan' \in [on : {TRUE}, type : JobTypes, now : Slots, front : Slots, before : Seq(Jobs)]
  BY <1>1, <1>2, <1>3 DEF Scanning
<1>9. f' = Ahead(mTail, scan'.front) /\ d' = d + 1 /\ d' <= Queued
  BY <1>1, <1>4, <1>8
<1>10. /\ mJobs' \in [Slots -> Jobs \cup {NoJob}]
       /\ f' <= d'
       /\ \E q \in [1 .. Queued -> 1 .. Queued] :
             /\ Separated(q, Queued, OfType(before, t), f', d')
             /\ \A i \in 1 .. Queued : mJobs'[SlotOf(i)] = before[q[i]]
  <2>1. CASE JobType[mJobs[scan.now]] # t
    <3>1. mJobs' = mJobs /\ f' = f
      BY <1>1, <1>8, <2>1
    <3>2. d + 1 \notin OfType(before, t)
      BY <1>7, <2>1 DEF OfType
    <3>3. Separated(p, Queued, OfType(before, t), f, d)
      BY <1>5 DEF Promoted
    <3>4. Separated(p, Queued, OfType(before, t), f, d + 1) /\ f <= d + 1
      <4> HIDE DEF d, f, before, t
      <4> QED
        <5>1. ASSUME NEW n, n = Queued, NEW g, g = f, NEW e, e = d, NEW s, s = OfType(before, t)
              PROVE  Separated(p, n, s, g, e + 1)
          <6>1. /\ n \in Nat /\ g \in Nat /\ e \in Nat /\ g <= e /\ e < n
                /\ p \in [1 .. n -> 1 .. n]
                /\ Separated(p, n, s, g, e)
                /\ e + 1 \notin s
            BY <1>4, <3>2, <3>3, <5>1
          <6> QED
            BY <6>1, SeparatedSkip
        <5> QED
          BY <1>4, <5>1
    <3>5. \A i \in 1 .. Queued : mJobs'[SlotOf(i)] = before[p[i]]
      BY <1>5, <3>1 DEF Promoted
    <3> HIDE DEF d, f, before, t
    <3> QED
      BY <1>2, <1>9, <3>1, <3>4, <3>5
  <2>2. CASE JobType[mJobs[scan.now]] = t
    <3>1. /\ mJobs' = [mJobs EXCEPT ![scan.front] = mJobs[scan.now], ![scan.now] = mJobs[scan.front]]
          /\ f' = f + 1
      BY <1>1, <1>4, <1>8, <1>9, <2>2
    <3>2. /\ mJobs' \in [Slots -> Jobs \cup {NoJob}]
          /\ \A s \in Slots : mJobs'[s] = IF s = scan.now THEN mJobs[scan.front]
                                          ELSE IF s = scan.front THEN mJobs[scan.now] ELSE mJobs[s]
      BY <1>2, <1>3, <3>1
    <3>3. Separated(p, Queued, OfType(before, t), f, d) /\ d + 1 \in OfType(before, t)
      BY <1>5, <1>7, <2>2 DEF Promoted, OfType
    <3>4. PICK q \in [1 .. Queued -> 1 .. Queued] :
              /\ Separated(q, Queued, OfType(before, t), f + 1, d + 1)
              /\ Exchanged(q, p, f + 1, d + 1, Queued)
      <4> HIDE DEF d, f, before, t
      <4> QED
        <5>1. ASSUME NEW n, n = Queued, NEW g, g = f, NEW e, e = d, NEW s, s = OfType(before, t),
                     NEW a, a = f + 1, NEW b, b = d + 1
              PROVE  \E q \in [1 .. n -> 1 .. n] :
                        /\ Separated(q, n, s, a, b)
                        /\ Exchanged(q, p, a, b, n)
          <6>1. /\ n \in Nat /\ g \in Nat /\ e \in Nat /\ g <= e /\ e < n
                /\ p \in [1 .. n -> 1 .. n]
                /\ Separated(p, n, s, g, e)
                /\ e + 1 \in s /\ a = g + 1 /\ b = e + 1
            BY <1>4, <3>3, <5>1
          <6> QED
            BY <6>1, SeparatedSwap
        <5> QED
          BY <5>1
    <3>5. ASSUME NEW i \in 1 .. Queued PROVE mJobs'[SlotOf(i)] = before[q[i]]
      <4> HIDE DEF d, f, before, t
      <4>1. i \in 1 .. mCap /\ d + 1 \in 1 .. mCap /\ f + 1 \in 1 .. mCap
        <5>1. ASSUME NEW n \in Nat, n = Queued, NEW c \in Nat, c = mCap, n < c,
                     NEW e \in Nat, e = d, NEW g \in Nat, g = f, g <= e, e < n
              PROVE  i \in 1 .. c /\ e + 1 \in 1 .. c /\ g + 1 \in 1 .. c
          BY <5>1
        <5> QED
          BY <1>4, <5>1
      <4>2. /\ SlotOf(i) \in Slots
            /\ SlotOf(i) = scan.now <=> i = d + 1
            /\ SlotOf(i) = scan.front <=> i = f + 1
        <5>1. SlotOf(i) \in Slots
          BY <1>2, <4>1, SlotOfJob
        <5>2. SlotOf(i) = SlotOf(d + 1) => i = d + 1
          BY <1>2, <4>1, SlotsApart
        <5>3. SlotOf(i) = SlotOf(f + 1) => i = f + 1
          BY <1>2, <4>1, SlotsApart
        <5> QED
          BY <1>4, <5>1, <5>2, <5>3
      <4>3. /\ mJobs[SlotOf(i)] = before[p[i]]
            /\ mJobs[scan.now] = before[p[d + 1]]
            /\ mJobs[scan.front] = before[p[f + 1]]
        BY <1>4, <1>5, <1>7 DEF Promoted
      <4> QED
        BY <1>4, <3>2, <3>4, <4>2, <4>3 DEF Exchanged
    <3> HIDE DEF d, f, before, t
    <3>6. f' <= d'
      BY <1>4, <1>9, <3>1
    <3> QED
      BY <1>9, <3>1, <3>2, <3>4, <3>5, <3>6
  <2> QED
    BY <2>1, <2>2
<1>11. QueueTypeOK'
  BY <1>1, <1>2, <1>8, <1>10 DEF QueueInv, QueueTypeOK
<1>12. CounterExact'
  <2>1. ASSUME NEW i \in 1 .. Queued PROVE mJobs'[SlotOf(i)] \in Jobs
    <3>1. PICK q \in [1 .. Queued -> 1 .. Queued] : \A k \in 1 .. Queued : mJobs'[SlotOf(k)] = before[q[k]]
      BY <1>10
    <3>2. q[i] \in 1 .. Queued
      OBVIOUS
    <3> HIDE DEF before
    <3>3. before[q[i]] \in Jobs
      BY <1>3, <3>2
    <3> QED
      BY <3>1, <3>3
  <2> QED
    BY <1>1, <1>6, <2>1 DEF QueueInv, CounterExact
<1>13. ScanInProgress'
  <2>1. PICK q \in [1 .. Queued -> 1 .. Queued] :
             /\ Separated(q, Queued, OfType(before, t), f', d')
             /\ \A i \in 1 .. Queued : mJobs'[SlotOf(i)] = before[q[i]]
    BY <1>10
  <2>2. OfType(before, t) = OfType(scan.before, scan.type)'
    BY <1>6, <1>8 DEF OfType
  <2>3. Promoted(q, scan.before, scan.type, Ahead(mTail, scan.front), Ahead(mTail, scan.now))'
    BY <1>6, <1>8, <2>1, <2>2 DEF Promoted
  <2>4. Len(scan'.before) = Queued'
    BY <1>3, <1>6, <1>8
  <2>5. f' <= d' /\ d' <= Queued'
    BY <1>6, <1>9, <1>10
  <2> QED
    BY <1>6, <2>3, <2>4, <2>5 DEF ScanInProgress
<1> QED
  BY <1>1, <1>8, <1>11, <1>12, <1>13 DEF QueueInv
\* When the loop has looked at every job, its permutation is a promotion of the
\* old contents.
LEMMA PrioritizeEndStep ==
    ASSUME QueueInv, PrioritizeEnd
    PROVE  /\ QueueInv'
           /\ Scanning /\ ~Scanning'
           /\ out' = out /\ mSize' = mSize
           /\ scan.before \in Seq(Jobs)
           /\ \E t \in JobTypes : \E p \in [DOMAIN scan.before -> DOMAIN scan.before] :
                 /\ IsPromotion(p, scan.before, t, JobType)
                 /\ Contents' = Reordered(scan.before, p)
<1>1. /\ Scanning
      /\ scan.now = mHead
      /\ scan' = NoScan
      /\ UNCHANGED <<mJobs, mHead, mTail, mSize, out>>
  BY DEF PrioritizeEnd
<1>2. /\ scan.before \in Seq(Jobs) /\ Len(scan.before) = Queued
      /\ scan.type \in JobTypes /\ scan.front \in Slots
      /\ Queued \in Nat
      /\ DOMAIN scan.before = 1 .. Queued
  <2>1. scan # NoScan
    <3>1. NoScan.on = FALSE
      BY DEF NoScan
    <3> QED
      BY <1>1, <3>1 DEF Scanning
  <2>2. scan \in [on : {TRUE}, type : JobTypes, now : Slots, front : Slots, before : Seq(Jobs)]
    BY <2>1 DEF QueueInv, QueueTypeOK
  <2>3. Len(scan.before) = Queued /\ scan.before \in Seq(Jobs) /\ scan.type \in JobTypes /\ scan.front \in Slots
    BY <1>1, <2>2 DEF QueueInv, ScanInProgress
  <2>4. Queued \in Nat
    BY AheadSlot, QueueConstants DEF QueueInv, QueueTypeOK, Queued
  <2> QED
    BY <2>3, <2>4
<1>3. ~Scanning'
  BY <1>1 DEF Scanning, NoScan
<1>4. QueueInv'
  <2>1. QueueTypeOK'
    BY <1>1 DEF QueueInv, QueueTypeOK
  <2>2. CounterExact'
    BY <1>1 DEF QueueInv, CounterExact, Queued, SlotOf
  <2> QED
    BY <1>3, <2>1, <2>2 DEF QueueInv, ScanInProgress
<1>5. PICK p \in [1 .. Queued -> 1 .. Queued] :
         Promoted(p, scan.before, scan.type, Ahead(mTail, scan.front), Queued)
  BY <1>1 DEF QueueInv, ScanInProgress, Queued
<1>6. PICK f \in Nat : /\ f <= Queued
                       /\ Separated(p, Queued, OfType(scan.before, scan.type), f, Queued)
  <2>1. Ahead(mTail, scan.front) <= Queued
    BY <1>1 DEF QueueInv, ScanInProgress, Queued
  <2>2. Ahead(mTail, scan.front) \in Nat
    <3>1. scan.front \in Slots
      BY <1>2
    <3> QED
      BY <3>1, AheadSlot, QueueConstants DEF QueueInv, QueueTypeOK
  <2> QED
    BY <1>5, <2>1, <2>2 DEF Promoted
<1>7. IsPromotion(p, scan.before, scan.type, JobType)
  <2>1. p \in Bijection(DOMAIN scan.before, DOMAIN scan.before)
    <3>1. Permutes(p, Queued)
      BY <1>6 DEF Separated
    <3> QED
      BY <1>2, <3>1 DEF Permutes, Bijection, Injection, Surjection, IsInjective
  <2>2. \A i \in 1 .. Queued : JobType[scan.before[p[i]]] = scan.type <=> i <= f
    <3>1. ASSUME NEW i \in 1 .. Queued PROVE JobType[scan.before[p[i]]] = scan.type <=> p[i] \in OfType(scan.before, scan.type)
      BY DEF OfType
    <3>2. \A i \in 1 .. Queued : (i <= f \/ f < i) /\ i <= Queued /\ ~(i <= f /\ f < i)
      BY <1>2
    <3> QED
      BY <1>6, <3>1, <3>2 DEF Separated
  <2>3. ASSUME NEW i \in 1 .. Queued, NEW k \in 1 .. Queued,
               JobType[scan.before[p[k]]] = scan.type, i < k
        PROVE  JobType[scan.before[p[i]]] = scan.type /\ p[i] < p[k]
    <3>1. k <= f
      BY <2>2, <2>3
    <3>2. i <= f
      BY <2>3, <3>1
    <3> QED
      BY <1>6, <2>2, <2>3, <3>1, <3>2 DEF Separated
  <2> QED
    BY <1>2, <2>1, <2>3 DEF IsPromotion
<1>8. Contents' = Reordered(scan.before, p)
  <2>1. Queued' = Queued /\ \A i \in 1 .. Queued : SlotOf(i)' = SlotOf(i)
    BY <1>1 DEF Queued, SlotOf
  <2>2. /\ Contents' \in Seq(Jobs)
        /\ Len(Contents') = Queued
        /\ \A i \in 1 .. Queued : Contents'[i] = mJobs[SlotOf(i)]
    <3>1. ContentsExact'
      BY <1>4, ContentsOf, PTL
    <3> QED
      BY <1>1, <2>1, <3>1 DEF ContentsExact
  <2>3. Reordered(scan.before, p) = [i \in 1 .. Queued |-> scan.before[p[i]]]
    BY <1>2 DEF Reordered
  <2>4. /\ DOMAIN Contents' = 1 .. Queued
        /\ Contents' = [i \in DOMAIN Contents' |-> Contents'[i]]
    BY <1>2, <2>2
  <2>5. \A i \in 1 .. Queued : Contents'[i] = scan.before[p[i]]
    BY <1>5, <2>2 DEF Promoted
  <2> QED
    BY <2>3, <2>4, <2>5
<1> QED
  BY <1>1, <1>2, <1>3, <1>4, <1>7, <1>8

-----------------------------------------------------------------------------
\* Every step of the ring buffer keeps QueueInv.
LEMMA QueueInvStep == QueueInv /\ [QueueNext]_queueVars => QueueInv'
<1>1. ASSUME QueueInv, NEW j \in Jobs, Enqueue(j) PROVE QueueInv'
  BY <1>1, EnqueueStep
<1>2. ASSUME QueueInv, Dequeue PROVE QueueInv'
  BY <1>2, DequeueStep
<1>3. ASSUME QueueInv, NEW t \in JobTypes, PrioritizeBegin(t) PROVE QueueInv'
  BY <1>3, PrioritizeBeginStep
<1>4. ASSUME QueueInv, PrioritizeStep PROVE QueueInv'
  BY <1>4, PrioritizeStepStep
<1>5. ASSUME QueueInv, PrioritizeEnd PROVE QueueInv'
  BY <1>5, PrioritizeEndStep
<1>6. ASSUME QueueInv, UNCHANGED queueVars PROVE QueueInv'
  <2>1. QueueTypeOK'
    BY <1>6 DEF QueueInv, QueueTypeOK, queueVars
  <2>2. CounterExact'
    BY <1>6 DEF QueueInv, CounterExact, Queued, SlotOf, queueVars
  <2>3. ScanInProgress'
    BY <1>6 DEF QueueInv, ScanInProgress, Promoted, OfType, Scanning, Queued, SlotOf, queueVars
  <2> QED
    BY <2>1, <2>2, <2>3 DEF QueueInv
<1> QED
  BY <1>1, <1>2, <1>3, <1>4, <1>5, <1>6 DEF QueueNext

\* The empty ring is the empty fifo.
LEMMA FifoInit == QueueInit => Fifo!Init
<1> SUFFICES ASSUME QueueInit PROVE Fifo!Init
  OBVIOUS
<1>1. ContentsExact /\ Queued = 0
  BY QueueInvInit, ContentsOf DEF QueueInit, Queued, Ahead
<1>2. Contents = <<>>
  BY <1>1 DEF ContentsExact
<1>3. ~Scanning
  BY DEF QueueInit, Scanning, NoScan
<1> QED
  BY <1>2, <1>3 DEF Fifo!Init, QueueInit

\* Every step of the ring buffer is a step of the fifo, or none: enqueue puts a
\* job or is refused, dequeue takes one or finds none, and a prioritize is one
\* promotion at the step that releases the mutex.
LEMMA FifoStep == QueueInv /\ [QueueNext]_queueVars => [Fifo!Next]_(Fifo!fifoVars)
<1> DEFINE fifo == IF Scanning THEN scan.before ELSE Contents
<1>1. ASSUME QueueInv, NEW j \in Jobs, Enqueue(j) PROVE [Fifo!Next]_(Fifo!fifoVars)
  <2>1. fifo = Contents /\ fifo' = Contents' /\ out' = out /\ Len(Contents) = Queued
    BY <1>1, EnqueueStep, ContentsOf DEF ContentsExact
  <2>2. CASE /\ Queued < mCap - 1
             /\ Contents' = Append(Contents, j)
             /\ mSize' = mSize + 1
    <3>1. Fifo!Put(j)
      BY <2>1, <2>2 DEF Fifo!Put, Fifo!HasRoom
    <3> QED
      BY <3>1 DEF Fifo!Next
  <2>3. CASE Queued = mCap - 1 /\ Contents' = Contents /\ mSize' = mSize
    BY <2>1, <2>3 DEF Fifo!fifoVars
  <2> QED
    BY <1>1, <2>2, <2>3, EnqueueStep
<1>2. ASSUME QueueInv, Dequeue PROVE [Fifo!Next]_(Fifo!fifoVars)
  <2>1. fifo = Contents /\ fifo' = Contents'
    BY <1>2, DequeueStep
  <2>2. Fifo!Take \/ Fifo!TakeNothing
    BY <1>2, <2>1, DequeueStep DEF Fifo!Take, Fifo!TakeNothing
  <2> QED
    BY <2>2 DEF Fifo!Next
<1>3. ASSUME QueueInv, NEW t \in JobTypes, PrioritizeBegin(t) PROVE UNCHANGED Fifo!fifoVars
  BY <1>3, PrioritizeBeginStep DEF Fifo!fifoVars
<1>4. ASSUME QueueInv, PrioritizeStep PROVE UNCHANGED Fifo!fifoVars
  BY <1>4, PrioritizeStepStep DEF Fifo!fifoVars
<1>5. ASSUME QueueInv, PrioritizeEnd PROVE [Fifo!Next]_(Fifo!fifoVars)
  <2>1. /\ fifo = scan.before /\ fifo' = Contents'
        /\ out' = out /\ mSize' = mSize
    BY <1>5, PrioritizeEndStep
  <2>2. PICK t \in JobTypes, p \in [DOMAIN scan.before -> DOMAIN scan.before] :
           /\ IsPromotion(p, scan.before, t, JobType)
           /\ Contents' = Reordered(scan.before, p)
    BY <1>5, PrioritizeEndStep
  <2>3. /\ Fifo!IsPromotion(p, scan.before, t, JobType)
        /\ Contents' = Fifo!Reordered(scan.before, p)
    <3>1. Fifo!Bijection(DOMAIN scan.before, DOMAIN scan.before) = Bijection(DOMAIN scan.before, DOMAIN scan.before)
      BY DEF Bijection, Injection, Surjection, IsInjective,
             Fifo!Bijection, Fifo!Injection, Fifo!Surjection, Fifo!IsInjective
    <3> QED
      BY <2>2, <3>1 DEF Fifo!IsPromotion, IsPromotion, Fifo!Reordered, Reordered
  <2>4. Fifo!Promote(t)
    <3> HIDE DEF fifo
    <3> QED
      BY <2>1, <2>2, <2>3 DEF Fifo!Promote, fifo
  <2> QED
    BY <2>4 DEF Fifo!Next
<1>6. ASSUME UNCHANGED queueVars PROVE UNCHANGED Fifo!fifoVars
  BY <1>6 DEF Fifo!fifoVars, queueVars, Scanning, Contents
<1> QED
  BY <1>1, <1>2, <1>3, <1>4, <1>5, <1>6 DEF QueueNext

\* The indices, the counter and the slots agree at every step, and a running
\* prioritize has lost and duplicated nothing.
THEOREM QueueInvariant == QueueSpec => []QueueInv
<1> QED
  BY QueueInvInit, QueueInvStep, PTL DEF QueueSpec

\* The ring buffer implements the bounded fifo, whatever its capacity, its jobs
\* and their types: nothing is lost, duplicated or overtaken but by a job that
\* prioritize moves, and the counter read without the mutex is the number of
\* queued jobs.
THEOREM QueueImplementsFifo == QueueSpec => ImplementsFifo
<1> QED
  BY QueueInvariant, FifoInit, FifoStep, PTL DEF QueueSpec, ImplementsFifo, Fifo!Spec

-----------------------------------------------------------------------------
(* PoolAllocator *)

PoolTypeInv ==
    /\ pages \in Nat
    /\ freeBlocks \in [1..pages -> Seq(Blocks)]
    /\ freeBlockCount \in [1..pages -> Nat]
    /\ freeBlocks \in Seq(Seq(Blocks)) /\ Len(freeBlocks) = pages
    /\ freeBlockCount \in Seq(Nat) /\ Len(freeBlockCount) = pages
    /\ client \subseteq (1..pages) \X Blocks

\* What PoolExact says of one page.
PageInv(p) ==
    /\ IsInjective(freeBlocks[p])
    /\ \A b \in Blocks : b \in ToSet(freeBlocks[p]) <=> <<p, b>> \notin client
    /\ freeBlockCount[p] = Len(freeBlocks[p])

\* The count also is that of the blocks without an owner.
CountInv(p) == freeBlockCount[p] = pageSize - Cardinality(OwnedIn(p, 0))

PoolInv == PoolTypeInv /\ owned = client /\ \A p \in 1..pages : PageInv(p) /\ CountInv(p)
\* Where the iterator is: `left` blocks of its page are still to come, and the
\* blocks that it has shown are those of the pages and of the blocks before.
WalkInv ==
    ite # Null =>
        /\ ite.page \in 1..pages /\ ite.block \in Blocks
        /\ ite.left = Cardinality(OwnedIn(ite.page, ite.block + 1))
        /\ \A c \in client : c \in seen <=>
              c[1] > ite.page \/ (c[1] = ite.page /\ c[2] <= ite.block)
        /\ seen \subseteq client
-----------------------------------------------------------------------------
\* A set of natural numbers has a least one, a bounded one a greatest.
LEMMA LeastExists ==
    ASSUME NEW S, S \subseteq Nat, S # {}
    PROVE  \E p \in S : \A q \in S : p <= q
<1>1. PICK x \in S : \A y \in S : ~(<<y, x>> \in OpToRel(<, Nat))
  BY NatLessThanWellFounded, WFMin
<1>2. \A y \in S : ~(y < x)
  BY <1>1 DEF OpToRel
<1> QED
  BY <1>2

\* A non-empty set of pages has a youngest one.
LEMMA GreatestExists ==
    ASSUME NEW n \in Nat, NEW S, S \subseteq 1..n, S # {}
    PROVE  Youngest(S) \in S /\ \A q \in S : q <= Youngest(S)
<1> DEFINE T == {k \in Nat : n - k \in S}
<1>1. \A q \in S : n - q \in T
  OBVIOUS
<1>2. PICK x \in T : \A k \in T : x <= k
  BY <1>1, LeastExists
<1>3. n - x \in S /\ \A q \in S : q <= n - x
  BY <1>1, <1>2
<1> QED
  BY <1>3 DEF Youngest

\* A non-empty set of blocks has a lowest one.
LEMMA LowestExists ==
    ASSUME NEW S, S \subseteq Blocks, S # {}
    PROVE  Lowest(S) \in S /\ \A c \in S : Lowest(S) <= c
<1>1. S \subseteq Nat
  BY PoolConstants DEF Blocks
<1>2. \E b \in S : \A c \in S : b <= c
  BY <1>1, LeastExists
<1> QED
  BY <1>2 DEF Lowest

\* The owned blocks of a page, and how they are counted.
LEMMA OwnedFinite ==
    ASSUME NEW p, NEW from
    PROVE  /\ IsFiniteSet(OwnedIn(p, from)) /\ Cardinality(OwnedIn(p, from)) \in Nat
           /\ Cardinality(OwnedIn(p, from)) = 0 <=> OwnedIn(p, from) = {}
<1>1. IsFiniteSet(Blocks)
  BY PoolConstants, FS_Interval DEF Blocks
<1>2. IsFiniteSet(OwnedIn(p, from))
  BY <1>1, FS_Subset DEF OwnedIn
<1> QED
  BY <1>2, FS_CardinalityType, FS_EmptySet
-----------------------------------------------------------------------------
\* A block in front of a list that does not have it.
LEMMA PushFront ==
    ASSUME NEW S, NEW s \in Seq(S), NEW b \in S, IsInjective(s), b \notin ToSet(s)
    PROVE  LET t == <<b>> \o s
           IN  t \in Seq(S) /\ IsInjective(t) /\ ToSet(t) = ToSet(s) \cup {b} /\ Len(t) = Len(s) + 1
<1> DEFINE t == <<b>> \o s
           n == Len(s)
<1>1. n \in Nat /\ DOMAIN s = 1..n /\ \A k \in 1..n : s[k] \in S
  OBVIOUS
<1>2. /\ t \in Seq(S) /\ Len(t) = n + 1 /\ DOMAIN t = 1..n + 1
      /\ t[1] = b /\ \A k \in 1..n : t[k + 1] = s[k]
  OBVIOUS
<1>3. \A k \in 2..n + 1 : k - 1 \in 1..n /\ t[k] = s[k - 1] /\ t[k] \in ToSet(s)
  BY <1>1, <1>2 DEF ToSet
<1> HIDE DEF t, n
<1>4. IsInjective(t)
  <2> SUFFICES ASSUME NEW i \in 1..n + 1, NEW j \in 1..n + 1, t[i] = t[j] PROVE i = j
    BY <1>2 DEF IsInjective
  <2>1. CASE i = 1 \/ j = 1
    BY <1>1, <1>2, <1>3, <2>1
  <2>2. CASE i # 1 /\ j # 1
    <3>1. i - 1 \in DOMAIN s /\ j - 1 \in DOMAIN s /\ s[i - 1] = s[j - 1]
      BY <1>1, <1>3, <2>2
    <3> QED
      BY <1>1, <3>1 DEF IsInjective
  <2> QED
    BY <2>1, <2>2
<1>5. ToSet(t) = ToSet(s) \cup {b}
  <2>1. ASSUME NEW k \in 1..n + 1 PROVE t[k] \in ToSet(s) \cup {b}
    <3>1. k = 1 \/ k \in 2..n + 1
      BY <1>1
    <3> QED
      BY <1>2, <1>3, <3>1
  <2>2. ASSUME NEW k \in 1..n PROVE s[k] \in ToSet(t)
    <3>1. k + 1 \in DOMAIN t /\ t[k + 1] = s[k]
      BY <1>1, <1>2
    <3> QED
      BY <3>1 DEF ToSet
  <2>3. b \in ToSet(t)
    <3>1. 1 \in DOMAIN t /\ t[1] = b
      BY <1>1, <1>2
    <3> QED
      BY <3>1 DEF ToSet
  <2> QED
    BY <1>1, <1>2, <2>1, <2>2, <2>3 DEF ToSet
<1> QED
  BY <1>2, <1>4, <1>5 DEF t, n

\* The rest of a list without its first block.
LEMMA PopFront ==
    ASSUME NEW S, NEW s \in Seq(S), s # <<>>, IsInjective(s)
    PROVE  /\ Head(s) \in ToSet(s) /\ Head(s) \in S
           /\ Tail(s) \in Seq(S) /\ IsInjective(Tail(s))
           /\ ToSet(Tail(s)) = ToSet(s) \ {Head(s)}
           /\ Len(Tail(s)) = Len(s) - 1 /\ Len(s) \in Nat \ {0}
<1> DEFINE t == Tail(s)
           n == Len(s)
<1>1. n \in Nat \ {0} /\ DOMAIN s = 1..n /\ Head(s) = s[1] /\ s[1] \in S
  OBVIOUS
<1>2. t \in Seq(S) /\ Len(t) = n - 1 /\ DOMAIN t = 1..n - 1 /\ \A k \in 1..n - 1 : t[k] = s[k + 1]
  BY HeadTailProperties
<1>3. \A i, j \in 1..n : s[i] = s[j] => i = j
  BY <1>1 DEF IsInjective
<1> HIDE DEF t, n
<1>4. \A k \in 1..n - 1 : k + 1 \in 1..n /\ k + 1 # 1
  BY <1>1
<1>5. IsInjective(t)
  <2> SUFFICES ASSUME NEW i \in 1..n - 1, NEW j \in 1..n - 1, t[i] = t[j] PROVE i = j
    BY <1>2 DEF IsInjective
  <2>1. i + 1 = j + 1
    BY <1>2, <1>3, <1>4
  <2> QED
    BY <2>1
<1>6. ToSet(t) = ToSet(s) \ {s[1]}
  <2>1. ASSUME NEW k \in 1..n - 1 PROVE t[k] \in ToSet(s) /\ t[k] # s[1]
    <3>1. k + 1 \in 1..n /\ k + 1 # 1 /\ t[k] = s[k + 1] /\ 1 \in 1..n
      BY <1>1, <1>2, <1>4
    <3> QED
      BY <1>1, <1>3, <3>1 DEF ToSet
  <2>2. ASSUME NEW k \in 1..n, s[k] # s[1] PROVE s[k] \in ToSet(t)
    <3>1. k - 1 \in 1..n - 1 /\ (k - 1) + 1 = k
      BY <1>1, <2>2
    <3>2. t[k - 1] = s[k]
      BY <1>2, <3>1
    <3> QED
      BY <1>2, <3>1, <3>2 DEF ToSet
  <2>3. ToSet(t) \subseteq ToSet(s) \ {s[1]}
    BY <1>2, <2>1 DEF ToSet
  <2>4. ToSet(s) \ {s[1]} \subseteq ToSet(t)
    BY <1>1, <2>2 DEF ToSet
  <2> QED
    BY <2>3, <2>4
<1>7. Head(s) \in ToSet(s)
  BY <1>1 DEF ToSet
<1> QED
  BY <1>1, <1>2, <1>5, <1>6, <1>7 DEF t, n

\* What Append returns.
LEMMA Appended ==
    ASSUME NEW S, NEW s \in Seq(S), NEW e \in S
    PROVE  /\ Append(s, e) \in Seq(S) /\ Append(s, e) \in [1..Len(s) + 1 -> S]
           /\ Len(Append(s, e)) = Len(s) + 1 /\ Append(s, e)[Len(s) + 1] = e
           /\ \A k \in 1..Len(s) : Append(s, e)[k] = s[k]
<1>1. Append(s, e) \in Seq(S) /\ Len(Append(s, e)) = Len(s) + 1
  OBVIOUS
<1>2. Append(s, e) \in [1..Len(s) + 1 -> S]
  BY <1>1, LenProperties
<1> QED
  BY <1>1, <1>2

\* The list of a new page has every block but the first, in order.
LEMMA NewPage ==
    LET s == [k \in 1..pageSize - 1 |-> k]
    IN  /\ s \in Seq(Blocks) /\ IsInjective(s) /\ Len(s) = pageSize - 1
        /\ \A b \in Blocks : b \in ToSet(s) <=> b # 0
<1> DEFINE s == [k \in 1..pageSize - 1 |-> k]
<1>1. pageSize \in Nat \ {0} /\ 1..pageSize - 1 \subseteq Blocks
  BY PoolConstants DEF Blocks
<1>2. s \in Seq(Blocks) /\ Len(s) = pageSize - 1 /\ DOMAIN s = 1..pageSize - 1
  BY <1>1
<1>3. \A b \in Blocks : b \in ToSet(s) <=> b # 0
  BY <1>1 DEF ToSet, Blocks
<1> QED
  BY <1>2, <1>3 DEF IsInjective
-----------------------------------------------------------------------------
\* The blocks that callers have are pairs of a page and a block.
LEMMA ClientPairs ==
    ASSUME PoolTypeInv, NEW c \in client
    PROVE  c = <<c[1], c[2]>> /\ c[1] \in 1..pages /\ c[2] \in Blocks /\ c[2] \in Nat
<1>1. c = <<c[1], c[2]>> /\ c[1] \in 1..pages /\ c[2] \in Blocks
  BY DEF PoolTypeInv
<1>2. Blocks \subseteq Nat
  BY PoolConstants DEF Blocks
<1> QED
  BY <1>1, <1>2

\* A pool begins without pages.
LEMMA PoolInvInit == PoolInit => PoolInv
BY DEF PoolInit, PoolInv, PoolTypeInv, PageInv

\* What a call does to the pages that it does not touch.
LEMMA OtherPages ==
    ASSUME PoolInv, NEW p \in 1..pages, NEW q \in 1..pages, q # p,
           freeBlocks'[q] = freeBlocks[q], freeBlockCount'[q] = freeBlockCount[q],
           NEW b, client' = client \cup {<<p, b>>} \/ client' = client \ {<<p, b>>},
           owned' = client'
    PROVE  PageInv(q)' /\ CountInv(q)'
<1>1. \A c : <<q, c>> \in client' <=> <<q, c>> \in client
  OBVIOUS
<1>2. OwnedIn(q, 0)' = OwnedIn(q, 0)
  BY <1>1 DEF PoolInv, OwnedIn
<1> QED
  BY <1>1, <1>2 DEF PoolInv, PageInv, CountInv

\* The block that is allocated was free, and its page counts one less.
LEMMA AllocateStep ==
    ASSUME PoolInv, Allocate
    PROVE  PoolInv'
<1>1. Youngest(Candidates) \in Candidates
  <2>1. Candidates \subseteq 1..pages /\ pages \in Nat /\ Candidates # {}
    BY DEF Allocate, Candidates, PoolInv, PoolTypeInv
  <2> QED
    BY <2>1, GreatestExists
<1>0. PICK p \in 1..pages : p = Youngest(Candidates) /\ freeBlocks[p] # <<>>
  BY <1>1 DEF Candidates
<1>2. PICK s, b :
         /\ p \in 1..pages /\ s = freeBlocks[p] /\ s # <<>> /\ b = Head(s)
         /\ freeBlocks' = [freeBlocks EXCEPT ![p] = Tail(s)]
         /\ freeBlockCount' = [freeBlockCount EXCEPT ![p] = freeBlockCount[p] - 1]
         /\ owned' = owned \cup {<<p, b>>} /\ client' = client \cup {<<p, b>>}
         /\ pages' = pages
  BY <1>0 DEF Allocate, Taken
<1>3. PoolTypeInv /\ PageInv(p) /\ CountInv(p) /\ owned = client
  BY <1>2 DEF PoolInv
<1>4. s \in Seq(Blocks) /\ IsInjective(s) /\ freeBlockCount[p] = Len(s)
  BY <1>2, <1>3 DEF PoolTypeInv, PageInv
<1>5. /\ b \in ToSet(s) /\ b \in Blocks /\ Tail(s) \in Seq(Blocks) /\ IsInjective(Tail(s))
      /\ ToSet(Tail(s)) = ToSet(s) \ {b} /\ Len(Tail(s)) = Len(s) - 1 /\ Len(s) \in Nat \ {0}
  BY <1>2, <1>4, PopFront
<1>6. PoolTypeInv'
  BY <1>2, <1>3, <1>4, <1>5 DEF PoolTypeInv
<1>7. freeBlocks'[p] = Tail(s) /\ freeBlockCount'[p] = freeBlockCount[p] - 1
  BY <1>2, <1>3 DEF PoolTypeInv
<1>8. PageInv(p)'
  BY <1>2, <1>3, <1>4, <1>5, <1>7 DEF PageInv
<1>9. CountInv(p)'
  <2>1. b \notin OwnedIn(p, 0) /\ OwnedIn(p, 0)' = OwnedIn(p, 0) \cup {b}
    BY <1>2, <1>3, <1>5, PoolConstants DEF OwnedIn, PageInv, Blocks
  <2>2. Cardinality(OwnedIn(p, 0)') = Cardinality(OwnedIn(p, 0)) + 1
    BY <2>1, OwnedFinite, FS_AddElement
  <2> QED
    BY <1>3, <1>7, <2>2, OwnedFinite, PoolConstants DEF CountInv
<1>10. \A q \in 1..pages : q # p => PageInv(q)' /\ CountInv(q)'
  BY <1>2, <1>3, OtherPages DEF PoolTypeInv
<1> QED
  BY <1>2, <1>3, <1>6, <1>8, <1>9, <1>10 DEF PoolInv

\* A block that is freed is free in the page that holds it.
LEMMA FreeStep ==
    ASSUME PoolInv, NEW block \in client, Free(block)
    PROVE  PoolInv'
<1> DEFINE p == block[1]
           b == block[2]
           s == freeBlocks[p]
           t == <<b>> \o s
<1>1. p \in 1..pages /\ b \in Blocks /\ block = <<p, b>>
  BY DEF PoolInv, PoolTypeInv
<1>2. /\ freeBlocks' = [freeBlocks EXCEPT ![p] = t]
      /\ freeBlockCount' = [freeBlockCount EXCEPT ![p] = freeBlockCount[p] + 1]
      /\ owned' = owned \ {<<p, b>>} /\ client' = client \ {<<p, b>>}
      /\ pages' = pages /\ <<p, b>> \in client
  BY <1>1 DEF Free
<1> HIDE DEF p, b
<1>3. PoolTypeInv /\ PageInv(p) /\ CountInv(p) /\ owned = client
  BY <1>1 DEF PoolInv
<1>4. s \in Seq(Blocks) /\ IsInjective(s) /\ freeBlockCount[p] = Len(s) /\ b \notin ToSet(s)
  BY <1>1, <1>2, <1>3 DEF PoolTypeInv, PageInv
<1>5. t \in Seq(Blocks) /\ IsInjective(t) /\ ToSet(t) = ToSet(s) \cup {b} /\ Len(t) = Len(s) + 1
  BY <1>1, <1>4, PushFront
<1> HIDE DEF t
<1>6. PoolTypeInv'
  BY <1>1, <1>2, <1>3, <1>4, <1>5 DEF PoolTypeInv
<1>7. freeBlocks'[p] = t /\ freeBlockCount'[p] = freeBlockCount[p] + 1
  BY <1>1, <1>2, <1>3 DEF PoolTypeInv
<1>8. PageInv(p)'
  BY <1>2, <1>3, <1>4, <1>5, <1>7 DEF PageInv
<1>9. CountInv(p)'
  <2>1. b \in OwnedIn(p, 0) /\ OwnedIn(p, 0)' = OwnedIn(p, 0) \ {b}
    BY <1>1, <1>2, <1>3, PoolConstants DEF OwnedIn, Blocks
  <2>2. Cardinality(OwnedIn(p, 0)') = Cardinality(OwnedIn(p, 0)) - 1
    BY <2>1, OwnedFinite, FS_RemoveElement
  <2> QED
    BY <1>3, <1>7, <2>2, OwnedFinite, PoolConstants DEF CountInv
<1>10. \A q \in 1..pages : q # p => PageInv(q)' /\ CountInv(q)'
  BY <1>1, <1>2, <1>3, OtherPages DEF PoolTypeInv
<1> QED
  BY <1>2, <1>3, <1>6, <1>8, <1>9, <1>10 DEF PoolInv

\* The blocks of a new page are all free.
LEMMA AllocatePageStep ==
    ASSUME PoolInv, AllocatePage
    PROVE  PoolInv'
<1> DEFINE n == pages + 1
           list == [k \in 1..pageSize - 1 |-> k]
<1>1. PoolTypeInv /\ owned = client /\ pageSize \in Nat \ {0} /\ 0 \in Blocks
  BY PoolConstants DEF PoolInv, Blocks
<1>2. /\ list \in Seq(Blocks) /\ IsInjective(list) /\ Len(list) = pageSize - 1
      /\ \A b \in Blocks : b \in ToSet(list) <=> b # 0
  BY NewPage
<1> HIDE DEF list
<1>3. /\ freeBlocks' = Append(freeBlocks, list) /\ pages' = n
      /\ freeBlockCount' = Append(freeBlockCount, pageSize - 1)
      /\ owned' = owned \cup {<<n, 0>>} /\ client' = client \cup {<<n, 0>>}
  BY DEF AllocatePage, Taken, list
<1>4. /\ freeBlocks' \in Seq(Seq(Blocks)) /\ Len(freeBlocks') = n
      /\ freeBlocks'[n] = list /\ \A q \in 1..pages : freeBlocks'[q] = freeBlocks[q]
      /\ freeBlocks' \in [1..n -> Seq(Blocks)]
  <2>1. freeBlocks \in Seq(Seq(Blocks)) /\ Len(freeBlocks) = pages
    BY <1>1 DEF PoolTypeInv
  <2> QED
    BY <1>2, <1>3, <2>1, Appended
<1>5. /\ freeBlockCount' \in Seq(Nat) /\ Len(freeBlockCount') = n
      /\ freeBlockCount'[n] = pageSize - 1 /\ \A q \in 1..pages : freeBlockCount'[q] = freeBlockCount[q]
      /\ freeBlockCount' \in [1..n -> Nat]
  <2>1. pageSize - 1 \in Nat
    BY <1>1
  <2>2. freeBlockCount \in Seq(Nat) /\ Len(freeBlockCount) = pages
    BY <1>1 DEF PoolTypeInv
  <2>3. freeBlockCount' \in Seq(Nat) /\ Len(freeBlockCount') = n
    BY <1>3, <2>1, <2>2
  <2>4. freeBlockCount'[n] = pageSize - 1 /\ \A q \in 1..pages : freeBlockCount'[q] = freeBlockCount[q]
    BY <1>1, <1>3, <2>1, <2>2 DEF PoolTypeInv
  <2>5. freeBlockCount' \in [1..n -> Nat]
    BY <2>3, LenProperties
  <2> QED
    BY <2>3, <2>4, <2>5
<1>6. PoolTypeInv'
  BY <1>1, <1>3, <1>4, <1>5 DEF PoolTypeInv
<1>7. pages \in Nat /\ (\A c \in client : c[1] # n) /\ 1..n = (1..pages) \cup {n}
  BY <1>1 DEF PoolTypeInv
<1>8. ASSUME NEW q \in 1..pages PROVE PageInv(q)' /\ CountInv(q)'
  <2>1. \A c : <<q, c>> \in client' <=> <<q, c>> \in client
    BY <1>3, <1>7
  <2>2. OwnedIn(q, 0)' = OwnedIn(q, 0)
    BY <1>1, <1>3, <2>1 DEF OwnedIn
  <2> QED
    BY <1>4, <1>5, <2>1, <2>2 DEF PoolInv, PageInv, CountInv
<1>9. ASSUME NEW q, q = n PROVE PageInv(q)' /\ CountInv(q)'
  <2>1. \A b : <<q, b>> \in client' <=> b = 0
    BY <1>3, <1>7, <1>9
  <2>2. OwnedIn(q, 0)' = {0}
    BY <1>1, <1>3, <2>1 DEF OwnedIn
  <2>3. Cardinality({0}) = 1
    BY FS_Singleton
  <2> QED
    BY <1>1, <1>2, <1>4, <1>5, <1>9, <2>1, <2>2, <2>3 DEF PageInv, CountInv
<1>10. \A q \in 1..n : PageInv(q)' /\ CountInv(q)'
  BY <1>7, <1>8, <1>9
<1> QED
  BY <1>1, <1>3, <1>6, <1>10 DEF PoolInv

\* A destroyed pool has no pages.
LEMMA DestroyPoolStep ==
    ASSUME DestroyPool
    PROVE  PoolInv'
BY DEF DestroyPool, PoolInv, PoolTypeInv, PageInv, CountInv
-----------------------------------------------------------------------------
(* The iterator                                                            *)

\* A page has an allocated block exactly if it shows one.
LEMMA ShowsOwned ==
    ASSUME PoolInv, NEW p \in 1..pages
    PROVE  /\ get_first_allocated_block(p) = OwnedIn(p, 0)
           /\ allocated_block_count(p) = Cardinality(OwnedIn(p, 0))
<1>1. CountInv(p)
  BY DEF PoolInv
<1> QED
  BY <1>1, OwnedFinite, PoolConstants DEF CountInv, get_first_allocated_block, allocated_block_count

\* Stepping over the lowest of some owned blocks leaves one less.
LEMMA LowestLeaves ==
    ASSUME NEW p, NEW from \in Nat, OwnedIn(p, from) # {}
    PROVE  LET b == Lowest(OwnedIn(p, from))
           IN  /\ b \in OwnedIn(p, from)
               /\ \A c \in OwnedIn(p, from) : b <= c
               /\ Cardinality(OwnedIn(p, b + 1)) = Cardinality(OwnedIn(p, from)) - 1
<1> DEFINE b == Lowest(OwnedIn(p, from))
<1>1. OwnedIn(p, from) \subseteq Blocks /\ Blocks \subseteq Nat
  BY PoolConstants DEF OwnedIn, Blocks
<1>2. b \in OwnedIn(p, from) /\ \A c \in OwnedIn(p, from) : b <= c
  BY <1>1, LowestExists
<1> HIDE DEF b
<1>3. OwnedIn(p, b + 1) = OwnedIn(p, from) \ {b}
  <2>1. b \in Nat /\ b >= from
    BY <1>1, <1>2 DEF OwnedIn
  <2>2. \A c \in Blocks : c >= b + 1 <=> c >= b /\ c # b
    BY <1>1, <2>1
  <2>3. \A c \in Blocks : c >= b => c >= from
    BY <1>1, <2>1
  <2>4. OwnedIn(p, b + 1) \subseteq OwnedIn(p, from) \ {b}
    BY <2>2, <2>3 DEF OwnedIn
  <2>5. ASSUME NEW c \in OwnedIn(p, from), c # b PROVE c \in OwnedIn(p, b + 1)
    <3>1. b <= c /\ c \in Blocks /\ c \in Nat /\ <<p, c>> \in owned
      BY <1>1, <1>2 DEF OwnedIn
    <3>2. c >= b + 1
      BY <2>1, <2>5, <3>1
    <3> QED
      BY <3>1, <3>2 DEF OwnedIn
  <2> QED
    BY <2>4, <2>5
<1>4. Cardinality(OwnedIn(p, b + 1)) = Cardinality(OwnedIn(p, from)) - 1
  BY <1>2, <1>3, OwnedFinite, FS_RemoveElement
<1> QED
  BY <1>2, <1>4 DEF b

\* The loop over the pages, from the youngest one below.
LEMMA FirstOfPages ==
    ASSUME PoolInv, NEW below \in 1..pages + 1
    PROVE  LET i == FirstOf(below) IN
           \/ i = Null /\ \A c \in client : c[1] >= below
           \/ /\ i # Null /\ i.page \in 1..below - 1 /\ <<i.page, i.block>> \in client
              /\ i.left = Cardinality(OwnedIn(i.page, i.block + 1))
              /\ \A c \in client : c[1] >= below \/ c[1] < i.page \/ (c[1] = i.page /\ c[2] >= i.block)
<1> DEFINE S == {q \in 1..below - 1 : get_first_allocated_block(q) # {}}
           p == Youngest(S)
           b == Lowest(get_first_allocated_block(p))
<1>1. PoolTypeInv /\ owned = client /\ pages \in Nat /\ Blocks \subseteq Nat
  BY PoolConstants DEF PoolInv, PoolTypeInv, Blocks
<1>2. 1..below - 1 \subseteq 1..pages
  BY <1>1
<1>3. S = {q \in 1..below - 1 : OwnedIn(q, 0) # {}}
  BY <1>2, ShowsOwned
<1>4. ASSUME NEW c \in client PROVE c[1] \in 1..pages /\ c[2] \in OwnedIn(c[1], 0) /\ c = <<c[1], c[2]>>
  <2>2. c[1] \in 1..pages /\ c[2] \in Blocks /\ c = <<c[1], c[2]>> /\ c[2] \in Nat
    BY <1>1, ClientPairs
  <2> QED
    BY <1>1, <2>2 DEF OwnedIn
<1>5. \A c \in client : c[1] >= below \/ c[1] \in S
  BY <1>1, <1>3, <1>4
<1> HIDE DEF S
<1>6. CASE S = {}
  <2>1. FirstOf(below) = Null
    BY <1>6 DEF FirstOf, S
  <2> QED
    BY <1>5, <1>6, <2>1
<1>7. CASE S # {}
  <2>1. p \in S /\ \A q \in S : q <= p
    BY <1>1, <1>2, <1>3, <1>7, GreatestExists
  <2>2. p \in 1..below - 1 /\ p \in 1..pages /\ OwnedIn(p, 0) # {}
    BY <1>2, <1>3, <2>1
  <2>3. /\ get_first_allocated_block(p) = OwnedIn(p, 0)
        /\ allocated_block_count(p) = Cardinality(OwnedIn(p, 0))
    BY <2>2, ShowsOwned
  <2>4. /\ b \in OwnedIn(p, 0) /\ \A c \in OwnedIn(p, 0) : b <= c
        /\ Cardinality(OwnedIn(p, b + 1)) = Cardinality(OwnedIn(p, 0)) - 1
    BY <2>2, <2>3, LowestLeaves
  <2>5. FirstOf(below) = [page |-> p, block |-> b, left |-> allocated_block_count(p) - 1]
    BY <1>7 DEF FirstOf, S
  <2> HIDE DEF p, b
  <2>6. <<p, b>> \in client /\ b \in Nat
    BY <1>1, <2>4 DEF OwnedIn
  <2>7. [page |-> p, block |-> b, left |-> allocated_block_count(p) - 1] # Null
    BY <2>2 DEF Null
  <2>8. ASSUME NEW c \in client
        PROVE  c[1] >= below \/ c[1] < p \/ (c[1] = p /\ c[2] >= b)
    <3>1. CASE c[1] = p
      <4>1. b <= c[2] /\ c[2] \in Nat
        BY <1>1, <1>4, <2>4, <3>1 DEF OwnedIn
      <4> QED
        BY <2>6, <3>1, <4>1
    <3>2. CASE c[1] # p
      <4>1. c[1] >= below \/ (c[1] <= p /\ c[1] \in Nat)
        BY <1>4, <1>5, <2>1
      <4> QED
        BY <2>2, <3>2, <4>1
    <3> QED
      BY <3>1, <3>2
  <2> QED
    BY <2>2, <2>3, <2>4, <2>5, <2>6, <2>7, <2>8
<1> QED
  BY <1>6, <1>7

\* A walk begins at the first allocated block of the youngest page that has one.
LEMMA BeginWalkStep ==
    ASSUME PoolInv, BeginWalk
    PROVE  PoolInv' /\ WalkInv'
<1>1. /\ ite' = FirstOf(pages + 1) /\ ite' # Null /\ seen' = {<<ite'.page, ite'.block>>}
      /\ UNCHANGED <<pages, freeBlocks, freeBlockCount, owned, client>>
  BY DEF BeginWalk, Show
<1>2. PoolInv'
  BY <1>1 DEF PoolInv, PoolTypeInv, PageInv, CountInv, OwnedIn
<1>3. PoolTypeInv /\ pages + 1 \in 1..pages + 1 /\ pages \in Nat /\ Blocks \subseteq Nat
  BY PoolConstants DEF PoolInv, PoolTypeInv, Blocks
<1>4. /\ ite'.page \in 1..pages /\ <<ite'.page, ite'.block>> \in client
      /\ ite'.left = Cardinality(OwnedIn(ite'.page, ite'.block + 1))
      /\ \A c \in client : \/ c[1] >= pages + 1 \/ c[1] < ite'.page
                            \/ (c[1] = ite'.page /\ c[2] >= ite'.block)
  BY <1>1, <1>3, FirstOfPages
<1>5. ASSUME NEW c \in client
      PROVE  c \in seen' <=> c[1] > ite'.page \/ (c[1] = ite'.page /\ c[2] <= ite'.block)
  <2>1. c = <<c[1], c[2]>> /\ c[1] \in 1..pages /\ c[2] \in Nat
    BY <1>3, ClientPairs
  <2>2. ite'.block \in Nat
    BY <1>3, <1>4 DEF PoolTypeInv
  <2>3. c[1] < ite'.page \/ (c[1] = ite'.page /\ c[2] >= ite'.block)
    BY <1>3, <1>4, <2>1, <2>2
  <2>4. c \in seen' <=> c[1] = ite'.page /\ c[2] = ite'.block
    BY <1>1, <2>1
  <2> QED
    BY <1>4, <2>1, <2>2, <2>3, <2>4
<1>6. ite'.block \in Blocks /\ \A p, from : OwnedIn(p, from)' = OwnedIn(p, from)
  BY <1>1, <1>3, <1>4 DEF PoolTypeInv, OwnedIn
<1>7. WalkInv'
  BY <1>1, <1>4, <1>5, <1>6 DEF WalkInv
<1> QED
  BY <1>2, <1>7

\* The rest of a page, or the next page, or the end: then everything was shown.
LEMMA AdvanceWalkStep ==
    ASSUME PoolInv, WalkInv, AdvanceWalk
    PROVE  PoolInv' /\ WalkInv' /\ (ite' = Null => seen = client)
<1>1. /\ ite # Null /\ seen' = seen \cup Show(ite')
      /\ UNCHANGED <<pages, freeBlocks, freeBlockCount, owned, client>>
  BY DEF AdvanceWalk
<1>2. PoolInv'
  BY <1>1 DEF PoolInv, PoolTypeInv, PageInv, CountInv, OwnedIn
<1>3. /\ PoolTypeInv /\ owned = client /\ pages \in Nat /\ Blocks \subseteq Nat
      /\ ite.page \in 1..pages /\ ite.block \in Blocks /\ ite.block \in Nat
      /\ ite.left = Cardinality(OwnedIn(ite.page, ite.block + 1))
      /\ \A c \in client : c \in seen <=>
            c[1] > ite.page \/ (c[1] = ite.page /\ c[2] <= ite.block)
      /\ seen \subseteq client
  BY <1>1, PoolConstants DEF PoolInv, PoolTypeInv, WalkInv, Blocks
<1>4. ASSUME NEW c \in client PROVE c = <<c[1], c[2]>> /\ c[1] \in 1..pages /\ c[2] \in Blocks /\ c[2] \in Nat
  BY <1>3, ClientPairs
\* It is enough to say what the new position is.
<1>5. ASSUME ite' # Null, <<ite'.page, ite'.block>> \in client,
             ite'.left = Cardinality(OwnedIn(ite'.page, ite'.block + 1)),
             \A c \in client : c \in seen' <=>
                c[1] > ite'.page \/ (c[1] = ite'.page /\ c[2] <= ite'.block)
      PROVE  WalkInv'
  <2>1. ite'.page \in 1..pages /\ ite'.block \in Blocks
    BY <1>3, <1>5 DEF PoolTypeInv
  <2>2. seen' \subseteq client
    BY <1>1, <1>3, <1>5 DEF Show
  <2>3. \A p, from : OwnedIn(p, from)' = OwnedIn(p, from)
    BY <1>1 DEF OwnedIn
  <2> QED
    BY <1>1, <1>5, <2>1, <2>2, <2>3 DEF WalkInv
<1>6. CASE ite.left = 0
  <2>1. ite' = FirstOf(ite.page) /\ ite.page \in 1..pages + 1
    BY <1>3, <1>6 DEF AdvanceWalk
  <2>2. ASSUME NEW c \in client, c[1] >= ite.page PROVE c \in seen
    <3>1. OwnedIn(ite.page, ite.block + 1) = {}
      BY <1>3, <1>6, OwnedFinite
    <3>2. c[1] = ite.page => c[2] <= ite.block
      BY <1>3, <1>4, <3>1 DEF OwnedIn
    <3> QED
      BY <1>3, <1>4, <2>2, <3>2
  <2>3. CASE ite' = Null
    <3>1. client \subseteq seen
      BY <2>1, <2>2, <2>3, FirstOfPages
    <3> QED
      BY <1>2, <1>3, <2>3, <3>1 DEF WalkInv
  <2>4. CASE ite' # Null
    <3>1. /\ ite'.page \in 1..ite.page - 1 /\ <<ite'.page, ite'.block>> \in client
          /\ ite'.left = Cardinality(OwnedIn(ite'.page, ite'.block + 1))
          /\ \A c \in client : \/ c[1] >= ite.page \/ c[1] < ite'.page
                                \/ (c[1] = ite'.page /\ c[2] >= ite'.block)
      BY <2>1, <2>4, FirstOfPages
    <3>2. seen' = seen \cup {<<ite'.page, ite'.block>>}
      BY <1>1, <2>4 DEF Show
    <3>3. ASSUME NEW c \in client
          PROVE  c \in seen' <=> c[1] > ite'.page \/ (c[1] = ite'.page /\ c[2] <= ite'.block)
      <4>1. ite'.block \in Nat /\ ite'.page \in Nat /\ ite'.page < ite.page
        <5>1. ite'.block \in Blocks
          BY <1>3, <3>1 DEF PoolTypeInv
        <5>2. ite'.block \in Nat
          BY <1>3, <5>1
        <5>3. ite'.page \in 1..ite.page - 1 /\ ite.page \in 1..pages /\ pages \in Nat
          BY <1>3, <3>1
        <5>4. ite'.page \in Nat /\ ite'.page < ite.page
          BY <5>3
        <5> QED
          BY <5>2, <5>4
      <4>2. c = <<ite'.page, ite'.block>> <=> c[1] = ite'.page /\ c[2] = ite'.block
        BY <1>4
      <4>3. CASE c[1] >= ite.page
        BY <1>3, <1>4, <2>2, <3>2, <4>1, <4>3
      <4>4. CASE c[1] < ite.page
        <5>1. c \notin seen
          BY <1>3, <1>4, <4>4
        <5> QED
          BY <1>3, <1>4, <3>1, <3>2, <4>1, <4>2, <4>4, <5>1
      <4> QED
        BY <1>3, <1>4, <4>3, <4>4
    <3> QED
      BY <1>2, <1>5, <2>4, <3>1, <3>3
  <2> QED
    BY <2>3, <2>4
<1>7. CASE ite.left # 0
  <2> DEFINE S == OwnedIn(ite.page, ite.block + 1)
             b == Lowest(S)
  <2>1. S # {} /\ ite.block + 1 \in Nat
    BY <1>3, <1>7, OwnedFinite
  <2>2. ite' = [page |-> ite.page, left |-> ite.left - 1, block |-> b]
    BY <1>7, <2>1 DEF AdvanceWalk
  <2>3. /\ b \in S /\ \A c \in S : b <= c
        /\ Cardinality(OwnedIn(ite.page, b + 1)) = Cardinality(S) - 1
    BY <2>1, LowestLeaves
  <2> HIDE DEF b
  <2>4. ite'.page = ite.page /\ ite'.block = b /\ ite'.left = ite.left - 1 /\ ite' # Null
    BY <1>3, <2>2 DEF Null
  <2>5. <<ite.page, b>> \in client /\ b \in Nat /\ b >= ite.block + 1
    BY <1>3, <2>3 DEF OwnedIn
  <2>6. ASSUME NEW c \in client
        PROVE  c \in seen' <=> c[1] > ite.page \/ (c[1] = ite.page /\ c[2] <= b)
    <3>1. c \in seen' <=> c \in seen \/ (c[1] = ite.page /\ c[2] = b)
      BY <1>1, <1>4, <2>4 DEF Show
    <3>2. c[1] = ite.page /\ c[2] > ite.block => c[2] >= b
      <4> SUFFICES ASSUME c[1] = ite.page, c[2] > ite.block PROVE c[2] >= b
        OBVIOUS
      <4>1. c[2] \in S
        BY <1>3, <1>4 DEF OwnedIn
      <4> QED
        BY <1>4, <2>3, <2>5, <4>1
    <3> QED
      BY <1>3, <1>4, <2>5, <3>1, <3>2
  <2> QED
    BY <1>2, <1>3, <1>5, <2>3, <2>4, <2>5, <2>6
<1> QED
  BY <1>6, <1>7
-----------------------------------------------------------------------------
\* A step of the pool keeps both invariants.
LEMMA PoolStep ==
    ASSUME PoolInv, WalkInv, [PoolNext]_poolVars
    PROVE  PoolInv' /\ WalkInv'
<1>1. CASE Allocate \/ AllocatePage \/ DestroyPool \/ \E block \in client : Free(block)
  <2>1. PoolInv'
    BY <1>1, AllocateStep, AllocatePageStep, DestroyPoolStep, FreeStep
  <2>2. ite' = Null
    BY <1>1 DEF Allocate, AllocatePage, DestroyPool, Free, Taken
  <2> QED
    BY <2>1, <2>2 DEF WalkInv
<1>2. CASE BeginWalk \/ AdvanceWalk
  BY <1>2, BeginWalkStep, AdvanceWalkStep
<1>3. CASE UNCHANGED poolVars
  BY <1>3 DEF poolVars, PoolInv, PoolTypeInv, PageInv, CountInv, OwnedIn, WalkInv
<1> QED
  BY <1>1, <1>2, <1>3 DEF PoolNext

\* The invariant of the pool and of its walks.
LEMMA PoolInvariant == PoolSpec => [](PoolInv /\ WalkInv)
<1>1. PoolInit => PoolInv /\ WalkInv
  BY PoolInvInit DEF PoolInit, WalkInv
<1>2. PoolInv /\ WalkInv /\ [PoolNext]_poolVars => (PoolInv /\ WalkInv)'
  BY PoolStep
<1> QED
  BY <1>1, <1>2, PTL DEF PoolSpec

\* PoolAllocator::allocate and free: no block is handed out twice, lost, or miscounted,
\* whatever the size and the number of the pages and the order of the calls.
THEOREM PoolCorrect == PoolSpec => []PoolExact
<1>1. PoolInv => PoolExact
  <2> SUFFICES ASSUME PoolInv, NEW p \in 1..pages
               PROVE  /\ IsInjective(freeBlocks[p])
                      /\ {<<p, b>> : b \in ToSet(freeBlocks[p])} = ({p} \X Blocks) \ ClientOf(p)
                      /\ freeBlockCount[p] = Len(freeBlocks[p])
    BY DEF PoolExact, PoolInv
  <2>1. PageInv(p) /\ ToSet(freeBlocks[p]) \subseteq Blocks
    BY DEF PoolInv, PoolTypeInv, ToSet
  <2> QED
    BY <2>1 DEF PageInv, ClientOf
<1> QED
  BY <1>1, PoolInvariant, PTL

\* PoolAllocator::Iterator: a walk shows blocks that a caller has, and all of them.
THEOREM WalkCorrect == PoolSpec => WalkExact
<1>1. PoolInv /\ WalkInv /\ WalkInv' /\ [PoolNext]_poolVars =>
        [/\ ite' # Null => seen' \subseteq client'
         /\ ite # Null /\ ite' = Null => seen = client]_poolVars
  <2> SUFFICES ASSUME PoolInv, WalkInv, WalkInv', PoolNext
               PROVE  /\ ite' # Null => seen' \subseteq client'
                      /\ ite # Null /\ ite' = Null => seen = client
    OBVIOUS
  <2>1. ite' # Null => seen' \subseteq client'
    BY DEF WalkInv
  <2>2. ite # Null => AdvanceWalk
    BY DEF PoolNext, Allocate, AllocatePage, DestroyPool, Free, BeginWalk
  <2> QED
    BY <2>1, <2>2, AdvanceWalkStep
<1> QED
  BY <1>1, PoolInvariant, PTL DEF PoolSpec, WalkExact

-----------------------------------------------------------------------------
(* SceneCommands *)

Command == [page : Nat, at : Nat, size : Nat]

\* A command is in the used part of its page.
InUsed(list, c) == c.page \in 1..Len(list) /\ c.at + c.size <= list[c.page]

\* A place for `size` behind what the page has used, in the last page or a new one.
Fits(new, size) ==
    LET n == Len(new.pages) IN
    /\ new.pages \in Seq(Nat) /\ Len(pageList) <= n /\ n \in Nat \ {0}
    /\ new.page = n /\ new.at \in Nat /\ new.size = size
    /\ new.at + size = new.pages[n] /\ \A k \in 1..n : new.pages[k] <= capacity
    /\ \A k \in 1..Len(pageList) :
          \/ k # n /\ new.pages[k] = pageList[k]
          \/ k = n /\ pageList[k] <= new.at

CommandInv ==
    ~fullPage =>
          /\ pageList \in Seq(Nat)
          /\ commands \in Seq(Command)
          /\ \A k \in 1..Len(pageList) : pageList[k] <= capacity
          /\ \A k \in 1..Len(commands) : InUsed(pageList, commands[k])
          /\ \A j, k \in 1..Len(commands) : j # k => Apart(commands[j], commands[k])
-----------------------------------------------------------------------------
\* The padding is less than the alignment.
LEMMA PaddingFits ==
    ASSUME NEW taken \in Nat
    PROVE  -taken % alignment \in 0..alignment - 1
BY CommandConstants

\* Both branches put the command behind what a page has in use.
LEMMA PlaceFits ==
    ASSUME NEW list \in Seq(Nat), NEW n \in Nat \ {0}, n = Len(list),
           NEW at \in Nat, NEW size \in Nat, at + size <= capacity, list[n] <= at,
           \A k \in 1..n : list[k] <= capacity,
           Len(pageList) \in Nat, Len(pageList) <= n, \A k \in 1..Len(pageList) : list[k] = pageList[k]
    PROVE  Fits([pages |-> [list EXCEPT ![n] = at + size], page |-> n, at |-> at, size |-> size], size)
<1> DEFINE full == [list EXCEPT ![n] = at + size]
           new == [pages |-> full, page |-> n, at |-> at, size |-> size]
<1>1. /\ full \in Seq(Nat) /\ Len(full) = n
      /\ \A k \in 1..n : full[k] = IF k = n THEN at + size ELSE list[k]
  BY ExceptSeq
<1> HIDE DEF full
<1>2. new.pages = full /\ new.page = n /\ new.at = at /\ new.size = size
  OBVIOUS
<1> HIDE DEF new
<1>3. \A k \in 1..n : full[k] <= capacity
  BY <1>1
<1>4. \A k \in 1..Len(pageList) : \/ k # n /\ full[k] = pageList[k]
                                  \/ k = n /\ pageList[k] <= at
  BY <1>1
<1>5. Fits(new, size)
  BY <1>1, <1>2, <1>3, <1>4 DEF Fits
<1> QED
  BY <1>5 DEF new, full

\* What allocate_aligned returns unless the last page is full.
LEMMA AllocationFits ==
    ASSUME CommandInv, ~fullPage, pageList = <<>> \/ Last(pageList) # capacity,
           NEW size \in 1..capacity - alignment
    PROVE  Fits(allocate_aligned(size), size)
<1> DEFINE opened == IF pageList = <<>> THEN <<0>> ELSE pageList
           taken == Last(opened)
           pad == -taken % alignment
           paged == IF pad + size > remain(taken) THEN Append(opened, 0) ELSE opened
           at == Last(paged) + pad
           m == Len(opened)
<1>1. alignment \in Nat \ {0} /\ capacity \in Nat /\ size \in Nat \ {0} /\ size <= capacity - alignment
  BY CommandConstants
<1>2. /\ opened \in Seq(Nat) /\ m \in Nat \ {0} /\ taken = opened[m] /\ taken \in Nat /\ taken <= capacity
      /\ taken # capacity \/ pageList = <<>>
      /\ \A k \in 1..m : opened[k] \in Nat /\ opened[k] <= capacity
      /\ Len(pageList) <= m /\ \A k \in 1..Len(pageList) : opened[k] = pageList[k]
  <2>1. CASE pageList = <<>>
    BY <1>1, <2>1 DEF Last
  <2>2. CASE pageList # <<>>
    BY <2>2 DEF CommandInv, Last
  <2> QED
    BY <2>1, <2>2
<1> HIDE DEF opened, taken
<1>3. pad \in 0..alignment - 1
  BY <1>2, PaddingFits
<1>4. remain(taken) = capacity - taken
  BY <1>1, <1>2 DEF remain, opened, taken, Last
<1> HIDE DEF pad
<1>5. allocate_aligned(size) = [pages |-> [paged EXCEPT ![Len(paged)] = at + size],
                                page |-> Len(paged), at |-> at, size |-> size]
  BY DEF allocate_aligned, opened, taken, pad
<1>6. Len(pageList) \in Nat
  BY DEF CommandInv
<1> SUFFICES /\ paged \in Seq(Nat) /\ Len(paged) \in Nat \ {0}
             /\ at \in Nat /\ at + size <= capacity /\ paged[Len(paged)] <= at
             /\ \A k \in 1..Len(paged) : paged[k] <= capacity
             /\ Len(pageList) <= Len(paged) /\ \A k \in 1..Len(pageList) : paged[k] = pageList[k]
  BY <1>1, <1>5, <1>6, PlaceFits
<1>7. CASE pad + size > remain(taken)
  <2>1. /\ paged \in Seq(Nat) /\ Len(paged) = m + 1 /\ paged[m + 1] = 0 /\ Last(paged) = 0
        /\ \A k \in 1..m : paged[k] = opened[k]
    BY <1>2, <1>7 DEF Last
  <2> HIDE DEF paged
  <2>2. at = pad /\ at \in Nat /\ at + size <= capacity /\ 0 <= at
    <3>1. pad \in Nat /\ pad + size <= capacity
      BY <1>1, <1>3
    <3>2. at = 0 + pad
      BY <2>1
    <3> HIDE DEF at
    <3> QED
      BY <3>1, <3>2
  <2> HIDE DEF at
  <2>3. \A k \in 1..Len(paged) : paged[k] <= capacity
    <3>1. m \in Nat /\ \A k \in 1..m : opened[k] <= capacity
      BY <1>2
    <3>2. 0 <= capacity
      BY <1>1
    <3> HIDE DEF m
    <3>3. \A k \in 1..m + 1 : k \in 1..m \/ k = m + 1
      BY <3>1
    <3> QED
      BY <2>1, <3>1, <3>2, <3>3
  <2>4. Len(pageList) <= Len(paged) /\ \A k \in 1..Len(pageList) : paged[k] = pageList[k]
    BY <1>2, <1>6, <2>1
  <2> QED
    BY <1>2, <2>1, <2>2, <2>3, <2>4
<1>8. CASE ~(pad + size > remain(taken))
  <2>1. paged = opened /\ Last(paged) = taken
    BY <1>8 DEF taken
  <2>2. at = taken + pad /\ at \in Nat /\ at + size <= capacity /\ taken <= at
    BY <1>1, <1>2, <1>3, <1>4, <1>8, <2>1
  <2> HIDE DEF paged, at
  <2> QED
    BY <1>1, <1>2, <2>1, <2>2
<1> QED
  BY <1>7, <1>8

\* A command goes where no live command lies.
LEMMA CommandEnqueueStep ==
    ASSUME CommandInv, NEW t \in DOMAIN CommandSize, enqueue(t)
    PROVE  CommandInv'
<1> DEFINE size == CommandSize[t]
           new == allocate_aligned(size)
           c == [page |-> new.page, at |-> new.at, size |-> new.size]
           m == Len(commands)
<1>1. /\ pageList' = new.pages /\ commands' = Append(commands, c)
      /\ fullPage' = (fullPage \/ (pageList # <<>> /\ Last(pageList) = capacity))
  BY DEF enqueue
<1>2. size \in 1..capacity - alignment
  BY CommandConstants
<1> SUFFICES ASSUME ~fullPage' PROVE CommandInv'
  BY DEF CommandInv
<1>3. CommandInv /\ ~fullPage /\ Fits(new, size)
  BY <1>1, <1>2, AllocationFits
<1> HIDE DEF new
<1>4. pageList \in Seq(Nat) /\ new.page \in Nat /\ new.at \in Nat /\ new.size \in Nat
  BY <1>2, <1>3 DEF Fits, CommandInv
<1>5. c \in Command /\ c.page = new.page /\ c.at = new.at /\ c.size = new.size
  BY <1>4 DEF Command
<1> HIDE DEF c
<1>6. /\ commands' \in Seq(Command) /\ Len(commands') = m + 1 /\ m \in Nat
      /\ commands'[m + 1] = c /\ \A k \in 1..m : commands'[k] = commands[k] /\ commands[k] \in Command
  BY <1>1, <1>3, <1>5 DEF CommandInv
<1>7. \A k \in 1..Len(pageList) : pageList[k] <= capacity /\ pageList[k] \in Nat
  BY <1>3, <1>4 DEF CommandInv
<1>8. /\ pageList' \in Seq(Nat) /\ \A k \in 1..Len(pageList') : pageList'[k] <= capacity
      /\ c.page = Len(pageList') /\ Len(pageList') \in Nat \ {0}
      /\ c.at + c.size = pageList'[c.page]
  BY <1>1, <1>3, <1>5 DEF Fits
<1>10. InUsed(pageList', c)
  BY <1>4, <1>5, <1>8 DEF InUsed
<1>9. ASSUME NEW k \in 1..m
      PROVE  InUsed(pageList', commands[k]) /\ Apart(commands[k], c) /\ Apart(c, commands[k])
  <2> DEFINE d == commands[k]
  <2>1. d \in Command /\ InUsed(pageList, d)
    BY <1>3, <1>6 DEF CommandInv
  <2>2. /\ d.page \in Nat /\ d.at \in Nat /\ d.size \in Nat
        /\ d.page \in 1..Len(pageList) /\ d.at + d.size <= pageList[d.page]
    BY <2>1 DEF Command, InUsed
  <2>3. CASE d.page # c.page /\ pageList'[d.page] = pageList[d.page]
    BY <1>1, <1>3, <1>4, <2>2, <2>3 DEF Fits, InUsed, Apart
  <2>4. CASE d.page = c.page /\ pageList[d.page] <= c.at
    <3>1. pageList[d.page] \in Nat /\ c.at \in Nat /\ c.size \in Nat
      BY <1>4, <1>5, <1>7, <2>2
    <3>2. d.at + d.size <= c.at /\ d.at + d.size <= c.at + c.size
      BY <2>2, <2>4, <3>1
    <3>3. InUsed(pageList', d)
      BY <1>8, <2>2, <2>4, <3>2 DEF InUsed
    <3> QED
      BY <3>2, <3>3 DEF Apart
  <2> QED
    BY <1>1, <1>3, <1>5, <2>2, <2>3, <2>4 DEF Fits
<1> QED
  <2>1. \A k \in 1..m + 1 : InUsed(pageList', commands'[k])
    BY <1>6, <1>9, <1>10
  <2>2. \A j, k \in 1..m : j # k => Apart(commands[j], commands[k])
    BY <1>3 DEF CommandInv
  <2>3. ASSUME NEW j \in 1..m + 1, NEW k \in 1..m + 1, j # k PROVE Apart(commands'[j], commands'[k])
    BY <1>6, <1>9, <2>2, <2>3
  <2> QED
    BY <1>6, <1>8, <2>1, <2>3 DEF CommandInv

\* The buffers begin empty.
LEMMA CommandInvInit == CommandsInit => CommandInv
BY DEF CommandsInit, CommandInv

\* A command that leaves the queue leaves the others where they are; the pages are freed when none is left.
LEMMA OtherSteps ==
    ASSUME CommandInv, BeginCommands \/ ApplyCommand \/ EndCommands \/ UNCHANGED commandVars
    PROVE  CommandInv'
<1>1. CASE BeginCommands \/ UNCHANGED commandVars
  BY <1>1 DEF BeginCommands, commandVars, CommandInv, InUsed
<1>2. CASE ApplyCommand
  <2> SUFFICES ASSUME ~fullPage PROVE CommandInv'
    BY <1>2 DEF ApplyCommand, CommandInv
  <2>1. /\ commands # <<>> /\ commands' = Tail(commands) /\ UNCHANGED <<pageList, fullPage>>
        /\ commands \in Seq(Command) /\ pageList \in Seq(Nat)
    BY <1>2 DEF ApplyCommand, CommandInv
  <2>2. /\ commands' \in Seq(Command) /\ Len(commands') = Len(commands) - 1
        /\ \A k \in 1..Len(commands) - 1 : commands'[k] = commands[k + 1]
        /\ Len(commands) \in Nat
    BY <2>1, HeadTailProperties
  <2>3. \A k \in 1..Len(commands) - 1 : k + 1 \in 1..Len(commands)
    BY <2>2
  <2>4. \A k \in 1..Len(commands) - 1 : InUsed(pageList, commands'[k])
    BY <2>2, <2>3 DEF CommandInv
  <2>5. \A j, k \in 1..Len(commands) - 1 : j # k => Apart(commands'[j], commands'[k])
    <3> SUFFICES ASSUME NEW j \in 1..Len(commands) - 1, NEW k \in 1..Len(commands) - 1, j # k
                 PROVE  Apart(commands'[j], commands'[k])
      OBVIOUS
    <3>1. j + 1 \in 1..Len(commands) /\ k + 1 \in 1..Len(commands) /\ j + 1 # k + 1
      BY <2>3
    <3>2. Apart(commands[j + 1], commands[k + 1])
      BY <3>1 DEF CommandInv
    <3> QED
      BY <2>2, <3>2
  <2>6. \A k \in 1..Len(pageList) : pageList[k] <= capacity
    BY DEF CommandInv
  <2> QED
    BY <2>1, <2>2, <2>4, <2>5, <2>6 DEF CommandInv
<1>3. CASE EndCommands
  BY <1>3 DEF EndCommands, CommandInv
<1> QED
  BY <1>1, <1>2, <1>3

\* SceneCommandQueue: until a page was exactly full, the commands that were not applied
\* yet are inside pages that were not freed, and apart.
THEOREM CommandsStayApart == CommandsSpec => []CommandsApart
<1>1. CommandInv /\ [CommandsNext]_commandVars => CommandInv'
  BY CommandEnqueueStep, OtherSteps DEF CommandsNext
<1>2. CommandInv => CommandsApart
  <2> SUFFICES ASSUME CommandInv, ~fullPage
               PROVE  /\ \A k \in DOMAIN commands : InPage(commands[k])
                      /\ \A j, k \in DOMAIN commands : j # k => Apart(commands[j], commands[k])
    BY DEF CommandsApart
  <2>1. /\ DOMAIN commands = 1..Len(commands) /\ DOMAIN pageList = 1..Len(pageList)
        /\ \A k \in 1..Len(commands) : commands[k] \in Command
        /\ \A k \in 1..Len(pageList) : pageList[k] \in Nat /\ pageList[k] <= capacity
    BY DEF CommandInv
  <2>2. ASSUME NEW k \in 1..Len(commands) PROVE InPage(commands[k])
    <3> DEFINE c == commands[k]
    <3>1. c.page \in 1..Len(pageList) /\ c.at + c.size <= pageList[c.page]
      BY DEF CommandInv, InUsed
    <3>2. c.at + c.size \in Nat
      BY <2>1 DEF Command
    <3>3. pageList[c.page] \in Nat /\ pageList[c.page] <= capacity /\ capacity \in Nat
      BY <2>1, <3>1, CommandConstants
    <3> QED
      BY <2>1, <3>1, <3>2, <3>3 DEF InPage
  <2> QED
    BY <2>1, <2>2 DEF CommandInv
<1> QED
  BY <1>1, <1>2, CommandInvInit, PTL DEF CommandsSpec

-----------------------------------------------------------------------------
(* SUIDTable                                                               *)

TableTypes ==
    /\ mIDs \in [IDs -> URIs \cup {Absent}]
    /\ mPaths \in [URIs -> IDs \cup {Absent}]
    /\ mNames \in [Names -> IDs \cup {Absent}]

TableInv == TableTypes /\ TableConsistent

\* The empty table is consistent.
LEMMA TableInitInv == TableInit => TableInv
BY TableConstants DEF TableInit, TableInv, TableTypes, TableConsistent

\* A registration adds one identifier with a path and a name nobody has.
LEMMA RegisterKeeps ==
    ASSUME TableInv, NEW i \in IDs, NEW p \in URIs, RegisterID(i, p)
    PROVE  TableInv'
<1>1. TableTypes'
  BY TableConstants DEF TableInv, TableTypes, RegisterID
<1>2. \A id \in IDs, path \in URIs : mIDs'[id] = path <=> mPaths'[path] = id
  BY TableConstants DEF TableInv, TableTypes, TableConsistent, RegisterID, PathValid
<1>3. \A id \in IDs, name \in Names :
        mNames'[name] = id <=> mIDs'[id] # Absent /\ Stem[mIDs'[id]] = name
  BY TableConstants DEF TableInv, TableTypes, TableConsistent, RegisterID, PathValid
<1> QED BY <1>1, <1>2, <1>3 DEF TableInv, TableConsistent

\* A removal takes the path and the name that lead to the identifier.
LEMMA UnregisterKeeps ==
    ASSUME TableInv, NEW i \in IDs, UnregisterID(i)
    PROVE  TableInv'
<1>0. mIDs[i] \in URIs
  BY DEF TableInv, TableTypes, UnregisterID
<1>1. TableTypes'
  BY <1>0, TableConstants DEF TableInv, TableTypes, UnregisterID
<1>2. \A id \in IDs, path \in URIs : mIDs'[id] = path <=> mPaths'[path] = id
  BY <1>0, TableConstants DEF TableInv, TableTypes, TableConsistent, UnregisterID
<1>3. \A id \in IDs, name \in Names :
        mNames'[name] = id <=> mIDs'[id] # Absent /\ Stem[mIDs'[id]] = name
  BY <1>0, TableConstants DEF TableInv, TableTypes, TableConsistent, UnregisterID
<1> QED BY <1>1, <1>2, <1>3 DEF TableInv, TableConsistent

\* A rename moves the identifier; the path or the name may stay the same.
LEMMA SetPathKeeps ==
    ASSUME TableInv, NEW i \in IDs, NEW p \in URIs, SetPath(i, p)
    PROVE  TableInv'
<1>0. mIDs[i] \in URIs
  BY DEF TableInv, TableTypes, SetPath, RenameValid
<1>1. TableTypes'
  BY <1>0, TableConstants DEF TableInv, TableTypes, SetPath
<1>2. \A id \in IDs, path \in URIs : mIDs'[id] = path <=> mPaths'[path] = id
  BY <1>0, TableConstants DEF TableInv, TableTypes, TableConsistent, SetPath, RenameValid
<1>3. \A id \in IDs, name \in Names :
        mNames'[name] = id <=> mIDs'[id] # Absent /\ Stem[mIDs'[id]] = name
  BY <1>0, TableConstants DEF TableInv, TableTypes, TableConsistent, SetPath, RenameValid
<1> QED BY <1>1, <1>2, <1>3 DEF TableInv, TableConsistent

\* Every step keeps the table consistent.
LEMMA TableStepInv == TableInv /\ [TableNext]_tableVars => TableInv'
<1> SUFFICES ASSUME TableInv, [TableNext]_tableVars PROVE TableInv'
  OBVIOUS
<1>1. CASE UNCHANGED tableVars
  BY <1>1 DEF tableVars, TableInv, TableTypes, TableConsistent
<1>2. CASE TableNext
  BY <1>2, RegisterKeeps, UnregisterKeeps, SetPathKeeps DEF TableNext
<1> QED BY <1>1, <1>2

\* The maps stay inverse to each other, for any number of identifiers, paths
\* and names: the assertions of SUIDTable.cpp cannot fail.
THEOREM TableCorrect == TableSpec => []TableConsistent
<1>1. TableInv => TableConsistent
  BY DEF TableInv
<1> QED BY <1>1, TableInitInv, TableStepInv, PTL DEF TableSpec

-----------------------------------------------------------------------------
(* FileWatcher                                                             *)

Events == [wd : Nat \cup {Failed}, mask : {"closeWrite", "ignored", "overflow"}]

\* The events still to handle, in the kernel or in poll's buffer.
Unhandled == ToSet(queue) \cup ToSet(buf)

WatchTypeOK ==
    /\ present \subseteq Files
    /\ attached \in [Files -> Nat]
    /\ nextWd \in Nat \ {0}
    /\ watchers \in [Files -> Nat \cup {Failed}]
    /\ queue \in Seq(Events) /\ buf \in Seq(Events)
    /\ fileHashes \subseteq Files
    /\ changed \subseteq Added

\* A descriptor is never used for two files, and the watch the kernel has on a
\* file is the one its watcher knows.
WatchersApart ==
    /\ \A f \in Files : attached[f] < nextWd /\ watchers[f] < nextWd
    /\ \A f, g \in Files : watchers[f] = watchers[g] => (f = g \/ watchers[f] \in {NoWatch, Failed})
    /\ \A f \in Files : attached[f] # NoWatch => (attached[f] = watchers[f] /\ f \in present)

EventsKnown == \A e \in Unhandled : e = Overflow \/ (e.mask # "overflow" /\ 0 < e.wd /\ e.wd < nextWd)

\* A file that lost nothing is watched, or the end of its watch is announced.
WatchKept ==
    \A f \in Files \ lost :
        /\ watchers[f] # Failed
        /\ attached[f] = watchers[f] \/ [wd |-> watchers[f], mask |-> "ignored"] \in Unhandled

\* NoChangeMissed, over the events as a set.
ChangesAnnounced ==
    \A f \in changed \ lost :
        \/ polling # "no" /\ f \in fileHashes
        \/ \E e \in Unhandled : e.wd = watchers[f]

WatchInv == WatchTypeOK /\ WatchersApart /\ EventsKnown /\ WatchKept /\ ChangesAnnounced

-----------------------------------------------------------------------------
\* The elements of sequences put together and taken apart.
LEMMA ElementsAppend ==
    ASSUME NEW S, NEW s \in Seq(S), NEW e \in S
    PROVE  ToSet(Append(s, e)) = ToSet(s) \cup {e}
<1>1. /\ Append(s, e) \in Seq(S)
      /\ Len(Append(s, e)) = Len(s) + 1
      /\ \A i \in 1 .. Len(s) + 1 : Append(s, e)[i] = IF i = Len(s) + 1 THEN e ELSE s[i]
      /\ Len(s) \in Nat
  OBVIOUS
<1>2. DOMAIN Append(s, e) = 1 .. Len(s) + 1 /\ DOMAIN s = 1 .. Len(s)
  BY <1>1
<1>3. \A i \in 1 .. Len(s) + 1 : i = Len(s) + 1 \/ i \in 1 .. Len(s)
  BY <1>1
<1>4. Len(s) + 1 \in 1 .. Len(s) + 1 /\ \A i \in 1 .. Len(s) : i \in 1 .. Len(s) + 1 /\ i # Len(s) + 1
  BY <1>1
<1> QED
  BY <1>1, <1>2, <1>3, <1>4 DEF ToSet

\* The elements of a sequence are its head and those of its tail.
LEMMA ElementsTail ==
    ASSUME NEW S, NEW s \in Seq(S), s # <<>>
    PROVE  /\ ToSet(s) = {Head(s)} \cup ToSet(Tail(s))
           /\ Tail(s) \in Seq(S) /\ Head(s) \in S
           /\ Head(s) \in ToSet(s)
<1>1. /\ Tail(s) \in Seq(S) /\ Head(s) \in S
      /\ Len(s) \in Nat \ {0}
      /\ Len(Tail(s)) = Len(s) - 1
      /\ \A i \in 1 .. Len(s) - 1 : Tail(s)[i] = s[i + 1]
      /\ Head(s) = s[1]
      /\ DOMAIN s = 1 .. Len(s)
      /\ DOMAIN Tail(s) = 1 .. Len(s) - 1
  OBVIOUS
<1>2. \A i \in 1 .. Len(s) : i = 1 \/ (i - 1 \in 1 .. Len(s) - 1 /\ (i - 1) + 1 = i)
  BY <1>1
<1>3. 1 \in 1 .. Len(s) /\ \A i \in 1 .. Len(s) - 1 : i + 1 \in 1 .. Len(s)
  BY <1>1
<1>4. ASSUME NEW e \in ToSet(s) PROVE e = Head(s) \/ e \in ToSet(Tail(s))
  <2>1. PICK i \in 1 .. Len(s) : e = s[i]
    BY <1>1 DEF ToSet
  <2>2. CASE i = 1
    BY <1>1, <2>1, <2>2
  <2>3. CASE i - 1 \in 1 .. Len(s) - 1 /\ (i - 1) + 1 = i
    <3>1. Tail(s)[i - 1] = e
      BY <1>1, <2>1, <2>3
    <3> QED
      BY <1>1, <2>3, <3>1 DEF ToSet
  <2> QED
    BY <1>2, <2>2, <2>3
<1>5. ASSUME NEW e \in ToSet(Tail(s)) PROVE e \in ToSet(s)
  <2>1. PICK i \in 1 .. Len(s) - 1 : e = s[i + 1]
    BY <1>1 DEF ToSet
  <2> QED
    BY <1>1, <1>3, <2>1 DEF ToSet
<1>6. Head(s) \in ToSet(s)
  BY <1>1, <1>3 DEF ToSet
<1> QED
  BY <1>1, <1>4, <1>5, <1>6

\* A sequence that is s up to its n-th element and t behind it has the elements
\* of both.
LEMMA ElementsJoin ==
    ASSUME NEW S, NEW s \in Seq(S), NEW t \in Seq(S), NEW u \in Seq(S),
           Len(u) = Len(s) + Len(t),
           \A i \in 1 .. Len(s) : u[i] = s[i],
           \A i \in 1 .. Len(t) : u[Len(s) + i] = t[i]
    PROVE  ToSet(u) = ToSet(s) \cup ToSet(t)
<1>1. /\ Len(s) \in Nat /\ Len(t) \in Nat
      /\ DOMAIN s = 1 .. Len(s) /\ DOMAIN t = 1 .. Len(t) /\ DOMAIN u = 1 .. Len(s) + Len(t)
  OBVIOUS
<1>2. \A i \in 1 .. Len(s) + Len(t) :
         i \in 1 .. Len(s) \/ (i - Len(s) \in 1 .. Len(t) /\ Len(s) + (i - Len(s)) = i)
  BY <1>1
<1>3. /\ \A i \in 1 .. Len(s) : i \in 1 .. Len(s) + Len(t)
      /\ \A i \in 1 .. Len(t) : Len(s) + i \in 1 .. Len(s) + Len(t)
  BY <1>1
<1>4. ASSUME NEW e \in ToSet(u) PROVE e \in ToSet(s) \cup ToSet(t)
  <2>1. PICK i \in 1 .. Len(s) + Len(t) : e = u[i]
    BY <1>1 DEF ToSet
  <2>2. CASE i \in 1 .. Len(s)
    BY <1>1, <2>1, <2>2 DEF ToSet
  <2>3. CASE i - Len(s) \in 1 .. Len(t) /\ Len(s) + (i - Len(s)) = i
    <3>1. t[i - Len(s)] = e
      BY <2>1, <2>3
    <3> QED
      BY <1>1, <2>3, <3>1 DEF ToSet
  <2> QED
    BY <1>2, <2>2, <2>3
<1>5. ASSUME NEW e \in ToSet(s) PROVE e \in ToSet(u)
  <2>1. PICK i \in 1 .. Len(s) : e = s[i]
    BY <1>1 DEF ToSet
  <2> QED
    BY <1>1, <1>3, <2>1 DEF ToSet
<1>6. ASSUME NEW e \in ToSet(t) PROVE e \in ToSet(u)
  <2>1. PICK i \in 1 .. Len(t) : e = t[i]
    BY <1>1 DEF ToSet
  <2>2. u[Len(s) + i] = e
    BY <2>1
  <2> QED
    BY <1>1, <1>3, <2>2 DEF ToSet
<1> QED
  BY <1>4, <1>5, <1>6

\* A part of a sequence, and the elements of the part and of the rest.
LEMMA ElementsCut ==
    ASSUME NEW S, NEW s \in Seq(S), NEW n \in 0 .. Len(s)
    PROVE  /\ SubSeq(s, 1, n) \in Seq(S) /\ SubSeq(s, n + 1, Len(s)) \in Seq(S)
           /\ ToSet(s) = ToSet(SubSeq(s, 1, n)) \cup ToSet(SubSeq(s, n + 1, Len(s)))
<1> DEFINE a == SubSeq(s, 1, n)
           b == SubSeq(s, n + 1, Len(s))
<1>1. Len(s) \in Nat /\ n \in Nat /\ n <= Len(s) /\ \A i \in 1 .. Len(s) : s[i] \in S
  OBVIOUS
<1>2. a \in Seq(S) /\ Len(a) = n /\ \A i \in 1 .. n : a[i] = s[i]
  <2>1. 1 \in Int /\ n \in Int /\ \A i \in 1 .. n : s[i] \in S
    BY <1>1
  <2> QED
    BY <1>1, <2>1, SubSeqProperties
<1>3. b \in Seq(S) /\ Len(b) = Len(s) - n /\ \A i \in 1 .. Len(s) - n : b[i] = s[n + i]
  <2>1. n + 1 \in Int /\ Len(s) \in Int /\ \A i \in n + 1 .. Len(s) : s[i] \in S
    BY <1>1
  <2>2. /\ b \in Seq(S)
        /\ Len(b) = IF n + 1 <= Len(s) THEN Len(s) - (n + 1) + 1 ELSE 0
        /\ \A i \in 1 .. Len(s) - (n + 1) + 1 : b[i] = s[(n + 1) + i - 1]
    BY <2>1, SubSeqProperties
  <2>3. /\ Len(s) - (n + 1) + 1 = Len(s) - n
        /\ \A i \in 1 .. Len(s) - n : (n + 1) + i - 1 = n + i
        /\ ~(n + 1 <= Len(s)) => Len(s) - n = 0
    BY <1>1
  <2> HIDE DEF b
  <2> QED
    BY <2>2, <2>3
<1> HIDE DEF a, b
<1>4. ToSet(s) = ToSet(a) \cup ToSet(b)
  <2>1. Len(s) = Len(a) + Len(b)
    BY <1>1, <1>2, <1>3
  <2>2. \A i \in 1 .. Len(a) : s[i] = a[i]
    BY <1>2
  <2>3. \A i \in 1 .. Len(b) : s[Len(a) + i] = b[i]
    BY <1>2, <1>3
  <2> QED
    BY <1>2, <1>3, <2>1, <2>2, <2>3, ElementsJoin
<1> QED
  BY <1>2, <1>3, <1>4 DEF a, b

\* The elements of two sequences put together.
LEMMA ElementsConcat ==
    ASSUME NEW S, NEW s \in Seq(S), NEW t \in Seq(S)
    PROVE  ToSet(s \o t) = ToSet(s) \cup ToSet(t)
<1>1. /\ s \o t \in Seq(S)
      /\ Len(s \o t) = Len(s) + Len(t)
      /\ \A i \in 1 .. Len(s) + Len(t) : (s \o t)[i] = IF i <= Len(s) THEN s[i] ELSE t[i - Len(s)]
  BY ConcatProperties
<1>2. Len(s) \in Nat /\ Len(t) \in Nat
  OBVIOUS
<1>3. /\ \A i \in 1 .. Len(s) : i \in 1 .. Len(s) + Len(t) /\ i <= Len(s)
      /\ \A i \in 1 .. Len(t) : /\ Len(s) + i \in 1 .. Len(s) + Len(t)
                                /\ ~(Len(s) + i <= Len(s))
                                /\ (Len(s) + i) - Len(s) = i
  BY <1>2
<1>4. /\ \A i \in 1 .. Len(s) : (s \o t)[i] = s[i]
      /\ \A i \in 1 .. Len(t) : (s \o t)[Len(s) + i] = t[i]
  BY <1>1, <1>3
<1> QED
  BY <1>1, <1>4, ElementsJoin

\* The last event of the queue is one of it.
LEMMA ElementsLast ==
    ASSUME NEW S, NEW s \in Seq(S), s # <<>>
    PROVE  Last(s) \in ToSet(s)
<1>1. Len(s) \in 1 .. Len(s) /\ DOMAIN s = 1 .. Len(s)
  OBVIOUS
<1> QED
  BY <1>1 DEF ToSet, Last

-----------------------------------------------------------------------------
\* No file is watched yet.
LEMMA WatchInvInit == WatchInit => WatchInv
<1> SUFFICES ASSUME WatchInit PROVE WatchInv
  OBVIOUS
<1> USE DEF WatchInit
<1>1. WatchTypeOK
  BY DEF WatchTypeOK, NoWatch, Added
<1>2. Unhandled = {}
  BY DEF Unhandled, ToSet
<1>3. WatchersApart /\ EventsKnown /\ WatchKept /\ ChangesAnnounced
  BY <1>2 DEF WatchersApart, EventsKnown, WatchKept, ChangesAnnounced, NoWatch, Failed
<1> QED
  BY <1>1, <1>3 DEF WatchInv

\* What the kernel does with an event under a file's watch: it is pending
\* afterwards, or the file has lost it.
LEMMA PostEffect ==
    ASSUME WatchInv, NEW f \in Files, NEW mask \in {"closeWrite", "ignored"},
           Post(f, mask), UNCHANGED buf
    PROVE  /\ queue' \in Seq(Events)
           /\ lost \subseteq lost'
           /\ Unhandled \subseteq Unhandled'
           /\ \A e \in Unhandled' \ Unhandled :
                 e = Overflow \/ (attached[f] # NoWatch /\ e = [wd |-> attached[f], mask |-> mask])
           /\ (attached[f] # NoWatch /\ f \notin lost') => [wd |-> attached[f], mask |-> mask] \in Unhandled'
<1> DEFINE event == [wd |-> attached[f], mask |-> mask]
<1>1. event \in Events /\ Overflow \in Events /\ queue \in Seq(Events)
  BY DEF WatchInv, WatchTypeOK, Events, Overflow, Failed
<1>2. CASE attached[f] = NoWatch \/ (queue # <<>> /\ Last(queue) = event)
  <2>1. UNCHANGED <<queue, lost>>
    BY <1>2 DEF Post
  <2>2. Unhandled' = Unhandled
    BY <2>1 DEF Unhandled
  <2>3. attached[f] # NoWatch => event \in Unhandled
    BY <1>1, <1>2, ElementsLast DEF Unhandled
  <2> QED
    BY <1>1, <2>1, <2>2, <2>3
<1>3. CASE ~(attached[f] = NoWatch \/ (queue # <<>> /\ Last(queue) = event)) /\ Len(queue) < QueueLimit
  <2>1. queue' = Append(queue, event) /\ lost' = lost
    BY <1>3 DEF Post
  <2>2. queue' \in Seq(Events) /\ ToSet(queue') = ToSet(queue) \cup {event}
    BY <1>1, <2>1, ElementsAppend
  <2>3. Unhandled' = Unhandled \cup {event}
    BY <2>2 DEF Unhandled
  <2> QED
    BY <1>3, <2>1, <2>2, <2>3
<1>4. CASE ~(attached[f] = NoWatch \/ (queue # <<>> /\ Last(queue) = event)) /\ ~(Len(queue) < QueueLimit)
  <2>1. /\ queue' = queue \/ queue' = Append(queue, Overflow)
        /\ lost' = lost \cup {f}
    BY <1>4 DEF Post
  <2>2. queue' \in Seq(Events) /\ (ToSet(queue') = ToSet(queue) \/ ToSet(queue') = ToSet(queue) \cup {Overflow})
    <3>1. Append(queue, Overflow) \in Seq(Events) /\ ToSet(Append(queue, Overflow)) = ToSet(queue) \cup {Overflow}
      BY <1>1, ElementsAppend
    <3> QED
      BY <1>1, <2>1, <3>1
  <2>3. Unhandled' = Unhandled \/ Unhandled' = Unhandled \cup {Overflow}
    BY <2>2 DEF Unhandled
  <2> QED
    BY <2>1, <2>2, <2>3
<1> QED
  BY <1>2, <1>3, <1>4

\* What another program does to a file keeps the invariant when the kernel
\* announces it and the end of the watch, or the file is lost.
LEMMA FileChangeStep ==
    ASSUME WatchInv, NEW f \in Files,
           UNCHANGED pollVars,
           present' \subseteq Files,
           attached' \in [Files -> Nat],
           \A g \in Files : attached'[g] = attached[g] \/ (g = f /\ attached'[g] = NoWatch),
           \A g \in Files : attached'[g] # NoWatch => g \in present',
           changed' = changed \cup ({f} \cap Added),
           queue' \in Seq(Events),
           lost \subseteq lost',
           Unhandled \subseteq Unhandled',
           \A e \in Unhandled' \ Unhandled :
              e = Overflow \/ (attached[f] # NoWatch /\ e.mask # "overflow" /\ e.wd = attached[f]),
           (attached[f] # NoWatch /\ f \notin lost') => \E e \in Unhandled' : e.wd = attached[f],
           (attached[f] # NoWatch /\ attached'[f] = NoWatch /\ f \notin lost') =>
              [wd |-> attached[f], mask |-> "ignored"] \in Unhandled'
    PROVE  WatchInv'
<1>1. UNCHANGED <<nextWd, watchers, polling, buf, fileHashes>>
  BY DEF pollVars
<1> USE DEF WatchInv
<1>2. WatchTypeOK'
  BY <1>1 DEF WatchTypeOK, Added
<1>3. WatchersApart'
  <2>1. ASSUME NEW g \in Files PROVE attached'[g] < nextWd
    <3>1. attached[g] < nextWd
      BY DEF WatchersApart
    <3>2. NoWatch < nextWd
      BY DEF WatchTypeOK, NoWatch
    <3>3. attached'[g] = attached[g] \/ attached'[g] = NoWatch
      OBVIOUS
    <3> QED
      BY <3>1, <3>2, <3>3
  <2>2. ASSUME NEW g \in Files, attached'[g] # NoWatch PROVE attached'[g] = watchers[g] /\ g \in present'
    BY <2>2 DEF WatchersApart
  <2> QED
    BY <1>1, <2>1, <2>2 DEF WatchersApart
<1>4. EventsKnown'
  <2>1. ASSUME attached[f] # NoWatch PROVE 0 < attached[f] /\ attached[f] < nextWd
    BY <2>1 DEF WatchersApart, WatchTypeOK, NoWatch
  <2> QED
    BY <1>1, <2>1 DEF EventsKnown
<1>5. WatchKept'
  BY <1>1 DEF WatchKept, WatchersApart, NoWatch
<1>6. ASSUME f \in Added, f \notin lost' PROVE \E e \in Unhandled' : e.wd = watchers[f]
  <2>1. CASE attached[f] = NoWatch
    <3>1. watchers[f] # NoWatch /\ f \in Files \ lost
      BY <1>6 DEF Added
    <3>2. [wd |-> watchers[f], mask |-> "ignored"] \in Unhandled
      BY <2>1, <3>1 DEF WatchKept
    <3> QED
      BY <3>2
  <2>2. CASE attached[f] # NoWatch
    BY <1>6, <2>2 DEF WatchersApart
  <2> QED
    BY <2>1, <2>2
<1>7. ChangesAnnounced'
  <2> SUFFICES ASSUME NEW g \in changed', g \notin lost'
               PROVE  \/ polling' # "no" /\ g \in fileHashes'
                      \/ \E e \in Unhandled' : e.wd = watchers'[g]
    BY DEF ChangesAnnounced
  <2>1. CASE g \in changed
    BY <1>1, <2>1 DEF ChangesAnnounced
  <2>2. CASE g = f /\ f \in Added
    BY <1>1, <1>6, <2>2
  <2> QED
    BY <2>1, <2>2
<1> QED
  BY <1>2, <1>3, <1>4, <1>5, <1>7

\* A write announces itself to the watch on the file, if there is one.
LEMMA WriteFileStep == ASSUME WatchInv, NEW f \in Files, WriteFile(f) PROVE WatchInv'
<1>1. /\ changed' = changed \cup ({f} \cap Added)
      /\ UNCHANGED pollVars /\ UNCHANGED <<present, attached>>
      /\ Post(f, "closeWrite")
  BY DEF WriteFile, Changes
<1>2. UNCHANGED buf
  BY <1>1 DEF pollVars
<1>3. /\ present \subseteq Files /\ attached \in [Files -> Nat]
      /\ \A g \in Files : attached[g] # NoWatch => g \in present
  BY DEF WatchInv, WatchTypeOK, WatchersApart
<1>4. /\ queue' \in Seq(Events)
      /\ lost \subseteq lost'
      /\ Unhandled \subseteq Unhandled'
      /\ \A e \in Unhandled' \ Unhandled :
            e = Overflow \/ (attached[f] # NoWatch /\ e = [wd |-> attached[f], mask |-> "closeWrite"])
      /\ (attached[f] # NoWatch /\ f \notin lost') => [wd |-> attached[f], mask |-> "closeWrite"] \in Unhandled'
  BY <1>1, <1>2, PostEffect
<1>5. \A e \in Unhandled' \ Unhandled :
         e = Overflow \/ (attached[f] # NoWatch /\ e.mask # "overflow" /\ e.wd = attached[f])
  BY <1>4
<1> QED
  BY <1>1, <1>3, <1>4, <1>5, FileChangeStep

\* The end of the watch of a file that is removed or replaced.
LEMMA WatchEndsStep ==
    ASSUME WatchInv, NEW f \in Files,
           changed' = changed \cup ({f} \cap Added),
           UNCHANGED pollVars,
           Post(f, "ignored"),
           attached' = [attached EXCEPT ![f] = NoWatch],
           present' = present \/ present' = present \ {f}
    PROVE  WatchInv'
<1>1. UNCHANGED buf
  BY DEF pollVars
<1>2. /\ present \subseteq Files /\ attached \in [Files -> Nat]
      /\ \A g \in Files : attached[g] # NoWatch => g \in present
  BY DEF WatchInv, WatchTypeOK, WatchersApart
<1>3. /\ attached' \in [Files -> Nat]
      /\ \A g \in Files : attached'[g] = IF g = f THEN NoWatch ELSE attached[g]
  BY <1>2 DEF NoWatch
<1>4. present' \subseteq Files /\ \A g \in Files : attached'[g] # NoWatch => g \in present'
  BY <1>2, <1>3
<1>5. /\ queue' \in Seq(Events)
      /\ lost \subseteq lost'
      /\ Unhandled \subseteq Unhandled'
      /\ \A e \in Unhandled' \ Unhandled :
            e = Overflow \/ (attached[f] # NoWatch /\ e = [wd |-> attached[f], mask |-> "ignored"])
      /\ (attached[f] # NoWatch /\ f \notin lost') => [wd |-> attached[f], mask |-> "ignored"] \in Unhandled'
  BY <1>1, PostEffect
<1> QED
  BY <1>3, <1>4, <1>5, FileChangeStep

\* A file that is created has no watch yet.
LEMMA CreateFileStep == ASSUME WatchInv, NEW f \in Files, CreateFile(f) PROVE WatchInv'
<1>1. /\ changed' = changed \cup ({f} \cap Added)
      /\ UNCHANGED pollVars /\ UNCHANGED <<attached, queue, lost>>
      /\ present' = present \cup {f} /\ f \notin present
  BY DEF CreateFile, Changes
<1>2. /\ present \subseteq Files /\ attached \in [Files -> Nat] /\ queue \in Seq(Events)
      /\ \A g \in Files : attached[g] # NoWatch => g \in present
  BY DEF WatchInv, WatchTypeOK, WatchersApart
<1>3. attached[f] = NoWatch
  BY <1>1, <1>2
<1>4. Unhandled' = Unhandled
  BY <1>1 DEF Unhandled, pollVars
<1> QED
  BY <1>1, <1>2, <1>3, <1>4, FileChangeStep

-----------------------------------------------------------------------------
\* What is pending is an event.
LEMMA UnhandledEvents == ASSUME WatchTypeOK PROVE Unhandled \subseteq Events
<1>1. /\ queue \in Seq(Events) /\ buf \in Seq(Events)
      /\ \A i \in DOMAIN queue : queue[i] \in Events
      /\ \A i \in DOMAIN buf : buf[i] \in Events
  BY DEF WatchTypeOK
<1> QED
  BY <1>1 DEF Unhandled, ToSet

\* A file that is added gets a descriptor nobody has, or none for good.
LEMMA AddFileStep == ASSUME WatchInv, NEW f \in Files, AddFile(f) PROVE WatchInv'
<1>1. /\ watchers[f] = NoWatch /\ f \in present
      /\ watchers' = [watchers EXCEPT ![f] = nextWd]
      /\ attached' = [attached EXCEPT ![f] = nextWd]
      /\ nextWd' = nextWd + 1
      /\ UNCHANGED <<present, queue, polling, buf, fileHashes, changed, lost>>
  BY DEF AddFile
<1>2. WatchTypeOK
  BY DEF WatchInv
<1>3. /\ Unhandled' = Unhandled
      /\ nextWd \in Nat /\ nextWd > 0
      /\ \A g \in Files : watchers'[g] = IF g = f THEN nextWd ELSE watchers[g]
      /\ \A g \in Files : attached'[g] = IF g = f THEN nextWd ELSE attached[g]
      /\ \A g \in Files : watchers[g] \in Nat \cup {Failed} /\ attached[g] \in Nat
  BY <1>1, <1>2 DEF Unhandled, WatchTypeOK
<1>4. WatchTypeOK'
  BY <1>1, <1>2, <1>3 DEF WatchTypeOK, Added, NoWatch
<1>5. WatchersApart'
  <2>1. ASSUME NEW g \in Files PROVE attached'[g] < nextWd' /\ watchers'[g] < nextWd'
    BY <1>1, <1>3 DEF WatchInv, WatchersApart, Failed
  <2>2. \A g \in Files : watchers[g] # nextWd
    BY <1>3 DEF WatchInv, WatchersApart, Failed
  <2> QED
    BY <1>1, <1>3, <2>1, <2>2 DEF WatchInv, WatchersApart
<1>6. EventsKnown'
  <2> SUFFICES ASSUME NEW e \in Unhandled
               PROVE  e = Overflow \/ (e.mask # "overflow" /\ 0 < e.wd /\ e.wd < nextWd + 1)
    BY <1>1, <1>3 DEF EventsKnown
  <2>1. e = Overflow \/ (e.mask # "overflow" /\ 0 < e.wd /\ e.wd < nextWd)
    BY DEF WatchInv, EventsKnown
  <2>2. e \in Events
    BY <1>2, UnhandledEvents
  <2>3. \A w \in Nat \cup {Failed} : w < nextWd => w < nextWd + 1
    BY <1>3 DEF Failed
  <2> QED
    BY <2>1, <2>2, <2>3 DEF Events
<1>7. WatchKept'
  BY <1>1, <1>3 DEF WatchInv, WatchKept, Failed
<1>8. ChangesAnnounced'
  BY <1>1, <1>2, <1>3 DEF WatchInv, ChangesAnnounced, WatchTypeOK, Added
<1> QED
  BY <1>4, <1>5, <1>6, <1>7, <1>8 DEF WatchInv

\* Poll begins with nothing in its buffer.
LEMMA PollBeginStep == ASSUME WatchInv, PollBegin PROVE WatchInv'
<1>1. /\ polling = "no" /\ fileHashes' = {}
      /\ UNCHANGED <<present, attached, queue, nextWd, watchers, buf, changed, lost>>
  BY DEF PollBegin, filesVars
<1> QED
  BY <1>1 DEF WatchInv, WatchTypeOK, WatchersApart, EventsKnown, WatchKept, ChangesAnnounced, Added, Unhandled

\* A read moves events from the kernel to the buffer.
LEMMA PollReadStep == ASSUME WatchInv, PollRead PROVE WatchInv'
<1> DEFINE n == IF Len(queue) < BufferLimit THEN Len(queue) ELSE BufferLimit
<1>1. /\ polling = "read" /\ polling' # "no"
      /\ buf = <<>>
      /\ buf' = SubSeq(queue, 1, n)
      /\ queue' = SubSeq(queue, n + 1, Len(queue))
      /\ UNCHANGED <<present, attached, nextWd, watchers, fileHashes, changed, lost>>
  BY DEF PollRead
<1>2. queue \in Seq(Events) /\ Len(queue) \in Nat
  BY DEF WatchInv, WatchTypeOK
<1>3. n \in 0 .. Len(queue)
  BY <1>2, WatchConstants
<1> HIDE DEF n
<1>4. /\ buf' \in Seq(Events) /\ queue' \in Seq(Events)
      /\ ToSet(queue) = ToSet(buf') \cup ToSet(queue')
  BY <1>1, <1>2, <1>3, ElementsCut
<1>5. Unhandled' = Unhandled
  <2>1. ToSet(buf) = {}
    BY <1>1 DEF ToSet
  <2> QED
    BY <1>4, <2>1 DEF Unhandled
<1>6. WatchTypeOK'
  BY <1>1, <1>4 DEF WatchInv, WatchTypeOK, Added
<1> QED
  BY <1>1, <1>5, <1>6 DEF WatchInv, WatchersApart, EventsKnown, WatchKept, ChangesAnnounced

-----------------------------------------------------------------------------
\* An early return of poll loses no more than the files it names.
LEMMA PollCutStep ==
    ASSUME WatchInv, NEW dropped \in SUBSET Files,
           PollCut(dropped),
           UNCHANGED <<present, attached, queue, nextWd, changed>>,
           watchers' \in [Files -> Nat \cup {Failed}],
           \A g \in Files : watchers'[g] = IF g \in dropped THEN Failed ELSE watchers[g],
           \A g \in dropped : attached[g] = NoWatch
    PROVE  WatchInv'
<1>1. /\ buf' = <<>>
      /\ lost' = lost \cup dropped \cup fileHashes \cup UNION {WatchersOf(e.wd) : e \in ToSet(buf)}
      /\ fileHashes' = fileHashes
  BY DEF PollCut
<1>2. Unhandled' = ToSet(queue) /\ Unhandled' \subseteq Unhandled
  <2>1. ToSet(buf') = {}
    BY <1>1 DEF ToSet
  <2> QED
    BY <2>1 DEF Unhandled
<1>3. ASSUME NEW g \in Files, g \notin lost'
      PROVE  /\ g \notin lost /\ g \notin fileHashes
             /\ watchers'[g] = watchers[g]
             /\ \A e \in Unhandled : e.wd = watchers[g] => e \in Unhandled'
  <2>1. \A e \in ToSet(buf) : g \notin WatchersOf(e.wd)
    BY <1>1, <1>3
  <2>2. \A e \in Unhandled : e.wd = watchers[g] => e \in Unhandled'
    BY <1>2, <2>1 DEF Unhandled, WatchersOf
  <2> QED
    BY <1>1, <1>3, <2>2
<1>4. WatchTypeOK'
  <2>1. <<>> \in Seq(Events)
    OBVIOUS
  <2>2. \A g \in Files : watchers[g] # NoWatch => watchers'[g] # NoWatch
    BY DEF NoWatch, Failed
  <2> QED
    BY <1>1, <2>1, <2>2 DEF WatchInv, WatchTypeOK, Added
<1>5. WatchersApart'
  <2>1. nextWd > 0 /\ nextWd \in Nat
    BY DEF WatchInv, WatchTypeOK
  <2> QED
    BY <2>1 DEF WatchInv, WatchersApart, Failed, NoWatch
<1>6. EventsKnown'
  BY <1>2 DEF WatchInv, EventsKnown
<1>7. WatchKept'
  BY <1>3 DEF WatchInv, WatchKept
<1>8. ChangesAnnounced'
  <2> SUFFICES ASSUME NEW g \in changed, g \notin lost' PROVE \E e \in Unhandled' : e.wd = watchers'[g]
    BY DEF ChangesAnnounced
  <2>1. g \in Files
    BY DEF WatchInv, WatchTypeOK, Added
  <2> QED
    BY <1>3, <2>1 DEF WatchInv, ChangesAnnounced
<1> QED
  BY <1>4, <1>5, <1>6, <1>7, <1>8 DEF WatchInv

\* An event of a descriptor no watcher has is skipped.
LEMMA PollUnknownStep == ASSUME WatchInv, PollUnknown PROVE WatchInv'
<1>1. PollCut({}) /\ UNCHANGED <<present, attached, queue, nextWd, watchers, changed>>
  BY DEF PollUnknown, filesVars
<1>2. watchers \in [Files -> Nat \cup {Failed}]
  BY DEF WatchInv, WatchTypeOK
<1> QED
  BY <1>1, <1>2, PollCutStep

\* A watcher that cannot be attached again is lost for good.
LEMMA PollAttachFailsStep == ASSUME WatchInv, NEW f \in Files, PollAttachFails(f) PROVE WatchInv'
<1>1. /\ f \notin present
      /\ watchers' = [watchers EXCEPT ![f] = Failed]
      /\ PollCut({f})
      /\ UNCHANGED <<present, attached, queue, nextWd, changed>>
  BY DEF PollAttachFails, filesVars
<1>2. /\ watchers \in [Files -> Nat \cup {Failed}]
      /\ attached[f] = NoWatch
  BY <1>1 DEF WatchInv, WatchTypeOK, WatchersApart
<1>3. /\ watchers' \in [Files -> Nat \cup {Failed}]
      /\ \A g \in Files : watchers'[g] = IF g \in {f} THEN Failed ELSE watchers[g]
  BY <1>1, <1>2
<1> QED
  BY <1>1, <1>2, <1>3, PollCutStep

\* The first event of the buffer.
LEMMA PollHead ==
    ASSUME WatchInv, buf # <<>>, NEW collected, PollHandled(collected), UNCHANGED queue
    PROVE  /\ Head(buf) \in Unhandled
           /\ Unhandled' \subseteq Unhandled
           /\ Unhandled \subseteq Unhandled' \cup {Head(buf)}
           /\ buf' \in Seq(Events)
<1>1. buf \in Seq(Events) /\ buf' = Tail(buf)
  BY DEF WatchInv, WatchTypeOK, PollHandled
<1>2. /\ ToSet(buf) = {Head(buf)} \cup ToSet(buf')
      /\ buf' \in Seq(Events)
  BY <1>1, ElementsTail
<1> QED
  BY <1>2 DEF Unhandled

\* An event that ends no watch is handled.
LEMMA PollHandledStep ==
    ASSUME WatchInv, NEW collected \in SUBSET Files,
           polling = "read", buf # <<>>, Head(buf).mask # "ignored",
           PollHandled(collected),
           UNCHANGED <<present, attached, queue, nextWd, watchers, changed>>,
           \A g \in Files \ lost : watchers[g] = Head(buf).wd => g \in collected
    PROVE  WatchInv'
<1>1. /\ fileHashes' = fileHashes \cup collected
      /\ UNCHANGED <<polling, lost>>
  BY DEF PollHandled
<1>2. /\ Unhandled' \subseteq Unhandled
      /\ Unhandled \subseteq Unhandled' \cup {Head(buf)}
      /\ buf' \in Seq(Events)
  BY PollHead
<1>3. WatchTypeOK'
  BY <1>1, <1>2 DEF WatchInv, WatchTypeOK, Added
<1>4. WatchersApart' /\ EventsKnown'
  BY <1>2 DEF WatchInv, WatchersApart, EventsKnown
<1>5. WatchKept'
  <2>1. \A g \in Files : [wd |-> watchers[g], mask |-> "ignored"] # Head(buf)
    OBVIOUS
  <2> QED
    BY <1>1, <1>2, <2>1 DEF WatchInv, WatchKept
<1>6. ChangesAnnounced'
  <2> SUFFICES ASSUME NEW g \in changed, g \notin lost
               PROVE  g \in fileHashes' \/ \E e \in Unhandled' : e.wd = watchers[g]
    BY <1>1 DEF ChangesAnnounced
  <2>1. g \in Files
    BY DEF WatchInv, WatchTypeOK, Added
  <2> QED
    BY <1>1, <1>2, <2>1 DEF WatchInv, ChangesAnnounced
<1> QED
  BY <1>3, <1>4, <1>5, <1>6 DEF WatchInv

\* An overflow tells of no file.
LEMMA PollOverflowStep == ASSUME WatchInv, PollOverflow PROVE WatchInv'
<1>1. /\ polling = "read" /\ buf # <<>>
      /\ Head(buf) = Overflow
      /\ PollHandled({})
      /\ UNCHANGED <<present, attached, queue, nextWd, watchers, changed>>
  BY DEF PollOverflow, filesVars
<1>2. Head(buf).mask # "ignored" /\ Head(buf).wd = Failed
  BY <1>1 DEF Overflow
<1>3. \A g \in Files \ lost : watchers[g] # Failed
  BY DEF WatchInv, WatchKept
<1> QED
  BY <1>1, <1>2, <1>3, PollHandledStep

\* A write that is handled is remembered for the callbacks.
LEMMA PollWrittenStep == ASSUME WatchInv, NEW f \in Files, PollWritten(f) PROVE WatchInv'
<1>1. /\ polling = "read" /\ buf # <<>>
      /\ Head(buf).mask = "closeWrite" /\ watchers[f] = Head(buf).wd
      /\ PollHandled({f})
      /\ UNCHANGED <<present, attached, queue, nextWd, watchers, changed>>
  BY DEF PollWritten, filesVars
<1>2. 0 < Head(buf).wd
  <2>1. Head(buf) \in Unhandled
    BY <1>1, PollHead
  <2>2. Head(buf) # Overflow
    BY <1>1 DEF Overflow
  <2> QED
    BY <2>1, <2>2 DEF WatchInv, EventsKnown
<1>3. \A g \in Files : watchers[g] = Head(buf).wd => g = f
  BY <1>1, <1>2 DEF WatchInv, WatchersApart, NoWatch, Failed
<1> QED
  BY <1>1, <1>3, PollHandledStep

\* A watch that ended is attached again to what the path names now.
LEMMA PollAttachStep == ASSUME WatchInv, NEW f \in Files, PollAttach(f) PROVE WatchInv'
<1>1. /\ polling = "read" /\ buf # <<>>
      /\ Head(buf).mask = "ignored" /\ watchers[f] = Head(buf).wd
      /\ f \in present
      /\ watchers' = [watchers EXCEPT ![f] = nextWd]
      /\ attached' = [attached EXCEPT ![f] = nextWd]
      /\ nextWd' = nextWd + 1
      /\ PollHandled({f})
      /\ UNCHANGED <<present, queue, changed>>
  BY DEF PollAttach
<1>2. /\ fileHashes' = fileHashes \cup {f}
      /\ UNCHANGED <<polling, lost>>
  BY <1>1 DEF PollHandled
<1>3. /\ Head(buf) \in Unhandled
      /\ Unhandled' \subseteq Unhandled
      /\ Unhandled \subseteq Unhandled' \cup {Head(buf)}
      /\ buf' \in Seq(Events)
  BY <1>1, PollHead
<1>4. /\ WatchTypeOK
      /\ nextWd \in Nat /\ nextWd > 0
      /\ \A g \in Files : watchers'[g] = IF g = f THEN nextWd ELSE watchers[g]
      /\ \A g \in Files : attached'[g] = IF g = f THEN nextWd ELSE attached[g]
      /\ \A g \in Files : watchers[g] \in Nat \cup {Failed} /\ attached[g] \in Nat
  BY <1>1 DEF WatchInv, WatchTypeOK
<1>5. \A g \in Files : watchers[g] = Head(buf).wd => g = f
  <2>1. Head(buf) # Overflow
    BY <1>1 DEF Overflow
  <2>2. 0 < Head(buf).wd
    BY <1>3, <2>1 DEF WatchInv, EventsKnown
  <2> QED
    BY <1>1, <2>2 DEF WatchInv, WatchersApart, NoWatch, Failed
<1>6. WatchTypeOK'
  BY <1>1, <1>2, <1>3, <1>4 DEF WatchTypeOK, Added, NoWatch
<1>7. WatchersApart'
  <2>1. ASSUME NEW g \in Files PROVE attached'[g] < nextWd' /\ watchers'[g] < nextWd'
    BY <1>1, <1>4 DEF WatchInv, WatchersApart, Failed
  <2>2. \A g \in Files : watchers[g] # nextWd
    BY <1>4 DEF WatchInv, WatchersApart, Failed
  <2> QED
    BY <1>1, <1>4, <2>1, <2>2 DEF WatchInv, WatchersApart
<1>8. EventsKnown'
  <2> SUFFICES ASSUME NEW e \in Unhandled
               PROVE  e = Overflow \/ (e.mask # "overflow" /\ 0 < e.wd /\ e.wd < nextWd + 1)
    BY <1>1, <1>3 DEF EventsKnown
  <2>1. e = Overflow \/ (e.mask # "overflow" /\ 0 < e.wd /\ e.wd < nextWd)
    BY DEF WatchInv, EventsKnown
  <2>2. e \in Events
    BY <1>4, UnhandledEvents
  <2>3. \A w \in Nat \cup {Failed} : w < nextWd => w < nextWd + 1
    BY <1>4 DEF Failed
  <2> QED
    BY <2>1, <2>2, <2>3 DEF Events
<1>9. WatchKept'
  <2> SUFFICES ASSUME NEW g \in Files, g \notin lost
               PROVE  /\ watchers'[g] # Failed
                      /\ attached'[g] = watchers'[g] \/ [wd |-> watchers'[g], mask |-> "ignored"] \in Unhandled'
    BY <1>2 DEF WatchKept
  <2>1. CASE g = f
    BY <1>4, <2>1 DEF Failed
  <2>2. CASE g # f
    <3>1. /\ watchers'[g] = watchers[g] /\ attached'[g] = attached[g]
          /\ [wd |-> watchers[g], mask |-> "ignored"] # Head(buf)
      BY <1>4, <1>5, <2>2
    <3> QED
      BY <1>3, <3>1 DEF WatchInv, WatchKept
  <2> QED
    BY <2>1, <2>2
<1>10. ChangesAnnounced'
  <2> SUFFICES ASSUME NEW g \in changed, g \notin lost
               PROVE  g \in fileHashes' \/ \E e \in Unhandled' : e.wd = watchers'[g]
    BY <1>1, <1>2 DEF ChangesAnnounced
  <2>1. g \in Files
    BY DEF WatchInv, WatchTypeOK, Added
  <2>2. CASE g = f
    BY <1>2, <2>2
  <2>3. CASE g # f
    <3>1. watchers'[g] = watchers[g] /\ watchers[g] # Head(buf).wd
      BY <1>4, <1>5, <2>1, <2>3
    <3> QED
      BY <1>2, <1>3, <3>1 DEF WatchInv, ChangesAnnounced
  <2> QED
    BY <2>2, <2>3
<1> QED
  BY <1>6, <1>7, <1>8, <1>9, <1>10 DEF WatchInv

\* The callbacks.
LEMMA PollCallsStep == ASSUME WatchInv, PollCalls PROVE WatchInv'
<1>1. /\ changed' = changed \ fileHashes
      /\ lost' = lost \ {f \in fileHashes : Watched(f)}
      /\ UNCHANGED <<present, attached, queue, nextWd, watchers, buf, fileHashes>>
  BY DEF PollCalls, filesVars
<1>2. WatchTypeOK' /\ WatchersApart' /\ EventsKnown'
  BY <1>1 DEF WatchInv, WatchTypeOK, WatchersApart, EventsKnown, Added, Unhandled
<1>3. Unhandled' = Unhandled
  BY <1>1 DEF Unhandled
<1>4. WatchKept'
  <2>1. ASSUME NEW f \in Files, Watched(f)
        PROVE  /\ watchers[f] # Failed
               /\ attached[f] = watchers[f] \/ [wd |-> watchers[f], mask |-> "ignored"] \in Unhandled
    <3>1. CASE attached[f] = watchers[f]
      BY <3>1 DEF WatchInv, WatchTypeOK, Failed
    <3>2. CASE [wd |-> watchers[f], mask |-> "ignored"] \in ToSet(queue)
      <4> DEFINE e == [wd |-> watchers[f], mask |-> "ignored"]
      <4>1. e \in Unhandled /\ e # Overflow
        BY <3>2 DEF Unhandled, Overflow
      <4>2. 0 < e.wd
        BY <4>1 DEF WatchInv, EventsKnown
      <4> QED
        BY <4>1, <4>2 DEF Failed
    <3> QED
      BY <2>1, <3>1, <3>2 DEF Watched
  <2> QED
    BY <1>1, <1>3, <2>1 DEF WatchInv, WatchKept
<1>5. ChangesAnnounced'
  BY <1>1, <1>3 DEF WatchInv, ChangesAnnounced
<1> QED
  BY <1>2, <1>4, <1>5 DEF WatchInv

-----------------------------------------------------------------------------
\* Every step keeps the invariant.
LEMMA WatchInvStep == WatchInv /\ [WatchNext]_watchVars => WatchInv'
<1> SUFFICES ASSUME WatchInv, [WatchNext]_watchVars PROVE WatchInv'
  OBVIOUS
<1>1. ASSUME NEW f \in Files, WriteFile(f) PROVE WatchInv'
  BY <1>1, WriteFileStep
<1>2. ASSUME NEW f \in Files, ReplaceFile(f) \/ RemoveFile(f) PROVE WatchInv'
  <2>1. /\ changed' = changed \cup ({f} \cap Added)
        /\ UNCHANGED pollVars
        /\ Post(f, "ignored")
        /\ attached' = [attached EXCEPT ![f] = NoWatch]
        /\ present' = present \/ present' = present \ {f}
    BY <1>2 DEF ReplaceFile, RemoveFile, Changes
  <2> QED
    BY <2>1, WatchEndsStep
<1>3. ASSUME NEW f \in Files, CreateFile(f) PROVE WatchInv'
  BY <1>3, CreateFileStep
<1>4. ASSUME NEW f \in Files, AddFile(f) PROVE WatchInv'
  BY <1>4, AddFileStep
<1>5. ASSUME NEW f \in Files, PollWritten(f) PROVE WatchInv'
  BY <1>5, PollWrittenStep
<1>6. ASSUME NEW f \in Files, PollAttach(f) PROVE WatchInv'
  BY <1>6, PollAttachStep
<1>7. ASSUME NEW f \in Files, PollAttachFails(f) PROVE WatchInv'
  BY <1>7, PollAttachFailsStep
<1>8. ASSUME PollBegin \/ PollRead \/ PollUnknown \/ PollOverflow \/ PollCalls PROVE WatchInv'
  BY <1>8, PollBeginStep, PollReadStep, PollUnknownStep, PollOverflowStep, PollCallsStep
<1>9. ASSUME UNCHANGED watchVars PROVE WatchInv'
  BY <1>9 DEF WatchInv, WatchTypeOK, WatchersApart, EventsKnown, WatchKept, ChangesAnnounced,
              Added, Unhandled, watchVars
<1> QED
  BY <1>1, <1>2, <1>3, <1>4, <1>5, <1>6, <1>7, <1>8, <1>9 DEF WatchNext

\* A change of a watched file is called back or announced, for any number of
\* files and changes, queues and buffers of any length: what is lost is lost to
\* an overflow of the kernel's queue or to an early return of poll.
THEOREM NoChangeMissedCorrect == WatchSpec => []NoChangeMissed
<1>1. WatchInv => NoChangeMissed
  <2> SUFFICES ASSUME WatchInv PROVE NoChangeMissed
    OBVIOUS
  <2>1. ToSet(queue \o buf) = Unhandled
    BY ElementsConcat DEF WatchInv, WatchTypeOK, Unhandled
  <2> QED
    BY <2>1 DEF WatchInv, ChangesAnnounced, NoChangeMissed
<1> QED
  BY <1>1, WatchInvInit, WatchInvStep, PTL DEF WatchSpec

-----------------------------------------------------------------------------
(* ProjectLoad and the get_suid it calls                                   *)

\* A set of natural numbers has a least one.
LEMMA LeastNumber ==
    ASSUME NEW S, S \subseteq Nat, S # {}
    PROVE  \E p \in S : \A q \in S : p <= q
<1>1. PICK x \in S : \A y \in S : ~(<<y, x>> \in OpToRel(<, Nat))
  BY NatLessThanWellFounded, WFMin
<1>2. \A y \in S : ~(y < x)
  BY <1>1 DEF OpToRel
<1> QED
  BY <1>2

ImportJobs == [id : SUID, path : Paths, ok : BOOLEAN, hasCompleted : BOOLEAN]

ProjectTypeOK ==
    /\ registered \subseteq SUID /\ counter \in SUID
    /\ DOMAIN disk = Projects
    /\ \A p \in Projects : DOMAIN disk[p].entries \subseteq SUID
    /\ manager \in [registry : BOOLEAN, batch : BOOLEAN, assets : SUBSET SUID]
    /\ importJobs \in Seq(ImportJobs)

\* AssetsMatchRegistry but for the identifiers of the imports.
RegistryExact ==
    /\ manager.registry => manager.assets = DOMAIN entries
    /\ \A s, t \in DOMAIN entries : entries[s] = entries[t] => s = t
    /\ DOMAIN entries \subseteq registered

\* The identifiers of the imports.
ImportsApart ==
    /\ \A i \in DOMAIN importJobs : importJobs[i].id \in registered
    /\ \A i, k \in DOMAIN importJobs : importJobs[i].id = importJobs[k].id => i = k
    /\ "overtaken" \notin excuse => \A i \in DOMAIN importJobs : importJobs[i].id \notin DOMAIN entries

\* A load job the workers have is one of the batch; outside a batch there is none.
LoadsKept ==
    /\ DOMAIN loading \subseteq loadJobs
    /\ async # "loading" => DOMAIN loading = {}

\* An import job the workers still touch is not freed.
ImportsKept ==
    "cleared" \notin excuse =>
        /\ \A s \in DOMAIN importing : importing[s] # "complete" => Pending(s)
        /\ \A i \in DOMAIN importJobs :
              (importJobs[i].hasCompleted /\ importJobs[i].id \in DOMAIN importing) =>
                  importing[importJobs[i].id] = "complete"

Extends(E, F) == \A s \in DOMAIN F : s \in DOMAIN E /\ E[s] = F[s]

\* With one project opened, the Project and the AssetRegistry hold what its
\* files held.
OneProject ==
    "reopened" \notin excuse =>
        /\ context = TRUE
        /\ ~manager.registry =>
              (project.path = NoProject /\ project.scenes = {} /\ DOMAIN entries = {})
        /\ \A p \in Projects :
              disk[p].scenes = File[p].scenes /\ Extends(disk[p].entries, File[p].entries)
        /\ \A p \in Projects : project.path = p =>
              (project.scenes = File[p].scenes /\ Extends(entries, File[p].entries))

ProjectInv ==
    /\ ProjectTypeOK
    /\ RegistryExact
    /\ ImportsApart
    /\ LoadsKept
    /\ ImportsKept
    /\ OneProject
    /\ FreedNotUsed

-----------------------------------------------------------------------------
(* get_suid *)

\* The loop of get_suid comes to different identifiers at different times.
LEMMA WalksApart ==
    ASSUME counter \in SUID, NEW a \in SUID
    PROVE  /\ WalkTo(a) \in Nat
           /\ \A b \in SUID : WalkTo(a) = WalkTo(b) => a = b
<1>1. \A s \in SUID : WalkTo(s) = IF counter <= s THEN s - counter ELSE s - counter + IdentityMask
  BY SUIDConstants DEF WalkTo, SUID
<1> QED
  BY <1>1, SUIDConstants DEF SUID

\* The free identifiers are finitely many.
LEMMA FreeFinite == IsFiniteSet(FreeSUIDs)
<1>1. IsFiniteSet(SUID)
  BY SUIDConstants, FS_Interval DEF SUID
<1> QED
  BY <1>1, FS_Subset DEF FreeSUIDs

Before(s) == {t \in FreeSUIDs : WalkTo(t) < WalkTo(s)}

\* As long as identifiers are free, the loop comes to another one: for each
\* k up to their number there is one that comes after exactly k - 1 others.
LEMMA RankedExists ==
    ASSUME counter \in SUID, NEW k \in 1 .. Cardinality(FreeSUIDs)
    PROVE  \E s \in FreeSUIDs : Cardinality(Before(s)) = k - 1
<1> DEFINE n == Cardinality(FreeSUIDs)
           Ranked(j) == \E s \in FreeSUIDs : Cardinality(Before(s)) = j - 1
           Missing == {j \in 1 .. n : ~Ranked(j)}
<1>1. n \in Nat
  BY FreeFinite, FS_CardinalityType
<1>2. \A s \in FreeSUIDs : WalkTo(s) \in Nat /\ \A t \in FreeSUIDs : WalkTo(s) = WalkTo(t) => s = t
  BY WalksApart DEF FreeSUIDs
<1>3. \A s : IsFiniteSet(Before(s)) /\ Cardinality(Before(s)) \in Nat
  BY FreeFinite, FS_Subset, FS_CardinalityType DEF Before
\* A non-empty set of free identifiers has one that comes first.
<1>4. ASSUME NEW G \in SUBSET FreeSUIDs, G # {}
      PROVE  \E s \in G : \A t \in G : WalkTo(s) <= WalkTo(t)
  <2>1. {WalkTo(s) : s \in G} \subseteq Nat /\ {WalkTo(s) : s \in G} # {}
    BY <1>2, <1>4
  <2>2. PICK w \in {WalkTo(s) : s \in G} : \A v \in {WalkTo(s) : s \in G} : w <= v
    BY <2>1, LeastNumber
  <2> QED
    BY <2>2
<1>5. Missing = {}
  <2> SUFFICES ASSUME Missing # {} PROVE FALSE
    OBVIOUS
  <2>0. Missing \subseteq Nat
    BY <1>1
  <2>1. PICK j \in Missing : \A i \in Missing : j <= i
    <3> HIDE DEF Missing
    <3> QED
      BY <2>0, LeastNumber
  <2>2. j \in 1 .. n /\ ~Ranked(j)
    OBVIOUS
  <2>3. CASE j = 1
    <3>1. FreeSUIDs # {}
      BY <1>1, <2>2, FS_EmptySet
    <3>2. PICK s \in FreeSUIDs : \A t \in FreeSUIDs : WalkTo(s) <= WalkTo(t)
      BY <1>4, <3>1
    <3>3. Before(s) = {}
      BY <1>2, <3>2 DEF Before
    <3>4. Cardinality(Before(s)) = 0
      BY <3>3, FS_EmptySet
    <3> QED
      BY <2>2, <2>3, <3>4
  <2>4. CASE j # 1
    <3>1. j - 1 \in 1 .. n /\ Ranked(j - 1)
      <4>1. j - 1 \in 1 .. n /\ ~(j <= j - 1)
        BY <1>1, <2>2, <2>4
      <4> QED
        BY <2>1, <4>1
    <3>2. PICK s \in FreeSUIDs : Cardinality(Before(s)) = j - 2
      BY <2>2, <3>1
    <3> DEFINE Later == {t \in FreeSUIDs : WalkTo(s) < WalkTo(t)}
    <3>3. Before(s) \cup {s} = FreeSUIDs \ Later /\ s \notin Before(s)
      BY <1>2 DEF Before
    <3>4. Cardinality(Before(s) \cup {s}) = j - 1
      <4>1. Cardinality(Before(s) \cup {s}) = Cardinality(Before(s)) + 1
        BY <1>3, <3>3, FS_AddElement
      <4>2. (j - 2) + 1 = j - 1
        BY <1>1, <2>2
      <4> QED
        BY <3>2, <4>1, <4>2
    <3>5. Later # {}
      <4> SUFFICES ASSUME Later = {} PROVE FALSE
        OBVIOUS
      <4>1. FreeSUIDs \ Later = FreeSUIDs
        OBVIOUS
      <4>2. n = j - 1
        <5> HIDE DEF Later
        <5> QED
          BY <3>3, <3>4, <4>1
      <4> HIDE DEF n
      <4> QED
        BY <1>1, <2>2, <4>2
    <3>6. PICK t \in Later : \A u \in Later : WalkTo(t) <= WalkTo(u)
      BY <1>4, <3>5
    <3>7. Before(t) = Before(s) \cup {s}
      BY <1>2, <3>6 DEF Before
    <3> QED
      BY <2>2, <3>4, <3>6, <3>7
  <2> QED
    BY <2>3, <2>4
<1> QED
  BY <1>5

\* The identifiers that n calls of get_suid hand out are free and all different.
LEMMA NthSUIDs ==
    ASSUME counter \in SUID, NEW n \in Nat, Cardinality(FreeSUIDs) >= n
    PROVE  /\ \A k \in 1 .. n : NthSUID(k) \in FreeSUIDs
           /\ \A k, l \in 1 .. n : NthSUID(k) = NthSUID(l) => k = l
<1>1. ASSUME NEW k \in 1 .. n
      PROVE  NthSUID(k) \in FreeSUIDs /\ Cardinality(Before(NthSUID(k))) = k - 1
  <2>1. k \in 1 .. Cardinality(FreeSUIDs)
    BY FreeFinite, FS_CardinalityType
  <2>2. \E s \in FreeSUIDs : Cardinality(Before(s)) = k - 1
    BY <2>1, RankedExists
  <2>3. NthSUID(k) = CHOOSE s \in FreeSUIDs : Cardinality(Before(s)) = k - 1
    BY DEF NthSUID, Before
  <2> QED
    BY <2>2, <2>3
<1>2. ASSUME NEW k \in 1 .. n, NEW l \in 1 .. n, NthSUID(k) = NthSUID(l) PROVE k = l
  <2>1. k - 1 = l - 1
    BY <1>1, <1>2
  <2> QED
    BY <2>1
<1> QED
  BY <1>1, <1>2

\* Some calls of get_suid: nothing that was handed out before is again.
LEMMA GetSUIDsStep ==
    ASSUME counter \in SUID, NEW n \in Nat, GetSUIDs(n)
    PROVE  /\ counter' \in SUID
           /\ registered' = registered \cup {NthSUID(k) : k \in 1 .. n}
           /\ \A k \in 1 .. n : NthSUID(k) \in SUID \ registered
           /\ \A k, l \in 1 .. n : NthSUID(k) = NthSUID(l) => k = l
<1>1. /\ Cardinality(FreeSUIDs) >= n
      /\ registered' = registered \cup {NthSUID(k) : k \in 1 .. n}
      /\ counter' = IF n = 0 THEN counter ELSE (NthSUID(n) + 1) % IdentityMask
  BY DEF GetSUIDs
<1>2. /\ \A k \in 1 .. n : NthSUID(k) \in SUID \ registered
      /\ \A k, l \in 1 .. n : NthSUID(k) = NthSUID(l) => k = l
  BY <1>1, NthSUIDs DEF FreeSUIDs
<1>3. \A s \in SUID : (s + 1) % IdentityMask \in SUID
  BY SUIDConstants DEF SUID
<1>4. counter' \in SUID
  BY <1>1, <1>2, <1>3
<1> QED
  BY <1>1, <1>2, <1>4

-----------------------------------------------------------------------------
(* Opening projects and importing assets *)

\* Nothing is open, loaded or imported.
LEMMA ProjectInvInit == ProjectInit => ProjectInv
<1> SUFFICES ASSUME ProjectInit PROVE ProjectInv
  OBVIOUS
<1> USE DEF ProjectInit, SUIDInit, NoJobs
<1>1. ProjectTypeOK
  BY SUIDConstants, ProjectConstants DEF ProjectTypeOK, SUID
<1>2. RegistryExact /\ ImportsApart /\ LoadsKept /\ ImportsKept
  BY DEF RegistryExact, ImportsApart, LoadsKept, ImportsKept
<1>3. OneProject
  BY ProjectConstants DEF OneProject, Extends
<1>4. FreedNotUsed
  BY DEF FreedNotUsed
<1> QED
  BY <1>1, <1>2, <1>3, <1>4 DEF ProjectInv

\* A project that is rejected ends the program.
LEMMA RejectedStep == ASSUME ProjectInv, NEW p \in Projects, Rejected(p) PROVE ProjectInv'
<1>1. /\ excuse' = excuse \cup {"trapped"}
      /\ UNCHANGED <<disk, project, entries, context, manager, async, importJobs, loadJobs,
                     loading, importing, undefined, registered, counter>>
  BY DEF Rejected, suidVars
<1> QED
  BY <1>1 DEF ProjectInv, ProjectTypeOK, RegistryExact, ImportsApart, LoadsKept, ImportsKept,
              OneProject, FreedNotUsed, Pending

\* The entries of a project's files are added to those that are registered.
LEMMA BeginStep == ASSUME ProjectInv, NEW p \in Projects, Begin(p) PROVE ProjectInv'
<1> DEFINE F == disk[p].entries
           table == Merge(entries, F, DOMAIN F)
<1>1. /\ async = "none"
      /\ Clashes(p) = {}
      /\ project' = [path |-> p, scenes |-> project.scenes \cup disk[p].scenes]
      /\ entries' = table
      /\ TrySUIDs(DOMAIN F)
      /\ manager' = [registry |-> TRUE, batch |-> TRUE, assets |-> DOMAIN table]
      /\ loadJobs' = DOMAIN table
      /\ loading' = Put(loading, DOMAIN table, "queued")
      /\ context' = (context /\ ~manager.registry)
      /\ async' = "loading"
      /\ excuse' = excuse \cup (IF manager.registry THEN {"reopened"} ELSE {})
                          \cup (IF importJobs # <<>> THEN {"overtaken"} ELSE {})
      /\ Uses(context)
      /\ UNCHANGED <<disk, importJobs, importing>>
  BY DEF Begin, Swapped
<1>2. /\ DOMAIN table = DOMAIN entries \cup DOMAIN F
      /\ \A s \in DOMAIN entries \cup DOMAIN F : table[s] = IF s \in DOMAIN F THEN F[s] ELSE entries[s]
  BY DEF Merge
<1>3. /\ registered' = registered \cup DOMAIN F
      /\ counter' = counter
  BY <1>1 DEF TrySUIDs
<1>4. \A s \in DOMAIN F : /\ s \notin DOMAIN entries
                          /\ F[s] \notin PathsOf(entries)
                          /\ \A t \in DOMAIN F : F[t] = F[s] => t = s
  BY <1>1 DEF Clashes
<1>5. excuse \subseteq excuse'
  BY <1>1
<1> USE DEF ProjectInv
<1> HIDE DEF F, table
<1>6. ProjectTypeOK'
  <2>1. DOMAIN F \subseteq SUID /\ DOMAIN table \subseteq SUID
    BY <1>2 DEF ProjectTypeOK, RegistryExact, F
  <2> QED
    BY <1>1, <1>3, <2>1 DEF ProjectTypeOK
<1>7. RegistryExact'
  <2>1. ASSUME NEW s \in DOMAIN table, NEW t \in DOMAIN table, table[s] = table[t] PROVE s = t
    <3>1. CASE s \in DOMAIN F /\ t \in DOMAIN F
      BY <1>2, <1>4, <2>1, <3>1
    <3>2. CASE s \notin DOMAIN F /\ t \notin DOMAIN F
      BY <1>2, <2>1, <3>2 DEF RegistryExact
    <3>3. CASE (s \in DOMAIN F) # (t \in DOMAIN F)
      BY <1>2, <1>4, <2>1, <3>3 DEF PathsOf
    <3> QED
      BY <3>1, <3>2, <3>3
  <2>2. DOMAIN table \subseteq registered'
    BY <1>2, <1>3 DEF RegistryExact
  <2>3. manager'.assets = DOMAIN table
    BY <1>1
  <2> QED
    BY <1>1, <2>1, <2>2, <2>3 DEF RegistryExact
<1>8. ImportsApart'
  <2>1. importJobs = <<>> \/ "overtaken" \in excuse'
    BY <1>1
  <2> QED
    BY <1>1, <1>3, <2>1 DEF ImportsApart
<1>9. LoadsKept'
  BY <1>1 DEF LoadsKept, Put
<1>10. ImportsKept'
  BY <1>1, <1>5 DEF ImportsKept, Pending
<1>11. OneProject'
  <2> SUFFICES ASSUME "reopened" \notin excuse'
               PROVE  /\ context' = TRUE
                      /\ manager'.registry
                      /\ \A q \in Projects :
                            disk[q].scenes = File[q].scenes /\ Extends(disk[q].entries, File[q].entries)
                      /\ \A q \in Projects : project'.path = q =>
                            (project'.scenes = File[q].scenes /\ Extends(table, File[q].entries))
    BY <1>1 DEF OneProject
  <2>1. /\ ~manager.registry
        /\ "reopened" \notin excuse
    BY <1>1
  <2>2. /\ context = TRUE
        /\ project.scenes = {} /\ DOMAIN entries = {}
        /\ \A q \in Projects :
              disk[q].scenes = File[q].scenes /\ Extends(disk[q].entries, File[q].entries)
    BY <2>1 DEF OneProject
  <2>3. project'.path = p /\ project'.scenes = File[p].scenes
    BY <1>1, <2>2
  <2>4. Extends(table, File[p].entries)
    BY <1>2, <2>2 DEF Extends, F
  <2>5. context' = TRUE /\ manager'.registry
    BY <1>1, <2>1, <2>2
  <2> QED
    BY <2>2, <2>3, <2>4, <2>5
<1>12. FreedNotUsed'
  <2>1. "reopened" \notin excuse => context = TRUE
    BY DEF OneProject
  <2> QED
    BY <1>1, <1>5, <2>1 DEF FreedNotUsed, Uses
<1> QED
  BY <1>6, <1>7, <1>8, <1>9, <1>10, <1>11, <1>12 DEF ProjectInv

\* A load job the workers have is in the batch, and the registry it reads is live.
LEMMA LoadJobStep ==
    ASSUME ProjectInv, NEW s \in SUID, LoadExecutes(s) \/ LoadCompletes(s) \/ LoadReturns(s)
    PROVE  ProjectInv'
<1>1. /\ s \in DOMAIN loading
      /\ DOMAIN loading' \subseteq DOMAIN loading
      /\ Uses(context /\ s \in loadJobs) \/ Uses(s \in loadJobs)
      /\ UNCHANGED <<disk, project, entries, context, manager, async, importJobs, loadJobs,
                     importing, excuse, registered, counter>>
  BY DEF LoadExecutes, LoadCompletes, LoadReturns, Gone, suidVars
<1> USE DEF ProjectInv
<1>2. LoadsKept'
  BY <1>1 DEF LoadsKept
<1>3. s \in loadJobs
  BY <1>1 DEF LoadsKept
<1>4. FreedNotUsed'
  <2>1. "reopened" \notin excuse => context = TRUE
    BY DEF OneProject
  <2> QED
    BY <1>1, <1>3, <2>1 DEF FreedNotUsed, Uses
<1> QED
  BY <1>1, <1>2, <1>4 DEF ProjectTypeOK, RegistryExact, ImportsApart, ImportsKept, OneProject, Pending

\* The batch ends when no worker holds a job of it.
LEMMA LoadUpdateStep == ASSUME ProjectInv, LoadUpdate PROVE ProjectInv'
<1>1. /\ DOMAIN loading = {}
      /\ manager' = [manager EXCEPT !.batch = FALSE]
      /\ loadJobs' = {}
      /\ UNCHANGED <<disk, project, entries, context, importJobs, loading, importing, excuse,
                     undefined, registered, counter>>
  BY DEF LoadUpdate, EndLoadBatch, suidVars
<1>2. manager'.registry = manager.registry /\ manager'.assets = manager.assets
  BY <1>1 DEF ProjectInv, ProjectTypeOK
<1>3. ProjectTypeOK'
  BY <1>1 DEF ProjectInv, ProjectTypeOK
<1> QED
  BY <1>1, <1>2, <1>3 DEF ProjectInv, RegistryExact, ImportsApart, LoadsKept, ImportsKept,
                          OneProject, FreedNotUsed, Pending

\* The finished load is dropped.
LEMMA LoadFinishedStep == ASSUME ProjectInv, LoadFinished PROVE ProjectInv'
<1>1. /\ async = "complete" /\ async' = "none"
      /\ UNCHANGED <<disk, project, entries, context, manager, importJobs, loadJobs, loading,
                     importing, excuse, undefined, registered, counter>>
  BY DEF LoadFinished, suidVars
<1> QED
  BY <1>1 DEF ProjectInv, ProjectTypeOK, RegistryExact, ImportsApart, LoadsKept, ImportsKept,
              OneProject, FreedNotUsed, Pending

\* What is written is at least what was read.
LEMMA SaveStep == ASSUME ProjectInv, Save PROVE ProjectInv'
<1>1. /\ disk' = [disk EXCEPT ![project.path] = [scenes |-> project.scenes, entries |-> entries]]
      /\ Uses(context)
      /\ UNCHANGED <<project, entries, context, manager, async, importJobs, loadJobs, loading,
                     importing, excuse, registered, counter>>
  BY DEF Save, suidVars
<1> USE DEF ProjectInv
<1>2. /\ DOMAIN disk' = Projects
      /\ \A p \in Projects : disk'[p] = IF p = project.path
                                        THEN [scenes |-> project.scenes, entries |-> entries] ELSE disk[p]
  BY <1>1 DEF ProjectTypeOK
<1>3. OneProject'
  <2>1. ASSUME "reopened" \notin excuse, NEW p \in Projects
        PROVE  disk'[p].scenes = File[p].scenes /\ Extends(disk'[p].entries, File[p].entries)
    BY <1>2, <2>1 DEF OneProject
  <2> QED
    BY <1>1, <2>1 DEF OneProject
<1>4. FreedNotUsed'
  BY <1>1 DEF FreedNotUsed, Uses, OneProject
<1>5. ProjectTypeOK'
  BY <1>1, <1>2 DEF ProjectTypeOK, RegistryExact
<1> QED
  BY <1>1, <1>3, <1>4, <1>5 DEF RegistryExact, ImportsApart, LoadsKept, ImportsKept, Pending

-----------------------------------------------------------------------------
\* An import that runs or completes touches its own job only.
LEMMA ImportWorkerStep ==
    ASSUME ProjectInv, NEW s \in SUID, ImportExecutes(s) \/ ImportCompletes(s) \/ ImportReturns(s)
    PROVE  ProjectInv'
<1>1. UNCHANGED <<disk, project, entries, context, manager, async, loadJobs, loading,
                  excuse, registered, counter>>
  BY DEF ImportExecutes, ImportCompletes, ImportReturns, suidVars
<1>2. s \in DOMAIN importing
  BY DEF ImportExecutes, ImportCompletes, ImportReturns
<1> USE DEF ProjectInv
<1>3. importJobs \in Seq(ImportJobs)
  BY DEF ProjectTypeOK
<1>3a. Len(importJobs) \in Nat /\ DOMAIN importJobs = 1 .. Len(importJobs)
  BY <1>3
<1>4. /\ importJobs' \in Seq(ImportJobs)
      /\ DOMAIN importJobs' = DOMAIN importJobs
      /\ \A i \in DOMAIN importJobs :
            /\ importJobs'[i].id = importJobs[i].id
            /\ importJobs'[i].hasCompleted <=>
                  (importJobs[i].hasCompleted \/ (ImportCompletes(s) /\ importJobs[i].id = s))
  <2>1. CASE ImportExecutes(s)
    <3>1. PICK ok \in BOOLEAN :
            importJobs' = [i \in DOMAIN importJobs |->
               IF importJobs[i].id = s THEN [importJobs[i] EXCEPT !.ok = ok] ELSE importJobs[i]]
      BY <2>1 DEF ImportExecutes
    <3>2. ~ImportCompletes(s)
      BY <2>1 DEF ImportExecutes, ImportCompletes
    <3>3. \A i \in DOMAIN importJobs : importJobs[i] \in ImportJobs
      BY <1>3
    <3>4. \A i \in DOMAIN importJobs : /\ importJobs'[i] \in ImportJobs
                                       /\ importJobs'[i].id = importJobs[i].id
                                       /\ importJobs'[i].hasCompleted <=> importJobs[i].hasCompleted
      BY <3>1, <3>3 DEF ImportJobs
    <3>5. importJobs' \in Seq(ImportJobs) /\ DOMAIN importJobs' = DOMAIN importJobs
      <4>1. importJobs' = [i \in 1 .. Len(importJobs) |-> importJobs'[i]]
        BY <1>3a, <3>1
      <4> QED
        BY <1>3a, <3>4, <4>1
    <3> QED
      BY <3>2, <3>4, <3>5
  <2>2. CASE ImportCompletes(s)
    <3>1. importJobs' = [i \in DOMAIN importJobs |->
             IF importJobs[i].id = s THEN [importJobs[i] EXCEPT !.hasCompleted = TRUE] ELSE importJobs[i]]
      BY <2>2 DEF ImportCompletes
    <3>2. \A i \in DOMAIN importJobs : importJobs[i] \in ImportJobs
      BY <1>3
    <3>3. \A i \in DOMAIN importJobs : /\ importJobs'[i] \in ImportJobs
                                       /\ importJobs'[i].id = importJobs[i].id
                                       /\ importJobs'[i].hasCompleted <=>
                                             (importJobs[i].hasCompleted \/ importJobs[i].id = s)
      BY <3>1, <3>2 DEF ImportJobs
    <3>4. importJobs' \in Seq(ImportJobs) /\ DOMAIN importJobs' = DOMAIN importJobs
      <4>1. importJobs' = [i \in 1 .. Len(importJobs) |-> importJobs'[i]]
        BY <1>3a, <3>1
      <4> QED
        BY <1>3a, <3>3, <4>1
    <3> QED
      BY <2>2, <3>3, <3>4
  <2>3. CASE ImportReturns(s)
    <3>1. importJobs' = importJobs /\ ~ImportCompletes(s)
      BY <2>3 DEF ImportReturns, ImportCompletes
    <3> QED
      BY <1>3, <3>1
  <2> QED
    BY <2>1, <2>2, <2>3
<1>5. \A t : Pending(t)' <=> Pending(t)
  BY <1>4 DEF Pending
<1>6. ImportsKept'
  <2> SUFFICES ASSUME "cleared" \notin excuse
               PROVE  /\ \A t \in DOMAIN importing' : importing'[t] # "complete" => Pending(t)
                      /\ \A i \in DOMAIN importJobs :
                            (importJobs'[i].hasCompleted /\ importJobs[i].id \in DOMAIN importing') =>
                               importing'[importJobs[i].id] = "complete"
    BY <1>1, <1>4, <1>5 DEF ImportsKept
  <2>1. /\ \A t \in DOMAIN importing : importing[t] # "complete" => Pending(t)
        /\ \A i \in DOMAIN importJobs :
              (importJobs[i].hasCompleted /\ importJobs[i].id \in DOMAIN importing) =>
                 importing[importJobs[i].id] = "complete"
    BY DEF ImportsKept
  <2>2. CASE ImportExecutes(s)
    <3>1. importing[s] = "queued" /\ importing' = [importing EXCEPT ![s] = "executed"] /\ ~ImportCompletes(s)
      BY <2>2 DEF ImportExecutes, ImportCompletes
    <3> QED
      BY <1>2, <1>4, <2>1, <3>1
  <2>3. CASE ImportCompletes(s)
    <3>1. importing' = [importing EXCEPT ![s] = "complete"]
      BY <2>3 DEF ImportCompletes
    <3> QED
      BY <1>2, <1>4, <2>1, <3>1
  <2>4. CASE ImportReturns(s)
    <3>1. importing' = [t \in DOMAIN importing \ {s} |-> importing[t]] /\ importJobs' = importJobs
      BY <2>4 DEF ImportReturns, Gone
    <3> QED
      BY <2>1, <3>1
  <2> QED
    BY <2>2, <2>3, <2>4
<1>7. FreedNotUsed'
  <2> SUFFICES ASSUME "cleared" \notin excuse, ~undefined PROVE ~undefined'
    BY <1>1 DEF FreedNotUsed, ImportExecutes, ImportCompletes, ImportReturns, Uses
  <2>1. importing[s] # "complete" => Pending(s)
    BY <1>2 DEF ImportsKept
  <2> QED
    BY <2>1 DEF ImportExecutes, ImportCompletes, ImportReturns, Uses
<1>8. ImportsApart'
  BY <1>1, <1>4 DEF ImportsApart
<1>9. ProjectTypeOK'
  BY <1>1, <1>4 DEF ProjectTypeOK
<1> QED
  BY <1>1, <1>6, <1>7, <1>8, <1>9 DEF RegistryExact, LoadsKept, OneProject

\* A resolved asset is registered under its path, or nothing changes.
LEMMA ResolveEffect ==
    ASSUME NEW s, NEW path, Resolve(s, path) \/ UNCHANGED <<entries, manager>>,
           RegistryExact, ProjectTypeOK, s \in SUID
    PROVE  /\ manager'.registry = manager.registry
           /\ manager' \in [registry : BOOLEAN, batch : BOOLEAN, assets : SUBSET SUID]
           /\ manager'.registry => manager'.assets = DOMAIN entries'
           /\ \A t, u \in DOMAIN entries' : entries'[t] = entries'[u] => t = u
           /\ DOMAIN entries' \subseteq DOMAIN entries \cup {s}
           /\ \A t \in DOMAIN entries : t \in DOMAIN entries' /\ entries'[t] = entries[t]
           /\ ~manager.registry => entries' = entries
<1>1. CASE UNCHANGED <<entries, manager>>
  BY <1>1 DEF RegistryExact, ProjectTypeOK
<1>2. CASE ~(UNCHANGED <<entries, manager>>)
  <2> DEFINE E == Merge(entries, [t \in {s} |-> path], {s})
  <2>1. /\ manager.registry /\ path \notin PathsOf(entries) /\ s \notin DOMAIN entries
        /\ entries' = E
        /\ manager' = [manager EXCEPT !.assets = @ \cup {s}]
    BY <1>2 DEF Resolve
  <2>2. /\ DOMAIN E = DOMAIN entries \cup {s}
        /\ E[s] = path
        /\ \A t \in DOMAIN entries : E[t] = entries[t]
    BY <2>1 DEF Merge
  <2>3. \A t \in DOMAIN entries : entries[t] # path
    BY <2>1 DEF PathsOf
  <2> HIDE DEF E
  <2>4. ASSUME NEW t \in DOMAIN E, NEW u \in DOMAIN E, E[t] = E[u] PROVE t = u
    <3>1. CASE t \in DOMAIN entries /\ u \in DOMAIN entries
      BY <2>2, <2>4, <3>1 DEF RegistryExact
    <3>2. CASE t = s \/ u = s
      BY <2>2, <2>3, <2>4, <3>2
    <3> QED
      BY <2>2, <3>1, <3>2
  <2>5. /\ manager'.registry = manager.registry
        /\ manager'.assets = manager.assets \cup {s}
        /\ manager' \in [registry : BOOLEAN, batch : BOOLEAN, assets : SUBSET SUID]
    BY <2>1 DEF ProjectTypeOK
  <2> QED
    BY <2>1, <2>2, <2>4, <2>5 DEF RegistryExact
<1> QED
  BY <1>1, <1>2

\* What the resolution of one asset leaves true of the project.
LEMMA ResolveKeepsProject ==
    ASSUME ProjectInv, NEW s, NEW path, Resolve(s, path) \/ UNCHANGED <<entries, manager>>,
           s \in SUID, UNCHANGED <<disk, project, context, excuse>>
    PROVE  OneProject'
<1> USE DEF ProjectInv
<1>1. /\ manager'.registry = manager.registry
      /\ \A t \in DOMAIN entries : t \in DOMAIN entries' /\ entries'[t] = entries[t]
      /\ ~manager.registry => entries' = entries
  BY ResolveEffect
<1>2. \A p \in Projects : Extends(entries, File[p].entries) => Extends(entries', File[p].entries)
  BY <1>1 DEF Extends
<1> QED
  BY <1>1, <1>2 DEF OneProject

\* An asset that is imported synchronously takes an identifier nobody has.
LEMMA ImportSynchronousStep ==
    ASSUME ProjectInv, NEW path \in Paths, ImportSynchronous(path)
    PROVE  ProjectInv'
<1> DEFINE s == NthSUID(1)
<1> USE DEF ProjectInv
<1>1. /\ GetSUIDs(1)
      /\ Resolve(s, path) \/ UNCHANGED <<entries, manager>>
      /\ Uses(~manager.registry \/ context)
      /\ UNCHANGED <<disk, project, context, async, importJobs, loadJobs, loading, importing, excuse>>
  BY DEF ImportSynchronous
<1>2. /\ counter' \in SUID
      /\ registered' = registered \cup {s}
      /\ s \in SUID \ registered
  <2>1. counter \in SUID
    BY DEF ProjectTypeOK
  <2>2. /\ counter' \in SUID
        /\ registered' = registered \cup {NthSUID(k) : k \in 1 .. 1}
        /\ \A k \in 1 .. 1 : NthSUID(k) \in SUID \ registered
    BY <1>1, <2>1, GetSUIDsStep
  <2>3. 1 .. 1 = {1}
    OBVIOUS
  <2> QED
    BY <2>2, <2>3
<1> HIDE DEF s
<1>3. /\ manager'.registry = manager.registry
      /\ manager' \in [registry : BOOLEAN, batch : BOOLEAN, assets : SUBSET SUID]
      /\ manager'.registry => manager'.assets = DOMAIN entries'
      /\ \A t, u \in DOMAIN entries' : entries'[t] = entries'[u] => t = u
      /\ DOMAIN entries' \subseteq DOMAIN entries \cup {s}
  BY <1>1, <1>2, ResolveEffect
<1>4. ProjectTypeOK'
  BY <1>1, <1>2, <1>3 DEF ProjectTypeOK
<1>5. RegistryExact'
  BY <1>2, <1>3 DEF RegistryExact
<1>6. ImportsApart'
  BY <1>1, <1>2, <1>3 DEF ImportsApart
<1>7. OneProject'
  BY <1>1, <1>2, ResolveKeepsProject
<1>8. FreedNotUsed'
  BY <1>1 DEF FreedNotUsed, Uses, OneProject
<1> QED
  BY <1>1, <1>4, <1>5, <1>6, <1>7, <1>8 DEF LoadsKept, ImportsKept, Pending

\* The jobs of a new batch have identifiers of their own, and the workers get
\* those whose path is free.
LEMMA ImportBatchStep ==
    ASSUME ProjectInv, NEW batch \in Batches, ImportBatch(batch)
    PROVE  ProjectInv'
<1> DEFINE n == Len(batch)
           Inserted == {NthSUID(i) : i \in {k \in DOMAIN batch : PathFree(batch[k])}}
<1> USE DEF ProjectInv
<1>1. /\ GetSUIDs(n)
      /\ importJobs' = [i \in DOMAIN batch |-> ImportJob(NthSUID(i), batch[i])]
      /\ importing' = Put(importing, Inserted, "queued")
      /\ excuse' = IF \E s \in DOMAIN importing : importing[s] # "complete"
                   THEN excuse \cup {"cleared"} ELSE excuse
      /\ Uses(~manager.registry \/ context)
      /\ UNCHANGED <<disk, project, entries, context, manager, async, loadJobs, loading>>
  BY DEF ImportBatch
<1>2. batch \in Seq(Paths)
  BY ProjectConstants
<1>3. n \in Nat /\ DOMAIN batch = 1 .. n /\ \A i \in 1 .. n : batch[i] \in Paths
  BY <1>2
<1> HIDE DEF n
<1>4. /\ counter' \in SUID
      /\ registered' = registered \cup {NthSUID(k) : k \in 1 .. n}
      /\ \A k \in 1 .. n : NthSUID(k) \in SUID \ registered
      /\ \A k, l \in 1 .. n : NthSUID(k) = NthSUID(l) => k = l
  <2>1. counter \in SUID
    BY DEF ProjectTypeOK
  <2> QED
    BY <1>1, <1>3, <2>1, GetSUIDsStep
<1>5. /\ DOMAIN importJobs' = 1 .. n
      /\ \A i \in 1 .. n : /\ importJobs'[i] \in ImportJobs
                           /\ importJobs'[i].id = NthSUID(i)
                           /\ importJobs'[i].hasCompleted <=> ~PathFree(batch[i])
  <2>1. \A i \in 1 .. n : importJobs'[i] = [id |-> NthSUID(i), path |-> batch[i], ok |-> PathFree(batch[i]),
                                            hasCompleted |-> ~PathFree(batch[i])]
    BY <1>1, <1>3 DEF ImportJob
  <2>2. \A path : PathFree(path) \in BOOLEAN
    BY DEF PathFree, ProjectTypeOK
  <2>3. ASSUME NEW i \in 1 .. n
        PROVE  importJobs'[i] \in ImportJobs /\ importJobs'[i].id = NthSUID(i)
    <3> DEFINE free == PathFree(batch[i])
    <3>1. free \in BOOLEAN /\ (~free) \in BOOLEAN
      BY <2>2
    <3>2. NthSUID(i) \in SUID /\ batch[i] \in Paths
      BY <1>3, <1>4
    <3>3. importJobs'[i] = [id |-> NthSUID(i), path |-> batch[i], ok |-> free, hasCompleted |-> ~free]
      BY <2>1
    <3> HIDE DEF free
    <3> QED
      BY <3>1, <3>2, <3>3 DEF ImportJobs
  <2>4. ASSUME NEW i \in 1 .. n
        PROVE  importJobs'[i].hasCompleted <=> ~PathFree(batch[i])
    <3> DEFINE taken == ~PathFree(batch[i])
    <3>1. importJobs'[i] = [id |-> NthSUID(i), path |-> batch[i], ok |-> PathFree(batch[i]), hasCompleted |-> taken]
      BY <2>1
    <3>2. taken \in BOOLEAN
      BY <2>2
    <3> HIDE DEF taken
    <3>3. importJobs'[i].hasCompleted = taken
      BY <3>1
    <3>4. importJobs'[i].hasCompleted <=> taken
      BY <3>2, <3>3
    <3> QED
      BY <3>4 DEF taken
  <2> QED
    BY <1>1, <1>3, <2>3, <2>4
<1>6. importJobs' \in Seq(ImportJobs)
  <2>1. importJobs' = [i \in 1 .. n |-> importJobs'[i]]
    BY <1>1, <1>3
  <2> QED
    BY <1>3, <1>5, <2>1
<1>7. ProjectTypeOK'
  BY <1>1, <1>4, <1>6 DEF ProjectTypeOK
<1>8. RegistryExact'
  BY <1>1, <1>4 DEF RegistryExact
<1>9. ImportsApart'
  BY <1>1, <1>4, <1>5, <1>8 DEF ImportsApart, RegistryExact
<1>10. ImportsKept'
  <2> SUFFICES ASSUME "cleared" \notin excuse'
               PROVE  /\ \A s \in DOMAIN importing' : importing'[s] # "complete" =>
                            \E i \in 1 .. n : importJobs'[i].id = s
                      /\ \A i \in 1 .. n :
                            (importJobs'[i].hasCompleted /\ importJobs'[i].id \in DOMAIN importing') =>
                               importing'[importJobs'[i].id] = "complete"
    BY <1>5 DEF ImportsKept, Pending
  <2>1. \A s \in DOMAIN importing : importing[s] = "complete"
    BY <1>1
  <2>2. /\ DOMAIN importing' = DOMAIN importing \cup Inserted
        /\ \A s \in DOMAIN importing \cup Inserted :
              importing'[s] = IF s \in Inserted THEN "queued" ELSE importing[s]
    BY <1>1 DEF Put
  <2>3. \A i \in 1 .. n : NthSUID(i) \in Inserted <=> PathFree(batch[i])
    BY <1>3, <1>4
  <2>4. \A s \in Inserted : \E i \in 1 .. n : NthSUID(i) = s
    BY <1>3
  <2> HIDE DEF Inserted
  <2>5. ASSUME NEW s \in DOMAIN importing', importing'[s] # "complete"
        PROVE  \E i \in 1 .. n : importJobs'[i].id = s
    BY <1>5, <2>1, <2>2, <2>4, <2>5
  <2>6. ASSUME NEW i \in 1 .. n, importJobs'[i].hasCompleted, importJobs'[i].id \in DOMAIN importing'
        PROVE  importing'[importJobs'[i].id] = "complete"
    BY <1>5, <2>1, <2>2, <2>3, <2>6
  <2> QED
    BY <2>5, <2>6
<1>11. excuse \subseteq excuse' /\ ("reopened" \in excuse' => "reopened" \in excuse)
  BY <1>1
<1>12. OneProject'
  BY <1>1, <1>11 DEF OneProject
<1>13. FreedNotUsed'
  BY <1>1, <1>11 DEF FreedNotUsed, Uses, OneProject
<1>14. LoadsKept'
  BY <1>1 DEF LoadsKept
<1> QED
  BY <1>7, <1>8, <1>9, <1>10, <1>12, <1>13, <1>14

\* The job that is reported has completed, so that no worker touches it again.
LEMMA ImportPollStep == ASSUME ProjectInv, ImportPoll PROVE ProjectInv'
<1> USE DEF ProjectInv
<1>1. PICK i \in DOMAIN importJobs :
        /\ importJobs[i].hasCompleted
        /\ importJobs' = [k \in 1 .. Len(importJobs) - 1 |-> importJobs[IF k < i THEN k ELSE k + 1]]
        /\ IF importJobs[i].ok THEN Resolve(importJobs[i].id, importJobs[i].path)
           ELSE UNCHANGED <<entries, manager>>
        /\ Uses(~importJobs[i].ok \/ ~manager.registry \/ context)
        /\ UNCHANGED <<disk, project, context, async, loadJobs, loading, importing, excuse,
                       registered, counter>>
  BY DEF ImportPoll, suidVars
<1> DEFINE s == importJobs[i].id
           Kept(k) == IF k < i THEN k ELSE k + 1
<1>2. /\ importJobs \in Seq(ImportJobs)
      /\ Len(importJobs) \in Nat /\ DOMAIN importJobs = 1 .. Len(importJobs)
      /\ \A k \in DOMAIN importJobs : importJobs[k] \in ImportJobs
  BY DEF ProjectTypeOK
<1>3. s \in SUID /\ s \in registered
  BY <1>2 DEF ImportJobs, ImportsApart
\* The jobs that stay are the others.
<1>4. /\ DOMAIN importJobs' = 1 .. Len(importJobs) - 1
      /\ \A k \in DOMAIN importJobs' : Kept(k) \in DOMAIN importJobs \ {i} /\ importJobs'[k] = importJobs[Kept(k)]
      /\ \A k, l \in DOMAIN importJobs' : Kept(k) = Kept(l) => k = l
      /\ \A j \in DOMAIN importJobs \ {i} : \E k \in DOMAIN importJobs' : Kept(k) = j
  <2>1. DOMAIN importJobs' = 1 .. Len(importJobs) - 1
    BY <1>1
  <2>2. i \in 1 .. Len(importJobs)
    BY <1>2
  <2>3. \A k \in 1 .. Len(importJobs) - 1 : Kept(k) \in 1 .. Len(importJobs) /\ Kept(k) # i
    BY <1>2, <2>2
  <2>4. \A k, l \in 1 .. Len(importJobs) - 1 : Kept(k) = Kept(l) => k = l
    BY <1>2, <2>2
  <2>5. ASSUME NEW j \in 1 .. Len(importJobs), j # i
        PROVE  \E k \in 1 .. Len(importJobs) - 1 : Kept(k) = j
    <3>1. CASE j < i
      <4>1. j \in 1 .. Len(importJobs) - 1 /\ Kept(j) = j
        BY <1>2, <2>2, <3>1
      <4> QED
        BY <4>1
    <3>2. CASE ~(j < i)
      <4>1. j - 1 \in 1 .. Len(importJobs) - 1 /\ Kept(j - 1) = j
        BY <1>2, <2>2, <2>5, <3>2
      <4> QED
        BY <4>1
    <3> QED
      BY <3>1, <3>2
  <2>6. \A k \in 1 .. Len(importJobs) - 1 : importJobs'[k] = importJobs[Kept(k)]
    BY <1>1
  <2> HIDE DEF Kept
  <2> QED
    BY <1>2, <2>1, <2>3, <2>4, <2>5, <2>6
<1> HIDE DEF s, Kept
<1>5. importJobs' \in Seq(ImportJobs)
  <2>1. importJobs' = [k \in 1 .. Len(importJobs) - 1 |-> importJobs'[k]]
    BY <1>1
  <2>2. \A k \in 1 .. Len(importJobs) - 1 : importJobs'[k] \in ImportJobs
    BY <1>2, <1>4
  <2>3. Len(importJobs) - 1 \in Nat
    BY <1>2
  <2> QED
    BY <2>1, <2>2, <2>3
<1>6. \A k \in DOMAIN importJobs' : importJobs'[k].id # s
  BY <1>4 DEF ImportsApart, s
<1>7. \A t : t # s => (Pending(t)' <=> Pending(t))
  BY <1>4 DEF Pending, s
<1>8. Resolve(s, importJobs[i].path) \/ UNCHANGED <<entries, manager>>
  BY <1>1 DEF s
<1>9. /\ manager'.registry = manager.registry
      /\ manager' \in [registry : BOOLEAN, batch : BOOLEAN, assets : SUBSET SUID]
      /\ manager'.registry => manager'.assets = DOMAIN entries'
      /\ \A t, u \in DOMAIN entries' : entries'[t] = entries'[u] => t = u
      /\ DOMAIN entries' \subseteq DOMAIN entries \cup {s}
  BY <1>3, <1>8, ResolveEffect
<1>10. ProjectTypeOK'
  BY <1>1, <1>5, <1>9 DEF ProjectTypeOK
<1>11. RegistryExact'
  BY <1>1, <1>3, <1>9 DEF RegistryExact
<1>12. ImportsApart'
  BY <1>1, <1>4, <1>6, <1>9 DEF ImportsApart
<1>13. ImportsKept'
  <2> SUFFICES ASSUME "cleared" \notin excuse
               PROVE  /\ \A t \in DOMAIN importing : importing[t] # "complete" => Pending(t)'
                      /\ \A k \in DOMAIN importJobs' :
                            (importJobs'[k].hasCompleted /\ importJobs'[k].id \in DOMAIN importing) =>
                               importing[importJobs'[k].id] = "complete"
    BY <1>1 DEF ImportsKept
  <2>1. /\ \A t \in DOMAIN importing : importing[t] # "complete" => Pending(t)
        /\ \A k \in DOMAIN importJobs :
              (importJobs[k].hasCompleted /\ importJobs[k].id \in DOMAIN importing) =>
                 importing[importJobs[k].id] = "complete"
    BY DEF ImportsKept
  <2>2. s \in DOMAIN importing => importing[s] = "complete"
    BY <1>1, <2>1 DEF s
  <2> QED
    BY <1>4, <1>7, <2>1, <2>2
<1>14. OneProject'
  BY <1>1, <1>3, <1>8, ResolveKeepsProject
<1>15. FreedNotUsed'
  BY <1>1 DEF FreedNotUsed, Uses, OneProject
<1>16. LoadsKept'
  BY <1>1 DEF LoadsKept
<1> QED
  BY <1>10, <1>11, <1>12, <1>13, <1>14, <1>15, <1>16

\* Every step keeps the invariant.
LEMMA ProjectInvStep == ProjectInv /\ [ProjectNext]_projectVars => ProjectInv'
<1> SUFFICES ASSUME ProjectInv, [ProjectNext]_projectVars PROVE ProjectInv'
  OBVIOUS
<1>1. CASE UNCHANGED projectVars
  BY <1>1 DEF projectVars, suidVars, ProjectInv, ProjectTypeOK, RegistryExact, ImportsApart, LoadsKept,
              ImportsKept, OneProject, FreedNotUsed, Pending
<1>2. CASE ProjectStep
  <2>1. ASSUME NEW p \in Projects, Rejected(p) \/ Begin(p) PROVE ProjectInv'
    BY <2>1, RejectedStep, BeginStep
  <2>2. ASSUME NEW s \in SUID, Worker(s) PROVE ProjectInv'
    BY <2>2, LoadJobStep, ImportWorkerStep DEF Worker
  <2>3. CASE LoadUpdate \/ LoadFinished \/ Save \/ ImportPoll
    BY <2>3, LoadUpdateStep, LoadFinishedStep, SaveStep, ImportPollStep
  <2>4. ASSUME NEW path \in Paths, ImportSynchronous(path) PROVE ProjectInv'
    BY <2>4, ImportSynchronousStep
  <2>5. ASSUME NEW batch \in Batches, ImportBatch(batch) PROVE ProjectInv'
    BY <2>5, ImportBatchStep
  <2> QED
    BY <1>2, <2>1, <2>2, <2>3, <2>4, <2>5 DEF ProjectStep
<1> QED
  BY <1>1, <1>2 DEF ProjectNext

(***************************************************************************)
(* The invariant of loading and importing, whatever the projects, the      *)
(* batches and the order in which the editor and the workers take turns.   *)
(***************************************************************************)
THEOREM ProjectInvariant == ProjectSpec => []ProjectInv
<1>1. ProjectInit => ProjectInv
  BY ProjectInvInit
<1>2. ProjectInv /\ [ProjectNext]_projectVars => ProjectInv'
  BY ProjectInvStep
<1> QED
  BY <1>1, <1>2, PTL DEF ProjectSpec

(***************************************************************************)
(* Neither a worker nor the main thread uses a load job, an import job or  *)
(* a registry that was freed, but for the two excused cases.               *)
(***************************************************************************)
THEOREM FreedNotUsedCorrect == ProjectSpec => []FreedNotUsed
<1>1. ProjectInv => FreedNotUsed
  BY DEF ProjectInv
<1> QED
  BY <1>1, ProjectInvariant, PTL

(***************************************************************************)
(* The AssetManager holds exactly the registered assets, their paths       *)
(* differ, and the SUID reserved for an import is nobody else's.           *)
(***************************************************************************)
THEOREM AssetsMatchRegistryCorrect == ProjectSpec => []AssetsMatchRegistry
<1>1. ProjectInv => AssetsMatchRegistry
  BY DEF ProjectInv, RegistryExact, ImportsApart, AssetsMatchRegistry
<1> QED
  BY <1>1, ProjectInvariant, PTL

(***************************************************************************)
(* Saving never loses what a project's files held, unless a project was    *)
(* opened over another one.                                                *)
(***************************************************************************)
THEOREM FilesKeptCorrect == ProjectSpec => []FilesKept
<1>1. ProjectInv => FilesKept
  BY DEF ProjectInv, OneProject, Extends, FilesKept
<1> QED
  BY <1>1, ProjectInvariant, PTL
=============================================================================
