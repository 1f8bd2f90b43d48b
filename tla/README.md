# Ludens in TLA+

Specifications, model-checking runs and proofs for the parts of the Ludens
game framework (C++) where threads, ownership or long sequences of calls make
correctness hard to test. Paths are relative to the repository.

## The system

Ludens is a set of static libraries (`LDCore`, headers in `Include/Ludens`) with
three programs on top: the runtime (`LDRuntime`), the editor (`LDEditor`) and the
builder (`LDBuilder`). The process has one main thread that owns almost all
state, a pool of worker threads, the callback thread of the audio device, one
thread per pipe of a child process, and threads that read files.

| component | state | operations | talks to | what is hard | status |
|---|---|---|---|---|---|
| JobSystem (`LDCore/JobSystem`) | two ring buffers, `jobCounter`, `isRunning`, two mutexes and condition variables | `submit`, `wait_all`, `prioritize`, `shutdown`, the worker loop | asset loading, builder tasks, imports; calls job bodies | every interleaving; a full queue runs the job on the caller; notifications outside the mutex | modelled |
| TripleBuffer (`Include/Ludens/DSA`) | three slots, three indices, a dirty flag | `store` (main), `load` (audio) | pan and volume of a playback | two atomics that are not updated together | modelled |
| AudioSystem (`LDCore/AudioSystem`) | deferred destructions, playback pool, device | create, destroy, start, stop, pause, resume, set buffer, `update`, destructor | commands to the mixer; the Scene's cache | memory owned by one thread and used by the other; a bounded queue | modelled |
| AudioMixer, AudioBackend | command queue, list of playbacks, cursors, effects; `mAudioThreadAcquired` | `poll_commands`, `mix`, the callback | external miniaudio | order of commands; intrusive list; unsigned cursors | partly |
| IDRegistry (`Include/Ludens/DSA`) | generations, free list | `create`, `destroy` | component ids | generation against reuse | modelled |
| Transform2DRegistry (`LDCore/DataRegistry`) | levels of transforms, sparse array | create, destroy, reparent, invalidate | DataRegistry | swap-and-pop under a walk | modelled |
| DataRegistry | component tree, id maps, transforms | create, destroy, reparent, clone, duplicate | Scene, editor | three structures that must agree | partly |
| SUIDRegistry, SUIDTable (`LDCore/Serial`) | free serial identifiers; three maps | get, try, free; add, remove, rename | Asset, Scene, Project | maps that must stay a bijection | modelled |
| Scene (`LDCore/Scene`) | an active and a backup context; command queue | load, unload, backup, startup, cleanup, transition, script calls | DataRegistry, subsystems, editor | which context owns an identity or a handle | partly |
| EditorContext (`LDEditor`) | edit stack, play state, save mark | execute, undo, redo, save, play, stop, open, create | Scene, Project | undo must restore what redo needs | partly |
| Asset, Project (`LDCore/Asset`, `LDCore/Project`) | registry, load jobs, schema | load batch, `ProjectLoadAsync`, save | JobSystem, SUIDRegistry | jobs use what the main thread changes | partly |
| AssetImporter (`LDBuilder/AssetBuilder`) | import jobs | synchronous and batched import, poll | workers, AssetManager | check and use far apart | modelled |
| FileWatcher (`LDCore/System`) | inotify descriptors | `add_file`, `poll` | the kernel | events under a descriptor that is gone | modelled |
| PoolAllocator (`LDCore/Memory`) | pages, free lists, counts, owners | allocate, free, destroy, iterate | every registry | one header with two meanings | modelled |
| LinearAllocator | pages with a cursor | allocate, free | scene commands, parsers | padding across a page change | partly |
| RenderGraph, RenderSystem, RenderComponent | the frame's declarations; images that outlive it | add, connect, sort, record, submit | RenderBackend | order derived from pairs of uses; images re-created while recording | partly |
| the rest | - | - | - | - | not modelled, see the end |

What makes each of them correct:

* JobSystem: a job runs once, on one thread, and is counted once; `wait_all`
  returns, and only when every job has run; `shutdown` returns.
* TripleBuffer: the reader never sees half a value and never loses the last one.
* AudioSystem, AudioMixer: the callback never touches freed memory; the list of
  playbacks is exact; cursors stay in their buffer; destruction ends.
* IDRegistry, Transform2DRegistry, DataRegistry: tree, identifiers and transform
  levels describe the same components; an identifier is never handed out again.
* SUIDTable: identifiers, paths and names stay in bijection.
* Scene, editor: undo, redo, play and stop bring back exactly the scene that was
  there; identifiers and subsystem handles belong to a component or are free; the
  project is shown as saved only if it is.
* Asset, Project, AssetImporter: no job uses what was freed; assets and registry
  agree; saving loses nothing; loads and imports end.
* FileWatcher: a change of a watched file is called back.
* Allocators: no memory is handed out twice or lost; a walk shows all of it.
* RenderGraph, RenderSystem: passes are recorded in an order that respects what
  they read and write, with images that fit.

## Modules

| module | models | how state and actions correspond |
|---|---|---|
| `JobOrder` | what a queue of jobs promises | one slot is reserved; what `prioritize` permutes |
| `JobFifo` | abstract queue | `fifo`, its size, and what a call hands out |
| `JobQueue` | class `JobQueue` | same member names; `scan` holds the locals of a running `prioritize`, one step per iteration |
| `JobSystem`, `JobSystemProps` | `JobSystemObj`, `JobSystem::` | `queue` the two fifos; `sub[j]`, `exe[j]` the program points of `submit` and `execute_job` for job j; `wpc[w]` of worker w; `mpc` of main |
| `TripleBuffer` | `TripleBuffer<T>` | same member names; `wpc`, `rpc` program points; the rest is history |
| `AudioSystem`, `AudioSystemProps` | `AudioSystemObj`, `AudioMixerObj`, `AudioPlayback`, `AudioObject`, the device callback | `mCommands` the lock-free queue; `acquired` the objects whose flag is set; `memory` what the heap says; one action per public operation, per command handler and per playback mixed |
| `IDRegistry` | `IDRegistry` | same member names; a generation never wraps (40 bits) |
| `Transform2DRegistry` | `Transform2DRegistry` | a record with `mDepth` and `mSparse`, one operator per method |
| `DataRegistry`, `DataRegistryProps` | `DataRegistryObj`, `DataRegistry::` | `comp`, `children` the links; `op`, `work`, `doomed`, `copying` the locals of the running walk |
| `ComponentForest` | what the header of `DataRegistry` promises | an ordered forest, changed by whole operations |
| `SUIDRegistry` | `SUIDRegistry` | `registered`, and `counter`, where the search starts |
| `SUIDTable` | `SUIDTable` | the three maps |
| `Scene` | `SceneObj`, `SceneContext` | `active`, `backup` the contexts, `indices` the shared runtime identifiers, `handles` the draws, playbacks and cameras |
| `EditHistory` | what an editor promises | a document, its versions, the copy on disk, the save mark |
| `Editor`, `EditorProps` | `EditStack`, `EditCommand`, `EditorContext` | `commands`, `index`, `lastSavedEditIndex` as in the code; `versions`, `excuse`, `unsound` are history |
| `ProjectLoad` | `Project`, `AssetRegistry`, `AssetManager`, `ProjectLoadAsync`, `AssetImporter` | `loading`, `importing` the stage of each job on the workers; `async` the status of the load |
| `FileWatcher` | `FileWatcherLinux.cpp` and inotify | `queue` the kernel's events, `watchers` our descriptors, `polling`, `buf`, `fileHashes` the locals of `poll` |
| `RenderGraph` | `RGraph.cpp` | declarations one call a step; `visited`, `stack`, `passOrder` the sort; `storage` the images kept between frames |
| `RenderSystem` | `RenderSystem.cpp`, what `RenderComponent` declares | `todo` the graph calls that a pass method still makes |
| `PoolAllocator` | `PoolAllocatorObj` and its iterator | `freeBlocks`, `freeBlockCount`, `owned` of each page; `client` what callers hold |
| `SceneCommands` | `SceneCommandQueue` on `LinearAllocator` | `pageList` the cursors, `commands` where each command was made |
| `*Proofs` | - | the theorems: `JobSystemProofs`, `AudioProofs` (AudioSystem, TripleBuffer), `DataRegistryProofs`, `DataRegistryForestProofs` (its refinement), `EditorProofs` (Editor, Scene), `EditorHistoryProofs` (its refinement of EditHistory), `CoreProofs` (JobQueue, PoolAllocator, SceneCommands, SUIDTable, FileWatcher, ProjectLoad with SUIDRegistry), `RenderProofs` (RenderGraph, RenderSystem) |
| `MC*` | - | instances; `MCParts` and `MCFair` put components that share nothing into one state graph: `part`, chosen at the start, is the one that runs, and the others keep their first state |

Composition: `JobSystem` stands on the fifo that `JobQueue` implements;
`DataRegistry` on `IDRegistry` and `Transform2DRegistry`; `Editor` extends `Scene`,
which extends `SUIDRegistry`; `ProjectLoad` extends `SUIDRegistry` and takes from
`JobSystem` what is proved there; `RenderSystem` extends `RenderGraph`. The audio
system is main thread and callback in one module. Three abstract specifications
(`JobFifo`, `ComponentForest`, `EditHistory`) are implemented by detailed ones.

### JobSystem

One step per access to shared state: `submit` is an enqueue, a `fetch_add` and a
notification; `wait_all` a notification, a poll, the mutex, the predicate and the
sleep. The two queues are read in one step where the code tests them one after the
other (`JobSystem.cpp:195`, `:242`); both tests are of the form "not both empty" and
are repeated. A job that does not fit is executed by the submitter (`SubmitInline`),
which may itself be a job body: the nesting needs no stack because a caller is
blocked exactly while one of its submissions is pending (`Free`). A mutex is free
when no thread stands at a step that holds it; condition variables wake spuriously.
`jobCounter` is an integer; a negative value stands for the wrapped `size_t`, which
is not zero either.

### TripleBuffer

Two steps for the copy of the data make a concurrent read visible as `Torn`.
Steps are sequentially consistent. The orders the code names are weaker, but an
`exchange` is a full fence on x86-64, for which the project is built.

### AudioSystem

The client follows the discipline of its only user, `AudioSystemCache.h:19` and
`AudioSourceComponent`: a handle is not used after it is destroyed and a buffer is
destroyed after the playbacks that play it. Commands go through a bounded queue;
like the code, no sender looks at the result. Touching freed memory takes the audio
thread to `"undefined"`, after which nothing is said. The queue itself is external
(readerwriterqueue) and is the single-producer single-consumer fifo the code uses
it as. Effects are left out, because only the mixer's tests create them.

### DataRegistry

No two calls overlap, but each is a walk that leaves three structures half updated
between iterations: the links, the identifiers and the packed levels of transforms.
The model takes one step per iteration and carries the locals of the walk: the
breadth-first queue of the transforms (`work`), and the call stacks of
`destroy_subtree` (`doomed`) and `duplicate_subtree` (`copying`). `FreeComponent`
leaves the lists of the parent alone, as the code does; reading `child->next` after
the child was freed (`DataRegistry.cpp:361`) is modelled as the links staying as
they are, which is what the pool leaves in a block that nothing has allocated since.

A transform is named by the component it was allocated for and a world matrix is the
sequence of the transforms multiplied into it, so `WorldFollowsTree` compares what
the pass over the levels computes with the path in the tree.

Two assumptions are about callers. With `MixedTrees = FALSE` a component with a
transform is at the top or below another one; nothing in the code enforces it, and
`data_registry_mixed` shows what happens otherwise. A component is never put below
itself (`p \notin Subtree(i)`): the editor and the scene reparent components that
they have just created at the top. `ImplementsForest` maps the state between the
steps to a forest: a subtree disappears when it is detached, a copy appears,
complete, when it is placed.

### Scene and editor

The operations run on the main thread, one step each; what is hard is their order.
A component is the index of its runtime identifier with its serial identifier and
one `Data` for everything it shows, and it holds one subsystem handle. `Document` is
what the user sees: how many components of each path, whatever their identifiers.
Commands are kept as the code keeps them: with the serial identifiers, runtime
identifiers and paths they captured, which later commands may make stale.

Where the program does not keep its promise, the step is allowed and named in
`excuse`; each property says which names excuse it:

| excuse | what happened |
|---|---|
| `played` | edit, undo, save or change of scene while the copy plays |
| `reissued` | a serial identifier was handed out that a component still has |
| `recreated` | redo of an add or a clone gave the component a new serial identifier |
| `astray` | undo or redo of a clone hit another component |

`unsound` is set when the saved version is cut off the stack; the mark can then come
back to its index with another document. A failed assertion ends the program: the
step changes nothing but `crashed`, and the excuses say what it was due to. The
assertions are those of the commands, of the loader, of the clone (no copy has the
identifier of its source, `Scene.cpp:482`, `CopiesDiffer`) and of the reset before a
load (no backup, `Scene.cpp:618`, `ResetAsserts`). The last one fails when a scene is
opened or created while the copy plays, because `unload` leaves the backup. The one
of the clone fails after a stop or a failed start, when `get_suid` hands out an
identifier that `unload` freed and a component of the edited scene still has; a step
is excused as `reissued` only if it does that (`ReissuedByClone`).

### Project

Everything but the jobs is one step per handler or per `EditorContext::update`; a job
is three steps (execute, complete, return), because `on_asset_load_complete` clears
the flag before the worker's last access. Excuses: `trapped` (a schema that is
rejected ends the program), `reopened` (a project opened over another one),
`cleared` (an import batch begun while the previous one runs), `overtaken` (a
project load took the identifier reserved by an import).

### FileWatcher

Between any two steps other programs write, replace, remove and create files. The
kernel's side is a model of inotify: equal events in a row are merged, a full queue
takes one overflow event, a removed inode drops its watch. `lost` records what the
code admits to dropping.

### RenderGraph and RenderSystem

Declarations are applied call by call; the sort takes one step per visit with the
choice of the next pass left open, because the code walks hash sets and hash maps. A
physical image is its handle, the usages it was created for, its size and its layout.
`RenderSystem` makes exactly the calls of the pass methods. `forward` records that
images are connected only to components added later, which all callers do.

### Allocators

Blocks and bytes are numbers, not addresses. In `PoolAllocator` the header that is a
free-list link or a page pointer becomes three records that must agree. A caller
frees a block once, and not during a walk. `SceneCommands` counts in units of eight
bytes; the real commands are of 40, 88, 88 and 160 bytes in pages of 1024 with an
alignment of 16. `fullPage` records that a command was made when the last page was
exactly full.

## Runs

| run | checks | instance and why it is enough |
|---|---|---|
| `parts` | 18 properties of eight components, below | one of the eight at a time |
| `fair` | `PlaybackListExact`, `DestructorReturnsUnlessLost`; `FreedNotUsed`, `AssetsMatchRegistry`, `FilesKept`, `LoadEnds`, `ImportsReported` | audio: 2 playbacks (unlink the head, the tail, the only one), 1 buffer, a queue of 2. project: 3 projects of which each two share a scene, an asset identifier or a path; batches of two paths and of one path twice; 4 identifiers |
| `jobsystem_flat` | `JobInOnePlace`, `RunsOnce`, `WaitAllComplete` | 4 jobs from main over both queues, 2 interchangeable workers, 2 types, both prioritized |
| `jobsystem_live` | `TypeOK`, `CounterBalanced`, `WaitAllTerminates` | 3 jobs, one submitted by a job body, queues with room for one job: overflow on main and inside a job |
| `audio_ownership` | `NoTouchUnlessEarly`, `AcquiredIsLive`, `CursorInBuffer` | buffers of 1 and 2 frames with a period of 2 (one ends inside a period, one with it), 1 playback, 2 pending commands: the queue overflows |
| `editor` | `SUIDsAccounted`, `IndexOwnedOnce`, `HandlesAccounted`, `CrashExcused`, `CleanMeansSaved`, `ImplementsHistory` | every session of 6 operations over a parent and a child, 3 components, 2 scenes on disk, 5 identifiers: do, undo, redo, save, play and stop in any order |
| `jobsystem_wait` | `WaitAllComplete` is violated | 3 jobs, one nested |
| `jobsystem_shutdown` | `ShutdownTerminates` is violated | 3 jobs, 2 workers |
| `audio_free` | `NoTouchAfterFree` is violated | 1 buffer |
| `data_registry_mixed` | `EntriesBelong` is violated | 3 indices, mixed trees |
| `editor_redo` | `RedoFindsComponents` is violated | as `editor` |
| `scene_commands` | `CommandsPlaced` is violated | as the commands of `parts` |

The parts of `parts`:

| part | properties | bounds |
|---|---|---|
| queue | `ImplementsFifo` | 4 slots, 3 jobs of 2 types: full, empty, every rotation, `prioritize` across the wrap |
| triple | `ReadsWhole`, `LatestUnlessOverlap`, `LastStoreKept` | 5 stores: more than the 3 slots, so every permutation of the indices occurs |
| registry | `SparseMatchesDense`, `EntriesBelong`, `WorldFollowsTree`, `TreeExact`, `NeverReissued`, `ImplementsForest` | 4 indices, 4 components created and 2 destroyed: chains of 3 levels with siblings, a hole in the middle of a level, a clone of a parent with its child, a reused index |
| watch | `NoChangeMissed` | 2 files, 4 changes by others, a kernel queue of 3 events, reads of 2: reads split, the queue overflows, files are replaced twice |
| table | `TableConsistent` | 2 identifiers; two paths with one stem, one path of another, the empty one |
| render | `OrderRespectsEdges`, `DrawnInOrder`, `ImagesFit` | 2 frames, any of the 2 windows, 2 sizes: images are reused, grown by a usage and re-created |
| pool | `PoolExact`, `WalkExact` | 3 pages of 2 blocks: full, partly full and empty pages in every order |
| commands | `CommandsApart` | 5 commands of 1, 3 and 4 units in pages of 8: padded, exactly full and new pages |

`editor` stops at its bound on the length of a session, hence `CHECK_DEADLOCK FALSE`;
every other passing run checks for deadlock. Every property of a passing run is
broken by a mutant of the code's actions, kept beside the original definition and
marked `Mutant:`.

What the violations show:

* `jobsystem_wait`: `submit` enqueues before it counts (`JobSystem.cpp:253-255`).
  With a job submitted by a job body, which `JobSystem.h:32` allows, a worker takes the
  new job, runs it and counts it down while its parent is still inside `submit` and has
  not counted it. The count this uses up is the parent's: the counter is zero while the
  parent is unfinished, and `wait_all` returns. Without nested jobs it does not happen:
  `WaitAllSound` is that theorem.
* `jobsystem_shutdown`: the destructor clears `isRunning` and notifies without
  `wakeMutex`. A worker between the predicate and the sleep is never woken.
* `audio_free`: a buffer destroyed in the frame it was created in, before the
  callback ran, is freed at the next `update` with both its commands queued.
* `data_registry_mixed`: a subtree whose root has no transform is destroyed without
  looking for transforms below it (`DataRegistry.cpp:580`). The entry of a 2D child
  stays in its level under a released identifier, whose index is handed out again.
* `editor_redo`: add a component, rename it, undo twice, redo twice. The first redo
  gives it a new serial identifier (`EditCommand.cpp:247`), so that the second one
  fails `LD_ASSERT(comp)`.
* `scene_commands`: `allocate_aligned` applies to a new page the padding it computed
  for the old one, and treats an exactly full page as an empty one
  (`Allocator.cpp:94`, `:136`). Today's only user outside the scene enqueues one
  command per poll, which never fills a page.

Smaller disagreements met while modelling, without a run of their own:

* JobSystem: a full queue runs a job body on the main thread (`JobSystem.h:20` says
  worker; the TODO at `JobSystem.cpp:262` knows); jobs still queued at `shutdown` are
  never executed.
* `TripleBuffer::load` can go back to the previous value when a load ran between the
  two atomics of a store (hence `LatestUnlessOverlap`).
* The audio destructor does not hang on a buffer that was never destroyed, as its
  comment says, but leaks it; it hangs on one whose destroy command the full queue
  refused.
* Editor: undo of a clone after the undo of a delete can destroy another component
  (`EditCommand.cpp:391`); the save mark is wrong once the saved version was cut off
  the stack; play and stop, or a start that fails, unloads the copy and frees the
  identifiers that it shares with the edited scene (`Scene.cpp:703`, `:726`), so that
  `get_suid` hands them out again: open a scene, play, stop and clone the
  component with the lowest identifier, and the copy gets the identifier of the component itself, which fails
  `LD_ASSERT(srcBase->suid != dstBase->suid)` (`Scene.cpp:482`; in `CrashExcused` this
  is the excuse `reissued`); a scene opened or created while the copy plays ends the program, or
  leaves the backup behind in a build without assertions (`Scene.cpp:618`).
* Project: opening a second project destroys the registry that the context goes on
  using; a failed import never frees the asset it reserved (`AssetManager.h:105`
  says it should); a second import batch frees jobs that still run.
* RenderGraph: `connect_image` uses `operator[]` and thereby enters a colour
  attachment for passes that do not use the image; connecting images both ways then
  gives spurious edges and cycles. Connecting an image before its use traps. Depth
  and storage uses add no edges within a component, and the consumers of one image in
  several components are not ordered among each other. Connecting the downstream end
  first loses usage flags. `record_compute_pass` overwrites its local `comp`. A
  dialog window acquired without `editor_dialog_pass` has no image to present.
  Releasing the graph leaves `sStorages` dangling.
* `LinearAllocator`: the destructors of commands are never called.

### Fairness

`JobSystem`: every thread is scheduled (weak fairness of each job's and each worker's
steps, of main inside a call), callbacks return, and a thread that waits for a mutex
which is released again and again gets it (strong fairness of `WorkerLock` and
`SignalWaitAll`). Main is not obliged to call anything, and no sleeper is obliged to
wake without a notification.

`AudioSystem`: a device, when there is one, keeps calling back and its callbacks
progress; the destructor, once called, continues; stopping the device succeeds
between two callbacks (strong fairness of `DestructorEnds`). The client makes no
promise.

`ProjectLoad`: the workers run each job they have, and the main loop keeps calling
`EditorContext::update`, which is `LoadUpdate`, `LoadFinished` and `ImportPoll`. The
user makes no promise. In `fair` the project runs without an audio device, so that
the fairness of one part asks nothing of the other.

## Proofs

All theorems are for every value of the constants that satisfies the assumption the
module of the component names (`ProjectConstants`, `WatchConstants`, ...), and those
say what the code takes for granted: finite sets of names, capacities that are
positive, distinct markers. Each theorem rests on an inductive invariant, given here
with the reason it is needed.

* `JobSystemProofs` (any jobs, workers, nesting, dispatch, types, capacities).
  `TypeCorrect`, one step per action; that a ring keeps its empty slot (`QueuesFit`)
  rests on the test for room before each enqueue. `PlacementCorrect`: `JobInOnePlace` is
  inductive given the types, because it ties the queues to `sub` and `exe`, and the
  workers' `held` to `exe`. `RunsOnceCorrect` from placement: a job that is dequeued
  has not started. `CounterCorrect` by cardinality of the sets of jobs counted and
  counted down. `WaitAllSound`, with `NestedJobs = {}`: when main tests the counter
  it is in no `submit`, so every job submitted is counted; a counter of zero leaves
  no job unfinished.
* `CoreProofs`, the queue (any capacity, jobs and types). `QueueImplementsFifo`: the ring
  buffer refines `JobFifo`, initial states and every step. `QueueInv` relates the
  indices and the counter to the contents; while a `prioritize` runs it says that the
  slots hold the old contents permuted: first what was promoted, in the old order,
  then what was looked at and stays, then what the scan has not reached. The last
  iteration is therefore the one abstract step, and the others stutter.
* `AudioProofs`. For `TripleBuffer` (any number of stores), `TripleInv` says the
  three indices are a permutation, that only the writer's slot may be torn, and where
  the newest value is, depending on both program points; the three properties follow.
  For the audio system (any buffers, playbacks, frames, periods and queue sizes)
  `AudioInv` is inductive by itself and yields `PlaybackListExact`, `AcquiredIsLive`
  and `CursorInBuffer`. `NoTouchUnlessEarly` needs more: `Ownership` says in which
  order the queue holds the commands about a buffer (it is created before anything
  names it, nothing names it after its destruction, and each playback that plays it is
  detached or destroyed first) as long as no buffer was destroyed early and none of
  the commands this depends on was refused. Both exceptions are the ones the property
  names, and the runs show that the code reaches them.
* `DataRegistryProofs` (any indices and parents).
  `NeverReissuedCorrect` needs `IDInv`: that no identifier comes back is a fact about
  the past, so it says of every identifier ever handed out that its generation is below
  the current one of its index unless that index is in use; this in turn needs that an
  index is free at most once and not while in use (`IdentitiesCorrect`). The walks do
  not disturb it.
  `TreeExactCorrect` needs `TreeInv`, which describes the links in the middle of a
  walk: a list of children names only the living, except in the frames that
  `destroy_subtree` is taking down; each frame of `doomed` is a child of the frame
  below it; the frames of `copying` are live and have copied no more of a list than it
  has. That nothing becomes its own ancestor when a component is reparented is an argument about
  sets closed under children: the new parent is not in the subtree, so a cycle would
  have existed before.
  `SparseCorrect` and `EntriesBelongCorrect` are for `MixedTrees = FALSE`; without it
  `EntriesBelong` is false (`data_registry_mixed`). `TransformInv` is built on lemmas
  about the packed levels (what `Push`, `Pop`, `Reserve` and the moves of
  `Transform2DRegistry` return) and describes the destruction of a subtree of
  transforms: the ones popped grow from the top down (`PoppedFromTop`), the queue is
  what hangs from them, so an empty queue means that the whole subtree was popped;
  from then on the components without an entry are those still to be freed, and each
  freed leaf removes one (`MissingFreed`).
  `WorldFollowsTreeCorrect`, again for `MixedTrees = FALSE`, compares two recursive
  computations: the pass over the levels, and the path through the tree. `LevelsInv` is
  the invariant: a transform is on level 0 below the root and else one level below its
  parent, which its entry names (`HangsRight`), except those that `reparent_subtree` has
  in its queue; and what is in the queue hangs from a transform (`WorkBelow`). So a move
  repairs one entry and makes exactly its children wrong, which the same step puts into
  the queue. That the recursive functions and the fold exist and satisfy their equations
  is proved by counting up (`StepsExist`, `FoldExists`), without the induction theorems;
  the pass is then right level by level, and within a level entry by entry
  (`PassFollows`). That the path is complete needs that there are no more levels than
  indices, a pigeonhole argument (`LevelsBounded`).
* `DataRegistryForestProofs`. `ForestImplemented`: the loops together refine
  `ComponentForest`, for any indices and parents. `ForestInv` adds to `TreeInv` what ties a copy to its original: there is a map
  from the components copied so far to their copies that keeps type, parent and position
  (`CopyMade`); the copy is the last child of its parent until it is placed
  (`CopyUnplaced`), and all that is being taken down hangs from the bottom frame
  (`DoomedBelow`). A subtree is used only as the least set closed under children, so no
  induction over the tree is needed. `CreateComponent`, `Reparent`, the detaching step of
  a destruction and `PlaceClone` are the abstract operations; the other steps (starting
  a walk, popping a transform, descending, freeing, moving a transform, copying a child,
  returning) change nothing that is visible and stutter.
* `EditorProofs` (any first scene whose entries have distinct identifiers and come
  parents first, any data and identifiers, sessions of any length):
  `SUIDsAccountedAlways`, `IndexOwnedOnceAlways`, `HandlesAccountedAlways`, from
  `EditorInv`. Its conjuncts: both contexts are forests whose maps of serial
  identifiers lead to living components, and their indices are disjoint from each other
  and from the free list (`SceneOK`); a delete command and a file hold entries that can
  be built again, parents first (`CommandsOK`, `FilesOK`), since undo and open attach
  them; while the copy plays there is a backup, or stop would leave nothing to edit
  (`PlayOK`); the map is exact until an identifier is issued twice, for which the
  entries kept in commands must not repeat one either (`AllFound`); and what is
  registered belongs to the scene edited, not to the copy, until something is done
  while the copy plays (`AllRegistered`). A step gives back the indices, identifiers and
  handles of a subtree by three walks over it. That they are of the same components
  is a fact about the recursive `DepthFirst`: `DepthFirstFacts` says that it lists
  each component below its start once, and no other. It is proved without the induction
  theorems: the depth that makes a context a forest is a measure on its components, and
  a counterexample of greatest depth refutes itself.
* `EditorHistoryProofs`, for the same sessions. `HistoryImplemented`: the editor refines
  `EditHistory`, whose steps replace whole documents. A document says what the components
  show and how they hang together, and not under which identifiers; a command is done,
  undone and redone by identifiers, and what it creates may get another one each time.
  The proof puts between them the shape of a scene, a function from serial identifiers
  to what the component shows and the identifier above it. Two scenes of one shape have
  one document, and so have two shapes that differ in the names of components only
  (`Pictures`, `PicturedOnce`). `Relates` says of a command what it changes in a shape,
  each way, and `Names` which component it created. `ShapedInv`: there are shapes for
  the versions on the stack, such that each command relates its two, and knows what it
  created if it is not undone. Undo therefore leads to the shape before the command; redo
  may lead to a shape with another name for what is created, of the same document
  (`RelatesOnce`). That redo finds the clone's source at the path that was recorded
  needs that different components have different paths. A scene has a shape only if each
  component has an identifier, and what was deleted or saved comes back only if each
  entry has one of its own: `NamedInv`, which holds until a script creates a component
  without. All these hold together with `CrashExcused`, since an assertion that fails
  leaves no history: `CrashExcusedAlways`. In it the reset of the loader is never met with a
  backup unless the copy played, and a copy gets the identifier of its source only where
  `get_suid` would hand out one in use (`CopiesApart`). From the refinement follow
  `HistoryAtVersion`, the document is the version at the index, and
  `CleanMeansSavedAlways`: the mark of the last save is right. `PathTo` is a recursive
  function so that its equation can be proved (by depth, as above).
* `CoreProofs`, the assets. `TableCorrect`: `TableConsistent` of the table of serial identifiers
  is inductive. `NoChangeMissedCorrect` (any files, changes and sizes of the kernel's
  queue): `WatchInv` follows a change from the inode to the callback. A descriptor is
  used for one file only; a file that lost nothing is watched under the descriptor its
  watcher knows, or the end of that watch is still in the queue or in the buffer; and a
  change is about to be called back, or an event under the current descriptor is
  unhandled. For the project (any projects,
  assets and paths) `ProjectInv` yields `FreedNotUsed`, `AssetsMatchRegistry` and
  `FilesKept`: it says which jobs can run in which status of the load, that the
  registry holds what the loaded projects and the imports registered, and that
  imports running at once hold different identifiers. The last needs a fact about
  `get_suid`: from one counter, n calls return n different free identifiers, proved by
  ranking the identifiers from the counter on (`WalksApart`).
* `RenderProofs`. `OrderCorrect` (any passes, images and calls): every edge rises in
  the order of declaration (component first, then pass), as long as connections go
  forward; the stack rises along edges; a visited target of the top of the stack is
  therefore finished, and finished passes are preceded by all they reach
  (`FinishedCovers`). The order is the reverse, so it follows from `GraphInvariant`.
  `DrawnInOrderCorrect` (any number of frames, extents and windows, and whichever
  methods are called or return early): `FrameInv` gives each component, pass and
  connection the phase of the frame in which it is declared, and says that the calls
  still to make come in the order of the phases (`TodoInv`), that a part of a phase is
  declared only when nothing of an earlier one is left (`DoneInv`, `RankInv`), and that
  uses and connections are those of two tables (`UseInv`, `LinkInv`). So connections go
  forward, and a connection, which only looks at the uses declared so far, sees them
  all: `EdgesInv`. Two names of one image are equal, connected, or connected through the
  image of the screen, whose pass is then between the two passes.
* `CoreProofs`, the allocators. `PoolCorrect`: besides `PoolExact`, the count of a page is its
  size less the owned blocks. `WalkCorrect`: what the iterator has left to count is
  the number of owned blocks still to come on its page (`WalkInv`), so it never runs
  off and stops at the last one. `CommandsStayApart`: each command lies in the used
  part of its page, and the commands of a page follow one another.

Only model-checked: liveness, and of the render system `ImagesFit`. Liveness under
fairness, `ENABLED`, and induction over data (what a document of any size contains) are
out of the prover's reach.

## Not modelled

Most lines of the repository are vendored third-party code (`Extra`: stb, luajit,
doctest, glad, rapidjson), which stays outside; what is external is modelled only where
the code uses it, as the device callback, the lock-free queue and inotify are. Of the
repository's own code, the models cover the parts above; the rest is left out because
nothing in it goes wrong by order or by sharing:

* RenderBackend: object creation and recording for the Vulkan driver; its state is
  in the driver. What components draw is GPU work.
* Asynchronous files and child processes: one status cell each, written by one
  thread; what can go wrong is in the system calls.
* Network: an asynchronous library's sockets and the parsing of messages; no program
  of the repository opens a connection. (Two overlapping sends would interleave.)
* Lua, LuaScript: bindings to an external interpreter. What scripts do to a scene is
  in `Scene`.
* UI, text, gizmo, camera, editor windows: layout and drawing.
* Containers, readers and writers of formats, lexer, DSP, log, profiler, command
  line: sequential, and covered by their unit tests.
* Program drivers of the builder: one step after another.

Left out of modelled components: effects of the mixer; `duplicate` into another
component registry and lookups by path; transitions whose load or startup fails;
renaming a scene of a project and the editor's queue of events; the loaders of each
asset type and the watching of asset files; the single-page `LinearAllocator`;
multi-sampled twins of images, formats, samplers and barriers.
