---------------------------- MODULE ProjectLoad -----------------------------
(***************************************************************************)
(* Opening a project in the editor and importing assets into it: the one   *)
(* ProjectContext (Project, AssetRegistry and SUIDRegistry), AssetManager, *)
(* ProjectLoadAsync and AssetImporter of the main thread, and the jobs     *)
(* they hand to the worker threads.                                        *)
(*                                                                         *)
(* Everything but the jobs runs on the main thread, one handler or one     *)
(* call of EditorContext::update per step.  The JobSystem is what JobSystem*)
(* proves of it: each job runs once, and wait_all returns when all have.   *)
(* A scene stands for its SUID and path, an asset of a file is its SUID.   *)
(***************************************************************************)
EXTENDS SUIDRegistry, Sequences

CONSTANTS
    Projects,   \* project files
    File,       \* File[p]: the scenes and the assets (a path for each SUID) of p
    Paths,      \* asset paths
    Batches,    \* the batches of paths imported asynchronously
    NoProject

ASSUME ProjectConstants ==
    /\ NoProject \notin Projects
    /\ DOMAIN File = Projects
    /\ \A p \in Projects : DOMAIN File[p].entries \subseteq SUID
    /\ \A batch \in Batches : batch \in Seq(Paths)

VARIABLES
    disk,       \* the scenes and entries in the files of each project
    project,    \* Project: the path of its schema and its scenes
    entries,    \* AssetRegistry: the path of each registered asset
    context,    \* is the AssetRegistry of the context live
    manager,    \* AssetManager: is a registry set, mInLoadBatch, mAssets
    async,      \* projectLoadAsync: none, or its status
    importJobs, \* AssetImporterObj::importJobs
    loadJobs,   \* AssetManagerObj::mLoadJobs, each by the SUID of its asset
    loading,    \* stage of the load jobs the workers still have
    importing,  \* stage of the import jobs the workers still have
    excuse,     \* what the editor did that the properties exclude
    undefined   \* freed memory was used

projectVars == <<disk, project, entries, context, manager, async, importJobs, loadJobs,
                 loading, importing, excuse, undefined, suidVars>>

NoJobs == [s \in {} |-> "none"]
Put(jobs, S, stage) == [s \in DOMAIN jobs \cup S |-> IF s \in S THEN stage ELSE jobs[s]]
Gone(jobs, s) == [t \in DOMAIN jobs \ {s} |-> jobs[t]]
InProgress == {s \in DOMAIN loading : loading[s] \in {"queued", "executed"}}

ProjectInit ==
    /\ SUIDInit
    /\ disk = File
    /\ project = [path |-> NoProject, scenes |-> {}]
    /\ entries = NoJobs
    /\ context = TRUE
    /\ manager = [registry |-> FALSE, batch |-> FALSE, assets |-> {}]
    /\ async = "none"
    /\ importJobs = <<>>
    /\ loadJobs = {}
    /\ loading = NoJobs
    /\ importing = NoJobs
    /\ excuse = {}
    /\ undefined = FALSE

Uses(live) == undefined' = (undefined \/ ~live)

PathsOf(E) == {E[s] : s \in DOMAIN E}
Merge(E, F, S) == [s \in DOMAIN E \cup S |-> IF s \in S THEN F[s] ELSE E[s]]

\* The entries of the files of p that cannot be registered: their SUID or path
\* is in use, or the files name the path twice.
Clashes(p) ==
    LET F == disk[p].entries IN
    {s \in DOMAIN F : \/ s \in DOMAIN entries \/ F[s] \in PathsOf(entries)
                     \/ \E t \in DOMAIN F \ {s} : F[t] = F[s]}
-----------------------------------------------------------------------------
(* ProjectLoadAsync::begin.                                                *)

\* The schema of the project or of its assets is missing, of another version,
\* or clashes with what is registered: LD_DEBUG_BREAK ends the program.
Rejected(p) ==
    /\ async = "none"
    /\ excuse' = excuse \cup {"trapped"}
    /\ UNCHANGED <<disk, project, entries, context, manager, async, importJobs, loadJobs,
                   loading, importing, undefined, suidVars>>

\* The schemas are accepted.  swap_asset_registry unloads the assets; the
\* registry it returns is the context's own when a project was open, and
\* begin destroys it.
Swapped(p, table) ==
    /\ async = "none"
    /\ disk[p].scenes \cap project.scenes = {}
    /\ Clashes(p) = {}
    /\ project' = [path |-> p, scenes |-> project.scenes \cup disk[p].scenes]
    /\ entries' = table
    /\ TrySUIDs(DOMAIN disk[p].entries)
    /\ manager' = [registry |-> TRUE, batch |-> TRUE, assets |-> DOMAIN table]
    /\ loadJobs' = DOMAIN table
    /\ loading' = Put(loading, DOMAIN table, "queued")
    /\ context' = (context /\ ~manager.registry)
    /\ async' = "loading"
    /\ excuse' = excuse \cup (IF manager.registry THEN {"reopened"} ELSE {})
                        \cup (IF importJobs # <<>> THEN {"overtaken"} ELSE {})
    /\ Uses(context)
    /\ UNCHANGED <<disk, importJobs, importing>>

\* Mutant: the entries are dropped with the assets that are unloaded.
BeginUnregisters(p) == Swapped(p, NoJobs)

Begin(p) == Swapped(p, Merge(entries, disk[p].entries, DOMAIN disk[p].entries))

(***************************************************************************)
(* The workers.  A load job reads its entry and its record; on completion  *)
(* jobInProgress is cleared first, jobProgress then stored.                *)
(***************************************************************************)
LoadExecutes(s) ==
    /\ s \in DOMAIN loading /\ loading[s] = "queued"
    /\ loading' = [loading EXCEPT ![s] = "executed"]
    /\ Uses(context /\ s \in loadJobs)
    /\ UNCHANGED <<disk, project, entries, context, manager, async, importJobs, loadJobs,
                   importing, excuse, suidVars>>

\* Mutant: the job is still marked in progress when it is counted down.
LoadCompletesSilently(s) ==
    /\ s \in DOMAIN loading /\ loading[s] = "executed"
    /\ Uses(s \in loadJobs)
    /\ UNCHANGED <<disk, project, entries, context, manager, async, importJobs, loadJobs,
                   loading, importing, excuse, suidVars>>

LoadCompletes(s) ==
    /\ s \in DOMAIN loading /\ loading[s] = "executed"
    /\ loading' = [loading EXCEPT ![s] = "complete"]
    /\ Uses(s \in loadJobs)
    /\ UNCHANGED <<disk, project, entries, context, manager, async, importJobs, loadJobs,
                   importing, excuse, suidVars>>

LoadReturns(s) ==
    /\ s \in DOMAIN loading /\ loading[s] = "complete"
    /\ loading' = Gone(loading, s)
    /\ Uses(s \in loadJobs)
    /\ UNCHANGED <<disk, project, entries, context, manager, async, importJobs, loadJobs,
                   importing, excuse, suidVars>>

Pending(s) == \E i \in DOMAIN importJobs : importJobs[i].id = s

\* An import may fail on its source or its destination file.
ImportExecutes(s) ==
    /\ s \in DOMAIN importing /\ importing[s] = "queued"
    /\ importing' = [importing EXCEPT ![s] = "executed"]
    /\ \E ok \in BOOLEAN :
          importJobs' = [i \in DOMAIN importJobs |->
              IF importJobs[i].id = s THEN [importJobs[i] EXCEPT !.ok = ok] ELSE importJobs[i]]
    /\ Uses(Pending(s))
    /\ UNCHANGED <<disk, project, entries, context, manager, async, loadJobs, loading,
                   excuse, suidVars>>

ImportCompletes(s) ==
    /\ s \in DOMAIN importing /\ importing[s] = "executed"
    /\ importing' = [importing EXCEPT ![s] = "complete"]
    /\ importJobs' = [i \in DOMAIN importJobs |->
          IF importJobs[i].id = s THEN [importJobs[i] EXCEPT !.hasCompleted = TRUE]
          ELSE importJobs[i]]
    /\ Uses(Pending(s))
    /\ UNCHANGED <<disk, project, entries, context, manager, async, loadJobs, loading,
                   excuse, suidVars>>

ImportReturns(s) ==
    /\ s \in DOMAIN importing /\ importing[s] = "complete"
    /\ importing' = Gone(importing, s)
    /\ UNCHANGED <<disk, project, entries, context, manager, async, importJobs, loadJobs,
                   loading, excuse, undefined, suidVars>>
-----------------------------------------------------------------------------
(***************************************************************************)
(* EditorContext::update and the handlers of the editor.                   *)
(***************************************************************************)
EndLoadBatch ==
    /\ manager' = [manager EXCEPT !.batch = FALSE]
    /\ loadJobs' = {}
    /\ async' = "complete"
    /\ UNCHANGED <<disk, project, entries, context, importJobs, loading, importing, excuse,
                   undefined, suidVars>>

\* Mutant: without wait_all.
LoadUpdateNoWait == async = "loading" /\ InProgress = {} /\ EndLoadBatch

\* ProjectLoadAsync::update: no job in progress, and wait_all has returned.
LoadUpdate ==
    /\ async = "loading"
    /\ InProgress = {}
    /\ DOMAIN loading = {} /\ DOMAIN importing = {}
    /\ EndLoadBatch

LoadFinished ==
    /\ async = "complete"
    /\ async' = "none"
    /\ UNCHANGED <<disk, project, entries, context, manager, importJobs, loadJobs, loading,
                   importing, excuse, undefined, suidVars>>

\* Ctrl+S writes every schema to the paths of the Project.
Save ==
    /\ project.path # NoProject
    /\ disk' = [disk EXCEPT ![project.path] = [scenes |-> project.scenes, entries |-> entries]]
    /\ Uses(context)
    /\ UNCHANGED <<project, entries, context, manager, async, importJobs, loadJobs, loading,
                   importing, excuse, suidVars>>

PathFree(path) == manager.registry => path \notin PathsOf(entries)

\* Mutant: the path was checked when the import began.
ResolveUnchecked(s, path) ==
    IF manager.registry /\ s \notin DOMAIN entries
    THEN /\ entries' = Merge(entries, [t \in {s} |-> path], {s})
         /\ manager' = [manager EXCEPT !.assets = @ \cup {s}]
    ELSE UNCHANGED <<entries, manager>>

\* AssetManager::resolve_asset; a failed one keeps the reserved asset and its SUID.
Resolve(s, path) ==
    IF manager.registry /\ path \notin PathsOf(entries) /\ s \notin DOMAIN entries
    THEN /\ entries' = Merge(entries, [t \in {s} |-> path], {s})
         /\ manager' = [manager EXCEPT !.assets = @ \cup {s}]
    ELSE UNCHANGED <<entries, manager>>

ImportSynchronous(path) ==
    /\ GetSUIDs(1)
    /\ \/ PathFree(path) /\ Resolve(NthSUID(1), path)
       \/ UNCHANGED <<entries, manager>>
    /\ Uses(~manager.registry \/ context)
    /\ UNCHANGED <<disk, project, context, async, importJobs, loadJobs, loading, importing, excuse>>

\* Mutant: a job that is not submitted is never marked completed.
ImportJobUnmarked(s, path) == [id |-> s, path |-> path, ok |-> PathFree(path), hasCompleted |-> FALSE]

ImportJob(s, path) == [id |-> s, path |-> path, ok |-> PathFree(path), hasCompleted |-> ~PathFree(path)]

\* A new batch frees the jobs of the previous one, run or not.
ImportBatch(batch) ==
    /\ GetSUIDs(Len(batch))
    /\ importJobs' = [i \in DOMAIN batch |-> ImportJob(NthSUID(i), batch[i])]
    /\ importing' = Put(importing, {NthSUID(i) : i \in {k \in DOMAIN batch : PathFree(batch[k])}}, "queued")
    /\ excuse' = IF \E s \in DOMAIN importing : importing[s] # "complete"
                 THEN excuse \cup {"cleared"} ELSE excuse
    /\ Uses(~manager.registry \/ context)
    /\ UNCHANGED <<disk, project, entries, context, manager, async, loadJobs, loading>>

\* import_asset_async reports the first job that has completed.
ImportPoll ==
    \E i \in DOMAIN importJobs :
        /\ importJobs[i].hasCompleted
        /\ \A k \in 1 .. i - 1 : ~importJobs[k].hasCompleted
        /\ importJobs' = [k \in 1 .. Len(importJobs) - 1 |-> importJobs[IF k < i THEN k ELSE k + 1]]
        /\ IF importJobs[i].ok THEN Resolve(importJobs[i].id, importJobs[i].path)
           ELSE UNCHANGED <<entries, manager>>
        /\ Uses(~importJobs[i].ok \/ ~manager.registry \/ context)
        /\ UNCHANGED <<disk, project, context, async, loadJobs, loading, importing, excuse, suidVars>>

Worker(s) ==
    \/ LoadExecutes(s) \/ LoadCompletes(s) \/ LoadReturns(s)
    \/ ImportExecutes(s) \/ ImportCompletes(s) \/ ImportReturns(s)

ProjectStep ==
    \/ \E p \in Projects : Rejected(p) \/ Begin(p)
    \/ \E s \in SUID : Worker(s)
    \/ LoadUpdate \/ LoadFinished \/ Save \/ ImportPoll
    \/ \E path \in Paths : ImportSynchronous(path)
    \/ \E batch \in Batches : ImportBatch(batch)

\* Nothing is said of what comes after a use of freed memory.
ProjectDone == undefined \/ "trapped" \in excuse

ProjectNext ==
    IF ProjectDone THEN UNCHANGED projectVars ELSE ProjectStep

ProjectSpec == ProjectInit /\ [][ProjectNext]_projectVars

\* The workers run, and the main loop calls EditorContext::update.
ProjectFairness ==
    /\ \A s \in SUID : WF_projectVars(Worker(s))
    /\ WF_projectVars(LoadUpdate) /\ WF_projectVars(LoadFinished) /\ WF_projectVars(ImportPoll)
-----------------------------------------------------------------------------
(***************************************************************************)
(* Neither a worker nor the main thread uses a load job, an import job or  *)
(* a registry that was freed, though jobInProgress is cleared before the   *)
(* worker's last access; except when a project is opened over another one  *)
(* (begin destroys the registry the context goes on using), and when a     *)
(* batch of imports begins before the previous one has run.                *)
(***************************************************************************)
FreedNotUsed == excuse \cap {"reopened", "cleared"} = {} => ~undefined

(***************************************************************************)
(* The loaded assets are the registered ones, whatever imports were        *)
(* resolved while the batch was loading; no two of them have the same      *)
(* path, though the path of an import is checked when it begins and the    *)
(* registry changes until it ends; and the SUID reserved for an import is  *)
(* nobody else's, unless a project was opened meanwhile: its assets take   *)
(* their SUIDs without asking.                                             *)
(***************************************************************************)
AssetsMatchRegistry ==
    /\ manager.registry => manager.assets = DOMAIN entries
    /\ \A s, t \in DOMAIN entries : entries[s] = entries[t] => s = t
    /\ "overtaken" \notin excuse => \A i \in DOMAIN importJobs : importJobs[i].id \notin DOMAIN entries
    /\ \A i, k \in DOMAIN importJobs : importJobs[i].id = importJobs[k].id => i = k
    /\ DOMAIN entries \subseteq registered

(***************************************************************************)
(* Saving never loses what a project's files held, even while its assets   *)
(* load or are imported; unless the project was opened over another one,   *)
(* whose scenes and assets are then written into its files.                *)
(***************************************************************************)
FilesKept ==
    "reopened" \notin excuse =>
        \A p \in Projects :
            /\ disk[p].scenes = File[p].scenes
            /\ \A s \in DOMAIN File[p].entries :
                  s \in DOMAIN disk[p].entries /\ disk[p].entries[s] = File[p].entries[s]

(***************************************************************************)
(* A project that begins to load is loaded, and an import that was         *)
(* accepted, refused or has failed is reported.                            *)
(***************************************************************************)
LoadEnds == async = "loading" ~> async = "none" \/ ProjectDone
ImportsReported == importJobs # <<>> ~> importJobs = <<>> \/ ProjectDone
=============================================================================
