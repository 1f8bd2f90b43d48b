------------------------------- MODULE Editor -------------------------------
(***************************************************************************)
(* LDEditor/EditorContext: the stack of edit commands, the commands on the *)
(* components of a scene, play and stop, save, and the change of scene.    *)
(* Nothing in the code keeps the user from editing, saving or opening      *)
(* another scene while the scene plays, so the model does not either.  A   *)
(* failed LD_ASSERT ends the program: the operation that fails it leaves   *)
(* the rest of the state as it was.                                        *)
(***************************************************************************)
EXTENDS Scene

CONSTANTS
    Moved,        \* what a clone shows, which is moved away from its source
    MaxOperations,  \* bound of the model: length of a session
    FirstScene    \* the entries of the scene on disk that is open at first

ASSUME EditorConstants ==
    /\ Moved \in [Data -> Data]
    /\ MaxOperations \in Nat
    /\ FirstScene \in Seq([suid : SUID, data : Data, parent : Nat])
    /\ \A k \in DOMAIN FirstScene : FirstScene[k].parent < k
    /\ \A j, k \in DOMAIN FirstScene : FirstScene[j].suid = FirstScene[k].suid => j = k

VARIABLES
    isPlaying,
    commands,
    index,
    lastSavedEditIndex,
    files,          \* the entries of every scene on disk
    activeSceneID,
    operations,     \* how many operations the session has had
    crashed,        \* an assertion failed
    versions,       \* history: the document before and after each command
    excuse,         \* history: what happened that undo and redo do not survive
    unsound         \* history: the saved version left the stack, or was never on it

stackVars == <<commands, index, lastSavedEditIndex, versions>>
fileVars == <<files, activeSceneID>>
vars == <<sceneVars, isPlaying, stackVars, fileVars, operations, crashed, excuse, unsound>>

SceneIDs == 1 .. 2
None == -2
Running == state = "running"

\* The scene that is edited, which is the backup while its copy plays.
Edited == IF isPlaying /\ backup # NoContext THEN backup ELSE active

\* A scene as the user sees it: how many components have a given Data below
\* parents with a given Data.  Neither identifiers nor the order of siblings
\* tell two scenes apart.
Document(es) ==
    LET path[k \in 0 .. Len(es)] ==
          IF k = 0 THEN <<>> ELSE Append(path[es[k].parent], es[k].data)
        paths == [k \in DOMAIN es |-> path[k]]
    IN  [p \in Range(paths) |-> Cardinality({k \in DOMAIN es : paths[k] = p})]

\* The sets have one element, which TLC then evaluates once.
DocumentOf(c) ==
    CHOOSE d \in {Document(es) : es \in {Entries(x, s) : x \in {c}, s \in {All(c)}}} : TRUE

Now == DocumentOf(Edited)

Init ==
    /\ registered = EntrySUIDs(FirstScene)
    /\ counter = 0
    /\ state = "loaded"
    /\ indices = [used |-> Len(FirstScene), free |-> <<>>]
    /\ active = Attach(EmptyContext, FirstScene, Root, [k \in DOMAIN FirstScene |-> k - 1])
    /\ backup = NoContext
    /\ handles = Len(FirstScene)
    /\ orphans = 0
    /\ isPlaying = FALSE
    /\ commands = <<>>
    /\ index = 0
    /\ lastSavedEditIndex = 0
    /\ files = <<FirstScene, <<>>>>
    /\ activeSceneID = 1
    /\ operations = 0
    /\ crashed = FALSE
    /\ versions = <<Document(FirstScene)>>
    /\ excuse = {}
    /\ unsound = FALSE
-----------------------------------------------------------------------------
(* The commands: what redo and undo assert, what they do, and what they    *)
(* leave in the command.  "set" stands for the commands that replace one   *)
(* property of a component: its name, transform, script or properties.     *)

BySUID(s) == active.suids[s]
Known(s) == s \in DOMAIN active.suids
KnownParent(s) == s = NoSUID \/ Known(s)
ParentIndex(s) == IF s = NoSUID THEN Root ELSE BySUID(s)
ParentSUID(i) == LET p == Parent(active, i) IN IF p = Root THEN NoSUID ELSE active.node[p].suid

\* get_component_path and get_component_by_index_path.
PathTo(i) ==
    LET Place(n) == CHOOSE k \in DOMAIN active.kids[Parent(active, n)] :
                        active.kids[Parent(active, n)][k] = n
        path[n \in DOMAIN active.kids] ==
            IF n = Root THEN <<>> ELSE Append(path[Parent(active, n)], Place(n))
    IN  path[i]

AtPath(path) ==
    IF \E i \in Components(active) : PathTo(i) = path
    THEN CHOOSE i \in Components(active) : PathTo(i) = path
    ELSE None

SetData(s, d) ==
    /\ active' = [active EXCEPT !.node[BySUID(s)].data = d]
    /\ UNCHANGED <<suidVars, state, backup, indices, handles, orphans>>

SetCommand(s, d) == [type |-> "set", suid |-> s, old |-> active.node[BySUID(s)].data, new |-> d]
AddCommand(p) == [type |-> "add", parent |-> p, suid |-> NoSUID]
CloneCommand(s) ==
    [type |-> "clone", path |-> PathTo(BySUID(s)), dst |-> None, src |-> s, made |-> NoSUID]
DeleteCommand(s) ==
    [type |-> "delete", suid |-> s, parent |-> ParentSUID(BySUID(s)),
     subtree |-> Entries(active, PreOrder(active, BySUID(s)))]

RedoAsserts(cmd) ==
    \/ cmd.type = "set" /\ Known(cmd.suid)
    \/ cmd.type = "add" /\ KnownParent(cmd.parent)
    \/ cmd.type = "clone" /\ AtPath(cmd.path) # None /\ CopiesDiffer(AtPath(cmd.path))
    \/ cmd.type = "delete" /\ Known(cmd.suid) /\ ~Running

RedoEffect(cmd) ==
    \/ cmd.type = "set" /\ SetData(cmd.suid, cmd.new)
    \/ cmd.type = "add" /\ CreateComponentSerial(ParentIndex(cmd.parent))
    \/ cmd.type = "clone" /\ LET i == AtPath(cmd.path)
                             IN  CloneComponentSubtree(i, Moved[active.node[i].data])
    \/ cmd.type = "delete" /\ DestroyComponentSubtree(BySUID(cmd.suid))

Redone(cmd) ==
    IF cmd.type = "add" THEN [cmd EXCEPT !.suid = NthSUID(1)]
    ELSE IF cmd.type = "clone" THEN [cmd EXCEPT !.dst = NthIndex(1), !.made = NthSUID(1)]
    ELSE cmd

\* A deleted subtree that cannot be created again is not recovered either:
\* the rollback reads components that do not exist.
UndoAsserts(cmd) ==
    \/ cmd.type = "set" /\ Known(cmd.suid)
    \/ cmd.type = "add" /\ Known(cmd.suid) /\ ~Running
    \/ cmd.type = "clone" /\ ~Running
    \/ cmd.type = "delete" /\ \A s \in EntrySUIDs(cmd.subtree) : CanTry(s)
                           /\ (Running => Len(cmd.subtree) = 1 /\ ~Known(cmd.parent))

\* Mutant: the subtree is not put back below its parent.
UndoEffectAtTop(cmd) ==
    \/ cmd.type = "set" /\ SetData(cmd.suid, cmd.old)
    \/ cmd.type = "add" /\ DestroyComponentSubtree(BySUID(cmd.suid))
    \/ cmd.type = "clone" /\ IF cmd.dst \in Components(active)
                             THEN DestroyComponentSubtree(cmd.dst)
                             ELSE UNCHANGED sceneVars
    \/ cmd.type = "delete" /\ CreateComponentSubtree(cmd.subtree, Root)

UndoEffect(cmd) ==
    \/ cmd.type = "set" /\ SetData(cmd.suid, cmd.old)
    \/ cmd.type = "add" /\ DestroyComponentSubtree(BySUID(cmd.suid))
    \/ cmd.type = "clone" /\ IF cmd.dst \in Components(active)
                             THEN DestroyComponentSubtree(cmd.dst)
                             ELSE UNCHANGED sceneVars
    \/ cmd.type = "delete" /\ CreateComponentSubtree(cmd.subtree,
                                 IF Known(cmd.parent) THEN BySUID(cmd.parent) ELSE Root)

Undone(cmd) ==
    IF cmd.type = "add" THEN [cmd EXCEPT !.suid = NoSUID]
    ELSE IF cmd.type = "clone" THEN [cmd EXCEPT !.dst = None, !.made = NoSUID]
    ELSE cmd
-----------------------------------------------------------------------------
(* The stack.                                                              *)

\* What a step is excused by.  A component that add or clone created gets
\* another identifier when the command is redone, which the commands above
\* do not know.  A clone redone takes whatever is at its path by then, and
\* undone destroys whatever has its index by then: the fields src and made
\* of the command are history and say which components were meant.  And an
\* identifier may be in use already when it is handed out, which the clone of
\* the component that has it does not survive.
Recreated(cmd) == cmd.type \in {"add", "clone"} /\ index + 1 < Len(commands)
AstrayRedo(cmd) ==
    /\ cmd.type = "clone"
    /\ AtPath(cmd.path) # None => active.node[AtPath(cmd.path)].suid # cmd.src
AstrayUndo(cmd) ==
    /\ cmd.type = "clone"
    /\ cmd.dst \in Components(active) => active.node[cmd.dst].suid # cmd.made
SUIDsInUse == SUIDsOf(active, Components(active)) \cup SUIDsOf(backup, Components(backup))
Reissued == \E s \in registered' \ registered : s \in SUIDsInUse
ReissuedByClone(cmd) ==
    /\ cmd.type = "clone" /\ AtPath(cmd.path) # None
    /\ LET n == Len(PreOrder(active, AtPath(cmd.path)))
       IN  n <= Cardinality(FreeSUIDs) /\ \E k \in 1 .. n : NthSUID(k) \in SUIDsInUse

Excuse(name, condition) == IF condition THEN {name} ELSE {}
Excuses == excuse \cup Excuse("played", isPlaying) \cup Excuse("reissued", Reissued)

Crash(reasons) ==
    /\ crashed' = TRUE
    /\ excuse' = excuse \cup Excuse("played", isPlaying) \cup reasons
    /\ UNCHANGED <<sceneVars, isPlaying, stackVars, fileVars, unsound>>

\* Mutant: the commands that were undone stay on the stack.
ExecuteOnTop(cmd) ==
    /\ IF ~RedoAsserts(cmd) THEN Crash(Excuse("reissued", ReissuedByClone(cmd)))
       ELSE /\ RedoEffect(cmd)
            /\ UNCHANGED <<isPlaying, lastSavedEditIndex, fileVars, crashed>>
            /\ commands' = Append(commands, Redone(cmd))
            /\ index' = index + 1
            /\ \E c \in {Edited'} : versions' = Append(versions, DocumentOf(c))
            /\ excuse' = Excuses
            /\ unsound' = (unsound \/ lastSavedEditIndex > index)

Execute(cmd) ==
    /\ IF ~RedoAsserts(cmd) THEN Crash(Excuse("reissued", ReissuedByClone(cmd)))
       ELSE /\ RedoEffect(cmd)
            /\ UNCHANGED <<isPlaying, lastSavedEditIndex, fileVars, crashed>>
            /\ commands' = Append(SubSeq(commands, 1, index), Redone(cmd))
            /\ index' = index + 1
            /\ \E c \in {Edited'} :
                   versions' = Append(SubSeq(versions, 1, index + 1), DocumentOf(c))
            /\ excuse' = Excuses
            /\ unsound' = (unsound \/ lastSavedEditIndex > index)

Undo ==
    /\ index > 0
    /\ LET cmd == commands[index]
       IN  IF ~UndoAsserts(cmd) THEN Crash({})
           ELSE /\ UndoEffect(cmd)
                /\ commands' = [commands EXCEPT ![index] = Undone(cmd)]
                /\ index' = index - 1
                /\ excuse' = Excuses \cup Excuse("astray", AstrayUndo(cmd))
                /\ UNCHANGED <<isPlaying, lastSavedEditIndex, versions, fileVars, crashed, unsound>>

Redo ==
    /\ index < Len(commands)
    /\ LET cmd == commands[index + 1]
       IN  IF ~RedoAsserts(cmd)
           THEN Crash(Excuse("astray", AstrayRedo(cmd))
                          \cup Excuse("reissued", ReissuedByClone(cmd)))
           ELSE /\ RedoEffect(cmd)
                /\ commands' = [commands EXCEPT ![index + 1] = Redone(cmd)]
                /\ index' = index + 1
                /\ excuse' = Excuses \cup Excuse("astray", AstrayRedo(cmd))
                                    \cup Excuse("recreated", Recreated(cmd))
                /\ UNCHANGED <<isPlaying, lastSavedEditIndex, versions, fileVars, crashed, unsound>>
-----------------------------------------------------------------------------
(* Files.                                                                  *)

Save ==
    /\ UNCHANGED <<sceneVars, isPlaying, commands, index, versions, activeSceneID, crashed>>
    /\ files' = [files EXCEPT ![activeSceneID] = Entries(active, All(active))]
    /\ lastSavedEditIndex' = index
    /\ unsound' = FALSE
    /\ excuse' = excuse \cup Excuse("played", isPlaying)

\* The loader asserts that every component of the file can be created.
Loadable(es) ==
    /\ \A k \in DOMAIN es : es[k].suid # NoSUID
    /\ \A j, k \in DOMAIN es : es[j].suid = es[k].suid => j = k
    /\ \A k \in DOMAIN es : es[k].suid \notin Unload

\* The rest of opening scene s with the entries es.
LoadScene(s, es) ==
    /\ Reload(es)
    /\ activeSceneID' = s
    /\ commands' = <<>>
    /\ index' = 0
    /\ versions' = <<Document(es)>>
    /\ UNCHANGED <<isPlaying, crashed>>

\* The stack forgets what its commands did not survive; files do not.
ExcuseOfLoad == excuse \ {"astray", "recreated"}

OpenScene(s) ==
    IF s = activeSceneID
    THEN /\ commands' = <<>>
         /\ index' = 0
         /\ lastSavedEditIndex' = 0
         /\ versions' = <<Now>>
         /\ unsound' = TRUE
         /\ UNCHANGED <<sceneVars, isPlaying, fileVars, crashed, excuse>>
    ELSE IF ~ResetAsserts \/ ~Loadable(files[s]) THEN Crash({})
    ELSE /\ LoadScene(s, files[s])
         /\ lastSavedEditIndex' = 0
         /\ unsound' = FALSE
         /\ excuse' = ExcuseOfLoad
         /\ UNCHANGED files

\* The second scene is created empty; the saved index is not reset.
CreateScene ==
    /\ activeSceneID = 1
    /\ IF ~ResetAsserts THEN Crash({})
       ELSE /\ LoadScene(2, <<>>)
            /\ files' = [files EXCEPT ![2] = <<>>]
            /\ unsound' = (lastSavedEditIndex # 0)
            /\ excuse' = ExcuseOfLoad
            /\ UNCHANGED lastSavedEditIndex
-----------------------------------------------------------------------------
(* Play.                                                                   *)

UnchangedByPlay == UNCHANGED <<stackVars, fileVars, crashed, excuse, unsound>>

PlayScene ==
    /\ ~isPlaying
    /\ \/ PlayStarts /\ isPlaying' = TRUE
       \/ PlayFails /\ UNCHANGED isPlaying
    /\ UnchangedByPlay

StopScene ==
    /\ isPlaying
    /\ isPlaying' = FALSE
    /\ IF Running THEN Cleanup ELSE UNCHANGED sceneVars
    /\ UnchangedByPlay

ScriptStep ==
    /\ Running
    /\ \/ \E i \in Components(active) : CreateChild(i) \/ DestroyAtRuntime(i)
       \/ Transition
    /\ UNCHANGED isPlaying
    /\ UnchangedByPlay
-----------------------------------------------------------------------------
Edit ==
    \/ \E s \in DOMAIN active.suids :
         \/ \E d \in Data \ {active.node[BySUID(s)].data} : Execute(SetCommand(s, d))
         \/ Execute(CloneCommand(s))
         \/ Execute(DeleteCommand(s))
    \/ \E s \in DOMAIN active.suids \cup {NoSUID} : Execute(AddCommand(s))

Next ==
    /\ ~crashed
    /\ operations < MaxOperations
    /\ operations' = operations + 1
    /\ \/ Edit
       \/ Undo
       \/ Redo
       \/ Save
       \/ \E s \in SceneIDs : OpenScene(s)
       \/ CreateScene
       \/ PlayScene
       \/ StopScene
       \/ ScriptStep

Spec == Init /\ [][Next]_vars
=============================================================================
