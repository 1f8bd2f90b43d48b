---------------------------- MODULE EditorProps -----------------------------
(***************************************************************************)
(* What the editor, its scene and the registries promise.                  *)
(***************************************************************************)
EXTENDS Editor

Contexts == {active, backup}
Excused(names) == excuse \cap names # {}

\* Serial identifiers are accounted for.  The map of each context finds every
\* component under its own identifier and under no other, as long as none was
\* handed out twice (DataRegistry.cpp:505-566).  And an identifier in use
\* belongs to a component of the scene that is edited or of its running copy:
\* none leaks through a delete, a failed start or a stop, so that a file can be
\* opened again after it was left.  Only a script that destroys what the user
\* adds during play leaks one.
SUIDsAccounted ==
    /\ \/ Excused({"reissued"})
       \/ \A c \in Contexts :
              {<<c.node[i].suid, i>> : i \in {j \in Components(c) : c.node[j].suid # NoSUID}}
                  = {<<s, c.suids[s]>> : s \in DOMAIN c.suids}
    /\ \/ Excused({"played"})
       \/ registered \subseteq UNION {SUIDsOf(c, Components(c)) : c \in Contexts}

\* A runtime identifier names one component of one context or is free, once:
\* the copy that plays never shares one with the scene that is kept for later
\* (Scene.cpp:668-684), and no destroy releases one twice.
IndexOwnedOnce ==
    /\ IsInjective(indices.free)
    /\ LET sets == {Range(indices.free), Components(active), Components(backup)}
       IN  Cardinality(UNION sets) =
               Len(indices.free) + Cardinality(Components(active)) + Cardinality(Components(backup))

\* Every draw, playback and camera belongs to a component of a context: the
\* unloads give back what init, load and clone made, over every order of edits,
\* undos, plays and scene changes.  What scripts and transitions drop without
\* unload is counted apart (Scene.cpp:228-242, 765-766).
HandlesAccounted ==
    handles = Cardinality(Components(active)) + Cardinality(Components(backup)) + orphans

\* The assertions that edit commands, the scene's clone and reset and the scene
\* loader make hold in every session that does none of the things listed under
\* excuse: no edit, undo, redo, save or change of scene during play, no redo or
\* undo of a clone that meets another component, no redo of a command that
\* created what later ones name, and no identifier handed out while in use.
CrashExcused == crashed => excuse # {}

\* The project is shown as saved only if the scene on disk is the scene that
\* is edited, as long as the saved version is on the stack
\* (EditorContext.cpp:801-804).
CleanMeansSaved ==
    index = lastSavedEditIndex /\ ~unsound /\ excuse = {} =>
        Now = Document(files[activeSceneID])

\* The editor is a history of documents: undo, redo, play and stop bring back
\* exactly the scene that was there.
History ==
    INSTANCE EditHistory WITH
        doc <- Now,
        versions <- [k \in 0 .. Len(commands) |-> versions[k + 1]],
        size <- Len(commands),
        saved <- Document(files[activeSceneID]),
        savedAt <- lastSavedEditIndex,
        excused <- excuse # {} \/ crashed
ImplementsHistory == History!Spec
-----------------------------------------------------------------------------
\* The commands assert that the components they name exist
\* (LD_ASSERT(comp), EditCommand.cpp:220, 231, 259): so they do, also when they
\* are redone, if nothing was edited during play, no clone was undone or redone
\* on another component and no identifier was handed out while in use.
RedoFindsComponents == crashed => Excused({"played", "reissued", "astray"})
=============================================================================
