----------------------------- MODULE SUIDTable ------------------------------
(***************************************************************************)
(* LDCore/Serial/Lib/SUIDTable.cpp: three maps that must stay inverse to   *)
(* each other, under the scenes of a Project and the assets of an          *)
(* AssetRegistry.  The name of a path is its stem, and no two paths of a   *)
(* table have the same name.  A call that is refused changes nothing.      *)
(***************************************************************************)
CONSTANTS
    IDs,
    URIs,       \* paths, the empty one among them
    EmptyURI,
    Names,
    Stem,       \* the name of each path
    Absent      \* not in the map

ASSUME TableConstants ==
    /\ Stem \in [URIs -> Names]
    /\ EmptyURI \in URIs
    /\ Absent \notin IDs \cup URIs

VARIABLES mIDs, mPaths, mNames

tableVars == <<mIDs, mPaths, mNames>>

TableInit ==
    /\ mIDs = [id \in IDs |-> Absent]
    /\ mPaths = [path \in URIs |-> Absent]
    /\ mNames = [name \in Names |-> Absent]

\* is_path_valid
PathValid(path) ==
    /\ path # EmptyURI
    /\ mPaths[path] = Absent
    /\ mNames[Stem[path]] = Absent

RegisterID(id, path) ==
    /\ mIDs[id] = Absent
    /\ PathValid(path)
    /\ mIDs' = [mIDs EXCEPT ![id] = path]
    /\ mPaths' = [mPaths EXCEPT ![path] = id]
    /\ mNames' = [mNames EXCEPT ![Stem[path]] = id]

UnregisterID(id) ==
    /\ mIDs[id] # Absent
    /\ mIDs' = [mIDs EXCEPT ![id] = Absent]
    /\ mPaths' = [mPaths EXCEPT ![mIDs[id]] = Absent]
    /\ mNames' = [mNames EXCEPT ![Stem[mIDs[id]]] = Absent]

\* is_path_rename_valid, which does not refuse the empty path.
RenameValid(id, path) ==
    /\ mIDs[id] # Absent
    /\ path # mIDs[id] =>
          /\ mPaths[path] = Absent
          /\ Stem[path] # Stem[mIDs[id]] => mNames[Stem[path]] = Absent

\* Mutant: the old name is erased after the new one is entered.
SetPathErasesLast(id, path) ==
    /\ RenameValid(id, path)
    /\ mIDs' = [mIDs EXCEPT ![id] = path]
    /\ mPaths' = [mPaths EXCEPT ![mIDs[id]] = Absent, ![path] = id]
    /\ mNames' = [mNames EXCEPT ![Stem[path]] = id, ![Stem[mIDs[id]]] = Absent]

SetPath(id, path) ==
    /\ RenameValid(id, path)
    /\ mIDs' = [mIDs EXCEPT ![id] = path]
    /\ mPaths' = [mPaths EXCEPT ![mIDs[id]] = Absent, ![path] = id]
    /\ mNames' = [mNames EXCEPT ![Stem[mIDs[id]]] = Absent, ![Stem[path]] = id]

TableNext ==
    \E id \in IDs :
        \/ UnregisterID(id)
        \/ \E path \in URIs : RegisterID(id, path) \/ SetPath(id, path)

TableSpec == TableInit /\ [][TableNext]_tableVars
-----------------------------------------------------------------------------
(***************************************************************************)
(* The three maps are inverse to each other through any sequence of        *)
(* registrations, removals and renames, the renames that keep the name and *)
(* those that keep the path included: what LD_ASSERT tests in              *)
(* is_path_valid and set_path.                                             *)
(***************************************************************************)
TableConsistent ==
    /\ \A id \in IDs, path \in URIs : mIDs[id] = path <=> mPaths[path] = id
    /\ \A id \in IDs, name \in Names :
          mNames[name] = id <=> mIDs[id] # Absent /\ Stem[mIDs[id]] = name
=============================================================================
