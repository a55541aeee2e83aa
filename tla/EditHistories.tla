---------------------------- MODULE EditHistories ----------------------------
(***************************************************************************)
(* One managed actor with its position history, the texture slots with     *)
(* their journals, and what passes both by: the restore of a scene, which  *)
(* moves the actor and sets the textures without an entry in any history.  *)
(***************************************************************************)
EXTENDS PositionHistory, MaterialHistory

CONSTANT MaxRestores      \* bound of a run: scenes restored

VARIABLE restores

editVars == <<positionVars, materialVars, restores>>

(* A scene names the actor's pose and the texture of every slot.  Only     *)
(* slots whose registered texture differs are touched.                     *)
Differs(wanted) == {s \in Slots : registry[s] # wanted[s]}

(* restore_scene_document, carried through.                                *)
SceneRestored(p, wanted) ==
    /\ pose' = p /\ outside' = TRUE
    /\ native' = [s \in Slots |-> IF s \in Differs(wanted) THEN wanted[s] ELSE native[s]]
    /\ registry' = wanted
    /\ UNCHANGED <<chain, archived, moves, rows, unjournaled, edits>>

(* A later step fails and everything attempted is put back: the rollback   *)
(* writes the registered texture to every slot it had got to.              *)
SceneRolledBack(attempted) ==
    /\ native' = [s \in Slots |-> IF s \in attempted THEN registry[s] ELSE native[s]]
    /\ UNCHANGED <<positionVars, registry, rows, unjournaled, edits>>

(* The bridge dies in a restore, or its rollback fails as well.  No file   *)
(* says so.  The slot it was at may differ from the registry.              *)
SceneCut(p, s, wanted) ==
    /\ pose' = p /\ outside' = TRUE
    /\ s \in Differs(wanted)
    /\ native' = [native EXCEPT ![s] = wanted[s]]
    /\ unjournaled' = unjournaled \cup {s}
    /\ UNCHANGED <<chain, archived, moves, registry, rows, edits>>

SceneRestore ==
    /\ restores < MaxRestores /\ restores' = restores + 1
    /\ \E p \in Poses, wanted \in [Slots -> Textures] :
        \/ SceneRestored(p, wanted)
        \/ \E attempted \in SUBSET Differs(wanted) : SceneRolledBack(attempted)
        \/ \E s \in Slots : SceneCut(p, s, wanted)

EditInit == PositionInit /\ MaterialInit /\ restores = 0

EditNext ==
    \/ PositionNext /\ UNCHANGED <<materialVars, restores>>
    \/ MaterialNext /\ UNCHANGED <<positionVars, restores>>
    \/ SceneRestore

EditSpec == EditInit /\ [][EditNext]_editVars

-----------------------------------------------------------------------------
(* What is written can be read again, and what it says is what is there:   *)
(* the cursor of the positions, the registry of a slot without an open     *)
(* journal, and the one operation an operator is asked to settle           *)
(* (transform_history.py:60-95, material_history.py:136-144).              *)
HistoriesAreTrue ==
    /\ PositionTypeOK /\ MaterialTypeOK
    /\ WrittenIsReadable
    /\ ShownIsWhereItIs
    /\ EnvironmentRegistryIsTrue
    /\ OneOpenOperation

(* What has been recorded stays so: positions are a line that loses a      *)
(* redoable branch only to an archive, and no recovery turns an uncertain  *)
(* outcome into a success (transform_history.py:99-104).                   *)
RecordIsKept ==
    /\ []HistoriesAreTrue
    /\ NoMoveForgotten
    /\ PositionIsLine
    /\ FailureStaysOnRecord
=============================================================================
