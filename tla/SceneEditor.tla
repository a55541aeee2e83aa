----------------------------- MODULE SceneEditor -----------------------------
(***************************************************************************)
(* The editor's objects: spawning, duplicating, moving and deleting them,  *)
(* the versioned scenes (scene_store.py), the restore of a scene or of one *)
(* object of it, the journals of deletions and of copies, and provenance,  *)
(* which is what makes an actor of the simulator an object of the studio.  *)
(* Every handler runs under the simulation lock; the handlers call each    *)
(* other, so each is an operator from a state to the set of ways it can    *)
(* come out: "ok", "failed" (it raised, its compensation has run), or      *)
(* "cut" (the bridge died on the way).                                     *)
(* An actor is identified by <<episode, number>>, since the simulator      *)
(* counts anew in every world it loads.  A stable identity is named after  *)
(* the first actor that had it.                                            *)
(***************************************************************************)
EXTENDS Naturals, Sequences, FiniteSets

CONSTANTS
    Places,         \* where objects can be
    MaxEpisodes,    \* bounds of a run: worlds loaded,
    MaxOperations   \* and requests made

ASSUME EditorAssumption == MaxEpisodes \in Nat /\ MaxOperations \in Nat /\ 0 \in Places

VARIABLES
    ed,         \* world and files, see EditorInit
    episode,    \* the world's id
    head,       \* head.json of the scene being worked on: history and cursor
    copies,     \* copy journals
    torn,       \* history: a change of version was cut between cursor and world
    used        \* bound

editorVars == <<ed, episode, head, copies, torn, used>>

Unmanaged == <<0, 0>>

(* live: the actors, with the stable identity their provenance record      *)
(* gives them; next: the simulator's counter; docs: the version files of   *)
(* all scenes, automatic backups included; deletions: their journals.      *)
(* Records of actors that are gone are never read without asking the       *)
(* world for the actor, so they are not kept here.                         *)
EmptyWorld(docs, deletions) ==
    [live |-> [a \in {1} |-> [stable |-> Unmanaged, pose |-> 0]], next |-> 2,
     docs |-> docs, deletions |-> deletions]

Managed(e) == {a \in DOMAIN e.live : e.live[a].stable # Unmanaged}
Stables(e) == {e.live[a].stable : a \in Managed(e)}
ActorOf(e, s) == CHOOSE a \in Managed(e) : e.live[a].stable = s

(* capture_scene_document: the managed objects and where they are.         *)
Capture(e) == [s \in Stables(e) |-> e.live[ActorOf(e, s)].pose]

With(e, stable, pose) ==
    [e EXCEPT !.live = [a \in DOMAIN e.live \cup {e.next} |->
                   IF a = e.next THEN [stable |-> stable, pose |-> pose] ELSE e.live[a]],
              !.next = @ + 1]

Without(e, a) == [e EXCEPT !.live = [b \in DOMAIN e.live \ {a} |-> e.live[b]]]

Out(e, end) == [ed |-> e, end |-> end]

-----------------------------------------------------------------------------
(* spawn_object: the actor is created, marked as the user's and bound.  If *)
(* that fails it is destroyed again; if it is cut, or cannot be destroyed, *)
(* it stays, with or without its provenance record.                        *)
SpawnResults(e, pose) ==
    LET own == <<episode, e.next>>
        gone == [e EXCEPT !.next = @ + 1]
    IN  {Out(With(e, own, pose), "ok"), Out(e, "failed"), Out(gone, "failed")}
        \cup {Out(With(e, s, pose), end) :
                 s \in {own, Unmanaged}, end \in {"failed", "cut"}}

(* backup_managed_deletion and DeletionHistory.begin.                      *)
BackedUp(e) == [e EXCEPT !.docs = Append(@, Capture(e))]

(* Mutant of DeletionRecorded: the backup is taken when it is gone.        *)
DeletionRecordedAfter(e, a, state) ==
    LET b == BackedUp(Without(e, a))
    IN  [b EXCEPT !.live = e.live,
                  !.deletions = Append(@,
            [actor |-> <<episode, a>>, stable |-> e.live[a].stable,
             version |-> Len(b.docs), state |-> state])]

DeletionRecorded(e, a, state) ==
    LET b == BackedUp(e)
    IN  [b EXCEPT !.deletions = Append(@,
            [actor |-> <<episode, a>>, stable |-> e.live[a].stable,
             version |-> Len(b.docs), state |-> state])]

(* delete_actor.  An object of the studio is saved in a scene of its own,  *)
(* then the intent is written, then the actor is destroyed, and it is      *)
(* confirmed only once a snapshot of the same world lacks it.  Whether the *)
(* actor is gone after a failure is not known.  A journal that is not      *)
(* confirmed is "attempting" or, if the failure could be written down,     *)
(* "needs_attention": "open" here, since neither ever changes again.       *)
DeleteResults(e, a) ==
    IF a \notin Managed(e)
    THEN {Out(Without(e, a), end) : end \in {"ok", "failed", "cut"}} \cup {Out(e, "failed")}
    ELSE {Out(e, "failed"), Out(BackedUp(e), "failed"), Out(BackedUp(e), "cut"),
          Out(Without(DeletionRecorded(e, a, "confirmed"), a), "ok"),
          Out(Without(DeletionRecorded(e, a, "confirmed"), a), "failed")}
         \cup {Out(w, end) : w \in {DeletionRecorded(e, a, "open"),
                                    Without(DeletionRecorded(e, a, "open"), a)},
                             end \in {"failed", "cut"}}

(* A sequence of the members of a finite set, whichever.                   *)
InOrder(S) ==
    CHOOSE f \in [1 .. Cardinality(S) -> S] :
        \A x \in S : \E i \in 1 .. Cardinality(S) : f[i] = x

(* Mutant of Placed: an object of the scene is always spawned.             *)
PlacedAgain(e, doc, S) ==
    LET new == InOrder(S)
        made == e.next .. e.next + Cardinality(S) - 1
    IN  [e EXCEPT !.live = [a \in DOMAIN e.live \cup made |->
            IF a \in made
            THEN [stable |-> new[a - e.next + 1], pose |-> doc[new[a - e.next + 1]]]
            ELSE e.live[a]], !.next = @ + Cardinality(S)]

(* Objects of a scene, one after the other: moved if it is there, spawned  *)
(* and bound if not.                                                       *)
Placed(e, doc, S) ==
    LET missing == S \ Stables(e)
        new == InOrder(missing)
        made == e.next .. e.next + Cardinality(missing) - 1
    IN  [e EXCEPT !.live = [a \in DOMAIN e.live \cup made |->
            IF a \in made
            THEN [stable |-> new[a - e.next + 1], pose |-> doc[new[a - e.next + 1]]]
            ELSE [e.live[a] EXCEPT !.pose = IF e.live[a].stable \in S
                                            THEN doc[e.live[a].stable] ELSE @]],
                  !.next = @ + Cardinality(missing)]

(* The compensation of a failed restore: what was moved is moved back, and *)
(* what was created is deleted like any other object, one after the other, *)
(* each behind a backup of what is there then.                             *)
PutBack(e, w) ==
    LET created == InOrder(DOMAIN w.live \ DOMAIN e.live)
        back == [a \in DOMAIN w.live |->
                    IF a \in DOMAIN e.live THEN e.live[a] ELSE w.live[a]]
        left(k) == DOMAIN w.live \ {created[i] : i \in 1 .. k - 1}
        backup(k) == Capture([w EXCEPT !.live = [a \in left(k) |-> back[a]]])
        journal(k) == [actor |-> <<episode, created[k]>>, stable |-> back[created[k]].stable,
                       version |-> Len(w.docs) + k, state |-> "confirmed"]
    IN  [w EXCEPT !.live = e.live,
                  !.docs = @ \o [k \in DOMAIN created |-> backup(k)],
                  !.deletions = @ \o [k \in DOMAIN created |-> journal(k)]]

(* restore_scene_document.  A failure may come after any number of the     *)
(* objects, in the order of the file, which may be any; the compensation   *)
(* may itself fail and leave them; a spawn that is cut before it is bound  *)
(* leaves an object of its own identity.                                   *)
RestoreResults(e, doc) ==
    LET partial == {Placed(e, doc, S) : S \in SUBSET DOMAIN doc}
        stray == {With(w, <<episode, w.next>>, 0) :
                     w \in {v \in partial : DOMAIN doc \ Stables(v) # {}}}
    IN  {Out(Placed(e, doc, DOMAIN doc), "ok")}
        \cup {Out(PutBack(e, w), "failed") : w \in partial}
        \cup {Out(w, end) : w \in partial \cup stray, end \in {"failed", "cut"}}

-----------------------------------------------------------------------------
EditorInit ==
    /\ ed = EmptyWorld(<<>>, <<>>) /\ episode = 1
    /\ head = [history |-> <<>>, cursor |-> 0]
    /\ copies = <<>> /\ torn = FALSE /\ used = 0

Request == used < MaxOperations /\ used' = used + 1

Spawn ==
    /\ Request /\ UNCHANGED <<episode, head, copies, torn>>
    /\ \E r \in SpawnResults(ed, 0) : ed' = r.ed

(* update_actor.                                                           *)
MoveActor ==
    /\ Request /\ UNCHANGED <<episode, head, copies, torn>>
    /\ \E a \in DOMAIN ed.live, p \in Places :
          ed' = [ed EXCEPT !.live[a].pose = p]

Delete ==
    /\ Request /\ UNCHANGED <<episode, head, copies, torn>>
    /\ \E a \in DOMAIN ed.live : \E r \in DeleteResults(ed, a) : ed' = r.ed

(* SceneStore.save by a page that has seen the current version: the file   *)
(* of the new version first, then the head, which is cut to the cursor.    *)
(* A crash in between leaves a version no history names.                   *)
Save ==
    /\ Request /\ UNCHANGED <<episode, copies, torn>>
    /\ ed' = BackedUp(ed)
    /\ \/ head' = [history |-> Append(SubSeq(head.history, 1, head.cursor), Len(ed'.docs)),
                   cursor |-> head.cursor + 1]
       \/ UNCHANGED head

(* Mutant of SceneHistory: a failed restore leaves the cursor moved.       *)
SceneHistoryForward(direction) ==
    /\ Request /\ UNCHANGED <<episode, copies, torn>>
    /\ LET to == IF direction = "undo" THEN head.cursor - 1 ELSE head.cursor + 1
       IN  /\ to \in DOMAIN head.history
           /\ head' = [head EXCEPT !.cursor = to]
           /\ \E r \in RestoreResults(ed, ed.docs[head.history[to]]) : ed' = r.ed

(* scene_history: SceneStore.move, the restore of the version moved to,    *)
(* and the move back if that fails.  The move back can fail too.           *)
SceneHistory(direction) ==
    /\ Request /\ UNCHANGED <<episode, copies>>
    /\ LET to == IF direction = "undo" THEN head.cursor - 1 ELSE head.cursor + 1
       IN  /\ to \in DOMAIN head.history
           /\ \E r \in RestoreResults(ed, ed.docs[head.history[to]]) :
                 /\ ed' = r.ed
                 /\ \/ /\ r.end = "ok" /\ torn' = torn
                       /\ head' = [head EXCEPT !.cursor = to]
                    \/ /\ r.end # "ok" /\ torn' = TRUE
                       /\ head' = [head EXCEPT !.cursor = to]
                    \/ /\ r.end = "failed" /\ UNCHANGED <<head, torn>>

(* restore_scene: any version, without touching the cursor; and            *)
(* restore_missing_object: one object of a version, if it is not there.    *)
Restore ==
    /\ Request /\ UNCHANGED <<episode, head, copies, torn>>
    /\ \E v \in DOMAIN ed.docs :
          \/ \E r \in RestoreResults(ed, ed.docs[v]) : ed' = r.ed
          \/ \E s \in DOMAIN ed.docs[v] \ Stables(ed) :
                \E r \in RestoreResults(ed, [x \in {s} |-> ed.docs[v][x]]) : ed' = r.ed

-----------------------------------------------------------------------------
Copy(a, id, stable, state) ==
    [source |-> <<episode, a>>, target |-> id, stable |-> stable,
     state |-> state, undo |-> "none", deletion |-> 0, redo |-> "none"]

(* duplicate_actor behind journal_duplicate.  The copy is confirmed when   *)
(* it has been spawned, its textures copied and its identity read back; if *)
(* the textures fail the new object is deleted again.                      *)
Duplicate ==
    /\ Request /\ UNCHANGED <<episode, head, torn>>
    /\ \E a \in DOMAIN ed.live : \E r \in SpawnResults(ed, ed.live[a].pose) :
          LET id == ed.next
              made == id \in DOMAIN r.ed.live
              stable == IF made THEN r.ed.live[id].stable ELSE Unmanaged
              row(state) == Append(copies, Copy(a, <<episode, id>>, stable, state))
          IN  \/ /\ r.end = "ok" /\ ed' = r.ed
                 /\ copies' \in {row("confirmed"), row("open")}
              \/ /\ r.end = "ok"
                 /\ \E d \in DeleteResults(r.ed, id) : ed' = d.ed
                 /\ copies' = row("open")
              \/ /\ r.end # "ok" /\ ed' = r.ed
                 /\ copies' = row("open")

(* undo_copy, verify: the recorded actor, in this world, with its identity.*)
IsTarget(c) ==
    /\ c.target[1] = episode /\ c.target[2] \in DOMAIN ed.live
    /\ ed.live[c.target[2]].stable = c.stable

UndoCopy(i) ==
    LET c == copies[i]
    IN  /\ Request /\ UNCHANGED <<episode, head, torn>>
        /\ c.state = "confirmed" /\ c.undo = "none" /\ IsTarget(c)
        /\ \E r \in DeleteResults(ed, c.target[2]) :
              /\ ed' = r.ed
              /\ copies' = [copies EXCEPT
                    ![i].undo = IF r.end = "ok" THEN "confirmed" ELSE "open",
                    ![i].deletion = IF r.end = "ok" THEN Len(r.ed.deletions) ELSE 0]

(* redo_copy: the object is restored from the backup of the deletion that  *)
(* undid the copy, as a new actor that becomes the copy's target.          *)
RedoCopy(i) ==
    LET c == copies[i]
        backup == ed.docs[ed.deletions[c.deletion].version]
    IN  /\ Request /\ UNCHANGED <<episode, head, torn>>
        /\ c.state = "confirmed" /\ c.undo = "confirmed" /\ c.redo = "none"
        /\ c.target[1] = episode /\ c.stable \notin Stables(ed)
        /\ \E r \in RestoreResults(ed, [s \in {c.stable} |-> backup[s]]) :
              /\ ed' = r.ed
              /\ copies' = IF r.end = "ok"
                    THEN [copies EXCEPT ![i].target = <<episode, ActorOf(r.ed, c.stable)>>,
                                        ![i].undo = "none", ![i].deletion = 0]
                    ELSE [copies EXCEPT ![i].redo = "open"]

(* A map is loaded: every actor is gone, and the counter starts again.     *)
LoadWorld ==
    /\ episode < MaxEpisodes /\ episode' = episode + 1
    /\ ed' = EmptyWorld(ed.docs, ed.deletions)
    /\ UNCHANGED <<head, copies, torn, used>>

EditorNext ==
    \/ Spawn \/ MoveActor \/ Delete \/ Save \/ Restore \/ Duplicate \/ LoadWorld
    \/ \E direction \in {"undo", "redo"} : SceneHistory(direction)
    \/ \E i \in DOMAIN copies : UndoCopy(i) \/ RedoCopy(i)

EditorSpec == EditorInit /\ [][EditorNext]_editorVars

-----------------------------------------------------------------------------
(* No stable identity ever has two living actors, whatever is cut between  *)
(* a spawn and its binding, undone, redone or restored: live_scene_bindings*)
(* would refuse every later restore as ambiguous (livery_bridge.py:1774).  *)
OneEach(e) == \A a, b \in Managed(e) : e.live[a].stable = e.live[b].stable => a = b

OneActorPerIdentity == OneEach(ed)

(* An object of the studio leaves a world only behind a deletion record    *)
(* whose backup has it where it was (livery_bridge.py:2244-2247), whether  *)
(* it was deleted, undone or compensated, and whatever was cut.            *)
DeletedIsBackedUp ==
    [][ episode' = episode =>
          \A a \in Managed(ed) \ DOMAIN ed'.live :
             \E k \in DOMAIN ed'.deletions :
                LET d == ed'.deletions[k]
                IN  /\ d.actor = <<episode, a>>
                    /\ d.stable \in DOMAIN ed'.docs[d.version]
                    /\ ed'.docs[d.version][d.stable] = ed.live[a].pose ]_editorVars

(* A confirmed deletion is true: that actor is never seen again.           *)
ConfirmedDeletionIsGone ==
    \A k \in DOMAIN ed.deletions :
        ed.deletions[k].state = "confirmed" /\ ed.deletions[k].actor[1] = episode
            => ed.deletions[k].actor[2] \notin DOMAIN ed.live

(* Undoing a copy removes that copy and nothing else, also when another    *)
(* world has been loaded and its actors have the same numbers.             *)
UndoRemovesOnlyTheCopy ==
    [][ \A i \in DOMAIN copies :
          copies[i].undo = "none" /\ copies'[i].undo # "none" =>
             \A a \in DOMAIN ed.live \ DOMAIN ed'.live :
                /\ <<episode, a>> = copies[i].target
                /\ ed.live[a].stable = copies[i].stable ]_editorVars

(* When the cursor of a scene stands on another version after an undo or   *)
(* redo, every object of that version is in the world, where it says,      *)
(* unless the bridge died or the move back failed as well.                 *)
CursorFollowsWorld ==
    [][ head'.cursor # head.cursor /\ head'.history = head.history /\ ~torn' =>
          LET doc == ed.docs[head.history[head'.cursor]]
          IN  \A s \in DOMAIN doc :
                 s \in Stables(ed') /\ ed'.live[ActorOf(ed', s)].pose = doc[s] ]_editorVars

(* The versions of a scene are a line with a cursor, and stay one when a   *)
(* save is cut between its two files.                                      *)
SceneLine == INSTANCE LinearHistory WITH entries <- head.history, cursor <- head.cursor
SceneIsLine == SceneLine!LineSpec

(* An identity is one actor's; a deletion takes nothing that is not kept,  *)
(* a confirmed one is true, and the undo of a copy removes that copy only. *)
ObjectsAreTrue ==
    /\ []OneActorPerIdentity /\ DeletedIsBackedUp
    /\ []ConfirmedDeletionIsGone /\ UndoRemovesOnlyTheCopy

(* Undo and redo of a scene: the versions stay a line, and the world goes  *)
(* where the cursor goes.                                                  *)
SceneHistoryHolds == SceneIsLine /\ CursorFollowsWorld

-----------------------------------------------------------------------------
(* The inductive invariant of that.  An identity is one of an actor that   *)
(* has been counted; what is live, in the files of the versions and in the *)
(* journals has such identities only.                                      *)
Identities == Nat \X Nat
ObjectRecords == [stable : Identities, pose : Places]
DeletionRecords ==
    [actor : Identities, stable : Identities, version : Nat, state : {"confirmed", "open"}]
CopyRecords ==
    [source : Identities, target : Identities, stable : Identities, state : {"confirmed", "open"},
     undo : {"none", "confirmed", "open"}, deletion : Nat, redo : {"none", "open"}]

EditorTypeOK(e) ==
    /\ e = [live |-> e.live, next |-> e.next, docs |-> e.docs, deletions |-> e.deletions]
    /\ DOMAIN e.live \subseteq Nat /\ e.live \in [DOMAIN e.live -> ObjectRecords]
    /\ e.next \in Nat /\ e.deletions \in Seq(DeletionRecords)
    /\ e.docs \in Seq({e.docs[v] : v \in DOMAIN e.docs})

Counted(e, id) == id[1] \in 1 .. episode /\ (id[1] = episode => id[2] < e.next)

WorldIsCounted(e) ==
    /\ IsFiniteSet(DOMAIN e.live) /\ \A a \in DOMAIN e.live : a < e.next
    /\ \A a \in Managed(e) : Counted(e, e.live[a].stable)
    /\ OneEach(e)

IsScene(e, doc) ==
    /\ IsFiniteSet(DOMAIN doc) /\ DOMAIN doc \subseteq Identities
    /\ doc \in [DOMAIN doc -> Places]
    /\ \A s \in DOMAIN doc : Counted(e, s)

(* The version of a deletion has what was deleted, and a confirmed one is  *)
(* true, whichever number the actor had.                                   *)
DeletionIsKept(e, d) ==
    /\ Counted(e, d.actor)
    /\ d.version \in DOMAIN e.docs /\ d.stable \in DOMAIN e.docs[d.version]
    /\ d.state = "confirmed" /\ d.actor[1] = episode => d.actor[2] \notin DOMAIN e.live

EditorIsSound(e) ==
    /\ EditorTypeOK(e) /\ WorldIsCounted(e)
    /\ \A v \in DOMAIN e.docs : IsScene(e, e.docs[v])
    /\ \A k \in DOMAIN e.deletions : DeletionIsKept(e, e.deletions[k])

(* A confirmed copy was bound, and one that was undone can be redone from  *)
(* the deletion that undid it.                                             *)
CopiesAreKept ==
    /\ copies \in Seq(CopyRecords)
    /\ \A i \in DOMAIN copies :
          LET c == copies[i]
          IN  /\ c.state = "confirmed" => c.stable # Unmanaged
              /\ c.undo = "confirmed" =>
                    /\ c.deletion \in DOMAIN ed.deletions
                    /\ ed.deletions[c.deletion].stable = c.stable

HeadIsLine ==
    /\ head \in [history : Seq(Nat), cursor : Nat] /\ head.cursor <= Len(head.history)
    /\ \A i \in DOMAIN head.history : head.history[i] \in DOMAIN ed.docs

EditorInv ==
    /\ episode \in Nat \ {0} /\ torn \in BOOLEAN /\ used \in Nat
    /\ EditorIsSound(ed) /\ CopiesAreKept /\ HeadIsLine
=============================================================================
