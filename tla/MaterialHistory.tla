--------------------------- MODULE MaterialHistory ---------------------------
(***************************************************************************)
(* The write-ahead journals of texture edits (material_history.py for      *)
(* slots of the environment, actor_material_history.py for the slot of a   *)
(* managed actor) and the bridge handlers around them.  A texture lives    *)
(* twice: in the simulator, where it cannot be read back, and in a         *)
(* registry (material-overrides.json, or the provenance record of the      *)
(* actor), which is what every later request looks at.  An edit is two     *)
(* writes, simulator and then registry, between two journal writes.        *)
(* Handlers run under the simulation lock, so each is one action, with how *)
(* far it got as a parameter.                                              *)
(***************************************************************************)
EXTENDS Naturals, Sequences

CONSTANTS
    Slots,            \* subset of {"environment", "actor"}: one slot of each kind
    Textures,         \* includes "original", the slot without an override
    MaxTransitions,   \* 100 in the code
    MaxEdits          \* bound of a run: journaled operations

ASSUME MaterialAssumption ==
    /\ Slots \subseteq {"environment", "actor"} /\ "original" \in Textures
    /\ MaxTransitions \in Nat /\ MaxEdits \in Nat

VARIABLES
    native,       \* per slot, the texture in the simulator
    registry,     \* per slot, the texture the studio believes is there
    rows,         \* the journal files, in the order they were made
    unjournaled,  \* history: slots where a write without a journal was cut
    edits         \* bound: operations so far

materialVars == <<native, registry, rows, unjournaled, edits>>

Nothing == [state |-> "none"]
Ends == {"confirmed", "needs_attention", "attempting"}

(* require_resolved_slot: a journal stands in the way of new edits of its  *)
(* slot until it is confirmed throughout or its recovery is.               *)
Unresolved(r) ==
    /\ r.recovery.state # "confirmed"
    /\ r.state # "confirmed" \/ r.pending # Nothing \/ r.recovery # Nothing

(* Mutant of Resolved: a recovery that was begun counts as done.           *)
ResolvedOnceTried(slot) ==
    \A i \in DOMAIN rows :
        rows[i].slot = slot => ~Unresolved(rows[i]) \/ rows[i].recovery # Nothing

Resolved(slot) ==
    \A i \in DOMAIN rows : rows[i].slot = slot => ~Unresolved(rows[i])

(* The writes an apply makes.  The transaction of an actor slot only       *)
(* touches slots whose registered texture differs from the wanted one; the *)
(* environment's callback always writes.                                   *)
Writes(slot, wanted) ==
    IF slot = "actor" /\ registry[slot] = wanted THEN 0 ELSE 2

(* The slot after the first n writes of an apply.                          *)
Written(slot, wanted, n) ==
    /\ native' = IF n > 0 THEN [native EXCEPT ![slot] = wanted] ELSE native
    /\ registry' = IF n > 1 THEN [registry EXCEPT ![slot] = wanted] ELSE registry

(* Confirmed only after every write.  A failure may come at any of them,   *)
(* also after the last: when the registry file was replaced but not        *)
(* synced, or when the journal could not be confirmed.  "attempting" is    *)
(* left by a bridge that died, or that could not write the failure either. *)
Possible(slot, wanted, n, end) ==
    /\ n \in 0 .. Writes(slot, wanted)
    /\ end = "confirmed" => n = Writes(slot, wanted)

MaterialInit ==
    /\ native = [s \in Slots |-> "original"] /\ registry = native
    /\ rows = <<>> /\ unjournaled = {} /\ edits = 0

Journaled == edits < MaxEdits /\ edits' = edits + 1 /\ UNCHANGED unjournaled

Row(slot, texture, end) ==
    [slot |-> slot, before |-> registry[slot], after |-> texture, state |-> end,
     applied |-> TRUE, steps |-> 0, pending |-> Nothing, recovery |-> Nothing]

(* apply_material_slot and MaterialHistory.execute.                        *)
EditEnvironment(slot, texture, n, end) ==
    /\ Journaled /\ slot = "environment" /\ Resolved(slot)
    /\ Possible(slot, texture, n, end) /\ Written(slot, texture, n)
    /\ rows' = Append(rows, Row(slot, texture, end))

(* apply_versioned_livery and apply_with_history.  A failed apply is       *)
(* rolled back, as far as that goes (back writes); a journal that cannot   *)
(* be confirmed is left attempting and nothing is rolled back.             *)
EditActor(slot, texture, n, back, end) ==
    /\ Journaled /\ slot = "actor" /\ Resolved(slot) /\ texture # "original"
    /\ Possible(slot, texture, n, end)
    /\ end = "needs_attention" \/ back > 0 =>
          end # "confirmed" /\ Writes(slot, texture) > 0
    /\ native' = [native EXCEPT ![slot] =
                    IF back > 0 THEN registry[slot] ELSE IF n > 0 THEN texture ELSE @]
    /\ registry' = [registry EXCEPT ![slot] = IF n > 1 /\ back < 2 THEN texture ELSE @]
    /\ rows' = Append(rows, Row(slot, texture, end))

(* transition: undo what is applied, redo what is not, if the registry     *)
(* still names the texture this row put there or took away.                *)
Transition(i, n, end) ==
    LET r == rows[i]
        step == IF r.applied THEN [source |-> r.after, target |-> r.before]
                             ELSE [source |-> r.before, target |-> r.after]
    IN  /\ Journaled
        /\ r.state = "confirmed" /\ r.pending = Nothing /\ r.steps < MaxTransitions
        /\ Resolved(r.slot) /\ registry[r.slot] = step.source
        /\ Possible(r.slot, step.target, n, end) /\ Written(r.slot, step.target, n)
        /\ rows' = [rows EXCEPT ![i] =
              IF end = "confirmed" THEN [r EXCEPT !.applied = ~r.applied, !.steps = r.steps + 1]
              ELSE [r EXCEPT !.pending =
                       [state |-> end, source |-> step.source, target |-> step.target]]]

(* recover: once, on the operator's choice between the two textures of the *)
(* unresolved operation, after an inspection of this very row.             *)
Recover(i, choice, n, end) ==
    LET r == rows[i]
        side == IF r.pending # Nothing THEN r.pending
                ELSE [source |-> r.before, target |-> r.after]
        desired == IF choice = "source" THEN side.source ELSE side.target
    IN  /\ Journaled /\ Unresolved(r) /\ r.recovery = Nothing
        /\ Possible(r.slot, desired, n, end) /\ Written(r.slot, desired, n)
        /\ rows' = [rows EXCEPT ![i].recovery =
                      [state |-> end, choice |-> choice, desired |-> desired]]

MaterialNext ==
    \/ \E s \in Slots, t \in Textures, n, back \in 0 .. 2, end \in Ends :
          (back = 0 /\ EditEnvironment(s, t, n, end)) \/ EditActor(s, t, n, back, end)
    \/ \E i \in DOMAIN rows, n \in 0 .. 2, end \in Ends :
          \/ Transition(i, n, end)
          \/ \E choice \in {"source", "target"} : Recover(i, choice, n, end)

-----------------------------------------------------------------------------
Journals ==
    [slot : Slots, before : Textures, after : Textures, state : Ends, applied : BOOLEAN,
     steps : 0 .. MaxTransitions,
     pending : {Nothing} \cup [state : Ends, source : Textures, target : Textures],
     recovery : {Nothing} \cup
                    [state : Ends, choice : {"source", "target"}, desired : Textures]]

(* Type invariant of the texture journals.                                 *)
MaterialTypeOK ==
    /\ native \in [Slots -> Textures] /\ registry \in [Slots -> Textures]
    /\ unjournaled \subseteq Slots /\ edits \in 0 .. MaxEdits
    /\ rows \in Seq(Journals)

(* The registry is all a later request can see.  Where no journal of the   *)
(* environment's slot is open, it names the texture that is really there:  *)
(* any divergence left by a failure or a crash keeps its journal open, and *)
(* a confirmed recovery has written both (material_history.py:36-67).      *)
EnvironmentRegistryIsTrue ==
    "environment" \in Slots \ unjournaled /\ Resolved("environment") =>
        native["environment"] = registry["environment"]

(* A confirmed recovery is a new write of the texture the operator chose   *)
(* ("Explicit new write after inspection", material_history.py:37).  It    *)
(* does not hold for the slot of an actor: README section 5.               *)
ConfirmedRecoveryWrites ==
    [][ \A i \in DOMAIN rows :
          rows[i].recovery = Nothing /\ rows'[i].recovery.state = "confirmed"
              => native'[rows[i].slot] = rows'[i].recovery.desired ]_materialVars

(* There is never more than one open operation on a slot, so the operator  *)
(* who recovers it has recovered the slot.                                 *)
OneOpenOperation ==
    \A i, j \in DOMAIN rows :
        rows[i].slot = rows[j].slot /\ Unresolved(rows[i]) /\ Unresolved(rows[j]) => i = j

(* Only an uncertain outcome is recovered.                                 *)
RecoveredWasUncertain ==
    \A i \in DOMAIN rows :
        rows[i].recovery # Nothing => rows[i].state # "confirmed" \/ rows[i].pending # Nothing

(* The inductive invariant of the journals.                                *)
MaterialInv ==
    MaterialTypeOK /\ EnvironmentRegistryIsTrue /\ OneOpenOperation /\ RecoveredWasUncertain

(* A failure stays on record: neither a recovery nor anything after it     *)
(* turns an uncertain outcome, or a cut undo, into a success.              *)
FailureStaysOnRecord ==
    [][ \A i \in DOMAIN rows :
          /\ rows[i].state # "confirmed" => rows'[i].state = rows[i].state
          /\ rows[i].pending # Nothing => rows'[i].pending = rows[i].pending
          /\ rows[i].recovery # Nothing => rows'[i].recovery = rows[i].recovery ]_materialVars
=============================================================================
