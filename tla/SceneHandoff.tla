------------------------------ MODULE SceneHandoff -------------------------------
(***************************************************************************)
(* The reviewed change of map (scene_handoff.py and its handlers in        *)
(* tools/livery_bridge.py): a persistent gate that is closed before the    *)
(* world is destroyed and stays closed until the new scene is verified or  *)
(* the operator accepts what is there.  Beside it are the parts it must    *)
(* exclude: editor requests that wait for the simulation lock, and the     *)
(* execution session, which has a gate of its own.                         *)
(*                                                                         *)
(* Whatever runs wholly under the simulation lock is one action; the       *)
(* handoff's own thread, whose journal writes a crash can separate, holds  *)
(* the lock between "load" and "fail".                                     *)
(***************************************************************************)
EXTENDS Naturals, SessionGate

CONSTANTS Requests,         \* editor requests in flight
          Reviews,          \* review tokens
          Contents,         \* contents of a world (managed scene, inventory)
          MaxEpisodes,      \* bound: worlds ever loaded
          MaxCrashes,       \* bound: crashes of the bridge
          MaxFaults         \* bound: writes of the handoff journal that raise

ASSUME HandoffAssumption ==
  /\ MaxEpisodes \in Nat \ {0}
  /\ {MaxCrashes, MaxFaults} \subseteq Nat
  /\ Contents # {}

VARIABLES
  journal,       \* data/scene-handoffs/current.json
  workerActive,  \* HANDOFF.worker_active
  perform,       \* perform_scene_handoff: pc, switched, the world it was
                 \* confirmed for and the one captured at the confirmation
  reviews,       \* HANDOFF.reviews: the world each token was issued for
  episode,       \* the episode of the simulator's world
  content,       \* and what is in it
  known,         \* _world_episode: the bridge's last sight of it; 0 is None
  request,       \* request[q]: a guarded operation, and the episodes it saw
  uncertain,     \* history: the world was replaced, nobody vouches for it yet
  crashes, faults

handoffVars == <<journal, workerActive, perform, reviews, episode, content, known,
                 request, sessionVars, uncertain, crashes, faults>>

worldVars == <<episode, content>>

Episodes == 1..MaxEpisodes

HandoffStates == {"running", "needs_attention", "restored", "failed_before_switch",
                  "acknowledged"}

World == [episode : Episodes, content : Contents]

Here == [episode |-> episode, content |-> content]

NoJournal == [state |-> "idle", phase |-> "none", source |-> 0]

Journal == [state  : HandoffStates,
            phase  : {"prepared", "loading_map", "restoring_scene", "verified"},
            source : Episodes]

NoReview == [episode |-> 0]

NotPerforming == [pc |-> "none", switched |-> FALSE, reviewed |-> NoReview,
                  baseline |-> NoReview]

Performing == [pc : {"none", "queued", "load", "restore", "fail"}, switched : BOOLEAN,
               reviewed : World \cup {NoReview}, baseline : World \cup {NoReview}]

NoRequest == [pc |-> "idle", entered |-> 0, seen |-> 0]

Request == [pc : {"idle", "arrived", "waiting"}, entered : 0..MaxEpisodes,
            seen : 0..MaxEpisodes]

\* status(): a journal left running by a bridge that died needs attention.
Status ==
  IF journal.state = "running" /\ ~workerActive THEN "needs_attention" ELSE journal.state

Pending == Status \in {"running", "needs_attention"}

LockFree == perform.pc \in {"none", "queued"}

\* What every operation but the handoff's own needs to reach the world.
WorldOpen == LockFree /\ ~Pending /\ ~running

NoFault == UNCHANGED faults
Fault == faults < MaxFaults /\ faults' = faults + 1
---------------------------------------------------------------------------------
HandoffInit ==
  /\ journal = NoJournal /\ workerActive = FALSE
  /\ perform = NotPerforming
  /\ reviews = [t \in Reviews |-> NoReview]
  /\ episode = 1 /\ content \in Contents
  /\ known = 0
  /\ request = [q \in Requests |-> NoRequest]
  /\ GateInit
  /\ uncertain = FALSE
  /\ crashes = 0 /\ faults = 0
---------------------------------------------------------------------------------
(* Preview and confirmation *)

\* A token is issued for the world as it is, and nothing is changed.
Preview(t) ==
  /\ WorldOpen /\ episode < MaxEpisodes
  /\ reviews[t] = NoReview
  /\ reviews' = [reviews EXCEPT ![t] = Here]
  /\ known' = episode
  /\ UNCHANGED <<journal, workerActive, perform, worldVars, request, sessionVars,
                 uncertain, crashes, faults>>

ReviewExpires(t) ==
  /\ reviews[t] # NoReview
  /\ reviews' = [reviews EXCEPT ![t] = NoReview]
  /\ UNCHANGED <<journal, workerActive, perform, worldVars, known, request, sessionVars,
                 uncertain, crashes, faults>>

\* begin(): the gate is closed on disk and the thread is started.
Begin(reviewed) ==
  LET row == [state |-> "running", phase |-> "prepared", source |-> episode] IN
  \/ /\ journal' = row /\ workerActive' = TRUE
     /\ perform' = [pc |-> "queued", switched |-> FALSE, reviewed |-> reviewed,
                    baseline |-> Here]
     /\ NoFault
  \/ /\ Fault  \* the thread cannot be started, and that may not be recorded
     /\ journal' \in {row, [row EXCEPT !.state = "failed_before_switch"]}
     /\ UNCHANGED <<workerActive, perform>>

\* Mutant of Confirm: the token is looked up, the world is not compared.
ConfirmAnything(t) ==
  /\ WorldOpen /\ reviews[t] # NoReview
  /\ reviews' = [reviews EXCEPT ![t] = NoReview]
  /\ known' = episode
  /\ Begin(reviews[t])
  /\ UNCHANGED <<worldVars, request, sessionVars, uncertain, crashes>>

\* The token is used up, and the handoff begins if the world is still the
\* reviewed one and the backup can be saved.
Confirm(t) ==
  /\ WorldOpen /\ reviews[t] # NoReview
  /\ reviews' = [reviews EXCEPT ![t] = NoReview]
  /\ known' = episode
  /\ \/ reviews[t] = Here /\ Begin(reviews[t])
     \/ UNCHANGED <<journal, workerActive, perform, faults>>
  /\ UNCHANGED <<worldVars, request, sessionVars, uncertain, crashes>>
---------------------------------------------------------------------------------
(* perform_scene_handoff, the handoff's thread *)

\* update(): one field is rewritten, or the write raises and perform fails.
Update(row, pc) ==
  \/ journal' = row /\ perform' = [perform EXCEPT !.pc = pc] /\ NoFault
  \/ Fault /\ perform' = [perform EXCEPT !.pc = "fail"] /\ UNCHANGED journal

\* Mutant of PerformCheck: the intent is written but not remembered.
PerformCheckForgetting ==
  /\ perform.pc = "queued"
  /\ known' = episode
  /\ episode = journal.source /\ content = perform.baseline.content /\ ~running
  /\ Update([journal EXCEPT !.phase = "loading_map"], "load")
  /\ UNCHANGED <<workerActive, reviews, worldVars, request, sessionVars, uncertain, crashes>>

\* Under the lock, the world is compared once more; then the intent to
\* destroy it is written before anything is destroyed.
PerformCheck ==
  /\ perform.pc = "queued"
  /\ known' = episode
  /\ \/ /\ episode = journal.source /\ content = perform.baseline.content /\ ~running
        /\ \/ /\ journal' = [journal EXCEPT !.phase = "loading_map"] /\ NoFault
              /\ perform' = [perform EXCEPT !.pc = "load", !.switched = TRUE]
           \/ /\ Fault /\ UNCHANGED journal
              /\ perform' = [perform EXCEPT !.pc = "fail"]
     \/ /\ perform' = [perform EXCEPT !.pc = "fail"]
        /\ UNCHANGED <<journal, faults>>
  /\ UNCHANGED <<workerActive, reviews, worldVars, request, sessionVars, uncertain, crashes>>

\* load_world: it may fail having loaded or not; only a verified new world
\* goes on to the restoration.
PerformLoad ==
  /\ perform.pc = "load"
  /\ \/ /\ episode' = episode + 1 /\ content' \in Contents /\ uncertain' = TRUE
        /\ \/ Update([journal EXCEPT !.phase = "restoring_scene"], "restore")
           \/ perform' = [perform EXCEPT !.pc = "fail"] /\ UNCHANGED <<journal, faults>>
     \/ /\ perform' = [perform EXCEPT !.pc = "fail"]
        /\ UNCHANGED <<worldVars, journal, uncertain, faults>>
  /\ UNCHANGED <<workerActive, reviews, known, request, sessionVars, crashes>>

\* The saved scene is put into the new world, which is then observed.
PerformRestore ==
  /\ perform.pc = "restore"
  /\ content' \in Contents
  /\ \/ /\ known' = episode
        /\ journal' = [journal EXCEPT !.state = "restored", !.phase = "verified"]
        /\ workerActive' = FALSE /\ uncertain' = FALSE
        /\ perform' = [perform EXCEPT !.pc = "none"] /\ NoFault
     \/ /\ perform' = [perform EXCEPT !.pc = "fail"]
        /\ known' \in {known, episode}
        /\ Fault \/ NoFault
        /\ UNCHANGED <<journal, workerActive, uncertain>>
  /\ UNCHANGED <<reviews, episode, request, sessionVars, crashes>>

\* Mutant of PerformFail: the thread's end is not noted.
PerformFailSilently ==
  /\ perform.pc = "fail"
  /\ perform' = [perform EXCEPT !.pc = "none"]
  /\ journal' = [journal EXCEPT !.state =
        IF perform.switched THEN "needs_attention" ELSE "failed_before_switch"]
  /\ UNCHANGED <<workerActive, reviews, worldVars, known, request, sessionVars, uncertain,
                 crashes, faults>>

\* The failure is recorded if it can be; the gate stays closed once the
\* destructive call was attempted, whatever came of it.
PerformFail ==
  /\ perform.pc = "fail"
  /\ perform' = [perform EXCEPT !.pc = "none"]
  /\ workerActive' = FALSE
  /\ \/ /\ journal' = [journal EXCEPT !.state =
             IF perform.switched THEN "needs_attention" ELSE "failed_before_switch"]
        /\ NoFault
     \/ Fault /\ UNCHANGED journal
  /\ UNCHANGED <<reviews, worldVars, known, request, sessionVars, uncertain, crashes>>

PerformStep == PerformCheck \/ PerformLoad \/ PerformRestore \/ PerformFail
---------------------------------------------------------------------------------
\* The operator accepts the world as it is: nothing is restored or reloaded.
Acknowledge ==
  /\ LockFree /\ ~workerActive /\ Status = "needs_attention" /\ ~running
  /\ known' = episode
  /\ \/ journal' = [journal EXCEPT !.state = "acknowledged"] /\ uncertain' = FALSE /\ NoFault
     \/ Fault /\ UNCHANGED <<journal, uncertain>>
  /\ UNCHANGED <<workerActive, perform, reviews, worldVars, request, sessionVars, crashes>>
---------------------------------------------------------------------------------
(* simulation_operation: what an editor request does before it may act *)

RequestUnchanged == UNCHANGED <<journal, workerActive, perform, reviews, episode,
                                sessionVars, uncertain, crashes, faults>>

\* It notes the episode the bridge knows, and then asks the gate.
Arrive(q) ==
  /\ request[q].pc = "idle"
  /\ request' = [request EXCEPT ![q] = [pc |-> "arrived", entered |-> known,
                                        seen |-> episode]]
  /\ UNCHANGED <<content, known>> /\ RequestUnchanged

Admit(q) ==
  /\ request[q].pc = "arrived"
  /\ request' = [request EXCEPT ![q] = IF Pending THEN NoRequest ELSE [@ EXCEPT !.pc = "waiting"]]
  /\ UNCHANGED <<content, known>> /\ RequestUnchanged

\* check_episode: an unknown episode is not compared.
SameEpisode(q) == request[q].entered = 0 \/ known = 0 \/ request[q].entered = known

\* It has the lock: it is refused, or it edits the world it finds.
Act(q) ==
  /\ request[q].pc = "waiting" /\ LockFree
  /\ request' = [request EXCEPT ![q] = NoRequest]
  /\ IF SameEpisode(q) /\ WorldOpen
     THEN content' \in Contents /\ known' = episode
     ELSE UNCHANGED <<content, known>>
  /\ RequestUnchanged
---------------------------------------------------------------------------------
(* The execution session, seen from the gate: SessionLifecycle in four steps *)

SessionUnchanged == UNCHANGED <<journal, workerActive, perform, reviews, episode,
                                request, uncertain, crashes, faults>>

\* Mutant of RunBegins: start_e2e without connect_world's question to the gate.
RunBeginsUnasked ==
  /\ SessionBegins /\ known' = episode
  /\ UNCHANGED content /\ SessionUnchanged

\* start_e2e; it does not wait for the lock.
RunBegins ==
  /\ WorldOpen
  /\ SessionBegins /\ known' = episode
  /\ UNCHANGED content /\ SessionUnchanged

\* Its worker changes the world, and restore_editor_world does after it, for
\* which the finisher, a restarted bridge and the operator need the gate.  (If
\* both gates are closed the run has ended: the record is an old one.)
RunActs ==
  /\ running /\ LockFree /\ ~Pending
  /\ content' \in Contents
  /\ UNCHANGED <<known, sessionVars>> /\ SessionUnchanged

\* The journal goes on, or ends: that alone is not behind the gate.  A run that
\* has had the world ends after RunActs, another (never launched, a diagnostic)
\* needs nothing.
RunMoves ==
  /\ SessionMoves \/ SessionEnds
  /\ UNCHANGED <<content, known>> /\ SessionUnchanged
---------------------------------------------------------------------------------

\* The bridge dies and is started again; the files and the world remain.
CrashRestart ==
  /\ crashes < MaxCrashes /\ crashes' = crashes + 1
  /\ workerActive' = FALSE
  /\ perform' = [perform EXCEPT !.pc = "none"]
  /\ reviews' = [t \in Reviews |-> NoReview]
  /\ request' = [q \in Requests |-> NoRequest]
  /\ known' = 0
  /\ SessionRestarts
  /\ UNCHANGED <<journal, worldVars, uncertain, faults>>

HandoffNext ==
  \/ \E t \in Reviews : Preview(t) \/ ReviewExpires(t) \/ Confirm(t)
  \/ PerformStep
  \/ Acknowledge
  \/ \E q \in Requests : Arrive(q) \/ Admit(q) \/ Act(q)
  \/ RunBegins \/ RunActs \/ RunMoves
  \/ CrashRestart

HandoffSpec == HandoffInit /\ [][HandoffNext]_handoffVars

\* The handoff's thread waits only for the lock, which others hold briefly.
HandoffFairSpec == HandoffSpec /\ WF_handoffVars(PerformStep)
---------------------------------------------------------------------------------
(* Properties *)

\* The type of the gate's journal, of its thread and of what it excludes.
HandoffTypeOK ==
  /\ journal \in Journal \cup {NoJournal}
  /\ workerActive \in BOOLEAN
  /\ perform \in Performing
  /\ reviews \in [Reviews -> World \cup {NoReview}]
  /\ episode \in Episodes /\ content \in Contents /\ known \in 0..MaxEpisodes
  /\ request \in [Requests -> Request]
  /\ running \in BOOLEAN /\ recorded \in BOOLEAN /\ written \in BOOLEAN
  /\ uncertain \in BOOLEAN
  /\ crashes \in 0..MaxCrashes /\ faults \in 0..MaxFaults

\* At most one of the two gates is closed.  Each can only be opened again by
\* an operation the other one refuses: the recovery of a run that had the world
\* needs the map gate open, an acknowledgement needs the session idle.
GatesExclusive == ~(Pending /\ running)

\* The gates exclude each other through everything but a session journal
\* that could not be written: crashes between any two steps of the handoff,
\* failed writes of its own journal, a thread that cannot be started.
GatesExclusiveIfWritten == written => GatesExclusive

\* While nobody has verified or accepted a world that was put in place of
\* another, the gate is closed: through failed writes and crashes of the
\* bridge, no edit and no run can reach it.
UncertainWorldIsGated == uncertain => Pending

\* Both: no world that nobody vouches for is open, and no two closed gates wait
\* for each other (require_idle, connect_world and recover_session).
GatesHold == GatesExclusiveIfWritten /\ UncertainWorldIsGated

\* The thread is at work exactly while the flag says so, behind its journal.
ThreadBehindJournal ==
  /\ workerActive <=> perform.pc # "none"
  /\ workerActive => journal.state = "running"

\* Until it remembers the intent, the thread has changed nothing; it
\* remembers before it destroys anything.
IntentRemembered ==
  /\ perform.pc \in {"load", "restore"} => perform.switched
  /\ perform.pc # "none" /\ ~perform.switched => ~uncertain /\ known = episode

\* The world that is about to be destroyed is the reviewed one.
ReviewedIsHere ==
  /\ \A t \in Reviews : reviews[t] # NoReview => reviews[t].episode < MaxEpisodes
  /\ perform.pc = "queued" =>
       /\ perform.reviewed = perform.baseline
       /\ perform.baseline \in World /\ perform.baseline.episode = episode
  /\ perform.pc = "load" => perform.reviewed = Here
  /\ perform.pc \in {"queued", "load"} => episode < MaxEpisodes

\* What the bridge and its requests know of the episode is never ahead of it,
\* and right or nothing while the gate is open.
EpisodeKnown ==
  /\ known <= episode
  /\ ~Pending => known \in {0, episode}
  /\ known = 0 => \A q \in Requests : request[q].entered = 0
  /\ \A q \in Requests :
       request[q].entered <= request[q].seen /\ request[q].seen <= episode

SessionWritten == written => running = recorded

\* Inductive: why the gates hold.  Every part is needed for the others.
HandoffInv ==
  /\ HandoffTypeOK
  /\ ThreadBehindJournal
  /\ IntentRemembered
  /\ ReviewedIsHere
  /\ EpisodeKnown
  /\ SessionWritten
  /\ GatesExclusiveIfWritten
  /\ UncertainWorldIsGated

\* Only the world the operator reviewed is ever destroyed: the same episode
\* with the same content, whoever edited or ran in between.
OnlyReviewedWorldIsLost ==
  [][episode' # episode => perform.reviewed = Here]_handoffVars

\* A waiting request that knew its episode never edits the one that replaced
\* it.
WaitingEditMissesNewWorld ==
  [][\A q \in Requests :
       content' # content /\ request[q].pc = "waiting" /\ request'[q].pc = "idle"
         /\ request[q].entered # 0
         => request[q].seen = episode]_handoffVars

\* A confirmed handoff comes to rest, verified, failed or for the operator.
HandoffComesToRest == workerActive ~> ~workerActive
=================================================================================
