----------------------------- MODULE BatchDispatch ------------------------------
(***************************************************************************)
(* The dispatcher that moves a batch forward one step at a time            *)
(* (experiment_dispatch.advance_queue), the loop that repeats it           *)
(* (batch_runner.run_batch, in the bridge as BatchService and in           *)
(* tools/run_batch_queue.py), and the start requests it sends.  A step     *)
(* spans several locked ledger operations and one request: between them    *)
(* the operator pauses and retries, the page starts runs, and the client   *)
(* may die.  The ledger's operations are those of ExperimentQueue.         *)
(***************************************************************************)
EXTENDS ExperimentQueue, FiniteSets

CONSTANTS Clients,  \* processes and threads that advance the batch
          InBridge  \* those inside the bridge: their request is a call, and
                    \* they may loop; a client outside makes single steps

ASSUME DispatchAssumption == InBridge \subseteq Clients

VARIABLES
  client,    \* client[c]: where c is in _advance, the attempt, the answer
  requests,  \* attempts whose start request was posted
  sched      \* sched[c]: the record of c's run_batch loop

dispatchVars == <<queueVars, client, requests, sched>>

Client == [pc    : {"idle", "bind", "reconcile", "preflight", "claim", "prepare",
                    "await", "confirm"},
           at    : AttemptIds \cup {NoTag},
           reply : Runs \cup {NoRun}]

Away == [pc |-> "idle", at |-> NoTag, reply |-> NoRun]

JobAt(c) == client[c].at[1]

\* dispatch.lock, tried without blocking and held for the whole step.
LockFree == \A c \in Clients : client[c].pc = "idle"

\* What start_e2e checks: no session is active and no worker alive.
WorldFree == \A r \in Runs : records[r].phase # "open" /\ records[r].worker # "live"

\* A client inside the bridge holds the simulation lock during its step, so
\* only its own request is served.
SimBusyFor(a) ==
  \E c \in InBridge :
    client[c].pc # "idle" /\ ~(client[c].pc = "await" /\ client[c].at = a)

GoTo(c, pc) == client' = [client EXCEPT ![c].pc = pc]

\* Mutant of Verdict: with nothing left to claim the batch is complete.
VerdictNothingPending(action) ==
  CASE action \in {"started", "bound", "reconciled", "still_running"} -> "running"
    [] action = "paused"                                              -> "paused"
    [] action = "no_pending_jobs"                                     -> "completed"
    [] OTHER                                                          -> "needs_attention"

\* What run_batch makes of a step's action: it goes on after a start, a
\* binding, and an end that is not a failure, and stops on all else.
Verdict(action) ==
  CASE action \in {"started", "bound", "reconciled", "still_running"} -> "running"
    [] action = "paused"                                              -> "paused"
    [] action = "no_pending_jobs" /\ \A j \in Jobs : job[j] = "completed" -> "completed"
    [] OTHER                                                          -> "needs_attention"

\* The step of c returns, or raises: the lock is released, a loop judges.
Return(c, action) ==
  /\ client' = [client EXCEPT ![c] = Away]
  /\ sched' = [sched EXCEPT ![c] = IF @ = "running" THEN Verdict(action) ELSE @]
---------------------------------------------------------------------------------
DispatchInit ==
  /\ QueueInit
  /\ client = [c \in Clients |-> Away]
  /\ requests = {}
  /\ sched = [c \in Clients |-> "off"]

\* _advance: read the ledger; the active attempt first, else a new claim.
Look(c) ==
  /\ client[c].pc = "idle"
  /\ \/ ~LockFree /\ Return(c, "dispatcher_busy")
     \/ \E j \in Jobs :
          /\ LockFree /\ job[j] \in Active
          /\ client' = [client EXCEPT ![c] =
               [Away EXCEPT !.pc = IF job[j] = "reserved" THEN "bind" ELSE "reconcile",
                            !.at = Latest(j)]]
          /\ UNCHANGED sched
     \/ /\ LockFree /\ \A j \in Jobs : job[j] \notin Active
        /\ CASE paused -> Return(c, "paused")
             [] ~paused /\ \E j \in Jobs : job[j] = "pending"
                  -> GoTo(c, "preflight") /\ UNCHANGED sched
             [] OTHER -> Return(c, "no_pending_jobs")
  /\ UNCHANGED <<queueVars, requests>>

\* Mutant of RecoverBinding: a reservation without an execution is failed.
RecoverByFailing(c) ==
  /\ client[c].pc = "bind"
  /\ \/ /\ \E r \in Runs : Bind(JobAt(c), r)
        /\ Return(c, "bound")
     \/ PrepareFailed(JobAt(c)) /\ Return(c, "failed")
  /\ UNCHANGED requests

\* recover_binding: absence of an execution never restarts the attempt.
RecoverBinding(c) ==
  /\ client[c].pc = "bind"
  /\ \/ /\ \E r \in Runs : Bind(JobAt(c), r)
        /\ Return(c, "bound")
     \/ /\ Find(client[c].at) = {} /\ UNCHANGED queueVars
        /\ Return(c, "not_bound")
  /\ UNCHANGED requests

\* Mutant of ReconcileStep: only a completed execution is taken over.
ReconcileCompleted(c) ==
  /\ client[c].pc = "reconcile"
  /\ LET j == JobAt(c)
         r == attempt[client[c].at].execution
     IN  \/ records[r].phase = "completed" /\ Reconcile(j) /\ Return(c, "reconciled")
         \/ /\ records[r].phase # "completed" \/ records[r].worker = "live"
            /\ UNCHANGED queueVars /\ Return(c, "still_running")
  /\ UNCHANGED requests

\* reconcile: the execution has ended, or the step only reports on it.
ReconcileStep(c) ==
  /\ client[c].pc = "reconcile"
  /\ LET j == JobAt(c)
         r == attempt[client[c].at].execution
     IN  \/ /\ Reconcile(j)
            /\ Return(c, IF records[r].phase = "completed" THEN "reconciled" ELSE "failed")
         \/ /\ records[r].phase \notin Settled \/ records[r].worker = "live"
            /\ UNCHANGED queueVars /\ Return(c, "still_running")
  /\ UNCHANGED requests

\* system_preflight: ready only if nothing runs; disk, map handoff and the
\* simulator may also say no.
Preflight(c) ==
  /\ client[c].pc = "preflight"
  /\ \/ WorldFree /\ GoTo(c, "claim") /\ UNCHANGED sched
     \/ Return(c, "preflight_blocked")
  /\ UNCHANGED <<queueVars, requests>>

\* claim reads the ledger again: the batch may have been paused since.
ClaimStep(c) ==
  /\ client[c].pc = "claim"
  /\ \/ paused /\ UNCHANGED queueVars /\ Return(c, "not_claimed")
     \/ \E j \in Jobs :
          /\ Claim(j)
          /\ client' = [client EXCEPT ![c].pc = "prepare",
                                      ![c].at = <<j, tries[j] + 1>>]
          /\ UNCHANGED sched
  /\ UNCHANGED requests

\* The scenario is generated and the start request sent, or the attempt fails.
Prepare(c) ==
  /\ client[c].pc = "prepare"
  /\ \/ /\ requests' = requests \cup {client[c].at}
        /\ GoTo(c, "await") /\ UNCHANGED <<queueVars, sched>>
     \/ /\ PrepareFailed(JobAt(c)) /\ UNCHANGED requests
        /\ Return(c, "preparation_failed")

\* The answer is checked against the journal before the attempt is bound.
Confirm(c) ==
  /\ client[c].pc = "confirm"
  /\ \/ /\ Find(client[c].at) = {client[c].reply}
        /\ Bind(JobAt(c), client[c].reply)
        /\ Return(c, "started")
     \/ /\ Find(client[c].at) # {client[c].reply}
        /\ UNCHANGED queueVars /\ Return(c, "raised")
  /\ UNCHANGED requests

\* The request or its answer is lost, or times out: the reservation stays.
Timeout(c) ==
  /\ client[c].pc = "await" /\ c \notin InBridge
  /\ Return(c, "raised")
  /\ UNCHANGED <<queueVars, requests>>
---------------------------------------------------------------------------------
(* start_e2e on a request for attempt a.  A posted request may be delivered *)
(* late, after its client is gone, or again.                               *)

\* Deliver the answer r to whoever still waits for it; NoRun is an error.
Answer(a, r) ==
  LET waiting == {c \in Clients : client[c].pc = "await" /\ client[c].at = a} IN
  /\ client' = [c \in Clients |->
       IF c \notin waiting THEN client[c]
       ELSE IF r = NoRun THEN Away
       ELSE [client[c] EXCEPT !.pc = "confirm", !.reply = r]]
  /\ sched' = [c \in Clients |->
       IF c \in waiting /\ r = NoRun /\ sched[c] = "running"
       THEN "needs_attention" ELSE sched[c]]

\* existing_batch_request: the attempt has its execution already.
Replay(a) == \E r \in Find(a) : Answer(a, r) /\ UNCHANGED queueVars

\* Mutant of Admit: a request is not compared with the runs of its attempt.
AdmitAgain(a) ==
  /\ WorldFree /\ ~SimBusyFor(a)
  /\ \E r \in Runs :
       /\ records[r] = Absent
       /\ records' = [records EXCEPT
                        ![r] = [phase |-> "open", tag |-> a, worker |-> "none"]]
       /\ Answer(a, r) \/ Answer(a, NoRun)
  /\ UNCHANGED <<job, tries, attempt, paused, refused>>

\* The session is begun; what fails after that is an error to the client.
Admit(a) ==
  /\ Find(a) = {} /\ WorldFree /\ ~SimBusyFor(a)
  /\ \E r \in Runs :
       /\ records[r] = Absent
       /\ records' = [records EXCEPT
                        ![r] = [phase |-> "open", tag |-> a, worker |-> "none"]]
       /\ Answer(a, r) \/ Answer(a, NoRun)
  /\ UNCHANGED <<job, tries, attempt, paused, refused>>

\* Something else has the world, or a check before begin fails.
Refuse(a) == Find(a) = {} /\ Answer(a, NoRun) /\ UNCHANGED queueVars

Serve(a) ==
  /\ a \in requests
  /\ Replay(a) \/ Admit(a) \/ Refuse(a)
  /\ UNCHANGED requests
---------------------------------------------------------------------------------
\* Everybody else: the page's own runs, the workers, the bridge's threads.
World ==
  /\ \E r \in Runs :
       \/ ~SimBusyFor(NoTag) /\ Begin(r, NoTag)
       \/ Launch(r)
       \/ Exit(r)
       \/ \E outcome \in Settled : Close(r, outcome)
  /\ UNCHANGED <<job, tries, attempt, paused, refused, client, requests, sched>>

\* The operator pauses, resumes and retries.
Operator ==
  /\ \/ \E b \in BOOLEAN : SetPaused(b)
     \/ \E j \in Jobs : Retry(j)
  /\ UNCHANGED <<client, requests, sched>>

\* BatchService.start and cancel; a cancelled loop ends between two steps.
SchedulerStart(c) ==
  /\ c \in InBridge
  /\ sched[c] # "running" /\ client[c].pc = "idle"
  /\ sched' = [sched EXCEPT ![c] = "running"]
  /\ UNCHANGED <<queueVars, client, requests>>

SchedulerCancel(c) ==
  /\ sched[c] = "running" /\ client[c].pc = "idle"
  /\ sched' = [sched EXCEPT ![c] = "cancelled"]
  /\ UNCHANGED <<queueVars, client, requests>>

\* The process of c dies: its lock is released, its loop is gone, and a
\* restarted bridge starts none by itself.
ClientCrash(c) ==
  /\ client' = [client EXCEPT ![c] = Away]
  /\ sched' = [sched EXCEPT ![c] = "off"]
  /\ UNCHANGED <<queueVars, requests>>

AdvanceStep(c) ==
  Look(c) \/ RecoverBinding(c) \/ ReconcileStep(c) \/ Preflight(c) \/ ClaimStep(c)
  \/ Prepare(c) \/ Confirm(c) \/ Timeout(c)

DispatchNext ==
  \/ \E c \in Clients : \/ AdvanceStep(c)
                        \/ SchedulerStart(c) \/ SchedulerCancel(c)
                        \/ ClientCrash(c)
  \/ \E a \in Tags : Serve(a)
  \/ World
  \/ Operator

DispatchSpec == DispatchInit /\ [][DispatchNext]_dispatchVars
---------------------------------------------------------------------------------
(* Properties *)

\* The type of the dispatchers' state.
DispatchTypeOK ==
  /\ QueueTypeOK
  /\ client \in [Clients -> Client]
  /\ requests \subseteq Tags
  /\ sched \in [Clients -> {"off", "running", "paused", "completed", "needs_attention",
                             "cancelled"}]

\* Read, decide, call and bind in separate steps, by clients that die and
\* over requests that come late or twice, do to the ledger and the journal
\* only what ExperimentQueue allows; so its theorems hold here too.
ImplementsQueue == QueueSpec

\* However often and however late its request is delivered, an attempt gets
\* at most one execution.
OneRunPerAttempt == \A a \in Tags : Cardinality(Find(a)) <= 1

\* A loop that reports completed has seen every job of the batch complete.
CompletedMeansAll ==
  \A c \in Clients : sched[c] = "completed" => \A j \in Jobs : job[j] = "completed"

\* A client that believes it is launching an attempt holds the reservation:
\* nobody else has bound, failed or replaced the attempt meanwhile, and none
\* has launched it, so a failed preparation can be recorded as such.
LauncherHoldsReservation ==
  \A c \in Clients :
    client[c].pc \in {"prepare", "await", "confirm"} =>
      /\ job[JobAt(c)] = "reserved" /\ client[c].at = Latest(JobAt(c))
      /\ client[c].pc = "prepare" =>
           client[c].at \notin requests /\ Find(client[c].at) = {}

\* Once the execution of an attempt has ended, a loop that keeps running
\* takes its outcome into the ledger.
DispatchFairness ==
  /\ \A c \in Clients : WF_dispatchVars(sched[c] = "running" /\ AdvanceStep(c))
  /\ \A a \in Tags : WF_dispatchVars(Serve(a) /\ \E c \in InBridge : client[c].at = a)

DispatchLive == DispatchSpec /\ DispatchFairness

EndedRunIsReconciled ==
  \A c \in Clients : \A a \in Tags :
    (sched[c] = "running" /\ \E r \in Find(a) : records[r].phase \in Settled
                                               /\ records[r].worker # "live")
      ~> (attempt[a].state \in Settled \/ sched[c] # "running")
---------------------------------------------------------------------------------
\* The inductive invariant behind ImplementsQueue, beside QueueInv: one step
\* holds the lock, its attempt is an attempt, an execution was requested, and
\* a request that has not led to one still has its reservation.
OneHolder ==
  \A c, d \in Clients : client[c].pc # "idle" /\ client[d].pc # "idle" => c = d

StepHasAttempt ==
  \A c \in Clients :
    client[c].pc \in {"bind", "reconcile", "prepare", "await", "confirm"}
      => client[c].at \in AttemptIds

RequestsReserved ==
  \A a \in AttemptIds :
    /\ a \in requests => attempt[a].state # "none"
    /\ a \in requests /\ Find(a) = {} => attempt[a].state = "reserved"
    /\ Find(a) # {} => a \in requests

DispatchInv ==
  /\ QueueInv
  /\ DispatchTypeOK
  /\ OneHolder
  /\ StepHasAttempt
  /\ RequestsReserved
  /\ LauncherHoldsReservation
=================================================================================
