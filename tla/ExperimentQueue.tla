---------------------------- MODULE ExperimentQueue -----------------------------
(***************************************************************************)
(* The batch ledger, data/.../queue.json (experiment_queue.py), beside the *)
(* execution journal it is reconciled against.  Every operation reads the  *)
(* ledger, checks, changes and writes it under one exclusive file lock, so *)
(* each is one action; what happens between two of them is BatchDispatch.  *)
(*                                                                         *)
(* An attempt_id is a fresh uuid: attempt <<j, n>> is the n-th of job j.   *)
(* Timestamps, plan digests and file syncing are left out.                 *)
(***************************************************************************)
EXTENDS ExecutionJournal

CONSTANTS NumJobs,      \* jobs of the plan, in plan order 1..NumJobs
          MaxAttempts,  \* attempts kept per job; 20 in the code
          NoRun         \* execution_id None

Jobs == 1..NumJobs

AttemptIds == Jobs \X (1..MaxAttempts)

ASSUME QueueAssumption ==
  /\ NumJobs \in Nat
  /\ MaxAttempts \in Nat \ {0}
  /\ Tags = AttemptIds
  /\ NoRun \notin Runs

VARIABLES
  job,      \* job[j]: the job's state in the ledger
  tries,    \* tries[j]: how many attempts the ledger holds for j
  attempt,  \* attempt[a]: the attempt's state and the execution bound to it
  paused,   \* no new claims
  refused   \* history: write() raised, an outgoing update was not valid

queueVars == <<records, job, tries, attempt, paused, refused>>

Active == {"reserved", "running"}
Retryable == {"failed", "stopped"}

Attempt == [state     : {"none"} \cup Active \cup Settled,
            execution : Runs \cup {NoRun}]

Unissued == [state |-> "none", execution |-> NoRun]

Latest(j) == <<j, tries[j]>>

\* SessionJournal.find_batch_attempt: the executions that name attempt a.
Find(a) == {r \in Runs : records[r].tag = a}

---------------------------------------------------------------------------------
\* validate_ledger, part by part, of a ledger (J, T, A) about to be written.
Issued(T) == {a \in AttemptIds : a[2] <= T[a[1]]}

CountBounded(T) == \A j \in Jobs : T[j] <= MaxAttempts

JobMatchesLatest(J, T, A) ==
  \A j \in Jobs :
    IF J[j] = "pending"
    THEN T[j] >= 1 => A[<<j, T[j]>>].state \in Retryable
    ELSE T[j] >= 1 /\ A[<<j, T[j]>>].state = J[j]

HistoryRetryable(T, A) ==
  \A a \in Issued(T) : a[2] < T[a[1]] => A[a].state \in Retryable

BindingMatchesState(T, A) ==
  \A a \in Issued(T) :
    /\ A[a].state = "reserved" => A[a].execution = NoRun
    /\ A[a].state \in {"running", "completed"} => A[a].execution # NoRun

BindingUnique(T, A) ==
  \A a, b \in Issued(T) :
    A[a].execution = A[b].execution /\ A[a].execution # NoRun => a = b

OneActive(J) == \A j, k \in Jobs : J[j] \in Active /\ J[k] \in Active => j = k

ValidLedger(J, T, A) ==
  /\ CountBounded(T)
  /\ JobMatchesLatest(J, T, A)
  /\ HistoryRetryable(T, A)
  /\ BindingMatchesState(T, A)
  /\ BindingUnique(T, A)
  /\ OneActive(J)

\* ExperimentQueue.write: validate, then replace the file or raise.
Write(J, T, A) ==
  IF ValidLedger(J, T, A)
  THEN job' = J /\ tries' = T /\ attempt' = A /\ refused' = refused
  ELSE refused' = TRUE /\ UNCHANGED <<job, tries, attempt>>
---------------------------------------------------------------------------------
QueueInit ==
  /\ JournalInit
  /\ job = [j \in Jobs |-> "pending"]
  /\ tries = [j \in Jobs |-> 0]
  /\ attempt = [a \in AttemptIds |-> Unissued]
  /\ paused = FALSE
  /\ refused = FALSE

\* Mutant of Claim: a retried job reuses its last attempt.
ClaimReusing(j) ==
  LET n == IF tries[j] = 0 THEN 1 ELSE tries[j] IN
  /\ ~paused
  /\ \A k \in Jobs : job[k] \notin Active
  /\ job[j] = "pending" /\ \A k \in Jobs : k < j => job[k] # "pending"
  /\ Write([job EXCEPT ![j] = "reserved"], [tries EXCEPT ![j] = n],
           [attempt EXCEPT ![<<j, n>>] = [state |-> "reserved", execution |-> NoRun]])
  /\ UNCHANGED <<records, paused>>

\* claim: the first pending job in plan order, if nothing is unresolved.
Claim(j) ==
  /\ ~paused
  /\ \A k \in Jobs : job[k] \notin Active
  /\ job[j] = "pending" /\ \A k \in Jobs : k < j => job[k] # "pending"
  /\ Write([job EXCEPT ![j] = "reserved"],
           [tries EXCEPT ![j] = @ + 1],
           [attempt EXCEPT ![<<j, tries[j] + 1>>] =
              [state |-> "reserved", execution |-> NoRun]])
  /\ UNCHANGED <<records, paused>>

\* update_attempt with an execution, or recover_binding: the one execution
\* that names the reserved attempt is bound to it.
Bind(j, r) ==
  /\ job[j] = "reserved"
  /\ Find(Latest(j)) = {r}
  /\ Write([job EXCEPT ![j] = "running"], tries,
           [attempt EXCEPT ![Latest(j)] = [state |-> "running", execution |-> r]])
  /\ UNCHANGED <<records, paused>>

\* Mutant of PrepareFailed: a reservation is failed although its start
\* request may have been served.
PrepareFailedLate(j) ==
  /\ job[j] = "reserved"
  /\ Write([job EXCEPT ![j] = "failed"], tries,
           [attempt EXCEPT ![Latest(j)].state = "failed"])
  /\ UNCHANGED <<records, paused>>

\* update_attempt with outcome "failed": the scenario could not be prepared,
\* and no start request was sent for the attempt.
PrepareFailed(j) ==
  /\ job[j] = "reserved"
  /\ Find(Latest(j)) = {}
  /\ Write([job EXCEPT ![j] = "failed"], tries,
           [attempt EXCEPT ![Latest(j)].state = "failed"])
  /\ UNCHANGED <<records, paused>>

\* reconcile: the bound execution belongs to the attempt, is closed, and its
\* recorded process is gone; the ledger takes over the outcome.
Reconcile(j) ==
  LET r == attempt[Latest(j)].execution IN
  /\ job[j] = "running"
  /\ records[r].tag = Latest(j)
  /\ records[r].phase \in Settled
  /\ records[r].worker # "live"
  /\ Write([job EXCEPT ![j] = records[r].phase], tries,
           [attempt EXCEPT ![Latest(j)].state = records[r].phase])
  /\ UNCHANGED <<records, paused>>

\* Mutant of Retry: the attempt limit is left to write().
RetryPastLimit(j) ==
  /\ job[j] \in Retryable
  /\ Write([job EXCEPT ![j] = "pending"], tries, attempt)
  /\ UNCHANGED <<records, paused>>

\* retry: a failed or stopped job is pending again, up to the limit.
Retry(j) ==
  /\ job[j] \in Retryable
  /\ tries[j] < MaxAttempts
  /\ Write([job EXCEPT ![j] = "pending"], tries, attempt)
  /\ UNCHANGED <<records, paused>>

SetPaused(b) ==
  /\ Write(job, tries, attempt)
  /\ paused' = b
  /\ UNCHANGED records

\* The journal moves on its own; a batch run begins only for a reservation.
JournalStep ==
  /\ \E r \in Runs :
       \/ \E t \in Tags : attempt[t].state = "reserved" /\ Begin(r, t)
       \/ Begin(r, NoTag)
       \/ Launch(r)
       \/ Exit(r)
       \/ \E outcome \in Settled : Close(r, outcome)
  /\ UNCHANGED <<job, tries, attempt, paused, refused>>

LedgerStep(j) ==
  \/ Claim(j)
  \/ \E r \in Runs : Bind(j, r)
  \/ PrepareFailed(j)
  \/ Reconcile(j)
  \/ Retry(j)

QueueNext ==
  \/ \E j \in Jobs : LedgerStep(j)
  \/ \E b \in BOOLEAN : SetPaused(b)
  \/ JournalStep

QueueSpec == QueueInit /\ [][QueueNext]_queueVars
---------------------------------------------------------------------------------
\* The type of the ledger and of the journal beside it.
QueueTypeOK ==
  /\ JournalType
  /\ job \in [Jobs -> {"pending"} \cup Active \cup Settled]
  /\ tries \in [Jobs -> 0..MaxAttempts]
  /\ attempt \in [AttemptIds -> Attempt]
  /\ paused \in BOOLEAN
  /\ refused \in BOOLEAN

\* No legal sequence of operations ever produces a ledger that write()'s own
\* validation refuses: the validation guards against foreign edits only, and
\* the scheduler can never wedge itself on it (queue_integrity.py).
NoWriteRefused == ~refused

\* A bound attempt is bound to the execution that was launched for it, never
\* to the execution of another attempt or of the page.
BoundToOwnRun ==
  \A a \in AttemptIds :
    attempt[a].execution # NoRun => records[attempt[a].execution].tag = a

\* An attempt the ledger calls ended really has: its execution carries that
\* outcome and has no worker; and an attempt that ended without an execution
\* never got one, not even later (a delayed start request).
SettledMatchesJournal ==
  \A a \in AttemptIds :
    attempt[a].state \in Settled =>
      IF attempt[a].execution = NoRun
      THEN Find(a) = {}
      ELSE /\ records[attempt[a].execution].phase = attempt[a].state
           /\ records[attempt[a].execution].worker # "live"

\* An open execution of the batch always has its reservation or binding in
\* the ledger: nothing a client does loses track of a run in progress.
OpenRunIsHeld ==
  \A r \in Runs :
    records[r].phase = "open" /\ records[r].tag # NoTag =>
      /\ job[records[r].tag[1]] \in Active
      /\ records[r].tag = Latest(records[r].tag[1])

\* Retries add attempts and never rewrite one: an ended attempt keeps its
\* outcome and its execution, and the number of attempts never falls.
HistoryKept ==
  [][/\ \A a \in AttemptIds :
          attempt[a].state \in Settled => attempt'[a] = attempt[a]
     /\ \A j \in Jobs : tries'[j] >= tries[j]]_queueVars

\* While the batch is paused no attempt is added, whatever the client that
\* claims had seen before the pause.
PauseStopsClaims ==
  [][paused => tries' = tries]_queueVars
---------------------------------------------------------------------------------
\* Why the above holds for every number of jobs, attempts and runs: the
\* inductive invariant.  An attempt not yet issued is blank; a pending job has
\* room for one more attempt, because only Retry makes a job pending again and
\* it checks the limit that write() enforces; no two runs name one attempt.
UnissuedBlank ==
  \A a \in AttemptIds : a[2] > tries[a[1]] => attempt[a] = Unissued

RoomForClaim == \A j \in Jobs : job[j] = "pending" => tries[j] < MaxAttempts

TagsUnique ==
  \A q, r \in Runs : records[q].tag = records[r].tag /\ records[q].tag # NoTag => q = r

\* The inductive invariant: together these parts are kept by every step.
QueueInv ==
  /\ QueueTypeOK
  /\ NoWriteRefused
  /\ ValidLedger(job, tries, attempt)
  /\ UnissuedBlank
  /\ RoomForClaim
  /\ TagsUnique
  /\ BoundToOwnRun
  /\ SettledMatchesJournal
  /\ OpenRunIsHeld
=================================================================================
