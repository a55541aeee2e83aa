------------------------------ MODULE Batch_proofs -----------------------------
(***************************************************************************)
(* Machine-checked: what MCLedger shows for two jobs and two attempts      *)
(* holds for every plan, every attempt limit and every set of executions;  *)
(* and the dispatcher implements the queue, for any clients, any batch and *)
(* any delivery of the start requests, so the theorems about the queue are *)
(* theorems about the dispatcher; and a report read while the batch goes   *)
(* on stays true, for any plan.  The inductive invariants are QueueInv     *)
(* (ExperimentQueue), DispatchInv (BatchDispatch) and ReportInv            *)
(* (ExperimentReports).                                                    *)
(***************************************************************************)
EXTENDS BatchDispatch, ExperimentReports, FiniteSetTheorems, TLAPS

-----------------------------------------------------------------------------
(* ExperimentQueue: the ledger and the journal beside it.                  *)

\* Attempt ids are pairs.
LEMMA AttemptPair ==
  ASSUME NEW a \in AttemptIds
  PROVE  /\ a = <<a[1], a[2]>>
         /\ a[1] \in Jobs
         /\ a[2] \in 1..MaxAttempts
BY DEF AttemptIds

\* A job that was ever claimed has a latest attempt.
LEMMA LatestIssued ==
  ASSUME QueueTypeOK, ValidLedger(job, tries, attempt),
         NEW j \in Jobs, job[j] # "pending"
  PROVE  /\ Latest(j) \in AttemptIds
         /\ Latest(j) \in Issued(tries)
         /\ attempt[Latest(j)].state = job[j]
         /\ tries[j] \in 1..MaxAttempts
<1>1. tries[j] >= 1 /\ tries[j] \in 0..MaxAttempts /\ MaxAttempts \in Nat
  BY QueueAssumption DEF QueueTypeOK, ValidLedger, JobMatchesLatest
<1>2. tries[j] \in 1..MaxAttempts
  BY <1>1
<1>3. <<j, tries[j]>> \in AttemptIds
  BY <1>2 DEF AttemptIds
<1>4. attempt[<<j, tries[j]>>].state = job[j]
  BY DEF ValidLedger, JobMatchesLatest
<1> QED
  BY <1>1, <1>2, <1>3, <1>4 DEF Latest, Issued

\* The initial ledger satisfies the inductive invariant.
LEMMA InitInv == QueueInit => QueueInv
<1> SUFFICES ASSUME QueueInit PROVE QueueInv
  OBVIOUS
<1> USE DEF QueueInit
<1>1. QueueTypeOK
  <2>1. Absent \in Record /\ Unissued \in Attempt
    BY DEF Absent, Record, Attempt, Unissued
  <2>2. JournalType
    BY <2>1 DEF JournalType, JournalInit
  <2>3. 0 \in 0..MaxAttempts
    BY QueueAssumption
  <2> QED
    BY <2>1, <2>2, <2>3 DEF QueueTypeOK
<1>2. NoWriteRefused
  BY DEF NoWriteRefused
<1>3. ValidLedger(job, tries, attempt)
  <2>1. Issued(tries) = {}
    BY AttemptPair DEF Issued
  <2>2. CountBounded(tries)
    BY QueueAssumption DEF CountBounded
  <2>3. JobMatchesLatest(job, tries, attempt)
    BY DEF JobMatchesLatest
  <2>4. OneActive(job)
    BY DEF OneActive, Active
  <2> QED
    BY <2>1, <2>2, <2>3, <2>4
       DEF ValidLedger, HistoryRetryable, BindingMatchesState, BindingUnique
<1>4. UnissuedBlank /\ RoomForClaim
  BY QueueAssumption DEF UnissuedBlank, RoomForClaim
<1>5. TagsUnique /\ OpenRunIsHeld
  BY DEF TagsUnique, OpenRunIsHeld, JournalInit, Absent
<1>6. BoundToOwnRun /\ SettledMatchesJournal
  BY DEF BoundToOwnRun, SettledMatchesJournal, Unissued, Settled
<1> QED
  BY <1>1, <1>2, <1>3, <1>4, <1>5, <1>6 DEF QueueInv
---------------------------------------------------------------------------------
\* What the three operations that move the active attempt on write (bind,
\* preparation failed, reconcile) is a valid ledger, provided an execution is
\* bound to one attempt only.
LEMMA MoveIsValid ==
  ASSUME QueueTypeOK, ValidLedger(job, tries, attempt),
         NEW j \in Jobs, job[j] \in Active,
         NEW s \in {"running"} \cup Settled,
         NEW e \in Runs \cup {NoRun},
         s \in {"running", "completed"} => e # NoRun,
         \A b \in AttemptIds :
           attempt[b].execution = e /\ e # NoRun => b = Latest(j)
  PROVE  ValidLedger([job EXCEPT ![j] = s], tries,
                     [attempt EXCEPT ![Latest(j)] = [state |-> s, execution |-> e]])
<1> DEFINE J == [job EXCEPT ![j] = s]
           A == [attempt EXCEPT ![Latest(j)] = [state |-> s, execution |-> e]]
<1>1. Latest(j) \in AttemptIds
  BY LatestIssued DEF Active
<1>2. /\ A[Latest(j)] = [state |-> s, execution |-> e]
      /\ \A a \in AttemptIds : a # Latest(j) => A[a] = attempt[a]
  BY <1>1 DEF QueueTypeOK
<1>3. J[j] = s /\ \A k \in Jobs : k # j => J[k] = job[k]
  BY DEF QueueTypeOK
<1>4. tries[j] >= 1
  BY DEF ValidLedger, JobMatchesLatest, Active
<1>5. \A k \in Jobs : tries[k] >= 1 => <<k, tries[k]>> \in AttemptIds
  BY QueueAssumption DEF QueueTypeOK, AttemptIds
<1>6. CountBounded(tries)
  BY DEF ValidLedger
<1>7. JobMatchesLatest(J, tries, A)
  <2> SUFFICES ASSUME NEW k \in Jobs
               PROVE  IF J[k] = "pending"
                      THEN tries[k] >= 1 => A[<<k, tries[k]>>].state \in Retryable
                      ELSE tries[k] >= 1 /\ A[<<k, tries[k]>>].state = J[k]
    BY DEF JobMatchesLatest
  <2>1. CASE k = j
    BY <2>1, <1>2, <1>3, <1>4 DEF Latest, Settled
  <2>2. CASE k # j
    <3>1. <<k, tries[k]>> # Latest(j)
      BY <2>2 DEF Latest
    <3> QED
      BY <2>2, <3>1, <1>2, <1>3, <1>5 DEF ValidLedger, JobMatchesLatest
  <2> QED
    BY <2>1, <2>2
<1>8. HistoryRetryable(tries, A)
  <2> SUFFICES ASSUME NEW a \in Issued(tries), a[2] < tries[a[1]]
               PROVE  A[a].state \in Retryable
    BY DEF HistoryRetryable
  <2>1. a # Latest(j)
    BY DEF Latest, QueueTypeOK
  <2> QED
    BY <2>1, <1>2 DEF ValidLedger, HistoryRetryable, Issued
<1>9. BindingMatchesState(tries, A)
  <2> SUFFICES ASSUME NEW a \in Issued(tries)
               PROVE  /\ A[a].state = "reserved" => A[a].execution = NoRun
                      /\ A[a].state \in {"running", "completed"} => A[a].execution # NoRun
    BY DEF BindingMatchesState
  <2>1. CASE a = Latest(j)
    BY <2>1, <1>2 DEF Settled
  <2>2. CASE a # Latest(j)
    BY <2>2, <1>2 DEF ValidLedger, BindingMatchesState, Issued
  <2> QED
    BY <2>1, <2>2
<1>10. BindingUnique(tries, A)
  <2> SUFFICES ASSUME NEW a \in Issued(tries), NEW b \in Issued(tries),
                      A[a].execution = A[b].execution, A[a].execution # NoRun
               PROVE  a = b
    BY DEF BindingUnique
  <2>1. a \in AttemptIds /\ b \in AttemptIds
    BY DEF Issued
  <2>2. CASE a = Latest(j) \/ b = Latest(j)
    BY <2>1, <2>2, <1>2
  <2>3. CASE a # Latest(j) /\ b # Latest(j)
    BY <2>1, <2>3, <1>2 DEF ValidLedger, BindingUnique
  <2> QED
    BY <2>2, <2>3
<1>11. OneActive(J)
  BY <1>3 DEF ValidLedger, OneActive
<1> QED
  BY <1>6, <1>7, <1>8, <1>9, <1>10, <1>11 DEF ValidLedger

\* What claim() writes is a valid ledger.
LEMMA ClaimIsValid ==
  ASSUME QueueTypeOK, ValidLedger(job, tries, attempt), UnissuedBlank,
         RoomForClaim, NEW j \in Jobs, job[j] = "pending",
         \A k \in Jobs : job[k] \notin Active
  PROVE  /\ <<j, tries[j] + 1>> \in AttemptIds
         /\ ValidLedger([job EXCEPT ![j] = "reserved"],
                        [tries EXCEPT ![j] = @ + 1],
                        [attempt EXCEPT ![<<j, tries[j] + 1>>] =
                           [state |-> "reserved", execution |-> NoRun]])
<1> DEFINE n == <<j, tries[j] + 1>>
           J == [job EXCEPT ![j] = "reserved"]
           T == [tries EXCEPT ![j] = @ + 1]
           A == [attempt EXCEPT ![n] = [state |-> "reserved", execution |-> NoRun]]
<1>1. /\ tries[j] \in Nat /\ tries[j] < MaxAttempts
      /\ MaxAttempts \in Nat
      /\ \A k \in Jobs : tries[k] \in Nat /\ tries[k] <= MaxAttempts
  BY QueueAssumption DEF QueueTypeOK, RoomForClaim
<1>2. n \in AttemptIds
  BY <1>1 DEF AttemptIds
<1>3. /\ A[n] = [state |-> "reserved", execution |-> NoRun]
      /\ \A a \in AttemptIds : a # n => A[a] = attempt[a]
  BY <1>2 DEF QueueTypeOK
<1>4. /\ J[j] = "reserved" /\ T[j] = tries[j] + 1
      /\ \A k \in Jobs : k # j => J[k] = job[k] /\ T[k] = tries[k]
  BY DEF QueueTypeOK
<1>5. \A k \in Jobs : tries[k] >= 1 => <<k, tries[k]>> \in AttemptIds
  BY <1>1 DEF AttemptIds
<1>6. \A a \in Issued(T) : a # n => a \in Issued(tries)
  <2> SUFFICES ASSUME NEW a \in Issued(T), a # n
               PROVE  a[2] <= tries[a[1]]
    BY DEF Issued
  <2>1. a \in AttemptIds /\ a[2] <= T[a[1]]
    BY DEF Issued
  <2>2. a = <<a[1], a[2]>> /\ a[1] \in Jobs /\ a[2] \in 1..MaxAttempts
    BY <2>1, AttemptPair
  <2>3. CASE a[1] = j
    <3>1. a[2] # tries[j] + 1
      BY <2>2, <2>3
    <3> QED
      BY <3>1, <2>1, <2>2, <2>3, <1>1, <1>4
  <2>4. CASE a[1] # j
    BY <2>1, <2>2, <2>4, <1>4
  <2> QED
    BY <2>3, <2>4
<1>7. CountBounded(T)
  BY <1>1, <1>4 DEF CountBounded
<1>8. JobMatchesLatest(J, T, A)
  <2> SUFFICES ASSUME NEW k \in Jobs
               PROVE  IF J[k] = "pending"
                      THEN T[k] >= 1 => A[<<k, T[k]>>].state \in Retryable
                      ELSE T[k] >= 1 /\ A[<<k, T[k]>>].state = J[k]
    BY DEF JobMatchesLatest
  <2>1. CASE k = j
    BY <2>1, <1>1, <1>3, <1>4
  <2>2. CASE k # j
    <3>1. <<k, tries[k]>> # n
      BY <2>2
    <3> QED
      BY <2>2, <3>1, <1>3, <1>4, <1>5 DEF ValidLedger, JobMatchesLatest
  <2> QED
    BY <2>1, <2>2
<1>9. HistoryRetryable(T, A)
  <2> SUFFICES ASSUME NEW a \in Issued(T), a[2] < T[a[1]]
               PROVE  A[a].state \in Retryable
    BY DEF HistoryRetryable
  <2>1. a \in AttemptIds /\ a = <<a[1], a[2]>> /\ a[1] \in Jobs /\ a[2] \in 1..MaxAttempts
    BY AttemptPair DEF Issued
  <2>2. a # n
    BY <1>1, <1>4
  <2>3. CASE a[1] = j
    <3>1. CASE a[2] < tries[j]
      BY <3>1, <2>1, <2>2, <2>3, <1>3, <1>6 DEF ValidLedger, HistoryRetryable
    <3>2. CASE a[2] = tries[j]
      <4>1. a = <<j, tries[j]>> /\ tries[j] >= 1
        BY <3>2, <2>1, <2>3
      <4> QED
        BY <4>1, <2>1, <2>2, <1>3 DEF ValidLedger, JobMatchesLatest
    <3> QED
      BY <3>1, <3>2, <2>1, <2>3, <1>1, <1>4
  <2>4. CASE a[1] # j
    BY <2>1, <2>2, <2>4, <1>3, <1>4, <1>6 DEF ValidLedger, HistoryRetryable
  <2> QED
    BY <2>3, <2>4
<1>10. BindingMatchesState(T, A)
  <2> SUFFICES ASSUME NEW a \in Issued(T)
               PROVE  /\ A[a].state = "reserved" => A[a].execution = NoRun
                      /\ A[a].state \in {"running", "completed"} => A[a].execution # NoRun
    BY DEF BindingMatchesState
  <2>1. CASE a = n
    BY <2>1, <1>3
  <2>2. CASE a # n
    BY <2>2, <1>3, <1>6 DEF ValidLedger, BindingMatchesState, Issued
  <2> QED
    BY <2>1, <2>2
<1>11. BindingUnique(T, A)
  <2> SUFFICES ASSUME NEW a \in Issued(T), NEW b \in Issued(T),
                      A[a].execution = A[b].execution, A[a].execution # NoRun
               PROVE  a = b
    BY DEF BindingUnique
  <2>1. a # n /\ b # n
    BY <1>3
  <2> QED
    BY <2>1, <1>3, <1>6 DEF ValidLedger, BindingUnique, Issued
<1>12. OneActive(J)
  BY <1>4 DEF OneActive
<1> QED
  BY <1>2, <1>7, <1>8, <1>9, <1>10, <1>11, <1>12 DEF ValidLedger
---------------------------------------------------------------------------------
\* The journal's steps: what each leaves of the records.
LEMMA JournalStepInv ==
  ASSUME QueueInv, JournalStep
  PROVE  QueueInv'
<1> USE DEF QueueInv
<1>1. UNCHANGED <<job, tries, attempt, paused, refused>>
  BY DEF JournalStep
<1>2. PICK r \in Runs : \/ \E t \in Tags : attempt[t].state = "reserved" /\ Begin(r, t)
                        \/ Begin(r, NoTag)
                        \/ Launch(r)
                        \/ Exit(r)
                        \/ \E outcome \in Settled : Close(r, outcome)
  BY DEF JournalStep
<1>3. /\ records \in [Runs -> Record]
      /\ \A q \in Runs : q # r => records'[q] = records[q]
  BY <1>2 DEF QueueTypeOK, JournalType, Begin, Launch, Exit, Close
<1>4. CASE \E t \in Tags \cup {NoTag} :
             (t # NoTag => attempt[t].state = "reserved") /\ Begin(r, t)
  <2>1. PICK t \in Tags \cup {NoTag} :
               (t # NoTag => attempt[t].state = "reserved") /\ Begin(r, t)
    BY <1>4
  <2>2. /\ records'[r] = [phase |-> "open", tag |-> t, worker |-> "none"]
        /\ records[r].phase = "absent" /\ records[r].tag = NoTag
        /\ \A q \in Runs : records[q].phase # "open"
        /\ t # NoTag => \A q \in Runs : records[q].tag # t
    BY <2>1, <1>3 DEF Begin, Absent
  <2>3. JournalType'
    <3>1. [phase |-> "open", tag |-> t, worker |-> "none"] \in Record
      BY DEF Record
    <3> QED
      BY <3>1, <2>1, <1>3 DEF Begin, JournalType
  <2>4. TagsUnique'
    BY <2>2, <1>3 DEF TagsUnique
  <2>5. BoundToOwnRun'
    <3> SUFFICES ASSUME NEW a \in AttemptIds, attempt[a].execution # NoRun
                 PROVE  records'[attempt[a].execution].tag = a
      BY <1>1 DEF BoundToOwnRun
    <3>1. attempt[a].execution \in Runs /\ records[attempt[a].execution].tag = a
      BY DEF BoundToOwnRun, QueueTypeOK, Attempt
    <3>2. a # NoTag
      BY QueueAssumption, JournalAssumption
    <3> QED
      BY <3>1, <3>2, <2>2, <1>3
  <2>6. SettledMatchesJournal'
    <3> SUFFICES ASSUME NEW a \in AttemptIds, attempt[a].state \in Settled
                 PROVE  IF attempt[a].execution = NoRun
                        THEN Find(a)' = {}
                        ELSE /\ records'[attempt[a].execution].phase = attempt[a].state
                             /\ records'[attempt[a].execution].worker # "live"
      BY <1>1 DEF SettledMatchesJournal
    <3>1. a # t
      BY <2>1, QueueAssumption, JournalAssumption DEF Settled
    <3>2. CASE attempt[a].execution = NoRun
      BY <3>1, <3>2, <2>2, <1>3 DEF SettledMatchesJournal, Find
    <3>3. CASE attempt[a].execution # NoRun
      <4>1. attempt[a].execution \in Runs
        BY <3>3 DEF QueueTypeOK, Attempt
      <4>2. attempt[a].execution # r
        BY <3>3, <4>1, <2>2 DEF SettledMatchesJournal, Settled
      <4> QED
        BY <3>3, <4>1, <4>2, <1>3 DEF SettledMatchesJournal
    <3> QED
      BY <3>2, <3>3
  <2>7. OpenRunIsHeld'
    <3> SUFFICES ASSUME t # NoTag
                 PROVE  job[t[1]] \in Active /\ t = Latest(t[1])
      BY <2>2, <1>1, <1>3 DEF OpenRunIsHeld, Latest
    <3>1. t \in AttemptIds /\ attempt[t].state = "reserved"
      BY <2>1, QueueAssumption
    <3>2. t = <<t[1], t[2]>> /\ t[1] \in Jobs /\ t[2] \in 1..MaxAttempts
      BY <3>1, AttemptPair
    <3>3. ~(t[2] > tries[t[1]])
      BY <3>1 DEF UnissuedBlank, Unissued
    <3>4. tries[t[1]] \in Nat
      BY <3>2, QueueAssumption DEF QueueTypeOK
    <3>5. ~(t[2] < tries[t[1]])
      BY <3>1, <3>2, <3>4
         DEF ValidLedger, HistoryRetryable, Issued, Retryable
    <3>6. t = Latest(t[1])
      BY <3>2, <3>3, <3>4, <3>5 DEF Latest
    <3>7. job[t[1]] # "pending"
      BY <3>1, <3>2, <3>4, <3>6
         DEF ValidLedger, JobMatchesLatest, Retryable, Latest
    <3> QED
      BY <3>1, <3>2, <3>6, <3>7, LatestIssued DEF Active
  <2> QED
    BY <2>3, <2>4, <2>5, <2>6, <2>7, <1>1
       DEF QueueTypeOK, NoWriteRefused, UnissuedBlank, RoomForClaim,
           ValidLedger, CountBounded, JobMatchesLatest, HistoryRetryable,
           BindingMatchesState, BindingUnique, OneActive, Issued
<1>5. CASE Launch(r) \/ Exit(r) \/ \E outcome \in Settled : Close(r, outcome)
  <2>1. /\ records'[r].tag = records[r].tag
        /\ records[r].phase \in Settled =>
             /\ records'[r].phase = records[r].phase
             /\ records[r].worker # "live" => records'[r].worker # "live"
        /\ records'[r].phase = "open" => records[r].phase = "open"
        /\ records' \in [Runs -> Record]
    BY <1>3, <1>5 DEF Launch, Exit, Close, Record, Settled
  <2>2. TagsUnique' /\ BoundToOwnRun' /\ OpenRunIsHeld'
    <3>1. \A q \in Runs : records'[q].tag = records[q].tag
      BY <2>1, <1>3
    <3>2. TagsUnique'
      BY <3>1 DEF TagsUnique
    <3>3. BoundToOwnRun'
      BY <3>1, <1>1 DEF BoundToOwnRun, QueueTypeOK, Attempt
    <3>4. \A q \in Runs : records'[q].phase = "open" => records[q].phase = "open"
      BY <2>1, <1>3
    <3>5. OpenRunIsHeld'
      BY <3>1, <3>4, <1>1 DEF OpenRunIsHeld, Latest
    <3> QED
      BY <3>2, <3>3, <3>5
  <2>3. SettledMatchesJournal'
    <3> SUFFICES ASSUME NEW a \in AttemptIds, attempt[a].state \in Settled
                 PROVE  IF attempt[a].execution = NoRun
                        THEN Find(a)' = {}
                        ELSE /\ records'[attempt[a].execution].phase = attempt[a].state
                             /\ records'[attempt[a].execution].worker # "live"
      BY <1>1 DEF SettledMatchesJournal
    <3>1. CASE attempt[a].execution = NoRun
      BY <3>1, <2>1, <1>3 DEF SettledMatchesJournal, Find
    <3>2. CASE attempt[a].execution # NoRun
      <4>1. attempt[a].execution \in Runs
        BY <3>2 DEF QueueTypeOK, Attempt
      <4> QED
        BY <3>2, <4>1, <2>1, <1>3 DEF SettledMatchesJournal
    <3> QED
      BY <3>1, <3>2
  <2> QED
    BY <2>1, <2>2, <2>3, <1>1
       DEF QueueTypeOK, JournalType, NoWriteRefused, UnissuedBlank, RoomForClaim,
           ValidLedger, CountBounded, JobMatchesLatest, HistoryRetryable,
           BindingMatchesState, BindingUnique, OneActive, Issued
<1> QED
  BY <1>2, <1>4, <1>5, JournalAssumption
---------------------------------------------------------------------------------
\* claim keeps the invariant.
LEMMA ClaimInv ==
  ASSUME QueueInv, NEW j \in Jobs, Claim(j)
  PROVE  QueueInv'
<1> USE DEF QueueInv
<1> DEFINE n == <<j, tries[j] + 1>>
           J == [job EXCEPT ![j] = "reserved"]
           T == [tries EXCEPT ![j] = @ + 1]
           A == [attempt EXCEPT ![n] = [state |-> "reserved", execution |-> NoRun]]
<1>1. n \in AttemptIds /\ ValidLedger(J, T, A)
  BY ClaimIsValid DEF Claim
<1>2. /\ job' = J /\ tries' = T /\ attempt' = A /\ refused' = refused
      /\ UNCHANGED <<records, paused>>
  BY <1>1 DEF Claim, Write
<1>3. tries[j] \in Nat /\ tries[j] < MaxAttempts /\ MaxAttempts \in Nat
  BY QueueAssumption DEF QueueTypeOK, RoomForClaim, Claim
<1>4. /\ attempt'[n] = [state |-> "reserved", execution |-> NoRun]
      /\ \A a \in AttemptIds : a # n => attempt'[a] = attempt[a]
      /\ job'[j] = "reserved" /\ tries'[j] = tries[j] + 1
      /\ \A k \in Jobs : k # j => job'[k] = job[k] /\ tries'[k] = tries[k]
  BY <1>1, <1>2 DEF QueueTypeOK
<1>5. attempt[n] = Unissued
  BY <1>1, <1>3 DEF UnissuedBlank
<1>6. QueueTypeOK'
  <2>1. [state |-> "reserved", execution |-> NoRun] \in Attempt
    BY DEF Attempt, Active
  <2>2. tries[j] + 1 \in 0..MaxAttempts
    BY <1>3
  <2>3. attempt' \in [AttemptIds -> Attempt]
    BY <1>2, <2>1 DEF QueueTypeOK
  <2>4. tries' \in [Jobs -> 0..MaxAttempts]
    BY <1>2, <2>2 DEF QueueTypeOK
  <2>5. job' \in [Jobs -> {"pending"} \cup Active \cup Settled]
    BY <1>2 DEF QueueTypeOK, Active
  <2> QED
    BY <1>2, <2>3, <2>4, <2>5 DEF QueueTypeOK, JournalType
<1>7. NoWriteRefused' /\ ValidLedger(job, tries, attempt)'
  <2>1. NoWriteRefused'
    BY <1>2 DEF NoWriteRefused
  <2> QED
    BY <2>1, <1>1, <1>2
       DEF ValidLedger, CountBounded, JobMatchesLatest, HistoryRetryable,
           BindingMatchesState, BindingUnique, OneActive, Issued
<1>8. UnissuedBlank'
  <2> SUFFICES ASSUME NEW a \in AttemptIds, a[2] > tries'[a[1]]
               PROVE  attempt'[a] = Unissued
    BY DEF UnissuedBlank
  <2>1. a = <<a[1], a[2]>> /\ a[1] \in Jobs /\ a[2] \in 1..MaxAttempts
    BY AttemptPair
  <2>2. a # n
    BY <1>3, <1>4
  <2>3. a[2] > tries[a[1]]
    BY <2>1, <1>3, <1>4
  <2> QED
    BY <2>2, <2>3, <1>4 DEF UnissuedBlank
<1>9. RoomForClaim'
  BY <1>4 DEF RoomForClaim
<1>10. TagsUnique'
  BY <1>2 DEF TagsUnique
<1>11. BoundToOwnRun'
  BY <1>2, <1>4 DEF BoundToOwnRun
<1>12. SettledMatchesJournal'
  BY <1>2, <1>4 DEF SettledMatchesJournal, Find, Settled
<1>13. OpenRunIsHeld'
  <2> SUFFICES ASSUME NEW r \in Runs, records[r].phase = "open", records[r].tag # NoTag
               PROVE  FALSE
    BY <1>2 DEF OpenRunIsHeld, Latest
  <2>1. records[r].tag \in AttemptIds
    BY QueueAssumption DEF QueueTypeOK, JournalType, Record
  <2> QED
    BY <2>1, AttemptPair DEF OpenRunIsHeld, Claim
<1> QED
  BY <1>6, <1>7, <1>8, <1>9, <1>10, <1>11, <1>12, <1>13

\* A step that moves the active attempt of j to a state s with execution e
\* keeps the invariant, if e is the one run that names the attempt (or there
\* is none), and if an end is what the journal says.
LEMMA MoveInv ==
  ASSUME QueueInv, NEW j \in Jobs, job[j] \in Active,
         NEW s \in {"running"} \cup Settled,
         NEW e \in Runs \cup {NoRun},
         s \in {"running", "completed"} => e # NoRun,
         e # NoRun => records[e].tag = Latest(j),
         s \in Settled /\ e = NoRun => Find(Latest(j)) = {},
         s \in Settled /\ e # NoRun => records[e].phase = s /\ records[e].worker # "live",
         Write([job EXCEPT ![j] = s], tries,
               [attempt EXCEPT ![Latest(j)] = [state |-> s, execution |-> e]]),
         UNCHANGED <<records, paused>>
  PROVE  QueueInv'
<1> USE DEF QueueInv
<1> DEFINE J == [job EXCEPT ![j] = s]
           A == [attempt EXCEPT ![Latest(j)] = [state |-> s, execution |-> e]]
<1>1. Latest(j) \in AttemptIds
  BY LatestIssued DEF Active
<1>2. \A b \in AttemptIds : attempt[b].execution = e /\ e # NoRun => b = Latest(j)
  BY DEF BoundToOwnRun
<1>3. ValidLedger(J, tries, A)
  BY <1>2, MoveIsValid
<1>4. job' = J /\ attempt' = A /\ UNCHANGED <<tries, refused, records, paused>>
  BY <1>3 DEF Write
<1>5. /\ attempt'[Latest(j)] = [state |-> s, execution |-> e]
      /\ \A a \in AttemptIds : a # Latest(j) => attempt'[a] = attempt[a]
      /\ job'[j] = s /\ \A k \in Jobs : k # j => job'[k] = job[k]
  BY <1>1, <1>4 DEF QueueTypeOK
<1>6. QueueTypeOK'
  <2>1. [state |-> s, execution |-> e] \in Attempt
    BY DEF Attempt, Active
  <2>2. attempt' \in [AttemptIds -> Attempt]
    BY <1>4, <2>1 DEF QueueTypeOK
  <2>3. job' \in [Jobs -> {"pending"} \cup Active \cup Settled]
    BY <1>4 DEF QueueTypeOK, Active
  <2> QED
    BY <1>4, <2>2, <2>3 DEF QueueTypeOK, JournalType
<1>7. NoWriteRefused' /\ ValidLedger(job, tries, attempt)'
  <2>1. NoWriteRefused'
    BY <1>4 DEF NoWriteRefused
  <2> QED
    BY <2>1, <1>3, <1>4
       DEF ValidLedger, CountBounded, JobMatchesLatest, HistoryRetryable,
           BindingMatchesState, BindingUnique, OneActive, Issued
<1>8. UnissuedBlank'
  <2> SUFFICES ASSUME NEW a \in AttemptIds, a[2] > tries[a[1]]
               PROVE  attempt'[a] = Unissued
    BY <1>4 DEF UnissuedBlank
  <2>1. a # Latest(j)
    BY DEF Latest, QueueTypeOK
  <2> QED
    BY <2>1, <1>5 DEF UnissuedBlank
<1>9. RoomForClaim'
  BY <1>4, <1>5 DEF RoomForClaim, Settled
<1>10. TagsUnique'
  BY <1>4 DEF TagsUnique
<1>11. BoundToOwnRun'
  BY <1>4, <1>5 DEF BoundToOwnRun
<1>12. SettledMatchesJournal'
  <2> SUFFICES ASSUME NEW a \in AttemptIds, attempt'[a].state \in Settled
               PROVE  IF attempt'[a].execution = NoRun
                      THEN Find(a) = {}
                      ELSE /\ records[attempt'[a].execution].phase = attempt'[a].state
                           /\ records[attempt'[a].execution].worker # "live"
    BY <1>4 DEF SettledMatchesJournal, Find
  <2>1. CASE a = Latest(j)
    BY <2>1, <1>5
  <2>2. CASE a # Latest(j)
    BY <2>2, <1>5 DEF SettledMatchesJournal
  <2> QED
    BY <2>1, <2>2
<1>13. OpenRunIsHeld'
  <2> SUFFICES ASSUME NEW r \in Runs, records[r].phase = "open", records[r].tag # NoTag
               PROVE  /\ job'[records[r].tag[1]] \in Active
                      /\ records[r].tag = Latest(records[r].tag[1])
    BY <1>4 DEF OpenRunIsHeld, Latest
  <2>1. records[r].tag \in AttemptIds
    BY QueueAssumption DEF QueueTypeOK, JournalType, Record
  <2>2. records[r].tag[1] \in Jobs
    BY <2>1, AttemptPair
  <2>3. job[records[r].tag[1]] \in Active /\ records[r].tag = Latest(records[r].tag[1])
    BY DEF OpenRunIsHeld
  <2>4. CASE records[r].tag[1] = j /\ s \in Settled
    <3>1. e # NoRun
      BY <2>3, <2>4 DEF Find
    <3>2. e = r
      BY <2>3, <2>4, <3>1 DEF TagsUnique
    <3> QED
      BY <2>4, <3>1, <3>2 DEF Settled
  <2>5. CASE records[r].tag[1] # j \/ s = "running"
    BY <2>2, <2>3, <2>5, <1>5 DEF Active
  <2> QED
    BY <2>4, <2>5
<1> QED
  BY <1>6, <1>7, <1>8, <1>9, <1>10, <1>11, <1>12, <1>13

\* bind, preparation failed and reconcile are such moves.
LEMMA AttemptStepInv ==
  ASSUME QueueInv, NEW j \in Jobs,
         (\E r \in Runs : Bind(j, r)) \/ PrepareFailed(j) \/ Reconcile(j)
  PROVE  QueueInv'
<1>1. Latest(j) \in AttemptIds /\ job[j] \in Active
  BY LatestIssued DEF QueueInv, Bind, PrepareFailed, Reconcile, Active
<1>2. attempt[Latest(j)] \in Attempt
  BY <1>1 DEF QueueInv, QueueTypeOK
<1>3. \A s : [attempt EXCEPT ![Latest(j)].state = s] =
             [attempt EXCEPT ![Latest(j)] =
                [state |-> s, execution |-> attempt[Latest(j)].execution]]
  <2>1. \A s : [attempt[Latest(j)] EXCEPT !.state = s] =
               [state |-> s, execution |-> attempt[Latest(j)].execution]
    BY <1>2 DEF Attempt
  <2> QED
    BY <2>1
<1>4. attempt[Latest(j)].state = job[j]
  BY <1>1, LatestIssued DEF QueueInv, Active
<1>5. attempt[Latest(j)].execution = NoRun <=> job[j] = "reserved"
  BY <1>1, <1>4, LatestIssued
     DEF QueueInv, ValidLedger, BindingMatchesState, Active
<1>6. ASSUME NEW r \in Runs, Bind(j, r) PROVE QueueInv'
  <2>1. records[r].tag = Latest(j)
    BY <1>6 DEF Bind, Find
  <2>2. r # NoRun
    BY QueueAssumption
  <2>3. /\ Write([job EXCEPT ![j] = "running"], tries,
                 [attempt EXCEPT ![Latest(j)] = [state |-> "running", execution |-> r]])
        /\ UNCHANGED <<records, paused>>
    BY <1>6 DEF Bind
  <2>4. "running" \in {"running"} \cup Settled /\ "running" \notin Settled
        /\ r \in Runs \cup {NoRun}
    BY DEF Settled
  <2> QED
    BY <1>1, <2>1, <2>2, <2>3, <2>4, MoveInv
<1>7. CASE PrepareFailed(j)
  <2>1. attempt[Latest(j)].execution = NoRun
    BY <1>5, <1>7 DEF PrepareFailed
  <2> QED
    BY <1>1, <1>3, <1>7, <2>1, MoveInv DEF PrepareFailed, Settled
<1>8. CASE Reconcile(j)
  <2>1. attempt[Latest(j)].execution \in Runs
    BY <1>2, <1>5, <1>8 DEF Reconcile, Attempt
  <2>2. attempt[Latest(j)].execution # NoRun
    BY <2>1, QueueAssumption
  <2> QED
    BY <1>1, <1>3, <1>8, <2>1, <2>2, MoveInv DEF Reconcile
<1> QED
  BY <1>6, <1>7, <1>8

\* retry keeps the invariant: the limit it checks is what leaves room for the
\* next claim.
LEMMA RetryInv ==
  ASSUME QueueInv, NEW j \in Jobs, Retry(j)
  PROVE  QueueInv'
<1> USE DEF QueueInv
<1> DEFINE J == [job EXCEPT ![j] = "pending"]
<1>1. J[j] = "pending" /\ \A k \in Jobs : k # j => J[k] = job[k]
  BY DEF QueueTypeOK
<1>2. ValidLedger(J, tries, attempt)
  <2>1. attempt[<<j, tries[j]>>].state \in Retryable
    BY DEF Retry, Retryable, ValidLedger, JobMatchesLatest
  <2>2. JobMatchesLatest(J, tries, attempt)
    BY <1>1, <2>1 DEF ValidLedger, JobMatchesLatest
  <2>3. OneActive(J)
    BY <1>1 DEF ValidLedger, OneActive, Active
  <2> QED
    BY <2>2, <2>3 DEF ValidLedger
<1>3. job' = J /\ UNCHANGED <<tries, attempt, refused, records, paused>>
  BY <1>2 DEF Retry, Write
<1>4. QueueTypeOK' /\ NoWriteRefused' /\ ValidLedger(job, tries, attempt)'
  <2>1. QueueTypeOK'
    BY <1>3 DEF QueueTypeOK, JournalType
  <2>2. NoWriteRefused'
    BY <1>3 DEF NoWriteRefused
  <2> QED
    BY <2>1, <2>2, <1>2, <1>3
       DEF ValidLedger, CountBounded, JobMatchesLatest, HistoryRetryable,
           BindingMatchesState, BindingUnique, OneActive, Issued
<1>5. RoomForClaim'
  BY <1>1, <1>3 DEF RoomForClaim, Retry
<1>6. UnissuedBlank' /\ TagsUnique' /\ BoundToOwnRun' /\ SettledMatchesJournal'
  BY <1>3 DEF UnissuedBlank, TagsUnique, BoundToOwnRun, SettledMatchesJournal, Find
<1>7. OpenRunIsHeld'
  <2> SUFFICES ASSUME NEW r \in Runs, records[r].phase = "open", records[r].tag # NoTag
               PROVE  /\ job'[records[r].tag[1]] \in Active
                      /\ records[r].tag = Latest(records[r].tag[1])
    BY <1>3 DEF OpenRunIsHeld, Latest
  <2>1. records[r].tag \in AttemptIds
    BY QueueAssumption DEF QueueTypeOK, JournalType, Record
  <2>2. records[r].tag[1] \in Jobs
    BY <2>1, AttemptPair
  <2>3. job[records[r].tag[1]] \in Active /\ records[r].tag = Latest(records[r].tag[1])
    BY DEF OpenRunIsHeld
  <2> QED
    BY <2>2, <2>3, <1>1, <1>3 DEF Retry, Retryable, Active
<1> QED
  BY <1>4, <1>5, <1>6, <1>7

\* pause and resume rewrite the ledger as it is, and stuttering changes nothing.
LEMMA UnchangedInv ==
  ASSUME QueueInv, UNCHANGED <<records, job, tries, attempt, refused>>,
         paused' \in BOOLEAN
  PROVE  QueueInv'
<1>1. QueueTypeOK' /\ NoWriteRefused'
  BY DEF QueueInv, QueueTypeOK, NoWriteRefused, JournalType
<1>2. ValidLedger(job, tries, attempt)'
  BY DEF QueueInv, ValidLedger, CountBounded, JobMatchesLatest, HistoryRetryable,
         BindingMatchesState, BindingUnique, OneActive, Issued
<1>3. /\ UnissuedBlank' /\ RoomForClaim' /\ TagsUnique'
      /\ BoundToOwnRun' /\ SettledMatchesJournal' /\ OpenRunIsHeld'
  BY DEF QueueInv, UnissuedBlank, RoomForClaim, TagsUnique, BoundToOwnRun,
         SettledMatchesJournal, Find, OpenRunIsHeld, Latest
<1> QED
  BY <1>1, <1>2, <1>3 DEF QueueInv

\* Every step keeps the invariant.
LEMMA NextInv ==
  ASSUME QueueInv, [QueueNext]_queueVars
  PROVE  QueueInv'
<1>1. ASSUME NEW j \in Jobs, LedgerStep(j) PROVE QueueInv'
  BY <1>1, ClaimInv, AttemptStepInv, RetryInv DEF LedgerStep
<1>2. ASSUME NEW b \in BOOLEAN, SetPaused(b) PROVE QueueInv'
  <2>1. UNCHANGED <<records, job, tries, attempt, refused>> /\ paused' = b
    BY <1>2 DEF SetPaused, Write, QueueInv
  <2> QED
    BY <2>1, UnchangedInv
<1>3. CASE JournalStep
  BY <1>3, JournalStepInv
<1>4. CASE UNCHANGED queueVars
  <2>1. UNCHANGED <<records, job, tries, attempt, refused>> /\ paused' = paused
    BY <1>4 DEF queueVars
  <2>2. paused' \in BOOLEAN
    BY <2>1 DEF QueueInv, QueueTypeOK
  <2> QED
    BY <2>1, <2>2, UnchangedInv
<1> QED
  BY <1>1, <1>2, <1>3, <1>4 DEF QueueNext
---------------------------------------------------------------------------------
\* The inductive invariant holds in every reachable state.
THEOREM QueueCorrect == QueueSpec => []QueueInv
<1>1. QueueInit => QueueInv
  BY InitInv
<1>2. QueueInv /\ [QueueNext]_queueVars => QueueInv'
  BY NextInv
<1> QED
  BY <1>1, <1>2, PTL DEF QueueSpec

\* Type correctness of the ledger and the journal beside it.
THEOREM QueueTypeCorrect == QueueSpec => []QueueTypeOK
<1>1. QueueInv => QueueTypeOK
  BY DEF QueueInv
<1> QED
  BY <1>1, QueueCorrect, PTL

\* No sequence of legal operations can make write() raise on its own output,
\* for any number of jobs and any attempt limit.
THEOREM WriteNeverRefuses == QueueSpec => []NoWriteRefused
<1>1. QueueInv => NoWriteRefused
  BY DEF QueueInv
<1> QED
  BY <1>1, QueueCorrect, PTL

\* A bound attempt is bound to the execution launched for it.
THEOREM BindingIsOwn == QueueSpec => []BoundToOwnRun
<1>1. QueueInv => BoundToOwnRun
  BY DEF QueueInv
<1> QED
  BY <1>1, QueueCorrect, PTL

\* What the ledger says has ended has ended, with that outcome.
THEOREM LedgerAgreesWithJournal == QueueSpec => []SettledMatchesJournal
<1>1. QueueInv => SettledMatchesJournal
  BY DEF QueueInv
<1> QED
  BY <1>1, QueueCorrect, PTL

\* No client loses track of a batch run in progress.
THEOREM OpenRunsAreHeld == QueueSpec => []OpenRunIsHeld
<1>1. QueueInv => OpenRunIsHeld
  BY DEF QueueInv
<1> QED
  BY <1>1, QueueCorrect, PTL

\* An ended attempt is never rewritten, and no attempt is ever dropped.
THEOREM HistoryIsKept == QueueSpec => HistoryKept
<1> DEFINE Kept == /\ \A a \in AttemptIds :
                        attempt[a].state \in Settled => attempt'[a] = attempt[a]
                   /\ \A j \in Jobs : tries'[j] >= tries[j]
<1>1. ASSUME QueueInv, [QueueNext]_queueVars
      PROVE  [Kept]_queueVars
  <2>1. \A k \in Jobs : tries[k] \in Nat
    BY <1>1, QueueAssumption DEF QueueInv, QueueTypeOK
  <2>2. ASSUME NEW j \in Jobs, Claim(j) PROVE Kept
    <3> DEFINE n == <<j, tries[j] + 1>>
    <3>1. n \in AttemptIds /\ tries[j] + 1 > tries[j]
      BY <1>1, <2>1, <2>2, ClaimIsValid DEF Claim, QueueInv
    <3>2. attempt[n].state \notin Settled
      BY <1>1, <3>1 DEF QueueInv, UnissuedBlank, Unissued, Settled
    <3>3. \A a \in AttemptIds : a # n => attempt'[a] = attempt[a]
      BY <1>1, <2>2 DEF Claim, Write, QueueInv, QueueTypeOK
    <3>4. \A k \in Jobs : tries'[k] >= tries[k]
      BY <1>1, <2>1, <2>2 DEF Claim, Write, QueueInv, QueueTypeOK
    <3> QED
      BY <3>2, <3>3, <3>4
  <2>3. ASSUME NEW j \in Jobs,
               (\E r \in Runs : Bind(j, r)) \/ PrepareFailed(j) \/ Reconcile(j)
        PROVE  Kept
    <3>1. attempt[Latest(j)].state \notin Settled
      BY <1>1, <2>3, LatestIssued
         DEF Bind, PrepareFailed, Reconcile, QueueInv, Settled
    <3>2. \A a \in AttemptIds : a # Latest(j) => attempt'[a] = attempt[a]
      BY <1>1, <2>3 DEF Bind, PrepareFailed, Reconcile, Write, QueueInv, QueueTypeOK
    <3>3. tries' = tries
      BY <2>3 DEF Bind, PrepareFailed, Reconcile, Write
    <3> QED
      BY <2>1, <3>1, <3>2, <3>3
  <2>4. CASE UNCHANGED <<tries, attempt>>
    BY <2>1, <2>4
  <2>5. ASSUME NEW j \in Jobs, Retry(j) PROVE UNCHANGED <<tries, attempt>>
    BY <2>5 DEF Retry, Write
  <2>6. ASSUME NEW b \in BOOLEAN, SetPaused(b) PROVE UNCHANGED <<tries, attempt>>
    BY <2>6 DEF SetPaused, Write
  <2>7. CASE JournalStep
    BY <2>4, <2>7 DEF JournalStep
  <2> QED
    BY <1>1, <2>2, <2>3, <2>4, <2>5, <2>6, <2>7 DEF QueueNext, LedgerStep
<1> QED
  BY <1>1, QueueCorrect, PTL DEF QueueSpec, HistoryKept

\* No claim is made while the batch is paused.
THEOREM PauseIsHonoured == QueueSpec => PauseStopsClaims
<1>1. [QueueNext]_queueVars => [paused => tries' = tries]_queueVars
  BY DEF QueueNext, LedgerStep, Claim, Bind, PrepareFailed, Reconcile, Retry,
         SetPaused, JournalStep, Write
<1> QED
  BY <1>1, PTL DEF QueueSpec, PauseStopsClaims

-----------------------------------------------------------------------------
(* BatchDispatch: the clients that work on the ledger.                     *)

\* The parts of DispatchInv that are about the clients.
ClientInv ==
  /\ client \in [Clients -> Client]
  /\ requests \subseteq Tags
  /\ OneHolder
  /\ StepHasAttempt
  /\ RequestsReserved
  /\ LauncherHoldsReservation

LoopStates == {"off", "running", "paused", "completed", "needs_attention", "cancelled"}

\* A step's verdict is a state of the loop.
LEMMA ReturnType ==
  ASSUME client \in [Clients -> Client], sched \in [Clients -> LoopStates],
         NEW c \in Clients, NEW action, Return(c, action)
  PROVE  /\ client' \in [Clients -> Client]
         /\ client'[c] = Away
         /\ \A d \in Clients : d # c => client'[d] = client[d]
         /\ sched' \in [Clients -> LoopStates]
<1>1. Away \in Client
  BY DEF Away, Client
<1>2. Verdict(action) \in LoopStates
  BY DEF Verdict, LoopStates
<1> QED
  BY <1>1, <1>2 DEF Return, LoopStates

\* A step that leaves the ledger, the journal and the requests alone, and
\* lets clients only let go, keeps the clients' invariant.
LEMMA LettingGo ==
  ASSUME DispatchInv, UNCHANGED <<job, tries, attempt, records, requests>>,
         client' \in [Clients -> Client],
         \A d \in Clients : client'[d] = client[d] \/ client'[d].pc = "idle"
  PROVE  ClientInv'
<1> USE DEF DispatchInv, DispatchTypeOK
<1>1. OneHolder' /\ StepHasAttempt'
  BY DEF OneHolder, StepHasAttempt
<1>2. RequestsReserved'
  BY DEF RequestsReserved, Find
<1>3. LauncherHoldsReservation'
  BY DEF LauncherHoldsReservation, JobAt, Latest, Find
<1> QED
  BY <1>1, <1>2, <1>3 DEF ClientInv

\* No request of the batch is about an attempt that is not claimed yet.
LEMMA NewAttemptIsNew ==
  ASSUME DispatchInv, NEW j \in Jobs, Claim(j)
  PROVE  /\ <<j, tries[j] + 1>> \in AttemptIds
         /\ <<j, tries[j] + 1>> \notin requests
         /\ Find(<<j, tries[j] + 1>>) = {}
<1> USE DEF DispatchInv, QueueInv
<1>1. <<j, tries[j] + 1>> \in AttemptIds
  BY ClaimIsValid DEF Claim
<1>2. tries[j] \in Nat
  BY QueueAssumption DEF QueueTypeOK
<1>3. attempt[<<j, tries[j] + 1>>] = Unissued
  BY <1>1, <1>2 DEF UnissuedBlank
<1> QED
  BY <1>1, <1>3 DEF RequestsReserved, Unissued
---------------------------------------------------------------------------------
\* Looking, and asking whether the world is free.
LEMMA LookInv ==
  ASSUME DispatchInv, NEW c \in Clients, Look(c) \/ Preflight(c)
  PROVE  ClientInv' /\ sched' \in [Clients -> LoopStates] /\ UNCHANGED queueVars
<1> USE DEF DispatchInv, DispatchTypeOK
<1>0. sched \in [Clients -> LoopStates]
  BY DEF LoopStates
<1>1. ASSUME NEW action, Return(c, action), UNCHANGED <<queueVars, requests>>
      PROVE  ClientInv' /\ sched' \in [Clients -> LoopStates]
  <2>1. /\ client' \in [Clients -> Client]
        /\ client'[c] = Away
        /\ \A d \in Clients : d # c => client'[d] = client[d]
        /\ sched' \in [Clients -> LoopStates]
    BY <1>0, <1>1, ReturnType
  <2> QED
    BY <1>1, <2>1, LettingGo DEF queueVars, Away
<1>2. ASSUME NEW p \in {"preflight", "claim"}, GoTo(c, p), UNCHANGED <<queueVars, requests, sched>>,
             \A d \in Clients : d # c => client[d].pc = "idle"
      PROVE  ClientInv' /\ sched' \in [Clients -> LoopStates]
  <2>1. /\ client' \in [Clients -> Client]
        /\ client'[c].pc = p
        /\ \A d \in Clients : d # c => client'[d] = client[d]
    BY <1>2 DEF GoTo, Client
  <2>2. OneHolder' /\ StepHasAttempt'
    BY <1>2, <2>1 DEF OneHolder, StepHasAttempt
  <2>3. RequestsReserved'
    BY <1>2 DEF RequestsReserved, Find, queueVars
  <2>4. LauncherHoldsReservation'
    BY <1>2, <2>1 DEF LauncherHoldsReservation, JobAt, Latest, Find, queueVars
  <2> QED
    BY <1>0, <1>2, <2>1, <2>2, <2>3, <2>4 DEF ClientInv, queueVars
<1>3. ASSUME NEW j \in Jobs, job[j] \in Active, LockFree, UNCHANGED <<queueVars, requests, sched>>,
             client' = [client EXCEPT ![c] =
               [Away EXCEPT !.pc = IF job[j] = "reserved" THEN "bind" ELSE "reconcile",
                            !.at = Latest(j)]]
      PROVE  ClientInv' /\ sched' \in [Clients -> LoopStates]
  <2>1. Latest(j) \in AttemptIds
    BY <1>3, LatestIssued DEF Active, QueueInv
  <2>2. /\ client' \in [Clients -> Client]
        /\ client'[c].pc \in {"bind", "reconcile"} /\ client'[c].at = Latest(j)
        /\ \A d \in Clients : d # c => client'[d] = client[d]
    BY <1>3, <2>1 DEF Away, Client
  <2>3. OneHolder' /\ StepHasAttempt'
    BY <1>3, <2>1, <2>2 DEF OneHolder, StepHasAttempt, LockFree
  <2>4. RequestsReserved'
    BY <1>3 DEF RequestsReserved, Find, queueVars
  <2>5. LauncherHoldsReservation'
    BY <1>3, <2>2 DEF LauncherHoldsReservation, JobAt, Latest, Find, queueVars
  <2> QED
    BY <1>0, <1>3, <2>2, <2>3, <2>4, <2>5 DEF ClientInv, queueVars
<1>4. CASE Look(c)
  BY <1>1, <1>2, <1>3, <1>4 DEF Look, LockFree
<1>5. CASE Preflight(c)
  <2>1. \A d \in Clients : d # c => client[d].pc = "idle"
    BY <1>5 DEF Preflight, OneHolder
  <2> QED
    BY <1>1, <1>2, <1>5, <2>1 DEF Preflight
<1> QED
  BY <1>4, <1>5 DEF Look, Preflight
---------------------------------------------------------------------------------
\* A step that returns while it has the lock leaves every client idle, so of
\* the clients' invariant only the part about the requests is at stake.
LEMMA StepEnds ==
  ASSUME DispatchInv, NEW c \in Clients, client[c].pc # "idle",
         NEW action, Return(c, action), UNCHANGED requests, RequestsReserved'
  PROVE  ClientInv' /\ sched' \in [Clients -> LoopStates]
<1> USE DEF DispatchInv, DispatchTypeOK
<1>1. /\ client' \in [Clients -> Client]
      /\ client'[c] = Away
      /\ \A d \in Clients : d # c => client'[d] = client[d]
      /\ sched' \in [Clients -> LoopStates]
  BY ReturnType DEF LoopStates
<1>2. \A d \in Clients : client'[d].pc = "idle"
  BY <1>1 DEF OneHolder, Away
<1>3. OneHolder' /\ StepHasAttempt' /\ LauncherHoldsReservation'
  BY <1>2 DEF OneHolder, StepHasAttempt, LauncherHoldsReservation
<1> QED
  BY <1>1, <1>3 DEF ClientInv

\* Moving on an attempt whose execution exists, or whose request was never
\* sent, keeps the requests' invariant.
LEMMA MoveKeepsRequests ==
  ASSUME DispatchInv, NEW j \in Jobs,
         \/ \E r \in Runs : Bind(j, r)
         \/ Reconcile(j)
         \/ PrepareFailed(j) /\ Latest(j) \notin requests,
         UNCHANGED requests
  PROVE  RequestsReserved'
<1> USE DEF DispatchInv, QueueInv
<1>1. Latest(j) \in AttemptIds /\ attempt[Latest(j)].state = job[j]
  BY LatestIssued DEF Bind, Reconcile, PrepareFailed
<1>2. /\ \A a \in AttemptIds : a # Latest(j) => attempt'[a] = attempt[a]
      /\ attempt'[Latest(j)].state # "none"
  <2>1. attempt \in [AttemptIds -> Attempt]
    BY DEF QueueTypeOK
  <2>2. attempt[Latest(j)].state # "none"
    BY <1>1 DEF QueueTypeOK, Bind, Reconcile, PrepareFailed, Active
  <2>3. CASE UNCHANGED attempt
    BY <2>2, <2>3
  <2>4. ASSUME NEW r \in Runs, Bind(j, r), attempt' # attempt PROVE <1>2!:
    BY <2>1, <2>4, <1>1 DEF Bind, Write
  <2>5. ASSUME Reconcile(j), attempt' # attempt PROVE <1>2!:
    BY <2>1, <2>5, <1>1 DEF Reconcile, Write, Settled, Attempt
  <2>6. ASSUME PrepareFailed(j), attempt' # attempt PROVE <1>2!:
    BY <2>1, <2>6, <1>1 DEF PrepareFailed, Write, Attempt
  <2> QED
    BY <2>3, <2>4, <2>5, <2>6
<1>3. records' = records
  BY DEF Bind, Reconcile, PrepareFailed
<1>4. Find(Latest(j)) # {} \/ Latest(j) \notin requests
  <2>1. CASE Reconcile(j)
    <3>1. attempt[Latest(j)].execution \in Runs
      BY <2>1, <1>1, LatestIssued
         DEF Reconcile, ValidLedger, BindingMatchesState, QueueTypeOK, Attempt
    <3> QED
      BY <2>1, <3>1 DEF Reconcile, Find
  <2> QED
    BY <2>1 DEF Bind
<1> QED
  BY <1>2, <1>3, <1>4 DEF RequestsReserved, Find

\* What every step of the dispatcher has to keep; QueueInv follows by NextInv.
StepOK ==
  /\ ClientInv'
  /\ sched' \in [Clients -> LoopStates]
  /\ [QueueNext]_queueVars

\* Binding what is found, and taking over an outcome.
LEMMA BindReconcileInv ==
  ASSUME DispatchInv, NEW c \in Clients,
         RecoverBinding(c) \/ ReconcileStep(c) \/ Confirm(c)
  PROVE  StepOK
<1>1. client[c].pc # "idle" /\ UNCHANGED requests
  BY DEF RecoverBinding, ReconcileStep, Confirm
<1>2. client[c].at \in AttemptIds /\ JobAt(c) \in Jobs
  BY AttemptPair DEF DispatchInv, StepHasAttempt, RecoverBinding, ReconcileStep, Confirm, JobAt
<1>3. PICK action : Return(c, action)
  BY DEF RecoverBinding, ReconcileStep, Confirm
<1>4. \/ \E r \in Runs : Bind(JobAt(c), r)
      \/ Reconcile(JobAt(c))
      \/ UNCHANGED queueVars
  <2>1. CASE RecoverBinding(c)
    BY <2>1 DEF RecoverBinding
  <2>2. CASE ReconcileStep(c)
    BY <2>2 DEF ReconcileStep
  <2>3. CASE Confirm(c)
    <3>1. Find(client[c].at) = {client[c].reply} => client[c].reply \in Runs
      BY DEF Find
    <3> QED
      BY <2>3, <3>1 DEF Confirm
  <2> QED
    BY <2>1, <2>2, <2>3
<1>5. RequestsReserved'
  <2>1. CASE UNCHANGED queueVars
    BY <1>1, <2>1 DEF DispatchInv, RequestsReserved, Find, queueVars
  <2> QED
    BY <1>1, <1>2, <1>4, <2>1, MoveKeepsRequests
<1>6. [QueueNext]_queueVars
  BY <1>2, <1>4 DEF QueueNext, LedgerStep
<1> QED
  BY <1>1, <1>3, <1>5, <1>6, StepEnds DEF StepOK

\* Claiming: the new attempt is nobody's yet.
LEMMA ClaimStepInv ==
  ASSUME DispatchInv, NEW c \in Clients, ClaimStep(c)
  PROVE  StepOK
<1> USE DEF DispatchInv, DispatchTypeOK
<1>0. client[c].pc = "claim" /\ UNCHANGED requests
  BY DEF ClaimStep
<1>1. CASE UNCHANGED queueVars /\ Return(c, "not_claimed")
  <2>1. RequestsReserved'
    BY <1>0, <1>1 DEF RequestsReserved, Find, queueVars
  <2> QED
    BY <1>0, <1>1, <2>1, StepEnds DEF StepOK
<1>2. ASSUME NEW j \in Jobs, Claim(j),
             client' = [client EXCEPT ![c].pc = "prepare", ![c].at = <<j, tries[j] + 1>>],
             UNCHANGED sched
      PROVE  StepOK
  <2> DEFINE n == <<j, tries[j] + 1>>
  <2>1. n \in AttemptIds /\ n \notin requests /\ Find(n) = {}
    BY <1>2, NewAttemptIsNew
  <2>2. /\ job' = [job EXCEPT ![j] = "reserved"]
        /\ tries' = [tries EXCEPT ![j] = @ + 1]
        /\ attempt' = [attempt EXCEPT ![n] = [state |-> "reserved", execution |-> NoRun]]
        /\ records' = records
    BY <1>2, ClaimIsValid DEF Claim, Write, QueueInv
  <2>3. /\ client' \in [Clients -> Client]
        /\ client'[c].pc = "prepare" /\ client'[c].at = n
        /\ \A d \in Clients : d # c => client'[d] = client[d]
    BY <1>2, <2>1 DEF Client
  <2>4. \A d \in Clients : d # c => client'[d].pc = "idle"
    BY <1>0, <2>3 DEF OneHolder
  <2>5. OneHolder' /\ StepHasAttempt'
    BY <2>1, <2>3, <2>4 DEF OneHolder, StepHasAttempt
  <2>6. attempt'[n].state = "reserved" /\ \A a \in AttemptIds : a # n => attempt'[a] = attempt[a]
    BY <2>1, <2>2 DEF QueueTypeOK
  <2>7. RequestsReserved'
    BY <1>0, <2>1, <2>2, <2>6 DEF RequestsReserved, Find
  <2>8. job'[j] = "reserved" /\ tries'[j] = tries[j] + 1
    BY <2>2 DEF QueueTypeOK
  <2>9. LauncherHoldsReservation'
    BY <1>0, <2>1, <2>2, <2>3, <2>4, <2>8 DEF LauncherHoldsReservation, JobAt, Latest, Find
  <2> QED
    BY <1>0, <1>2, <2>3, <2>5, <2>7, <2>9
       DEF StepOK, ClientInv, LoopStates, QueueNext, LedgerStep
<1> QED
  BY <1>1, <1>2 DEF ClaimStep

\* Preparing: the request is sent for the reserved attempt, or the attempt
\* fails without one.
LEMMA PrepareInv ==
  ASSUME DispatchInv, NEW c \in Clients, Prepare(c)
  PROVE  StepOK
<1> USE DEF DispatchInv, DispatchTypeOK
<1>1. /\ client[c].pc = "prepare"
      /\ client[c].at \in AttemptIds /\ JobAt(c) \in Jobs
      /\ job[JobAt(c)] = "reserved" /\ client[c].at = Latest(JobAt(c))
      /\ client[c].at \notin requests
  BY AttemptPair DEF Prepare, StepHasAttempt, LauncherHoldsReservation, JobAt
<1>2. CASE /\ requests' = requests \cup {client[c].at}
           /\ GoTo(c, "await") /\ UNCHANGED <<queueVars, sched>>
  <2>1. /\ client' \in [Clients -> Client]
        /\ client'[c].pc = "await" /\ client'[c].at = client[c].at
        /\ \A d \in Clients : d # c => client'[d] = client[d]
    BY <1>2 DEF GoTo, Client
  <2>2. \A d \in Clients : d # c => client'[d].pc = "idle"
    BY <1>1, <2>1 DEF OneHolder
  <2>3. OneHolder' /\ StepHasAttempt'
    BY <1>1, <2>1, <2>2 DEF OneHolder, StepHasAttempt
  <2>4. attempt[client[c].at].state = "reserved"
    BY <1>1, LatestIssued DEF QueueInv
  <2>5. RequestsReserved'
    BY <1>2, <2>4 DEF RequestsReserved, Find, queueVars
  <2>6. LauncherHoldsReservation'
    BY <1>1, <1>2, <2>1, <2>2 DEF LauncherHoldsReservation, JobAt, Latest, queueVars
  <2>7. requests' \subseteq Tags
    BY <1>1, <1>2, QueueAssumption
  <2> QED
    BY <1>2, <2>1, <2>3, <2>5, <2>6, <2>7 DEF StepOK, ClientInv, LoopStates
<1>3. CASE PrepareFailed(JobAt(c)) /\ UNCHANGED requests /\ Return(c, "preparation_failed")
  <2>1. RequestsReserved'
    BY <1>1, <1>3, MoveKeepsRequests
  <2> QED
    BY <1>1, <1>3, <2>1, StepEnds DEF StepOK, QueueNext, LedgerStep
<1> QED
  BY <1>2, <1>3 DEF Prepare
---------------------------------------------------------------------------------
\* A client whose request times out, is started, cancelled, or dies.
LEMMA AwayInv ==
  ASSUME DispatchInv, NEW c \in Clients,
         Timeout(c) \/ SchedulerStart(c) \/ SchedulerCancel(c) \/ ClientCrash(c)
  PROVE  StepOK
<1> USE DEF DispatchInv, DispatchTypeOK
<1>1. UNCHANGED <<queueVars, requests>>
  BY DEF Timeout, SchedulerStart, SchedulerCancel, ClientCrash
<1>2. /\ client' \in [Clients -> Client]
      /\ \A d \in Clients : client'[d] = client[d] \/ client'[d].pc = "idle"
      /\ sched' \in [Clients -> LoopStates]
  <2>1. CASE Timeout(c)
    <3>1. /\ client' \in [Clients -> Client]
          /\ client'[c] = Away
          /\ \A d \in Clients : d # c => client'[d] = client[d]
          /\ sched' \in [Clients -> LoopStates]
      BY <2>1, ReturnType DEF Timeout, LoopStates
    <3> QED
      BY <3>1 DEF Away
  <2>2. CASE SchedulerStart(c) \/ SchedulerCancel(c)
    BY <2>2 DEF SchedulerStart, SchedulerCancel, LoopStates
  <2>3. CASE ClientCrash(c)
    <3>1. Away \in Client
      BY DEF Away, Client
    <3> QED
      BY <2>3, <3>1 DEF ClientCrash, Away, LoopStates
  <2> QED
    BY <2>1, <2>2, <2>3
<1> QED
  BY <1>1, <1>2, LettingGo DEF StepOK, queueVars

\* What an answer does to the clients: a waiting one goes on or lets go.
LEMMA AnswerType ==
  ASSUME DispatchInv, NEW a \in Tags, NEW r \in Runs \cup {NoRun}, Answer(a, r)
  PROVE  /\ client' \in [Clients -> Client]
         /\ sched' \in [Clients -> LoopStates]
         /\ \A d \in Clients :
              \/ client'[d] = client[d]
              \/ client'[d].pc = "idle"
              \/ /\ client[d].pc = "await" /\ client'[d].pc = "confirm"
                 /\ client'[d].at = client[d].at
<1> USE DEF DispatchInv, DispatchTypeOK
<1> DEFINE waiting == {c \in Clients : client[c].pc = "await" /\ client[c].at = a}
<1>1. Away \in Client /\ Away.pc = "idle"
  BY DEF Away, Client
<1>2. \A d \in Clients :
        client'[d] = IF d \notin waiting THEN client[d]
                     ELSE IF r = NoRun THEN Away
                     ELSE [client[d] EXCEPT !.pc = "confirm", !.reply = r]
  BY DEF Answer
<1>3. \A d \in Clients :
        LET new == [client[d] EXCEPT !.pc = "confirm", !.reply = r]
        IN  new \in Client /\ new.pc = "confirm" /\ new.at = client[d].at
  BY DEF Client
<1>4. \A d \in Clients : client'[d] \in Client
  BY <1>1, <1>2, <1>3
<1>5. client' \in [Clients -> Client]
  BY <1>4 DEF Answer
<1>6. sched' \in [Clients -> LoopStates]
  BY DEF Answer, LoopStates
<1> QED
  BY <1>1, <1>2, <1>3, <1>5, <1>6

\* Answers and journal steps keep the clients' invariant: no client loses its
\* reservation to them, and a run that names an attempt was requested.
LEMMA AnswerInv ==
  ASSUME DispatchInv,
         UNCHANGED <<job, tries, attempt, requests>>,
         client' \in [Clients -> Client],
         \A d \in Clients :
           \/ client'[d] = client[d]
           \/ client'[d].pc = "idle"
           \/ /\ client[d].pc = "await" /\ client'[d].pc = "confirm"
              /\ client'[d].at = client[d].at,
         \A a \in AttemptIds : Find(a) \subseteq Find(a)',
         \A a \in AttemptIds : a \notin requests => Find(a)' = Find(a)
  PROVE  ClientInv'
<1> USE DEF DispatchInv, DispatchTypeOK
<1>1. OneHolder'
  BY DEF OneHolder
<1>2. StepHasAttempt'
  BY DEF StepHasAttempt
<1>3. RequestsReserved'
  BY DEF RequestsReserved
<1>4. LauncherHoldsReservation'
  BY DEF LauncherHoldsReservation, StepHasAttempt, JobAt, Latest
<1> QED
  BY <1>1, <1>2, <1>3, <1>4 DEF ClientInv

\* Serving a start request is a step of the journal the ledger can live with:
\* the attempt it names, if it has no run, still has its reservation.
LEMMA ServeInv ==
  ASSUME DispatchInv, NEW a \in Tags, Serve(a)
  PROVE  StepOK
<1> USE DEF DispatchInv, DispatchTypeOK
<1>0. a \in AttemptIds /\ a \in requests /\ UNCHANGED requests
  BY QueueAssumption DEF Serve
<1>1. CASE Replay(a) \/ Refuse(a)
  <2>1. PICK r \in Runs \cup {NoRun} : Answer(a, r)
    BY <1>1 DEF Replay, Refuse, Find
  <2>2. UNCHANGED queueVars
    BY <1>1 DEF Replay, Refuse
  <2>3. \A b \in AttemptIds : Find(b)' = Find(b)
    BY <2>2 DEF Find, queueVars
  <2> QED
    BY <1>0, <2>1, <2>2, <2>3, AnswerType, AnswerInv DEF StepOK, queueVars
<1>2. CASE Admit(a)
  <2>1. PICK r \in Runs :
          /\ records[r] = Absent
          /\ records' = [records EXCEPT
                           ![r] = [phase |-> "open", tag |-> a, worker |-> "none"]]
          /\ Answer(a, r) \/ Answer(a, NoRun)
    BY <1>2 DEF Admit
  <2>2. Begin(r, a)
    BY <1>2, <2>1 DEF Begin, Admit, WorldFree, Find
  <2>3. JournalStep
    BY <1>0, <1>2, <2>2 DEF JournalStep, Admit, RequestsReserved
  <2>4. /\ records'[r].tag = a
        /\ \A q \in Runs : q # r => records'[q] = records[q]
    BY <2>1 DEF QueueInv, QueueTypeOK, JournalType
  <2>5. records[r].tag = NoTag /\ NoTag \notin AttemptIds
    BY <2>1, JournalAssumption, QueueAssumption DEF Absent
  <2>6. /\ \A b \in AttemptIds : Find(b) \subseteq Find(b)'
        /\ \A b \in AttemptIds : b \notin requests => Find(b)' = Find(b)
    BY <1>0, <2>4, <2>5 DEF Find
  <2>7. UNCHANGED <<job, tries, attempt>>
    BY <1>2 DEF Admit
  <2> QED
    BY <1>0, <2>1, <2>3, <2>6, <2>7, AnswerType, AnswerInv DEF StepOK, QueueNext
<1> QED
  BY <1>1, <1>2 DEF Serve

\* The rest of the world starts and ends runs, but none for an attempt.
LEMMA WorldInv ==
  ASSUME DispatchInv, World
  PROVE  StepOK
<1> USE DEF DispatchInv, DispatchTypeOK
<1>1. UNCHANGED <<job, tries, attempt, paused, refused, client, requests, sched>>
  BY DEF World
<1>2. JournalStep
  BY DEF World, JournalStep
<1>3. PICK r \in Runs : \/ Begin(r, NoTag)
                        \/ Launch(r)
                        \/ Exit(r)
                        \/ \E outcome \in Settled : Close(r, outcome)
  BY DEF World
<1>4. records \in [Runs -> Record]
  BY DEF QueueInv, QueueTypeOK, JournalType
<1>5. \A q \in Runs : records'[q].tag = records[q].tag
  <2>1. \A q \in Runs : q # r => records'[q] = records[q]
    BY <1>3, <1>4 DEF Begin, Launch, Exit, Close
  <2>2. records'[r].tag = records[r].tag
    <3>1. CASE Begin(r, NoTag)
      BY <3>1, <1>4 DEF Begin, Absent
    <3>2. CASE Launch(r) \/ Exit(r)
      BY <3>2, <1>4 DEF Launch, Exit, Record
    <3>3. CASE \E outcome \in Settled : Close(r, outcome)
      BY <3>3, <1>4 DEF Close, Record
    <3> QED
      BY <1>3, <3>1, <3>2, <3>3
  <2> QED
    BY <2>1, <2>2
<1>6. \A b \in AttemptIds : Find(b)' = Find(b)
  BY <1>5 DEF Find
<1>7. ClientInv'
  BY <1>1, <1>6, AnswerInv
<1> QED
  BY <1>1, <1>2, <1>7 DEF StepOK, LoopStates, QueueNext

\* Pausing and retrying: a reserved job is not one that can be retried.
LEMMA OperatorInv ==
  ASSUME DispatchInv, Operator
  PROVE  StepOK
<1> USE DEF DispatchInv, DispatchTypeOK
<1>1. UNCHANGED <<client, requests, sched, records, tries, attempt>>
  BY DEF Operator, SetPaused, Retry, Write
<1>2. \A j \in Jobs : job[j] = "reserved" => job'[j] = "reserved"
  BY DEF Operator, SetPaused, Retry, Write, Retryable, QueueInv, QueueTypeOK
<1>3. OneHolder' /\ StepHasAttempt'
  BY <1>1 DEF OneHolder, StepHasAttempt
<1>4. RequestsReserved'
  BY <1>1 DEF RequestsReserved, Find
<1>5. LauncherHoldsReservation'
  <2>1. \A c \in Clients : client[c].pc \in {"prepare", "await", "confirm"} => JobAt(c) \in Jobs
    BY AttemptPair DEF StepHasAttempt, JobAt
  <2> QED
    BY <1>1, <1>2, <2>1 DEF LauncherHoldsReservation, JobAt, Latest, Find
<1>6. [QueueNext]_queueVars
  BY DEF Operator, QueueNext, LedgerStep
<1> QED
  BY <1>1, <1>3, <1>4, <1>5, <1>6 DEF StepOK, ClientInv, LoopStates
---------------------------------------------------------------------------------
\* No client moved: the clients' invariant and the loops' type are as before.
LEMMA StutterInv ==
  ASSUME DispatchInv, UNCHANGED dispatchVars
  PROVE  StepOK
<1> USE DEF DispatchInv, DispatchTypeOK, dispatchVars
<1>1. ClientInv'
  BY LettingGo DEF queueVars
<1> QED
  BY <1>1 DEF StepOK, LoopStates

\* Every step of the dispatcher is a step of the queue, or none.
LEMMA DispatchStep ==
  ASSUME DispatchInv, [DispatchNext]_dispatchVars
  PROVE  StepOK
<1>1. ASSUME NEW c \in Clients, AdvanceStep(c) PROVE StepOK
  <2>1. CASE Look(c) \/ Preflight(c)
    BY <2>1, LookInv DEF StepOK
  <2>2. CASE RecoverBinding(c) \/ ReconcileStep(c) \/ Confirm(c)
    BY <2>2, BindReconcileInv
  <2> QED
    BY <1>1, <2>1, <2>2, ClaimStepInv, PrepareInv, AwayInv DEF AdvanceStep
<1>2. ASSUME NEW c \in Clients, SchedulerStart(c) \/ SchedulerCancel(c) \/ ClientCrash(c)
      PROVE  StepOK
  BY <1>2, AwayInv
<1>3. ASSUME NEW a \in Tags, Serve(a) PROVE StepOK
  BY <1>3, ServeInv
<1>4. CASE World
  BY <1>4, WorldInv
<1>5. CASE Operator
  BY <1>5, OperatorInv
<1>6. CASE UNCHANGED dispatchVars
  BY <1>6, StutterInv
<1> QED
  BY <1>1, <1>2, <1>3, <1>4, <1>5, <1>6 DEF DispatchNext

\* The queue's invariant, and what the clients add to it, are inductive.
LEMMA DispatchNextInv ==
  ASSUME DispatchInv, [DispatchNext]_dispatchVars
  PROVE  DispatchInv'
<1>1. StepOK
  BY DispatchStep
<1>2. QueueInv'
  BY <1>1, NextInv DEF StepOK, DispatchInv
<1>3. DispatchTypeOK'
  BY <1>1, <1>2 DEF DispatchTypeOK, StepOK, ClientInv, LoopStates, QueueInv
<1> QED
  BY <1>1, <1>2, <1>3 DEF DispatchInv, StepOK, ClientInv

\* At the start nobody is away from home and nothing has been requested.
LEMMA DispatchInitInv == DispatchInit => DispatchInv
<1> SUFFICES ASSUME DispatchInit PROVE DispatchInv
  OBVIOUS
<1> USE DEF DispatchInit
<1>1. QueueInv
  BY InitInv
<1>2. Away \in Client /\ Away.pc = "idle"
  BY DEF Away, Client
<1>3. DispatchTypeOK
  BY <1>1, <1>2 DEF DispatchTypeOK, QueueInv
<1>4. \A c \in Clients : client[c].pc = "idle"
  BY <1>2
<1>5. OneHolder /\ StepHasAttempt /\ LauncherHoldsReservation
  BY <1>4 DEF OneHolder, StepHasAttempt, LauncherHoldsReservation
<1>6. RequestsReserved
  <2>1. \A a \in AttemptIds : Find(a) = {}
    BY JournalAssumption, QueueAssumption DEF Find, QueueInit, JournalInit, Absent
  <2> QED
    BY <2>1 DEF RequestsReserved
<1> QED
  BY <1>1, <1>3, <1>5, <1>6 DEF DispatchInv

\* The inductive invariant holds throughout.
THEOREM DispatchCorrect == DispatchSpec => []DispatchInv
<1>1. DispatchInit => DispatchInv
  BY DispatchInitInv
<1>2. DispatchInv /\ [DispatchNext]_dispatchVars => DispatchInv'
  BY DispatchNextInv
<1> QED
  BY <1>1, <1>2, PTL DEF DispatchSpec

\* Type correctness of the dispatchers' state.
THEOREM DispatchTypeCorrect == DispatchSpec => []DispatchTypeOK
<1>1. DispatchInv => DispatchTypeOK
  BY DEF DispatchInv
<1> QED
  BY <1>1, DispatchCorrect, PTL

\* The refinement: whatever the clients, their crashes and the delivery of
\* their requests, the ledger and the journal see only steps of the queue.
THEOREM DispatchImplementsQueue == DispatchSpec => ImplementsQueue
<1>1. DispatchInit => QueueInit
  BY DEF DispatchInit
<1>2. DispatchInv /\ [DispatchNext]_dispatchVars => [QueueNext]_queueVars
  BY DispatchStep DEF StepOK
<1> QED
  BY <1>1, <1>2, DispatchCorrect, PTL DEF DispatchSpec, QueueSpec, ImplementsQueue

\* An attempt gets at most one execution: no two runs carry its identity.
THEOREM AttemptRunsOnce == DispatchSpec => []OneRunPerAttempt
<1>1. DispatchInv => OneRunPerAttempt
  <2> SUFFICES ASSUME DispatchInv, NEW a \in Tags
               PROVE  Cardinality(Find(a)) <= 1
    BY DEF OneRunPerAttempt
  <2>1. \A q, r \in Find(a) : q = r
    BY JournalAssumption DEF DispatchInv, QueueInv, TagsUnique, Find
  <2>2. CASE Find(a) = {}
    BY <2>2, FS_EmptySet
  <2>3. CASE Find(a) # {}
    <3>1. PICK r \in Find(a) : Find(a) = {r}
      BY <2>1, <2>3
    <3> QED
      BY <3>1, FS_Singleton
  <2> QED
    BY <2>2, <2>3
<1> QED
  BY <1>1, DispatchCorrect, PTL

\* A client that is launching an attempt holds its reservation.
THEOREM LauncherIsHolder == DispatchSpec => []LauncherHoldsReservation
<1>1. DispatchInv => LauncherHoldsReservation
  BY DEF DispatchInv
<1> QED
  BY <1>1, DispatchCorrect, PTL

\* What was proved of the queue holds while clients drive it: what the ledger
\* says has ended has ended, and no run in progress is lost track of.
THEOREM DispatchKeepsLedger == DispatchSpec => [](SettledMatchesJournal /\ OpenRunIsHeld)
<1>1. DispatchInv => SettledMatchesJournal /\ OpenRunIsHeld
  BY DEF DispatchInv, QueueInv
<1> QED
  BY <1>1, DispatchCorrect, PTL

\* A completed job is never touched again: it is neither active nor retryable.
LEMMA CompletedStays ==
  ASSUME QueueInv, [QueueNext]_queueVars, NEW j \in Jobs, job[j] = "completed"
  PROVE  job'[j] = "completed"
<1> USE DEF QueueInv, QueueTypeOK
<1>1. ASSUME NEW k \in Jobs, LedgerStep(k) PROVE job'[j] = "completed"
  BY <1>1 DEF LedgerStep, Claim, Bind, PrepareFailed, Reconcile, Retry, Retryable, Write
<1>2. CASE UNCHANGED job
  BY <1>2
<1> QED
  BY <1>1, <1>2 DEF QueueNext, SetPaused, JournalStep, Write, queueVars

\* A loop turns to completed only on a ledger whose jobs all are.
LEMMA LoopCompletes ==
  ASSUME DispatchInv, [DispatchNext]_dispatchVars,
         NEW c \in Clients, sched'[c] = "completed"
  PROVE  sched[c] = "completed" \/ \A j \in Jobs : job[j] = "completed"
<1> USE DEF DispatchInv, DispatchTypeOK
<1>1. ASSUME NEW d \in Clients, NEW action, Return(d, action)
      PROVE  sched[c] = "completed" \/ \A j \in Jobs : job[j] = "completed"
  BY <1>1 DEF Return, Verdict
<1>2. ASSUME NEW a \in Tags, NEW r, Answer(a, r)
      PROVE  sched[c] = "completed"
  BY <1>2 DEF Answer
<1>3. CASE UNCHANGED sched
  BY <1>3
<1>4. ASSUME NEW d \in Clients, SchedulerStart(d) \/ SchedulerCancel(d) \/ ClientCrash(d)
      PROVE  sched[c] = "completed"
  BY <1>4 DEF SchedulerStart, SchedulerCancel, ClientCrash
<1>5. ASSUME NEW d \in Clients, AdvanceStep(d)
      PROVE  sched[c] = "completed" \/ \A j \in Jobs : job[j] = "completed"
  BY <1>5, <1>1, <1>3 DEF AdvanceStep, Look, RecoverBinding, ReconcileStep, Preflight,
                          ClaimStep, Prepare, Confirm, Timeout
<1>6. ASSUME NEW a \in Tags, Serve(a) PROVE sched[c] = "completed"
  BY <1>6, <1>2 DEF Serve, Replay, Admit, Refuse
<1> QED
  BY <1>3, <1>4, <1>5, <1>6 DEF DispatchNext, World, Operator, dispatchVars

\* A loop never reports a batch completed while a job of it is not.
THEOREM CompletionIsTrue == DispatchSpec => []CompletedMeansAll
<1>1. DispatchInit => CompletedMeansAll
  BY DEF DispatchInit, CompletedMeansAll
<1>2. DispatchInv /\ CompletedMeansAll /\ [DispatchNext]_dispatchVars => CompletedMeansAll'
  <2> SUFFICES ASSUME DispatchInv, CompletedMeansAll, [DispatchNext]_dispatchVars,
                      NEW c \in Clients, sched'[c] = "completed", NEW j \in Jobs
               PROVE  job'[j] = "completed"
    BY DEF CompletedMeansAll
  <2>1. job[j] = "completed"
    BY LoopCompletes DEF CompletedMeansAll
  <2> QED
    BY <2>1, DispatchStep, CompletedStays DEF StepOK, DispatchInv
<1> QED
  BY <1>1, <1>2, DispatchCorrect, PTL DEF DispatchSpec

-----------------------------------------------------------------------------
(* ExperimentReports: the plan as digits, and a report read while the batch *)
(* goes on.                                                                 *)

(* Division, digit by digit.                                               *)
LEMMA SameDigits ==
  ASSUME NEW x \in Nat, NEW y \in Nat, NEW n \in Nat \ {0},
         x % n = y % n, x \div n = y \div n
  PROVE  x = y
<1>1. x = n * (x \div n) + (x % n) OBVIOUS
<1>2. y = n * (y \div n) + (y % n) OBVIOUS
<1> QED BY <1>1, <1>2

(* A quotient is below the factor that is left.                            *)
LEMMA QuotientBelow ==
  ASSUME NEW n \in Nat \ {0}, NEW m \in Nat, NEW x \in Nat, x < m * n
  PROVE  x \div n \in Nat /\ x \div n < m
<1>1. x \div n \in Nat OBVIOUS
<1>2. x = n * (x \div n) + (x % n) /\ x % n \in Nat OBVIOUS
<1>3. SUFFICES ASSUME x \div n >= m PROVE FALSE BY <1>1
<1> DEFINE q == x \div n
<1>4. n * q >= n * m BY <1>1, <1>3
<1>5. n * m = m * n OBVIOUS
<1> QED BY <1>2, <1>4, <1>5

(* The rounds of the axes, one below the other.                            *)
LEMMA RoundsOf ==
  ASSUME ReportAssumption, NEW j \in Jobs
  PROVE  /\ \A axis \in Axes : Rounds(j)[axis] \in Nat
         /\ Rounds(j)[5] = j - 1
         /\ \A axis \in 1 .. 4 : Rounds(j)[axis] = Rounds(j)[axis + 1] \div Sizes[axis + 1]
         /\ Rounds(j)[1] < Sizes[1]
<1>1. \A axis \in Axes : Sizes[axis] \in Nat \ {0}
  BY ReportAssumption DEF ReportAssumption
<1>2. Sizes[1] \in Nat \ {0} /\ Sizes[2] \in Nat \ {0} /\ Sizes[3] \in Nat \ {0}
      /\ Sizes[4] \in Nat \ {0} /\ Sizes[5] \in Nat \ {0}
  BY <1>1 DEF Axes
<1> DEFINE a == Sizes[1]
           b == a * Sizes[2]
           c == b * Sizes[3]
           d == c * Sizes[4]
           x5 == j - 1
           x4 == x5 \div Sizes[5]
           x3 == x4 \div Sizes[4]
           x2 == x3 \div Sizes[3]
           x1 == x2 \div Sizes[2]
<1>3. a \in Nat /\ b \in Nat /\ c \in Nat /\ d \in Nat
  BY <1>2
<1>4. x5 \in Nat /\ x5 < d * Sizes[5]
  BY ReportAssumption, <1>2, <1>3 DEF Jobs, ReportAssumption
<1> HIDE DEF a, b, c, d
<1>5. x4 \in Nat /\ x4 < d
  BY <1>2, <1>3, <1>4, QuotientBelow
<1>6. x3 \in Nat /\ x3 < c
  <2>1. x4 < c * Sizes[4] BY <1>5 DEF d
  <2> HIDE DEF x4
  <2> QED BY <1>2, <1>3, <1>5, <2>1, QuotientBelow
<1>7. x2 \in Nat /\ x2 < b
  <2>1. x3 < b * Sizes[3] BY <1>6 DEF c
  <2> HIDE DEF x3
  <2> QED BY <1>2, <1>3, <1>6, <2>1, QuotientBelow
<1>8. x1 \in Nat /\ x1 < a
  <2>1. x2 < a * Sizes[2] BY <1>7 DEF b
  <2> HIDE DEF x2
  <2> QED BY <1>2, <1>3, <1>7, <2>1, QuotientBelow
<1>9. Rounds(j) = <<x1, x2, x3, x4, x5>>
  BY DEF Rounds
<1> HIDE DEF x1, x2, x3, x4, x5
<1>10. /\ Rounds(j)[1] = x1 /\ Rounds(j)[2] = x2 /\ Rounds(j)[3] = x3
       /\ Rounds(j)[4] = x4 /\ Rounds(j)[5] = x5
  BY <1>9
<1>11. /\ x4 = x5 \div Sizes[5] /\ x3 = x4 \div Sizes[4] /\ x2 = x3 \div Sizes[3]
       /\ x1 = x2 \div Sizes[2] /\ x5 = j - 1
  BY DEF x1, x2, x3, x4, x5
<1>12. x1 < Sizes[1] BY <1>8 DEF a
<1>13. \A axis \in Axes : axis \in {1, 2, 3, 4, 5} BY DEF Axes
<1>14. \A axis \in 1 .. 4 : axis \in {1, 2, 3, 4} OBVIOUS
<1>15. /\ Rounds(j)[1] = Rounds(j)[1 + 1] \div Sizes[1 + 1]
       /\ Rounds(j)[2] = Rounds(j)[2 + 1] \div Sizes[2 + 1]
       /\ Rounds(j)[3] = Rounds(j)[3 + 1] \div Sizes[3 + 1]
       /\ Rounds(j)[4] = Rounds(j)[4 + 1] \div Sizes[4 + 1]
  BY <1>10, <1>11
<1> QED
  BY <1>4, <1>5, <1>6, <1>7, <1>8, <1>10, <1>11, <1>12, <1>13, <1>14, <1>15

(* No two jobs are of one condition: the variants of a job are the digits  *)
(* of its number.                                                          *)
LEMMA JobsAreDistinct == ConditionsAreDistinct
<1> SUFFICES ASSUME NEW j \in Jobs, NEW k \in Jobs,
                    \A axis \in Axes : Variant(j, axis) = Variant(k, axis)
             PROVE  j = k
  BY DEF ConditionsAreDistinct
<1>1. \A axis \in Axes :
        Sizes[axis] \in Nat \ {0} /\ Rounds(j)[axis] \in Nat /\ Rounds(k)[axis] \in Nat
  BY ReportAssumption, RoundsOf DEF ReportAssumption
<1>2. \A axis \in Axes : Rounds(j)[axis] % Sizes[axis] = Rounds(k)[axis] % Sizes[axis]
  <2> TAKE axis \in Axes
  <2>1. (Rounds(j)[axis] % Sizes[axis]) + 1 = (Rounds(k)[axis] % Sizes[axis]) + 1 BY DEF Variant
  <2>2. Rounds(j)[axis] % Sizes[axis] \in Nat /\ Rounds(k)[axis] % Sizes[axis] \in Nat BY <1>1
  <2> QED BY <2>1, <2>2
<1>3. ASSUME NEW axis \in 1 .. 4, Rounds(j)[axis] = Rounds(k)[axis]
      PROVE  Rounds(j)[axis + 1] = Rounds(k)[axis + 1]
  <2>1. axis + 1 \in Axes BY DEF Axes
  <2>2. Rounds(j)[axis + 1] \div Sizes[axis + 1] = Rounds(k)[axis + 1] \div Sizes[axis + 1]
    BY ReportAssumption, <1>3, RoundsOf
  <2> QED BY <1>1, <1>2, <2>1, <2>2, SameDigits
<1>4. Rounds(j)[1] = Rounds(k)[1]
  <2>1. 1 \in Axes BY DEF Axes
  <2>2. Rounds(j)[1] < Sizes[1] /\ Rounds(k)[1] < Sizes[1] BY ReportAssumption, RoundsOf
  <2>3. \A x, n \in Nat : x < n => x % n = x
    OBVIOUS
  <2> QED BY <1>1, <1>2, <2>1, <2>2, <2>3
<1>5. Rounds(j)[2] = Rounds(k)[2] BY <1>3, <1>4
<1>6. Rounds(j)[3] = Rounds(k)[3] BY <1>3, <1>5
<1>7. Rounds(j)[4] = Rounds(k)[4] BY <1>3, <1>6
<1>8. Rounds(j)[5] = Rounds(k)[5] BY <1>3, <1>7
<1>9. j - 1 = k - 1 BY ReportAssumption, RoundsOf, <1>8
<1>10. j \in Int /\ k \in Int BY DEF Jobs
<1> QED BY <1>9, <1>10

-----------------------------------------------------------------------------
(* What no step of ledger and journal takes back.                          *)
LEMMA RecordsStand ==
  ASSUME QueueInv, [QueueNext]_queueVars, NEW r \in Runs
  PROVE  /\ records[r].tag # NoTag => records'[r].tag = records[r].tag
         /\ records[r].phase = "completed" => records'[r].phase = "completed"
<1>1. CASE records' = records
  BY <1>1
<1>2. CASE JournalStep
  <2>1. records \in [Runs -> Record] BY DEF QueueInv, QueueTypeOK, JournalType
  <2>2. PICK q \in Runs : \/ \E t \in Tags \cup {NoTag} : Begin(q, t)
                          \/ Launch(q) \/ Exit(q) \/ \E outcome \in Settled : Close(q, outcome)
    BY <1>2 DEF JournalStep
  <2>3. CASE q # r
    BY <2>1, <2>2, <2>3 DEF Begin, Launch, Exit, Close
  <2>4. CASE q = r
    BY <2>1, <2>2, <2>4 DEF Begin, Launch, Exit, Close, Absent, Record
  <2> QED BY <2>3, <2>4
<1> QED
  BY <1>1, <1>2 DEF QueueNext, LedgerStep, Claim, Bind, PrepareFailed, Reconcile, Retry,
     SetPaused, queueVars

(* A completed job keeps its attempts and the execution that completed it. *)
LEMMA CompletedStands ==
  ASSUME QueueInv, [QueueNext]_queueVars, NEW j \in Jobs, job[j] = "completed"
  PROVE  /\ job'[j] = "completed" /\ tries'[j] = tries[j]
         /\ attempt'[Latest(j)] = attempt[Latest(j)]
<1> USE DEF QueueInv, QueueTypeOK
<1>0. Latest(j) \in AttemptIds
  BY LatestIssued
<1>1. job'[j] = "completed"
  BY CompletedStays
<1>2. ASSUME NEW k \in Jobs, LedgerStep(k)
      PROVE  tries'[j] = tries[j] /\ attempt'[Latest(j)] = attempt[Latest(j)]
  <2>1. k # j
    BY <1>2 DEF LedgerStep, Claim, Bind, PrepareFailed, Reconcile, Retry, Retryable
  <2>2. \A n : <<j, tries[j]>> # <<k, n>>
    BY <2>1
  <2>3. CASE Claim(k)
    BY <1>0, <2>1, <2>2, <2>3 DEF Claim, Write, Latest
  <2>4. CASE Retry(k)
    BY <2>4 DEF Retry, Write
  <2>5. CASE (\E r \in Runs : Bind(k, r)) \/ PrepareFailed(k) \/ Reconcile(k)
    BY <1>0, <2>1, <2>2, <2>5 DEF Bind, PrepareFailed, Reconcile, Write, Latest
  <2> QED BY <1>2, <2>3, <2>4, <2>5 DEF LedgerStep
<1>3. CASE UNCHANGED <<tries, attempt>>
  BY <1>1, <1>3
<1> QED
  BY <1>1, <1>2, <1>3 DEF QueueNext, SetPaused, JournalStep, Write, queueVars

(* What was once read of a job is not taken back by ledger or journal.     *)
LEMMA WhatHoldsStays ==
  ASSUME QueueInv, [QueueNext]_queueVars,
         NEW j \in Jobs, NEW state, NEW n, NEW r, StillHolds(j, state, n, r)
  PROVE  StillHolds(j, state, n, r)'
<1>1. r # NoRun => /\ r \in Runs /\ records[r].tag = <<j, n>> /\ <<j, n>> \in AttemptIds
                   /\ records[r].tag # NoTag
  BY QueueAssumption, JournalAssumption DEF StillHolds
<1>2. r # NoRun => records'[r].tag = <<j, n>>
  BY <1>1, RecordsStand
<1>3. state = "completed" =>
        /\ job'[j] = "completed" /\ tries'[j] = n /\ attempt'[<<j, n>>].execution = r
        /\ records'[r].phase = "completed"
  BY <1>1, RecordsStand, CompletedStands DEF StillHolds, Latest
<1> QED BY <1>1, <1>2, <1>3 DEF StillHolds

(* What the ledger says of a job holds.                                    *)
LEMMA LedgerHolds ==
  ASSUME QueueInv, NEW j \in Jobs
  PROVE  LET n == tries[j]
             r == IF n > 0 /\ job[j] # "pending" THEN attempt[<<j, n>>].execution ELSE NoRun
         IN  StillHolds(j, job[j], n, r)
<1> DEFINE n == tries[j]
           r == IF n > 0 /\ job[j] # "pending" THEN attempt[<<j, n>>].execution ELSE NoRun
<1> USE DEF QueueInv
<1>1. n \in 0 .. MaxAttempts BY DEF QueueTypeOK
<1>2. CASE job[j] = "pending"
  <2>1. r = NoRun BY <1>2
  <2> QED BY <1>1, <1>2, <2>1 DEF StillHolds
<1>3. CASE job[j] # "pending"
  <2>1. /\ Latest(j) \in AttemptIds /\ Latest(j) \in Issued(tries)
        /\ attempt[Latest(j)].state = job[j] /\ n \in 1 .. MaxAttempts /\ Latest(j) = <<j, n>>
    BY <1>3, LatestIssued DEF Latest
  <2>2. n > 0 BY <2>1
  <2>3. r = attempt[<<j, n>>].execution /\ r \in Runs \cup {NoRun}
    BY <1>3, <2>1, <2>2 DEF QueueTypeOK, Attempt
  <2>4. r # NoRun => records[r].tag = <<j, n>>
    BY <2>1, <2>3 DEF BoundToOwnRun
  <2>5. job[j] = "completed" => r # NoRun
    BY <2>1, <2>3 DEF ValidLedger, BindingMatchesState
  <2>6. job[j] = "completed" => records[r].phase = "completed"
    BY <2>1, <2>3, <2>5 DEF SettledMatchesJournal, Settled
  <2> HIDE DEF r, n
  <2>7. tries[j] = n BY DEF n
  <2> QED BY <1>1, <1>3, <2>1, <2>3, <2>4, <2>5, <2>6, <2>7 DEF StillHolds
<1> QED BY <1>2, <1>3

(* Every step of the report is a step of the ledger, or leaves it alone.   *)
LEMMA ReportsAreSteps ==
  ASSUME QueueInv, [ReportNext]_reportVars
  PROVE  [QueueNext]_queueVars
<1>1. CASE LedgerMoves
  BY <1>1 DEF LedgerMoves, QueueNext, LedgerStep
<1>2. ASSUME NEW j \in Jobs, PreparationFails(j) PROVE QueueNext
  BY <1>2 DEF PreparationFails, QueueNext, LedgerStep
<1>3. CASE BatchRunBegins
  BY <1>3 DEF BatchRunBegins, QueueNext, JournalStep
<1>4. CASE RunLaunches \/ RunExits
  BY <1>4 DEF RunLaunches, RunExits, QueueNext, JournalStep
<1>5. CASE RunCloses
  <2>1. \A result : Outcome(result) \in Settled BY DEF Outcome, Settled
  <2> QED BY <1>5, <2>1 DEF RunCloses, QueueNext, JournalStep, Settled
<1>6. CASE UNCHANGED queueVars
  BY <1>6
<1> QED
  BY <1>1, <1>2, <1>3, <1>4, <1>5, <1>6 DEF ReportNext, ArchiveScenario, ReadLedger, Summarize,
     reportVars, queueVars

(* What is left of a run stays when the run is completed.                  *)
LEMMA LeftStands ==
  ASSUME QueueInv, ReportTypeOK, OutcomeIsLeft, [ReportNext]_reportVars,
         NEW r \in Runs, records[r].phase = "completed"
  PROVE  left'[r] = left[r]
<1>1. records[r].worker = "gone" BY DEF OutcomeIsLeft
<1>2. CASE RunExits
  BY <1>1, <1>2 DEF RunExits, Exit, ReportTypeOK
<1> QED
  BY <1>2 DEF ReportNext, LedgerMoves, PreparationFails, BatchRunBegins, RunLaunches, RunCloses,
     ArchiveScenario,
     ReadLedger, Summarize, reportVars

(* A run is assessed by what it left, and started from a whole scenario.   *)
LEMMA LeavingsStep ==
  ASSUME ReportInv, [ReportNext]_reportVars
  PROVE  OutcomeIsLeft' /\ StartedFromWhole'
<1>1. records \in [Runs -> Record] /\ QueueInv
  BY DEF ReportInv, QueueInv, QueueTypeOK, JournalType
<1>2. /\ left \in [Runs -> Leavings] /\ archive \in [Jobs -> {"absent", "partial", "whole"}]
      /\ OutcomeIsLeft /\ StartedFromWhole
  BY DEF ReportInv, ReportTypeOK
<1>3. CASE BatchRunBegins
  <2>1. PICK r \in Runs, t \in Tags : StartsFrom(t[1]) /\ Begin(r, t)
    BY <1>3 DEF BatchRunBegins
  <2>2. /\ records'[r].tag = t /\ records'[r].phase = "open"
        /\ \A q \in Runs : q # r => records'[q] = records[q]
        /\ UNCHANGED <<left, archive>>
    BY <1>1, <1>3, <2>1 DEF BatchRunBegins, Begin
  <2> QED BY <1>2, <2>1, <2>2 DEF OutcomeIsLeft, StartedFromWhole, StartsFrom
<1>4. CASE RunLaunches
  <2>1. PICK r \in Runs : Launch(r)
    BY <1>4 DEF RunLaunches
  <2>2. /\ records'[r].tag = records[r].tag /\ records'[r].phase = "open"
        /\ \A q \in Runs : q # r => records'[q] = records[q]
        /\ UNCHANGED <<left, archive>>
    BY <1>1, <1>4, <2>1 DEF RunLaunches, Launch, Record
  <2> QED BY <1>2, <2>2 DEF OutcomeIsLeft, StartedFromWhole, StartsFrom
<1>5. CASE RunExits
  <2>1. PICK r \in Runs : Exit(r) /\ \E result \in Leavings : left' = [left EXCEPT ![r] = result]
    BY <1>5 DEF RunExits
  <2>2. /\ records[r].worker = "live" /\ records'[r].tag = records[r].tag
        /\ records'[r].phase = records[r].phase
        /\ \A q \in Runs : q # r => records'[q] = records[q] /\ left'[q] = left[q]
        /\ UNCHANGED archive
    BY <1>1, <1>2, <1>5, <2>1 DEF RunExits, Exit, Record
  <2> QED BY <1>2, <2>2 DEF OutcomeIsLeft, StartedFromWhole, StartsFrom
<1>6. CASE RunCloses
  <2>1. PICK r \in Runs :
          Close(r, IF records[r].worker = "none" THEN "failed" ELSE Outcome(left[r]))
    BY <1>6 DEF RunCloses
  <2> DEFINE outcome == IF records[r].worker = "none" THEN "failed" ELSE Outcome(left[r])
  <2>2. /\ records'[r].tag = records[r].tag /\ records'[r].phase = outcome
        /\ records'[r].worker = records[r].worker
        /\ outcome = "completed" => records[r].worker = "gone"
        /\ \A q \in Runs : q # r => records'[q] = records[q]
        /\ UNCHANGED <<left, archive>>
    BY <1>1, <1>6, <2>1 DEF RunCloses, Close, Record
  <2>3. outcome = "completed" => left[r].status \in Accepted
    BY DEF Outcome, BenchmarkResultFailed
  <2> QED BY <1>2, <2>2, <2>3 DEF OutcomeIsLeft, StartedFromWhole, StartsFrom
<1>7. ASSUME NEW j \in Jobs, ArchiveScenario(j) PROVE OutcomeIsLeft' /\ StartedFromWhole'
  <2>1. /\ archive[j] = "absent" /\ \A k \in Jobs : k # j => archive'[k] = archive[k]
        /\ UNCHANGED <<records, left>>
    BY <1>2, <1>7 DEF ArchiveScenario, queueVars
  <2>2. \A r \in Runs : records[r].tag # NoTag => records[r].tag[1] \in Jobs
    <3>1. \A t \in Tags : t[1] \in Jobs BY QueueAssumption, AttemptPair
    <3> QED BY <1>1, <3>1 DEF Record
  <2> QED BY <1>2, <2>1, <2>2 DEF OutcomeIsLeft, StartedFromWhole, StartsFrom
<1>8. CASE UNCHANGED <<records, left, archive>>
  BY <1>2, <1>8 DEF OutcomeIsLeft, StartedFromWhole, StartsFrom
<1> QED
  BY <1>3, <1>4, <1>5, <1>6, <1>7, <1>8 DEF ReportNext, LedgerMoves, PreparationFails,
     PrepareFailed, Claim, Bind,
     Reconcile, Retry, ReadLedger, Summarize, reportVars, queueVars

(* A report: what is read, what is shown, and what the batch does meanwhile.*)
LEMMA ReaderStep ==
  ASSUME ReportInv, [ReportNext]_reportVars
  PROVE  ReportTypeOK' /\ ReadStillHolds' /\ ShownStillHolds'
<1>1. QueueInv /\ ReportTypeOK /\ OutcomeIsLeft /\ ReadStillHolds /\ ShownStillHolds
  BY DEF ReportInv
<1>2. [QueueNext]_queueVars
  BY <1>1, ReportsAreSteps
<1>3. \A j \in Jobs : \A state, n, r : StillHolds(j, state, n, r) => StillHolds(j, state, n, r)'
  BY <1>1, <1>2, WhatHoldsStays
<1>4. \A r \in Runs : records[r].phase = "completed" => left'[r] = left[r]
  BY <1>1, LeftStands
<1>5. left' \in [Runs -> Leavings] /\ archive' \in [Jobs -> {"absent", "partial", "whole"}]
  <2>1. CASE RunExits
    BY <1>1, <2>1 DEF ReportTypeOK, RunExits
  <2>2. CASE \E j \in Jobs : ArchiveScenario(j)
    BY <1>1, <2>2 DEF ReportTypeOK, ArchiveScenario
  <2>3. CASE UNCHANGED <<left, archive>>
    BY <1>1, <2>3 DEF ReportTypeOK
  <2> QED
    BY <2>1, <2>2, <2>3 DEF ReportNext, LedgerMoves, PreparationFails, BatchRunBegins,
       RunLaunches, RunCloses,
       ReadLedger, Summarize, reportVars
<1>6. CASE UNCHANGED reader
  <2>1. ReportTypeOK' BY <1>1, <1>5, <1>6 DEF ReportTypeOK
  <2>2. ReadStillHolds'
    <3>1. SUFFICES ASSUME reader.at = "read", NEW j \in Jobs
                   PROVE  StillHolds(j, reader.job[j], reader.tries[j], Execution(reader, j))'
      BY <1>6 DEF ReadStillHolds
    <3>2. StillHolds(j, reader.job[j], reader.tries[j], Execution(reader, j))
      BY <1>1, <3>1 DEF ReadStillHolds
    <3>3. PICK state, n, r : state = reader.job[j] /\ n = reader.tries[j]
                              /\ r = Execution(reader, j)
      OBVIOUS
    <3>4. Execution(reader, j)' = r
      BY <1>6, <3>3 DEF Execution, Credited
    <3>5. StillHolds(j, state, n, r)
      BY <3>2, <3>3
    <3>6. StillHolds(j, state, n, r)'
      BY <1>3, <3>5
    <3> QED BY <1>6, <3>3, <3>4, <3>6 DEF StillHolds
  <2>3. ShownStillHolds'
    <3>1. SUFFICES ASSUME reader.at = "shown"
                   PROVE  \A j \in Jobs :
                            LET row == reader.rows[j]
                            IN  /\ StillHolds(j, row.state, row.attempts, row.execution)'
                                /\ row.state = "completed" => row.metrics = left'[row.execution]
      BY <1>1, <1>6 DEF ShownStillHolds
    <3> TAKE j \in Jobs
    <3>2. PICK state, n, r : state = reader.rows[j].state /\ n = reader.rows[j].attempts
                              /\ r = reader.rows[j].execution
      OBVIOUS
    <3>3. StillHolds(j, state, n, r) /\ (state = "completed" => reader.rows[j].metrics = left[r])
      BY <1>1, <3>1, <3>2 DEF ShownStillHolds
    <3>4. StillHolds(j, state, n, r)'
      BY <1>3, <3>3
    <3>5. state = "completed" => r \in Runs /\ records[r].phase = "completed"
      BY <3>3 DEF StillHolds
    <3>6. state = "completed" => reader.rows[j].metrics = left'[r]
      BY <1>4, <3>3, <3>5
    <3> QED BY <1>6, <3>2, <3>4, <3>6 DEF StillHolds
  <2> QED BY <2>1, <2>2, <2>3
<1>7. CASE ReadLedger
  <2>1. /\ reader'.at = "read" /\ reader'.job = job /\ reader'.tries = tries
        /\ reader'.attempt = attempt
        /\ UNCHANGED queueVars
    BY <1>7 DEF ReadLedger, NoReport
  <2>2. ReportTypeOK'
    BY <1>1, <1>5, <2>1 DEF ReportTypeOK, QueueInv, QueueTypeOK
  <2>3. ASSUME NEW j \in Jobs
        PROVE  StillHolds(j, reader.job[j], reader.tries[j], Execution(reader, j))'
    <3>1. PICK state, n, r :
            /\ state = job[j] /\ n = tries[j]
            /\ r = IF tries[j] > 0 /\ job[j] # "pending"
                   THEN attempt[<<j, tries[j]>>].execution ELSE NoRun
      OBVIOUS
    <3>2. StillHolds(j, state, n, r)
      BY <1>1, <3>1, LedgerHolds
    <3>3. Execution(reader, j)' = r
      BY <2>1, <3>1 DEF Execution, Credited
    <3>4. reader'.job[j] = state /\ reader'.tries[j] = n
      BY <2>1, <3>1
    <3>5. StillHolds(j, state, n, r)'
      BY <1>3, <3>2
    <3> QED BY <3>3, <3>4, <3>5 DEF StillHolds
  <2>4. ReadStillHolds' /\ ShownStillHolds'
    BY <2>1, <2>3 DEF ReadStillHolds, ShownStillHolds
  <2> QED BY <2>2, <2>4
<1>8. CASE Summarize
  <2>1. /\ reader.at = "read" /\ reader'.at = "shown" /\ UNCHANGED <<queueVars, left>>
        /\ reader'.rows = [j \in Jobs |-> Row(reader, j)]
        /\ reader'.all = \A j \in Jobs : reader.job[j] = "completed"
    BY <1>8 DEF Summarize, NoReport
  <2>2. ReportTypeOK'
    BY <1>1, <1>5, <2>1 DEF ReportTypeOK
  <2>3. ASSUME NEW j \in Jobs
        PROVE  /\ StillHolds(j, reader.rows[j].state, reader.rows[j].attempts,
                           reader.rows[j].execution)'
               /\ reader'.rows[j].state = reader.job[j]
               /\ reader'.rows[j].state = "completed" =>
                     reader'.rows[j].metrics = left'[reader'.rows[j].execution]
    <3>1. /\ reader'.rows[j].state = reader.job[j] /\ reader'.rows[j].attempts = reader.tries[j]
          /\ reader'.rows[j].execution = Execution(reader, j)
          /\ reader'.rows[j].metrics = Metrics(reader, j)
      BY <2>1 DEF Row
    <3>2. PICK state, n, r : state = reader.job[j] /\ n = reader.tries[j]
                              /\ r = Execution(reader, j)
      OBVIOUS
    <3>3. StillHolds(j, state, n, r)
      BY <1>1, <2>1, <3>2 DEF ReadStillHolds
    <3>4. StillHolds(j, state, n, r)'
      BY <1>3, <3>3
    <3>5. state = "completed" => Metrics(reader, j) = left[r]
      <4>1. state = "completed" => r # NoRun /\ left[r].status \in Accepted
        BY <1>1, <3>3 DEF StillHolds, OutcomeIsLeft
      <4> QED BY <3>2, <4>1 DEF Metrics
    <3> QED BY <2>1, <3>1, <3>2, <3>4, <3>5 DEF StillHolds
  <2>4. ReadStillHolds' /\ ShownStillHolds'
    BY <2>1, <2>3 DEF ReadStillHolds, ShownStillHolds
  <2> QED BY <2>2, <2>4
<1> QED
  BY <1>6, <1>7, <1>8 DEF ReportNext, LedgerMoves, PreparationFails, BatchRunBegins,
     RunLaunches, RunExits, RunCloses,
     ArchiveScenario, reportVars

(* The inductive invariant of the report beside the ledger.                *)
THEOREM ReportCorrect == ReportSpec => []ReportInv
<1>1. ReportInit => ReportInv
  <2> SUFFICES ASSUME ReportInit PROVE ReportInv
    OBVIOUS
  <2>1. QueueInv BY InitInv DEF ReportInit
  <2>2. \A r \in Runs : records[r].phase = "absent" /\ records[r].tag = NoTag
    BY DEF ReportInit, QueueInit, JournalInit, Absent
  <2>3. left \in [Runs -> Leavings] /\ archive \in [Jobs -> {"absent", "partial", "whole"}]
        /\ reader.at = "idle"
    BY DEF ReportInit, Leavings, NoReport
  <2> QED
    BY <2>1, <2>2, <2>3 DEF ReportInv, ReportTypeOK, OutcomeIsLeft, StartedFromWhole,
       ReadStillHolds, ShownStillHolds
<1>2. ReportInv /\ [ReportNext]_reportVars => ReportInv'
  <2> SUFFICES ASSUME ReportInv, [ReportNext]_reportVars PROVE ReportInv'
    OBVIOUS
  <2>1. QueueInv' BY ReportsAreSteps, NextInv DEF ReportInv
  <2> QED BY <2>1, LeavingsStep, ReaderStep DEF ReportInv
<1> QED
  BY <1>1, <1>2, PTL DEF ReportSpec

(* Two rows of a report never stand for one condition, a row that credits  *)
(* an execution names the one launched for its latest attempt with what it *)
(* left behind, a report of a finished batch is never out of date, and the *)
(* pairs it compares are of two executions (experiment_matrix.py,          *)
(* experiment_report.py).                                                  *)
THEOREM ReportsAreTrue == ReportSpec => []ReportIsTrue
<1>1. ASSUME ReportInv PROVE ReportIsTrue
  <2>1. ASSUME reader.at = "shown", NEW j \in Jobs
        PROVE  RowIsOwn(j) /\ RowStaysTrue(j)
    <3> DEFINE row == reader.rows[j]
    <3>1. /\ StillHolds(j, row.state, row.attempts, row.execution)
          /\ row.state = "completed" => row.metrics = left[row.execution]
      BY <1>1, <2>1 DEF ReportInv, ShownStillHolds
    <3>2. row.state = "completed" => row.execution \in Runs
                                     /\ records[row.execution].phase = "completed"
                                     /\ records[row.execution].tag = <<j, row.attempts>>
      BY <3>1 DEF StillHolds
    <3>3. row.state = "completed" => Measured(row)
      BY <1>1, <3>1, <3>2 DEF ReportInv, OutcomeIsLeft, Measured
    <3>4. row.state = "completed" => archive[j] = "whole"
      <4>1. SUFFICES ASSUME row.state = "completed" PROVE archive[j] = "whole"
        OBVIOUS
      <4>2. <<j, row.attempts>> \in AttemptIds /\ <<j, row.attempts>>[1] = j
        BY <3>1, <4>1 DEF StillHolds
      <4>3. records[row.execution].tag # NoTag
        BY <3>2, <4>1, <4>2, QueueAssumption, JournalAssumption
      <4> QED BY <1>1, <3>2, <4>1, <4>2, <4>3 DEF ReportInv, StartedFromWhole, StartsFrom
    <3>5. RowIsOwn(j)
      BY <3>1, <3>3, <3>4 DEF RowIsOwn, StillHolds
    <3>6. RowStaysTrue(j)
      BY <3>1 DEF RowStaysTrue, StillHolds, Latest
    <3> QED BY <3>5, <3>6
  <2>2. ASSUME reader.at = "shown" PROVE PairsAreFair
    <3>1. SUFFICES ASSUME NEW j \in Jobs, NEW k \in Jobs, NEW axis \in Axes,
                          SameCondition(j, k, axis), Comparable(reader.rows, j, k)
                   PROVE  /\ reader.rows[j].execution # reader.rows[k].execution
                          /\ \A i \in {j, k} : left[reader.rows[i].execution].status \in Accepted
      BY DEF PairsAreFair
    <3>2. j # k BY <3>1 DEF SameCondition
    <3>3. ASSUME NEW i \in {j, k}
          PROVE  /\ left[reader.rows[i].execution].status \in Accepted
                 /\ records[reader.rows[i].execution].tag = <<i, reader.rows[i].attempts>>
      <4>1. i \in Jobs /\ Measured(reader.rows[i]) BY <3>1, <3>3 DEF Comparable
      <4>2. RowIsOwn(i) BY <2>1, <2>2, <4>1
      <4>3. StillHolds(i, reader.rows[i].state, reader.rows[i].attempts, reader.rows[i].execution)
        BY <1>1, <2>2, <4>1 DEF ReportInv, ShownStillHolds
      <4> QED BY <4>1, <4>2, <4>3 DEF RowIsOwn, Measured, StillHolds
    <3>4. <<j, reader.rows[j].attempts>> # <<k, reader.rows[k].attempts>> BY <3>2
    <3> QED BY <3>3, <3>4
  <2>3. reader.at = "shown" /\ reader.all => \A j \in Jobs : job[j] = "completed"
    BY <1>1 DEF ReportInv, ShownStillHolds, StillHolds
  <2> QED BY <2>1, <2>2, <2>3, JobsAreDistinct DEF ReportIsTrue
<1> QED
  BY <1>1, ReportCorrect, PTL
=============================================================================
