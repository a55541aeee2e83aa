-------------------------- MODULE SceneHandoff_proofs ---------------------------
(***************************************************************************)
(* The gate of the map handoff, for any number of requests, reviews,       *)
(* worlds, crashes and failed writes.                                      *)
(***************************************************************************)
EXTENDS SceneHandoff, TLAPS

\* Whether the thread is alive makes no difference to whether the gate is
\* closed: a journal left running reads as one that needs attention.
LEMMA PendingIsOnDisk ==
  Pending <=> journal.state \in {"running", "needs_attention"}
BY DEF Pending, Status

LEMMA PendingIsOnDiskNext ==
  Pending' <=> journal'.state \in {"running", "needs_attention"}
BY DEF Pending, Status

LEMMA JournalTyped ==
  ASSUME HandoffTypeOK, journal.state # "idle"
  PROVE  journal \in Journal
BY DEF HandoffTypeOK, NoJournal

\* The gate is open, and nothing has been seen of the world.
LEMMA InitInv == HandoffInit => HandoffInv
<1> SUFFICES ASSUME HandoffInit PROVE HandoffInv
  OBVIOUS
<1> USE HandoffAssumption DEF HandoffInit, GateInit
<1>1. ~Pending
  BY PendingIsOnDisk DEF NoJournal
<1>2. HandoffTypeOK
  <2>1. perform \in Performing
    BY DEF NotPerforming, Performing
  <2>2. reviews \in [Reviews -> World \cup {NoReview}]
    OBVIOUS
  <2>3. request \in [Requests -> Request]
    BY DEF NoRequest, Request
  <2>4. /\ episode \in Episodes /\ known \in 0..MaxEpisodes
        /\ crashes \in 0..MaxCrashes /\ faults \in 0..MaxFaults
    BY DEF Episodes
  <2> QED
    BY <2>1, <2>2, <2>3, <2>4 DEF HandoffTypeOK
<1>3. ThreadBehindJournal /\ IntentRemembered /\ ReviewedIsHere
  BY DEF ThreadBehindJournal, IntentRemembered, ReviewedIsHere, NotPerforming
<1>4. EpisodeKnown
  BY DEF EpisodeKnown, NoRequest
<1> QED
  BY <1>1, <1>2, <1>3, <1>4
     DEF HandoffInv, SessionWritten, GatesExclusiveIfWritten, GatesExclusive,
         UncertainWorldIsGated

\* A review changes nothing but itself and what is known.
LEMMA PreviewInv ==
  ASSUME HandoffInv, NEW t \in Reviews, Preview(t)
  PROVE  HandoffInv'
<1> USE HandoffAssumption DEF HandoffInv, Preview, worldVars, sessionVars
<1>0. UNCHANGED Pending
  BY PendingIsOnDisk, PendingIsOnDiskNext
<1>1. Here \in World
  BY DEF HandoffTypeOK, Here, World
<1>2. HandoffTypeOK'
  BY <1>1 DEF HandoffTypeOK, Here, Episodes
<1>3. ThreadBehindJournal' /\ IntentRemembered'
  BY DEF ThreadBehindJournal, IntentRemembered
<1>4. ReviewedIsHere'
  BY DEF ReviewedIsHere, Here, HandoffTypeOK
<1>5. EpisodeKnown'
  BY <1>0 DEF EpisodeKnown, HandoffTypeOK, Episodes
<1> QED
  BY <1>0, <1>2, <1>3, <1>4, <1>5
     DEF SessionWritten, GatesExclusiveIfWritten, GatesExclusive, UncertainWorldIsGated

LEMMA ReviewExpiresInv ==
  ASSUME HandoffInv, NEW t \in Reviews, ReviewExpires(t)
  PROVE  HandoffInv'
<1> USE DEF HandoffInv, ReviewExpires, worldVars, sessionVars
<1>0. UNCHANGED Pending
  BY PendingIsOnDisk, PendingIsOnDiskNext
<1>1. HandoffTypeOK'
  BY DEF HandoffTypeOK
<1>2. ThreadBehindJournal' /\ IntentRemembered'
  BY DEF ThreadBehindJournal, IntentRemembered
<1>3. ReviewedIsHere'
  BY DEF ReviewedIsHere, Here, HandoffTypeOK
<1>4. EpisodeKnown'
  BY <1>0 DEF EpisodeKnown
<1> QED
  BY <1>0, <1>1, <1>2, <1>3, <1>4
     DEF SessionWritten, GatesExclusiveIfWritten, GatesExclusive, UncertainWorldIsGated

\* A confirmation closes the gate for the world that is here, with no run
\* active and nothing uncertain, or it does nothing.
LEMMA ConfirmInv ==
  ASSUME HandoffInv, NEW t \in Reviews, Confirm(t)
  PROVE  HandoffInv'
<1> USE HandoffAssumption DEF HandoffInv, worldVars, sessionVars
<1>1. /\ ~Pending /\ ~running /\ ~uncertain
      /\ reviews' = [reviews EXCEPT ![t] = NoReview] /\ known' = episode
      /\ UNCHANGED <<episode, content, request, running, recorded, written,
                     uncertain, crashes>>
  BY DEF Confirm, WorldOpen, UncertainWorldIsGated
<1>2. ~workerActive /\ perform.pc = "none"
  BY <1>1, PendingIsOnDisk DEF ThreadBehindJournal
<1>3. /\ Here \in World
      /\ reviews' \in [Reviews -> World \cup {NoReview}]
      /\ \A s \in Reviews : reviews'[s] # NoReview => reviews'[s].episode < MaxEpisodes
  BY <1>1 DEF HandoffTypeOK, Here, World, ReviewedIsHere
<1>4. CASE UNCHANGED <<journal, workerActive, perform, faults>>
  <2>1. UNCHANGED Pending
    BY <1>4, PendingIsOnDisk, PendingIsOnDiskNext
  <2>2. HandoffTypeOK'
    BY <1>1, <1>3, <1>4 DEF HandoffTypeOK, Episodes
  <2>3. ThreadBehindJournal' /\ IntentRemembered' /\ ReviewedIsHere'
    BY <1>1, <1>2, <1>3, <1>4 DEF ThreadBehindJournal, IntentRemembered, ReviewedIsHere
  <2>4. EpisodeKnown'
    BY <1>1, <2>1 DEF EpisodeKnown, HandoffTypeOK, Episodes
  <2> QED
    BY <1>1, <2>1, <2>2, <2>3, <2>4
       DEF SessionWritten, GatesExclusiveIfWritten, GatesExclusive, UncertainWorldIsGated
<1>5. CASE reviews[t] = Here /\ Begin(reviews[t])
  <2> DEFINE row == [state |-> "running", phase |-> "prepared", source |-> episode]
  <2>1. /\ journal' \in {row, [row EXCEPT !.state = "failed_before_switch"]}
        /\ faults' \in 0..MaxFaults
        /\ \/ UNCHANGED <<workerActive, perform>>
           \/ /\ journal' = row /\ workerActive' = TRUE
              /\ perform' = [pc |-> "queued", switched |-> FALSE, reviewed |-> Here,
                             baseline |-> Here]
    BY <1>5 DEF Begin, NoFault, Fault, HandoffTypeOK
  <2>2. row \in Journal /\ [row EXCEPT !.state = "failed_before_switch"] \in Journal
    BY DEF Journal, HandoffStates, HandoffTypeOK
  <2>3. /\ workerActive' \in BOOLEAN
        /\ perform' \in Performing
    <3>1. CASE UNCHANGED <<workerActive, perform>>
      BY <3>1 DEF HandoffTypeOK
    <3>2. CASE /\ workerActive' = TRUE
               /\ perform' = [pc |-> "queued", switched |-> FALSE, reviewed |-> Here,
                              baseline |-> Here]
      BY <1>3, <3>2 DEF Performing
    <3> QED
      BY <2>1, <3>1, <3>2
  <2>4. HandoffTypeOK'
    <3>1. journal' \in Journal
      BY <2>1, <2>2
    <3>2. known' \in 0..MaxEpisodes
      BY <1>1 DEF HandoffTypeOK, Episodes
    <3> QED
      BY <1>1, <1>3, <2>1, <2>3, <3>1, <3>2 DEF HandoffTypeOK
  <2>5. episode < MaxEpisodes
    BY <1>5, <1>1 DEF Confirm, ReviewedIsHere, Here, HandoffTypeOK, NoReview, Episodes
  <2>6. ThreadBehindJournal' /\ IntentRemembered'
    BY <1>1, <1>2, <2>1 DEF ThreadBehindJournal, IntentRemembered
  <2>7. ReviewedIsHere'
    BY <1>1, <1>2, <1>3, <2>1, <2>5 DEF ReviewedIsHere, Here
  <2>8. EpisodeKnown'
    BY <1>1 DEF EpisodeKnown, HandoffTypeOK, Episodes
  <2> QED
    BY <1>1, <2>4, <2>6, <2>7, <2>8
       DEF SessionWritten, GatesExclusiveIfWritten, GatesExclusive, UncertainWorldIsGated
<1> QED
  BY <1>4, <1>5 DEF Confirm

\* The second comparison establishes what PerformLoad relies on.
LEMMA PerformCheckInv ==
  ASSUME HandoffInv, PerformCheck
  PROVE  HandoffInv'
<1> USE HandoffAssumption DEF HandoffInv, worldVars, sessionVars
<1>1. /\ perform.pc = "queued" /\ known' = episode
      /\ UNCHANGED <<workerActive, reviews, episode, content, request, running, recorded,
                     written, uncertain, crashes>>
  BY DEF PerformCheck
<1>2. /\ workerActive /\ journal.state = "running" /\ journal \in Journal
  BY <1>1, JournalTyped DEF ThreadBehindJournal
<1>3. /\ \/ journal' = [journal EXCEPT !.phase = "loading_map"]
         \/ journal' = journal
      /\ faults' \in 0..MaxFaults
      /\ \/ perform' = [perform EXCEPT !.pc = "fail"]
         \/ /\ perform' = [perform EXCEPT !.pc = "load", !.switched = TRUE]
            /\ content = perform.baseline.content
  BY DEF PerformCheck, NoFault, Fault, HandoffTypeOK
<1>4. journal' \in Journal /\ journal'.state = "running"
  BY <1>2, <1>3 DEF Journal
<1>5. Pending /\ Pending'
  BY <1>2, <1>4, PendingIsOnDisk, PendingIsOnDiskNext
<1>6. HandoffTypeOK'
  <2>1. perform' \in Performing
    BY <1>3 DEF HandoffTypeOK, Performing
  <2>2. known' \in 0..MaxEpisodes
    BY <1>1 DEF HandoffTypeOK, Episodes
  <2> QED
    BY <1>1, <1>3, <1>4, <2>1, <2>2 DEF HandoffTypeOK
<1>7. ThreadBehindJournal' /\ IntentRemembered'
  BY <1>1, <1>2, <1>3, <1>4 DEF ThreadBehindJournal, IntentRemembered, HandoffTypeOK, Performing
<1>8. ReviewedIsHere'
  <2>1. perform.reviewed = perform.baseline /\ perform.baseline \in World
        /\ perform.baseline.episode = episode /\ episode < MaxEpisodes
    BY <1>1 DEF ReviewedIsHere
  <2>2. CASE perform' = [perform EXCEPT !.pc = "fail"]
    BY <1>1, <2>2 DEF ReviewedIsHere, HandoffTypeOK, Performing
  <2>3. CASE perform' = [perform EXCEPT !.pc = "load", !.switched = TRUE]
             /\ content = perform.baseline.content
    <3>1. perform.baseline = Here
      BY <2>1, <2>3 DEF World, Here
    <3>2. perform'.reviewed = Here' /\ perform'.pc = "load"
      BY <1>1, <2>1, <2>3, <3>1 DEF Here, HandoffTypeOK, Performing
    <3> QED
      BY <1>1, <2>1, <3>2 DEF ReviewedIsHere
  <2> QED
    BY <1>3, <2>2, <2>3
<1>9. EpisodeKnown'
  BY <1>1, <1>5 DEF EpisodeKnown, HandoffTypeOK, Episodes
<1> QED
  BY <1>1, <1>5, <1>6, <1>7, <1>8, <1>9
     DEF SessionWritten, GatesExclusiveIfWritten, GatesExclusive, UncertainWorldIsGated

\* The world is replaced behind a closed gate, the intent remembered.
LEMMA PerformLoadInv ==
  ASSUME HandoffInv, PerformLoad
  PROVE  HandoffInv'
<1> USE HandoffAssumption DEF HandoffInv, worldVars, sessionVars
<1>1. /\ perform.pc = "load"
      /\ UNCHANGED <<workerActive, reviews, known, request, running, recorded,
                     written, crashes>>
  BY DEF PerformLoad
<1>2. /\ workerActive /\ journal.state = "running" /\ journal \in Journal
      /\ perform.switched /\ episode < MaxEpisodes
  BY <1>1, JournalTyped DEF ThreadBehindJournal, IntentRemembered, ReviewedIsHere
<1>3. /\ \/ journal' = [journal EXCEPT !.phase = "restoring_scene"]
         \/ journal' = journal
      /\ faults' \in 0..MaxFaults
      /\ \/ perform' = [perform EXCEPT !.pc = "fail"]
         \/ perform' = [perform EXCEPT !.pc = "restore"]
      /\ \/ episode' = episode + 1 /\ content' \in Contents /\ uncertain' = TRUE
         \/ UNCHANGED <<episode, content, uncertain>>
  BY DEF PerformLoad, Update, NoFault, Fault, HandoffTypeOK
<1>4. journal' \in Journal /\ journal'.state = "running"
  BY <1>2, <1>3 DEF Journal
<1>5. Pending /\ Pending'
  BY <1>2, <1>4, PendingIsOnDisk, PendingIsOnDiskNext
<1>6. HandoffTypeOK'
  <2>1. perform' \in Performing
    BY <1>3 DEF HandoffTypeOK, Performing
  <2>2. episode' \in Episodes
    BY <1>2, <1>3 DEF HandoffTypeOK, Episodes
  <2>3. content' \in Contents /\ uncertain' \in BOOLEAN
    BY <1>3 DEF HandoffTypeOK
  <2> QED
    BY <1>1, <1>3, <1>4, <2>1, <2>2, <2>3 DEF HandoffTypeOK
<1>7. ThreadBehindJournal' /\ IntentRemembered' /\ ReviewedIsHere'
  BY <1>1, <1>2, <1>3, <1>4
     DEF ThreadBehindJournal, IntentRemembered, ReviewedIsHere, HandoffTypeOK, Performing
<1>8. EpisodeKnown'
  <2>1. /\ episode \in Nat /\ episode' \in Nat /\ episode <= episode' /\ known \in Nat
        /\ \A q \in Requests : request[q].entered \in Nat /\ request[q].seen \in Nat
    BY <1>3 DEF HandoffTypeOK, Episodes, Request
  <2> QED
    BY <1>1, <1>5, <2>1 DEF EpisodeKnown
<1> QED
  BY <1>1, <1>5, <1>6, <1>7, <1>8
     DEF SessionWritten, GatesExclusiveIfWritten, GatesExclusive, UncertainWorldIsGated

\* The gate opens once the new world was observed, and it is known then.
LEMMA PerformRestoreInv ==
  ASSUME HandoffInv, PerformRestore
  PROVE  HandoffInv'
<1> USE HandoffAssumption DEF HandoffInv, worldVars, sessionVars
<1>1. /\ perform.pc = "restore" /\ content' \in Contents
      /\ UNCHANGED <<reviews, episode, request, running, recorded, written, crashes>>
  BY DEF PerformRestore
<1>2. /\ workerActive /\ journal.state = "running" /\ journal \in Journal
      /\ perform.switched /\ Pending
  BY <1>1, JournalTyped, PendingIsOnDisk DEF ThreadBehindJournal, IntentRemembered
<1>3. CASE /\ journal' = [journal EXCEPT !.state = "restored", !.phase = "verified"]
           /\ known' = episode /\ workerActive' = FALSE /\ uncertain' = FALSE
           /\ perform' = [perform EXCEPT !.pc = "none"] /\ NoFault
  <2>1. journal' \in Journal /\ journal'.state = "restored" /\ perform' \in Performing
        /\ perform'.pc = "none"
    BY <1>2, <1>3 DEF Journal, HandoffStates, HandoffTypeOK, Performing
  <2>2. ~Pending'
    BY <2>1, PendingIsOnDiskNext
  <2>3. HandoffTypeOK'
    <3>1. known' \in 0..MaxEpisodes
      BY <1>3 DEF HandoffTypeOK, Episodes
    <3> QED
      BY <1>1, <1>3, <2>1, <3>1 DEF HandoffTypeOK, NoFault
  <2>4. ThreadBehindJournal' /\ IntentRemembered' /\ ReviewedIsHere'
    BY <1>1, <1>3, <2>1 DEF ThreadBehindJournal, IntentRemembered, ReviewedIsHere
  <2>5. EpisodeKnown'
    BY <1>1, <1>3 DEF EpisodeKnown, HandoffTypeOK, Episodes
  <2> QED
    BY <1>1, <1>3, <2>2, <2>3, <2>4, <2>5
       DEF SessionWritten, GatesExclusiveIfWritten, GatesExclusive, UncertainWorldIsGated
<1>4. CASE /\ perform' = [perform EXCEPT !.pc = "fail"] /\ known' \in {known, episode}
           /\ Fault \/ NoFault
           /\ UNCHANGED <<journal, workerActive, uncertain>>
  <2>1. Pending'
    BY <1>2, <1>4, PendingIsOnDiskNext
  <2>2. perform' \in Performing /\ perform'.pc = "fail" /\ perform'.switched
    BY <1>2, <1>4 DEF HandoffTypeOK, Performing
  <2>3. HandoffTypeOK'
    BY <1>1, <1>4, <2>2 DEF HandoffTypeOK, NoFault, Fault, Episodes
  <2>4. ThreadBehindJournal' /\ IntentRemembered' /\ ReviewedIsHere'
    BY <1>1, <1>2, <1>4, <2>2 DEF ThreadBehindJournal, IntentRemembered, ReviewedIsHere
  <2>5. EpisodeKnown'
    BY <1>1, <1>4, <2>1 DEF EpisodeKnown, HandoffTypeOK, Episodes
  <2> QED
    BY <1>1, <1>2, <1>4, <2>1, <2>3, <2>4, <2>5
       DEF SessionWritten, GatesExclusiveIfWritten, GatesExclusive, UncertainWorldIsGated
<1> QED
  BY <1>3, <1>4 DEF PerformRestore

\* A failure opens the gate only if nothing was destroyed.
LEMMA PerformFailInv ==
  ASSUME HandoffInv, PerformFail
  PROVE  HandoffInv'
<1> USE HandoffAssumption DEF HandoffInv, worldVars, sessionVars
<1>1. /\ perform.pc = "fail" /\ perform' = [perform EXCEPT !.pc = "none"]
      /\ workerActive' = FALSE
      /\ UNCHANGED <<reviews, episode, content, known, request, running, recorded,
                     written, uncertain, crashes>>
      /\ faults' \in 0..MaxFaults
      /\ \/ journal' = journal
         \/ journal' = [journal EXCEPT !.state =
              IF perform.switched THEN "needs_attention" ELSE "failed_before_switch"]
  BY DEF PerformFail, NoFault, Fault, HandoffTypeOK
<1>2. journal.state = "running" /\ journal \in Journal /\ Pending
  BY <1>1, JournalTyped, PendingIsOnDisk DEF ThreadBehindJournal
<1>3. /\ journal' \in Journal
      /\ Pending' \/ ~perform.switched
  BY <1>1, <1>2, PendingIsOnDiskNext DEF Journal, HandoffStates
<1>4. perform' \in Performing /\ perform'.pc = "none"
  BY <1>1 DEF HandoffTypeOK, Performing
<1>5. HandoffTypeOK'
  BY <1>1, <1>3, <1>4 DEF HandoffTypeOK
<1>6. ThreadBehindJournal' /\ IntentRemembered' /\ ReviewedIsHere'
  BY <1>1, <1>4 DEF ThreadBehindJournal, IntentRemembered, ReviewedIsHere
<1>7. Pending' \/ (~uncertain /\ known = episode)
  BY <1>1, <1>3 DEF IntentRemembered
<1>8. EpisodeKnown'
  BY <1>1, <1>7 DEF EpisodeKnown
<1> QED
  BY <1>1, <1>2, <1>5, <1>6, <1>7, <1>8
     DEF SessionWritten, GatesExclusiveIfWritten, GatesExclusive, UncertainWorldIsGated

\* The operator's acceptance opens the gate, and it looks at the world.
LEMMA AcknowledgeInv ==
  ASSUME HandoffInv, Acknowledge
  PROVE  HandoffInv'
<1> USE HandoffAssumption DEF HandoffInv, worldVars, sessionVars
<1>1. /\ ~workerActive /\ ~running /\ Status = "needs_attention" /\ known' = episode
      /\ UNCHANGED <<workerActive, perform, reviews, episode, content, request, running,
                     recorded, written, crashes>>
      /\ faults' \in 0..MaxFaults
      /\ \/ journal' = [journal EXCEPT !.state = "acknowledged"] /\ uncertain' = FALSE
         \/ UNCHANGED <<journal, uncertain>>
  BY DEF Acknowledge, NoFault, Fault, HandoffTypeOK
<1>2. Pending /\ perform.pc = "none" /\ journal \in Journal
  BY <1>1, JournalTyped, PendingIsOnDisk DEF Pending, ThreadBehindJournal
<1>3. journal' \in Journal /\ (Pending' \/ ~uncertain')
  BY <1>1, <1>2, PendingIsOnDisk, PendingIsOnDiskNext DEF Journal, HandoffStates
<1>4. HandoffTypeOK'
  <2>1. known' \in 0..MaxEpisodes
    BY <1>1 DEF HandoffTypeOK, Episodes
  <2>2. uncertain' \in BOOLEAN
    BY <1>1 DEF HandoffTypeOK
  <2> QED
    BY <1>1, <1>3, <2>1, <2>2 DEF HandoffTypeOK
<1>5. ThreadBehindJournal' /\ IntentRemembered' /\ ReviewedIsHere'
  BY <1>1, <1>2 DEF ThreadBehindJournal, IntentRemembered, ReviewedIsHere
<1>6. EpisodeKnown'
  BY <1>1 DEF EpisodeKnown, HandoffTypeOK, Episodes
<1> QED
  BY <1>1, <1>3, <1>4, <1>5, <1>6
     DEF SessionWritten, GatesExclusiveIfWritten, GatesExclusive, UncertainWorldIsGated

\* A step that leaves the thread and its journal alone can disturb only what
\* is known of the episode, and the types.
LEMMA BesideThread ==
  ASSUME HandoffInv, UNCHANGED <<journal, workerActive, perform, reviews, episode,
                                 uncertain>>,
         content' = content \/ perform.pc # "load"
  PROVE  /\ UNCHANGED Pending
         /\ ThreadBehindJournal' /\ ReviewedIsHere' /\ UncertainWorldIsGated'
<1> USE DEF HandoffInv
<1>1. UNCHANGED Pending
  BY PendingIsOnDisk, PendingIsOnDiskNext
<1>2. ThreadBehindJournal' /\ UncertainWorldIsGated'
  BY <1>1 DEF ThreadBehindJournal, UncertainWorldIsGated
<1>3. ReviewedIsHere'
  BY DEF ReviewedIsHere, Here
<1> QED
  BY <1>1, <1>2, <1>3

\* A request notes no more than the bridge knows.
LEMMA ArriveInv ==
  ASSUME HandoffInv, NEW q \in Requests, Arrive(q)
  PROVE  HandoffInv'
<1> USE HandoffAssumption DEF HandoffInv
<1>1. /\ request' = [request EXCEPT ![q] = [pc |-> "arrived", entered |-> known,
                                            seen |-> episode]]
      /\ UNCHANGED <<journal, workerActive, perform, reviews, episode, content, known,
                     running, recorded, written, uncertain, crashes, faults>>
  BY DEF Arrive, RequestUnchanged, sessionVars
<1>2. request' \in [Requests -> Request]
  <2>1. [pc |-> "arrived", entered |-> known, seen |-> episode] \in Request
    BY DEF HandoffTypeOK, Request, Episodes
  <2> QED
    BY <1>1, <2>1 DEF HandoffTypeOK
<1>3. HandoffTypeOK'
  BY <1>1, <1>2 DEF HandoffTypeOK
<1>4. EpisodeKnown'
  <2>1. UNCHANGED Pending
    BY <1>1, BesideThread
  <2>2. ASSUME NEW p \in Requests
        PROVE  /\ request'[p].entered <= request'[p].seen /\ request'[p].seen <= episode
               /\ known = 0 => request'[p].entered = 0
    <3>1. CASE p = q
      BY <1>1, <3>1 DEF HandoffTypeOK, Episodes, EpisodeKnown
    <3>2. CASE p # q
      BY <1>1, <3>2 DEF HandoffTypeOK, EpisodeKnown
    <3> QED
      BY <3>1, <3>2
  <2> QED
    BY <1>1, <2>1, <2>2 DEF EpisodeKnown
<1>5. IntentRemembered'
  BY <1>1 DEF IntentRemembered
<1> QED
  BY <1>1, <1>3, <1>4, <1>5, BesideThread
     DEF SessionWritten, GatesExclusiveIfWritten, GatesExclusive

\* A request that is refused or done knows nothing.
LEMMA LeavingRequest ==
  ASSUME HandoffInv, NEW q \in Requests, NEW pc \in {"idle", "waiting"},
         \/ request' = [request EXCEPT ![q] = NoRequest]
         \/ request' = [request EXCEPT ![q].pc = pc],
         episode' = episode, known' = known \/ known' = episode,
         Pending' = Pending
  PROVE  request' \in [Requests -> Request] /\ EpisodeKnown'
<1> USE HandoffAssumption DEF HandoffInv
<1>1. ASSUME NEW p \in Requests
      PROVE  /\ request'[p] \in Request
             /\ \/ request'[p].entered = 0 /\ request'[p].seen = 0
                \/ request'[p].entered = request[p].entered
                   /\ request'[p].seen = request[p].seen
  <2>1. request[p] \in Request
    BY DEF HandoffTypeOK
  <2>2. NoRequest \in Request /\ NoRequest.entered = 0 /\ NoRequest.seen = 0
    BY DEF NoRequest, Request
  <2>3. CASE p # q
    BY <2>1, <2>3 DEF HandoffTypeOK
  <2>4. CASE p = q /\ request' = [request EXCEPT ![q] = NoRequest]
    BY <2>2, <2>4 DEF HandoffTypeOK
  <2>5. CASE p = q /\ request' = [request EXCEPT ![q].pc = pc]
    <3>1. request'[p] = [request[p] EXCEPT !.pc = pc]
      BY <2>5 DEF HandoffTypeOK
    <3> QED
      BY <2>1, <3>1 DEF Request
  <2> QED
    BY <2>3, <2>4, <2>5
<1>2. request' \in [Requests -> Request]
  BY <1>1 DEF HandoffTypeOK
<1>3. episode \in Nat /\ episode # 0 /\ known \in Nat
  BY DEF HandoffTypeOK, Episodes
<1>4. EpisodeKnown'
  BY <1>1, <1>3 DEF EpisodeKnown
<1> QED
  BY <1>2, <1>4

LEMMA AdmitInv ==
  ASSUME HandoffInv, NEW q \in Requests, Admit(q)
  PROVE  HandoffInv'
<1> USE HandoffAssumption DEF HandoffInv
<1>1. /\ \/ request' = [request EXCEPT ![q] = NoRequest]
         \/ request' = [request EXCEPT ![q].pc = "waiting"]
      /\ UNCHANGED <<journal, workerActive, perform, reviews, episode, content, known,
                     running, recorded, written, uncertain, crashes, faults>>
  BY DEF Admit, RequestUnchanged, sessionVars
<1>2. UNCHANGED Pending
  BY <1>1, BesideThread
<1>3. request' \in [Requests -> Request] /\ EpisodeKnown'
  BY <1>1, <1>2, LeavingRequest
<1>4. HandoffTypeOK'
  BY <1>1, <1>3 DEF HandoffTypeOK
<1>5. IntentRemembered'
  BY <1>1 DEF IntentRemembered
<1> QED
  BY <1>1, <1>2, <1>3, <1>4, <1>5, BesideThread
     DEF SessionWritten, GatesExclusiveIfWritten, GatesExclusive

\* An edit changes the content of a world that nobody is about to destroy:
\* the thread has not the lock, and compares again once it has.
LEMMA ActInv ==
  ASSUME HandoffInv, NEW q \in Requests, Act(q)
  PROVE  HandoffInv'
<1> USE HandoffAssumption DEF HandoffInv
<1>1. /\ request' = [request EXCEPT ![q] = NoRequest]
      /\ content' \in Contents /\ known' \in {known, episode}
      /\ perform.pc # "load"
      /\ UNCHANGED <<journal, workerActive, perform, reviews, episode,
                     running, recorded, written, uncertain, crashes, faults>>
  BY DEF Act, RequestUnchanged, sessionVars, LockFree, HandoffTypeOK
<1>2. UNCHANGED Pending
  BY <1>1, BesideThread
<1>3. request' \in [Requests -> Request] /\ EpisodeKnown'
  BY <1>1, <1>2, LeavingRequest
<1>4. HandoffTypeOK'
  <2>1. known' \in 0..MaxEpisodes
    BY <1>1 DEF HandoffTypeOK, Episodes
  <2> QED
    BY <1>1, <1>3, <2>1 DEF HandoffTypeOK
<1>5. IntentRemembered'
  BY <1>1 DEF IntentRemembered
<1> QED
  BY <1>1, <1>2, <1>3, <1>4, <1>5, BesideThread
     DEF SessionWritten, GatesExclusiveIfWritten, GatesExclusive

LEMMA RunBeginsInv ==
  ASSUME HandoffInv, RunBegins
  PROVE  HandoffInv'
<1> USE HandoffAssumption DEF HandoffInv
<1>1. /\ ~Pending /\ running' = TRUE /\ known' = episode /\ Noted(TRUE)
      /\ UNCHANGED <<journal, workerActive, perform, reviews, episode, content, request,
                     uncertain, crashes, faults>>
  BY DEF RunBegins, SessionBegins, WorldOpen, SessionUnchanged
<1>2. UNCHANGED Pending
  BY <1>1, BesideThread
<1>3. SessionWritten' /\ recorded' \in BOOLEAN /\ written' \in BOOLEAN
  BY <1>1 DEF Noted, SessionWritten, HandoffTypeOK
<1>4. HandoffTypeOK'
  <2>1. known' \in 0..MaxEpisodes
    BY <1>1 DEF HandoffTypeOK, Episodes
  <2> QED
    BY <1>1, <1>3, <2>1 DEF HandoffTypeOK
<1>5. EpisodeKnown'
  BY <1>1, <1>2 DEF EpisodeKnown, HandoffTypeOK, Episodes
<1>6. IntentRemembered'
  BY <1>1 DEF IntentRemembered
<1> QED
  BY <1>1, <1>2, <1>3, <1>4, <1>5, <1>6, BesideThread
     DEF GatesExclusiveIfWritten, GatesExclusive

\* A run acts on the world behind its own gate.
LEMMA RunActsInv ==
  ASSUME HandoffInv, RunActs
  PROVE  HandoffInv'
<1> USE HandoffAssumption DEF HandoffInv, sessionVars
<1>1. /\ content' \in Contents /\ perform.pc # "load"
      /\ UNCHANGED <<journal, workerActive, perform, reviews, episode, known, request,
                     running, recorded, written, uncertain, crashes, faults>>
  BY DEF RunActs, LockFree, SessionUnchanged
<1>2. UNCHANGED Pending
  BY <1>1, BesideThread
<1>3. HandoffTypeOK'
  BY <1>1 DEF HandoffTypeOK
<1>4. EpisodeKnown'
  BY <1>1, <1>2 DEF EpisodeKnown
<1>5. IntentRemembered'
  BY <1>1 DEF IntentRemembered
<1> QED
  BY <1>1, <1>2, <1>3, <1>4, <1>5, BesideThread
     DEF SessionWritten, GatesExclusiveIfWritten, GatesExclusive

\* The session goes on or ends, and says so on disk if it can.
LEMMA RunMovesInv ==
  ASSUME HandoffInv, RunMoves
  PROVE  HandoffInv'
<1> USE HandoffAssumption DEF HandoffInv
<1>1. /\ Noted(running') /\ running' \in BOOLEAN /\ (running' => running)
      /\ UNCHANGED <<journal, workerActive, perform, reviews, episode, content, known,
                     request, uncertain, crashes, faults>>
  <2>1. running \in BOOLEAN
    BY DEF HandoffTypeOK
  <2>2. Noted(running') /\ running' \in BOOLEAN /\ (running' => running)
    <3>1. CASE SessionMoves
      <4>1. running' = running /\ Noted(running)
        BY <3>1 DEF SessionMoves
      <4> QED
        BY <2>1, <4>1 DEF Noted
    <3>2. CASE SessionEnds
      <4>1. running' = FALSE /\ Noted(FALSE)
        BY <3>2 DEF SessionEnds
      <4> QED
        BY <4>1 DEF Noted
    <3> QED
      BY <3>1, <3>2 DEF RunMoves
  <2> QED
    BY <2>2 DEF RunMoves, SessionUnchanged
<1>2. UNCHANGED Pending
  BY <1>1, BesideThread
<1>3. /\ SessionWritten' /\ recorded' \in BOOLEAN /\ written' \in BOOLEAN
      /\ written' => written
  <2>1. recorded \in BOOLEAN /\ written \in BOOLEAN
    BY DEF HandoffTypeOK
  <2>2. CASE recorded' = running' /\ written' = written
    BY <1>1, <2>1, <2>2 DEF SessionWritten
  <2>3. CASE written' = FALSE /\ recorded' = recorded
    BY <2>1, <2>3 DEF SessionWritten
  <2> QED
    BY <1>1, <2>2, <2>3 DEF Noted
<1>4. HandoffTypeOK'
  BY <1>1, <1>3 DEF HandoffTypeOK
<1>5. EpisodeKnown'
  BY <1>1, <1>2 DEF EpisodeKnown
<1>6. IntentRemembered'
  BY <1>1 DEF IntentRemembered
<1> QED
  BY <1>1, <1>2, <1>3, <1>4, <1>5, <1>6, BesideThread
     DEF GatesExclusiveIfWritten, GatesExclusive

\* A restart finds the gate as it was, whatever the thread was doing.
LEMMA CrashInv ==
  ASSUME HandoffInv, CrashRestart
  PROVE  HandoffInv'
<1> USE HandoffAssumption DEF HandoffInv, worldVars
<1>1. /\ crashes' \in 0..MaxCrashes /\ workerActive' = FALSE
      /\ perform' = [perform EXCEPT !.pc = "none"]
      /\ reviews' = [t \in Reviews |-> NoReview]
      /\ request' = [q \in Requests |-> NoRequest]
      /\ known' = 0 /\ running' = recorded
      /\ UNCHANGED <<journal, episode, content, recorded, uncertain, faults, written>>
  BY DEF CrashRestart, SessionRestarts, HandoffTypeOK
<1>2. UNCHANGED Pending
  BY <1>1, PendingIsOnDisk, PendingIsOnDiskNext
<1>3. perform' \in Performing /\ perform'.pc = "none"
  BY <1>1 DEF HandoffTypeOK, Performing
<1>4. request' \in [Requests -> Request]
  BY <1>1 DEF NoRequest, Request
<1>5. HandoffTypeOK'
  <2>1. known' \in 0..MaxEpisodes
    BY <1>1
  <2> QED
    BY <1>1, <1>3, <1>4, <2>1 DEF HandoffTypeOK
<1>6. ThreadBehindJournal' /\ IntentRemembered' /\ ReviewedIsHere'
  BY <1>1, <1>3 DEF ThreadBehindJournal, IntentRemembered, ReviewedIsHere
<1>7. EpisodeKnown'
  BY <1>1 DEF EpisodeKnown, NoRequest, HandoffTypeOK, Episodes
<1> QED
  BY <1>1, <1>2, <1>5, <1>6, <1>7
     DEF SessionWritten, GatesExclusiveIfWritten, GatesExclusive, UncertainWorldIsGated

LEMMA StutterInv ==
  ASSUME HandoffInv, UNCHANGED handoffVars
  PROVE  HandoffInv'
<1> USE DEF handoffVars, sessionVars, HandoffInv
<1>1. UNCHANGED Pending /\ ThreadBehindJournal' /\ ReviewedIsHere' /\ UncertainWorldIsGated'
  BY BesideThread
<1> QED
  BY <1>1 DEF HandoffTypeOK, IntentRemembered, EpisodeKnown, SessionWritten,
              GatesExclusiveIfWritten, GatesExclusive

LEMMA StepInv == HandoffInv /\ [HandoffNext]_handoffVars => HandoffInv'
<1> SUFFICES ASSUME HandoffInv, [HandoffNext]_handoffVars PROVE HandoffInv'
  OBVIOUS
<1>1. ASSUME NEW t \in Reviews, Preview(t) \/ ReviewExpires(t) \/ Confirm(t)
      PROVE  HandoffInv'
  BY <1>1, PreviewInv, ReviewExpiresInv, ConfirmInv
<1>2. CASE PerformStep
  BY <1>2, PerformCheckInv, PerformLoadInv, PerformRestoreInv, PerformFailInv DEF PerformStep
<1>3. CASE Acknowledge
  BY <1>3, AcknowledgeInv
<1>4. ASSUME NEW q \in Requests, Arrive(q) \/ Admit(q) \/ Act(q)
      PROVE  HandoffInv'
  BY <1>4, ArriveInv, AdmitInv, ActInv
<1>5. CASE RunBegins \/ RunActs \/ RunMoves
  BY <1>5, RunBeginsInv, RunActsInv, RunMovesInv
<1>6. CASE CrashRestart
  BY <1>6, CrashInv
<1>7. CASE UNCHANGED handoffVars
  BY <1>7, StutterInv
<1> QED
  BY <1>1, <1>2, <1>3, <1>4, <1>5, <1>6, <1>7 DEF HandoffNext

\* The inductive invariant of the gate holds of the specification.
THEOREM HandoffCorrect == HandoffSpec => []HandoffInv
<1>1. HandoffInit => HandoffInv
  BY InitInv
<1>2. HandoffInv /\ [HandoffNext]_handoffVars => HandoffInv'
  BY StepInv
<1> QED
  BY <1>1, <1>2, PTL DEF HandoffSpec

\* Type correctness of the gate and of what it excludes.
THEOREM HandoffTypeCorrect == HandoffSpec => []HandoffTypeOK
<1>1. HandoffInv => HandoffTypeOK
  BY DEF HandoffInv
<1> QED
  BY <1>1, HandoffCorrect, PTL

\* The gates exclude each other through crashes and failed writes of the handoff's
\* journal, and while nobody vouches for the world neither edits nor runs reach it.
THEOREM GatesAreKept == HandoffSpec => []GatesHold
<1>1. HandoffInv => GatesHold
  BY DEF HandoffInv, GatesHold
<1> QED
  BY <1>1, HandoffCorrect, PTL

\* Only the thread replaces the world, and it does so to the reviewed one.
LEMMA LoadIsReviewed ==
  ASSUME HandoffInv, HandoffNext, episode' # episode
  PROVE  perform.reviewed = Here
<1>1. PerformLoad
  BY DEF HandoffNext, Preview, ReviewExpires, Confirm, PerformStep, PerformCheck,
         PerformRestore, PerformFail, Acknowledge, Arrive, Admit, Act, RequestUnchanged,
         RunBegins, RunActs, RunMoves, SessionUnchanged, CrashRestart, worldVars
<1> QED
  BY <1>1 DEF PerformLoad, HandoffInv, ReviewedIsHere

\* No world is destroyed but the one the operator reviewed, as reviewed.
THEOREM OnlyReviewedIsLost == HandoffSpec => OnlyReviewedWorldIsLost
<1>1. HandoffInv /\ [HandoffNext]_handoffVars
        => [episode' # episode => perform.reviewed = Here]_handoffVars
  BY LoadIsReviewed DEF handoffVars
<1> QED
  BY <1>1, HandoffCorrect, PTL DEF HandoffSpec, OnlyReviewedWorldIsLost

\* Among the steps that change the content, only Act lets a request go.
LEMMA EditIsInNotedWorld ==
  ASSUME HandoffInv, HandoffNext, NEW q \in Requests, content' # content,
         request[q].pc = "waiting", request'[q].pc = "idle", request[q].entered # 0
  PROVE  request[q].seen = episode
<1> USE DEF HandoffInv
<1>1. PICK p \in Requests : Act(p)
  BY DEF HandoffNext, Preview, ReviewExpires, Confirm, PerformStep, PerformCheck,
         PerformLoad, PerformRestore, PerformFail, Acknowledge, Arrive, Admit,
         RequestUnchanged, RunBegins, RunActs, RunMoves, SessionUnchanged, CrashRestart, worldVars
<1>2. p = q /\ SameEpisode(q) /\ ~Pending
  BY <1>1 DEF Act, WorldOpen, HandoffTypeOK
<1>3. known # 0 /\ request[q].entered = known
  BY <1>2 DEF SameEpisode, EpisodeKnown
<1>4. known = episode /\ known <= request[q].seen /\ request[q].seen <= episode
  BY <1>2, <1>3 DEF EpisodeKnown
<1>5. episode \in Nat /\ request[q].seen \in Nat
  BY DEF HandoffTypeOK, Request, Episodes
<1> QED
  BY <1>4, <1>5

\* A waiting edit that knew its world does not touch the next one.
THEOREM WaitingEditMisses == HandoffSpec => WaitingEditMissesNewWorld
<1> DEFINE Misses ==
      \A q \in Requests :
        content' # content /\ request[q].pc = "waiting" /\ request'[q].pc = "idle"
          /\ request[q].entered # 0
          => request[q].seen = episode
<1>1. HandoffInv /\ [HandoffNext]_handoffVars => [Misses]_handoffVars
  BY EditIsInNotedWorld DEF handoffVars
<1> QED
  BY <1>1, HandoffCorrect, PTL DEF HandoffSpec, WaitingEditMissesNewWorld
=================================================================================
