----------------------------- MODULE CaptureStore -----------------------------
(***************************************************************************)
(* Recordings on disk: the worker's SensorCapture that writes them sample  *)
(* by sample, the quota that admits a sample, and the bridge's background  *)
(* jobs that copy them (recovery_service, excerpt_service), archive them   *)
(* (archive_service) or check them (quality_service).                      *)
(* The worker and the bridge share the capture root and a lock file.       *)
(* The worker writes a sample with the lock held from the quota check to   *)
(* the last of its files, so a sample is one step, which may fail or be    *)
(* killed after any file; a job takes the lock only to publish its copy.   *)
(* Samples are numbered from 1, and each takes one block.                  *)
(***************************************************************************)
EXTENDS Naturals, Sequences, FiniteSets

CONSTANTS
    Quota,          \* limit of the capture root, in samples
    MaxSamples,      \* max_frames of a recording request
    MaxExecutions, MaxRequests, MaxJobs     \* bounds of a run

ASSUME CaptureAssumption ==
    {Quota, MaxSamples, MaxExecutions, MaxRequests, MaxJobs} \subseteq Nat

VARIABLES
    disk,       \* the capture root, in order of creation
    recorder,   \* the worker and the SensorCapture in it
    request,    \* collection-request.json
    session,    \* what the journal says of the current execution
    jobs,       \* the reports of the background jobs
    active,     \* the job that runs, 0 if none
    publisher,  \* does the running job hold the lock of the root
    scanning       \* does a quality validator hold the scan lock

captureVars == <<disk, recorder, request, session, jobs, active, publisher, scanning>>

NoRequest == [id |-> 0, recording |-> FALSE, exec |-> 0]
NoWorker == [exec |-> 0, open |-> FALSE, run |-> 0, last |-> 0, accepted |-> NoRequest]

(* A directory: whole, the samples that have their frame.json; tail, one   *)
(* that has not; count, of the manifest; index, of index.json; by, the     *)
(* request or the job that made it.  A "bare" one has no manifest yet.     *)
(* What a stop has interrupted before the close, "none", the "begin" of    *)
(* the recording or the commit of a "sample", is history (cut).            *)
Directory(kind, source, exec, status, n, by) ==
    [kind |-> kind, source |-> source, exec |-> exec, status |-> status, by |-> by,
     whole |-> n, tail |-> FALSE, count |-> n, index |-> n, cut |-> "none"]

Blocks(d) == d.whole + (IF d.tail THEN 1 ELSE 0)
BlocksOf(root) == UNION {{n} \X (1 .. Blocks(root[n])) : n \in DOMAIN root}
Allocated(root) == Cardinality(BlocksOf(root))

(* check_capture_quota: a directory that cannot be measured stops all.     *)
Admits(root, blocks) ==
    /\ \A n \in DOMAIN root : root[n].status # "bare"
    /\ Allocated(root) + blocks <= Quota

(* SensorCapture.manifest: manifest.json, then index.json, both of what    *)
(* the recorder has in memory, which is what has been committed.           *)
Manifest(d, status) == [d EXCEPT !.status = status, !.count = d.whole, !.index = d.whole]
Torn(d, status) == [d EXCEPT !.status = status, !.count = d.whole]

(* The files of one more sample, after the first k of them.                *)
Written(d, k) ==
    LET committed == [d EXCEPT !.whole = @ + 1]
    IN  CASE k = 0 -> d
          [] k = 1 -> [d EXCEPT !.tail = TRUE]
          [] k = 2 -> committed
          [] k = 3 -> Torn(committed, "recording")
          [] k = 4 -> Manifest(committed, "recording")

(* close, for a capture with or without an error of its own: its manifest  *)
(* may not get through.                                                    *)
Closed(d, error) ==
    LET final == {"saved_cleanup_error", IF error THEN "saved_capture_error" ELSE "saved"}
    IN  {d} \cup {Manifest(d, s) : s \in final} \cup {Torn(d, s) : s \in final}

Closing(root, run, error) ==
    IF run = 0 THEN {root}
    ELSE {[root EXCEPT ![run] = d] : d \in Closed(root[run], error)}

-----------------------------------------------------------------------------
CaptureInit ==
    /\ disk = <<>> /\ recorder = NoWorker /\ request = NoRequest
    /\ session = [run |-> 0, active |-> FALSE]
    /\ jobs = <<>> /\ active = 0 /\ publisher = FALSE /\ scanning = FALSE

(* The lifecycle of the execution, as far as recordings see it: it starts  *)
(* in an idle studio, and its record can end before its worker does.       *)
StartExecution ==
    /\ ~session.active /\ recorder.exec = 0 /\ session.run < MaxExecutions
    /\ session' = [run |-> session.run + 1, active |-> TRUE]
    /\ recorder' = [NoWorker EXCEPT !.exec = session.run + 1, !.open = TRUE]
    /\ UNCHANGED <<disk, request, jobs, active, publisher, scanning>>

EndSession ==
    /\ session.active /\ session' = [session EXCEPT !.active = FALSE]
    /\ UNCHANGED <<disk, recorder, request, jobs, active, publisher, scanning>>

(* collection_request.                                                     *)
AskRecording ==
    /\ request.id < MaxRequests
    /\ \E recording \in BOOLEAN :
          /\ recording => session.active \/ recorder.exec # 0
          /\ request' = [id |-> request.id + 1, recording |-> recording, exec |-> session.run]
    /\ UNCHANGED <<disk, recorder, session, jobs, active, publisher, scanning>>

(* SensorCapture.request: a command of another execution neither starts    *)
(* nor stops this one.                                                     *)
Asked == IF request.exec = recorder.exec THEN request ELSE recorder.accepted

(* The head of _process: a recording that is not asked for any more is     *)
(* finished, one that is newly asked for is begun.                         *)
Turned ==
    LET ended == recorder.run # 0 /\ (~Asked.recording \/ Asked.id # recorder.last)
        starts == Asked.recording /\ Asked.id # recorder.last
        old == IF ended THEN [disk EXCEPT ![recorder.run] = Manifest(@, "saved")] ELSE disk
    IN  [root |-> IF starts
                  THEN Append(old, Directory("capture", 0, recorder.exec, "recording", 0, Asked))
                  ELSE old,
         run |-> IF starts THEN Len(old) + 1 ELSE IF ended THEN 0 ELSE recorder.run,
         last |-> IF starts THEN Asked.id ELSE recorder.last,
         began |-> starts]

(* A sample may be written: no publisher has the lock, and no limit is met. *)
MayWrite(t) ==
    t.run # 0 /\ ~publisher /\ t.root[t.run].whole < MaxSamples /\ Admits(t.root, 1)

(* process, for one frame, when nothing goes wrong: no sample this time,   *)
(* the sample written, or the recording ended at a limit (frames, quota,   *)
(* the reserve of the disk).                                               *)
Frame ==
    /\ recorder.open
    /\ LET t == Turned
           after(run) == [recorder EXCEPT !.run = run, !.last = t.last, !.accepted = Asked]
       IN  \/ disk' = t.root /\ recorder' = after(t.run)
           \/ /\ MayWrite(t) /\ disk' = [t.root EXCEPT ![t.run] = Written(@, 4)]
              /\ recorder' = after(t.run)
           \/ /\ t.run # 0
              /\ disk' = [t.root EXCEPT ![t.run] = Manifest(@, "saved_limit")]
              /\ recorder' = after(0)
    /\ UNCHANGED <<request, session, jobs, active, publisher, scanning>>

(* A frame whose write fails, because a publisher has the lock or the disk *)
(* is full ("io"), or because the simulator does not answer (line 442):    *)
(* only the former is noted as the capture's error before it is closed.    *)
(* A recording whose begin fails may get no manifest at all.               *)
FrameFails ==
    /\ recorder.open
    /\ LET t == Turned
       IN  /\ \/ \E cause \in {"io", "simulator"}, k \in IF MayWrite(t) THEN 0 .. 3 ELSE {0} :
                    /\ cause = "simulator" => k \in {0, 1}
                    /\ disk' \in Closing(IF t.run = 0 THEN t.root
                                         ELSE [t.root EXCEPT ![t.run] = Written(@, k)],
                                         t.run, cause = "io")
              \/ t.began /\ disk' = [t.root EXCEPT ![t.run].status = "bare"]
           /\ recorder' = [recorder EXCEPT !.open = FALSE, !.run = 0, !.last = t.last,
                                           !.accepted = Asked]
    /\ UNCHANGED <<request, session, jobs, active, publisher, scanning>>

(* The worker ends in order: close.                                        *)
EndWorker ==
    /\ recorder.exec # 0 /\ recorder' = NoWorker
    /\ disk' \in Closing(disk, recorder.run, FALSE)
    /\ UNCHANGED <<request, session, jobs, active, publisher, scanning>>

(* The worker is killed, in the middle of a frame: of a new recording      *)
(* before its manifest, or of a sample after any file.                     *)
KillWorker ==
    /\ recorder.exec # 0 /\ recorder' = NoWorker
    /\ LET t == Turned
       IN  \/ UNCHANGED disk
           \/ /\ recorder.open /\ t.began
              /\ disk' = [t.root EXCEPT ![t.run].status = "bare"]
           \/ /\ recorder.open /\ MayWrite(t)
              /\ \E k \in 1 .. 4 : disk' = [t.root EXCEPT ![t.run] = Written(@, k)]
    /\ UNCHANGED <<request, session, jobs, active, publisher, scanning>>

(* What the memory of a recording still says while the next one begins.    *)
Remembered ==
    LET mine == {n \in DOMAIN disk : disk[n].kind = "capture" /\ disk[n].exec = recorder.exec}
    IN  {0} \cup {disk[n].whole : n \in {m \in mine : \A o \in mine : o <= m}}

(* A capture that is closed with what its memory says, which may not be,   *)
(* or not yet, what its samples are.                                       *)
Miscounted(d, what, status, count, index) ==
    [d EXCEPT !.status = status, !.count = count, !.index = index, !.cut = what]

(* A stop (SIGINT, a KeyboardInterrupt that is no OSError) in the middle   *)
(* of a frame of a model's worker, which closes the capture: before the    *)
(* sample is committed; between its frame.json and the end of its commit,  *)
(* when the counts in memory may be one short, and the torn manifest of    *)
(* line 448 too; or in the begin of a recording, after the directory and   *)
(* before the counts of the last one are reset.  A close whose manifest    *)
(* does not get through leaves what a kill leaves.                         *)
InterruptFrame ==
    /\ recorder.open /\ recorder' = NoWorker
    /\ LET t == Turned
           d == t.root[t.run]
       IN  \/ \E k \in IF MayWrite(t) THEN {0, 1} ELSE {0}, noted \in BOOLEAN :
                 /\ t.run # 0 /\ (noted => k = 0)
                 /\ disk' \in Closing([t.root EXCEPT ![t.run] = Written(@, k)], t.run, noted)
           \/ /\ MayWrite(t)
              /\ \E s \in {"saved", "saved_cleanup_error"},
                    c \in {d.whole, d.whole + 1}, i \in {d.whole, d.whole + 1} :
                    disk' = [t.root EXCEPT ![t.run] =
                                Miscounted(Written(d, 2), "sample", s, c, i)]
           \/ /\ t.began
              /\ \E s \in {"saved", "saved_cleanup_error", "saved_capture_error"},
                    c \in Remembered, i \in Remembered :
                    disk' = [t.root EXCEPT ![t.run] = Miscounted(d, "begin", s, c, i)]
    /\ UNCHANGED <<request, session, jobs, active, publisher, scanning>>

-----------------------------------------------------------------------------
(* Mutant of Inactive: an idle studio is enough.                           *)
InactiveSession(name) == ~session.active

(* require_inactive_execution: no execution is active, and the recorded    *)
(* worker of this one is not the process that is alive.                    *)
Inactive(name) == ~session.active /\ disk[name].exec # recorder.exec

Sources(kind) ==
    CASE kind = "recovery" -> {"recording", "saved_cleanup_error", "saved_capture_error"}
      [] kind = "excerpt" -> {"saved", "saved_limit", "saved_recovered"}
      [] kind = "quality" -> {"saved", "saved_limit", "saved_cleanup_error",
                              "saved_capture_error", "saved_recovered", "saved_excerpt"}
      [] kind = "archive" -> {"recording", "saved", "saved_limit", "saved_cleanup_error",
                              "saved_capture_error", "saved_recovered", "saved_excerpt"}

(* start_dataset_job: one job in all services, and a report on disk before *)
(* the thread.  The same request again only gets the report back.          *)
StartJob(kind, name) ==
    /\ active = 0 /\ Len(jobs) < MaxJobs
    /\ disk[name].status \in Sources(kind)
    /\ kind = "recovery" => disk[name].kind = "capture"
    /\ kind = "excerpt" => disk[name].index = disk[name].count
    /\ IF kind = "quality" THEN ~scanning ELSE Inactive(name)
    /\ jobs' = Append(jobs, [kind |-> kind, source |-> name, state |-> "running",
                             phase |-> "started", seen |-> disk[name], copy |-> 0,
                             candidate |-> FALSE])
    /\ active' = Len(jobs) + 1 /\ scanning' = (kind = "quality" \/ scanning)
    /\ UNCHANGED <<disk, recorder, request, session, publisher>>

Set(state, phase, copy, candidate) ==
    jobs' = [jobs EXCEPT ![active].state = state, ![active].phase = phase,
                         ![active].copy = copy, ![active].candidate = candidate]

Running == jobs[active]

(* The sample copies: all committed samples without the tail, a window of  *)
(* the index, or every file.  The copy is audited; what passed by the end  *)
(* must still be what the source holds.                                    *)
CopySource ==
    /\ active # 0 /\ Running.phase = "started" /\ Running.kind # "quality"
    /\ disk[Running.source] = Running.seen /\ Inactive(Running.source)
    /\ \E n \in 1 .. disk[Running.source].whole :
          /\ CASE Running.kind = "recovery" -> n = disk[Running.source].whole
               [] Running.kind = "excerpt" -> n <= disk[Running.source].index
               [] Running.kind = "archive" -> n = disk[Running.source].whole
          /\ Set("running", "copied", n, FALSE)
    /\ UNCHANGED <<disk, recorder, request, session, active, publisher, scanning>>

(* The source is inactive and unchanged; the recovery's report names the   *)
(* copy it is going to publish.                                            *)
VerifyCopy ==
    /\ active # 0 /\ Running.phase = "copied"
    /\ disk[Running.source] = Running.seen /\ Inactive(Running.source)
    /\ Set("running", "verified", Running.copy, Running.kind = "recovery")
    /\ UNCHANGED <<disk, recorder, request, session, active, publisher, scanning>>

Copied ==
    Directory(IF Running.kind = "recovery" THEN "recovered" ELSE "excerpt", Running.source,
              Running.seen.exec,
              IF Running.kind = "recovery" THEN "saved_recovered" ELSE "saved_excerpt",
              Running.copy, [NoRequest EXCEPT !.id = active])

(* Mutant of LockRoot: the quota is checked before the lock is held.       *)
LockNothing ==
    /\ active # 0 /\ Running.phase = "verified" /\ Running.kind # "archive"
    /\ Admits(disk, Running.copy)
    /\ Set("running", "locked", Running.copy, Running.candidate)
    /\ UNCHANGED <<disk, recorder, request, session, active, publisher, scanning>>

(* publish_capture: the lock, the quota with the copy, then the rename.    *)
LockRoot ==
    /\ active # 0 /\ Running.phase = "verified" /\ Running.kind # "archive"
    /\ Admits(disk, Running.copy)
    /\ publisher' = TRUE
    /\ Set("running", "locked", Running.copy, Running.candidate)
    /\ UNCHANGED <<disk, recorder, request, session, active, scanning>>

PublishCopy ==
    /\ active # 0 /\ Running.phase = "locked"
    /\ disk' = Append(disk, Copied) /\ publisher' = FALSE
    /\ Set("running", "published", Running.copy, Running.candidate)
    /\ UNCHANGED <<recorder, request, session, active, scanning>>

(* The end of _run: the outcome is written, if it can be, and the service  *)
(* is free.  A report that still says "running" is read as one that needs  *)
(* attention, and is never taken up again.                                 *)
EndJob ==
    /\ active # 0 /\ active' = 0 /\ publisher' = FALSE
    /\ scanning' = (scanning /\ Running.kind # "quality")
    /\ LET done == CASE Running.kind = "archive" -> Running.phase = "verified"
                     [] Running.kind = "quality" -> disk[Running.source] = Running.seen
                     [] OTHER -> Running.phase = "published"
       IN  \E state \in {"running", IF done THEN "done" ELSE "failed"} :
              Set(state, Running.phase, Running.copy, Running.candidate)
    /\ UNCHANGED <<disk, recorder, request, session>>

(* The bridge dies: its locks go with it, except the one its validator has *)
(* inherited (pass_fds).                                                   *)
CrashStudio ==
    /\ active # 0 /\ active' = 0 /\ publisher' = FALSE
    /\ UNCHANGED <<disk, recorder, request, session, jobs, scanning>>

EndValidator ==
    /\ scanning /\ active = 0 /\ scanning' = FALSE
    /\ UNCHANGED <<disk, recorder, request, session, jobs, active, publisher>>

CaptureNext ==
    \/ StartExecution \/ EndSession \/ AskRecording
    \/ Frame \/ FrameFails \/ InterruptFrame \/ EndWorker \/ KillWorker
    \/ \E kind \in {"recovery", "excerpt", "archive", "quality"}, name \in DOMAIN disk :
          StartJob(kind, name)
    \/ CopySource \/ VerifyCopy \/ LockRoot \/ PublishCopy \/ EndJob \/ CrashStudio
    \/ EndValidator

CaptureSpec == CaptureInit /\ [][CaptureNext]_captureVars

-----------------------------------------------------------------------------
(* The quota of the capture root is never exceeded, with a worker writing  *)
(* samples and the bridge publishing copies (capture_quota.py:11-15).      *)
QuotaHolds == Allocated(disk) <= Quota

(* A finished recording says what it holds: its manifest counts, and its   *)
(* index lists, exactly the committed samples, whatever was killed or      *)
(* failed on the way (the basis of verified_split and of excerpts).  Only  *)
(* a stop makes an exception (sensor_capture.py:444-446 and 213-216): what *)
(* it interrupts may be missing from either, and it is one sample at most; *)
(* or it had just begun, and holds nothing, whatever its files say.        *)
Finished == {"saved", "saved_limit", "saved_recovered", "saved_excerpt"}
Indexed(d) == d.cut = "none" => d.count = d.whole /\ d.index = d.whole
OneShort(d) == d.cut = "sample" => {d.count, d.index} \subseteq {d.whole - 1, d.whole}
Nothing(d) == d.cut = "begin" => d.whole = 0 /\ ~d.tail
FinishedIsIndexed ==
    \A n \in DOMAIN disk : disk[n].status \in Finished =>
        Indexed(disk[n]) /\ OneShort(disk[n]) /\ Nothing(disk[n])

(* A recording that is called saved counts and lists all its samples,      *)
(* wherever the stop comes.  Does not hold: README section 5.              *)
FinishedCountsAll ==
    \A n \in DOMAIN disk : disk[n].status \in Finished =>
        disk[n].count = disk[n].whole /\ disk[n].index = disk[n].whole

(* A recovery that has been published holds every committed sample of its  *)
(* source, for ever: nobody was still writing it (docs/CAPTURE_RECOVERY.md:*)
(* "The original recording is never repaired in place").                   *)
RecoveredIsComplete ==
    \A n \in DOMAIN disk :
        disk[n].kind = "recovered" => disk[n].whole = disk[disk[n].source].whole

(* A recovered copy in the catalog is named by a report, also when the     *)
(* bridge died before the job was done (recovery_service.py:81, "Durable   *)
(* ownership before copying, so interrupted work is locatable").           *)
RecoveredIsNamed ==
    \A n \in DOMAIN disk :
        disk[n].kind = "recovered" => jobs[disk[n].by.id].candidate

(* A recording request begins at most one recording, and only in the       *)
(* execution it was addressed to.                                          *)
OneRecordingPerRequest ==
    \A n \in DOMAIN disk : disk[n].kind = "capture" =>
        /\ disk[n].by.exec = disk[n].exec
        /\ \A m \in DOMAIN disk : disk[m].by = disk[n].by => m = n

(* A recording "successfully finalized" (dataset_split.py:46) has no       *)
(* sample whose writing failed.                                            *)
SavedHasNoTail ==
    \A n \in DOMAIN disk : disk[n].status \in {"saved", "saved_limit"} => ~disk[n].tail

(* Finished and recovered recordings are what they say they are, and what  *)
(* was asked for.                                                          *)
RecordingsAreTrue ==
    FinishedIsIndexed /\ RecoveredIsComplete /\ RecoveredIsNamed /\ OneRecordingPerRequest

-----------------------------------------------------------------------------
(* The inductive invariant of that.                                        *)
Requests == [id : Nat, recording : BOOLEAN, exec : Nat]
Statuses == {"recording", "bare", "saved_cleanup_error", "saved_capture_error"} \cup Finished
Directories ==
    [kind : {"capture", "recovered", "excerpt"}, source : Nat, exec : Nat \ {0},
     status : Statuses, by : Requests, whole : Nat, tail : BOOLEAN, count : Nat, index : Nat,
     cut : {"none", "begin", "sample"}]
Reports ==
    [kind : {"recovery", "excerpt", "archive", "quality"}, source : Nat,
     state : {"running", "done", "failed"},
     phase : {"started", "copied", "verified", "locked", "published"}, seen : Directories,
     copy : Nat, candidate : BOOLEAN]

CaptureTypeOK ==
    /\ disk \in Seq(Directories) /\ request \in Requests
    /\ recorder \in [exec : Nat, open : BOOLEAN, run : Nat, last : Nat, accepted : Requests]
    /\ session \in [run : Nat, active : BOOLEAN]
    /\ jobs \in Seq(Reports) /\ active \in 0 .. Len(jobs)
    /\ publisher \in BOOLEAN /\ scanning \in BOOLEAN

(* The executions are numbered as they come.                               *)
ExecutionsInOrder ==
    /\ recorder.exec <= session.run /\ request.exec <= session.run
    /\ \A n \in DOMAIN disk : disk[n].exec <= session.run
    /\ \A j \in DOMAIN jobs : jobs[j].seen.exec <= session.run

(* The recording that is open says what it holds.                          *)
OpenIsIndexed ==
    /\ recorder.open => recorder.exec # 0
    /\ recorder.run # 0 =>
          /\ recorder.open /\ recorder.run \in DOMAIN disk
          /\ LET d == disk[recorder.run]
             IN  /\ d.kind = "capture" /\ d.exec = recorder.exec /\ d.status = "recording"
                 /\ d.cut = "none" /\ d.count = d.whole /\ d.index = d.whole

(* A worker takes up the requests in their order.                          *)
RequestsInOrder ==
    /\ recorder.last <= recorder.accepted.id /\ recorder.accepted.id <= request.id
    /\ recorder.accepted.recording => recorder.accepted.exec = recorder.exec
    /\ \A n \in DOMAIN disk :
          /\ disk[n].by.recording <=> disk[n].kind = "capture"
          /\ disk[n].kind = "capture" /\ disk[n].exec = recorder.exec =>
                disk[n].by.id <= recorder.last

(* What is copied is of an execution whose worker has gone.                *)
Settled(name) == name \in DOMAIN disk /\ disk[name].exec # recorder.exec
CopiesAreSettled ==
    /\ \A n \in DOMAIN disk : disk[n].kind = "recovered" =>
          /\ Settled(disk[n].source)
          /\ disk[n].by.id \in DOMAIN jobs /\ jobs[disk[n].by.id].phase = "published"
    /\ active # 0 =>
          /\ Running.source \in DOMAIN disk
          /\ Running.phase # "started" =>
                /\ Settled(Running.source)
                /\ Running.kind = "recovery" => Running.copy = disk[Running.source].whole
          /\ Running.phase \in {"verified", "locked"} /\ Running.kind = "recovery" =>
                Running.candidate

(* A publisher has checked the quota under the lock, and the lock keeps   *)
(* every sample out until its copy is in.                                  *)
LockedFits ==
    active # 0 /\ Running.phase = "locked" =>
        publisher /\ Allocated(disk) + Running.copy <= Quota

QuotaInv == QuotaHolds /\ LockedFits

CaptureInv ==
    /\ CaptureTypeOK /\ RecordingsAreTrue
    /\ ExecutionsInOrder /\ OpenIsIndexed /\ RequestsInOrder /\ CopiesAreSettled
=============================================================================
