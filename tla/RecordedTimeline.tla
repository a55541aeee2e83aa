--------------------------- MODULE RecordedTimeline ---------------------------
(***************************************************************************)
(* What a replay says of a recording (replay, editor_events, data_quality):*)
(* its braking segments, the samples next to its collisions, and the first *)
(* sample after each edit.  A recording grows frame by frame: a frame is   *)
(* sampled when it is due and its sensors came, collisions fall on any     *)
(* frame, and edits are carried out between two frames, with an audit that *)
(* may be cut, or see another client tick the world.                       *)
(***************************************************************************)
EXTENDS Integers, SequencesExt, FiniteSetsExt

CONSTANTS
    Every,          \* sampling_every_frames
    LastFrame,      \* length of the run
    MaxCommands, MaxCollisions      \* bounds of a run

ASSUME TimelineAssumption == Every \in 1 .. LastFrame /\ {MaxCommands, MaxCollisions} \subseteq Nat

VARIABLES
    now,        \* the frame of the world
    sequence,   \* the frames the worker has handled
    samples,    \* index.json: the sampled frames, with the recorded brake
    commands,   \* the audit of the edits, with the frame that first shows it
    contacts    \* the frames of the collisions

timelineVars == <<now, sequence, samples, commands, contacts>>

Nowhere == -1

TimelineInit == now = 0 /\ sequence = 0 /\ samples = <<>> /\ commands = <<>> /\ contacts = {}

(* A frame; a sample that is due may be skipped (a sensor is missing), and *)
(* the pause of a recording skips it as well.                              *)
AdvanceFrame ==
    /\ now < LastFrame /\ now' = now + 1 /\ sequence' = sequence + 1
    /\ \/ UNCHANGED samples
       \/ /\ sequence' % Every = 0
          /\ \E brake \in BOOLEAN : samples' = Append(samples, [frame |-> now', brake |-> brake])
    /\ UNCHANGED <<commands, contacts>>

Contact ==
    /\ Cardinality(contacts) < MaxCollisions /\ contacts' = contacts \cup {now}
    /\ UNCHANGED <<now, sequence, samples, commands>>

(* One command: the audit notes the frame before and after it.  What was   *)
(* done shows from the next frame on, or from the one after that if another*)
(* client ticked meanwhile; a worker that is killed, or does not do it,    *)
(* leaves no answer or a refusal.                                          *)
AuditEdit ==
    /\ Len(commands) < MaxCommands
    /\ \E after \in {now, now + 1}, answer \in {"none", "refused", "ok"},
          shows \in {Nowhere, now + 1, now + 2} :
          /\ after <= LastFrame /\ now' = after
          /\ answer = "ok" => shows # Nowhere
          /\ answer = "refused" => shows = Nowhere
          /\ shows = now + 2 => after = now + 1
          /\ commands' = Append(commands, [before |-> now, after |-> after, answer |-> answer,
                                           shows |-> shows])
    /\ UNCHANGED <<sequence, samples, contacts>>

-----------------------------------------------------------------------------
(* temporal_quality: the intervals that are not the sampling's.            *)
Ordered(index) == \A i \in 1 .. Len(index) - 1 : index[i].frame < index[i + 1].frame
Gap(index, i) == index[i + 1].frame - index[i].frame # Every

(* Mutant of Joins: a gap in the recording does not end a segment.         *)
JoinsAnyway(previous, sample) == TRUE

(* May a sample go on with the segment of the sample before it.            *)
Joins(previous, sample) == previous # Nowhere => sample.frame - previous = Every

(* One sample in the pass of replay_events, which goes on with the segment *)
(* that is open, begins one, or closes it.                                 *)
NoSegment == [previous |-> Nowhere, open |-> FALSE, segments |-> <<>>]
Passed(pass, sample) ==
    LET open == pass.open /\ Joins(pass.previous, sample)
        done == pass.segments
    IN  [previous |-> sample.frame, open |-> sample.brake,
         segments |->
            CASE ~sample.brake -> done
              [] sample.brake /\ ~open ->
                    Append(done, [start |-> sample.frame, end |-> sample.frame, count |-> 1])
              [] sample.brake /\ open ->
                    [done EXCEPT ![Len(done)].end = sample.frame, ![Len(done)].count = @ + 1]]

(* replay_events: the pass after each of the samples, and what it returns. *)
Pass(index) ==
    LET pass[i \in 0 .. Len(index)] ==
            IF i = 0 THEN NoSegment ELSE Passed(pass[i - 1], index[i])
    IN  pass
BrakeSegments(index) == Pass(index)[Len(index)].segments

(* bisect_left and bisect_right over the frames of an index.               *)
LeftOf(index, frame) == Cardinality({i \in DOMAIN index : index[i].frame < frame})
RightOf(index, frame) == Cardinality({i \in DOMAIN index : index[i].frame <= frame})

(* recorded_collisions: the nearer of the two neighbours, the earlier one  *)
(* if neither is nearer.                                                   *)
ReplayFrame(index, frame) ==
    LET k == LeftOf(index, frame)
        before == index[k].frame
        after == index[k + 1].frame
    IN  CASE index = <<>> -> Nowhere
          [] index # <<>> /\ k = 0 -> after
          [] k > 0 /\ k = Len(index) -> before
          [] k > 0 /\ k < Len(index) -> IF frame - before <= after - frame THEN before ELSE after

Certain(command) == command.answer = "ok" /\ command.after = command.before

(* editor_events: the first later sample, if the outcome is certain.       *)
SeekFrame(index, command) ==
    LET k == RightOf(index, command.before)
    IN  IF Certain(command) /\ k < Len(index) THEN index[k + 1].frame ELSE Nowhere

Relation(index, command) ==
    IF SeekFrame(index, command) = Nowhere THEN "unmapped"
    ELSE IF RightOf(index, command.before) = 0 THEN "before_recording" ELSE "within_recording"

TimelineNext == AdvanceFrame \/ Contact \/ AuditEdit

TimelineSpec == TimelineInit /\ [][TimelineNext]_timelineVars

-----------------------------------------------------------------------------
(* An excerpt is a recording of its own, with a timeline of its own: some  *)
(* samples in a row, the collisions between them, and the edits that are   *)
(* shown by one of them or made between them.                              *)
Excerpts == {SubSeq(samples, a, b) : a \in 1 .. Len(samples), b \in 1 .. Len(samples)} \ {<<>>}
Within(index, frame) == index[1].frame <= frame /\ frame <= index[Len(index)].frame
KeptEdit(index, command) ==
    \/ \E i \in DOMAIN index : index[i].frame = SeekFrame(samples, command)
    \/ Within(index, command.before)

(* Braking samples in a row without a gap, and the longest such runs.      *)
Braking(index, a, b) ==
    (\A i \in a .. b : index[i].brake) /\ (\A i \in a .. b - 1 : ~Gap(index, i))
LongestRuns(index) ==
    {ab \in (1 .. Len(index)) \X (1 .. Len(index)) :
        /\ ab[1] <= ab[2] /\ Braking(index, ab[1], ab[2])
        /\ ab[1] > 1 => ~Braking(index, ab[1] - 1, ab[2])
        /\ ab[2] < Len(index) => ~Braking(index, ab[1], ab[2] + 1)}
Segment(index, a, b) ==
    [start |-> index[a].frame, end |-> index[b].frame, count |-> b - a + 1]

(* The segments are the longest runs of braking samples without a gap, and *)
(* no braking sample is outside of them (replay.py:75, "Do not join known  *)
(* recording gaps into one continuous braking segment").                   *)
SegmentsAreMaximal(index) ==
    /\ Ordered(index)
    /\ ToSet(BrakeSegments(index)) =
          {Segment(index, ab[1], ab[2]) : ab \in LongestRuns(index)}
    /\ Len(BrakeSegments(index)) = Cardinality(LongestRuns(index))

Distance(a, b) == IF a < b THEN b - a ELSE a - b

(* No sample is nearer to a collision than the one it is replayed with.    *)
CollisionIsNearest(index, frame) ==
    index # <<>> =>
        LET found == ReplayFrame(index, frame)
        IN  /\ \E i \in DOMAIN index : index[i].frame = found
            /\ \A i \in DOMAIN index : Distance(found, frame) <= Distance(index[i].frame, frame)

(* The sample an edit is shown with shows it, and no earlier one does, so  *)
(* the jump to it lands right behind the change; an edit that lands inside *)
(* a recording has a sample before it (editor_events.py:62-72).            *)
EditIsShown(index, command) ==
    SeekFrame(index, command) # Nowhere =>
        /\ command.shows \in 0 .. SeekFrame(index, command)
        /\ \A i \in DOMAIN index :
              index[i].frame < SeekFrame(index, command) => index[i].frame < command.shows
        /\ Relation(index, command) = "before_recording" <=> command.before < index[1].frame

(* The replay of a recording says what happened, and so does that of every *)
(* excerpt of it, which shows an edit it keeps where the recording does or,*)
(* if the recording goes on where the excerpt ends, not at all.            *)
TimelineIsTrue ==
    /\ SegmentsAreMaximal(samples)
    /\ \A frame \in contacts : CollisionIsNearest(samples, frame)
    /\ \A i \in DOMAIN commands : EditIsShown(samples, commands[i])
    /\ \A index \in Excerpts :
          /\ SegmentsAreMaximal(index)
          /\ \A frame \in contacts : Within(index, frame) => CollisionIsNearest(index, frame)
          /\ \A i \in DOMAIN commands : KeptEdit(index, commands[i]) =>
                /\ EditIsShown(index, commands[i])
                /\ SeekFrame(index, commands[i]) \in {Nowhere, SeekFrame(samples, commands[i])}

-----------------------------------------------------------------------------
(* The inductive invariant of that.                                        *)
Sample == [frame : Nat, brake : BOOLEAN]
Audit == [before : Nat, after : Nat, answer : {"none", "refused", "ok"}, shows : Int]

TimelineTypeOK ==
    /\ now \in Nat /\ sequence \in Nat /\ samples \in Seq(Sample)
    /\ commands \in Seq(Audit) /\ contacts \subseteq Nat

(* The samples are of frames that have been, in their order.               *)
Rising(index) == \A i, j \in DOMAIN index : i < j => index[i].frame < index[j].frame
SamplesInOrder == Rising(samples) /\ \A i \in DOMAIN samples : samples[i].frame \in 1 .. now

(* An edit whose outcome is certain shows from the next frame on.          *)
ShowsNext(command) == Certain(command) => command.shows = command.before + 1

TimelineInv ==
    TimelineTypeOK /\ SamplesInOrder /\ \A i \in DOMAIN commands : ShowsNext(commands[i])
=============================================================================
