---------------------------- MODULE ManualDriving -----------------------------
(***************************************************************************)
(* Driving by hand: pages that send what the operator holds                *)
(* (ManualDriving.tsx), the bridge that stamps it (manual_sensor_control), *)
(* and the capture worker that applies it before each frame unless it is   *)
(* too old or another execution's (manual_control).  A call may be         *)
(* answered, refused, or lost before or after it was handled; the command  *)
(* file outlives its execution.  Time is in units of a quarter second.     *)
(***************************************************************************)
EXTENDS Naturals, FiniteSets

CONSTANTS
    Pages,          \* open pages of the studio
    Lease,          \* 0.5 s, how long a command holds
    MaxTime, MaxDrives      \* bounds of a run

ASSUME ManualAssumption == Lease \in Nat \ {0} /\ {MaxTime, MaxDrives} \subseteq Nat

VARIABLES
    clock,      \* time.monotonic
    drive,      \* the current execution, its state in the journal, its mode
    page,       \* each page: the execution it drives, what is held, sent and awaited
    calls,      \* calls under way to the bridge, the abandoned ones included
    command,    \* manual-control.json
    wheel,      \* what the worker applied last, for which execution and when
    held        \* when a page last wanted to drive an execution (history)

manualVars == <<clock, drive, page, calls, command, wheel, held>>

Drives == 0 .. MaxDrives
NoPanel == [drive |-> 0, desired |-> "brake", sent |-> "brake", call |-> "none", asked |-> "brake"]

ManualInit ==
    /\ clock = 0 /\ drive = [run |-> 0, state |-> "ended", mode |-> "manual"]
    /\ page = [p \in Pages |-> NoPanel] /\ calls = {}
    /\ command = [drive |-> 0, control |-> "brake", at |-> 0] /\ wheel = command
    /\ held = [d \in Drives |-> 0]

(* Who still wants an execution driven: a page that is held down, or a     *)
(* call that was made while it was.                                        *)
Wanted(d, pages, under) ==
    \/ \E p \in Pages : pages[p].drive = d /\ pages[p].desired = "go"
    \/ \E c \in under : c.drive = d /\ c.control = "go"

(* Everything that changes what is wanted, or the time, goes through here. *)
Note(time, pages, under) ==
    held' = [d \in Drives |-> IF Wanted(d, page, calls) \/ Wanted(d, pages, under) THEN time
                              ELSE held[d]]

To(pages, under) == page' = pages /\ calls' = under /\ Note(clock, pages, under)

TimePasses ==
    /\ clock < MaxTime /\ clock' = clock + 1
    /\ Note(clock', page, calls)
    /\ UNCHANGED <<drive, page, calls, command, wheel>>

-----------------------------------------------------------------------------
(* start_e2e for a sensor rig, and its worker, which brakes first.         *)
StartDrive ==
    /\ drive.state = "ended" /\ drive.run < MaxDrives
    /\ \E mode \in {"manual", "autopilot"} :
          drive' = [run |-> drive.run + 1, state |-> "running", mode |-> mode]
    /\ wheel' = [drive |-> drive.run + 1, control |-> "brake", at |-> clock]
    /\ UNCHANGED <<clock, page, calls, command, held>>

(* A stop is requested; the worker ends at its next frame, or is killed.   *)
StopDrive ==
    /\ \/ drive.state = "running" /\ drive' = [drive EXCEPT !.state = "stopping"]
       \/ drive.state \in {"running", "stopping"} /\ drive' = [drive EXCEPT !.state = "ended"]
    /\ UNCHANGED <<clock, page, calls, command, wheel, held>>

(* Mutant of Control: a command is good until it is replaced.              *)
ControlForEver == IF command.drive = drive.run THEN command.control ELSE "brake"

(* current_control.                                                        *)
Control ==
    IF command.drive = drive.run /\ clock - command.at <= Lease THEN command.control ELSE "brake"

(* One frame of the worker in manual mode.                                 *)
DriveFrame ==
    /\ drive.state \in {"running", "stopping"} /\ drive.mode = "manual"
    /\ wheel' = [drive |-> drive.run, control |-> Control, at |-> clock]
    /\ UNCHANGED <<clock, drive, page, calls, command, held>>

-----------------------------------------------------------------------------
(* The panel appears on a page while a manual execution runs.              *)
OpenPanel(p) ==
    /\ page[p] = NoPanel /\ drive.state = "running" /\ drive.mode = "manual"
    /\ To([page EXCEPT ![p].drive = drive.run], calls)
    /\ UNCHANGED <<clock, drive, command, wheel>>

HoldDown(p) ==
    /\ page[p].drive # 0 /\ page[p].desired = "brake"
    /\ To([page EXCEPT ![p].desired = "go"], calls)
    /\ UNCHANGED <<clock, drive, command, wheel>>

(* Pointer or key up, a lost pointer, a blurred button, the brake button.  *)
Release(p) ==
    /\ page[p].desired = "go"
    /\ To([page EXCEPT ![p].desired = "brake"], calls)
    /\ UNCHANGED <<clock, drive, command, wheel>>

(* A page waits for one answer at a time, and does not repeat a brake.     *)
Sends(p) == page[p].call = "none" /\ ~(page[p].desired = "brake" /\ page[p].sent = "brake")

Call(p, awaited) ==
    [by |-> p, drive |-> page[p].drive, control |-> page[p].desired, awaited |-> awaited]

(* send, by the timer of the page or a window that loses the focus.        *)
SendWish(p) ==
    /\ page[p].drive # 0 /\ Sends(p)
    /\ To([page EXCEPT ![p].call = "sent", ![p].asked = page[p].desired],
          calls \cup {Call(p, TRUE)})
    /\ UNCHANGED <<clock, drive, command, wheel>>

(* The calls of a page that no longer waits for them.                      *)
Abandoned(p) == {[c EXCEPT !.awaited = @ /\ c.by # p] : c \in calls}

(* The panel goes, with its execution or its page: it brakes, if no call   *)
(* is pending.                                                             *)
ClosePanel(p) ==
    /\ page[p].drive # 0
    /\ LET brakes == page[p].call = "none" /\ page[p].sent = "go"
           last == [Call(p, FALSE) EXCEPT !.control = "brake"]
       IN  To([page EXCEPT ![p] = NoPanel], Abandoned(p) \cup {x \in {last} : brakes})
    /\ UNCHANGED <<clock, drive, command, wheel>>

Answered(c, answer) == IF c.awaited THEN [page EXCEPT ![c.by].call = answer] ELSE page

(* manual_sensor_control: the time is the bridge's, of this moment.        *)
Handle(c) ==
    LET accepted == drive.state = "running" /\ drive.mode = "manual" /\ drive.run = c.drive
    IN  /\ command' = IF accepted THEN [drive |-> c.drive, control |-> c.control, at |-> clock]
                      ELSE command
        /\ To(Answered(c, IF accepted THEN "accepted" ELSE "failed"), calls \ {c})
        /\ UNCHANGED <<clock, drive, wheel>>

LoseCall(c) ==
    /\ To(Answered(c, "failed"), calls \ {c})
    /\ UNCHANGED <<clock, drive, command, wheel>>

(* The answer arrives, or the page sees an error instead, with the call    *)
(* still under way or not.                                                 *)
ReadAnswer(p) ==
    /\ page[p].call = "accepted"
    /\ To([page EXCEPT ![p].call = "none", ![p].sent = page[p].asked,
                       ![p].asked = "brake"], calls)
    /\ UNCHANGED <<clock, drive, command, wheel>>

CallFails(p) ==
    /\ page[p].call # "none"
    /\ To([page EXCEPT ![p].call = "none", ![p].desired = "brake",
                       ![p].asked = "brake"], Abandoned(p))
    /\ UNCHANGED <<clock, drive, command, wheel>>

ManualNext ==
    \/ TimePasses \/ StartDrive \/ StopDrive \/ DriveFrame
    \/ \E p \in Pages : \/ OpenPanel(p) \/ HoldDown(p) \/ Release(p) \/ SendWish(p)
                        \/ ClosePanel(p) \/ ReadAnswer(p) \/ CallFails(p)
    \/ \E c \in calls : Handle(c) \/ LoseCall(c)

ManualSpec == ManualInit /\ [][ManualNext]_manualVars

-----------------------------------------------------------------------------
(* A frame is driven only if somebody wanted that execution driven not     *)
(* longer ago than a command holds, whatever was lost, delayed or left on  *)
(* disk, and whichever page has gone (manual_control.py:1, "a dead-man     *)
(* brake"; run_sensor_rig.py:77).                                          *)
DeadManHolds ==
    wheel.control = "go" => wheel.at <= held[wheel.drive] + Lease

(* Letting go asks for the brake (ManualDriving.tsx): does not hold, see   *)
(* README section 5.                                                       *)
ReleaseAsksForBrake ==
    \A p \in Pages :
        page[p].drive # 0 /\ page[p].desired = "brake" /\ page[p].call = "none" /\ calls = {} =>
            command.control = "brake" \/ command.drive # page[p].drive \/ Sends(p)

(* The inductive invariant behind DeadManHolds (ManualDriving_proofs): the *)
(* command on disk, whoever sent it and however late it was handled, was   *)
(* still wanted when the bridge stamped it.                                *)
DriveTypeOK ==
    /\ clock \in Nat
    /\ drive \in [run : Drives, state : {"running", "stopping", "ended"},
                  mode : {"manual", "autopilot"}]
    /\ {command.drive, wheel.drive} \subseteq Drives /\ {command.at, wheel.at} \subseteq Nat
    /\ held \in [Drives -> Nat]

HeldIsPast == \A d \in Drives : held[d] <= clock
CommandWasWanted == command.control = "go" => command.at <= held[command.drive]

ManualInv == DriveTypeOK /\ HeldIsPast /\ CommandWasWanted /\ DeadManHolds
=============================================================================
