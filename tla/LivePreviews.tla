---------------------------- MODULE LivePreviews ----------------------------
(***************************************************************************)
(* What is shown while a worker runs.  Its capture writes every frame to a *)
(* directory named by the frame's number, then names that directory in     *)
(* latest.json, and keeps a window of directories; a sweep under the same  *)
(* lock removes what earlier workers left.  A ROS relay reads without the  *)
(* lock.  A model also publishes what it saw to one file per camera.  The  *)
(* page reads both through the bridge.  A file is written aside and        *)
(* renamed, and stands here for the run it was written in.                 *)
(***************************************************************************)
EXTENDS Naturals, Sequences, FiniteSets

CONSTANTS
    Cameras,
    KeepNewest,             \* generations kept: 6 in the code
    MaxWorkers, MaxShown    \* bounds of a run: workers, frames of each

ASSUME PreviewAssumption == IsFiniteSet(Cameras) /\ KeepNewest \in Nat \ {0} /\ MaxWorkers \in Nat

VARIABLES
    live,       \* which worker runs, what it does, the frame, its window of generations
    count,      \* workers so far, the simulator's frame, frames of this worker
    started,    \* started_at of the bridge: from which worker files are recent
    frames,     \* frame -> camera -> the worker whose image it is; "junk" if a file is torn
    order,      \* <<m, n>>: generation n has been modified later than m
    latest,     \* capture/latest.json
    telemetry,  \* telemetry: camera -> stamp of the image, and latest.json
    relay,      \* the callback of the relay: what it read, what is left, what it took last
    page        \* what the page was told of the telemetry, and what it was shown

previewVars == <<live, count, started, frames, order, latest, telemetry, relay, page>>

NoFrame == [run |-> 0, frame |-> 0]
ShownBy(r, f) == [run |-> r, frame |-> f]
Resting == [step |-> "idle", run |-> 0, frame |-> 0, left |-> {}]
Off == [run |-> 0, step |-> "off", left |-> {}, sees |-> {}, window |-> <<>>]
Put(function, key, value) ==
    [k \in DOMAIN function \cup {key} |-> IF k = key THEN value ELSE function[k]]
Drop(function, keys) == [k \in DOMAIN function \ keys |-> function[k]]

(* The modification times after a generation was written to or removed.    *)
OrderOf(kept) == {p \in order : {p[1], p[2]} \subseteq kept}
Modified(n) == OrderOf(DOMAIN frames \ {n}) \cup (DOMAIN frames \ {n}) \X {n}

PreviewInit ==
    /\ live = Off /\ count = [workers |-> 0, frame |-> 0, shown |-> 0]
    /\ started = 0 /\ frames = <<>> /\ order = {} /\ latest = [run |-> 0, frame |-> 0, sees |-> {}]
    /\ telemetry = [images |-> <<>>, latest |-> NoFrame]
    /\ relay = [meta |-> Resting, last |-> 0, sent |-> {}]
    /\ page = [told |-> NoFrame, image |-> NoFrame, media |-> <<>>]

(* start_e2e: the telemetry of the run before is removed, the directories  *)
(* of its frames and its latest.json stay.                                 *)
Emptied == [images |-> <<>>, latest |-> NoFrame]

(* From SESSION.begin on a run counts as active.  A simulator started      *)
(* again counts its frames from 1 again.  A start takes longer than a      *)
(* callback of the relay, and than the 5 s a frame is fresh.               *)
StartShowing(again) ==
    /\ live.step = "off" /\ count.workers < MaxWorkers /\ relay.meta.step = "idle"
    /\ \E sees \in (SUBSET Cameras) \ {{}} :
          live' = [Off EXCEPT !.run = count.workers + 1, !.step = "starting", !.sees = sees]
    /\ count' = [workers |-> count.workers + 1, frame |-> IF again THEN 0 ELSE count.frame, shown |-> 0]
    /\ telemetry' = Emptied
    /\ UNCHANGED <<started, frames, order, latest, relay, page>>

(* The job of the run, with its started_at, and then the worker itself.    *)
Launch ==
    /\ live.step = "starting" /\ live' = [live EXCEPT !.step = "idle"]
    /\ started' = live.run
    /\ UNCHANGED <<count, frames, order, latest, telemetry, relay, page>>

(* A bridge that was started again does not know when the run began.       *)
RestartPage ==
    /\ live.step = "idle" /\ started' = 0
    /\ UNCHANGED <<live, count, frames, order, latest, telemetry, relay, page>>

(* _process: the directory of the frame, which may be there already.       *)
BeginFrame ==
    /\ live.step = "idle" /\ count.shown < MaxShown
    /\ count' = [count EXCEPT !.frame = @ + 1, !.shown = @ + 1]
    /\ live' = [live EXCEPT !.step = "writing", !.left = live.sees]
    /\ frames' = IF count'.frame \in DOMAIN frames THEN frames ELSE Put(frames, count'.frame, <<>>)
    /\ order' = Modified(count'.frame)
    /\ UNCHANGED <<started, latest, telemetry, relay, page>>

WriteImage(c) ==
    /\ live.step = "writing" /\ c \in live.left
    /\ live' = [live EXCEPT !.left = @ \ {c}]
    /\ frames' = [frames EXCEPT ![count.frame] = Put(@, c, live.run)]
    /\ order' = Modified(count.frame)
    /\ UNCHANGED <<started, count, latest, telemetry, relay, page>>

(* latest.json, once every image is there.                                 *)
AllWritten == live.left = {}

NameFrame ==
    /\ live.step = "writing" /\ AllWritten
    /\ latest' = [run |-> live.run, frame |-> count.frame, sees |-> live.sees]
    /\ live' = [live EXCEPT !.step = "named", !.window = Append(@, count.frame)]
    /\ UNCHANGED <<started, count, frames, order, telemetry, relay, page>>

(* The oldest of a full window is removed, images first; if it is not      *)
(* there the recording stops with an I/O error, and its worker with it.    *)
RollWindow ==
    /\ live.step = "named"
    /\ IF Len(live.window) <= KeepNewest
       THEN live' = [live EXCEPT !.step = "swept"] /\ UNCHANGED <<frames, order>>
       ELSE LET oldest == Head(live.window) IN
            /\ live' = IF oldest \in DOMAIN frames
                          THEN [live EXCEPT !.step = "swept", !.window = Tail(@)]
                          ELSE [live EXCEPT !.step = "failed"]
            /\ frames' = Drop(frames, {oldest}) /\ order' = OrderOf(DOMAIN frames')
    /\ UNCHANGED <<started, count, latest, telemetry, relay, page>>

(* Mutant of Protected: only what latest.json names.                       *)
ProtectedCurrent == {latest.frame}

(* prune_previews, now and then: the current generation and the newest     *)
(* others stay, and so do those a minute has not passed since, the newest  *)
(* again, and those that hold a file it does not know.                     *)
Candidates == {n \in DOMAIN frames : "junk" \notin DOMAIN frames[n]}
Newest(S, k) == {n \in S : Cardinality({m \in S : <<n, m>> \in order}) < k}
Protected == {latest.frame} \cup Newest(Candidates \ {latest.frame}, KeepNewest - 1)

Sweep ==
    /\ latest.frame \in DOMAIN frames
    /\ \E young \in 0 .. Cardinality(Candidates) :
          LET gone == Candidates \ (Newest(Candidates, young) \cup Protected)
          IN  frames' = Drop(frames, gone) /\ order' = OrderOf(DOMAIN frames')
    /\ UNCHANGED <<started, count, latest, telemetry, relay, page>>

(* SensorCapture.process: at most once a minute, after a frame.  Then a    *)
(* native run publishes its telemetry (the agents of the benchmark do so   *)
(* before the capture; they share no file), a rig has none.                *)
SweepFrame ==
    /\ live.step = "swept"
    /\ \E next \in {"model", "idle"} : live' = [live EXCEPT !.step = next]
    /\ Sweep \/ UNCHANGED <<started, count, frames, order, latest, telemetry, relay, page>>

(* cleanup_live_previews, by an operator when nothing runs.                *)
SweepIdle == live.step = "off" /\ Sweep /\ UNCHANGED live

(* publish_driving_telemetry: one image after the other, then latest.json. *)
PublishImage(c) ==
    /\ live.step = "model" /\ c \in live.sees
    /\ c \in DOMAIN telemetry.images => telemetry.images[c] # ShownBy(live.run, count.shown)
    /\ telemetry' = [telemetry EXCEPT !.images = Put(@, c, ShownBy(live.run, count.shown))]
    /\ UNCHANGED <<live, count, started, frames, order, latest, relay, page>>

PublishEvidence ==
    /\ live.step = "model"
    /\ \A c \in live.sees :
          c \in DOMAIN telemetry.images /\ telemetry.images[c] = ShownBy(live.run, count.shown)
    /\ telemetry' = [telemetry EXCEPT !.latest = ShownBy(live.run, count.shown)]
    /\ live' = [live EXCEPT !.step = "idle"]
    /\ UNCHANGED <<started, count, frames, order, latest, relay, page>>

(* A worker ends, or is killed; killed while it writes, it leaves a file   *)
(* that was not renamed.                                                   *)
EndShowing ==
    /\ live.step # "off" /\ live' = Off
    /\ \/ UNCHANGED frames
       \/ /\ live.step = "writing" /\ live.left # {}
          /\ frames' = [frames EXCEPT ![count.frame] = Put(@, "junk", live.run)]
    /\ UNCHANGED <<started, count, order, latest, telemetry, relay, page>>

-----------------------------------------------------------------------------
(* Mutant of Fresh: the age of latest.json is not looked at.               *)
FreshAnyway == TRUE

(* publish_frame of the relay: latest.json, when it is new and fresh, and  *)
(* then the images it names one by one, each published as it is read.  A   *)
(* generation that has gone ends the callback, to be tried again.          *)
Fresh == latest.run = count.workers

RelayReads ==
    /\ relay.meta.step = "idle" /\ latest.frame \notin {0, relay.last} /\ Fresh
    /\ relay' = [relay EXCEPT !.meta = [step |-> "images", run |-> latest.run, frame |-> latest.frame,
                                        left |-> latest.sees]]
    /\ UNCHANGED <<live, count, started, frames, order, latest, telemetry, page>>

RelayPublishes(c) ==
    LET meta == relay.meta
        done == meta.left = {c} IN
    /\ meta.step = "images" /\ c \in meta.left
    /\ relay' = IF meta.frame \in DOMAIN frames /\ c \in DOMAIN frames[meta.frame]
                THEN [meta |-> IF done THEN Resting ELSE [meta EXCEPT !.left = @ \ {c}],
                      last |-> IF done THEN meta.frame ELSE relay.last,
                      sent |-> {<<meta.run, frames[meta.frame][c]>>}]
                ELSE [relay EXCEPT !.meta = Resting]
    /\ UNCHANGED <<live, count, started, frames, order, latest, telemetry, page>>

(* GET /e2e/telemetry and /e2e/camera, one after the other: what was       *)
(* modified before started_at belongs to an earlier run.                   *)
Recent(run) == run >= started

PageAsks ==
    /\ live.run # 0 /\ Recent(telemetry.latest.run) /\ telemetry.latest # NoFrame
    /\ page' = [page EXCEPT !.told = telemetry.latest, !.image = NoFrame]
    /\ UNCHANGED <<live, count, started, frames, order, latest, telemetry, relay>>

PageLooks(c) ==
    /\ page.told # NoFrame /\ c \in DOMAIN telemetry.images
    /\ page' = [page EXCEPT !.image = telemetry.images[c]]
    /\ UNCHANGED <<live, count, started, frames, order, latest, telemetry, relay>>

(* GET /capture/media, of any frame the page knows.                        *)
PageWatches(f, c) ==
    /\ live.run # 0 /\ f \in DOMAIN frames /\ c \in DOMAIN frames[f] /\ Recent(frames[f][c])
    /\ page' = [page EXCEPT !.media = <<frames[f][c], live.run>>]
    /\ UNCHANGED <<live, count, started, frames, order, latest, telemetry, relay>>

PreviewNext ==
    \/ \E again \in BOOLEAN : StartShowing(again)
    \/ Launch \/ RestartPage \/ BeginFrame \/ NameFrame \/ RollWindow \/ SweepFrame \/ SweepIdle
    \/ PublishEvidence \/ EndShowing \/ RelayReads \/ PageAsks
    \/ \E c \in Cameras : WriteImage(c) \/ PublishImage(c) \/ RelayPublishes(c) \/ PageLooks(c)
    \/ \E f \in DOMAIN frames, c \in Cameras : PageWatches(f, c)

PreviewSpec == PreviewInit /\ [][PreviewNext]_previewVars
-----------------------------------------------------------------------------
(* The relay stamps an image with the frame it is of, although it reads    *)
(* without the lock and numbers come again (capture_relay.py).             *)
RelayedIsOfItsFrame == \A m \in relay.sent : m[1] = m[2]

(* What latest.json names is there and whole, as long as it is fresh.      *)
NamedIsWhole ==
    latest.frame # 0 /\ Fresh =>
        /\ latest.frame \in DOMAIN frames
        /\ \A c \in latest.sees :
              c \in DOMAIN frames[latest.frame] /\ frames[latest.frame][c] = latest.run

(* No sweep takes a generation that the recorder is still to remove: it    *)
(* would stop the recording (sensor_capture.py:379-383).                   *)
WindowIsThere ==
    live.step # "failed" /\ \A i \in DOMAIN live.window : live.window[i] \in DOMAIN frames

(* An image of the telemetry is not older than the numbers beside it, and   *)
(* never of an earlier run.                                                *)
ImagesAreNoOlder ==
    page.image # NoFrame =>
        \/ page.image.run > page.told.run
        \/ page.image.run = page.told.run /\ page.image.frame >= page.told.frame

(* What is shown is of the frame and the run it is said to be of.          *)
PreviewsAreTrue == RelayedIsOfItsFrame /\ NamedIsWhole /\ WindowIsThere /\ ImagesAreNoOlder

-----------------------------------------------------------------------------
(* The inductive invariant of that.                                        *)
ShownFrames == [run : Nat, frame : Nat]
ShowingSteps == {"off", "starting", "idle", "writing", "named", "swept", "model", "failed"}
Showings == [run : Nat, step : ShowingSteps, left : SUBSET Cameras, sees : SUBSET Cameras,
             window : Seq(Nat)]
Callbacks == [step : {"idle", "images"}, run : Nat, frame : Nat, left : SUBSET Cameras]

PreviewTypeOK ==
    /\ live \in Showings
    /\ count \in [workers : Nat, frame : Nat, shown : Nat] /\ started \in Nat
    /\ \A f \in DOMAIN frames : f \in Nat /\ \A c \in DOMAIN frames[f] : frames[f][c] \in Nat
    /\ order \subseteq (DOMAIN frames) \X (DOMAIN frames)
    /\ latest \in [run : Nat, frame : Nat, sees : SUBSET Cameras]
    /\ telemetry = [images |-> telemetry.images, latest |-> telemetry.latest]
    /\ telemetry.latest \in ShownFrames /\ DOMAIN telemetry.images \subseteq Cameras
    /\ \A c \in DOMAIN telemetry.images : telemetry.images[c] \in ShownFrames
    /\ relay \in [meta : Callbacks, last : Nat, sent : SUBSET (Nat \X Nat)]
    /\ page \in [told : ShownFrames, image : ShownFrames, media : Seq(Nat)]

(* A worker is the latest; what is there is of it or of earlier ones.      *)
Past(x) == x.run < count.workers \/ (x.run = count.workers /\ x.frame <= count.shown)
NothingIsAhead ==
    /\ live.step # "off" => live.run = count.workers
    /\ latest.run <= count.workers /\ (Fresh => latest.frame <= count.frame)
    /\ Past(telemetry.latest) /\ Past(page.told)

(* What the worker has written of the frame it is at.                      *)
FrameIsInHand ==
    /\ live.step = "off" => live.window = <<>>
    /\ live.step = "writing" =>
          /\ live.left \subseteq live.sees /\ count.frame \in DOMAIN frames
          /\ \A c \in live.sees \ live.left :
                c \in DOMAIN frames[count.frame] /\ frames[count.frame][c] = live.run
    /\ live.step \in {"named", "swept"} =>
          /\ live.window # <<>> /\ live.window[Len(live.window)] = count.frame
          /\ latest.frame = count.frame

(* The window is in order, and nothing in it is older than what is not.    *)
WindowIsNewest ==
    /\ \A i, j \in DOMAIN live.window : i < j => live.window[i] < live.window[j]
    /\ \A i \in DOMAIN live.window :
          live.window[i] <= count.frame /\ (live.step = "writing" => live.window[i] < count.frame)
    /\ Len(live.window) <= IF live.step = "named" THEN KeepNewest + 1 ELSE KeepNewest
    /\ \A p \in order :
          /\ p[1] # p[2] /\ (live.step = "writing" => p[1] # count.frame)
          /\ \A i \in DOMAIN live.window : live.window[i] = p[1] =>
                \/ \E j \in DOMAIN live.window : live.window[j] = p[2]
                \/ live.step = "writing" /\ p[2] = count.frame

(* What the relay has still to publish is of the run it has read of.       *)
RelayReadsOn ==
    relay.meta.step = "images" =>
        /\ relay.meta.run = count.workers /\ relay.meta.frame <= count.frame
        /\ relay.meta.frame \in DOMAIN frames =>
              \A c \in relay.meta.left \cap DOMAIN frames[relay.meta.frame] :
                  frames[relay.meta.frame][c] = count.workers

(* The images of the telemetry are ahead of its numbers.                   *)
NotBefore(x, y) == x.run > y.run \/ (x.run = y.run /\ x.frame >= y.frame)
ImagesAreAhead ==
    /\ live.step # "off" => DOMAIN telemetry.images \subseteq live.sees
    /\ \A c \in DOMAIN telemetry.images :
          NotBefore(telemetry.images[c], telemetry.latest)
              /\ NotBefore(telemetry.images[c], page.told)

PreviewInv ==
    /\ PreviewTypeOK /\ PreviewsAreTrue
    /\ NothingIsAhead /\ FrameIsInHand /\ WindowIsNewest /\ RelayReadsOn /\ ImagesAreAhead

-----------------------------------------------------------------------------
(* "Sensor belongs to an earlier run" (livery_bridge.py:3090), "do not     *)
(* present stale frames as live" (:3210).  Does not hold: README section 5.*)
LiveIsOfThisRun == page.media # <<>> => page.media[1] = page.media[2]

(* "synchronized" inputs beside their outputs (live_telemetry.py:39).      *)
(* Does not hold: README section 5.                                        *)
EvidenceIsOneFrame == page.image # NoFrame => page.image = page.told
=============================================================================
