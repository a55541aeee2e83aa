----------------------- MODULE EvaluationControl_proofs -----------------------
(***************************************************************************)
(* Proofs about a worker in its world and the edits sent to it.  OwnedInv  *)
(* says what a worker has, what its journal says of it, and whose the      *)
(* numbers in both are; ControlInv adds where each command is.  Nothing is *)
(* assumed of how a worker ends, how often the simulator is restarted or   *)
(* what other clients do in between.                                       *)
(*                                                                         *)
(* What a step of a program may be is told once, by its place              *)
(* (ProgramShape, AtStep); each action then has a lemma for OwnedInv, and  *)
(* the steps of the control fall into those that move the world            *)
(* (WorldMoves) and those that are about the command in progress.          *)
(***************************************************************************)
EXTENDS EvaluationControl, TLAPS

-----------------------------------------------------------------------------
(* Programs: what their steps are and where.                               *)
KnownKinds == {"rig", "rule", "native"}

(* The calls of the three kinds of worker.                                 *)
LEMMA Programs ==
    /\ Program("rig") = <<"admit", "journal", "port", "settings", "spawn", "manager", "sense",
                          "loop">>
    /\ Program("rule") = <<"admit", "port", "load", "admit", "journal", "manager", "settings",
                           "spawn", "sense", "loop">>
    /\ Program("native") = <<"admit", "load", "journal", "settings", "spawn", "sense", "loop">>
    /\ JournalAt("rig") = 2 /\ JournalAt("rule") = 5 /\ JournalAt("native") = 3
    /\ Guarded("rig") = 4 /\ Guarded("rule") = 6 /\ Guarded("native") = 4
BY DEF Program, JournalAt, Guarded

(* A program begins its journal once, loads a world only before that, and  *)
(* creates actors, takes the port and sets the world only after it; its    *)
(* loop comes last.  A failure before the try finds no journal or, between *)
(* journal and try, nothing made.                                          *)
LEMMA ProgramShape ==
    ASSUME NEW kind \in KnownKinds
    PROVE  /\ Len(Program(kind)) \in Nat /\ JournalAt(kind) \in 1 .. Len(Program(kind)) - 1
           /\ Guarded(kind) \in JournalAt(kind) + 1 .. Len(Program(kind)) - 1
           /\ \A pc \in 1 .. Len(Program(kind)) :
                 /\ Program(kind)[pc] = "journal" <=> pc = JournalAt(kind)
                 /\ Program(kind)[pc] = "loop" <=> pc = Len(Program(kind))
                 /\ Program(kind)[pc] = "load" => pc < JournalAt(kind)
                 /\ Program(kind)[pc] \in {"settings", "spawn", "sense", "manager"} =>
                       pc > JournalAt(kind)
                 /\ Program(kind)[pc] \in {"manager", "spawn", "sense"} => pc >= Guarded(kind)
<1>1. CASE kind = "rig"
  <2>1. Len(Program(kind)) = 8 /\ JournalAt(kind) = 2 /\ Guarded(kind) = 4
    BY <1>1, Programs
  <2>2. /\ Program(kind)[1] = "admit"
        /\ Program(kind)[2] = "journal"
        /\ Program(kind)[3] = "port"
        /\ Program(kind)[4] = "settings"
        /\ Program(kind)[5] = "spawn"
        /\ Program(kind)[6] = "manager"
        /\ Program(kind)[7] = "sense"
        /\ Program(kind)[8] = "loop"
    BY <1>1, Programs
  <2>3. \A pc \in 1 .. 8 : pc \in {1, 2, 3, 4, 5, 6, 7, 8} OBVIOUS
  <2>4. ASSUME NEW pc \in 1 .. 8
        PROVE  /\ Program(kind)[pc] = "journal" <=> pc = 2
               /\ Program(kind)[pc] = "loop" <=> pc = 8
               /\ Program(kind)[pc] = "load" => pc < 2
               /\ Program(kind)[pc] \in {"settings", "spawn", "sense", "manager"} => pc > 2
               /\ Program(kind)[pc] \in {"manager", "spawn", "sense"} => pc >= 4
    BY <2>2, <2>3
  <2> QED BY <2>1, <2>4
<1>2. CASE kind = "rule"
  <2>1. Len(Program(kind)) = 10 /\ JournalAt(kind) = 5 /\ Guarded(kind) = 6
    BY <1>2, Programs
  <2>2. /\ Program(kind)[1] = "admit"
        /\ Program(kind)[2] = "port"
        /\ Program(kind)[3] = "load"
        /\ Program(kind)[4] = "admit"
        /\ Program(kind)[5] = "journal"
        /\ Program(kind)[6] = "manager"
        /\ Program(kind)[7] = "settings"
        /\ Program(kind)[8] = "spawn"
        /\ Program(kind)[9] = "sense"
        /\ Program(kind)[10] = "loop"
    BY <1>2, Programs
  <2>3. \A pc \in 1 .. 10 : pc \in {1, 2, 3, 4, 5, 6, 7, 8, 9, 10} OBVIOUS
  <2>4. ASSUME NEW pc \in 1 .. 10
        PROVE  /\ Program(kind)[pc] = "journal" <=> pc = 5
               /\ Program(kind)[pc] = "loop" <=> pc = 10
               /\ Program(kind)[pc] = "load" => pc < 5
               /\ Program(kind)[pc] \in {"settings", "spawn", "sense", "manager"} => pc > 5
               /\ Program(kind)[pc] \in {"manager", "spawn", "sense"} => pc >= 6
    BY <2>2, <2>3
  <2> QED BY <2>1, <2>4
<1>3. CASE kind = "native"
  <2>1. Len(Program(kind)) = 7 /\ JournalAt(kind) = 3 /\ Guarded(kind) = 4
    BY <1>3, Programs
  <2>2. /\ Program(kind)[1] = "admit"
        /\ Program(kind)[2] = "load"
        /\ Program(kind)[3] = "journal"
        /\ Program(kind)[4] = "settings"
        /\ Program(kind)[5] = "spawn"
        /\ Program(kind)[6] = "sense"
        /\ Program(kind)[7] = "loop"
    BY <1>3, Programs
  <2>3. \A pc \in 1 .. 7 : pc \in {1, 2, 3, 4, 5, 6, 7} OBVIOUS
  <2>4. ASSUME NEW pc \in 1 .. 7
        PROVE  /\ Program(kind)[pc] = "journal" <=> pc = 3
               /\ Program(kind)[pc] = "loop" <=> pc = 7
               /\ Program(kind)[pc] = "load" => pc < 3
               /\ Program(kind)[pc] \in {"settings", "spawn", "sense", "manager"} => pc > 3
               /\ Program(kind)[pc] \in {"manager", "spawn", "sense"} => pc >= 4
    BY <2>2, <2>3
  <2> QED BY <2>1, <2>4
<1> QED BY <1>1, <1>2, <1>3 DEF KnownKinds

(* The same of a worker at a step.                                         *)
LEMMA AtStep ==
    ASSUME OwnedTypeOK, NEW step, At(step)
    PROVE  /\ worker.pc \in 1 .. Len(Program(worker.kind)) /\ worker.fresh = 0
           /\ JournalAt(worker.kind) \in Nat
           /\ step = "journal" <=> worker.pc = JournalAt(worker.kind)
           /\ step = "loop" <=> worker.pc = Len(Program(worker.kind))
           /\ step = "load" => worker.pc < JournalAt(worker.kind)
           /\ step \in {"settings", "spawn", "sense", "manager"} =>
                 worker.pc > JournalAt(worker.kind)
           /\ step # "loop" => worker.pc + 1 <= Len(Program(worker.kind))
<1>1. worker.kind \in KnownKinds /\ worker.pc \in Nat /\ worker.pc <= Len(Program(worker.kind))
  BY DEF OwnedTypeOK, ProcessTypeOK, KnownKinds
<1>2. worker.pc # 0 /\ worker.fresh = 0 /\ step = Program(worker.kind)[worker.pc]
  BY DEF At
<1> QED BY <1>1, <1>2, ProgramShape

(* A worker whose start ends: it is gone, or it cleans up with its journal *)
(* active.                                                                 *)
LEMMA Raised ==
    ASSUME OwnedTypeOK, WorkerFollowsProgram, worker.pc # 0,
           NEW handles \in SUBSET Nat, Raise(handles)
    PROVE  \/ Exit
           \/ /\ journal.state = "active" /\ listener' = listener
              /\ worker' = [worker EXCEPT !.pc = 0, !.fresh = 0, !.cleaning = 1,
                                          !.handles = handles]
<1>1. CASE worker.pc < Guarded(worker.kind)
  BY <1>1 DEF Raise
<1>2. CASE ~(worker.pc < Guarded(worker.kind))
  <2>1. worker.kind \in KnownKinds /\ worker.pc \in Nat /\ worker.pc <= Len(Program(worker.kind))
    BY DEF OwnedTypeOK, ProcessTypeOK, KnownKinds
  <2>2. worker.pc > JournalAt(worker.kind) BY <1>2, <2>1, ProgramShape
  <2>3. journal.state = "active" BY <2>2 DEF WorkerFollowsProgram
  <2> QED BY <1>2, <2>3 DEF Raise
<1> QED BY <1>1, <1>2

(* A cleanup has four steps: dispatch has no others to reach.              *)
LEMMA CleanupLength == Len(Cleanup) = 4
BY DEF Cleanup

(* Records are of their types if their fields are.                         *)
AnActor == [id : Nat, sensor : BOOLEAN, by : {"scene", "worker", "outside", "user"}]

LEMMA WorldFields ==
    ASSUME NEW episode \in Nat, NEW sync \in BOOLEAN, NEW next \in Nat,
           NEW actors \in SUBSET AnActor,
           world' = [episode |-> episode, sync |-> sync, next |-> next, actors |-> actors]
    PROVE  WorldTypeOK'
BY DEF WorldTypeOK, AnActor

(* A process whose fields are of their types is a process.                 *)
LEMMA ProcessFields ==
    ASSUME NEW kind \in KnownKinds, NEW pc \in Nat, pc <= Len(Program(kind)),
           NEW fresh \in Nat, NEW handles \in SUBSET Nat, NEW manager \in BOOLEAN,
           NEW cleaning \in 0 .. 4, NEW lost \in BOOLEAN,
           worker' = [kind |-> kind, pc |-> pc, fresh |-> fresh, handles |-> handles,
                      manager |-> manager, cleaning |-> cleaning, lost |-> lost]
    PROVE  ProcessTypeOK'
BY CleanupLength DEF ProcessTypeOK, KnownKinds

(* The process that is not there, or has just been started.                *)
LEMMA NewProcessType ==
    ASSUME NEW kind \in KnownKinds, NEW pc \in {0, 1},
           worker' = [NoWorker EXCEPT !.kind = kind, !.pc = pc]
    PROVE  ProcessTypeOK'
<1>1. worker' = [kind |-> kind, pc |-> pc, fresh |-> 0, handles |-> {}, manager |-> FALSE,
                 cleaning |-> 0, lost |-> FALSE]
  BY DEF NoWorker
<1>2. pc <= Len(Program(kind))
  <2>1. JournalAt(kind) \in 1 .. Len(Program(kind)) - 1 /\ Len(Program(kind)) \in Nat
    BY ProgramShape
  <2> QED BY <2>1
<1>3. worker'.pc <= Len(Program(worker'.kind))
  <2>1. worker'.pc = pc /\ worker'.kind = kind BY <1>1
  <2> QED BY <1>2, <2>1
<1>4. [kind |-> kind, pc |-> pc, fresh |-> 0, handles |-> {}, manager |-> FALSE,
       cleaning |-> 0, lost |-> FALSE]
         \in [kind : KnownKinds, pc : Nat, fresh : Nat, handles : SUBSET Nat,
              manager : BOOLEAN, cleaning : 0 .. 4, lost : BOOLEAN]
  <2>1. pc \in Nat OBVIOUS
  <2> QED BY <2>1
<1> QED BY <1>1, <1>3, <1>4, CleanupLength DEF ProcessTypeOK, KnownKinds

(* The bounds of the model are numbers.                                    *)
LEMMA Bounds == MaxRuns \in Nat /\ MaxEpisodes \in Nat /\ MaxMishaps \in Nat
BY OwnedAssumption DEF OwnedAssumption

(* A step that counts a mishap, or none, stays within their number.        *)
LEMMA MishapIsCounted ==
    ASSUME OwnedTypeOK, Mishap \/ UNCHANGED mishaps
    PROVE  mishaps' \in 0 .. MaxMishaps
BY Bounds DEF OwnedTypeOK, Mishap

(* A world that has just been loaded.                                      *)
LEMMA LoadedWorld ==
    ASSUME NEW episode \in Nat, NEW first \in Nat, first > 0, NEW n \in Nat,
           world' = NewWorld(episode, first, n)
    PROVE  /\ WorldTypeOK' /\ NumbersAreSpent'
           /\ world'.episode = episode /\ world'.sync = FALSE /\ world'.next = first + n
           /\ \A a \in world'.actors : a.id >= first /\ a.by = "scene"
<1>1. world' = [episode |-> episode, sync |-> FALSE, next |-> first + n,
                actors |-> {Actor(id, FALSE, "scene") : id \in first .. first + n - 1}]
  BY DEF NewWorld
<1>2. ASSUME NEW a \in world'.actors
      PROVE  /\ a \in [id : Nat, sensor : BOOLEAN, by : {"scene", "worker", "outside", "user"}]
             /\ a.id \in first .. first + n - 1 /\ a.by = "scene"
  <2>1. PICK id \in first .. first + n - 1 : a = [id |-> id, sensor |-> FALSE, by |-> "scene"]
    BY <1>1 DEF Actor
  <2>2. id \in Nat OBVIOUS
  <2> QED BY <2>1, <2>2
<1>3. first + n \in Nat OBVIOUS
<1>4. WorldTypeOK'
  <2>1. {Actor(id, FALSE, "scene") : id \in first .. first + n - 1} \in SUBSET AnActor
    <3>1. \A id \in first .. first + n - 1 : id \in Nat OBVIOUS
    <3>2. ASSUME NEW id \in Nat PROVE Actor(id, FALSE, "scene") \in AnActor
      BY DEF Actor, AnActor
    <3> QED BY <3>1, <3>2
  <2> QED BY <1>1, <1>3, <2>1, WorldFields DEF AnActor
<1>5. world'.next = first + n /\ world'.episode = episode /\ world'.sync = FALSE BY <1>1
<1>6. ASSUME NEW a \in world'.actors
      PROVE  a.id \in 1 .. world'.next - 1 /\ a.id >= first
  BY <1>2, <1>5
<1>7. NumbersAreSpent'
  BY <1>3, <1>5, <1>6 DEF NumbersAreSpent
<1> QED BY <1>2, <1>4, <1>5, <1>6, <1>7

(* One more actor.                                                         *)
LEMMA CreatedActor ==
    ASSUME WorldTypeOK, NumbersAreSpent, NEW sensor \in BOOLEAN,
           NEW by \in {"scene", "worker", "outside", "user"},
           world' = [world EXCEPT !.actors = @ \cup {Actor(world.next, sensor, by)},
                                  !.next = @ + 1]
    PROVE  /\ WorldTypeOK' /\ NumbersAreSpent'
           /\ world'.episode = world.episode /\ world'.sync = world.sync
           /\ world'.next = world.next + 1
           /\ world'.actors = world.actors \cup {Actor(world.next, sensor, by)}
           /\ \A a \in world'.actors :
                 a \in world.actors \/ (a.id = world.next /\ a.by = by)
           /\ \A a \in world.actors : a.id < world.next
<1>1. /\ world'.episode = world.episode /\ world'.sync = world.sync
      /\ world'.next = world.next + 1
      /\ world'.actors = world.actors \cup {Actor(world.next, sensor, by)}
  BY DEF WorldTypeOK
<1>2. Actor(world.next, sensor, by) \in AnActor BY DEF WorldTypeOK, Actor, AnActor
<1>3. WorldTypeOK'
  <2>1. world.actors \cup {Actor(world.next, sensor, by)} \in SUBSET AnActor
    BY <1>2 DEF WorldTypeOK, AnActor
  <2>2. world' = [episode |-> world.episode, sync |-> world.sync, next |-> world.next + 1,
                  actors |-> world.actors \cup {Actor(world.next, sensor, by)}]
    BY DEF WorldTypeOK
  <2>3. world.episode \in Nat /\ world.sync \in BOOLEAN /\ world.next + 1 \in Nat
    BY DEF WorldTypeOK
  <2> QED BY <2>1, <2>2, <2>3, WorldFields
<1>4. \A a \in world'.actors : a \in world.actors \/ (a.id = world.next /\ a.by = by)
  BY <1>1 DEF Actor
<1>5. /\ world.next \in Nat /\ world.next > 0
      /\ \A a \in world.actors : a.id \in Nat /\ a.id < world.next /\ a.id >= 1
  BY DEF WorldTypeOK, NumbersAreSpent
<1>6. NumbersAreSpent'
  BY <1>1, <1>4, <1>5 DEF NumbersAreSpent
<1> QED BY <1>1, <1>3, <1>4, <1>5, <1>6

(* A process that goes on, and one that cleans up.                         *)
LEMMA ProcessGoesOn ==
    ASSUME ProcessTypeOK, NEW pc \in Nat, pc <= Len(Program(worker.kind)), NEW fresh \in Nat,
           NEW handles \in SUBSET Nat, NEW manager \in BOOLEAN, NEW cleaning \in 0 .. 4,
           NEW lost \in BOOLEAN,
           worker' = [worker EXCEPT !.pc = pc, !.fresh = fresh, !.handles = handles,
                                    !.manager = manager, !.cleaning = cleaning, !.lost = lost]
    PROVE  /\ ProcessTypeOK'
           /\ worker'.kind = worker.kind /\ worker'.pc = pc /\ worker'.fresh = fresh
           /\ worker'.handles = handles /\ worker'.manager = manager
           /\ worker'.cleaning = cleaning /\ worker'.lost = lost
<1>1. worker' = [kind |-> worker.kind, pc |-> pc, fresh |-> fresh, handles |-> handles,
                 manager |-> manager, cleaning |-> cleaning, lost |-> lost]
  BY DEF ProcessTypeOK
<1>2. worker.kind \in KnownKinds BY DEF ProcessTypeOK, KnownKinds
<1>3. ProcessTypeOK' BY <1>1, <1>2, ProcessFields
<1> QED BY <1>1, <1>3

(* The next call of the program.                                           *)
LEMMA ProcessGoesOnward ==
    ASSUME ProcessTypeOK, worker.pc + 1 <= Len(Program(worker.kind)), worker' = Onward
    PROVE  /\ ProcessTypeOK'
           /\ worker'.kind = worker.kind /\ worker'.pc = worker.pc + 1
           /\ worker'.fresh = worker.fresh /\ worker'.handles = worker.handles
           /\ worker'.manager = worker.manager
           /\ worker'.cleaning = worker.cleaning /\ worker'.lost = worker.lost
<1>1. worker' = [kind |-> worker.kind, pc |-> worker.pc + 1, fresh |-> worker.fresh,
                 handles |-> worker.handles, manager |-> worker.manager,
                 cleaning |-> worker.cleaning, lost |-> worker.lost]
  BY DEF Onward, ProcessTypeOK
<1>2. /\ worker.pc + 1 \in Nat /\ worker.fresh \in Nat /\ worker.handles \in SUBSET Nat
      /\ worker.manager \in BOOLEAN /\ worker.cleaning \in 0 .. 4 /\ worker.lost \in BOOLEAN
      /\ worker.kind \in KnownKinds
  BY CleanupLength DEF ProcessTypeOK, KnownKinds
<1>3. ProcessTypeOK' BY <1>1, <1>2, ProcessFields
<1> QED BY <1>1, <1>3

(* The process is gone.                                                    *)
LEMMA NoProcess ==
    ASSUME worker' = NoWorker
    PROVE  /\ ProcessTypeOK' /\ worker'.pc = 0 /\ worker'.fresh = 0 /\ worker'.handles = {}
           /\ worker'.manager = FALSE /\ worker'.cleaning = 0 /\ worker'.lost = FALSE
<1>1. worker' = [kind |-> "rig", pc |-> 0, fresh |-> 0, handles |-> {}, manager |-> FALSE,
                 cleaning |-> 0, lost |-> FALSE]
  BY DEF NoWorker
<1>2. [kind |-> "rig", pc |-> 0, fresh |-> 0, handles |-> {}, manager |-> FALSE,
       cleaning |-> 0, lost |-> FALSE]
         \in [kind : KnownKinds, pc : Nat, fresh : Nat, handles : SUBSET Nat,
              manager : BOOLEAN, cleaning : 0 .. 4, lost : BOOLEAN]
  BY DEF KnownKinds
<1>3. worker'.pc <= Len(Program(worker'.kind))
  <2>1. worker'.pc = 0 /\ worker'.kind \in KnownKinds BY <1>1 DEF KnownKinds
  <2>2. Len(Program(worker'.kind)) \in Nat BY <2>1, ProgramShape
  <2> QED BY <2>1, <2>2
<1> QED BY <1>1, <1>2, <1>3, CleanupLength DEF ProcessTypeOK, KnownKinds

(* A type that says it in one piece.                                       *)
LEMMA TypeParts ==
    ASSUME OwnedTypeOK
    PROVE  /\ WorldTypeOK /\ ProcessTypeOK /\ BridgeTypeOK
           /\ world.episode \in Nat /\ world.next \in Nat /\ world.sync \in BOOLEAN
           /\ world.actors \in SUBSET AnActor
           /\ worker.kind \in KnownKinds /\ worker.pc \in Nat /\ worker.fresh \in Nat
           /\ worker.handles \in SUBSET Nat /\ worker.manager \in BOOLEAN
           /\ worker.cleaning \in 0 .. 4 /\ worker.lost \in BOOLEAN
           /\ worker.pc <= Len(Program(worker.kind))
           /\ journal.episode \in Nat /\ journal.baseline \in SUBSET Nat
           /\ journal.rows \in SUBSET Nat /\ journal.manager \in BOOLEAN
           /\ journal.state \in {"absent", "torn", "active", "recovered"}
           /\ session.run \in 0 .. MaxRuns /\ session.state \in {"settled", "running", "recovering"}
           /\ session.task \in {"none", "restore", "observe"}
           /\ JournalAt(worker.kind) \in Nat /\ JournalAt(worker.kind) >= 1
           /\ Len(Program(worker.kind)) \in Nat
           /\ JournalAt(worker.kind) < Len(Program(worker.kind))
<1>1. worker.kind \in KnownKinds BY DEF OwnedTypeOK, ProcessTypeOK, KnownKinds
<1>2. /\ JournalAt(worker.kind) \in 1 .. Len(Program(worker.kind)) - 1
      /\ Len(Program(worker.kind)) \in Nat
  BY <1>1, ProgramShape
<1>3. /\ world.episode \in Nat /\ world.next \in Nat /\ world.sync \in BOOLEAN
      /\ world.actors \in SUBSET AnActor
  BY DEF OwnedTypeOK, WorldTypeOK, AnActor
<1>4. /\ worker.pc \in Nat /\ worker.fresh \in Nat
      /\ worker.handles \in SUBSET Nat /\ worker.manager \in BOOLEAN
      /\ worker.cleaning \in 0 .. 4 /\ worker.lost \in BOOLEAN
      /\ worker.pc <= Len(Program(worker.kind))
  BY CleanupLength DEF OwnedTypeOK, ProcessTypeOK
<1>5. /\ journal.episode \in Nat /\ journal.baseline \in SUBSET Nat
      /\ journal.rows \in SUBSET Nat /\ journal.manager \in BOOLEAN
      /\ journal.state \in {"absent", "torn", "active", "recovered"}
      /\ session.run \in 0 .. MaxRuns /\ session.state \in {"settled", "running", "recovering"}
      /\ session.task \in {"none", "restore", "observe"}
  BY DEF OwnedTypeOK, BridgeTypeOK
<1>6. WorldTypeOK /\ ProcessTypeOK /\ BridgeTypeOK BY DEF OwnedTypeOK
<1>7. JournalAt(worker.kind) \in Nat /\ JournalAt(worker.kind) >= 1
      /\ JournalAt(worker.kind) < Len(Program(worker.kind))
  BY <1>2
<1> QED BY <1>1, <1>2, <1>3, <1>4, <1>5, <1>6, <1>7

(* What the lemmas about the steps use of it.                              *)
OwnedParts ==
    /\ WorldTypeOK /\ ProcessTypeOK /\ BridgeTypeOK
    /\ world.episode \in Nat /\ world.next \in Nat /\ world.sync \in BOOLEAN
    /\ worker.kind \in KnownKinds /\ worker.pc \in Nat /\ worker.fresh \in Nat
    /\ worker.handles \in SUBSET Nat /\ worker.manager \in BOOLEAN
    /\ worker.cleaning \in 0 .. 4 /\ worker.lost \in BOOLEAN
    /\ worker.pc <= Len(Program(worker.kind))
    /\ journal.episode \in Nat /\ journal.baseline \in SUBSET Nat
    /\ journal.rows \in SUBSET Nat /\ journal.manager \in BOOLEAN
    /\ journal.state \in {"absent", "torn", "active", "recovered"}
    /\ session.state \in {"settled", "running", "recovering"}
    /\ session.task \in {"none", "restore", "observe"}
    /\ JournalAt(worker.kind) \in Nat /\ JournalAt(worker.kind) >= 1
    /\ Len(Program(worker.kind)) \in Nat
    /\ listener \in {"none", "worker", "outside"} /\ mishaps \in 0 .. MaxMishaps

(* The lemmas about the steps take the types of the fields from here.      *)
LEMMA PartsHold == OwnedTypeOK => OwnedParts
BY TypeParts DEF OwnedParts, OwnedTypeOK

(* A world that is admitted stays as it is.                                *)
LEMMA AdmitKeeps ==
    ASSUME OwnedInv, Admit
    PROVE  OwnedInv'
<1> USE DEF OwnedInv, OwnedParts
<1>0. OwnedParts BY PartsHold
<1>a. PICK step \in {"admit"} : At(step) BY DEF Admit
<1>b. /\ worker.pc # 0 /\ worker.fresh = 0
      /\ step = "journal" <=> worker.pc = JournalAt(worker.kind)
      /\ step = "load" => worker.pc < JournalAt(worker.kind)
      /\ step \in {"settings", "spawn", "sense", "manager"} => worker.pc > JournalAt(worker.kind)
      /\ worker.pc + 1 <= Len(Program(worker.kind))
  BY <1>a, AtStep
<1>v. /\ ProcessTypeOK'
      /\ worker'.kind = worker.kind /\ worker'.pc = worker.pc + 1 /\ worker'.fresh = 0
      /\ worker'.handles = worker.handles /\ worker'.manager = worker.manager
      /\ worker'.cleaning = worker.cleaning /\ worker'.lost = worker.lost
  <2>1. worker' = Onward BY DEF Admit
  <2> QED BY <1>0, <1>b, <2>1, ProcessGoesOnward
<1>w. UNCHANGED <<world, listener, journal, session, mishaps>> BY DEF Admit
<1>1. OwnedTypeOK'
  <2>1. WorldTypeOK' BY <1>0, <1>w DEF WorldTypeOK
  <2>2. ProcessTypeOK' BY <1>v
  <2>3. BridgeTypeOK' BY <1>0, <1>w DEF BridgeTypeOK
  <2>4. listener' \in {"none", "worker", "outside"} /\ mishaps' \in 0 .. MaxMishaps
    BY <1>0, <1>w DEF OwnedTypeOK
  <2> QED BY <2>1, <2>2, <2>3, <2>4 DEF OwnedTypeOK
<1>2. WorkerFollowsProgram'
  BY <1>0, <1>a, <1>b, <1>v, <1>w DEF WorkerFollowsProgram, Alive
<1>3. NumbersAreSpent'
  BY <1>0, <1>a, <1>b, <1>v, <1>w DEF NumbersAreSpent
<1>4. NumbersAreOwn'
  BY <1>0, <1>a, <1>b, <1>v, <1>w
    DEF WorkerFollowsProgram, NumbersAreSpent, NumbersAreOwn, JournalIsOfItsWorld,
        WorkerIsTraced, Alive, Connected, SameWorld, Readable
<1>5. JournalIsOfItsWorld'
  BY <1>0, <1>a, <1>b, <1>v, <1>w
    DEF WorkerFollowsProgram, JournalIsOfItsWorld, Alive, Connected, SameWorld, Readable
<1>6. WorkerIsTraced'
  BY <1>0, <1>a, <1>b, <1>v, <1>w
    DEF WorkerFollowsProgram, NumbersAreSpent, NumbersAreOwn, JournalIsOfItsWorld,
        WorkerIsTraced, Alive, Connected, SameWorld, Readable
<1>7. WorldIsGivenBack'
  BY <1>0, <1>a, <1>b, <1>v, <1>w
    DEF WorkerFollowsProgram, WorkerIsTraced, WorldIsGivenBack, SettledIsClean,
        ManagerIsOwn, Alive
<1> QED BY <1>1, <1>2, <1>3, <1>4, <1>5, <1>6, <1>7

(* So does a free port.                                                    *)
LEMMA CheckPortKeeps ==
    ASSUME OwnedInv, CheckPort
    PROVE  OwnedInv'
<1> USE DEF OwnedInv, OwnedParts
<1>0. OwnedParts BY PartsHold
<1>a. PICK step \in {"port"} : At(step) BY DEF CheckPort
<1>b. /\ worker.pc # 0 /\ worker.fresh = 0
      /\ step = "journal" <=> worker.pc = JournalAt(worker.kind)
      /\ step = "load" => worker.pc < JournalAt(worker.kind)
      /\ step \in {"settings", "spawn", "sense", "manager"} => worker.pc > JournalAt(worker.kind)
      /\ worker.pc + 1 <= Len(Program(worker.kind))
  BY <1>a, AtStep
<1>v. /\ ProcessTypeOK'
      /\ worker'.kind = worker.kind /\ worker'.pc = worker.pc + 1 /\ worker'.fresh = 0
      /\ worker'.handles = worker.handles /\ worker'.manager = worker.manager
      /\ worker'.cleaning = worker.cleaning /\ worker'.lost = worker.lost
  <2>1. worker' = Onward BY DEF CheckPort
  <2> QED BY <1>0, <1>b, <2>1, ProcessGoesOnward
<1>w. UNCHANGED <<world, listener, journal, session, mishaps>> BY DEF CheckPort
<1>1. OwnedTypeOK'
  <2>1. WorldTypeOK' BY <1>0, <1>w DEF WorldTypeOK
  <2>2. ProcessTypeOK' BY <1>v
  <2>3. BridgeTypeOK' BY <1>0, <1>w DEF BridgeTypeOK
  <2>4. listener' \in {"none", "worker", "outside"} /\ mishaps' \in 0 .. MaxMishaps
    BY <1>0, <1>w DEF OwnedTypeOK
  <2> QED BY <2>1, <2>2, <2>3, <2>4 DEF OwnedTypeOK
<1>2. WorkerFollowsProgram'
  BY <1>0, <1>a, <1>b, <1>v, <1>w DEF WorkerFollowsProgram, Alive
<1>3. NumbersAreSpent'
  BY <1>0, <1>a, <1>b, <1>v, <1>w DEF NumbersAreSpent
<1>4. NumbersAreOwn'
  BY <1>0, <1>a, <1>b, <1>v, <1>w
    DEF WorkerFollowsProgram, NumbersAreSpent, NumbersAreOwn, JournalIsOfItsWorld,
        WorkerIsTraced, Alive, Connected, SameWorld, Readable
<1>5. JournalIsOfItsWorld'
  BY <1>0, <1>a, <1>b, <1>v, <1>w
    DEF WorkerFollowsProgram, JournalIsOfItsWorld, Alive, Connected, SameWorld, Readable
<1>6. WorkerIsTraced'
  BY <1>0, <1>a, <1>b, <1>v, <1>w
    DEF WorkerFollowsProgram, NumbersAreSpent, NumbersAreOwn, JournalIsOfItsWorld,
        WorkerIsTraced, Alive, Connected, SameWorld, Readable
<1>7. WorldIsGivenBack'
  BY <1>0, <1>a, <1>b, <1>v, <1>w
    DEF WorkerFollowsProgram, WorkerIsTraced, WorldIsGivenBack, SettledIsClean,
        ManagerIsOwn, Alive
<1> QED BY <1>1, <1>2, <1>3, <1>4, <1>5, <1>6, <1>7

(* A world is loaded before the journal is begun.                          *)
LEMMA LoadWorldKeeps ==
    ASSUME OwnedInv, LoadWorld
    PROVE  OwnedInv'
<1> USE DEF OwnedInv, OwnedParts
<1>0. OwnedParts BY PartsHold
<1>a. PICK step \in {"load"} : At(step) BY DEF LoadWorld
<1>b. /\ worker.pc # 0 /\ worker.fresh = 0
      /\ step = "journal" <=> worker.pc = JournalAt(worker.kind)
      /\ step = "load" => worker.pc < JournalAt(worker.kind)
      /\ step \in {"settings", "spawn", "sense", "manager"} => worker.pc > JournalAt(worker.kind)
      /\ worker.pc + 1 <= Len(Program(worker.kind))
  BY <1>a, AtStep
<1>v. /\ ProcessTypeOK'
      /\ worker'.kind = worker.kind /\ worker'.pc = worker.pc + 1 /\ worker'.fresh = 0
      /\ worker'.handles = worker.handles /\ worker'.manager = worker.manager
      /\ worker'.cleaning = worker.cleaning /\ worker'.lost = worker.lost
  <2>1. worker' = Onward BY DEF LoadWorld
  <2> QED BY <1>0, <1>b, <2>1, ProcessGoesOnward
<1>w. UNCHANGED <<listener, journal, session, mishaps>> BY DEF LoadWorld
<1>n. \/ world' = world
      \/ /\ WorldTypeOK' /\ NumbersAreSpent' /\ world'.next = world.next + 1
         /\ world'.episode = world.episode + 1 /\ world'.sync = FALSE
         /\ \A a \in world'.actors : a.id >= world.next /\ a.by = "scene"
  <2>1. CASE world' = NewWorld(world.episode + 1, world.next, 1)
    <3>1. world.episode + 1 \in Nat /\ world.next \in Nat /\ world.next > 0
      BY <1>0 DEF NumbersAreSpent
    <3> QED BY <2>1, <3>1, LoadedWorld
  <2> QED BY <2>1 DEF LoadWorld
<1>1. OwnedTypeOK'
  <2>1. WorldTypeOK' BY <1>0, <1>n DEF WorldTypeOK
  <2>2. ProcessTypeOK' BY <1>v
  <2>3. BridgeTypeOK' BY <1>0, <1>w DEF BridgeTypeOK
  <2>4. listener' \in {"none", "worker", "outside"} /\ mishaps' \in 0 .. MaxMishaps
    BY <1>0, <1>w DEF OwnedTypeOK
  <2> QED BY <2>1, <2>2, <2>3, <2>4 DEF OwnedTypeOK
<1>2. WorkerFollowsProgram'
  BY <1>0, <1>a, <1>b, <1>v, <1>w, <1>n DEF WorkerFollowsProgram, Alive, NoJournal
<1>3. NumbersAreSpent'
  BY <1>0, <1>a, <1>b, <1>v, <1>w, <1>n DEF NumbersAreSpent, NoJournal
<1>4. NumbersAreOwn'
  BY <1>0, <1>a, <1>b, <1>v, <1>w, <1>n
    DEF WorkerFollowsProgram, NumbersAreSpent, NumbersAreOwn, JournalIsOfItsWorld,
        WorkerIsTraced, Alive, Connected, SameWorld, Readable, NoJournal
<1>5. JournalIsOfItsWorld'
  BY <1>0, <1>a, <1>b, <1>v, <1>w, <1>n
    DEF WorkerFollowsProgram, JournalIsOfItsWorld, Alive, Connected, SameWorld, Readable,
        NoJournal
<1>6. WorkerIsTraced'
  BY <1>0, <1>a, <1>b, <1>v, <1>w, <1>n
    DEF WorkerFollowsProgram, NumbersAreSpent, NumbersAreOwn, JournalIsOfItsWorld,
        WorkerIsTraced, Alive, Connected, SameWorld, Readable, NoJournal
<1>7. WorldIsGivenBack'
  BY <1>0, <1>a, <1>b, <1>v, <1>w, <1>n
    DEF WorkerFollowsProgram, WorkerIsTraced, WorldIsGivenBack, SettledIsClean,
        ManagerIsOwn, Alive, NoJournal
<1> QED BY <1>1, <1>2, <1>3, <1>4, <1>5, <1>6, <1>7

(* Nothing in the baseline of a journal that is written is a worker's.     *)
LEMMA WholeJournalKeeps ==
    ASSUME OwnedInv, At("journal"), Connected, worker' = Onward,
           journal' = [NoJournal EXCEPT !.state = "active", !.episode = world.episode,
                                        !.baseline = Ids(world.actors)],
           UNCHANGED <<world, listener, session, mishaps>>
    PROVE  OwnedInv'
<1> USE DEF OwnedInv, OwnedParts
<1>0. OwnedParts BY PartsHold
<1>a. PICK step \in {"journal"} : At(step) OBVIOUS
<1>b. /\ worker.pc # 0 /\ worker.fresh = 0
      /\ step = "journal" <=> worker.pc = JournalAt(worker.kind)
      /\ step = "load" => worker.pc < JournalAt(worker.kind)
      /\ step \in {"settings", "spawn", "sense", "manager"} => worker.pc > JournalAt(worker.kind)
      /\ worker.pc + 1 <= Len(Program(worker.kind))
  BY <1>a, AtStep
<1>v. /\ ProcessTypeOK'
      /\ worker'.kind = worker.kind /\ worker'.pc = worker.pc + 1 /\ worker'.fresh = 0
      /\ worker'.handles = worker.handles /\ worker'.manager = worker.manager
      /\ worker'.cleaning = worker.cleaning /\ worker'.lost = worker.lost
  <2>1. worker' = Onward OBVIOUS
  <2> QED BY <1>0, <1>b, <2>1, ProcessGoesOnward
<1>w. UNCHANGED <<world, listener, session, mishaps>> OBVIOUS
<1>j. /\ journal'.episode = world.episode /\ journal'.baseline = Ids(world.actors)
      /\ journal'.rows = {} /\ journal'.manager = FALSE /\ journal'.state = "active"
  BY DEF NoJournal
<1>c. Connected /\ journal = NoJournal /\ worker.handles = {} /\ Alive
  BY <1>a, <1>b, <1>0 DEF WorkerFollowsProgram, Alive
<1>i. \A a \in world.actors : a.by # "worker" BY <1>c DEF WorkerIsTraced, NoJournal
<1>k. \A h \in Ids(world.actors) : h < world.next /\ \A a \in world.actors : a.id = h => a.by # "worker"
  BY <1>0, <1>i DEF Ids, NumbersAreSpent, WorldTypeOK
<1>1. OwnedTypeOK'
  <2>1. WorldTypeOK' BY <1>0, <1>w DEF WorldTypeOK
  <2>2. ProcessTypeOK' BY <1>v
  <2>3. BridgeTypeOK' 
    <3>1. Ids(world.actors) \in SUBSET Nat BY <1>0 DEF Ids, WorldTypeOK
    <3>2. journal' = [episode |-> world.episode, baseline |-> Ids(world.actors), rows |-> {},
                      manager |-> FALSE, state |-> "active"]
      BY DEF NoJournal
    <3>3. [episode |-> world.episode, baseline |-> Ids(world.actors), rows |-> {},
           manager |-> FALSE, state |-> "active"]
             \in [episode : Nat, baseline : SUBSET Nat, rows : SUBSET Nat,
                  manager : BOOLEAN, state : {"absent", "torn", "active", "recovered"}]
      BY <1>0, <3>1
    <3> QED BY <1>0, <1>w, <3>2, <3>3 DEF BridgeTypeOK
  <2>4. listener' \in {"none", "worker", "outside"} /\ mishaps' \in 0 .. MaxMishaps
    BY <1>0, <1>w DEF OwnedTypeOK
  <2> QED BY <2>1, <2>2, <2>3, <2>4 DEF OwnedTypeOK
<1>2. WorkerFollowsProgram'
  BY <1>0, <1>a, <1>b, <1>v, <1>w, <1>j, <1>c, <1>i, <1>k
    DEF WorkerFollowsProgram, Alive
<1>3. NumbersAreSpent'
  BY <1>0, <1>a, <1>b, <1>v, <1>w, <1>j, <1>c, <1>i, <1>k DEF NumbersAreSpent
<1>4. NumbersAreOwn'
  BY <1>0, <1>a, <1>b, <1>v, <1>w, <1>j, <1>c, <1>i, <1>k
    DEF WorkerFollowsProgram, NumbersAreSpent, NumbersAreOwn, JournalIsOfItsWorld,
        WorkerIsTraced, Alive, Connected, SameWorld, Readable
<1>5. JournalIsOfItsWorld'
  BY <1>0, <1>a, <1>b, <1>v, <1>w, <1>j, <1>c, <1>i, <1>k
    DEF WorkerFollowsProgram, JournalIsOfItsWorld, Alive, Connected, SameWorld, Readable
<1>6. WorkerIsTraced'
  BY <1>0, <1>a, <1>b, <1>v, <1>w, <1>j, <1>c, <1>i, <1>k
    DEF WorkerFollowsProgram, NumbersAreSpent, NumbersAreOwn, JournalIsOfItsWorld,
        WorkerIsTraced, Alive, Connected, SameWorld, Readable
<1>7. WorldIsGivenBack'
  BY <1>0, <1>a, <1>b, <1>v, <1>w, <1>j, <1>c, <1>i, <1>k
    DEF WorkerFollowsProgram, WorkerIsTraced, WorldIsGivenBack, SettledIsClean,
        ManagerIsOwn, Alive
<1> QED BY <1>1, <1>2, <1>3, <1>4, <1>5, <1>6, <1>7

(* A journal that is torn ends the process, which has made nothing yet.    *)
LEMMA TornJournalKeeps ==
    ASSUME OwnedInv, At("journal"), Exit, mishaps' \in 0 .. MaxMishaps,
           journal' = [NoJournal EXCEPT !.state = "torn"], UNCHANGED <<world, session>>
    PROVE  OwnedInv'
<1> USE DEF OwnedInv, OwnedParts
<1>0. OwnedParts BY PartsHold
<1>a. PICK step \in {"journal"} : At(step) OBVIOUS
<1>b. worker.pc # 0 /\ worker.pc = JournalAt(worker.kind) BY <1>a, AtStep
<1>c. journal = NoJournal BY <1>0, <1>b DEF WorkerFollowsProgram
<1>i. \A a \in world.actors : a.by # "worker" BY <1>c DEF WorkerIsTraced, NoJournal
<1>w. UNCHANGED <<world, session>> /\ mishaps' \in 0 .. MaxMishaps OBVIOUS
<1>v. /\ ProcessTypeOK' /\ worker' = NoWorker
      /\ worker'.pc = 0 /\ worker'.fresh = 0 /\ worker'.handles = {} /\ worker'.manager = FALSE
      /\ worker'.cleaning = 0 /\ JournalAt(worker'.kind) = 2
  BY NoProcess, Programs DEF Exit, NoWorker
<1>j. /\ journal'.episode = 0 /\ journal'.baseline = {} /\ journal'.rows = {}
      /\ journal'.manager = FALSE /\ journal'.state = "torn"
  BY DEF NoJournal
<1>n. ~Readable' /\ ~SameWorld' /\ ~Alive' BY <1>j, <1>v DEF Readable, SameWorld, Alive
<1>1. OwnedTypeOK'
  <2>1. WorldTypeOK' BY <1>0, <1>w DEF WorldTypeOK
  <2>2. ProcessTypeOK' BY <1>v
  <2>3. BridgeTypeOK'
    <3>1. journal' = [episode |-> 0, baseline |-> {}, rows |-> {}, manager |-> FALSE,
                      state |-> "torn"]
      BY DEF NoJournal
    <3>2. [episode |-> 0, baseline |-> {}, rows |-> {}, manager |-> FALSE, state |-> "torn"]
             \in [episode : Nat, baseline : SUBSET Nat, rows : SUBSET Nat,
                  manager : BOOLEAN, state : {"absent", "torn", "active", "recovered"}]
      OBVIOUS
    <3> QED BY <1>0, <1>w, <3>1, <3>2 DEF BridgeTypeOK
  <2>4. listener' \in {"none", "worker", "outside"} /\ mishaps' \in 0 .. MaxMishaps
    BY <1>0, <1>w DEF Exit
  <2> QED BY <2>1, <2>2, <2>3, <2>4 DEF OwnedTypeOK
<1>2. WorkerFollowsProgram'
  <2>1. ~(worker'.pc > JournalAt(worker'.kind)) BY <1>v
  <2> QED BY <1>n, <1>v, <2>1 DEF WorkerFollowsProgram, NoWorker
<1>3. NumbersAreSpent' BY <1>0, <1>w DEF NumbersAreSpent
<1>4. NumbersAreOwn' BY <1>n DEF NumbersAreOwn
<1>5. JournalIsOfItsWorld'
  <2>1. world.episode \in Nat BY <1>0 DEF WorldTypeOK
  <2> QED BY <1>n, <1>j, <1>w, <2>1 DEF JournalIsOfItsWorld
<1>6. WorkerIsTraced' BY <1>0, <1>i, <1>w DEF WorkerIsTraced
<1>7. WorldIsGivenBack'
  BY <1>0, <1>i, <1>w, <1>v DEF WorldIsGivenBack, SettledIsClean, ManagerIsOwn
<1> QED BY <1>1, <1>2, <1>3, <1>4, <1>5, <1>6, <1>7

(* A journal is begun, whole or torn.                                      *)
LEMMA BeginJournalKeeps ==
    ASSUME OwnedInv, BeginJournal
    PROVE  OwnedInv'
<1>1. CASE /\ worker' = Onward /\ UNCHANGED <<listener, mishaps>>
           /\ journal' = [NoJournal EXCEPT !.state = "active", !.episode = world.episode,
                                           !.baseline = Ids(world.actors)]
  BY <1>1, WholeJournalKeeps DEF BeginJournal
<1>2. CASE Mishap /\ Exit /\ journal' = [NoJournal EXCEPT !.state = "torn"]
  <2>1. mishaps' \in 0 .. MaxMishaps BY <1>2, MishapIsCounted DEF OwnedInv
  <2> QED BY <1>2, <2>1, TornJournalKeeps DEF BeginJournal
<1> QED BY <1>1, <1>2 DEF BeginJournal

(* The settings change while the run is under way.                         *)
LEMMA SynchronizeKeeps ==
    ASSUME OwnedInv, Synchronize
    PROVE  OwnedInv'
<1> USE DEF OwnedInv, OwnedParts
<1>0. OwnedParts BY PartsHold
<1>a. PICK step \in {"settings"} : At(step) BY DEF Synchronize
<1>b. /\ worker.pc # 0 /\ worker.fresh = 0
      /\ step = "journal" <=> worker.pc = JournalAt(worker.kind)
      /\ step = "load" => worker.pc < JournalAt(worker.kind)
      /\ step \in {"settings", "spawn", "sense", "manager"} => worker.pc > JournalAt(worker.kind)
      /\ worker.pc + 1 <= Len(Program(worker.kind))
  BY <1>a, AtStep
<1>v. /\ ProcessTypeOK'
      /\ worker'.kind = worker.kind /\ worker'.pc = worker.pc + 1 /\ worker'.fresh = 0
      /\ worker'.handles = worker.handles /\ worker'.manager = worker.manager
      /\ worker'.cleaning = worker.cleaning /\ worker'.lost = worker.lost
  <2>1. worker' = Onward BY DEF Synchronize
  <2> QED BY <1>0, <1>b, <2>1, ProcessGoesOnward
<1>w. UNCHANGED <<listener, journal, session, mishaps>> BY DEF Synchronize
<1>n. /\ world'.episode = world.episode /\ world'.sync = TRUE /\ world'.next = world.next
      /\ world'.actors = world.actors
  BY <1>0 DEF Synchronize, WorldTypeOK
<1>1. OwnedTypeOK'
  <2>1. WorldTypeOK' BY <1>0 DEF WorldTypeOK, Synchronize
  <2>2. ProcessTypeOK' BY <1>v
  <2>3. BridgeTypeOK' BY <1>0, <1>w DEF BridgeTypeOK
  <2>4. listener' \in {"none", "worker", "outside"} /\ mishaps' \in 0 .. MaxMishaps
    BY <1>0, <1>w DEF OwnedTypeOK
  <2> QED BY <2>1, <2>2, <2>3, <2>4 DEF OwnedTypeOK
<1>2. WorkerFollowsProgram'
  BY <1>0, <1>a, <1>b, <1>v, <1>w, <1>n DEF WorkerFollowsProgram, Alive
<1>3. NumbersAreSpent'
  BY <1>0, <1>a, <1>b, <1>v, <1>w, <1>n DEF NumbersAreSpent
<1>4. NumbersAreOwn'
  BY <1>0, <1>a, <1>b, <1>v, <1>w, <1>n
    DEF WorkerFollowsProgram, NumbersAreSpent, NumbersAreOwn, JournalIsOfItsWorld,
        WorkerIsTraced, Alive, Connected, SameWorld, Readable
<1>5. JournalIsOfItsWorld'
  BY <1>0, <1>a, <1>b, <1>v, <1>w, <1>n
    DEF WorkerFollowsProgram, JournalIsOfItsWorld, Alive, Connected, SameWorld, Readable
<1>6. WorkerIsTraced'
  BY <1>0, <1>a, <1>b, <1>v, <1>w, <1>n
    DEF WorkerFollowsProgram, NumbersAreSpent, NumbersAreOwn, JournalIsOfItsWorld,
        WorkerIsTraced, Alive, Connected, SameWorld, Readable
<1>7. WorldIsGivenBack'
  BY <1>0, <1>a, <1>b, <1>v, <1>w, <1>n
    DEF WorkerFollowsProgram, WorkerIsTraced, WorldIsGivenBack, SettledIsClean,
        ManagerIsOwn, Alive
<1> QED BY <1>1, <1>2, <1>3, <1>4, <1>5, <1>6, <1>7

(* The process ends, whatever it was at.                                   *)
LEMMA ExitKeeps ==
    ASSUME OwnedInv, Exit, UNCHANGED <<world, journal, session>>, mishaps' \in 0 .. MaxMishaps
    PROVE  OwnedInv'
<1> USE DEF OwnedInv, OwnedParts
<1>0. OwnedParts BY PartsHold
<1>w. UNCHANGED <<world, journal, session>> /\ mishaps' \in 0 .. MaxMishaps OBVIOUS
<1>v. /\ ProcessTypeOK' /\ worker' = NoWorker
      /\ worker'.pc = 0 /\ worker'.fresh = 0 /\ worker'.handles = {} /\ worker'.manager = FALSE
      /\ worker'.cleaning = 0 /\ JournalAt(worker'.kind) = 2
  BY NoProcess, Programs DEF Exit, NoWorker
<1>l. listener' \in {"none", "worker", "outside"} BY <1>0 DEF Exit
<1>1. OwnedTypeOK'
  <2>1. WorldTypeOK' BY <1>0, <1>w DEF WorldTypeOK
  <2>2. ProcessTypeOK' BY <1>v
  <2>3. BridgeTypeOK' BY <1>0, <1>w DEF BridgeTypeOK
  <2>4. listener' \in {"none", "worker", "outside"} /\ mishaps' \in 0 .. MaxMishaps
    BY <1>w, <1>l
  <2> QED BY <2>1, <2>2, <2>3, <2>4 DEF OwnedTypeOK
<1>2. WorkerFollowsProgram'
  <2>1. ~Alive' /\ worker'.pc = 0 /\ worker'.cleaning = 0 /\ worker'.fresh = 0 /\ worker' = NoWorker
    BY <1>v DEF Alive
  <2>2. ~(worker'.pc > JournalAt(worker'.kind)) BY <1>v
  <2> QED BY <2>1, <2>2 DEF WorkerFollowsProgram, NoWorker
<1>3. NumbersAreSpent'
  BY <1>0, <1>v, <1>w DEF NumbersAreSpent
<1>4. NumbersAreOwn'
  BY <1>0, <1>v, <1>w
    DEF WorkerFollowsProgram, NumbersAreSpent, NumbersAreOwn, JournalIsOfItsWorld,
        WorkerIsTraced, Alive, Connected, SameWorld, Readable
<1>5. JournalIsOfItsWorld'
  BY <1>0, <1>v, <1>w
    DEF WorkerFollowsProgram, JournalIsOfItsWorld, Alive, Connected, SameWorld, Readable
<1>6. WorkerIsTraced'
  BY <1>0, <1>v, <1>w
    DEF WorkerFollowsProgram, NumbersAreSpent, NumbersAreOwn, JournalIsOfItsWorld,
        WorkerIsTraced, Alive, Connected, SameWorld, Readable
<1>7. WorldIsGivenBack'
  BY <1>0, <1>v, <1>w
    DEF WorkerFollowsProgram, WorkerIsTraced, WorldIsGivenBack, SettledIsClean,
        ManagerIsOwn, Alive
<1> QED BY <1>1, <1>2, <1>3, <1>4, <1>5, <1>6, <1>7

(* A process that cleans up keeps its handles and its journal.             *)
LEMMA CleaningKeeps ==
    ASSUME OwnedInv, NEW handles \in SUBSET Nat,
           worker.pc # 0, journal.state = "active", listener' = listener,
           worker' = [worker EXCEPT !.pc = 0, !.fresh = 0, !.cleaning = 1, !.handles = handles],
           \A h \in handles : Connected =>
              h < world.next /\ \A a \in world.actors : a.id = h => a.by = "worker",
           UNCHANGED <<world, journal, session>>, mishaps' \in 0 .. MaxMishaps
    PROVE  OwnedInv'
<1> USE DEF OwnedInv, OwnedParts
<1>0. OwnedParts BY PartsHold
<1>w. /\ UNCHANGED <<world, journal, session, listener>> /\ mishaps' \in 0 .. MaxMishaps
      /\ worker.pc # 0 /\ journal.state = "active"
      /\ \A h \in handles : Connected =>
         h < world.next /\ \A a \in world.actors : a.id = h => a.by = "worker"
  OBVIOUS
<1>v. /\ ProcessTypeOK'
      /\ worker'.kind = worker.kind /\ worker'.pc = 0 /\ worker'.fresh = 0
      /\ worker'.handles = handles /\ worker'.manager = worker.manager
      /\ worker'.cleaning = 1 /\ worker'.lost = worker.lost
  <2>1. worker' = [kind |-> worker.kind, pc |-> 0, fresh |-> 0, handles |-> handles,
                   manager |-> worker.manager, cleaning |-> 1, lost |-> worker.lost]
    BY <1>0 DEF ProcessTypeOK
  <2>2. 0 \in Nat /\ 0 <= Len(Program(worker.kind)) /\ 1 \in 0 .. 4 BY <1>0
  <2>3. ProcessTypeOK' BY <1>0, <2>1, <2>2, ProcessFields
  <2> QED BY <2>1, <2>3
<1>1. OwnedTypeOK'
  <2>1. WorldTypeOK' BY <1>0, <1>w DEF WorldTypeOK
  <2>2. ProcessTypeOK' BY <1>v
  <2>3. BridgeTypeOK' BY <1>0, <1>w DEF BridgeTypeOK
  <2>4. listener' \in {"none", "worker", "outside"} /\ mishaps' \in 0 .. MaxMishaps
    BY <1>w, <1>0
  <2> QED BY <2>1, <2>2, <2>3, <2>4 DEF OwnedTypeOK
<1>2. WorkerFollowsProgram'
  BY <1>0, <1>v, <1>w DEF WorkerFollowsProgram, Alive
<1>3. NumbersAreSpent'
  BY <1>0, <1>v, <1>w DEF NumbersAreSpent
<1>4. NumbersAreOwn'
  BY <1>0, <1>v, <1>w
    DEF WorkerFollowsProgram, NumbersAreSpent, NumbersAreOwn, JournalIsOfItsWorld,
        WorkerIsTraced, Alive, Connected, SameWorld, Readable
<1>5. JournalIsOfItsWorld'
  BY <1>0, <1>v, <1>w
    DEF WorkerFollowsProgram, JournalIsOfItsWorld, Alive, Connected, SameWorld, Readable
<1>6. WorkerIsTraced'
  BY <1>0, <1>v, <1>w
    DEF WorkerFollowsProgram, NumbersAreSpent, NumbersAreOwn, JournalIsOfItsWorld,
        WorkerIsTraced, Alive, Connected, SameWorld, Readable
<1>7. WorldIsGivenBack'
  BY <1>0, <1>v, <1>w
    DEF WorkerFollowsProgram, WorkerIsTraced, WorldIsGivenBack, SettledIsClean,
        ManagerIsOwn, Alive
<1> QED BY <1>1, <1>2, <1>3, <1>4, <1>5, <1>6, <1>7

(* The two ways in which a call that fails can end.                        *)
LEMMA RaiseKeeps ==
    ASSUME OwnedInv, NEW handles \in SUBSET Nat, worker.pc # 0, Raise(handles),
           \A h \in handles : Connected =>
              h < world.next /\ \A a \in world.actors : a.id = h => a.by = "worker",
           UNCHANGED <<world, journal, session>>, mishaps' \in 0 .. MaxMishaps
    PROVE  OwnedInv'
<1>1. CASE Exit BY <1>1, ExitKeeps
<1>2. CASE /\ journal.state = "active" /\ listener' = listener
           /\ worker' = [worker EXCEPT !.pc = 0, !.fresh = 0, !.cleaning = 1,
                                       !.handles = handles]
  BY <1>2, CleaningKeeps
<1> QED BY <1>1, <1>2, Raised DEF OwnedInv

(* A call that fails with the handles as they were.                        *)
LEMMA FailKeeps ==
    ASSUME OwnedInv, worker.pc # 0, Raise(worker.handles),
           UNCHANGED <<world, journal, session>>, mishaps' \in 0 .. MaxMishaps
    PROVE  OwnedInv'
<1>1. worker.handles \in SUBSET Nat BY TypeParts DEF OwnedInv
<1>2. \A h \in worker.handles : Connected =>
         h < world.next /\ \A a \in world.actors : a.id = h => a.by = "worker"
  BY DEF OwnedInv, NumbersAreOwn, Alive
<1> QED BY <1>1, <1>2, RaiseKeeps

(* A start that fails or is stopped, and one that is killed.               *)
LEMMA StopOrFailKeeps ==
    ASSUME OwnedInv, StopOrFail \/ KillWorker
    PROVE  OwnedInv'
<1>1. mishaps' \in 0 .. MaxMishaps
  BY MishapIsCounted DEF StopOrFail, KillWorker, OwnedInv
<1>2. CASE StopOrFail BY <1>1, <1>2, FailKeeps DEF StopOrFail
<1>3. CASE KillWorker BY <1>1, <1>3, ExitKeeps DEF KillWorker
<1> QED BY <1>2, <1>3

(* A Traffic Manager on a free port is the worker's own.                   *)
LEMMA ManagerKeeps ==
    ASSUME OwnedInv, AcquireManager, listener = "none", listener' = "worker",
           worker' = [Onward EXCEPT !.manager = TRUE], journal' = [journal EXCEPT !.manager = TRUE]
    PROVE  OwnedInv'
<1> USE DEF OwnedInv, OwnedParts
<1>0. OwnedParts BY PartsHold
<1>a. PICK step \in {"manager"} : At(step) BY DEF AcquireManager
<1>b. /\ worker.pc # 0 /\ worker.fresh = 0
      /\ step = "journal" <=> worker.pc = JournalAt(worker.kind)
      /\ step = "load" => worker.pc < JournalAt(worker.kind)
      /\ step \in {"settings", "spawn", "sense", "manager"} => worker.pc > JournalAt(worker.kind)
      /\ worker.pc + 1 <= Len(Program(worker.kind))
  BY <1>a, AtStep
<1>v. /\ ProcessTypeOK'
      /\ worker'.kind = worker.kind /\ worker'.pc = worker.pc + 1
      /\ worker'.fresh = worker.fresh /\ worker'.handles = worker.handles
      /\ worker'.manager = TRUE
      /\ worker'.cleaning = worker.cleaning /\ worker'.lost = worker.lost
  <2>1. worker' = [kind |-> worker.kind, pc |-> worker.pc + 1, fresh |-> worker.fresh,
                   handles |-> worker.handles, manager |-> TRUE, cleaning |-> worker.cleaning,
                   lost |-> worker.lost]
    BY <1>0 DEF Onward, ProcessTypeOK
  <2>2. worker.pc + 1 \in Nat BY <1>0
  <2>3. [kind |-> worker.kind, pc |-> worker.pc + 1, fresh |-> worker.fresh,
         handles |-> worker.handles, manager |-> TRUE, cleaning |-> worker.cleaning,
         lost |-> worker.lost]
           \in [kind : KnownKinds, pc : Nat, fresh : Nat, handles : SUBSET Nat,
                manager : BOOLEAN, cleaning : 0 .. 4, lost : BOOLEAN]
    BY <1>0, <2>2
  <2>4. worker'.pc <= Len(Program(worker'.kind)) BY <1>b, <2>1
  <2>5. ProcessTypeOK' BY <2>1, <2>3, <2>4, CleanupLength DEF ProcessTypeOK, KnownKinds
  <2> QED BY <2>1, <2>5
<1>w. UNCHANGED <<world, session, mishaps>> BY DEF AcquireManager
<1>j. /\ journal'.episode = journal.episode /\ journal'.baseline = journal.baseline
      /\ journal'.rows = journal.rows /\ journal'.state = journal.state /\ journal' # NoJournal
  BY <1>0 DEF BridgeTypeOK, NoJournal
<1>l. listener' = "worker" OBVIOUS
<1>1. OwnedTypeOK'
  <2>1. WorldTypeOK' BY <1>0, <1>w DEF WorldTypeOK
  <2>2. ProcessTypeOK' BY <1>v
  <2>3. BridgeTypeOK' BY <1>0, <1>w DEF BridgeTypeOK
  <2>4. listener' \in {"none", "worker", "outside"} /\ mishaps' \in 0 .. MaxMishaps
    BY <1>0, <1>w, <1>l
  <2> QED BY <2>1, <2>2, <2>3, <2>4 DEF OwnedTypeOK
<1>2. WorkerFollowsProgram'
  BY <1>0, <1>a, <1>b, <1>v, <1>w, <1>j, <1>l DEF WorkerFollowsProgram, Alive
<1>3. NumbersAreSpent'
  BY <1>0, <1>a, <1>b, <1>v, <1>w, <1>j, <1>l DEF NumbersAreSpent
<1>4. NumbersAreOwn'
  BY <1>0, <1>a, <1>b, <1>v, <1>w, <1>j, <1>l
    DEF WorkerFollowsProgram, NumbersAreSpent, NumbersAreOwn, JournalIsOfItsWorld,
        WorkerIsTraced, Alive, Connected, SameWorld, Readable
<1>5. JournalIsOfItsWorld'
  BY <1>0, <1>a, <1>b, <1>v, <1>w, <1>j, <1>l
    DEF WorkerFollowsProgram, JournalIsOfItsWorld, Alive, Connected, SameWorld, Readable
<1>6. WorkerIsTraced'
  BY <1>0, <1>a, <1>b, <1>v, <1>w, <1>j, <1>l
    DEF WorkerFollowsProgram, NumbersAreSpent, NumbersAreOwn, JournalIsOfItsWorld,
        WorkerIsTraced, Alive, Connected, SameWorld, Readable
<1>7. WorldIsGivenBack'
  BY <1>0, <1>a, <1>b, <1>v, <1>w, <1>j, <1>l
    DEF WorkerFollowsProgram, WorkerIsTraced, WorldIsGivenBack, SettledIsClean,
        ManagerIsOwn, Alive
<1> QED BY <1>1, <1>2, <1>3, <1>4, <1>5, <1>6, <1>7

(* A rig may do without.                                                   *)
LEMMA NoManagerKeeps ==
    ASSUME OwnedInv, AcquireManager, worker' = Onward, UNCHANGED <<listener, journal>>
    PROVE  OwnedInv'
<1> USE DEF OwnedInv, OwnedParts
<1>0. OwnedParts BY PartsHold
<1>a. PICK step \in {"manager"} : At(step) BY DEF AcquireManager
<1>b. /\ worker.pc # 0 /\ worker.fresh = 0
      /\ step = "journal" <=> worker.pc = JournalAt(worker.kind)
      /\ step = "load" => worker.pc < JournalAt(worker.kind)
      /\ step \in {"settings", "spawn", "sense", "manager"} => worker.pc > JournalAt(worker.kind)
      /\ worker.pc + 1 <= Len(Program(worker.kind))
  BY <1>a, AtStep
<1>v. /\ ProcessTypeOK'
      /\ worker'.kind = worker.kind /\ worker'.pc = worker.pc + 1 /\ worker'.fresh = 0
      /\ worker'.handles = worker.handles /\ worker'.manager = worker.manager
      /\ worker'.cleaning = worker.cleaning /\ worker'.lost = worker.lost
  <2>1. worker' = Onward OBVIOUS
  <2> QED BY <1>0, <1>b, <2>1, ProcessGoesOnward
<1>w. UNCHANGED <<world, listener, journal, session, mishaps>> BY DEF AcquireManager
<1>1. OwnedTypeOK'
  <2>1. WorldTypeOK' BY <1>0, <1>w DEF WorldTypeOK
  <2>2. ProcessTypeOK' BY <1>v
  <2>3. BridgeTypeOK' BY <1>0, <1>w DEF BridgeTypeOK
  <2>4. listener' \in {"none", "worker", "outside"} /\ mishaps' \in 0 .. MaxMishaps
    BY <1>0, <1>w DEF OwnedTypeOK
  <2> QED BY <2>1, <2>2, <2>3, <2>4 DEF OwnedTypeOK
<1>2. WorkerFollowsProgram'
  BY <1>0, <1>a, <1>b, <1>v, <1>w DEF WorkerFollowsProgram, Alive
<1>3. NumbersAreSpent'
  BY <1>0, <1>a, <1>b, <1>v, <1>w DEF NumbersAreSpent
<1>4. NumbersAreOwn'
  BY <1>0, <1>a, <1>b, <1>v, <1>w
    DEF WorkerFollowsProgram, NumbersAreSpent, NumbersAreOwn, JournalIsOfItsWorld,
        WorkerIsTraced, Alive, Connected, SameWorld, Readable
<1>5. JournalIsOfItsWorld'
  BY <1>0, <1>a, <1>b, <1>v, <1>w
    DEF WorkerFollowsProgram, JournalIsOfItsWorld, Alive, Connected, SameWorld, Readable
<1>6. WorkerIsTraced'
  BY <1>0, <1>a, <1>b, <1>v, <1>w
    DEF WorkerFollowsProgram, NumbersAreSpent, NumbersAreOwn, JournalIsOfItsWorld,
        WorkerIsTraced, Alive, Connected, SameWorld, Readable
<1>7. WorldIsGivenBack'
  BY <1>0, <1>a, <1>b, <1>v, <1>w
    DEF WorkerFollowsProgram, WorkerIsTraced, WorldIsGivenBack, SettledIsClean,
        ManagerIsOwn, Alive
<1> QED BY <1>1, <1>2, <1>3, <1>4, <1>5, <1>6, <1>7

(* The manager is connected, refused to a rig, or its failure ends the start.*)
LEMMA AcquireManagerKeeps ==
    ASSUME OwnedInv, AcquireManager
    PROVE  OwnedInv'
<1>1. CASE worker' = Onward /\ UNCHANGED <<listener, journal>> BY <1>1, NoManagerKeeps
<1>2. CASE /\ listener = "none" /\ listener' = "worker"
           /\ worker' = [Onward EXCEPT !.manager = TRUE]
           /\ journal' = [journal EXCEPT !.manager = TRUE]
  BY <1>2, ManagerKeeps
<1>3. CASE Raise(worker.handles) /\ UNCHANGED journal
  <2>1. worker.pc # 0 BY DEF AcquireManager, At
  <2>2. mishaps' \in 0 .. MaxMishaps BY MishapIsCounted DEF AcquireManager, OwnedInv
  <2> QED BY <1>3, <2>1, <2>2, FailKeeps DEF AcquireManager
<1> QED BY <1>1, <1>2, <1>3 DEF AcquireManager

(* A worker creates actors in the world of its journal, under numbers      *)
(* nobody holds.                                                           *)
LEMMA SpawnActorKeeps ==
    ASSUME OwnedInv, SpawnActor
    PROVE  OwnedInv'
<1> USE DEF OwnedInv, OwnedParts
<1>0. OwnedParts BY PartsHold
<1>a. PICK step \in {"spawn", "sense"} : At(step) BY DEF SpawnActor, Creates
<1>b. /\ worker.pc # 0 /\ worker.fresh = 0 /\ worker.pc > JournalAt(worker.kind)
      /\ worker.pc < Len(Program(worker.kind)) /\ worker.pc >= Guarded(worker.kind)
      /\ worker.cleaning = 0 /\ journal.state = "active" /\ Connected /\ SameWorld
      /\ session.state = "running" /\ Alive
  <2>1. /\ worker.pc # 0 /\ worker.fresh = 0 /\ worker.pc > JournalAt(worker.kind)
        /\ worker.pc < Len(Program(worker.kind)) /\ worker.pc >= Guarded(worker.kind)
    <3>1. /\ worker.pc # 0 /\ worker.fresh = 0 /\ worker.pc > JournalAt(worker.kind)
          /\ worker.pc + 1 <= Len(Program(worker.kind))
      BY <1>a, AtStep
    <3>2. worker.pc \in 1 .. Len(Program(worker.kind)) BY <1>0, <3>1
    <3>3. Program(worker.kind)[worker.pc] \in {"spawn", "sense"} BY <1>a DEF At
    <3>4. worker.pc >= Guarded(worker.kind) BY <1>0, <3>2, <3>3, ProgramShape
    <3> QED BY <1>0, <3>1, <3>4
  <2>2. worker.cleaning = 0 /\ journal.state = "active" /\ session.state = "running" /\ Alive
    BY <1>0, <2>1 DEF WorkerFollowsProgram, Alive
  <2>3. Connected BY DEF SpawnActor
  <2>4. SameWorld BY <2>2, <2>3 DEF JournalIsOfItsWorld
  <2> QED BY <2>1, <2>2, <2>3, <2>4
<1>n. /\ WorldTypeOK' /\ NumbersAreSpent'
      /\ world'.episode = world.episode /\ world'.sync = world.sync
      /\ world'.next = world.next + 1
      /\ \A a \in world'.actors :
            a \in world.actors \/ (a.id = world.next /\ a.by = "worker")
      /\ \A a \in world.actors : a.id < world.next
  <2>1. At("sense") \in BOOLEAN BY DEF At
  <2> QED BY <1>0, <2>1, CreatedActor DEF SpawnActor
<1>v. /\ ProcessTypeOK'
      /\ worker'.kind = worker.kind /\ worker'.handles = worker.handles
      /\ worker'.manager = worker.manager /\ worker'.lost = worker.lost
      /\ \/ worker'.pc = worker.pc /\ worker'.fresh = world.next /\ worker'.cleaning = 0
         \/ worker'.pc = 0 /\ worker'.fresh = 0 /\ worker'.cleaning = 1
      /\ UNCHANGED listener /\ mishaps' \in 0 .. MaxMishaps
  <2>1. CASE worker' = [worker EXCEPT !.fresh = world.next] /\ UNCHANGED <<listener, mishaps>>
    <3>1. worker' = [kind |-> worker.kind, pc |-> worker.pc, fresh |-> world.next,
                     handles |-> worker.handles, manager |-> worker.manager,
                     cleaning |-> worker.cleaning, lost |-> worker.lost]
      BY <1>0, <2>1 DEF ProcessTypeOK
    <3>2. ProcessTypeOK' BY <1>0, <3>1, ProcessFields
    <3> QED BY <1>0, <1>b, <2>1, <3>1, <3>2
  <2>2. CASE Mishap /\ Raise(worker.handles)
    <3>1. /\ UNCHANGED listener
          /\ worker' = [worker EXCEPT !.pc = 0, !.fresh = 0, !.cleaning = 1,
                                      !.handles = worker.handles]
      BY <1>0, <1>b, <2>2, ProgramShape DEF Raise
    <3>2. worker' = [kind |-> worker.kind, pc |-> 0, fresh |-> 0, handles |-> worker.handles,
                     manager |-> worker.manager, cleaning |-> 1, lost |-> worker.lost]
      BY <1>0, <3>1 DEF ProcessTypeOK
    <3>3. 0 \in Nat /\ 0 <= Len(Program(worker.kind)) /\ 1 \in 0 .. 4 BY <1>0
    <3>4. ProcessTypeOK' BY <1>0, <3>2, <3>3, ProcessFields
    <3>5. mishaps' \in 0 .. MaxMishaps BY <2>2, MishapIsCounted
    <3> QED BY <3>1, <3>2, <3>4, <3>5
  <2> QED BY <2>1, <2>2 DEF SpawnActor
<1>w. UNCHANGED <<journal, session>> BY DEF SpawnActor
<1>1. OwnedTypeOK'
  <2>1. WorldTypeOK' BY <1>n
  <2>2. ProcessTypeOK' BY <1>v
  <2>3. BridgeTypeOK' BY <1>0, <1>w DEF BridgeTypeOK
  <2>4. listener' \in {"none", "worker", "outside"} /\ mishaps' \in 0 .. MaxMishaps
    BY <1>0, <1>v
  <2> QED BY <2>1, <2>2, <2>3, <2>4 DEF OwnedTypeOK
<1>2. WorkerFollowsProgram'
  BY <1>0, <1>b, <1>n, <1>v, <1>w DEF WorkerFollowsProgram, Alive
<1>3. NumbersAreSpent'
  BY <1>0, <1>b, <1>n, <1>v, <1>w DEF NumbersAreSpent
<1>4. NumbersAreOwn'
  BY <1>0, <1>b, <1>n, <1>v, <1>w
    DEF WorkerFollowsProgram, NumbersAreSpent, NumbersAreOwn, JournalIsOfItsWorld,
        WorkerIsTraced, Alive, Connected, SameWorld, Readable
<1>5. JournalIsOfItsWorld'
  BY <1>0, <1>b, <1>n, <1>v, <1>w
    DEF WorkerFollowsProgram, JournalIsOfItsWorld, Alive, Connected, SameWorld, Readable
<1>6. WorkerIsTraced'
  BY <1>0, <1>b, <1>n, <1>v, <1>w
    DEF WorkerFollowsProgram, NumbersAreSpent, NumbersAreOwn, JournalIsOfItsWorld,
        WorkerIsTraced, Alive, Connected, SameWorld, Readable
<1>7. WorldIsGivenBack'
  BY <1>0, <1>b, <1>n, <1>v, <1>w
    DEF WorkerFollowsProgram, WorkerIsTraced, WorldIsGivenBack, SettledIsClean,
        ManagerIsOwn, Alive
<1> QED BY <1>1, <1>2, <1>3, <1>4, <1>5, <1>6, <1>7

(* The handle of an actor and its row.                                     *)
RowIsWritten ==
    /\ worker' = [Onward EXCEPT !.handles = @ \cup {worker.fresh}, !.fresh = 0]
    /\ journal' = [journal EXCEPT !.rows = @ \cup {worker.fresh}]
    /\ UNCHANGED <<listener, mishaps>>

(* The row of an actor is of the worker's own.                             *)
LEMMA RowKeeps ==
    ASSUME OwnedInv, Register, RowIsWritten
    PROVE  OwnedInv'
<1> USE DEF OwnedInv, OwnedParts
<1>0. OwnedParts BY PartsHold
<1>b. /\ worker.fresh # 0 /\ worker.pc > JournalAt(worker.kind)
      /\ worker.pc + 1 <= Len(Program(worker.kind)) /\ worker.pc # 0
      /\ worker.cleaning = 0 /\ journal.state = "active" /\ Alive
      /\ session.state = "running"
  BY <1>0 DEF Register, WorkerFollowsProgram, Alive
<1>v. /\ ProcessTypeOK'
      /\ worker'.kind = worker.kind /\ worker'.pc = worker.pc + 1 /\ worker'.fresh = 0
      /\ worker'.handles = worker.handles \cup {worker.fresh}
      /\ worker'.manager = worker.manager
      /\ worker'.cleaning = worker.cleaning /\ worker'.lost = worker.lost
  <2>1. PICK handles \in SUBSET Nat : handles = worker.handles \cup {worker.fresh}
    BY <1>0
  <2>2. worker' = [kind |-> worker.kind, pc |-> worker.pc + 1, fresh |-> 0,
                   handles |-> handles, manager |-> worker.manager,
                   cleaning |-> worker.cleaning, lost |-> worker.lost]
    BY <1>0, <2>1 DEF RowIsWritten, Onward, ProcessTypeOK
  <2>3. [kind |-> worker.kind, pc |-> worker.pc + 1, fresh |-> 0, handles |-> handles,
         manager |-> worker.manager, cleaning |-> worker.cleaning, lost |-> worker.lost]
           \in [kind : KnownKinds, pc : Nat, fresh : Nat, handles : SUBSET Nat,
                manager : BOOLEAN, cleaning : 0 .. 4, lost : BOOLEAN]
    <3>1. worker.pc + 1 \in Nat BY <1>0
    <3> QED BY <1>0, <3>1
  <2>4. worker'.pc <= Len(Program(worker'.kind))
    <3>1. worker'.pc = worker.pc + 1 /\ worker'.kind = worker.kind BY <2>2
    <3> QED BY <1>b, <3>1
  <2>5. ProcessTypeOK' BY <2>2, <2>3, <2>4, CleanupLength DEF ProcessTypeOK, KnownKinds
  <2> QED BY <2>1, <2>2, <2>5
<1>j. /\ journal'.episode = journal.episode /\ journal'.baseline = journal.baseline
      /\ journal'.rows = journal.rows \cup {worker.fresh} /\ journal'.state = journal.state
  BY <1>0 DEF RowIsWritten, BridgeTypeOK
<1>h. SameWorld => worker.fresh < world.next
         /\ \A a \in world.actors : a.id = worker.fresh => a.by = "worker"
  BY <1>b DEF JournalIsOfItsWorld, NumbersAreOwn
<1>w. UNCHANGED <<world, session, listener, mishaps>> BY DEF Register, RowIsWritten
<1>1. OwnedTypeOK'
  <2>1. WorldTypeOK' BY <1>0, <1>w DEF WorldTypeOK
  <2>2. ProcessTypeOK' BY <1>v
  <2>3. BridgeTypeOK' 
    <3>1. journal.rows \cup {worker.fresh} \in SUBSET Nat BY <1>0
    <3> QED BY <1>0, <1>w, <3>1 DEF RowIsWritten, BridgeTypeOK
  <2>4. listener' \in {"none", "worker", "outside"} /\ mishaps' \in 0 .. MaxMishaps
    BY <1>0, <1>w DEF OwnedTypeOK
  <2> QED BY <2>1, <2>2, <2>3, <2>4 DEF OwnedTypeOK
<1>2. WorkerFollowsProgram'
  BY <1>0, <1>b, <1>v, <1>j, <1>h, <1>w DEF WorkerFollowsProgram, Alive
<1>3. NumbersAreSpent'
  BY <1>0, <1>b, <1>v, <1>j, <1>h, <1>w DEF NumbersAreSpent
<1>4. NumbersAreOwn'
  BY <1>0, <1>b, <1>v, <1>j, <1>h, <1>w
    DEF WorkerFollowsProgram, NumbersAreSpent, NumbersAreOwn, JournalIsOfItsWorld,
        WorkerIsTraced, Alive, Connected, SameWorld, Readable
<1>5. JournalIsOfItsWorld'
  BY <1>0, <1>b, <1>v, <1>j, <1>h, <1>w
    DEF WorkerFollowsProgram, JournalIsOfItsWorld, Alive, Connected, SameWorld, Readable
<1>6. WorkerIsTraced'
  BY <1>0, <1>b, <1>v, <1>j, <1>h, <1>w
    DEF WorkerFollowsProgram, NumbersAreSpent, NumbersAreOwn, JournalIsOfItsWorld,
        WorkerIsTraced, Alive, Connected, SameWorld, Readable
<1>7. WorldIsGivenBack'
  BY <1>0, <1>b, <1>v, <1>j, <1>h, <1>w
    DEF WorkerFollowsProgram, WorkerIsTraced, WorldIsGivenBack, SettledIsClean,
        ManagerIsOwn, Alive
<1> QED BY <1>1, <1>2, <1>3, <1>4, <1>5, <1>6, <1>7

(* A spawned actor gets its row, or the failure is raised before it does.  *)
LEMMA RegisterKeeps ==
    ASSUME OwnedInv, Register
    PROVE  OwnedInv'
<1>1. CASE RowIsWritten BY <1>1, RowKeeps
<1>2. CASE Mishap /\ Raise(worker.handles \cup {worker.fresh}) /\ UNCHANGED journal
  <2>1. worker.handles \cup {worker.fresh} \in SUBSET Nat BY TypeParts DEF OwnedInv
  <2>2. \A h \in worker.handles \cup {worker.fresh} : Connected =>
           h < world.next /\ \A a \in world.actors : a.id = h => a.by = "worker"
    <3>1. Alive BY TypeParts DEF Register, OwnedInv, WorkerFollowsProgram, Alive
    <3> QED BY <3>1 DEF OwnedInv, NumbersAreOwn
  <2>3. worker.pc # 0 BY TypeParts DEF Register, OwnedInv, WorkerFollowsProgram
  <2>4. mishaps' \in 0 .. MaxMishaps BY <1>2, MishapIsCounted DEF OwnedInv
  <2> QED BY <1>2, <2>1, <2>2, <2>3, <2>4, RaiseKeeps DEF Register
<1> QED BY <1>1, <1>2 DEF Register, RowIsWritten

(* The cleanup removes actors and restores settings, and ends.             *)
LEMMA CleanUpKeeps ==
    ASSUME OwnedInv, CleanUp
    PROVE  OwnedInv'
<1> USE DEF OwnedInv, OwnedParts
<1>0. OwnedParts BY PartsHold
<1>w. UNCHANGED <<journal, session>> /\ mishaps' \in 0 .. MaxMishaps
  <2>1. Mishap \/ UNCHANGED mishaps BY DEF CleanUp
  <2> QED BY <2>1, MishapIsCounted DEF CleanUp
<1>n. /\ WorldTypeOK' /\ world'.episode = world.episode /\ world'.next = world.next
      /\ (world'.sync => world.sync) /\ \A a \in world'.actors : a \in world.actors
  <2>1. CASE UNCHANGED world BY <1>0, <2>1 DEF WorldTypeOK
  <2>2. CASE \E step \in {"sensors", "actors", "manager", "settings"} :
               world' = [world EXCEPT !.actors = Kept(step), !.sync = @ /\ step # "settings"]
    <3>1. PICK step \in {"sensors", "actors", "manager", "settings"} :
               world' = [world EXCEPT !.actors = Kept(step), !.sync = @ /\ step # "settings"]
      BY <2>2
    <3>2. Kept(step) \in SUBSET world.actors BY DEF Kept
    <3>3. Kept(step) \in SUBSET AnActor BY <1>0, <3>2 DEF WorldTypeOK, AnActor
    <3>4. (world.sync /\ step # "settings") \in BOOLEAN OBVIOUS
    <3>5. world' = [episode |-> world.episode, sync |-> world.sync /\ step # "settings",
                    next |-> world.next, actors |-> Kept(step)]
      BY <1>0, <3>1 DEF WorldTypeOK
    <3>6. WorldTypeOK' BY <1>0, <3>3, <3>4, <3>5, WorldFields
    <3> QED BY <1>0, <3>2, <3>5, <3>6
  <2>3. Cleanup[worker.cleaning] \in {"sensors", "actors", "manager", "settings"}
    <3>1. worker.cleaning \in {1, 2, 3, 4} BY <1>0 DEF CleanUp
    <3> QED BY <3>1 DEF Cleanup
  <2> QED BY <2>1, <2>2, <2>3 DEF CleanUp
<1>b. /\ worker.pc = 0 /\ worker.fresh = 0 /\ worker.cleaning # 0 /\ journal.state = "active"
      /\ session.state = "running" /\ Alive
  BY <1>0 DEF CleanUp, WorkerFollowsProgram, Alive
<1>v. \/ /\ ProcessTypeOK' /\ worker' = NoWorker
         /\ worker'.pc = 0 /\ worker'.fresh = 0 /\ worker'.handles = {}
         /\ worker'.manager = FALSE
         /\ worker'.cleaning = 0 /\ JournalAt(worker'.kind) = 2
      \/ /\ ProcessTypeOK' /\ UNCHANGED listener
         /\ worker'.kind = worker.kind /\ worker'.pc = worker.pc /\ worker'.fresh = worker.fresh
         /\ worker'.handles = worker.handles /\ worker'.manager = worker.manager
         /\ worker'.cleaning = worker.cleaning + 1 /\ worker'.lost = worker.lost
  <2>1. CASE Exit BY <2>1, NoProcess, Programs DEF Exit, NoWorker
  <2>2. CASE /\ worker.cleaning # 4 /\ UNCHANGED listener
             /\ worker' = [worker EXCEPT !.cleaning = @ + 1]
    <3>1. worker' = [kind |-> worker.kind, pc |-> worker.pc, fresh |-> worker.fresh,
                     handles |-> worker.handles, manager |-> worker.manager,
                     cleaning |-> worker.cleaning + 1, lost |-> worker.lost]
      BY <1>0, <2>2 DEF ProcessTypeOK
    <3>2. worker.cleaning + 1 \in 0 .. 4 BY <1>0, <2>2
    <3>3. ProcessTypeOK' BY <1>0, <3>1, <3>2, ProcessFields
    <3> QED BY <2>2, <3>1, <3>3
  <2> QED BY <2>1, <2>2, CleanupLength DEF CleanUp
<1>l. listener' \in {"none", "worker", "outside"} BY <1>0 DEF CleanUp, Exit
<1>1. OwnedTypeOK'
  <2>1. WorldTypeOK' BY <1>n
  <2>2. ProcessTypeOK' BY <1>v
  <2>3. BridgeTypeOK' BY <1>0, <1>w DEF BridgeTypeOK
  <2>4. listener' \in {"none", "worker", "outside"} /\ mishaps' \in 0 .. MaxMishaps
    BY <1>w, <1>l
  <2> QED BY <2>1, <2>2, <2>3, <2>4 DEF OwnedTypeOK
<1>2. WorkerFollowsProgram'
  <2>1. ~(worker'.pc > JournalAt(worker'.kind))
    <3>1. worker'.pc = 0 /\ JournalAt(worker'.kind) \in Nat BY <1>0, <1>b, <1>v
    <3> QED BY <3>1
  <2>2. /\ worker'.pc = 0 /\ worker'.fresh = 0 /\ session'.state = "running"
        /\ journal'.state = "active" /\ (worker'.cleaning = 0 => worker' = NoWorker)
    BY <1>0, <1>b, <1>v, <1>w
  <2> QED BY <2>1, <2>2 DEF WorkerFollowsProgram, Alive, NoWorker
<1>3. NumbersAreSpent'
  BY <1>0, <1>b, <1>n, <1>v, <1>w DEF NumbersAreSpent
<1>4. NumbersAreOwn'
  BY <1>0, <1>b, <1>n, <1>v, <1>w
    DEF WorkerFollowsProgram, NumbersAreSpent, NumbersAreOwn, JournalIsOfItsWorld,
        WorkerIsTraced, Alive, Connected, SameWorld, Readable
<1>5. JournalIsOfItsWorld'
  BY <1>0, <1>b, <1>n, <1>v, <1>w
    DEF WorkerFollowsProgram, JournalIsOfItsWorld, Alive, Connected, SameWorld, Readable
<1>6. WorkerIsTraced'
  BY <1>0, <1>b, <1>n, <1>v, <1>w
    DEF WorkerFollowsProgram, NumbersAreSpent, NumbersAreOwn, JournalIsOfItsWorld,
        WorkerIsTraced, Alive, Connected, SameWorld, Readable
<1>7. WorldIsGivenBack'
  BY <1>0, <1>b, <1>n, <1>v, <1>w
    DEF WorkerFollowsProgram, WorkerIsTraced, WorldIsGivenBack, SettledIsClean,
        ManagerIsOwn, Alive
<1> QED BY <1>1, <1>2, <1>3, <1>4, <1>5, <1>6, <1>7

(* A worker starts in a settled world, with an empty journal.              *)
LEMMA StartWorkerKeeps ==
    ASSUME OwnedInv, StartWorker
    PROVE  OwnedInv'
<1> USE DEF OwnedInv, OwnedParts
<1>0. OwnedParts BY PartsHold
<1>k. PICK kind \in KnownKinds : worker' = [NoWorker EXCEPT !.kind = kind, !.pc = 1]
  BY OwnedAssumption DEF StartWorker, KnownKinds
<1>j. JournalAt(kind) \in Nat /\ JournalAt(kind) >= 1 BY ProgramShape
<1>v. /\ ProcessTypeOK'
      /\ worker'.kind = kind /\ worker'.pc = 1 /\ worker'.fresh = 0 /\ worker'.handles = {}
      /\ worker'.manager = FALSE /\ worker'.cleaning = 0 /\ worker'.lost = FALSE
  <2>1. ProcessTypeOK' BY <1>k, NewProcessType
  <2> QED BY <2>1, <1>k DEF NoWorker
<1>n. /\ journal' = NoJournal /\ journal'.state = "absent" /\ journal'.episode = 0
      /\ session'.state = "running" /\ session'.task = "none"
      /\ session.state = "settled" /\ session'.run \in 0 .. MaxRuns
  <2>1. session.run \in 0 .. MaxRuns /\ session.run < MaxRuns /\ MaxRuns \in Nat
    BY Bounds DEF StartWorker, OwnedTypeOK, BridgeTypeOK
  <2> QED BY <2>1 DEF StartWorker, NoJournal
<1>w. UNCHANGED <<world, listener, mishaps>> BY DEF StartWorker
<1>1. OwnedTypeOK'
  <2>1. WorldTypeOK' BY <1>0, <1>w DEF WorldTypeOK
  <2>2. ProcessTypeOK' BY <1>v
  <2>3. BridgeTypeOK' 
    <3>1. NoJournal \in [episode : Nat, baseline : SUBSET Nat, rows : SUBSET Nat,
                         manager : BOOLEAN, state : {"absent", "torn", "active", "recovered"}]
      BY DEF NoJournal
    <3>2. session' = [run |-> session'.run, state |-> "running", task |-> "none"]
      BY DEF StartWorker
    <3>3. [run |-> session'.run, state |-> "running", task |-> "none"]
             \in [run : 0 .. MaxRuns, state : {"settled", "running", "recovering"},
                  task : {"none", "restore", "observe"}]
      BY <1>n
    <3> QED BY <1>n, <3>1, <3>2, <3>3 DEF BridgeTypeOK
  <2>4. listener' \in {"none", "worker", "outside"} /\ mishaps' \in 0 .. MaxMishaps
    BY <1>0, <1>w DEF OwnedTypeOK
  <2> QED BY <2>1, <2>2, <2>3, <2>4 DEF OwnedTypeOK
<1>2. WorkerFollowsProgram'
  <2>1. Alive' /\ session'.state = "running" BY <1>v, <1>n DEF Alive
  <2>2. ~(worker'.pc > JournalAt(worker'.kind)) BY <1>j, <1>v
  <2> QED BY <1>v, <1>n, <2>1, <2>2 DEF WorkerFollowsProgram, NoJournal
<1>3. NumbersAreSpent'
  BY <1>0, <1>j, <1>v, <1>n, <1>w DEF NumbersAreSpent
<1>4. NumbersAreOwn'
  BY <1>0, <1>j, <1>v, <1>n, <1>w
    DEF WorkerFollowsProgram, NumbersAreSpent, NumbersAreOwn, JournalIsOfItsWorld,
        WorkerIsTraced, Alive, Connected, SameWorld, Readable
<1>5. JournalIsOfItsWorld'
  BY <1>0, <1>j, <1>v, <1>n, <1>w
    DEF WorkerFollowsProgram, JournalIsOfItsWorld, Alive, Connected, SameWorld, Readable
<1>6. WorkerIsTraced'
  BY <1>0, <1>j, <1>v, <1>n, <1>w
    DEF WorkerFollowsProgram, NumbersAreSpent, NumbersAreOwn, JournalIsOfItsWorld,
        WorkerIsTraced, Alive, Connected, SameWorld, Readable
<1>7. WorldIsGivenBack'
  BY <1>0, <1>j, <1>v, <1>n, <1>w
    DEF WorkerFollowsProgram, WorkerIsTraced, WorldIsGivenBack, SettledIsClean,
        ManagerIsOwn, Alive
<1> QED BY <1>1, <1>2, <1>3, <1>4, <1>5, <1>6, <1>7

(* A restarted simulator holds nothing of a worker.                        *)
LEMMA RestartSimulatorKeeps ==
    ASSUME OwnedInv, RestartSimulator
    PROVE  OwnedInv'
<1> USE DEF OwnedInv, OwnedParts
<1>0. OwnedParts BY PartsHold
<1>w. UNCHANGED <<listener, journal, mishaps>> BY DEF RestartSimulator
<1>v. /\ ProcessTypeOK' /\ (Alive' <=> Alive) /\ (worker'.lost <=> Alive)
      /\ worker'.kind = worker.kind /\ worker'.pc = worker.pc /\ worker'.fresh = worker.fresh
      /\ worker'.handles = worker.handles /\ worker'.manager = worker.manager
      /\ worker'.cleaning = worker.cleaning
      /\ (~Alive => worker' = NoWorker)
  <2>1. PICK lost \in BOOLEAN : lost = Alive BY DEF Alive
  <2>2. worker' = [kind |-> worker.kind, pc |-> worker.pc, fresh |-> worker.fresh,
                   handles |-> worker.handles, manager |-> worker.manager,
                   cleaning |-> worker.cleaning, lost |-> lost]
    BY <1>0, <2>1 DEF RestartSimulator, ProcessTypeOK
  <2>3. ProcessTypeOK' BY <1>0, <2>2, ProcessFields
  <2>4. Alive' <=> Alive BY <2>2 DEF Alive
  <2>5. ~Alive => worker' = NoWorker
    <3>1. HAVE ~Alive
    <3>2. worker = [kind |-> "rig", pc |-> 0, fresh |-> 0, handles |-> {}, manager |-> FALSE,
                    cleaning |-> 0, lost |-> FALSE]
      BY <3>1 DEF WorkerFollowsProgram, NoWorker
    <3>3. /\ worker.kind = "rig" /\ worker.pc = 0 /\ worker.fresh = 0 /\ worker.handles = {}
          /\ worker.manager = FALSE /\ worker.cleaning = 0 /\ lost = FALSE
      BY <2>1, <3>1, <3>2
    <3> QED BY <2>2, <3>3 DEF NoWorker
  <2> QED BY <2>1, <2>2, <2>3, <2>4, <2>5
<1>n. /\ WorldTypeOK' /\ NumbersAreSpent' /\ world'.sync = FALSE
      /\ world'.episode = world.episode + 1 /\ \A a \in world'.actors : a.by = "scene"
  <2>1. PICK n \in 1 .. 2 : world' = NewWorld(world.episode + 1, 1, n)
    BY DEF RestartSimulator
  <2>2. world.episode + 1 \in Nat /\ n \in Nat BY <1>0
  <2>3. PICK first \in Nat : first = 1 OBVIOUS
  <2>4. world' = NewWorld(world.episode + 1, first, n) /\ first > 0 BY <2>1, <2>3
  <2> QED BY <2>2, <2>4, LoadedWorld
<1>s. ~SameWorld' BY <1>0, <1>n, <1>w DEF SameWorld, Readable, JournalIsOfItsWorld
<1>t. session'.run = session.run /\ session'.state = session.state /\ session'.task = "none"
  BY <1>0 DEF RestartSimulator, BridgeTypeOK
<1>1. OwnedTypeOK'
  <2>1. WorldTypeOK' BY <1>n
  <2>2. ProcessTypeOK' BY <1>v
  <2>3. BridgeTypeOK' BY <1>0, <1>w DEF BridgeTypeOK, RestartSimulator
  <2>4. listener' \in {"none", "worker", "outside"} /\ mishaps' \in 0 .. MaxMishaps
    BY <1>0, <1>w DEF OwnedTypeOK
  <2> QED BY <2>1, <2>2, <2>3, <2>4 DEF OwnedTypeOK
<1>2. WorkerFollowsProgram'
  BY <1>0, <1>v, <1>t, <1>w DEF WorkerFollowsProgram
<1>3. NumbersAreSpent'
  BY <1>0, <1>v, <1>n, <1>s, <1>t, <1>w DEF NumbersAreSpent
<1>4. NumbersAreOwn'
  <2>1. ~(Alive' /\ Connected') BY <1>v DEF Connected
  <2> QED BY <1>s, <2>1 DEF NumbersAreOwn
<1>5. JournalIsOfItsWorld'
  <2>1. Alive' => ~Connected' BY <1>v DEF Connected
  <2>2. journal'.episode <= world'.episode BY <1>0, <1>n, <1>w DEF JournalIsOfItsWorld
  <2> QED BY <1>s, <2>1, <2>2 DEF JournalIsOfItsWorld
<1>6. WorkerIsTraced'
  BY <1>0, <1>v, <1>n, <1>s, <1>t, <1>w
    DEF WorkerFollowsProgram, NumbersAreSpent, NumbersAreOwn, JournalIsOfItsWorld,
        WorkerIsTraced, Alive, Connected, SameWorld, Readable
<1>7. WorldIsGivenBack'
  BY <1>0, <1>v, <1>n, <1>s, <1>t, <1>w
    DEF WorkerFollowsProgram, WorkerIsTraced, WorldIsGivenBack, SettledIsClean,
        ManagerIsOwn, Alive
<1> QED BY <1>1, <1>2, <1>3, <1>4, <1>5, <1>6, <1>7

(* An actor of another client, or of an edit, has a number nobody holds.   *)
LEMMA StrangerKeeps ==
    ASSUME OwnedInv, NEW by \in {"outside", "user"}, NEW sensor \in BOOLEAN,
           world' = [world EXCEPT !.actors = @ \cup {Actor(world.next, sensor, by)},
                                  !.next = @ + 1],
           UNCHANGED <<listener, worker, journal, session>>, mishaps' \in 0 .. MaxMishaps
    PROVE  OwnedInv'
<1> USE DEF OwnedInv, OwnedParts
<1>0. OwnedParts BY PartsHold
<1>w. UNCHANGED <<listener, worker, journal, session>> /\ mishaps' \in 0 .. MaxMishaps OBVIOUS
<1>n. /\ WorldTypeOK' /\ NumbersAreSpent'
      /\ world'.episode = world.episode /\ world'.sync = world.sync
      /\ world'.next = world.next + 1
      /\ \A a \in world'.actors : a \in world.actors \/ (a.id = world.next /\ a.by # "worker")
      /\ \A a \in world.actors : a.id < world.next
  BY <1>0, CreatedActor
<1>1. OwnedTypeOK'
  <2>1. WorldTypeOK' BY <1>n
  <2>2. ProcessTypeOK' BY <1>0, <1>w DEF ProcessTypeOK
  <2>3. BridgeTypeOK' BY <1>0, <1>w DEF BridgeTypeOK
  <2>4. listener' \in {"none", "worker", "outside"} /\ mishaps' \in 0 .. MaxMishaps
    BY <1>0, <1>w DEF OwnedTypeOK
  <2> QED BY <2>1, <2>2, <2>3, <2>4 DEF OwnedTypeOK
<1>2. WorkerFollowsProgram'
  BY <1>0, <1>n, <1>w DEF WorkerFollowsProgram, Alive
<1>3. NumbersAreSpent'
  BY <1>0, <1>n, <1>w DEF NumbersAreSpent
<1>4. NumbersAreOwn'
  <2>1. SameWorld' <=> SameWorld BY <1>n, <1>w DEF SameWorld, Readable
  <2>2. Alive' /\ Connected' <=> Alive /\ Connected BY <1>w DEF Alive, Connected
  <2>3. ASSUME Alive, Connected, NEW h \in worker.handles \cup {worker.fresh}
        PROVE  h < world'.next /\ \A a \in world'.actors : a.id = h => a.by = "worker"
    <3>1. h < world.next /\ h \in Nat /\ \A a \in world.actors : a.id = h => a.by = "worker"
      BY <1>0, <2>3 DEF NumbersAreOwn
    <3> QED BY <1>0, <1>n, <3>1
  <2>4. ASSUME SameWorld, NEW h \in journal.rows \cup journal.baseline
        PROVE  h < world'.next
    BY <1>0, <1>n, <2>4 DEF NumbersAreOwn
  <2>5. ASSUME SameWorld, NEW a \in world'.actors
        PROVE  (a.id \in journal.rows => a.by = "worker")
               /\ (a.id \in journal.baseline => a.by # "worker")
    BY <1>0, <1>n, <2>5 DEF NumbersAreOwn
  <2> QED BY <1>w, <2>1, <2>2, <2>3, <2>4, <2>5 DEF NumbersAreOwn
<1>5. JournalIsOfItsWorld'
  BY <1>0, <1>n, <1>w
    DEF WorkerFollowsProgram, JournalIsOfItsWorld, Alive, Connected, SameWorld, Readable
<1>6. WorkerIsTraced'
  BY <1>0, <1>n, <1>w
    DEF WorkerFollowsProgram, NumbersAreSpent, NumbersAreOwn, JournalIsOfItsWorld,
        WorkerIsTraced, Alive, Connected, SameWorld, Readable
<1>7. WorldIsGivenBack'
  BY <1>0, <1>n, <1>w
    DEF WorkerFollowsProgram, WorkerIsTraced, WorldIsGivenBack, SettledIsClean,
        ManagerIsOwn, Alive
<1> QED BY <1>1, <1>2, <1>3, <1>4, <1>5, <1>6, <1>7

(* Actors of others may go, and settings be restored.                      *)
LEMMA FewerKeep ==
    ASSUME OwnedInv, NEW actors \in SUBSET world.actors, NEW sync \in BOOLEAN, sync => world.sync,
           world' = [world EXCEPT !.actors = actors, !.sync = sync],
           UNCHANGED <<listener, worker, journal, session>>, mishaps' \in 0 .. MaxMishaps
    PROVE  OwnedInv'
<1> USE DEF OwnedInv, OwnedParts
<1>0. OwnedParts BY PartsHold
<1>w. UNCHANGED <<listener, worker, journal, session>> /\ mishaps' \in 0 .. MaxMishaps OBVIOUS
<1>n. /\ WorldTypeOK' /\ world'.episode = world.episode /\ (world'.sync => world.sync)
      /\ world'.next = world.next /\ \A a \in world'.actors : a \in world.actors
  <2>1. world' = [episode |-> world.episode, sync |-> sync, next |-> world.next, actors |-> actors]
    BY <1>0 DEF WorldTypeOK
  <2>2. actors \in SUBSET AnActor BY <1>0 DEF WorldTypeOK, AnActor
  <2>3. WorldTypeOK' BY <1>0, <2>1, <2>2, WorldFields
  <2> QED BY <2>1, <2>3
<1>1. OwnedTypeOK'
  <2>1. WorldTypeOK' BY <1>n
  <2>2. ProcessTypeOK' BY <1>0, <1>w DEF ProcessTypeOK
  <2>3. BridgeTypeOK' BY <1>0, <1>w DEF BridgeTypeOK
  <2>4. listener' \in {"none", "worker", "outside"} /\ mishaps' \in 0 .. MaxMishaps
    BY <1>0, <1>w DEF OwnedTypeOK
  <2> QED BY <2>1, <2>2, <2>3, <2>4 DEF OwnedTypeOK
<1>2. WorkerFollowsProgram'
  BY <1>0, <1>n, <1>w DEF WorkerFollowsProgram, Alive
<1>3. NumbersAreSpent'
  BY <1>0, <1>n, <1>w DEF NumbersAreSpent
<1>4. NumbersAreOwn'
  BY <1>0, <1>n, <1>w
    DEF WorkerFollowsProgram, NumbersAreSpent, NumbersAreOwn, JournalIsOfItsWorld,
        WorkerIsTraced, Alive, Connected, SameWorld, Readable
<1>5. JournalIsOfItsWorld'
  BY <1>0, <1>n, <1>w
    DEF WorkerFollowsProgram, JournalIsOfItsWorld, Alive, Connected, SameWorld, Readable
<1>6. WorkerIsTraced'
  BY <1>0, <1>n, <1>w
    DEF WorkerFollowsProgram, NumbersAreSpent, NumbersAreOwn, JournalIsOfItsWorld,
        WorkerIsTraced, Alive, Connected, SameWorld, Readable
<1>7. WorldIsGivenBack'
  BY <1>0, <1>n, <1>w
    DEF WorkerFollowsProgram, WorkerIsTraced, WorldIsGivenBack, SettledIsClean,
        ManagerIsOwn, Alive
<1> QED BY <1>1, <1>2, <1>3, <1>4, <1>5, <1>6, <1>7

(* The port may be taken and left while it is not the worker's.            *)
LEMMA PortKeeps ==
    ASSUME OwnedInv, listener' \in {"none", "outside"}, listener # "worker",
           UNCHANGED <<world, worker, journal, session>>, mishaps' \in 0 .. MaxMishaps
    PROVE  OwnedInv'
<1> USE DEF OwnedInv, OwnedParts
<1>0. OwnedParts BY PartsHold
<1>w. /\ UNCHANGED <<world, worker, journal, session>> /\ mishaps' \in 0 .. MaxMishaps
      /\ listener' \in {"none", "outside"} /\ listener # "worker"
  OBVIOUS
<1>1. OwnedTypeOK'
  <2>1. WorldTypeOK' BY <1>0, <1>w DEF WorldTypeOK
  <2>2. ProcessTypeOK' BY <1>0, <1>w DEF ProcessTypeOK
  <2>3. BridgeTypeOK' BY <1>0, <1>w DEF BridgeTypeOK
  <2>4. listener' \in {"none", "worker", "outside"} /\ mishaps' \in 0 .. MaxMishaps
    BY <1>w
  <2> QED BY <2>1, <2>2, <2>3, <2>4 DEF OwnedTypeOK
<1>2. WorkerFollowsProgram'
  BY <1>0, <1>w DEF WorkerFollowsProgram, Alive
<1>3. NumbersAreSpent'
  BY <1>0, <1>w DEF NumbersAreSpent
<1>4. NumbersAreOwn'
  BY <1>0, <1>w
    DEF WorkerFollowsProgram, NumbersAreSpent, NumbersAreOwn, JournalIsOfItsWorld,
        WorkerIsTraced, Alive, Connected, SameWorld, Readable
<1>5. JournalIsOfItsWorld'
  BY <1>0, <1>w
    DEF WorkerFollowsProgram, JournalIsOfItsWorld, Alive, Connected, SameWorld, Readable
<1>6. WorkerIsTraced'
  BY <1>0, <1>w
    DEF WorkerFollowsProgram, NumbersAreSpent, NumbersAreOwn, JournalIsOfItsWorld,
        WorkerIsTraced, Alive, Connected, SameWorld, Readable
<1>7. WorldIsGivenBack'
  BY <1>0, <1>w
    DEF WorkerFollowsProgram, WorkerIsTraced, WorldIsGivenBack, SettledIsClean,
        ManagerIsOwn, Alive
<1> QED BY <1>1, <1>2, <1>3, <1>4, <1>5, <1>6, <1>7

(* Other clients.                                                          *)
LEMMA OutsideKeeps ==
    ASSUME OwnedInv, OutsideActs \/ OutsideLeaves
    PROVE  OwnedInv'
<1>1. mishaps' \in 0 .. MaxMishaps
  BY MishapIsCounted DEF OutsideActs, OutsideLeaves, OwnedInv
<1>2. CASE OutsideActs
  <2>1. CASE UNCHANGED listener
    <3>1. PICK sensor \in BOOLEAN :
             world' = [world EXCEPT !.actors = @ \cup {Actor(world.next, sensor, "outside")},
                                    !.next = @ + 1]
      BY <1>2, <2>1 DEF OutsideActs
    <3> QED BY <1>1, <1>2, <2>1, <3>1, StrangerKeeps DEF OutsideActs
  <2>2. CASE listener = "none" /\ listener' = "outside" /\ UNCHANGED world
    BY <1>1, <1>2, <2>2, PortKeeps DEF OutsideActs
  <2> QED BY <1>2, <2>1, <2>2 DEF OutsideActs
<1>3. CASE OutsideLeaves
  <2>1. CASE listener = "outside" /\ listener' = "none" /\ UNCHANGED world
    BY <1>1, <1>3, <2>1, PortKeeps DEF OutsideLeaves
  <2>2. CASE world' = [world EXCEPT !.actors = {a \in @ : a.by # "outside"}] /\ UNCHANGED listener
    <3>1. PICK actors \in SUBSET world.actors : actors = {a \in world.actors : a.by # "outside"}
      OBVIOUS
    <3>2. world' = [world EXCEPT !.actors = actors, !.sync = world.sync]
      BY <2>2, <3>1, TypeParts DEF OwnedInv, WorldTypeOK
    <3>3. world.sync \in BOOLEAN BY TypeParts DEF OwnedInv
    <3> QED BY <1>1, <1>3, <2>2, <3>2, <3>3, FewerKeep DEF OutsideLeaves
  <2> QED BY <1>3, <2>1, <2>2 DEF OutsideLeaves
<1> QED BY <1>2, <1>3

(* A run whose process is gone is recovered.                               *)
LEMMA BeginRecoveryKeeps ==
    ASSUME OwnedInv, BeginRecovery
    PROVE  OwnedInv'
<1> USE DEF OwnedInv, OwnedParts
<1>0. OwnedParts BY PartsHold
<1>b. ~Alive /\ worker.pc = 0 /\ worker.fresh = 0 /\ worker.cleaning = 0 /\ worker = NoWorker
  BY <1>0 DEF BeginRecovery, WorkerFollowsProgram, Alive, NoWorker
<1>s. session'.run = session.run /\ session'.state = "recovering" /\ session'.task = session.task
  BY <1>0 DEF BeginRecovery, BridgeTypeOK
<1>w. UNCHANGED <<world, listener, worker, journal, mishaps>> /\ session.state = "running"
  BY DEF BeginRecovery
<1>1. OwnedTypeOK'
  <2>1. WorldTypeOK' BY <1>0, <1>w DEF WorldTypeOK
  <2>2. ProcessTypeOK' BY <1>0, <1>w DEF ProcessTypeOK
  <2>3. BridgeTypeOK' BY <1>0, <1>w DEF BridgeTypeOK, BeginRecovery
  <2>4. listener' \in {"none", "worker", "outside"} /\ mishaps' \in 0 .. MaxMishaps
    BY <1>0, <1>w DEF OwnedTypeOK
  <2> QED BY <2>1, <2>2, <2>3, <2>4 DEF OwnedTypeOK
<1>2. WorkerFollowsProgram'
  BY <1>0, <1>b, <1>s, <1>w DEF WorkerFollowsProgram, Alive
<1>3. NumbersAreSpent'
  BY <1>0, <1>b, <1>s, <1>w DEF NumbersAreSpent
<1>4. NumbersAreOwn'
  BY <1>0, <1>b, <1>s, <1>w
    DEF WorkerFollowsProgram, NumbersAreSpent, NumbersAreOwn, JournalIsOfItsWorld,
        WorkerIsTraced, Alive, Connected, SameWorld, Readable
<1>5. JournalIsOfItsWorld'
  BY <1>0, <1>b, <1>s, <1>w
    DEF WorkerFollowsProgram, JournalIsOfItsWorld, Alive, Connected, SameWorld, Readable
<1>6. WorkerIsTraced'
  BY <1>0, <1>b, <1>s, <1>w
    DEF WorkerFollowsProgram, NumbersAreSpent, NumbersAreOwn, JournalIsOfItsWorld,
        WorkerIsTraced, Alive, Connected, SameWorld, Readable
<1>7. WorldIsGivenBack'
  BY <1>0, <1>b, <1>s, <1>w
    DEF WorkerFollowsProgram, WorkerIsTraced, WorldIsGivenBack, SettledIsClean,
        ManagerIsOwn, Alive
<1> QED BY <1>1, <1>2, <1>3, <1>4, <1>5, <1>6, <1>7

(* With no journal, one dealt with, or one of another world, nothing is    *)
(* left to destroy.                                                        *)
LEMMA SkipOwnedKeeps ==
    ASSUME OwnedInv, SkipOwned
    PROVE  OwnedInv'
<1> USE DEF OwnedInv, OwnedParts
<1>0. OwnedParts BY PartsHold
<1>b. ~Alive /\ worker.pc = 0 /\ worker.fresh = 0 /\ worker.cleaning = 0 /\ worker = NoWorker
  BY <1>0 DEF SkipOwned, Recovering, WorkerFollowsProgram, Alive, NoWorker
<1>s. /\ session'.run = session.run /\ session'.state = session.state
      /\ session'.task \in {"restore", "observe"} /\ session.state = "recovering"
  BY <1>0 DEF SkipOwned, Recovering, Then, BridgeTypeOK
<1>c. journal.state # "active" \/ ~SameWorld BY <1>0 DEF SkipOwned
<1>w. UNCHANGED <<world, listener, worker, journal, mishaps>> BY DEF SkipOwned
<1>1. OwnedTypeOK'
  <2>1. WorldTypeOK' BY <1>0, <1>w DEF WorldTypeOK
  <2>2. ProcessTypeOK' BY <1>0, <1>w DEF ProcessTypeOK
  <2>3. BridgeTypeOK' BY <1>0, <1>w, <1>s DEF BridgeTypeOK, SkipOwned, Then
  <2>4. listener' \in {"none", "worker", "outside"} /\ mishaps' \in 0 .. MaxMishaps
    BY <1>0, <1>w DEF OwnedTypeOK
  <2> QED BY <2>1, <2>2, <2>3, <2>4 DEF OwnedTypeOK
<1>2. WorkerFollowsProgram'
  BY <1>0, <1>b, <1>s, <1>c, <1>w DEF WorkerFollowsProgram, Alive
<1>3. NumbersAreSpent'
  BY <1>0, <1>b, <1>s, <1>c, <1>w DEF NumbersAreSpent
<1>4. NumbersAreOwn'
  BY <1>0, <1>b, <1>s, <1>c, <1>w
    DEF WorkerFollowsProgram, NumbersAreSpent, NumbersAreOwn, JournalIsOfItsWorld,
        WorkerIsTraced, Alive, Connected, SameWorld, Readable
<1>5. JournalIsOfItsWorld'
  BY <1>0, <1>b, <1>s, <1>c, <1>w
    DEF WorkerFollowsProgram, JournalIsOfItsWorld, Alive, Connected, SameWorld, Readable
<1>6. WorkerIsTraced'
  BY <1>0, <1>b, <1>s, <1>c, <1>w
    DEF WorkerFollowsProgram, NumbersAreSpent, NumbersAreOwn, JournalIsOfItsWorld,
        WorkerIsTraced, Alive, Connected, SameWorld, Readable
<1>7. WorldIsGivenBack'
  BY <1>0, <1>b, <1>s, <1>c, <1>w
    DEF WorkerFollowsProgram, WorkerIsTraced, WorldIsGivenBack, SettledIsClean,
        ManagerIsOwn, Alive
<1> QED BY <1>1, <1>2, <1>3, <1>4, <1>5, <1>6, <1>7

(* The settings are restored once the actors are gone.                     *)
LEMMA RestoreSettingsKeeps ==
    ASSUME OwnedInv, RestoreSettings
    PROVE  OwnedInv'
<1> USE DEF OwnedInv, OwnedParts
<1>0. OwnedParts BY PartsHold
<1>b. ~Alive /\ worker.pc = 0 /\ worker.fresh = 0 /\ worker.cleaning = 0 /\ worker = NoWorker
      /\ session.state = "recovering" /\ session.task = "restore"
  BY <1>0 DEF RestoreSettings, WorkerFollowsProgram, WorkerIsTraced, Alive, NoWorker
<1>n. /\ WorldTypeOK' /\ world'.episode = world.episode /\ world'.sync = FALSE
      /\ world'.next = world.next /\ world'.actors = world.actors
  BY <1>0 DEF RestoreSettings, WorldTypeOK
<1>s. session'.run = session.run /\ session'.state = session.state /\ session'.task = "observe"
  BY <1>0 DEF RestoreSettings, Then, BridgeTypeOK
<1>w. UNCHANGED <<listener, worker, journal, mishaps>> BY DEF RestoreSettings
<1>1. OwnedTypeOK'
  <2>1. WorldTypeOK' BY <1>n
  <2>2. ProcessTypeOK' BY <1>0, <1>w DEF ProcessTypeOK
  <2>3. BridgeTypeOK' BY <1>0, <1>w DEF BridgeTypeOK, RestoreSettings, Then
  <2>4. listener' \in {"none", "worker", "outside"} /\ mishaps' \in 0 .. MaxMishaps
    BY <1>0, <1>w DEF OwnedTypeOK
  <2> QED BY <2>1, <2>2, <2>3, <2>4 DEF OwnedTypeOK
<1>2. WorkerFollowsProgram'
  BY <1>0, <1>b, <1>n, <1>s, <1>w DEF WorkerFollowsProgram, Alive
<1>3. NumbersAreSpent'
  BY <1>0, <1>b, <1>n, <1>s, <1>w DEF NumbersAreSpent
<1>4. NumbersAreOwn'
  BY <1>0, <1>b, <1>n, <1>s, <1>w
    DEF WorkerFollowsProgram, NumbersAreSpent, NumbersAreOwn, JournalIsOfItsWorld,
        WorkerIsTraced, Alive, Connected, SameWorld, Readable
<1>5. JournalIsOfItsWorld'
  BY <1>0, <1>b, <1>n, <1>s, <1>w
    DEF WorkerFollowsProgram, JournalIsOfItsWorld, Alive, Connected, SameWorld, Readable
<1>6. WorkerIsTraced'
  BY <1>0, <1>b, <1>n, <1>s, <1>w
    DEF WorkerFollowsProgram, NumbersAreSpent, NumbersAreOwn, JournalIsOfItsWorld,
        WorkerIsTraced, Alive, Connected, SameWorld, Readable
<1>7. WorldIsGivenBack'
  BY <1>0, <1>b, <1>n, <1>s, <1>w
    DEF WorkerFollowsProgram, WorkerIsTraced, WorldIsGivenBack, SettledIsClean,
        ManagerIsOwn, Alive
<1> QED BY <1>1, <1>2, <1>3, <1>4, <1>5, <1>6, <1>7

(* A world is called settled when it is asynchronous and the recovery has  *)
(* been through it.                                                        *)
LEMMA SettleKeeps ==
    ASSUME OwnedInv, Settle
    PROVE  OwnedInv'
<1> USE DEF OwnedInv, OwnedParts
<1>0. OwnedParts BY PartsHold
<1>b. ~Alive /\ worker.pc = 0 /\ worker.fresh = 0 /\ worker.cleaning = 0 /\ worker = NoWorker
      /\ session.state = "recovering" /\ session.task = "observe"
  BY <1>0 DEF Settle, WorkerFollowsProgram, WorkerIsTraced, Alive, NoWorker
<1>s. /\ session'.run = session.run /\ session'.task = "none"
      /\ session'.state \in {"settled", "recovering"}
      /\ (session'.state = "settled" => ~world.sync)
  BY <1>0, <1>b DEF Settle, BridgeTypeOK
<1>w. UNCHANGED <<world, listener, worker, journal, mishaps>> BY DEF Settle
<1>1. OwnedTypeOK'
  <2>1. WorldTypeOK' BY <1>0, <1>w DEF WorldTypeOK
  <2>2. ProcessTypeOK' BY <1>0, <1>w DEF ProcessTypeOK
  <2>3. BridgeTypeOK' BY <1>0, <1>w, <1>b DEF BridgeTypeOK, Settle
  <2>4. listener' \in {"none", "worker", "outside"} /\ mishaps' \in 0 .. MaxMishaps
    BY <1>0, <1>w DEF OwnedTypeOK
  <2> QED BY <2>1, <2>2, <2>3, <2>4 DEF OwnedTypeOK
<1>2. WorkerFollowsProgram'
  BY <1>0, <1>b, <1>s, <1>w DEF WorkerFollowsProgram, Alive
<1>3. NumbersAreSpent'
  BY <1>0, <1>b, <1>s, <1>w DEF NumbersAreSpent
<1>4. NumbersAreOwn'
  BY <1>0, <1>b, <1>s, <1>w
    DEF WorkerFollowsProgram, NumbersAreSpent, NumbersAreOwn, JournalIsOfItsWorld,
        WorkerIsTraced, Alive, Connected, SameWorld, Readable
<1>5. JournalIsOfItsWorld'
  BY <1>0, <1>b, <1>s, <1>w
    DEF WorkerFollowsProgram, JournalIsOfItsWorld, Alive, Connected, SameWorld, Readable
<1>6. WorkerIsTraced'
  BY <1>0, <1>b, <1>s, <1>w
    DEF WorkerFollowsProgram, NumbersAreSpent, NumbersAreOwn, JournalIsOfItsWorld,
        WorkerIsTraced, Alive, Connected, SameWorld, Readable
<1>7. WorldIsGivenBack'
  BY <1>0, <1>b, <1>s, <1>w
    DEF WorkerFollowsProgram, WorkerIsTraced, WorldIsGivenBack, SettledIsClean,
        ManagerIsOwn, Alive
<1> QED BY <1>1, <1>2, <1>3, <1>4, <1>5, <1>6, <1>7

(* The recovery destroys the rows, and then nothing of the worker is       *)
(* left.                                                                   *)
LEMMA DestroyOwnedKeeps ==
    ASSUME OwnedInv, DestroyOwned
    PROVE  OwnedInv'
<1> USE DEF OwnedInv, OwnedParts
<1>0. OwnedParts BY PartsHold
<1>b. ~Alive /\ worker.pc = 0 /\ worker.fresh = 0 /\ worker.cleaning = 0 /\ worker = NoWorker
  BY <1>0 DEF DestroyOwned, Recovering, WorkerFollowsProgram, Alive, NoWorker
<1>c. /\ SameWorld /\ journal.state = "active" /\ Attributable
      /\ session.state = "recovering" /\ session.task = "none"
  BY DEF DestroyOwned, Recovering
<1>i. \A a \in world.actors : a.by = "worker" => a.id \in journal.rows
  <2>1. \A a \in world.actors : a.id \in journal.rows \cup journal.baseline
    BY <1>c DEF Attributable, Ids
  <2> QED BY <1>c, <2>1 DEF NumbersAreOwn
<1>n. /\ WorldTypeOK' /\ world'.episode = world.episode /\ world'.sync = world.sync
      /\ world'.next = world.next /\ \A a \in world'.actors : a \in world.actors
  <2>1. PICK spared \in SUBSET journal.rows :
           world' = [world EXCEPT !.actors = {a \in @ : a.id \notin journal.rows \ spared}]
    <3>1. CASE world' = [world EXCEPT !.actors = {a \in @ : a.id \notin journal.rows}]
      BY <3>1
    <3> QED BY <3>1 DEF DestroyOwned
  <2>2. PICK actors \in SUBSET world.actors :
           actors = {a \in world.actors : a.id \notin journal.rows \ spared}
    OBVIOUS
  <2>3. world' = [episode |-> world.episode, sync |-> world.sync, next |-> world.next,
                  actors |-> actors]
    BY <1>0, <2>1, <2>2 DEF WorldTypeOK
  <2>4. actors \in SUBSET AnActor BY <1>0 DEF WorldTypeOK, AnActor
  <2>5. WorldTypeOK' BY <1>0, <2>3, <2>4, WorldFields
  <2> QED BY <2>3, <2>5
<1>w. UNCHANGED <<listener, worker>> /\ mishaps' \in 0 .. MaxMishaps
  <2>1. Mishap \/ UNCHANGED mishaps BY DEF DestroyOwned
  <2> QED BY <2>1, MishapIsCounted DEF DestroyOwned
<1>s. \/ /\ UNCHANGED <<journal, session>>
      \/ /\ journal'.episode = journal.episode /\ journal'.baseline = journal.baseline
         /\ journal'.rows = journal.rows /\ journal'.state = "recovered"
         /\ session'.run = session.run /\ session'.state = session.state
         /\ session'.task = "restore"
         /\ \A a \in world'.actors : a.by # "worker"
  <2>1. CASE UNCHANGED <<journal, session>> BY <2>1
  <2>2. CASE /\ world' = [world EXCEPT !.actors = {a \in @ : a.id \notin journal.rows}]
             /\ journal' = [journal EXCEPT !.state = "recovered"] /\ Then("restore")
    <3>1. \A a \in world'.actors : a.id \notin journal.rows
      BY <1>0, <2>2 DEF WorldTypeOK
    <3>2. \A a \in world'.actors : a.by # "worker" BY <1>i, <1>n, <3>1
    <3> QED BY <1>0, <2>2, <3>2 DEF BridgeTypeOK, Then
  <2> QED BY <2>1, <2>2 DEF DestroyOwned
<1>1. OwnedTypeOK'
  <2>1. WorldTypeOK' BY <1>n
  <2>2. ProcessTypeOK' BY <1>0, <1>w DEF ProcessTypeOK
  <2>3. BridgeTypeOK' 
    <3>1. CASE UNCHANGED <<journal, session>> BY <1>0, <3>1 DEF BridgeTypeOK
    <3>2. CASE journal' = [journal EXCEPT !.state = "recovered"] /\ Then("restore")
      BY <1>0, <3>2 DEF BridgeTypeOK, Then
    <3> QED BY <3>1, <3>2 DEF DestroyOwned
  <2>4. listener' \in {"none", "worker", "outside"} /\ mishaps' \in 0 .. MaxMishaps
    BY <1>0, <1>w
  <2> QED BY <2>1, <2>2, <2>3, <2>4 DEF OwnedTypeOK
<1>2. WorkerFollowsProgram'
  BY <1>0, <1>b, <1>c, <1>n, <1>s, <1>w DEF WorkerFollowsProgram, Alive
<1>3. NumbersAreSpent'
  BY <1>0, <1>b, <1>c, <1>n, <1>s, <1>w DEF NumbersAreSpent
<1>4. NumbersAreOwn'
  BY <1>0, <1>b, <1>c, <1>n, <1>s, <1>w
    DEF WorkerFollowsProgram, NumbersAreSpent, NumbersAreOwn, JournalIsOfItsWorld,
        WorkerIsTraced, Alive, Connected, SameWorld, Readable
<1>5. JournalIsOfItsWorld'
  BY <1>0, <1>b, <1>c, <1>n, <1>s, <1>w
    DEF WorkerFollowsProgram, JournalIsOfItsWorld, Alive, Connected, SameWorld, Readable
<1>6. WorkerIsTraced'
  BY <1>0, <1>b, <1>c, <1>n, <1>s, <1>w
    DEF WorkerFollowsProgram, NumbersAreSpent, NumbersAreOwn, JournalIsOfItsWorld,
        WorkerIsTraced, Alive, Connected, SameWorld, Readable
<1>7. WorldIsGivenBack'
  BY <1>0, <1>b, <1>c, <1>n, <1>s, <1>w
    DEF WorkerFollowsProgram, WorkerIsTraced, WorldIsGivenBack, SettledIsClean,
        ManagerIsOwn, Alive
<1> QED BY <1>1, <1>2, <1>3, <1>4, <1>5, <1>6, <1>7

-----------------------------------------------------------------------------
(* The world and its worker, in the steps of the composition.              *)

(* An edit that leaves an actor in the world.                              *)
EditCreates ==
    /\ world' = [world EXCEPT !.actors = @ \cup {Actor(world.next, FALSE, "user")},
                              !.next = @ + 1]
    /\ UNCHANGED <<listener, worker, journal, session, mishaps>>

(* A command that ends the worker.                                         *)
CommandFails ==
    /\ worker.pc # 0 /\ Raise(worker.handles) /\ (Mishap \/ UNCHANGED mishaps)
    /\ UNCHANGED <<world, journal, session>>

OwnedPart == OwnedNext \/ EditCreates \/ CommandFails \/ UNCHANGED ownedVars

(* The invariant of the world and its worker holds at first.               *)
LEMMA OwnedInitially == OwnedInit => OwnedInv
<1> SUFFICES ASSUME OwnedInit PROVE OwnedInv OBVIOUS
<1>1. world = [episode |-> 1, sync |-> FALSE, next |-> 2,
               actors |-> {[id |-> 1, sensor |-> FALSE, by |-> "scene"]}]
  <2>1. PICK actors : actors = {Actor(id, FALSE, "scene") : id \in 1 .. 1 + 1 - 1} OBVIOUS
  <2>2. actors = {[id |-> 1, sensor |-> FALSE, by |-> "scene"]} BY <2>1 DEF Actor
  <2>3. NewWorld(1, 1, 1) = [episode |-> 1, sync |-> FALSE, next |-> 2, actors |-> actors]
    BY <2>1 DEF NewWorld
  <2>4. world = [episode |-> 1, sync |-> FALSE, next |-> 2, actors |-> actors]
    BY <2>3 DEF OwnedInit
  <2> QED BY <2>2, <2>4
<1>2. worker = NoWorker /\ journal = NoJournal /\ listener = "none" /\ mishaps = 0
      /\ session = [run |-> 0, state |-> "settled", task |-> "none"]
  BY DEF OwnedInit
<1>3. ~Alive /\ worker.pc = 0 /\ worker.fresh = 0 /\ worker.cleaning = 0 /\ worker.kind = "rig"
      /\ worker.manager = FALSE
  BY <1>2 DEF Alive, NoWorker
<1>4. OwnedTypeOK
  <2>1. WorldTypeOK
    <3>1. [id |-> 1, sensor |-> FALSE, by |-> "scene"] \in AnActor BY DEF AnActor
    <3>2. PICK actors \in SUBSET AnActor :
             actors = {[id |-> 1, sensor |-> FALSE, by |-> "scene"]}
      BY <3>1
    <3>3. [episode |-> 1, sync |-> FALSE, next |-> 2, actors |-> actors]
             \in [episode : Nat, sync : BOOLEAN, next : Nat, actors : SUBSET AnActor]
      OBVIOUS
    <3> QED BY <1>1, <3>2, <3>3 DEF WorldTypeOK, AnActor
  <2>2. ProcessTypeOK
    <3>1. worker = [kind |-> "rig", pc |-> 0, fresh |-> 0, handles |-> {}, manager |-> FALSE,
                    cleaning |-> 0, lost |-> FALSE]
      BY <1>2 DEF NoWorker
    <3>2. [kind |-> "rig", pc |-> 0, fresh |-> 0, handles |-> {}, manager |-> FALSE,
           cleaning |-> 0, lost |-> FALSE]
             \in [kind : KnownKinds, pc : Nat, fresh : Nat, handles : SUBSET Nat,
                  manager : BOOLEAN, cleaning : 0 .. 4, lost : BOOLEAN]
      BY DEF KnownKinds
    <3>3. worker.pc <= Len(Program(worker.kind))
      <4>1. Len(Program(worker.kind)) \in Nat BY <1>3, ProgramShape DEF KnownKinds
      <4> QED BY <1>3, <4>1
    <3> QED BY <3>1, <3>2, <3>3, CleanupLength DEF ProcessTypeOK, KnownKinds
  <2>3. BridgeTypeOK
    <3>1. journal \in [episode : Nat, baseline : SUBSET Nat, rows : SUBSET Nat,
                       manager : BOOLEAN, state : {"absent", "torn", "active", "recovered"}]
      BY <1>2 DEF NoJournal
    <3>2. 0 \in 0 .. MaxRuns BY Bounds
    <3>3. session \in [run : 0 .. MaxRuns, state : {"settled", "running", "recovering"},
                       task : {"none", "restore", "observe"}]
      BY <1>2, <3>2
    <3> QED BY <3>1, <3>3 DEF BridgeTypeOK
  <2>4. 0 \in 0 .. MaxMishaps BY Bounds
  <2> QED BY <1>2, <2>1, <2>2, <2>3, <2>4 DEF OwnedTypeOK
<1>5. WorkerFollowsProgram
  BY <1>2, <1>3, Programs DEF WorkerFollowsProgram, NoWorker, NoJournal
<1>6. NumbersAreSpent BY <1>1 DEF NumbersAreSpent
<1>7. ~SameWorld /\ journal.state = "absent" /\ journal.episode = 0 /\ world.episode = 1
  BY <1>1, <1>2 DEF SameWorld, Readable, NoJournal
<1>8. NumbersAreOwn BY <1>3, <1>7 DEF NumbersAreOwn
<1>9. JournalIsOfItsWorld BY <1>3, <1>7 DEF JournalIsOfItsWorld
<1>10. WorkerIsTraced BY <1>1, <1>2 DEF WorkerIsTraced
<1>11. WorldIsGivenBack BY <1>1, <1>3 DEF WorldIsGivenBack, SettledIsClean, ManagerIsOwn
<1> QED BY <1>4, <1>5, <1>6, <1>8, <1>9, <1>10, <1>11 DEF OwnedInv

(* Every step keeps it.                                                    *)
LEMMA OwnedKeeps ==
    ASSUME OwnedInv, OwnedPart
    PROVE  OwnedInv'
<1>1. CASE StartWorker BY <1>1, StartWorkerKeeps
<1>2. CASE WorkerStep
  BY <1>2, AdmitKeeps, CheckPortKeeps, LoadWorldKeeps, BeginJournalKeeps,
     SynchronizeKeeps, 
     AcquireManagerKeeps, SpawnActorKeeps, RegisterKeeps, StopOrFailKeeps, CleanUpKeeps
  DEF WorkerStep
<1>3. CASE KillWorker BY <1>3, StopOrFailKeeps
<1>4. CASE RecoveryStep
  BY <1>4, BeginRecoveryKeeps, DestroyOwnedKeeps, SkipOwnedKeeps, RestoreSettingsKeeps,
     SettleKeeps
  DEF RecoveryStep
<1>5. CASE RestartSimulator BY <1>5, RestartSimulatorKeeps
<1>6. CASE OutsideActs \/ OutsideLeaves BY <1>6, OutsideKeeps
<1>7. CASE EditCreates
  <2>1. mishaps' \in 0 .. MaxMishaps BY <1>7 DEF EditCreates, OwnedInv, OwnedTypeOK
  <2> QED BY <1>7, <2>1, StrangerKeeps DEF EditCreates
<1>8. CASE CommandFails
  <2>1. mishaps' \in 0 .. MaxMishaps BY <1>8, MishapIsCounted DEF CommandFails, OwnedInv
  <2> QED BY <1>8, <2>1, FailKeeps DEF CommandFails
<1>9. CASE UNCHANGED ownedVars
  BY <1>9
    DEF ownedVars, OwnedInv, OwnedTypeOK, WorldTypeOK, ProcessTypeOK, BridgeTypeOK, 
     WorkerFollowsProgram, NumbersAreSpent, NumbersAreOwn, JournalIsOfItsWorld, WorkerIsTraced,
     WorldIsGivenBack, SettledIsClean, ManagerIsOwn, Alive, Connected, SameWorld, Readable
<1> QED BY <1>1, <1>2, <1>3, <1>4, <1>5, <1>6, <1>7, <1>8, <1>9 DEF OwnedPart, OwnedNext

(* Nobody but its owner removes an actor of the scene.                     *)
LEMMA SceneStep ==
    ASSUME OwnedInv, OwnedPart, world'.episode = world.episode,
           NEW a \in world.actors, a.by = "scene"
    PROVE  a \in world'.actors
<1>1. CASE CleanUp
  <2>1. Alive BY <1>1 DEF CleanUp, Alive
  <2>2. Connected => a.id \notin worker.handles
    BY <2>1 DEF OwnedInv, NumbersAreOwn
  <2>3. Connected => \A step : a \in Kept(step) BY <2>2 DEF Kept
  <2>4. world \in [episode : Nat, sync : BOOLEAN, next : Nat, actors : SUBSET AnActor]
    BY DEF OwnedInv, OwnedTypeOK, WorldTypeOK, AnActor
  <2>5. \/ UNCHANGED world
        \/ Connected /\ world'.actors = Kept(Cleanup[worker.cleaning])
    BY <1>1, <2>4 DEF CleanUp
  <2> QED BY <2>3, <2>5
<1>2. CASE DestroyOwned
  <2>1. a.id \notin journal.rows BY <1>2 DEF DestroyOwned, OwnedInv, NumbersAreOwn
  <2> QED BY <1>2, <2>1 DEF DestroyOwned, OwnedInv, OwnedTypeOK, WorldTypeOK
<1>3. CASE LoadWorld \/ RestartSimulator
  <2>1. world.episode \in Nat BY TypeParts DEF OwnedInv
  <2>2. \A first, n : world' = NewWorld(world.episode + 1, first, n) => FALSE
    <3>1. TAKE first, n
    <3>2. HAVE world' = NewWorld(world.episode + 1, first, n)
    <3>3. world'.episode = world.episode + 1 BY <3>2 DEF NewWorld
    <3> QED BY <2>1, <3>3
  <2>3. UNCHANGED world
    <3>1. CASE LoadWorld BY <2>2, <3>1 DEF LoadWorld
    <3>2. CASE RestartSimulator BY <2>2, <3>2 DEF RestartSimulator
    <3> QED BY <1>3, <3>1, <3>2
  <2> QED BY <2>3
<1>4. CASE SpawnActor \/ OutsideActs \/ EditCreates
  BY <1>4 DEF SpawnActor, OutsideActs, EditCreates, OwnedInv, OwnedTypeOK, WorldTypeOK
<1>5. CASE OutsideLeaves
  BY <1>5 DEF OutsideLeaves, OwnedInv, OwnedTypeOK, WorldTypeOK
<1>6. CASE Synchronize \/ RestoreSettings
  BY <1>6 DEF Synchronize, RestoreSettings, OwnedInv, OwnedTypeOK, WorldTypeOK
<1>7. CASE \/ StartWorker \/ Admit \/ CheckPort \/ BeginJournal \/ AcquireManager \/ Register
           \/ StopOrFail \/ KillWorker \/ BeginRecovery \/ SkipOwned \/ Settle \/ CommandFails
           \/ UNCHANGED ownedVars
  BY <1>7
    DEF StartWorker, Admit, CheckPort, BeginJournal, AcquireManager, Register,
        StopOrFail, 
     KillWorker, BeginRecovery, SkipOwned, Settle, CommandFails, ownedVars
<1> QED
  BY <1>1, <1>2, <1>3, <1>4, <1>5, <1>6, <1>7
    DEF OwnedPart, OwnedNext, WorkerStep, RecoveryStep

-----------------------------------------------------------------------------
(* The control.                                                            *)

Answers == {"none", "waiting", "ok", "error", "timeout", "lost"}
Places == {"idle", "intended", "performed", "recorded", "answered"}

(* The type of the control, piece by piece.                                *)
LEMMA ControlParts ==
    ASSUME ControlTypeOK
    PROVE  /\ OwnedTypeOK /\ MaxRequests \in Nat /\ 0 \notin Requests
           /\ request \in Requests \cup {0} /\ files \in SUBSET Requests
           /\ snapshot \in BOOLEAN
           /\ DOMAIN answers = Requests /\ DOMAIN results = Requests
           /\ DOMAIN audit = Requests /\ DOMAIN effects = Requests
           /\ \A q \in Requests :
                 /\ answers[q] \in [run : 0 .. MaxRuns, answer : Answers]
                 /\ answers[q].run \in 0 .. MaxRuns /\ answers[q].answer \in Answers
                 /\ results[q] \in {"none", "ok", "error"}
                 /\ audit[q] \in {"none", "attempting", "ok", "error"}
                 /\ effects[q].run \in 0 .. MaxRuns /\ effects[q].times \in {0, 1}
           /\ doing.id \in Requests \cup {0} /\ doing.ok \in BOOLEAN /\ doing.at \in Places
           /\ MaxRuns \in Nat /\ session.run \in 0 .. MaxRuns
           /\ session.state \in {"settled", "running", "recovering"}
           /\ worker.pc \in Nat /\ worker.kind \in KnownKinds
<1>1. 0 \notin Requests /\ MaxRequests \in Nat
  BY ControlAssumption DEF Requests, ControlAssumption
<1>2. \A n \in 0 .. 1 : n \in {0, 1} OBVIOUS
<1>3. OwnedTypeOK BY DEF ControlTypeOK
<1>4. /\ session.run \in 0 .. MaxRuns /\ session.state \in {"settled", "running", "recovering"}
      /\ worker.pc \in Nat /\ worker.kind \in KnownKinds
  BY <1>3, TypeParts
<1> QED BY <1>1, <1>2, <1>3, <1>4, Bounds DEF ControlTypeOK, NoRequest, Answers, Places

(* A command in progress has the worker in its loop.                       *)
LEMMA AtWork ==
    ASSUME ControlInv, doing # Nothing
    PROVE  /\ At("loop") /\ doing.id \in Requests /\ Posted(doing.id)
           /\ worker.pc # 0 /\ Alive /\ session.state = "running"
           /\ worker.pc = Len(Program(worker.kind)) /\ worker.fresh = 0
<1>1. At("loop") /\ doing.id \in Requests /\ Posted(doing.id)
  BY DEF ControlInv, CommandIsDoneOnce
<1>2. worker.pc # 0 /\ Alive BY <1>1 DEF At, Alive
<1>3. session.state = "running" BY <1>2 DEF ControlInv, OwnedInv, WorkerFollowsProgram
<1>4. OwnedTypeOK BY DEF ControlInv, OwnedInv
<1>5. worker.pc = Len(Program(worker.kind)) /\ worker.fresh = 0 BY <1>1, <1>4, AtStep
<1> QED BY <1>1, <1>2, <1>3, <1>5

(* A worker that fails is no longer in its program.                        *)
LEMMA RaiseLeaves ==
    ASSUME OwnedTypeOK, NEW handles, Raise(handles)
    PROVE  worker'.pc = 0 /\ (Alive' => worker.pc # 0 /\ worker'.kind = worker.kind)
<1>1. CASE Exit
  BY <1>1 DEF Exit, NoWorker, Alive
<1>2. CASE /\ ~(worker.pc < Guarded(worker.kind))
           /\ worker' = [worker EXCEPT !.pc = 0, !.fresh = 0, !.cleaning = 1,
                                       !.handles = handles]
  <2>1. worker.pc # 0
    <3>1. worker.kind \in KnownKinds BY TypeParts
    <3>2. Guarded(worker.kind) > 0 BY <3>1, Programs DEF KnownKinds
    <3> QED BY <1>2, <3>2
  <2> QED BY <1>2, <2>1 DEF OwnedTypeOK, ProcessTypeOK
<1> QED BY <1>1, <1>2 DEF Raise

(* The steps of the composition are steps of world and worker.             *)
LEMMA ControlMovesOwned ==
    ASSUME ControlInv, ControlNext
    PROVE  OwnedPart
<1>1. CASE StartRun BY <1>1 DEF StartRun, OwnedPart, OwnedNext
<1>2. CASE RunWorker BY <1>2 DEF RunWorker, OwnedPart, OwnedNext
<1>3. CASE RecoverWorld BY <1>3 DEF RecoverWorld, RecoveryStep, OwnedPart, OwnedNext
<1>4. CASE OthersAct BY <1>4 DEF OthersAct, OwnedPart, OwnedNext
<1>5. CASE WriteSnapshot \/ SnapshotAges \/ PostCommand \/ TakeResult \/ GiveUp \/ CrashBridge \/ Remove
  BY <1>5
    DEF WriteSnapshot, SnapshotAges, PostCommand, TakeResult, GiveUp, CrashBridge,
        Remove, OwnedPart
<1>6. CASE Execute
  BY <1>6 DEF Execute, OwnedPart, EditCreates, ownedVars
<1>7. CASE Intend
  <2>1. worker.pc # 0 BY <1>7 DEF Intend, At
  <2> QED BY <1>7, <2>1 DEF Intend, FaultHere, Fail, OwnedPart, CommandFails, ownedVars
<1>8. CASE Record \/ Respond
  <2>1. worker.pc # 0
    <3>1. doing # Nothing BY <1>8 DEF Record, Respond, Nothing
    <3> QED BY <3>1, AtWork
  <2> QED
    BY <1>8, <2>1
      DEF Record, Respond, FaultHere, Fail, OwnedPart, CommandFails, ownedVars
<1> QED BY <1>1, <1>2, <1>3, <1>4, <1>5, <1>6, <1>7, <1>8 DEF ControlNext, CommandStep

(* A step of the world beside the mailbox: the run is the same one, no     *)
(* worker comes to life, and a command in progress goes on or ends with    *)
(* its worker.                                                             *)
LEMMA WorldMoves ==
    ASSUME ControlInv, OwnedInv', UNCHANGED <<request, answers, files, results, audit, effects>>,
           snapshot' \in BOOLEAN, session'.run = session.run,
           session'.state # "settled" => session.state # "settled",
           Alive' => Alive /\ worker'.kind = worker.kind,
           worker'.pc # 0 => worker.pc # 0,
           \/ doing' = doing /\ (doing # Nothing => At("loop")')
           \/ doing' = Nothing /\ (Performed => worker'.pc = 0)
    PROVE  ControlInv'
<1>0. UNCHANGED <<request, answers, files, results, audit, effects>> OBVIOUS
<1>a. ControlTypeOK /\ CommandsAreOfTheirRun /\ CommandIsDoneOnce /\ DeedIsKnown
      /\ EditsAreAccounted
  BY DEF ControlInv
<1>b. doing' = Nothing \/ doing' = doing OBVIOUS
<1>1. ControlTypeOK'
  <2>1. doing' \in [id : Requests \cup {0}, ok : BOOLEAN, at : Places]
    <3>1. Nothing \in [id : Requests \cup {0}, ok : BOOLEAN, at : Places]
      BY DEF Nothing, Places
    <3> QED BY <1>a, <1>b, <3>1 DEF ControlTypeOK, Places
  <2>2. OwnedTypeOK' BY DEF OwnedInv
  <2> QED BY <1>0, <1>a, <2>1, <2>2 DEF ControlTypeOK, Places
<1>2. CommandsAreOfTheirRun'
  BY <1>0, <1>a DEF CommandsAreOfTheirRun, Posted
<1>3. CommandIsDoneOnce'
  <2>1. Nothing.at = "idle" BY DEF Nothing
  <2>2. (doing.at = "idle" <=> doing = Nothing)'
    BY <1>a, <1>b, <2>1 DEF CommandIsDoneOnce
  <2>3. (doing # Nothing => At("loop") /\ doing.id \in Requests /\ Posted(doing.id))'
    BY <1>0, <1>a DEF CommandIsDoneOnce, Posted
  <2>4. (doing.at = "intended" => effects[doing.id].times = 0)'
    BY <1>0, <1>a, <1>b, <2>1 DEF CommandIsDoneOnce
  <2>5. ASSUME NEW q \in files, effects[q].times > 0, worker'.pc # 0
        PROVE  Performed' /\ doing'.id = q
    <3>1. Performed /\ doing.id = q BY <1>a, <2>5 DEF CommandIsDoneOnce
    <3> QED BY <2>5, <3>1 DEF Performed
  <2> QED BY <1>0, <2>2, <2>3, <2>4, <2>5 DEF CommandIsDoneOnce
<1>4. DeedIsKnown'
  <2>1. CASE doing' = Nothing BY <2>1 DEF DeedIsKnown, Performed, Nothing
  <2>2. CASE doing' = doing /\ doing # Nothing /\ At("loop")'
    <3>1. Alive' BY <2>2 DEF At, Alive
    <3>2. worker'.kind = worker.kind BY <3>1
    <3> QED BY <1>0, <1>a, <2>2, <3>2 DEF DeedIsKnown, Performed, Audited
  <2> QED BY <2>1, <2>2
<1>5. EditsAreAccounted'
  <2>1. CommandMeetsItsRun' BY <1>0, <1>a DEF EditsAreAccounted, CommandMeetsItsRun
  <2>2. EffectIsAudited'
    BY <1>0, <1>a DEF EditsAreAccounted, EffectIsAudited, Audited
  <2> QED BY <2>1, <2>2 DEF EditsAreAccounted
<1> QED BY <1>1, <1>2, <1>3, <1>4, <1>5 DEF ControlInv

(* What a worker's own steps do to its place in the program.               *)
LEMMA WorkerPlace ==
    ASSUME OwnedInv, WorkerStep \/ KillWorker
    PROVE  /\ UNCHANGED session /\ (worker'.pc # 0 => worker.pc # 0)
           /\ (Alive' => Alive /\ worker'.kind = worker.kind)
           /\ (At("loop") => worker'.pc = 0)
<1>0. OwnedTypeOK /\ worker \in [kind : {"rig", "rule", "native"}, pc : Nat, fresh : Nat,
                                 handles : SUBSET Nat, manager : BOOLEAN,
                                 cleaning : 0 .. Len(Cleanup), lost : BOOLEAN]
  BY DEF OwnedInv, OwnedTypeOK, ProcessTypeOK
<1>1. CASE KillWorker
  BY <1>1 DEF KillWorker, Exit, NoWorker, Alive
<1>2. CASE StopOrFail
  BY <1>0, <1>2, RaiseLeaves DEF StopOrFail, Alive
<1>3. CASE CleanUp
  <2>1. worker.pc = 0 /\ worker.cleaning # 0
    BY <1>3 DEF CleanUp, OwnedInv, WorkerFollowsProgram
  <2>2. worker' = NoWorker \/ (worker'.pc = worker.pc /\ worker'.kind = worker.kind)
    BY <1>0, <1>3 DEF CleanUp, Exit
  <2> QED BY <1>3, <2>1, <2>2 DEF CleanUp, Alive, At, NoWorker
<1>4. CASE Admit \/ CheckPort \/ LoadWorld \/ BeginJournal \/ Synchronize
  <2>1. PICK step \in {"admit", "port", "load", "journal", "settings"} : At(step)
    BY <1>4 DEF Admit, CheckPort, LoadWorld, BeginJournal, Synchronize
  <2>2. (worker' = Onward \/ worker' = NoWorker) /\ UNCHANGED session
    BY <1>4 DEF Admit, CheckPort, LoadWorld, BeginJournal, Synchronize, Exit
  <2>3. worker'.kind = worker.kind \/ worker' = NoWorker BY <1>0, <2>2 DEF Onward
  <2>4. worker.pc # 0 /\ ~At("loop") BY <2>1 DEF At
  <2> QED BY <2>2, <2>3, <2>4 DEF Alive, NoWorker
<1>5. CASE AcquireManager
  <2>1. worker.pc # 0 /\ ~At("loop") /\ UNCHANGED session BY <1>5 DEF AcquireManager, At
  <2>2. \/ worker'.kind = worker.kind
        \/ worker'.pc = 0 /\ (Alive' => worker'.kind = worker.kind)
    <3>1. CASE worker' = Onward \/ worker' = [Onward EXCEPT !.manager = TRUE]
      BY <1>0, <3>1 DEF Onward
    <3>2. CASE Raise(worker.handles) BY <1>0, <3>2, RaiseLeaves
    <3> QED BY <1>5, <3>1, <3>2 DEF AcquireManager
  <2> QED BY <2>1, <2>2 DEF Alive
<1>6. CASE SpawnActor
  <2>1. worker.pc # 0 /\ ~At("loop") /\ UNCHANGED session
    BY <1>6 DEF SpawnActor, Creates, At
  <2>2. \/ worker'.kind = worker.kind
        \/ worker'.pc = 0 /\ (Alive' => worker'.kind = worker.kind)
    <3>1. CASE worker' = [worker EXCEPT !.fresh = world.next] BY <1>0, <3>1
    <3>2. CASE Raise(worker.handles) BY <1>0, <3>2, RaiseLeaves
    <3> QED BY <1>6, <3>1, <3>2 DEF SpawnActor
  <2> QED BY <2>1, <2>2 DEF Alive
<1>7. CASE Register
  <2>1. worker.pc # 0 /\ ~At("loop") /\ UNCHANGED session
    <3>1. worker.fresh # 0 /\ worker.pc > JournalAt(worker.kind)
      BY <1>7 DEF Register, OwnedInv, WorkerFollowsProgram
    <3>2. worker.pc # 0 BY <1>0, <3>1, TypeParts
    <3> QED BY <1>7, <3>1, <3>2 DEF Register, At
  <2>2. \/ worker'.kind = worker.kind
        \/ worker'.pc = 0 /\ (Alive' => worker'.kind = worker.kind)
    <3>1. CASE worker' = [Onward EXCEPT !.handles = @ \cup {worker.fresh}, !.fresh = 0]
      BY <1>0, <3>1 DEF Onward
    <3>2. CASE Raise(worker.handles \cup {worker.fresh}) BY <1>0, <3>2, RaiseLeaves
    <3> QED BY <1>7, <3>1, <3>2 DEF Register
  <2> QED BY <2>1, <2>2 DEF Alive
<1> QED BY <1>1, <1>2, <1>3, <1>4, <1>5, <1>6, <1>7 DEF WorkerStep

(* A worker that goes its way leaves no command behind it in progress.     *)
LEMMA RunWorkerKeeps ==
    ASSUME ControlInv, RunWorker, OwnedInv'
    PROVE  ControlInv'
<1>1. OwnedInv /\ (WorkerStep \/ KillWorker) BY DEF RunWorker, ControlInv
<1>2. /\ UNCHANGED session /\ (worker'.pc # 0 => worker.pc # 0)
      /\ (Alive' => Alive /\ worker'.kind = worker.kind)
      /\ (At("loop") => worker'.pc = 0)
  BY <1>1, WorkerPlace
<1>3. doing' = Nothing /\ (Performed => worker'.pc = 0)
  <2>1. CASE doing = Nothing
    BY <2>1 DEF RunWorker, Performed, Nothing
  <2>2. CASE doing # Nothing
    BY <1>2, <2>2, AtWork DEF RunWorker
  <2> QED BY <2>1, <2>2
<1>4. UNCHANGED <<request, answers, files, results, audit, effects, snapshot>>
  BY DEF RunWorker
<1>5. snapshot' \in BOOLEAN BY <1>4 DEF ControlInv, ControlTypeOK
<1> QED BY <1>2, <1>3, <1>4, <1>5, WorldMoves

(* Recovery, other clients, and the age of a snapshot.                     *)
LEMMA BesideKeeps ==
    ASSUME ControlInv, RecoverWorld \/ OthersAct \/ WriteSnapshot \/ SnapshotAges, OwnedInv'
    PROVE  ControlInv'
<1>0. /\ session \in [run : 0 .. MaxRuns, state : {"settled", "running", "recovering"},
                      task : {"none", "restore", "observe"}]
      /\ worker \in [kind : {"rig", "rule", "native"}, pc : Nat, fresh : Nat,
                     handles : SUBSET Nat, manager : BOOLEAN,
                     cleaning : 0 .. Len(Cleanup), lost : BOOLEAN]
      /\ snapshot \in BOOLEAN
  BY DEF ControlInv, ControlTypeOK, OwnedTypeOK, BridgeTypeOK, ProcessTypeOK
<1>1. UNCHANGED <<request, answers, files, results, audit, effects, doing>>
  BY DEF RecoverWorld, OthersAct, WriteSnapshot, SnapshotAges, controlVars
<1>2. snapshot' \in BOOLEAN
  BY <1>0 DEF RecoverWorld, OthersAct, WriteSnapshot, SnapshotAges, controlVars
<1>3. /\ session'.run = session.run
      /\ (session'.state # "settled" => session.state # "settled")
      /\ worker'.pc = worker.pc /\ worker'.fresh = worker.fresh /\ worker'.kind = worker.kind
      /\ worker'.cleaning = worker.cleaning
  <2>1. CASE RestartSimulator
    BY <1>0, <2>1 DEF RestartSimulator
  <2>2. CASE OutsideActs \/ OutsideLeaves \/ WriteSnapshot \/ SnapshotAges
    BY <2>2 DEF OutsideActs, OutsideLeaves, WriteSnapshot, SnapshotAges, ownedVars
  <2>3. CASE BeginRecovery BY <1>0, <2>3 DEF BeginRecovery
  <2>4. CASE DestroyOwned \/ SkipOwned
    BY <1>0, <2>4 DEF DestroyOwned, SkipOwned, Recovering, Then
  <2>5. CASE RestoreSettings \/ Settle
    BY <1>0, <2>5
      DEF RestoreSettings, Settle, Then, ControlInv, OwnedInv, WorkerIsTraced
  <2> QED BY <2>1, <2>2, <2>3, <2>4, <2>5 DEF RecoverWorld, RecoveryStep, OthersAct
<1>4. (Alive' => Alive) /\ (doing # Nothing => At("loop")')
  <2>1. Alive' => Alive BY <1>3 DEF Alive
  <2>2. doing # Nothing => At("loop") BY AtWork
  <2>3. At("loop") => At("loop")' BY <1>3 DEF At
  <2> QED BY <2>1, <2>2, <2>3
<1> QED BY <1>1, <1>2, <1>3, <1>4, WorldMoves

(* A command that ends the worker is no longer in progress.                *)
LEMMA FailEndsIt ==
    ASSUME ControlInv, OwnedInv', Fail, worker.pc # 0, UNCHANGED session,
           UNCHANGED <<request, answers, files, results, audit, effects, snapshot>>
    PROVE  ControlInv'
<1>1. OwnedTypeOK BY DEF ControlInv, OwnedInv
<1>2. worker'.pc = 0 /\ (Alive' => Alive /\ worker'.kind = worker.kind) /\ doing' = Nothing
  BY <1>1, RaiseLeaves DEF Fail, Alive
<1>3. snapshot' \in BOOLEAN BY DEF ControlInv, ControlTypeOK
<1> QED BY <1>2, <1>3, WorldMoves

(* A new run begins with an empty directory and an empty audit.            *)
LEMMA StartRunKeeps ==
    ASSUME ControlInv, StartRun, OwnedInv'
    PROVE  ControlInv'
<1>0. /\ ControlTypeOK /\ CommandsAreOfTheirRun /\ CommandIsDoneOnce /\ EditsAreAccounted
      /\ session.run \in Nat
  <2>1. session.run \in Nat BY ControlParts DEF ControlInv
  <2> QED BY <2>1 DEF ControlInv
<1>1. session'.run = session.run + 1 /\ session.state = "settled"
  BY DEF StartRun, StartWorker
<1>2. ~Alive BY <1>1 DEF ControlInv, OwnedInv, WorkerFollowsProgram
<1>3. doing = Nothing BY <1>2, AtWork
<1>4. /\ UNCHANGED <<request, answers, doing, effects>> /\ files' = {} /\ snapshot' = FALSE
      /\ results' = [q \in Requests |-> "none"] /\ audit' = [q \in Requests |-> "none"]
  BY DEF StartRun, Cleared
<1>5. ControlTypeOK'
  <2>1. OwnedTypeOK' BY DEF OwnedInv
  <2> QED BY <1>0, <1>4, <2>1 DEF ControlTypeOK
<1>6. \A q \in Requests : answers[q].run <= session.run /\ answers[q].run \in Nat
  <2>1. \A q \in Requests : answers[q].run \in 0 .. MaxRuns BY <1>0, ControlParts
  <2> QED BY <1>0, <2>1 DEF CommandsAreOfTheirRun
<1>7. CommandsAreOfTheirRun'
  <2>1. \A q \in Requests : answers[q].run <= session'.run BY <1>0, <1>1, <1>6
  <2>2. session'.run > 0 BY <1>0, <1>1
  <2> QED BY <1>0, <1>4, <2>1, <2>2 DEF CommandsAreOfTheirRun, Posted
<1>8. CommandIsDoneOnce' /\ DeedIsKnown'
  BY <1>3, <1>4 DEF CommandIsDoneOnce, DeedIsKnown, Performed, Nothing
<1>9. EditsAreAccounted'
  <2>1. CommandMeetsItsRun' BY <1>0, <1>4 DEF EditsAreAccounted, CommandMeetsItsRun
  <2>2. ASSUME NEW q \in Requests, effects[q].times > 0 PROVE effects[q].run # session'.run
    <3>1. effects[q].run = answers[q].run BY <1>0, <2>2 DEF CommandsAreOfTheirRun
    <3> QED BY <1>0, <1>1, <1>6, <3>1
  <2>3. EffectIsAudited' BY <1>4, <2>2 DEF EffectIsAudited
  <2> QED BY <2>1, <2>3 DEF EditsAreAccounted
<1> QED BY <1>5, <1>7, <1>8, <1>9 DEF ControlInv

(* A command of the bridge: a number not used before, for the current run. *)
LEMMA PostCommandKeeps ==
    ASSUME ControlInv, PostCommand, OwnedInv'
    PROVE  ControlInv'
<1>0. /\ ControlTypeOK /\ CommandsAreOfTheirRun /\ CommandIsDoneOnce /\ DeedIsKnown
      /\ EditsAreAccounted
  BY DEF ControlInv
<1>1. PICK q \in Requests :
         /\ answers[q] = Unanswered /\ request' = q /\ files' = files \cup {q}
         /\ answers' = [answers EXCEPT ![q] = [run |-> session.run, answer |-> "waiting"]]
  BY DEF PostCommand
<1>2. /\ UNCHANGED <<ownedVars, results, audit, doing, snapshot, effects>>
      /\ session.state # "settled" /\ UNCHANGED <<worker, session>>
  BY DEF PostCommand, ownedVars
<1>3. /\ answers'[q].run = session.run /\ answers'[q].answer = "waiting"
      /\ answers'[q] # Unanswered
      /\ \A p \in Requests : p # q => answers'[p] = answers[p]
      /\ DOMAIN answers = Requests
  BY <1>0, <1>1, ControlParts DEF Unanswered
<1>4. effects[q].times = 0 /\ ~Posted(q) /\ q \notin files
  <2>1. ~Posted(q) BY <1>1 DEF Posted, Unanswered
  <2>2. effects[q].times \in {0, 1} BY <1>0, ControlParts
  <2> QED BY <1>0, <2>1, <2>2 DEF CommandsAreOfTheirRun
<1>5. ControlTypeOK'
  <2>1. OwnedTypeOK' BY DEF OwnedInv
  <2>2. session.run \in 0 .. MaxRuns BY <1>0, ControlParts
  <2>3. [run |-> session.run, answer |-> "waiting"] \in [run : 0 .. MaxRuns, answer : Answers]
    BY <2>2 DEF Answers
  <2>4. answers' \in [Requests -> [run : 0 .. MaxRuns, answer : Answers]]
    BY <1>0, <1>1, <2>3 DEF ControlTypeOK, Answers
  <2> QED BY <1>0, <1>1, <1>2, <2>1, <2>4 DEF ControlTypeOK, Answers
<1>6. CommandsAreOfTheirRun'
  <2>1. session.run > 0 BY <1>0, <1>2 DEF CommandsAreOfTheirRun
  <2>2. Posted(q)' BY <1>3 DEF Posted
  <2>3. ASSUME NEW p \in Requests
        PROVE  /\ answers'[p].run <= session.run
               /\ Posted(p)' <=> answers'[p] # Unanswered
               /\ p \in files' => Posted(p)' /\ answers'[p].run = session.run
               /\ effects[p].times > 0 => Posted(p)' /\ effects[p].run = answers'[p].run
    <3>1. CASE p = q
      <4>1. session.run \in Nat BY <1>0, ControlParts
      <4> QED BY <1>3, <1>4, <2>2, <3>1, <4>1
    <3>2. CASE p # q BY <1>0, <1>1, <1>3, <3>2 DEF CommandsAreOfTheirRun, Posted
    <3> QED BY <3>1, <3>2
  <2>4. Posted(request)' BY <1>1, <2>2 DEF Posted
  <2> QED BY <1>2, <2>1, <2>3, <2>4 DEF CommandsAreOfTheirRun
<1>7. CommandIsDoneOnce'
  <2>1. \A p \in Requests : Posted(p) => Posted(p)' BY <1>3 DEF Posted
  <2>2. At("loop") <=> At("loop")' BY <1>2 DEF At
  <2>3. ~(effects[q].times > 0) BY <1>4
  <2> QED BY <1>0, <1>1, <1>2, <2>1, <2>2, <2>3 DEF CommandIsDoneOnce, Performed
<1>8. DeedIsKnown' BY <1>0, <1>2 DEF DeedIsKnown, Performed, Audited
<1>9. EditsAreAccounted'
  <2>1. CommandMeetsItsRun'
    BY <1>0, <1>2, <1>3, <1>4 DEF EditsAreAccounted, CommandMeetsItsRun
  <2>2. EffectIsAudited'
    BY <1>0, <1>2 DEF EditsAreAccounted, EffectIsAudited, Audited, Alive
  <2> QED BY <2>1, <2>2 DEF EditsAreAccounted
<1> QED BY <1>5, <1>6, <1>7, <1>8, <1>9 DEF ControlInv

(* The bridge has its answer, or none.                                     *)
LEMMA AnsweredKeeps ==
    ASSUME ControlInv, TakeResult \/ GiveUp \/ CrashBridge, OwnedInv'
    PROVE  ControlInv'
<1>0. /\ ControlTypeOK /\ CommandsAreOfTheirRun /\ CommandIsDoneOnce /\ DeedIsKnown
      /\ EditsAreAccounted
  BY DEF ControlInv
<1>1. request \in Requests
  BY <1>0, ControlParts DEF TakeResult, GiveUp, CrashBridge, NoRequest
<1>2. PICK answer \in {"ok", "error", "timeout", "lost"} : Answered(answer)
  <2>1. results[request] \in {"none", "ok", "error"} BY <1>0, <1>1, ControlParts
  <2> QED BY <2>1 DEF TakeResult, GiveUp, CrashBridge
<1>3. /\ UNCHANGED <<worker, session, audit, doing, snapshot, effects>> /\ request' = 0
      /\ files' \subseteq files
      /\ \/ results' = results \/ results' = [results EXCEPT ![request] = "none"]
  BY <1>2 DEF TakeResult, GiveUp, CrashBridge, Answered, ownedVars, NoRequest
<1>4. answers' = [answers EXCEPT ![request].answer = answer] BY <1>2 DEF Answered
<1>5. /\ answers'[request].run = answers[request].run /\ answers'[request].answer = answer
      /\ \A p \in Requests : p # request => answers'[p] = answers[p]
  BY <1>0, <1>1, <1>4 DEF ControlTypeOK
<1>6. \A p \in Requests : answers'[p].run = answers[p].run /\ (Posted(p)' <=> Posted(p))
  <2>1. Posted(request) BY <1>0, <1>1, ControlParts DEF CommandsAreOfTheirRun, NoRequest
  <2>2. \A p \in Requests : Posted(p)' <=> answers'[p].answer # "none" BY DEF Posted
  <2> QED BY <1>2, <1>5, <2>1, <2>2 DEF Posted
<1>7. ControlTypeOK'
  <2>1. OwnedTypeOK' BY DEF OwnedInv
  <2>2. answers' \in [Requests -> [run : 0 .. MaxRuns, answer : Answers]]
    BY <1>0, <1>1, <1>2, <1>4 DEF ControlTypeOK, Answers
  <2>3. results' \in [Requests -> {"none", "ok", "error"}]
    BY <1>0, <1>3 DEF ControlTypeOK
  <2> QED BY <1>0, <1>3, <2>1, <2>2, <2>3 DEF ControlTypeOK, Answers, NoRequest
<1>8. CommandsAreOfTheirRun'
  <2>1. ASSUME NEW p \in Requests PROVE Posted(p)' <=> answers'[p] # Unanswered
    <3>1. CASE p = request
      <4>1. Posted(request)
        BY <1>0, <1>1, ControlParts DEF CommandsAreOfTheirRun, NoRequest
      <4> QED BY <1>5, <1>6, <3>1, <4>1 DEF Unanswered
    <3>2. CASE p # request
      BY <1>0, <1>5, <1>6, <3>2 DEF CommandsAreOfTheirRun
    <3> QED BY <3>1, <3>2
  <2> QED BY <1>0, <1>3, <1>6, <2>1 DEF CommandsAreOfTheirRun, NoRequest
<1>9. CommandIsDoneOnce'
  <2>1. At("loop") <=> At("loop")' BY <1>3 DEF At
  <2> QED BY <1>0, <1>3, <1>6, <2>1 DEF CommandIsDoneOnce, Performed
<1>10. DeedIsKnown' BY <1>0, <1>3 DEF DeedIsKnown, Performed, Audited
<1>11. EditsAreAccounted'
  <2>1. CommandMeetsItsRun'
    BY <1>0, <1>3, <1>6 DEF EditsAreAccounted, CommandMeetsItsRun
  <2>2. EffectIsAudited'
    BY <1>0, <1>3 DEF EditsAreAccounted, EffectIsAudited, Audited, Alive
  <2> QED BY <2>1, <2>2 DEF EditsAreAccounted
<1> QED BY <1>7, <1>8, <1>9, <1>10, <1>11 DEF ControlInv

(* A command is taken up.                                                  *)
LEMMA IntendKeeps ==
    ASSUME ControlInv, Intend, OwnedInv'
    PROVE  ControlInv'
<1>0. /\ ControlTypeOK /\ CommandsAreOfTheirRun /\ CommandIsDoneOnce /\ DeedIsKnown
      /\ EditsAreAccounted
  BY DEF ControlInv
<1>1. At("loop") /\ worker.pc # 0 /\ doing = Nothing BY DEF Intend, At
<1>2. UNCHANGED <<world, journal, session, request, answers, files, results, snapshot, effects>>
  BY DEF Intend
<1>3. CASE Fail /\ UNCHANGED audit BY <1>1, <1>2, <1>3, FailEndsIt
<1>4. CASE \E q \in files :
              /\ doing' = [Nothing EXCEPT !.id = q, !.at = "intended"]
              /\ UNCHANGED <<worker, listener, mishaps>>
              /\ \/ ~Audited /\ UNCHANGED audit
                 \/ audit[q] = "none" /\ audit' = [audit EXCEPT ![q] = "attempting"]
  <2>1. PICK q \in files :
              /\ doing' = [Nothing EXCEPT !.id = q, !.at = "intended"]
              /\ UNCHANGED <<worker, listener, mishaps>>
              /\ \/ ~Audited /\ UNCHANGED audit
                 \/ audit[q] = "none" /\ audit' = [audit EXCEPT ![q] = "attempting"]
    BY <1>4
  <2>2. q \in Requests /\ Posted(q) BY <1>0, ControlParts DEF CommandsAreOfTheirRun
  <2>3. doing' = [id |-> q, at |-> "intended", ok |-> FALSE] BY <2>1 DEF Nothing
  <2>4. doing'.id = q /\ doing'.at = "intended" /\ doing' # Nothing BY <2>3 DEF Nothing
  <2>5. effects[q].times = 0
    <3>1. ~(effects[q].times > 0)
      BY <1>0, <1>1 DEF CommandIsDoneOnce, Performed, Nothing
    <3> QED BY <1>0, <2>2, <3>1, ControlParts
  <2>6. \A p \in Requests : p # q => audit'[p] = audit[p]
    BY <1>0, <2>1, <2>2 DEF ControlTypeOK
  <2>7. Audited => audit'[q] = "attempting"
    BY <1>0, <2>1, <2>2 DEF ControlTypeOK
  <2>8. ControlTypeOK'
    <3>1. OwnedTypeOK' BY DEF OwnedInv
    <3>2. doing' \in [id : Requests \cup {0}, ok : BOOLEAN, at : Places]
      BY <2>2, <2>3 DEF Places
    <3>3. audit' \in [Requests -> {"none", "attempting", "ok", "error"}]
      BY <1>0, <2>1, <2>2 DEF ControlTypeOK
    <3> QED BY <1>0, <1>2, <3>1, <3>2, <3>3 DEF ControlTypeOK, Places
  <2>9. CommandsAreOfTheirRun' BY <1>0, <1>2 DEF CommandsAreOfTheirRun, Posted
  <2>10. CommandIsDoneOnce'
    <3>1. At("loop")' BY <1>1, <2>1 DEF At
    <3>2. \A p \in files : ~(effects[p].times > 0)
      BY <1>0, <1>1 DEF CommandIsDoneOnce, Performed, Nothing
    <3> QED BY <1>2, <2>2, <2>4, <2>5, <3>1, <3>2 DEF CommandIsDoneOnce, Posted
  <2>11. DeedIsKnown' BY <2>1, <2>4, <2>7 DEF DeedIsKnown, Performed, Audited
  <2>12. EditsAreAccounted'
    <3>1. CommandMeetsItsRun' BY <1>0, <1>2 DEF EditsAreAccounted, CommandMeetsItsRun
    <3>2. EffectIsAudited'
      BY <1>0, <1>2, <2>1, <2>2, <2>5, <2>6, <2>7
      DEF EditsAreAccounted, EffectIsAudited, Audited, Alive
    <3> QED BY <3>1, <3>2 DEF EditsAreAccounted
  <2> QED BY <2>8, <2>9, <2>10, <2>11, <2>12 DEF ControlInv
<1> QED BY <1>3, <1>4 DEF Intend, FaultHere

(* The deed: once, in the run the command was sent to.                     *)
LEMMA ExecuteKeeps ==
    ASSUME ControlInv, Execute, OwnedInv'
    PROVE  ControlInv'
<1>0. /\ ControlTypeOK /\ CommandsAreOfTheirRun /\ CommandIsDoneOnce /\ DeedIsKnown
      /\ EditsAreAccounted
  BY DEF ControlInv
<1>1. doing.at = "intended" /\ doing # Nothing BY DEF Execute, Nothing
<1>2. UNCHANGED <<listener, worker, journal, session, mishaps,
                  request, answers, files, results, audit, snapshot>>
  BY DEF Execute
<1>3. /\ At("loop") /\ doing.id \in Requests /\ Posted(doing.id) /\ worker.pc # 0
  BY <1>1, AtWork
<1>4. effects[doing.id].times = 0 BY <1>0, <1>1 DEF CommandIsDoneOnce
<1>5. PICK ok \in BOOLEAN, done \in BOOLEAN :
         /\ Perform(doing.id, ok, done) /\ (done => doing.id \in files) /\ (ok => done)
  BY DEF Execute
<1>6. doing' = [id |-> doing.id, at |-> "performed", ok |-> ok]
  BY <1>0, <1>5 DEF Perform, ControlTypeOK
<1>7. doing'.id = doing.id /\ doing'.at = "performed" /\ doing'.ok = ok /\ doing' # Nothing
  BY <1>6 DEF Nothing
<1>8. /\ \A p \in Requests : p # doing.id => effects'[p] = effects[p]
      /\ done => effects'[doing.id] = [run |-> session.run, times |-> 1]
      /\ ~done => effects' = effects
  <2>1. effects[doing.id].times + 1 = 1 BY <1>4
  <2> QED BY <1>0, <1>3, <1>5, <2>1 DEF Perform, ControlTypeOK
<1>9. done => answers[doing.id].run = session.run
  BY <1>0, <1>3, <1>5 DEF CommandsAreOfTheirRun
<1>10. ControlTypeOK'
  <2>1. OwnedTypeOK' BY DEF OwnedInv
  <2>2. doing' \in [id : Requests \cup {0}, ok : BOOLEAN, at : Places]
    BY <1>3, <1>6 DEF Places
  <2>3. effects' \in [Requests -> [run : 0 .. MaxRuns, times : 0 .. 1]]
    <3>1. session.run \in 0 .. MaxRuns BY <1>0, ControlParts
    <3>2. [run |-> session.run, times |-> effects[doing.id].times + 1]
             \in [run : 0 .. MaxRuns, times : 0 .. 1]
      BY <1>4, <3>1
    <3> QED BY <1>0, <1>5, <3>2 DEF Perform, ControlTypeOK
  <2> QED BY <1>0, <1>2, <2>1, <2>2, <2>3 DEF ControlTypeOK, Places
<1>11. CommandsAreOfTheirRun'
  <2>1. \A q \in Requests : effects'[q].times > 0 => Posted(q) /\ effects'[q].run = answers[q].run
    BY <1>0, <1>3, <1>4, <1>8, <1>9 DEF CommandsAreOfTheirRun
  <2> QED BY <1>0, <1>2, <2>1 DEF CommandsAreOfTheirRun, Posted
<1>12. CommandIsDoneOnce'
  <2>1. At("loop")' BY <1>2, <1>3 DEF At
  <2>2. \A q \in files : q # doing.id => ~(effects'[q].times > 0)
    <3>1. files \subseteq Requests BY <1>0 DEF ControlTypeOK
    <3> QED BY <1>0, <1>1, <1>3, <1>8, <3>1 DEF CommandIsDoneOnce, Performed
  <2> QED BY <1>2, <1>3, <1>7, <2>1, <2>2 DEF CommandIsDoneOnce, Posted, Performed
<1>13. DeedIsKnown'
  BY <1>0, <1>1, <1>2, <1>5, <1>7, <1>8 DEF DeedIsKnown, Performed, Audited
<1>14. EditsAreAccounted'
  <2>1. CommandMeetsItsRun'
    BY <1>0, <1>2, <1>8, <1>9 DEF EditsAreAccounted, CommandMeetsItsRun
  <2>2. Audited => audit[doing.id] # "none" BY <1>0, <1>1 DEF DeedIsKnown
  <2>3. ASSUME Alive, Audited, NEW q \in Requests
        PROVE  /\ effects'[q].times > 0 /\ effects'[q].run = session.run => audit[q] # "none"
               /\ audit[q] = "ok" => effects'[q].times = 1
    BY <1>0, <1>3, <1>8, <2>2, <2>3 DEF EditsAreAccounted, EffectIsAudited
  <2>4. EffectIsAudited' BY <1>2, <2>3 DEF EffectIsAudited, Audited, Alive
  <2> QED BY <2>1, <2>4 DEF EditsAreAccounted
<1> QED BY <1>10, <1>11, <1>12, <1>13, <1>14 DEF ControlInv

(* A command goes on: its outcome in the audit, its result for the bridge. *)
LEMMA RecordKeeps ==
    ASSUME ControlInv, Record, OwnedInv'
    PROVE  ControlInv'
<1>0. /\ ControlTypeOK /\ CommandsAreOfTheirRun /\ CommandIsDoneOnce /\ DeedIsKnown
      /\ EditsAreAccounted
  BY DEF ControlInv
<1>1. doing.at = "performed" /\ doing # Nothing /\ Performed
  BY DEF Record, Nothing, Performed
<1>2. UNCHANGED <<world, journal, session, request, answers, files, results, snapshot, effects>>
  BY DEF Record
<1>3. At("loop") /\ doing.id \in Requests /\ Posted(doing.id) /\ worker.pc # 0
  BY <1>1, AtWork
<1>4. CASE Fail /\ UNCHANGED audit BY <1>2, <1>3, <1>4, FailEndsIt
<1>5. CASE /\ doing' = [doing EXCEPT !.at = "recorded"] /\ UNCHANGED <<worker, listener, mishaps>>
           /\ audit' = IF Audited
                       THEN [audit EXCEPT ![doing.id] = IF doing.ok THEN "ok" ELSE "error"]
                       ELSE audit
  <2>1. doing' = [id |-> doing.id, at |-> "recorded", ok |-> doing.ok]
    BY <1>0, <1>5 DEF ControlTypeOK
  <2>2. /\ doing'.id = doing.id /\ doing'.at = "recorded" /\ doing'.ok = doing.ok
        /\ doing' # Nothing
    BY <2>1 DEF Nothing
  <2>3. \A p \in Requests : p # doing.id => audit'[p] = audit[p]
    BY <1>0, <1>3, <1>5 DEF ControlTypeOK
  <2>4. Audited => audit'[doing.id] = IF doing.ok THEN "ok" ELSE "error"
    BY <1>0, <1>3, <1>5 DEF ControlTypeOK
  <2>5. ControlTypeOK'
    <3>1. OwnedTypeOK' BY DEF OwnedInv
    <3>2. doing' \in [id : Requests \cup {0}, ok : BOOLEAN, at : Places]
      <4>1. doing.id \in Requests \cup {0} /\ doing.ok \in BOOLEAN BY <1>0, ControlParts
      <4> QED BY <2>1, <4>1 DEF Places
    <3>3. audit' \in [Requests -> {"none", "attempting", "ok", "error"}]
      BY <1>0, <1>3, <1>5 DEF ControlTypeOK
    <3> QED BY <1>0, <1>2, <3>1, <3>2, <3>3 DEF ControlTypeOK, Places
  <2>6. CommandsAreOfTheirRun' BY <1>0, <1>2 DEF CommandsAreOfTheirRun, Posted
  <2>7. CommandIsDoneOnce'
    <3>1. At("loop")' BY <1>3, <1>5 DEF At
    <3>2. \A p \in files : effects[p].times > 0 => doing.id = p
      BY <1>0, <1>3 DEF CommandIsDoneOnce
    <3> QED BY <1>2, <1>3, <2>2, <3>1, <3>2 DEF CommandIsDoneOnce, Posted, Performed
  <2>8. DeedIsKnown'
    BY <1>0, <1>1, <1>2, <1>5, <2>2, <2>4 DEF DeedIsKnown, Performed, Audited
  <2>9. EditsAreAccounted'
    <3>1. CommandMeetsItsRun' BY <1>0, <1>2 DEF EditsAreAccounted, CommandMeetsItsRun
    <3>2. doing.ok => effects[doing.id].times = 1 BY <1>0, <1>1 DEF DeedIsKnown
    <3>3. ASSUME Alive, Audited, NEW q \in Requests
          PROVE  /\ effects[q].times > 0 /\ effects[q].run = session.run => audit'[q] # "none"
                 /\ audit'[q] = "ok" => effects[q].times = 1
      <4>1. CASE q = doing.id BY <2>4, <3>2, <3>3, <4>1
      <4>2. CASE q # doing.id
        BY <1>0, <2>3, <3>3, <4>2 DEF EditsAreAccounted, EffectIsAudited
      <4> QED BY <4>1, <4>2
    <3>4. EffectIsAudited' BY <1>2, <1>5, <3>3 DEF EffectIsAudited, Audited, Alive
    <3> QED BY <3>1, <3>4 DEF EditsAreAccounted
  <2> QED BY <2>5, <2>6, <2>7, <2>8, <2>9 DEF ControlInv
<1> QED BY <1>4, <1>5 DEF Record, FaultHere

(* The answer to a command reaches the bridge, or the worker ends without it.*)
LEMMA RespondKeeps ==
    ASSUME ControlInv, Respond, OwnedInv'
    PROVE  ControlInv'
<1>0. /\ ControlTypeOK /\ CommandsAreOfTheirRun /\ CommandIsDoneOnce /\ DeedIsKnown
      /\ EditsAreAccounted
  BY DEF ControlInv
<1>1. doing.at = "recorded" /\ doing # Nothing /\ Performed
  BY DEF Respond, Nothing, Performed
<1>2. UNCHANGED <<world, journal, session, request, answers, files, audit, snapshot, effects>>
  BY DEF Respond
<1>3. At("loop") /\ doing.id \in Requests /\ Posted(doing.id) /\ worker.pc # 0
  BY <1>1, AtWork
<1>4. CASE Fail /\ UNCHANGED results BY <1>2, <1>3, <1>4, FailEndsIt
<1>5. CASE /\ doing' = [doing EXCEPT !.at = "answered"] /\ UNCHANGED <<worker, listener, mishaps>>
           /\ results' = [results EXCEPT ![doing.id] = IF doing.ok THEN "ok" ELSE "error"]
  <2>1. doing' = [id |-> doing.id, at |-> "answered", ok |-> doing.ok]
    BY <1>0, <1>5 DEF ControlTypeOK
  <2>2. /\ doing'.id = doing.id /\ doing'.at = "answered" /\ doing'.ok = doing.ok
        /\ doing' # Nothing
    BY <2>1 DEF Nothing
  <2>3. ControlTypeOK'
    <3>1. OwnedTypeOK' BY DEF OwnedInv
    <3>2. doing' \in [id : Requests \cup {0}, ok : BOOLEAN, at : Places]
      <4>1. doing.id \in Requests \cup {0} /\ doing.ok \in BOOLEAN BY <1>0, ControlParts
      <4> QED BY <2>1, <4>1 DEF Places
    <3>3. results' \in [Requests -> {"none", "ok", "error"}]
      BY <1>0, <1>3, <1>5 DEF ControlTypeOK
    <3> QED BY <1>0, <1>2, <3>1, <3>2, <3>3 DEF ControlTypeOK, Places
  <2>4. CommandsAreOfTheirRun' BY <1>0, <1>2 DEF CommandsAreOfTheirRun, Posted
  <2>5. CommandIsDoneOnce'
    <3>1. At("loop")' BY <1>3, <1>5 DEF At
    <3>2. \A p \in files : effects[p].times > 0 => doing.id = p
      BY <1>0, <1>3 DEF CommandIsDoneOnce
    <3> QED BY <1>2, <1>3, <2>2, <3>1, <3>2 DEF CommandIsDoneOnce, Posted, Performed
  <2>6. DeedIsKnown' BY <1>0, <1>1, <1>2, <1>5, <2>2 DEF DeedIsKnown, Performed, Audited
  <2>7. EditsAreAccounted'
    <3>1. CommandMeetsItsRun' BY <1>0, <1>2 DEF EditsAreAccounted, CommandMeetsItsRun
    <3>2. EffectIsAudited'
      BY <1>0, <1>2, <1>5 DEF EditsAreAccounted, EffectIsAudited, Audited, Alive
    <3> QED BY <3>1, <3>2 DEF EditsAreAccounted
  <2> QED BY <2>3, <2>4, <2>5, <2>6, <2>7 DEF ControlInv
<1> QED BY <1>4, <1>5 DEF Respond, FaultHere

(* The command is removed: what remains in the directory is not done yet.  *)
LEMMA RemoveKeeps ==
    ASSUME ControlInv, Remove, OwnedInv'
    PROVE  ControlInv'
<1>0. /\ ControlTypeOK /\ CommandsAreOfTheirRun /\ CommandIsDoneOnce /\ DeedIsKnown
      /\ EditsAreAccounted
  BY DEF ControlInv
<1>1. /\ doing.at = "answered" /\ doing # Nothing
      /\ doing' = Nothing /\ files' = files \ {doing.id}
      /\ UNCHANGED <<request, answers, results, audit, snapshot, effects, worker, session>>
  BY DEF Remove, Nothing, ownedVars
<1>2. worker.pc # 0 BY <1>1, AtWork
<1>3. ControlTypeOK'
  <2>1. OwnedTypeOK' BY DEF OwnedInv
  <2>2. Nothing \in [id : Requests \cup {0}, ok : BOOLEAN, at : Places]
    BY DEF Nothing, Places
  <2> QED BY <1>0, <1>1, <2>1, <2>2 DEF ControlTypeOK, Places
<1>4. CommandsAreOfTheirRun' BY <1>0, <1>1 DEF CommandsAreOfTheirRun, Posted
<1>5. CommandIsDoneOnce'
  <2>1. \A p \in files : effects[p].times > 0 => doing.id = p
    BY <1>0, <1>2 DEF CommandIsDoneOnce
  <2> QED BY <1>1, <2>1 DEF CommandIsDoneOnce, Performed, Nothing
<1>6. DeedIsKnown' BY <1>1 DEF DeedIsKnown, Performed, Nothing
<1>7. EditsAreAccounted'
  BY <1>0, <1>1
    DEF EditsAreAccounted, CommandMeetsItsRun, EffectIsAudited, Audited, Alive
<1> QED BY <1>3, <1>4, <1>5, <1>6, <1>7 DEF ControlInv

-----------------------------------------------------------------------------
(* The results.                                                            *)

(* The invariant of world, worker and mailbox.                             *)
THEOREM ControlCorrect == ControlSpec => []ControlInv
<1>1. ControlInit => ControlInv
  <2> SUFFICES ASSUME ControlInit PROVE ControlInv OBVIOUS
  <2>1. OwnedInv BY OwnedInitially DEF ControlInit
  <2>2. /\ request = 0 /\ answers = [q \in Requests |-> Unanswered] /\ files = {}
        /\ results = [q \in Requests |-> "none"] /\ audit = [q \in Requests |-> "none"]
        /\ doing = Nothing /\ snapshot = FALSE /\ effects = [q \in Requests |-> NoEffect]
        /\ session = [run |-> 0, state |-> "settled", task |-> "none"]
    BY DEF ControlInit, OwnedInit, NoRequest
  <2>3. ControlTypeOK
    <3>1. 0 \in 0 .. MaxRuns BY Bounds
    <3>2. Unanswered \in [run : 0 .. MaxRuns, answer : Answers]
      BY <3>1 DEF Unanswered, Answers
    <3>3. NoEffect \in [run : 0 .. MaxRuns, times : 0 .. 1] BY <3>1 DEF NoEffect
    <3>4. Nothing \in [id : Requests \cup {0}, ok : BOOLEAN, at : Places]
      BY DEF Nothing, Places
    <3> QED BY <2>1, <2>2, <3>2, <3>3, <3>4
        DEF ControlTypeOK, OwnedInv, Answers, Places, NoRequest
  <2>4. CommandsAreOfTheirRun
    BY <2>2 DEF CommandsAreOfTheirRun, Posted, Unanswered, NoEffect, NoRequest
  <2>5. CommandIsDoneOnce /\ DeedIsKnown
    BY <2>2 DEF CommandIsDoneOnce, DeedIsKnown, Performed, Nothing
  <2>6. EditsAreAccounted
    BY <2>2 DEF EditsAreAccounted, CommandMeetsItsRun, EffectIsAudited, NoEffect
  <2> QED BY <2>1, <2>3, <2>4, <2>5, <2>6 DEF ControlInv
<1>2. ControlInv /\ [ControlNext]_vars => ControlInv'
  <2> SUFFICES ASSUME ControlInv, [ControlNext]_vars PROVE ControlInv' OBVIOUS
  <2>1. CASE ControlNext
    <3>1. OwnedInv' BY <2>1, ControlMovesOwned, OwnedKeeps DEF ControlInv
    <3> QED BY <2>1, <3>1, StartRunKeeps, RunWorkerKeeps, BesideKeeps, PostCommandKeeps,
          AnsweredKeeps, IntendKeeps, ExecuteKeeps, RecordKeeps, RespondKeeps, RemoveKeeps
        DEF ControlNext, CommandStep
  <2>2. CASE UNCHANGED vars
    <3>1. UNCHANGED ownedVars /\ UNCHANGED controlVars BY <2>2 DEF vars
    <3>2. OwnedInv' BY <3>1, OwnedKeeps DEF OwnedPart, ControlInv
    <3>3. /\ UNCHANGED <<request, answers, files, results, audit, doing, snapshot, effects>>
          /\ UNCHANGED <<worker, session>>
      BY <3>1 DEF ownedVars, controlVars
    <3>4. snapshot' \in BOOLEAN BY <3>3 DEF ControlInv, ControlTypeOK
    <3>5. doing # Nothing => At("loop")'
      <4>1. doing # Nothing => At("loop") BY AtWork
      <4> QED BY <3>3, <4>1 DEF At
    <3>6. Alive' => Alive BY <3>3 DEF Alive
    <3> QED BY <3>2, <3>3, <3>4, <3>5, <3>6, WorldMoves
  <2> QED BY <2>1, <2>2
<1> QED BY <1>1, <1>2, PTL DEF ControlSpec

(* Type correctness of world, worker, bridge and mailbox.                  *)
THEOREM ControlTypeCorrect == ControlSpec => []ControlTypeOK
<1>1. ControlInv => ControlTypeOK BY DEF ControlInv
<1> QED BY <1>1, ControlCorrect, PTL

(* A settled run leaves no actor of its worker and no synchronous world,   *)
(* and a Traffic Manager that is used is the worker's own.                 *)
THEOREM WorldComesBack == ControlSpec => []WorldIsGivenBack
<1>1. ControlInv => WorldIsGivenBack BY DEF ControlInv, OwnedInv
<1> QED BY <1>1, ControlCorrect, PTL

(* Nothing but another world takes an actor of the scene away.             *)
THEOREM SceneStays == ControlSpec => SceneIsKept
<1>1. ControlInv /\ [ControlNext]_vars =>
         [world'.episode = world.episode =>
             \A a \in world.actors : a.by = "scene" => a \in world'.actors]_ownedVars
  <2> SUFFICES ASSUME ControlInv, [ControlNext]_vars, ~UNCHANGED ownedVars,
                      world'.episode = world.episode, NEW a \in world.actors, a.by = "scene"
               PROVE  a \in world'.actors
    OBVIOUS
  <2>1. ControlNext BY DEF vars
  <2>2. OwnedPart BY <2>1, ControlMovesOwned
  <2> QED BY <2>2, SceneStep DEF ControlInv
<1> QED BY <1>1, ControlCorrect, PTL DEF ControlSpec, SceneIsKept

(* A command is done at most once, in its run, and is in the audit.        *)
THEOREM EditsAccounted == ControlSpec => []EditsAreAccounted
<1>1. ControlInv => EditsAreAccounted BY DEF ControlInv
<1> QED BY <1>1, ControlCorrect, PTL
=============================================================================
