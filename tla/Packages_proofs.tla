---------------------------- MODULE Packages_proofs ----------------------------
(***************************************************************************)
(* Machine-checked: what MCPackages shows of asset imports, of project     *)
(* packages and of the source archive for a few of each holds for any      *)
(* number of names, scenes, packages, reviews, exports and deaths.  The    *)
(* inductive invariants are AssetInv (AssetImports), BundleInv             *)
(* (ProjectBundles) and SourceInv (SourceArchive).  Of the bounds only     *)
(* that MaxTrees is a number is used.                                      *)
(***************************************************************************)
EXTENDS AssetImports, ProjectBundles, SourceArchive, FiniteSetTheorems, SequenceTheorems, TLAPS

-----------------------------------------------------------------------------
(* AssetImports.  There is at most one importer, that of the attempt at    *)
(* hand or one that was left behind, none beside a restart and beside an   *)
(* execution only a later one of a command line (ImportersAreAlone), since *)
(* an attempt keeps its registration and a registration its process        *)
(* (RegistrationsApart); the importer's destination is empty               *)
(* until it has written (AssetsAreWrittenOnce, which needs the importer to *)
(* be alone); and the attempt, the registry and the reports of             *)
(* registrations say no more than that (AttemptIsTrue, RegistryIsTrue,     *)
(* DoneIsRegistered).                                                      *)

(* An attempt that is rewritten keeps its name and its place.              *)
NamesKept ==
  /\ Len(attempts') = Len(attempts)
  /\ \A n \in 1 .. Len(attempts) : attempts'[n].name = attempts[n].name

(* A registration loses nothing, and is not finished.                      *)
RegistrationsKept ==
  /\ registrations' \in Seq(Registrations) /\ Len(registrations') = Len(registrations)
  /\ \A r \in 1 .. Len(registrations) :
        /\ registrations'[r].done = registrations[r].done
        /\ registrations'[r].console = registrations[r].console
        /\ registrations'[r].state = "registered" => registrations'[r] = registrations[r]

(* The domains of the sequences.                                           *)
LEMMA Lengths ==
  ASSUME AssetTypeOK
  PROVE  /\ Len(attempts) \in Nat /\ Len(registrations) \in Nat
         /\ DOMAIN attempts = 1 .. Len(attempts) /\ DOMAIN importer = 1 .. Len(attempts)
         /\ DOMAIN registrations = 1 .. Len(registrations)
         /\ \A n \in 1 .. Len(attempts) : attempts[n] \in Attempts
         /\ \A r \in 1 .. Len(registrations) : registrations[r] \in Registrations
  BY DEF AssetTypeOK

(* The attempt at hand, and what it becomes when it is given up.           *)
LEMMA Rewritten ==
  ASSUME AssetTypeOK, importing # 0
  PROVE  /\ importing \in 1 .. Len(attempts) /\ Attempt \in Attempts
         /\ Uncertain \in Attempts /\ Uncertain.name = Attempt.name
<1>1. importing \in 1 .. Len(attempts) /\ Attempt \in Attempts
  BY DEF AssetTypeOK, Attempt
<1>2. Uncertain \in Attempts /\ Uncertain.name = Attempt.name
  BY <1>1 DEF Attempts, Uncertain
<1> QED
  BY <1>1, <1>2

(* The attempt at hand is rewritten, the others are not.                   *)
LEMMA Became ==
  ASSUME AssetTypeOK, importing # 0, NEW attempt \in Attempts, attempt.name = Attempt.name,
         Become(attempt)
  PROVE  /\ attempts' \in Seq(Attempts) /\ NamesKept
         /\ \A n \in 1 .. Len(attempts) : n # importing => attempts'[n] = attempts[n]
         /\ attempts'[importing] = attempt
<1>1. importing \in 1 .. Len(attempts)
  BY Rewritten
<1>2. attempts \in Seq(Attempts)
  BY DEF AssetTypeOK
<1> QED
  BY <1>1, <1>2 DEF Become, Attempt, NamesKept

(* A registration somebody is at, and that of the attempt at hand.         *)
LEMMA Registers ==
  ASSUME AssetTypeOK, NEW r \in Registering
  PROVE  r \in 1 .. Len(registrations) /\ registrations[r] \in Registrations
  BY Lengths DEF AssetTypeOK, Registering

LEMMA OfRegistration ==
  ASSUME AssetTypeOK, RegistrationsApart, importing # 0
  PROVE  /\ Registration(importing) \in 0 .. Len(registrations)
         /\ Attempt.name[1] = Registration(importing)
  BY Rewritten, Lengths DEF RegistrationsApart, Registration, Attempt

(* A report that is rewritten, but not as that of a success.               *)
LEMMA Reported ==
  ASSUME AssetTypeOK, NEW r \in 1 .. Len(registrations), NEW report \in Registrations,
         registrations' = [registrations EXCEPT ![r] = report],
         report.done = registrations[r].done, report.console = registrations[r].console
  PROVE  /\ registrations' \in Seq(Registrations) /\ Len(registrations') = Len(registrations)
         /\ registrations'[r] = report
         /\ \A q \in 1 .. Len(registrations) : q # r => registrations'[q] = registrations[q]
         /\ report.state # "registered" => RegistrationsKept
<1>1. registrations \in Seq(Registrations)
  BY DEF AssetTypeOK
<1>2. /\ registrations' \in Seq(Registrations) /\ Len(registrations') = Len(registrations)
      /\ registrations'[r] = report
      /\ \A q \in 1 .. Len(registrations) : q # r => registrations'[q] = registrations[q]
  BY <1>1
<1> QED
  BY <1>2 DEF RegistrationsKept

(* A given up import leaves every record in its place.                     *)
LEMMA GivenUp ==
  ASSUME AssetTypeOK, RegistrationsApart, importing # 0, NEW attempt \in Attempts,
         attempt.name = Attempt.name, GiveUpImport(attempt)
  PROVE  /\ importing' = 0 /\ active' \in {0, active} /\ consoles' \subseteq consoles
         /\ attempts' \in Seq(Attempts) /\ NamesKept /\ RegistrationsKept
<1>1. attempts' \in Seq(Attempts) /\ NamesKept
  <2>1. CASE Become(attempt)
    BY <2>1, Became
  <2>2. CASE UNCHANGED attempts
    BY <2>2 DEF NamesKept, AssetTypeOK
  <2> QED
    BY <2>1, <2>2 DEF GiveUpImport
<1>2. active' \in {0, active} /\ consoles' \subseteq consoles
  BY DEF GiveUpImport, Leave, registerVars
<1>3. RegistrationsKept
  <2>1. CASE UNCHANGED registrations
    BY <2>1 DEF RegistrationsKept, AssetTypeOK
  <2>2. ASSUME NEW r, r = Registration(importing), r # 0,
               registrations' = [registrations EXCEPT ![r].state = "needs_attention"]
        PROVE  RegistrationsKept
    <3>1. r \in 1 .. Len(registrations) /\ registrations[r] \in Registrations
      BY <2>2, OfRegistration, Lengths
    <3> DEFINE report == [registrations[r] EXCEPT !.state = "needs_attention"]
    <3>2. /\ report \in Registrations /\ report.state = "needs_attention"
          /\ report.done = registrations[r].done /\ report.console = registrations[r].console
      BY <3>1 DEF Registrations
    <3>3. registrations' = [registrations EXCEPT ![r] = report]
      BY <2>2
    <3> HIDE DEF report
    <3> QED
      BY <3>1, <3>2, <3>3, Reported
  <2> QED
    BY <2>1, <2>2 DEF GiveUpImport, registerVars
<1> QED
  BY <1>1, <1>2, <1>3 DEF GiveUpImport

(* A new attempt comes after the others.                                   *)
LEMMA Prepared ==
  ASSUME AssetTypeOK, NEW name \in Names, Prepare(name)
  PROVE  LET n == Len(attempts) + 1
         IN  /\ n \in Nat \ {0} /\ importing' = n
             /\ attempts' \in Seq(Attempts) /\ Len(attempts') = n
             /\ importer' \in Seq({"none", "checking", "writing", "succeeded", "failed"})
             /\ Len(importer') = n
             /\ attempts'[n] = [name |-> name, state |-> "preparing",
                                worker |-> "not_started", code |-> "none"]
             /\ importer'[n] = "none"
             /\ \A m \in 1 .. Len(attempts) :
                   attempts'[m] = attempts[m] /\ importer'[m] = importer[m]
<1>1. [name |-> name, state |-> "preparing", worker |-> "not_started", code |-> "none"] \in Attempts
  BY DEF Attempts
<1>2. attempts \in Seq(Attempts)
      /\ importer \in Seq({"none", "checking", "writing", "succeeded", "failed"})
      /\ Len(importer) = Len(attempts)
  BY DEF AssetTypeOK
<1> QED
  BY <1>1, <1>2 DEF Prepare

(* An import is begun by hand or is the next of a registration's.          *)
NextOf(name) ==
  \/ name[1] = 0 /\ ~execution.on /\ active = 0
  \/ \E r \in Registering : name = <<r, registrations[r].done + 1>>

Begin == ImportByHand \/ \E r \in Registering : ImportNext(r)

LEMMA Began ==
  ASSUME AssetTypeOK, Begin
  PROVE  \E name \in Names : Prepare(name) /\ NextOf(name)
<1>1. CASE ImportByHand
  <2>1. PICK k \in 1 .. MaxNames : Prepare(<<0, k>>) /\ ~execution.on /\ active = 0
    BY <1>1 DEF ImportByHand
  <2>2. <<0, k>> \in Names /\ NextOf(<<0, k>>)
    BY <2>1 DEF Names, NextOf
  <2> QED
    BY <2>1, <2>2
<1>2. ASSUME NEW r \in Registering, ImportNext(r)
      PROVE  \E name \in Names : Prepare(name) /\ NextOf(name)
  <2>1. r \in 1 .. Len(registrations) /\ r \in 1 .. MaxRegistrations
    BY Registers, AssetAssumption DEF AssetTypeOK
  <2>2. registrations[r].done \in 0 .. BundleAssets
    BY <2>1, Lengths DEF Registrations
  <2>3. registrations[r].done + 1 \in 1 .. BundleAssets
    BY <1>2, <2>2, AssetAssumption DEF ImportNext
  <2>4. <<r, registrations[r].done + 1>> \in Names
    BY <2>1, <2>3 DEF Names
  <2> QED
    BY <1>2, <2>4 DEF ImportNext, NextOf
<1> QED
  BY <1>1, <1>2 DEF Begin

(* An import that ends well is counted by its registration.                *)
LEMMA Counted ==
  ASSUME AssetTypeOK, RegistrationsApart, AttemptIsTrue, importing # 0, NEW r,
         r = Registration(importing), r # 0
  PROVE  /\ r \in 1 .. Len(registrations) /\ registrations[r].done + 1 \in 1 .. BundleAssets
         /\ Attempt.name = <<r, registrations[r].done + 1>>
<1>1. r \in 1 .. Len(registrations) /\ Attempt.name[1] = r
  BY OfRegistration, Lengths
<1>2. Attempt.name \in Names /\ Attempt.name[2] = registrations[r].done + 1
  BY Rewritten DEF AttemptIsTrue, Attempts
<1>3. registrations[r].done + 1 \in 1 .. BundleAssets
  BY <1>1, <1>2 DEF Names
<1>4. Attempt.name = <<Attempt.name[1], Attempt.name[2]>>
  BY <1>2 DEF Names
<1> QED
  BY <1>1, <1>2, <1>3, <1>4

(* What becomes of the attempt at hand.                                    *)
LEMMA TakeExitEnds ==
  ASSUME AssetTypeOK, RegistrationsApart, TakeExit
  PROVE  /\ importing # 0 /\ attempts' \in Seq(Attempts) /\ NamesKept /\ RegistrationsKept
         /\ active' \in {0, active} /\ consoles' \subseteq consoles
         /\ \/ importing' = 0
            \/ /\ UNCHANGED <<importing, registerVars>>
               /\ importer[importing] = "succeeded"
               /\ attempts'[importing] = [Attempt EXCEPT !.worker = "exited", !.code = "ok"]
<1>1. importing # 0
  BY DEF TakeExit
<1>2. CASE GiveUpImport([Uncertain EXCEPT !.worker = "exited", !.code = "error"])
  <2>1. /\ [Uncertain EXCEPT !.worker = "exited", !.code = "error"] \in Attempts
        /\ [Uncertain EXCEPT !.worker = "exited", !.code = "error"].name = Attempt.name
    BY <1>1, Rewritten DEF Attempts
  <2> QED
    BY <1>1, <1>2, <2>1, GivenUp
<1>3. CASE /\ importer[importing] = "succeeded"
           /\ Become([Attempt EXCEPT !.worker = "exited", !.code = "ok"])
           /\ UNCHANGED <<importing, registerVars>>
  <2>1. /\ [Attempt EXCEPT !.worker = "exited", !.code = "ok"] \in Attempts
        /\ [Attempt EXCEPT !.worker = "exited", !.code = "ok"].name = Attempt.name
    BY <1>1, Rewritten DEF Attempts
  <2>2. RegistrationsKept /\ active' = active /\ consoles' = consoles
    BY <1>3 DEF RegistrationsKept, AssetTypeOK, registerVars
  <2> QED
    BY <1>1, <1>3, <2>1, <2>2, Became
<1> QED
  BY <1>2, <1>3 DEF TakeExit

(* The same for the end of an import.                                      *)
CountUp(r) == registrations' = [registrations EXCEPT ![r].done = @ + 1]

LEMMA FinishEnds ==
  ASSUME AssetTypeOK, RegistrationsApart, FinishImport
  PROVE  /\ importing # 0 /\ importing' = 0 /\ attempts' \in Seq(Attempts) /\ NamesKept
         /\ active' \in {0, active} /\ consoles' \subseteq consoles
         /\ registry[Attempt.name] = importing
         /\ \/ RegistrationsKept
            \/ Registration(importing) # 0 /\ CountUp(Registration(importing))
<1>1. importing # 0 /\ registry[Attempt.name] = importing
  BY DEF FinishImport
<1>2. CASE GiveUpImport(Uncertain)
  BY <1>1, <1>2, Rewritten, GivenUp
<1>3. CASE /\ Become([Attempt EXCEPT !.state = "registered"]) /\ importing' = 0
           /\ registrations' = IF Registration(importing) = 0 THEN registrations
                               ELSE [registrations EXCEPT ![Registration(importing)].done = @ + 1]
           /\ UNCHANGED <<active, consoles>>
  <2>1. /\ [Attempt EXCEPT !.state = "registered"] \in Attempts
        /\ [Attempt EXCEPT !.state = "registered"].name = Attempt.name
    BY <1>1, Rewritten DEF Attempts
  <2>2. CASE Registration(importing) = 0
    <3>1. RegistrationsKept
      BY <1>3, <2>2 DEF RegistrationsKept, AssetTypeOK
    <3> QED
      BY <1>1, <1>3, <2>1, <3>1, Became
  <2>3. CASE Registration(importing) # 0
    BY <1>1, <1>3, <2>1, <2>3, Became DEF CountUp
  <2> QED
    BY <2>2, <2>3
<1> QED
  BY <1>2, <1>3 DEF FinishImport

(* A registration that counts an import changes in nothing else.           *)
LEMMA CountedUp ==
  ASSUME AssetTypeOK, RegistrationsApart, AttemptIsTrue, importing # 0, NEW r,
         r = Registration(importing), r # 0, CountUp(r)
  PROVE  /\ registrations' \in Seq(Registrations) /\ Len(registrations') = Len(registrations)
         /\ \A q \in 1 .. Len(registrations) :
               /\ registrations'[q].state = registrations[q].state
               /\ registrations'[q].output = registrations[q].output
               /\ registrations'[q].console = registrations[q].console
               /\ q # r => registrations'[q] = registrations[q]
         /\ registrations'[r].done = registrations[r].done + 1
<1>1. r \in 1 .. Len(registrations) /\ registrations[r].done + 1 \in 0 .. BundleAssets
  BY Counted
<1>2. registrations[r] \in Registrations /\ registrations \in Seq(Registrations)
  BY <1>1, Lengths DEF AssetTypeOK
<1> DEFINE more == [registrations[r] EXCEPT !.done = @ + 1]
<1>3. /\ more \in Registrations /\ more.done = registrations[r].done + 1
      /\ more.state = registrations[r].state /\ more.output = registrations[r].output
      /\ more.console = registrations[r].console
  BY <1>1, <1>2 DEF Registrations
<1>4. registrations' = [registrations EXCEPT ![r] = more]
  BY DEF CountUp
<1> HIDE DEF more
<1> QED
  BY <1>1, <1>2, <1>3, <1>4

(* The end of a registration is written into its own report.               *)
LEMMA FinishReports ==
  ASSUME AssetTypeOK, NEW r \in Registering, FinishRegistration(r)
  PROVE  /\ registrations' \in Seq(Registrations) /\ Len(registrations') = Len(registrations)
         /\ r \in 1 .. Len(registrations)
         /\ \A q \in 1 .. Len(registrations) :
               /\ registrations'[q].done = registrations[q].done
               /\ registrations'[q].console = registrations[q].console
               /\ q # r => registrations'[q] = registrations[q]
         /\ registrations'[r].state = "registered" =>
               registrations[r].done = BundleAssets /\ registrations'[r].output
<1>1. r \in 1 .. Len(registrations) /\ registrations[r] \in Registrations
  BY Registers
<1>2. PICK state \in {"running", "registered", "needs_attention"}, kept \in BOOLEAN :
        /\ registrations' = [registrations EXCEPT ![r].state = state, ![r].output = kept]
        /\ state = "registered" => kept /\ registrations[r].done = BundleAssets
  <2>1. CASE /\ registrations[r].done = BundleAssets
             /\ registrations' = [registrations EXCEPT ![r].state = "registered",
                                                       ![r].output = TRUE]
    BY <2>1
  <2>2. CASE \E written \in {FALSE, registrations[r].done = BundleAssets},
                state \in {"running", "needs_attention"} :
               registrations' = [registrations EXCEPT ![r].state = state, ![r].output = written]
    <3>1. PICK written \in {FALSE, registrations[r].done = BundleAssets},
               state \in {"running", "needs_attention"} :
               registrations' = [registrations EXCEPT ![r].state = state, ![r].output = written]
      BY <2>2
    <3>2. written \in BOOLEAN
      OBVIOUS
    <3> QED
      BY <3>1, <3>2
  <2> QED
    BY <2>1, <2>2 DEF FinishRegistration
<1> DEFINE report == [registrations[r] EXCEPT !.state = state, !.output = kept]
<1>3. /\ report \in Registrations /\ report.state = state /\ report.output = kept
      /\ report.done = registrations[r].done /\ report.console = registrations[r].console
  BY <1>1 DEF Registrations
<1>4. registrations' = [registrations EXCEPT ![r] = report]
  BY <1>2
<1> HIDE DEF report
<1>5. /\ registrations' \in Seq(Registrations) /\ Len(registrations') = Len(registrations)
      /\ registrations'[r] = report
      /\ \A q \in 1 .. Len(registrations) : q # r => registrations'[q] = registrations[q]
  BY <1>1, <1>3, <1>4, Reported
<1>6. registrations'[r].state = "registered" =>
        registrations[r].done = BundleAssets /\ registrations'[r].output
  BY <1>2, <1>3, <1>5
<1> QED
  BY <1>1, <1>3, <1>5, <1>6

(* A new report comes after the others.                                    *)
LEMMA Opened ==
  ASSUME AssetTypeOK, NEW console \in BOOLEAN,
         registrations' = Append(registrations, [state |-> "running", done |-> 0, output |-> FALSE,
                                                 console |-> console])
  PROVE  /\ registrations' \in Seq(Registrations)
         /\ Len(registrations') = Len(registrations) + 1
         /\ registrations'[Len(registrations) + 1].done = 0
         /\ registrations'[Len(registrations) + 1].state = "running"
         /\ registrations'[Len(registrations) + 1].console = console
         /\ \A q \in 1 .. Len(registrations) : registrations'[q] = registrations[q]
<1> DEFINE report == [state |-> "running", done |-> 0, output |-> FALSE, console |-> console]
<1>1. 0 \in 0 .. BundleAssets
  BY AssetAssumption
<1>2. /\ report \in Registrations /\ report.done = 0 /\ report.state = "running"
      /\ report.console = console
  BY <1>1 DEF Registrations
<1>3. registrations' = Append(registrations, report) /\ registrations \in Seq(Registrations)
  BY DEF AssetTypeOK
<1> HIDE DEF report
<1>4. /\ registrations' \in Seq(Registrations) /\ Len(registrations') = Len(registrations) + 1
      /\ registrations'[Len(registrations) + 1] = report
      /\ \A q \in 1 .. Len(registrations) : registrations'[q] = registrations[q]
  BY <1>2, <1>3, AppendProperties
<1> QED
  BY <1>2, <1>4

(* A fresh studio satisfies the invariant.                                 *)
LEMMA AssetInitInv == AssetInit => AssetInv
<1> SUFFICES ASSUME AssetInit PROVE AssetInv
  OBVIOUS
<1>1. AssetTypeOK
  <2>1. bridge \in [starts : Nat, up : BOOLEAN]
    BY DEF AssetInit
  <2>2. /\ Len(attempts) = 0 /\ Len(registrations) = 0 /\ Len(importer) = 0
        /\ attempts \in Seq(Attempts) /\ registrations \in Seq(Registrations)
        /\ importer \in Seq({"none", "checking", "writing", "succeeded", "failed"})
    BY DEF AssetInit
  <2>3. assets \in [Names -> 0 .. Len(attempts)] /\ registry \in [Names -> 0 .. Len(attempts)]
    BY <2>2 DEF AssetInit
  <2>4. importing \in 0 .. Len(attempts) /\ active \in 0 .. Len(registrations)
    BY <2>2 DEF AssetInit
  <2>5. MaxRegistrations \in Nat
    BY AssetAssumption
  <2> QED
    <3>1. Len(importer) = Len(attempts)
      BY <2>2
    <3>2. Len(registrations) <= MaxRegistrations
      BY <2>2, <2>5
    <3>3. /\ restart \in {"none", "locked", "checked"} /\ execution \in [on : BOOLEAN, after : Nat]
          /\ consoles \subseteq DOMAIN registrations
      BY DEF AssetInit
    <3> QED
      BY <2>1, <2>2, <2>3, <2>4, <3>1, <3>2, <3>3 DEF AssetTypeOK
<1> QED
  BY <1>1 DEF AssetInit, AssetInv, RegistrationsApart, ImportersAreAlone, AssetsAreWrittenOnce,
     AttemptIsTrue, RegistryIsTrue, DoneIsRegistered, Importers

(* The types are kept.                                                     *)
LEMMA TypeStep ==
  ASSUME AssetTypeOK, RegistrationsApart, AttemptIsTrue, [AssetNext]_assetVars
  PROVE  AssetTypeOK'
<1> USE AssetAssumption DEF importVars, blenderVars, registerVars, otherVars, AssetTypeOK
<1>1. CASE Begin
  <2>1. PICK name \in Names : Prepare(name) /\ NextOf(name)
    BY <1>1, Began
  <2> QED
    BY <2>1, Prepared, Lengths DEF Prepare
<1>2. CASE RefuseImport
  BY <1>2, Rewritten, GivenUp DEF RefuseImport, NamesKept, RegistrationsKept
<1>3. CASE Launch
  <2> DEFINE attempt == [Attempt EXCEPT !.state = "importing", !.worker = "launching"]
  <2>1. importing # 0 /\ attempt \in Attempts /\ attempt.name = Attempt.name
    BY <1>3, Rewritten DEF Launch, Attempts
  <2>2. Become(attempt)
    BY <1>3 DEF Launch
  <2> HIDE DEF attempt
  <2>3. attempts' \in Seq(Attempts) /\ Len(attempts') = Len(attempts)
    BY <2>1, <2>2, Became DEF NamesKept
  <2> QED
    BY <1>3, <2>3 DEF Launch
<1>4. CASE ImportTimesOut
  <2>1. /\ importing \in 1 .. Len(attempts)
        /\ importing' = 0 /\ active' \in {0, active} /\ consoles' \subseteq consoles
        /\ attempts' \in Seq(Attempts) /\ Len(attempts') = Len(attempts)
        /\ registrations' \in Seq(Registrations) /\ Len(registrations') = Len(registrations)
    BY <1>4, Rewritten, GivenUp DEF ImportTimesOut, NamesKept, RegistrationsKept
  <2> QED
    BY <1>4, <2>1 DEF ImportTimesOut
<1>5. CASE TakeExit
  BY <1>5, TakeExitEnds DEF TakeExit, NamesKept, RegistrationsKept
<1>6. CASE RegisterAsset
  <2>1. CASE GiveUpImport(Uncertain) /\ UNCHANGED registry
    <3>1. importing # 0
      BY <1>6 DEF RegisterAsset
    <3>2. /\ importing' = 0 /\ active' \in {0, active} /\ consoles' \subseteq consoles
          /\ attempts' \in Seq(Attempts) /\ Len(attempts') = Len(attempts)
          /\ registrations' \in Seq(Registrations) /\ Len(registrations') = Len(registrations)
      BY <2>1, <3>1, Rewritten, GivenUp DEF NamesKept, RegistrationsKept
    <3> QED
      BY <1>6, <2>1, <3>2 DEF RegisterAsset
  <2>2. CASE UNCHANGED <<importing, attempts, registerVars>>
    BY <1>6, <2>2 DEF RegisterAsset
  <2> QED
    BY <1>6, <2>1, <2>2 DEF RegisterAsset
<1>7. CASE FinishImport
  <2>1. /\ importing' = 0 /\ attempts' \in Seq(Attempts) /\ Len(attempts') = Len(attempts)
        /\ active' \in {0, active} /\ consoles' \subseteq consoles
        /\ registrations' \in Seq(Registrations) /\ Len(registrations') = Len(registrations)
    BY <1>7, FinishEnds, CountedUp DEF NamesKept, RegistrationsKept
  <2> QED
    BY <1>7, <2>1 DEF FinishImport
<1>8. ASSUME NEW n \in DOMAIN importer, CheckDestination(n) PROVE AssetTypeOK'
  BY <1>8 DEF CheckDestination
<1>9. ASSUME NEW n \in DOMAIN importer, WriteAsset(n) PROVE AssetTypeOK'
  <2>1. n \in 1 .. Len(attempts)
    BY Lengths
  <2>2. assets' \in [Names -> 0 .. Len(attempts)]
    <3>1. n \in 0 .. Len(attempts)
      BY <2>1, Lengths
    <3> QED
      BY <1>9, <3>1 DEF WriteAsset
  <2>3. PICK end \in {"succeeded", "failed"} : importer' = [importer EXCEPT ![n] = end]
    BY <1>9 DEF WriteAsset
  <2> QED
    BY <1>9, <2>2, <2>3 DEF WriteAsset
<1>10. CASE Generate \/ BlenderExits \/ EndGeneration
  BY <1>10 DEF Generate, BlenderExits, EndGeneration
<1>11. CASE StartExecution \/ EndExecution
  <2>1. execution' \in [on : BOOLEAN, after : Nat]
    <3>1. CASE StartExecution
      <4>1. Len(attempts) \in Nat
        BY Lengths
      <4>2. execution' = [on |-> TRUE, after |-> Len(attempts)]
        BY <3>1 DEF StartExecution
      <4> HIDE DEF AssetTypeOK
      <4> QED
        BY <4>1, <4>2
    <3>2. CASE EndExecution
      BY <3>2 DEF EndExecution
    <3> QED
      BY <1>11, <3>1, <3>2
  <2> QED
    BY <1>11, <2>1 DEF StartExecution, EndExecution
<1>12. CASE StartRegistration \/ RegisterFromConsole
  <2>1. /\ registrations' \in Seq(Registrations) /\ Len(registrations') = Len(registrations) + 1
    BY <1>12, Opened DEF StartRegistration, RegisterFromConsole
  <2>2. Len(registrations) + 1 <= MaxRegistrations /\ Len(registrations) \in Nat
    BY <1>12, Lengths DEF StartRegistration, RegisterFromConsole
  <2>3. active' \in {active, Len(registrations) + 1}
        /\ consoles' \subseteq consoles \cup {Len(registrations) + 1}
    BY <1>12, <2>1 DEF StartRegistration, RegisterFromConsole
  <2>4. UNCHANGED <<bridge, attempts, importer, importing, assets, registry, restart, execution>>
    BY <1>12 DEF StartRegistration, RegisterFromConsole
  <2>5. /\ DOMAIN registrations = 1 .. Len(registrations)
        /\ DOMAIN registrations' = 1 .. Len(registrations) + 1
    BY <2>1, Lengths
  <2>6. consoles' \subseteq DOMAIN registrations' /\ active' \in 0 .. Len(registrations')
    BY <2>1, <2>2, <2>3, <2>5
  <2> QED
    BY <2>1, <2>2, <2>4, <2>6
<1>13. ASSUME NEW r \in Registering, FinishRegistration(r) PROVE AssetTypeOK'
  <2>1. registrations' \in Seq(Registrations) /\ Len(registrations') = Len(registrations)
    BY <1>13, FinishReports
  <2>2. active' \in {0, active} /\ consoles' \subseteq consoles
    BY <1>13 DEF FinishRegistration, Leave
  <2> QED
    BY <1>13, <2>1, <2>2, Lengths DEF FinishRegistration
<1>18. ASSUME NEW r \in Registering, KillConsole(r) PROVE AssetTypeOK'
  BY <1>18 DEF KillConsole
<1>14. CASE CrashBridge \/ StartStudio \/ RestartBridge
  <2>1. bridge' \in [starts : Nat, up : BOOLEAN]
    <3>1. CASE CrashBridge
      BY <3>1 DEF CrashBridge
    <3>2. CASE StartStudio \/ RestartBridge
      <4>1. bridge' = [starts |-> bridge.starts + 1, up |-> TRUE]
        BY <3>2 DEF StartStudio, RestartBridge, Started
      <4>2. bridge.starts + 1 \in Nat
        OBVIOUS
      <4> QED
        BY <4>1, <4>2
    <3> QED
      BY <1>14, <3>1, <3>2
  <2> QED
    BY <1>14, <2>1, Lengths DEF CrashBridge, StartStudio, RestartBridge, Gone
<1>15. CASE StopStudio
  <2>1. bridge' \in [starts : Nat, up : BOOLEAN]
    BY <1>15 DEF StopStudio
  <2>2. /\ importer' \in Seq({"none", "checking", "writing", "succeeded", "failed"})
        /\ Len(importer') = Len(importer)
    <3> DEFINE S == {"none", "checking", "writing", "succeeded", "failed"}
    <3>1. Len(attempts) \in Nat /\ importer' \in [1 .. Len(attempts) -> S]
      BY <1>15, Lengths DEF StopStudio
    <3>2. importer' \in Seq(S) /\ DOMAIN importer' = 1 .. Len(attempts)
      BY <3>1, SeqDef
    <3> QED
      BY <3>1, <3>2, LenProperties
  <2> QED
    BY <1>15, <2>1, <2>2, Lengths DEF StopStudio, Gone
<1>16. CASE LockForRestart \/ CheckRestart
  BY <1>16 DEF LockForRestart, CheckRestart, Admitted, ImportLocked
<1>17. CASE UNCHANGED assetVars
  BY <1>17 DEF assetVars
<1> QED
  BY <1>1, <1>2, <1>3, <1>4, <1>5, <1>6, <1>7, <1>8, <1>9, <1>10, <1>11, <1>12, <1>13, <1>14,
     <1>15, <1>16, <1>17, <1>18 DEF AssetNext, Begin

(* Names and reports stay as they are of the bridge or of a command line.  *)
LEMMA StillApart ==
  ASSUME AssetTypeOK, RegistrationsApart, attempts' \in Seq(Attempts), NamesKept,
         registrations' \in Seq(Registrations), Len(registrations') >= Len(registrations),
         \A q \in 1 .. Len(registrations) : registrations'[q].console = registrations[q].console,
         active' \in {0, active}, consoles' \subseteq consoles
  PROVE  RegistrationsApart'
<1>1. ASSUME NEW n \in DOMAIN attempts' PROVE Registration(n)' \in 0 .. Len(registrations')
  <2>1. n \in 1 .. Len(attempts)
    BY DEF NamesKept
  <2>2. Registration(n) \in 0 .. Len(registrations) /\ Registration(n)' = Registration(n)
    BY <2>1, Lengths DEF RegistrationsApart, Registration, NamesKept
  <2> QED
    BY <2>2, Lengths
<1>2. active' # 0 => active' \in 1 .. Len(registrations) /\ ~registrations[active].console
  BY DEF AssetTypeOK, RegistrationsApart
<1>3. \A r \in consoles' : r \in 1 .. Len(registrations) /\ registrations[r].console
  BY Lengths DEF AssetTypeOK, RegistrationsApart
<1> QED
  BY <1>1, <1>2, <1>3 DEF RegistrationsApart

LEMMA ApartStep ==
  ASSUME AssetTypeOK, RegistrationsApart, AttemptIsTrue, [AssetNext]_assetVars
  PROVE  RegistrationsApart'
<1> USE AssetAssumption DEF importVars, blenderVars, registerVars, otherVars
<1>z. UNCHANGED attempts => attempts' \in Seq(Attempts) /\ NamesKept
  BY DEF AssetTypeOK, NamesKept
<1>c. UNCHANGED registrations => RegistrationsKept
  BY DEF AssetTypeOK, RegistrationsKept
<1>1. CASE Begin
  <2>1. PICK name \in Names : Prepare(name) /\ NextOf(name)
    BY <1>1, Began
  <2>2. name[1] \in 0 .. Len(registrations)
    BY <2>1, Registers, Lengths DEF NextOf
  <2>3. /\ DOMAIN attempts' = 1 .. Len(attempts) + 1 /\ attempts'[Len(attempts) + 1].name = name
        /\ \A m \in 1 .. Len(attempts) : attempts'[m] = attempts[m]
        /\ UNCHANGED <<registrations, active, consoles>>
    BY <2>1, Prepared DEF Prepare
  <2>4. ASSUME NEW n \in DOMAIN attempts' PROVE attempts'[n].name[1] \in 0 .. Len(registrations)
    <3>1. CASE n = Len(attempts) + 1
      BY <2>2, <2>3, <3>1
    <3>2. CASE n \in 1 .. Len(attempts)
      BY <2>3, <3>2, Lengths DEF RegistrationsApart, Registration
    <3> QED
      BY <2>3, <3>1, <3>2, Lengths
  <2> QED
    BY <2>3, <2>4 DEF RegistrationsApart, Registration
<1>2. CASE RefuseImport
  BY <1>2, Rewritten, GivenUp, StillApart DEF RefuseImport, RegistrationsKept
<1>3. CASE Launch
  <2> DEFINE attempt == [Attempt EXCEPT !.state = "importing", !.worker = "launching"]
  <2>1. importing # 0 /\ attempt \in Attempts /\ attempt.name = Attempt.name
    BY <1>3, Rewritten DEF Launch, Attempts
  <2>2. Become(attempt)
    BY <1>3 DEF Launch
  <2> HIDE DEF attempt
  <2>3. attempts' \in Seq(Attempts) /\ NamesKept
    BY <2>1, <2>2, Became
  <2> QED
    BY <1>3, <2>3, <1>c, StillApart DEF Launch, RegistrationsKept
<1>4. CASE ImportTimesOut
  BY <1>4, Rewritten, GivenUp, StillApart DEF ImportTimesOut, RegistrationsKept
<1>5. CASE TakeExit
  BY <1>5, TakeExitEnds, StillApart DEF RegistrationsKept
<1>6. CASE RegisterAsset
  <2>1. CASE GiveUpImport(Uncertain)
    BY <1>6, <2>1, Rewritten, GivenUp, StillApart DEF RegisterAsset, RegistrationsKept
  <2>2. CASE UNCHANGED <<importing, attempts, registerVars>>
    BY <2>2, <1>z, <1>c, StillApart DEF RegistrationsKept
  <2> QED
    BY <1>6, <2>1, <2>2 DEF RegisterAsset
<1>7. CASE FinishImport
  <2>1. CASE RegistrationsKept
    BY <1>7, <2>1, FinishEnds, StillApart DEF RegistrationsKept
  <2>2. CASE Registration(importing) # 0 /\ CountUp(Registration(importing))
    BY <1>7, <2>2, FinishEnds, CountedUp, StillApart
  <2> QED
    BY <1>7, <2>1, <2>2, FinishEnds
<1>8. ASSUME NEW n \in DOMAIN importer, CheckDestination(n) \/ WriteAsset(n) PROVE RegistrationsApart'
  BY <1>8, <1>z, <1>c, StillApart DEF CheckDestination, WriteAsset, RegistrationsKept
<1>10. CASE Generate \/ BlenderExits \/ EndGeneration
  BY <1>10, <1>z, <1>c, StillApart DEF Generate, BlenderExits, EndGeneration, RegistrationsKept
<1>11. CASE StartExecution \/ EndExecution
  BY <1>11, <1>z, <1>c, StillApart DEF StartExecution, EndExecution, RegistrationsKept
<1>12. CASE StartRegistration \/ RegisterFromConsole
  <2> DEFINE new == Len(registrations) + 1
  <2>1. /\ registrations' \in Seq(Registrations) /\ Len(registrations') = new
        /\ \A q \in 1 .. Len(registrations) : registrations'[q] = registrations[q]
        /\ UNCHANGED attempts
    BY <1>12, Opened DEF StartRegistration, RegisterFromConsole
  <2>2. \A n \in DOMAIN attempts' : Registration(n)' \in 0 .. Len(registrations')
    BY <2>1, Lengths DEF RegistrationsApart, Registration
  <2>3. \A r \in consoles : r \in 1 .. Len(registrations) /\ registrations[r].console
    BY Lengths DEF AssetTypeOK, RegistrationsApart
  <2>4. active # 0 => active \in 1 .. Len(registrations) /\ ~registrations[active].console
    BY DEF AssetTypeOK, RegistrationsApart
  <2>5. CASE StartRegistration
    <3>1. active' = new /\ consoles' = consoles /\ ~registrations'[new].console
      BY <2>1, <2>5, Opened DEF StartRegistration
    <3> QED
      BY <2>1, <2>2, <2>3, <3>1 DEF RegistrationsApart
  <2>6. CASE RegisterFromConsole
    <3>1. active' = active /\ consoles' = consoles \cup {new} /\ registrations'[new].console
      BY <2>1, <2>6, Opened DEF RegisterFromConsole
    <3> QED
      BY <2>1, <2>2, <2>3, <2>4, <3>1 DEF RegistrationsApart
  <2> QED
    BY <1>12, <2>5, <2>6
<1>13. ASSUME NEW r \in Registering, FinishRegistration(r) PROVE RegistrationsApart'
  <2>1. active' \in {0, active} /\ consoles' \subseteq consoles /\ UNCHANGED attempts
    BY <1>13 DEF FinishRegistration, Leave
  <2> QED
    BY <1>13, <2>1, <1>z, FinishReports, StillApart
<1>14. CASE CrashBridge \/ StartStudio \/ RestartBridge \/ StopStudio
  BY <1>14, <1>z, <1>c, StillApart DEF CrashBridge, StartStudio, RestartBridge, StopStudio, Gone,
     RegistrationsKept
<1>16. CASE LockForRestart \/ CheckRestart
  BY <1>16, <1>z, <1>c, StillApart DEF LockForRestart, CheckRestart, RegistrationsKept
<1>17. CASE UNCHANGED assetVars
  BY <1>17, <1>z, <1>c, StillApart DEF assetVars, RegistrationsKept
<1>18. ASSUME NEW r \in Registering, KillConsole(r) PROVE RegistrationsApart'
  BY <1>18, <1>z, <1>c, StillApart DEF KillConsole, RegistrationsKept
<1> QED
  BY <1>1, <1>2, <1>3, <1>4, <1>5, <1>6, <1>7, <1>8, <1>10, <1>11, <1>12, <1>13, <1>14, <1>16,
     <1>17, <1>18 DEF AssetNext, Begin

(* No importer is added but that of the attempt at hand.                   *)
LEMMA StillAlone ==
  ASSUME AssetTypeOK, RegistrationsApart, ImportersAreAlone, attempts' \in Seq(Attempts), NamesKept,
         \A q \in 1 .. Len(registrations) : registrations'[q].console = registrations[q].console,
         importing' \in {0, importing}, Importers' \subseteq Importers \cup ({importing'} \ {0}),
         execution.on => active' = 0, UNCHANGED execution, restart' \in {restart, "none"},
         restart # "none" => blenders' \subseteq blenders /\ generating' \subseteq generating
  PROVE  ImportersAreAlone'
<1>1. \A n \in 1 .. Len(attempts) : ByConsole(n) => ByConsole(n)'
  BY Lengths DEF RegistrationsApart, ByConsole, Registration, NamesKept
<1>2. Importers \cup ({importing} \ {0}) \subseteq 1 .. Len(attempts)
  BY Lengths DEF AssetTypeOK, Importers
<1>3. Importers' \cup ({importing'} \ {0}) \subseteq Importers \cup ({importing} \ {0})
  OBVIOUS
<1>4. execution.on => \A n \in Importers' \cup ({importing'} \ {0}) :
        ByConsole(n)' /\ n > execution.after
  BY <1>1, <1>2, <1>3 DEF ImportersAreAlone
<1>5. /\ \A m, n \in Importers' : m = n
      /\ importing' # 0 => Importers' \subseteq {importing'}
  BY DEF ImportersAreAlone
<1>6. execution.after <= Len(attempts')
  BY DEF ImportersAreAlone, NamesKept
<1>7. restart' # "none" =>
        Importers' = {} /\ importing' = 0 /\ blenders' = {} /\ generating' = {}
  BY DEF ImportersAreAlone
<1> QED
  BY <1>4, <1>5, <1>6, <1>7 DEF ImportersAreAlone

(* There is never a second importer.                                       *)
LEMMA AloneStep ==
  ASSUME AssetTypeOK, RegistrationsApart, AttemptIsTrue, ImportersAreAlone, [AssetNext]_assetVars
  PROVE  ImportersAreAlone'
<1> USE AssetAssumption DEF importVars, blenderVars, registerVars, otherVars
<1>z. UNCHANGED attempts => attempts' \in Seq(Attempts) /\ NamesKept
  BY DEF AssetTypeOK, NamesKept
<1>a. UNCHANGED importer => Importers' = Importers
  BY DEF Importers, ImporterAlive
<1>b. execution.on => active = 0
  BY DEF ImportersAreAlone
<1>1. CASE Begin
  <2>1. PICK name \in Names : Prepare(name) /\ NextOf(name)
    BY <1>1, Began
  <2>0. PICK new : new = Len(attempts) + 1
    OBVIOUS
  <2>2. Importers = {} /\ importing = 0 /\ restart = "none" /\ UNCHANGED <<execution, restart>>
    BY <2>1 DEF Prepare, ImportLocked
  <2>3. /\ DOMAIN importer' = 1 .. new /\ importer'[new] = "none" /\ importing' = new
        /\ attempts'[new].name = name /\ Len(attempts') = new
        /\ \A m \in 1 .. Len(attempts) : importer'[m] = importer[m]
        /\ UNCHANGED <<registrations, active>>
    BY <2>0, <2>1, Prepared DEF Prepare
  <2>4. Importers' = {}
    <3>1. \A m \in DOMAIN importer' : importer'[m] \notin {"checking", "writing"}
      BY <2>0, <2>2, <2>3, Lengths DEF Importers, ImporterAlive
    <3> QED
      BY <3>1 DEF Importers, ImporterAlive
  <2>5. execution.on => ByConsole(new)' /\ new > execution.after
    <3> SUFFICES ASSUME execution.on PROVE ByConsole(new)' /\ new > execution.after
      OBVIOUS
    <3>1. active = 0 /\ execution.after <= Len(attempts)
      BY DEF ImportersAreAlone
    <3>2. PICK r \in Registering : name = <<r, registrations[r].done + 1>>
      BY <2>1 DEF NextOf
    <3>3. r \in consoles /\ r # 0
      BY <3>1, <3>2, Registers, Lengths DEF Registering
    <3>4. registrations[r].console
      BY <3>3 DEF RegistrationsApart
    <3>5. Registration(new)' = r
      BY <2>3, <3>2 DEF Registration
    <3>6. new > execution.after
      BY <2>0, <3>1, Lengths DEF AssetTypeOK
    <3> QED
      BY <2>3, <3>3, <3>4, <3>5, <3>6 DEF ByConsole
  <2>6. execution.after <= new
    BY <2>0, Lengths DEF AssetTypeOK, ImportersAreAlone
  <2>7. execution.on => \A n \in Importers' \cup ({importing'} \ {0}) :
          ByConsole(n)' /\ n > execution.after
    BY <2>3, <2>4, <2>5
  <2> QED
    BY <1>b, <2>2, <2>3, <2>4, <2>6, <2>7 DEF ImportersAreAlone
<1>2. CASE RefuseImport
  BY <1>2, <1>a, <1>b, Rewritten, GivenUp, StillAlone DEF RefuseImport, RegistrationsKept
<1>3. CASE Launch
  <2> DEFINE attempt == [Attempt EXCEPT !.state = "importing", !.worker = "launching"]
  <2>1. importing # 0 /\ attempt \in Attempts /\ attempt.name = Attempt.name
    BY <1>3, Rewritten DEF Launch, Attempts
  <2>2. Become(attempt)
    BY <1>3 DEF Launch
  <2> HIDE DEF attempt
  <2>3. attempts' \in Seq(Attempts) /\ NamesKept
    BY <2>1, <2>2, Became
  <2>4. Importers' \subseteq Importers \cup {importing}
    BY <1>3 DEF Launch, Importers, ImporterAlive
  <2> QED
    BY <1>3, <1>b, <2>1, <2>3, <2>4, StillAlone DEF Launch
<1>4. CASE ImportTimesOut
  <2>1. Importers' \subseteq Importers
    BY <1>4 DEF ImportTimesOut, Importers, ImporterAlive
  <2> QED
    BY <1>4, <1>b, <2>1, Rewritten, GivenUp, StillAlone DEF ImportTimesOut, RegistrationsKept
<1>5. CASE TakeExit
  <2>1. importing' \in {0, importing}
    BY <1>5, TakeExitEnds
  <2> QED
    BY <1>5, <1>a, <1>b, <2>1, TakeExitEnds, StillAlone DEF TakeExit, RegistrationsKept
<1>6. CASE RegisterAsset
  <2>1. CASE GiveUpImport(Uncertain)
    BY <1>6, <1>a, <1>b, <2>1, Rewritten, GivenUp, StillAlone DEF RegisterAsset, RegistrationsKept
  <2>2. CASE UNCHANGED <<importing, attempts, registerVars>>
    BY <1>6, <1>z, <1>a, <1>b, <2>2, StillAlone DEF RegisterAsset
  <2> QED
    BY <1>6, <2>1, <2>2 DEF RegisterAsset
<1>7. CASE FinishImport
  <2>1. UNCHANGED <<importer, blenderVars, otherVars>>
    BY <1>7 DEF FinishImport
  <2>2. CASE RegistrationsKept
    BY <1>7, <1>a, <1>b, <2>1, <2>2, FinishEnds, StillAlone DEF RegistrationsKept
  <2>3. CASE Registration(importing) # 0 /\ CountUp(Registration(importing))
    BY <1>7, <1>a, <1>b, <2>1, <2>3, FinishEnds, CountedUp, StillAlone
  <2> QED
    BY <1>7, <2>2, <2>3, FinishEnds
<1>8. ASSUME NEW n \in DOMAIN importer, CheckDestination(n) \/ WriteAsset(n) PROVE ImportersAreAlone'
  <2>1. Importers' \subseteq Importers
    BY <1>8 DEF CheckDestination, WriteAsset, Importers, ImporterAlive
  <2> QED
    BY <1>8, <1>z, <1>b, <2>1, StillAlone DEF CheckDestination, WriteAsset
<1>10. CASE Generate \/ BlenderExits \/ EndGeneration
  <2>1. restart # "none" => blenders' \subseteq blenders /\ generating' \subseteq generating
    BY <1>10 DEF Generate, BlenderExits, EndGeneration
  <2> QED
    BY <1>10, <1>z, <1>a, <1>b, <2>1, StillAlone DEF Generate, BlenderExits, EndGeneration
<1>11. CASE StartExecution
  <2>1. /\ Importers = {} /\ importing = 0 /\ restart = "none" /\ active = 0
        /\ execution' = [on |-> TRUE, after |-> Len(attempts)]
        /\ UNCHANGED <<attempts, importing, active, restart>>
    BY <1>11 DEF StartExecution, ImportBusy, ImportLocked
  <2>2. Importers' = {}
    BY <1>11, <1>a, <2>1 DEF StartExecution
  <2> QED
    BY <2>1, <2>2, Lengths DEF ImportersAreAlone
<1>19. CASE EndExecution
  <2>1. ~execution'.on /\ execution'.after = execution.after
    BY <1>19 DEF EndExecution, AssetTypeOK
  <2> QED
    BY <1>19, <1>a, <2>1 DEF EndExecution, ImportersAreAlone
<1>12. CASE StartRegistration \/ RegisterFromConsole
  <2>1. /\ \A q \in 1 .. Len(registrations) : registrations'[q] = registrations[q]
        /\ execution.on => active' = 0
    BY <1>12, <1>b, Opened DEF StartRegistration, RegisterFromConsole
  <2> QED
    BY <1>12, <1>z, <1>a, <2>1, StillAlone DEF StartRegistration, RegisterFromConsole
<1>13. ASSUME NEW r \in Registering, FinishRegistration(r) PROVE ImportersAreAlone'
  <2>1. execution.on => active' = 0
    BY <1>13, <1>b DEF FinishRegistration, Leave
  <2> QED
    BY <1>13, <1>z, <1>a, <2>1, FinishReports, StillAlone DEF FinishRegistration
<1>14. CASE CrashBridge \/ StartStudio \/ RestartBridge
  BY <1>14, <1>z, <1>a, <1>b, StillAlone DEF CrashBridge, StartStudio, RestartBridge, Gone
<1>15. CASE StopStudio
  <2>1. Importers' \subseteq Importers
    BY <1>15 DEF StopStudio, Importers, ImporterAlive
  <2> QED
    BY <1>15, <1>z, <2>1, StillAlone DEF StopStudio, Gone
<1>16. CASE LockForRestart
  <2>1. Importers = {} /\ importing = 0 /\ blenders = {} /\ generating = {}
    BY <1>16 DEF LockForRestart, Admitted, ImportLocked
  <2> QED
    BY <1>16, <1>a, <2>1 DEF LockForRestart, ImportersAreAlone, ByConsole, Registration
<1>20. CASE CheckRestart
  <2>1. restart # "none"
    BY <1>20 DEF CheckRestart
  <2> QED
    BY <1>20, <1>a, <2>1 DEF CheckRestart, ImportersAreAlone, ByConsole, Registration
<1>17. CASE UNCHANGED assetVars
  BY <1>17, <1>z, <1>a, <1>b, StillAlone DEF assetVars
<1>18. ASSUME NEW r \in Registering, KillConsole(r) PROVE ImportersAreAlone'
  BY <1>18, <1>z, <1>a, <1>b, StillAlone DEF KillConsole
<1> QED
  BY <1>1, <1>2, <1>3, <1>4, <1>5, <1>6, <1>7, <1>8, <1>10, <1>11, <1>12, <1>13, <1>14, <1>15,
     <1>16, <1>17, <1>18, <1>19, <1>20 DEF AssetNext, Begin

(* What an importer has written stays.                                     *)
LEMMA OnceStep ==
  ASSUME AssetTypeOK, RegistrationsApart, ImportersAreAlone, AttemptIsTrue, AssetsAreWrittenOnce, [AssetNext]_assetVars
  PROVE  AssetsAreWrittenOnce'
<1> USE AssetAssumption DEF importVars, blenderVars, registerVars, otherVars, AssetsAreWrittenOnce
<1>1. CASE Begin
  <2>1. PICK name \in Names : Prepare(name) /\ NextOf(name)
    BY <1>1, Began
  <2>2. /\ DOMAIN importer' = 1 .. Len(attempts) + 1 /\ UNCHANGED assets
        /\ importer'[Len(attempts) + 1] = "none"
        /\ \A m \in 1 .. Len(attempts) : attempts'[m] = attempts[m] /\ importer'[m] = importer[m]
    BY <2>1, Prepared DEF Prepare
  <2> QED
    BY <2>2, Lengths
<1>2. CASE RefuseImport
  BY <1>2, Rewritten, GivenUp, Lengths DEF RefuseImport, NamesKept
<1>3. CASE Launch
  BY <1>3 DEF Launch, Become, Attempt
<1>4. CASE ImportTimesOut
  <2>1. importing \in 1 .. Len(attempts) /\ NamesKept
    BY <1>4, Rewritten, GivenUp DEF ImportTimesOut
  <2>2. UNCHANGED assets /\ importer' = [importer EXCEPT ![importing] = "failed"]
    BY <1>4 DEF ImportTimesOut
  <2> QED
    BY <2>1, <2>2, Lengths DEF NamesKept
<1>5. CASE TakeExit
  BY <1>5, TakeExitEnds, Lengths DEF TakeExit, NamesKept
<1>6. CASE RegisterAsset
  <2>1. NamesKept
    BY <1>6, Rewritten, GivenUp DEF RegisterAsset, NamesKept
  <2> QED
    BY <1>6, <2>1, Lengths DEF RegisterAsset, NamesKept
<1>7. CASE FinishImport
  BY <1>7, FinishEnds, Lengths DEF FinishImport, NamesKept
<1>8. ASSUME NEW n \in DOMAIN importer, CheckDestination(n) PROVE AssetsAreWrittenOnce'
  BY <1>8 DEF CheckDestination
<1>9. ASSUME NEW n \in DOMAIN importer, WriteAsset(n) PROVE AssetsAreWrittenOnce'
  <2>1. /\ n \in 1 .. Len(attempts) /\ importer[n] = "writing"
        /\ assets[attempts[n].name] = 0 /\ attempts[n].name \in Names
    BY <1>9, Lengths DEF WriteAsset, Attempts
  <2>2. \A m \in 1 .. Len(attempts) : importer[m] = "writing" => m = n
    BY <2>1, Lengths DEF ImportersAreAlone, Importers, ImporterAlive
  <2>3. \A m \in 1 .. Len(attempts) :
          importer[m] = "succeeded" => attempts[m].name # attempts[n].name
    BY <2>1, Lengths
  <2>4. /\ assets' = [assets EXCEPT ![attempts[n].name] = n] /\ UNCHANGED attempts
        /\ \E end \in {"succeeded", "failed"} : importer' = [importer EXCEPT ![n] = end]
    BY <1>9 DEF WriteAsset
  <2>5. assets \in [Names -> 0 .. Len(attempts)]
    BY DEF AssetTypeOK
  <2>6. DOMAIN importer' = 1 .. Len(attempts) /\ \A m \in 1 .. Len(attempts) :
          /\ importer'[m] # "writing"
          /\ m # n => importer'[m] = importer[m]
    BY <2>1, <2>2, <2>4, Lengths
  <2>7. \A m \in 1 .. Len(attempts) : attempts[m].name \in Names
    BY Lengths DEF Attempts
  <2>8. assets'[attempts[n].name] = n
    BY <2>1, <2>4, <2>5
  <2>9. \A m \in 1 .. Len(attempts) :
          m # n /\ importer[m] = "succeeded" => assets'[attempts[m].name] = m
    BY <2>3, <2>4, <2>5, <2>7, Lengths
  <2> QED
    BY <2>4, <2>6, <2>8, <2>9
<1>10. CASE Generate \/ BlenderExits \/ EndGeneration
  BY <1>10 DEF Generate, BlenderExits, EndGeneration
<1>11. CASE StartExecution \/ EndExecution
  BY <1>11 DEF StartExecution, EndExecution, ImportBusy, ImportLocked
<1>12. CASE StartRegistration \/ RegisterFromConsole
  BY <1>12 DEF StartRegistration, RegisterFromConsole
<1>13. ASSUME NEW r \in Registering, FinishRegistration(r) PROVE AssetsAreWrittenOnce'
  BY <1>13 DEF FinishRegistration
<1>18. ASSUME NEW r \in Registering, KillConsole(r) PROVE AssetsAreWrittenOnce'
  BY <1>18 DEF KillConsole
<1>14. CASE CrashBridge \/ StartStudio \/ RestartBridge
  BY <1>14 DEF CrashBridge, StartStudio, RestartBridge, Gone, Started
<1>15. CASE StopStudio
  BY <1>15 DEF StopStudio, Gone
<1>16. CASE LockForRestart \/ CheckRestart
  BY <1>16 DEF LockForRestart, CheckRestart, Admitted, ImportLocked
<1>17. CASE UNCHANGED assetVars
  BY <1>17 DEF assetVars
<1> QED
  BY <1>1, <1>2, <1>3, <1>4, <1>5, <1>6, <1>7, <1>8, <1>9, <1>10, <1>11, <1>12, <1>13, <1>14,
     <1>15, <1>16, <1>17, <1>18 DEF AssetNext, Begin

(* The attempt at hand is as far as its importer.                          *)
LEMMA AttemptStep ==
  ASSUME AssetTypeOK, RegistrationsApart, ImportersAreAlone, AttemptIsTrue, [AssetNext]_assetVars
  PROVE  AttemptIsTrue'
<1> USE AssetAssumption DEF importVars, blenderVars, registerVars, otherVars, AttemptIsTrue, Attempt, Registration, Registering
<1>1. CASE Begin
  <2>1. PICK name \in Names : Prepare(name) /\ NextOf(name)
    BY <1>1, Began
  <2>2. /\ importing' = Len(attempts) + 1 /\ importing' # 0
        /\ attempts'[importing'] = [name |-> name, state |-> "preparing",
                                    worker |-> "not_started", code |-> "none"]
        /\ importer'[importing'] = "none" /\ UNCHANGED <<registrations, active>>
    BY <2>1, Prepared DEF Prepare
  <2>3. Registration(importing)' = name[1]
    BY <2>2 DEF Registration
  <2>4. CASE name[1] = 0
    BY <2>2, <2>3, <2>4
  <2>5. ASSUME NEW r \in Registering, name = <<r, registrations[r].done + 1>>
        PROVE  AttemptIsTrue'
    <3>1. /\ name[1] = r /\ name[2] = registrations[r].done + 1
          /\ UNCHANGED <<registrations, active, consoles>>
      BY <2>1, <2>5 DEF Prepare
    <3> QED
      BY <2>2, <2>3, <2>5, <3>1
  <2> QED
    BY <2>1, <2>4, <2>5 DEF NextOf
<1>2. CASE RefuseImport
  BY <1>2 DEF RefuseImport, GiveUpImport
<1>3. CASE Launch
  <2>1. importing \in 1 .. Len(attempts) /\ Attempt \in Attempts
    BY <1>3, Rewritten DEF Launch
  <2>2. /\ attempts' = [attempts EXCEPT ![importing] =
              [Attempt EXCEPT !.state = "importing", !.worker = "launching"]]
        /\ Attempt.code = "none"
    BY <1>3 DEF Launch, Become
  <2>3. /\ attempts'[importing].state = "importing" /\ attempts'[importing].code = "none"
        /\ attempts'[importing].name = Attempt.name
    BY <2>1, <2>2, Lengths DEF Attempts
  <2> QED
    BY <1>3, <2>3 DEF Launch
<1>4. CASE ImportTimesOut
  BY <1>4 DEF ImportTimesOut, GiveUpImport
<1>5. CASE TakeExit
  <2>1. /\ importing # 0 /\ Attempt \in Attempts
        /\ Attempt.state # "preparing" \/ importer[importing] = "none"
    BY <1>5, Rewritten DEF TakeExit
  <2>2. CASE importing' = 0
    BY <2>2
  <2>3. CASE /\ UNCHANGED <<importing, registerVars>>
             /\ importer[importing] = "succeeded"
             /\ attempts'[importing] = [Attempt EXCEPT !.worker = "exited", !.code = "ok"]
    <3>1. /\ attempts'[importing].name = Attempt.name /\ attempts'[importing].state = Attempt.state
      BY <2>1, <2>3 DEF Attempts
    <3>2. UNCHANGED importer
      BY <1>5 DEF TakeExit
    <3> QED
      BY <2>1, <2>3, <3>1, <3>2
  <2> QED
    BY <1>5, <2>2, <2>3, TakeExitEnds
<1>6. CASE RegisterAsset
  BY <1>6 DEF RegisterAsset, GiveUpImport
<1>7. CASE FinishImport
  BY <1>7 DEF FinishImport, GiveUpImport
<1>8. ASSUME NEW n \in DOMAIN importer, CheckDestination(n) PROVE AttemptIsTrue'
  BY <1>8 DEF CheckDestination
<1>9. ASSUME NEW n \in DOMAIN importer, WriteAsset(n) PROVE AttemptIsTrue'
  <2>1. UNCHANGED <<importing, attempts, registerVars>> /\ importer[n] = "writing"
        /\ \A m \in DOMAIN importer : m # n => importer'[m] = importer[m]
    BY <1>9 DEF WriteAsset
  <2> QED
    BY <2>1, Rewritten, Lengths
<1>10. CASE Generate \/ BlenderExits \/ EndGeneration
  BY <1>10 DEF Generate, BlenderExits, EndGeneration
<1>11. CASE StartExecution \/ EndExecution
  BY <1>11 DEF StartExecution, EndExecution, ImportBusy, ImportLocked
<1>12. CASE StartRegistration \/ RegisterFromConsole
  <2>1. CASE StartRegistration
    BY <2>1 DEF StartRegistration, ImportBusy, ImportLocked
  <2>2. CASE RegisterFromConsole
    <3>1. /\ \A q \in 1 .. Len(registrations) : registrations'[q] = registrations[q]
          /\ UNCHANGED <<attempts, importer, importing, active>> /\ consoles \subseteq consoles'
      BY <2>2, Opened DEF RegisterFromConsole
    <3> QED
      BY <3>1, OfRegistration, Lengths DEF Registration, Registering
  <2> QED
    BY <1>12, <2>1, <2>2
<1>13. ASSUME NEW r \in Registering, FinishRegistration(r) PROVE AttemptIsTrue'
  <2>1. /\ UNCHANGED <<attempts, importer, importing>> /\ Registering \ {r} \subseteq Registering'
        /\ importing # 0 => Registration(importing) # r
    BY <1>13 DEF FinishRegistration, Leave, Registering, Importing
  <2>2. \A q \in 1 .. Len(registrations) : registrations'[q].done = registrations[q].done
    BY <1>13, FinishReports
  <2> QED
    BY <2>1, <2>2, OfRegistration, Lengths DEF Registration
<1>14. CASE CrashBridge \/ RestartBridge \/ StopStudio
  <2>1. UNCHANGED <<attempts, registrations, consoles>> /\ importing' = (IF AtBridge THEN 0 ELSE importing)
    BY <1>14 DEF CrashBridge, RestartBridge, StopStudio, Gone
  <2>2. importing' # 0 => importing' = importing /\ Registration(importing) \in consoles
    BY <2>1 DEF AtBridge
  <2>3. importing' # 0 => importer'[importing] = importer[importing]
    BY <1>14, <2>1, <2>2, Rewritten, Lengths DEF CrashBridge, RestartBridge, StopStudio, AtBridge
  <2> QED
    BY <2>1, <2>2, <2>3 DEF Registration, Registering
<1>15. CASE StartStudio
  BY <1>15 DEF StartStudio, Registration, Registering
<1>18. ASSUME NEW r \in Registering, KillConsole(r) PROVE AttemptIsTrue'
  <2>1. /\ UNCHANGED <<attempts, importer, registrations, active>> /\ consoles' = consoles \ {r}
        /\ importing' = (IF Importing(r) THEN 0 ELSE importing)
    BY <1>18 DEF KillConsole
  <2>2. importing' # 0 => importing' = importing /\ Registration(importing) # r
    BY <2>1 DEF Importing
  <2> QED
    BY <2>1, <2>2 DEF Registration, Registering
<1>16. CASE LockForRestart \/ CheckRestart
  BY <1>16 DEF LockForRestart, CheckRestart, Admitted, ImportLocked
<1>17. CASE UNCHANGED assetVars
  BY <1>17 DEF assetVars
<1> QED
  BY <1>1, <1>2, <1>3, <1>4, <1>5, <1>6, <1>7, <1>8, <1>9, <1>10, <1>11, <1>12, <1>13, <1>14,
     <1>15, <1>16, <1>17, <1>18 DEF AssetNext, Begin

(* An attempt that is rewritten stays in the registry.                     *)
LEMMA RegistryKept ==
  ASSUME AssetTypeOK, RegistryIsTrue, NamesKept, UNCHANGED registry,
         \A n \in 1 .. Len(attempts) : importer[n] = "succeeded" => importer'[n] = "succeeded"
  PROVE  RegistryIsTrue'
<1> SUFFICES ASSUME NEW name \in Names, registry[name] # 0
             PROVE  importer'[registry[name]] = "succeeded" /\ attempts'[registry[name]].name = name
  BY DEF RegistryIsTrue
<1>1. registry[name] \in 1 .. Len(attempts)
  BY DEF AssetTypeOK
<1>2. importer[registry[name]] = "succeeded" /\ attempts[registry[name]].name = name
  BY DEF RegistryIsTrue
<1> QED
  BY <1>1, <1>2 DEF NamesKept

(* The registry names what an importer of that name has written.           *)
LEMMA RegistryStep ==
  ASSUME AssetTypeOK, RegistrationsApart, AttemptIsTrue, RegistryIsTrue, [AssetNext]_assetVars
  PROVE  RegistryIsTrue'
<1> USE AssetAssumption DEF importVars, blenderVars, registerVars, otherVars, RegistryIsTrue
<1>1. CASE Begin
  <2>1. PICK name \in Names : Prepare(name) /\ NextOf(name)
    BY <1>1, Began
  <2>2. /\ UNCHANGED registry /\ registry \in [Names -> 0 .. Len(attempts)]
        /\ \A m \in 1 .. Len(attempts) : attempts'[m] = attempts[m] /\ importer'[m] = importer[m]
    BY <2>1, Prepared DEF Prepare, AssetTypeOK
  <2> QED
    BY <2>2, Lengths
<1>2. CASE RefuseImport
  <2>1. NamesKept /\ UNCHANGED <<importer, registry>>
    BY <1>2, Rewritten, GivenUp DEF RefuseImport
  <2> QED
    BY <2>1, RegistryKept, Lengths
<1>3. CASE Launch
  <2>1. /\ importing \in 1 .. Len(attempts) /\ Attempt \in Attempts
        /\ [Attempt EXCEPT !.state = "importing", !.worker = "launching"] \in Attempts
        /\ [Attempt EXCEPT !.state = "importing", !.worker = "launching"].name = Attempt.name
    BY <1>3, Rewritten DEF Launch, Attempts
  <2>2. NamesKept /\ UNCHANGED registry /\ importer[importing] = "none"
        /\ importer' = [importer EXCEPT ![importing] = "checking"]
    BY <1>3, <2>1, Became DEF Launch, AttemptIsTrue
  <2> QED
    BY <2>1, <2>2, RegistryKept, Lengths
<1>4. CASE ImportTimesOut
  <2>1. NamesKept /\ UNCHANGED registry /\ importer[importing] # "succeeded"
        /\ importer' = [importer EXCEPT ![importing] = "failed"]
    BY <1>4, Rewritten, GivenUp DEF ImportTimesOut, ImporterAlive
  <2> QED
    BY <2>1, RegistryKept, Lengths
<1>5. CASE TakeExit
  <2>1. NamesKept /\ UNCHANGED <<importer, registry>>
    BY <1>5, TakeExitEnds DEF TakeExit
  <2> QED
    BY <2>1, RegistryKept, Lengths
<1>6. CASE RegisterAsset
  <2>1. importing \in 1 .. Len(attempts) /\ Attempt.name \in Names
        /\ importer[importing] = "succeeded" /\ UNCHANGED importer
    BY <1>6, Rewritten DEF RegisterAsset, Attempts, AttemptIsTrue
  <2>2. CASE registry' = [registry EXCEPT ![Attempt.name] = importing] /\ UNCHANGED attempts
    BY <2>1, <2>2 DEF AssetTypeOK, Attempt
  <2>3. CASE GiveUpImport(Uncertain) /\ UNCHANGED registry
    <3>1. NamesKept
      BY <2>1, <2>3, Rewritten, GivenUp
    <3> QED
      BY <2>1, <2>3, <3>1, RegistryKept
  <2> QED
    BY <1>6, <2>2, <2>3 DEF RegisterAsset
<1>7. CASE FinishImport
  <2>1. NamesKept /\ UNCHANGED <<importer, registry>>
    BY <1>7, FinishEnds DEF FinishImport
  <2> QED
    BY <2>1, RegistryKept, Lengths
<1>8. ASSUME NEW n \in DOMAIN importer, CheckDestination(n) PROVE RegistryIsTrue'
  <2>1. UNCHANGED <<attempts, registry>> /\ importer[n] = "checking"
        /\ \A m \in DOMAIN importer : m # n => importer'[m] = importer[m]
    BY <1>8 DEF CheckDestination
  <2> QED
    BY <2>1, Lengths DEF AssetTypeOK
<1>9. ASSUME NEW n \in DOMAIN importer, WriteAsset(n) PROVE RegistryIsTrue'
  <2>1. UNCHANGED <<attempts, registry>> /\ importer[n] = "writing"
        /\ \A m \in DOMAIN importer : m # n => importer'[m] = importer[m]
    BY <1>9 DEF WriteAsset
  <2> QED
    BY <2>1, Lengths DEF AssetTypeOK
<1>10. CASE Generate \/ BlenderExits \/ EndGeneration
  BY <1>10 DEF Generate, BlenderExits, EndGeneration
<1>11. CASE StartExecution \/ EndExecution
  BY <1>11 DEF StartExecution, EndExecution, ImportBusy, ImportLocked
<1>12. CASE StartRegistration \/ RegisterFromConsole
  BY <1>12 DEF StartRegistration, RegisterFromConsole
<1>13. ASSUME NEW r \in Registering, FinishRegistration(r) PROVE RegistryIsTrue'
  BY <1>13 DEF FinishRegistration
<1>18. ASSUME NEW r \in Registering, KillConsole(r) PROVE RegistryIsTrue'
  BY <1>18 DEF KillConsole
<1>14. CASE CrashBridge \/ StartStudio \/ RestartBridge
  BY <1>14 DEF CrashBridge, StartStudio, RestartBridge, Gone, Started
<1>15. CASE StopStudio
  <2>1. UNCHANGED <<attempts, registry>> /\ NamesKept
        /\ \A m \in DOMAIN importer : importer[m] = "succeeded" => importer'[m] = "succeeded"
    BY <1>15 DEF StopStudio, ImporterAlive, NamesKept
  <2> QED
    BY <2>1, RegistryKept, Lengths
<1>16. CASE LockForRestart \/ CheckRestart
  BY <1>16 DEF LockForRestart, CheckRestart, Admitted, ImportLocked
<1>17. CASE UNCHANGED assetVars
  BY <1>17 DEF assetVars
<1> QED
  BY <1>1, <1>2, <1>3, <1>4, <1>5, <1>6, <1>7, <1>8, <1>9, <1>10, <1>11, <1>12, <1>13, <1>14,
     <1>15, <1>16, <1>17, <1>18 DEF AssetNext, Begin

(* What a registration has counted is registered.                          *)
LEMMA DoneStep ==
  ASSUME AssetTypeOK, RegistrationsApart, AttemptIsTrue, DoneIsRegistered, [AssetNext]_assetVars
  PROVE  DoneIsRegistered'
<1> USE AssetAssumption DEF importVars, blenderVars, registerVars, otherVars, DoneIsRegistered
<1>1. CASE Begin
  <2>1. PICK name \in Names : Prepare(name) /\ NextOf(name)
    BY <1>1, Began
  <2> QED
    BY <2>1 DEF Prepare
<1>2. CASE RefuseImport
  <2>1. RegistrationsKept /\ UNCHANGED registry
    BY <1>2, Rewritten, GivenUp DEF RefuseImport
  <2> QED
    BY <2>1, Lengths DEF RegistrationsKept
<1>3. CASE Launch
  BY <1>3 DEF Launch, Become, Attempt
<1>4. CASE ImportTimesOut
  <2>1. RegistrationsKept /\ UNCHANGED registry
    BY <1>4, Rewritten, GivenUp DEF ImportTimesOut
  <2> QED
    BY <2>1, Lengths DEF RegistrationsKept
<1>5. CASE TakeExit
  <2>1. RegistrationsKept /\ UNCHANGED registry
    BY <1>5, TakeExitEnds DEF TakeExit
  <2> QED
    BY <2>1, Lengths DEF RegistrationsKept
<1>6. CASE RegisterAsset
  <2>1. RegistrationsKept
    BY <1>6, Rewritten, GivenUp DEF RegisterAsset, RegistrationsKept, AssetTypeOK
  <2>2. importing \in 1 .. Len(attempts)
    BY <1>6, Rewritten DEF RegisterAsset
  <2>3. \A name \in DOMAIN registry : registry[name] # 0 => registry'[name] # 0
    BY <1>6, <2>2 DEF RegisterAsset
  <2>4. \A r \in 1 .. Len(registrations) : \A i \in 1 .. registrations[r].done : registry'[<<r, i>>] # 0
    <3> SUFFICES ASSUME NEW r \in 1 .. Len(registrations), NEW i \in 1 .. registrations[r].done
                 PROVE  registry'[<<r, i>>] # 0
      OBVIOUS
    <3>1. registry[<<r, i>>] # 0
      BY Lengths
    <3>2. r \in 1 .. MaxRegistrations /\ i \in 1 .. BundleAssets
      BY Lengths DEF Registrations, AssetTypeOK
    <3>3. <<r, i>> \in DOMAIN registry
      BY <3>2 DEF AssetTypeOK, Names
    <3> QED
      BY <2>3, <3>1, <3>3
  <2> QED
    BY <2>1, <2>4, Lengths DEF RegistrationsKept
<1>7. CASE FinishImport
  <2>1. UNCHANGED registry /\ registry[Attempt.name] # 0
    BY <1>7, FinishEnds DEF FinishImport
  <2>2. CASE RegistrationsKept
    BY <2>1, <2>2, Lengths DEF RegistrationsKept
  <2>3. ASSUME NEW r, r = Registration(importing), r # 0, CountUp(r) PROVE DoneIsRegistered'
    <3>1. importing # 0
      BY <1>7, FinishEnds
    <3>2. /\ r \in 1 .. Len(registrations) /\ registrations[r].done + 1 \in 1 .. BundleAssets
          /\ Attempt.name = <<r, registrations[r].done + 1>>
      BY <2>3, <3>1, Counted
    <3>3. registrations[r].state # "registered"
      BY <3>2 DEF DoneIsRegistered, AssetTypeOK
    <3>4. /\ registrations' \in Seq(Registrations) /\ Len(registrations') = Len(registrations)
          /\ \A q \in 1 .. Len(registrations) :
                /\ registrations'[q].state = registrations[q].state
                /\ q # r => registrations'[q] = registrations[q]
          /\ registrations'[r].done = registrations[r].done + 1
      BY <2>3, <3>1, CountedUp
    <3>5. \A i \in 1 .. registrations'[r].done : registry[<<r, i>>] # 0
      <4> SUFFICES ASSUME NEW i \in 1 .. registrations'[r].done PROVE registry[<<r, i>>] # 0
        OBVIOUS
      <4>1. registrations[r].done \in Nat
        BY <3>2, Lengths DEF Registrations
      <4>2. i \in 1 .. registrations[r].done \/ i = registrations[r].done + 1
        BY <3>4, <4>1
      <4> QED
        BY <2>1, <3>2, <4>2, Lengths
    <3>6. DOMAIN registrations' = 1 .. Len(registrations)
      BY <3>4
    <3>7. ASSUME NEW q \in 1 .. Len(registrations), q # r
          PROVE  /\ \A i \in 1 .. registrations'[q].done : registry'[<<q, i>>] # 0
                 /\ registrations'[q].state = "registered" =>
                       registrations'[q].output /\ registrations'[q].done = BundleAssets
      BY <2>1, <3>4, <3>7, Lengths
    <3> QED
      BY <2>1, <3>2, <3>3, <3>4, <3>5, <3>6, <3>7
  <2> QED
    BY <1>7, <2>2, <2>3, FinishEnds
<1>8. ASSUME NEW n \in DOMAIN importer, CheckDestination(n) PROVE DoneIsRegistered'
  BY <1>8 DEF CheckDestination
<1>9. ASSUME NEW n \in DOMAIN importer, WriteAsset(n) PROVE DoneIsRegistered'
  BY <1>9 DEF WriteAsset
<1>10. CASE Generate \/ BlenderExits \/ EndGeneration
  BY <1>10 DEF Generate, BlenderExits, EndGeneration
<1>11. CASE StartExecution \/ EndExecution
  BY <1>11 DEF StartExecution, EndExecution, ImportBusy, ImportLocked
<1>12. CASE StartRegistration \/ RegisterFromConsole
  <2>1. /\ DOMAIN registrations' = 1 .. Len(registrations) + 1
        /\ registrations'[Len(registrations) + 1].done = 0
        /\ registrations'[Len(registrations) + 1].state = "running"
        /\ \A q \in 1 .. Len(registrations) : registrations'[q] = registrations[q]
        /\ UNCHANGED registry
    BY <1>12, Opened DEF StartRegistration, RegisterFromConsole
  <2> QED
    BY <2>1, Lengths
<1>13. ASSUME NEW r \in Registering, FinishRegistration(r) PROVE DoneIsRegistered'
  <2>1. UNCHANGED registry
    BY <1>13 DEF FinishRegistration
  <2> QED
    BY <1>13, <2>1, FinishReports, Lengths
<1>18. ASSUME NEW r \in Registering, KillConsole(r) PROVE DoneIsRegistered'
  BY <1>18 DEF KillConsole
<1>14. CASE CrashBridge \/ StartStudio \/ RestartBridge
  BY <1>14 DEF CrashBridge, StartStudio, RestartBridge, Gone, Started
<1>15. CASE StopStudio
  BY <1>15 DEF StopStudio, Gone
<1>16. CASE LockForRestart \/ CheckRestart
  BY <1>16 DEF LockForRestart, CheckRestart, Admitted, ImportLocked
<1>17. CASE UNCHANGED assetVars
  BY <1>17 DEF assetVars
<1> QED
  BY <1>1, <1>2, <1>3, <1>4, <1>5, <1>6, <1>7, <1>8, <1>9, <1>10, <1>11, <1>12, <1>13, <1>14,
     <1>15, <1>16, <1>17, <1>18 DEF AssetNext, Begin

(* The locks, the durable records and the registry stay true.              *)
LEMMA AssetStep == AssetInv /\ [AssetNext]_assetVars => AssetInv'
  BY TypeStep, ApartStep, AloneStep, OnceStep, AttemptStep, RegistryStep, DoneStep DEF AssetInv

(* The invariant holds in every behaviour, of any number of imports,       *)
(* registrations and restarts.                                             *)
THEOREM AssetCorrect == AssetSpec => []AssetInv
  BY AssetInitInv, AssetStep, PTL DEF AssetSpec

(* What the registry names is what an importer of that name has written    *)
(* and nobody has written again; a registration that is reported as done   *)
(* has every asset; an execution meets no importer but one of a command    *)
(* line that has begun after it.                                           *)
THEOREM ImportsTold == AssetSpec => []ImportsAreTrue
<1>1. ASSUME AssetInv PROVE ImportsAreTrue
  <2> USE <1>1 DEF AssetInv
  <2>1. RegisteredIsOwn
    BY Lengths DEF RegisteredIsOwn, RegistryIsTrue, AssetsAreWrittenOnce, AssetTypeOK
  <2>2. RegistrationIsWhole
    BY DEF RegistrationIsWhole, DoneIsRegistered
  <2>3. NoRunBesideImport
    BY DEF NoRunBesideImport, ImportersAreAlone
  <2> QED
    BY <2>1, <2>2, <2>3 DEF ImportsAreTrue
<1> QED
  BY <1>1, AssetCorrect, PTL

(* When the restart script replaces the bridge no Blender and no Unreal    *)
(* process is alive, whichever bridge had started it.                      *)
THEOREM RestartIsClear == AssetSpec => RestartFindsNoProcess
<1>1. AssetInv => (restart = "checked" /\ restart' = "none" => Importers = {} /\ blenders = {})
  BY DEF AssetInv, ImportersAreAlone
<1> QED
  BY <1>1, AssetCorrect, PTL DEF RestartFindsNoProcess

-----------------------------------------------------------------------------
(* ProjectBundles: packages that are made, merged previews, and restores.  *)

(* What else a package holds follows from its versions.                    *)
LEMMA SameVersions ==
  ASSUME NEW f, NEW g, g.docs = f.docs
  PROVE  /\ InPackage(g) = InPackage(f) /\ TexturesOf(g) = TexturesOf(f)
         /\ SlotsOf(g) = SlotsOf(f) /\ GeneratedOf(g) = GeneratedOf(f)
<1>1. InPackage(g) = InPackage(f)
  BY DEF InPackage
<1> QED
  BY <1>1 DEF TexturesOf, SlotsOf, GeneratedOf

(* Previews and sources are added to a package all at once.                *)
LEMMA ExtendedIsValid ==
  ASSUME NEW f, NEW g, Valid(f), g.heads = f.heads, g.docs = f.docs, g.textures = f.textures,
         g.previews \in {f.previews, {}, SlotsOf(f)}, g.sources \in {f.sources, GeneratedOf(f)}
  PROVE  Valid(g)
  BY SameVersions DEF Valid

(* A package that is staged is readable if it is whole.                    *)
LEMMA StageOne ==
  ASSUME StagedIsReadable, NEW id, NEW a, a.whole => ReadBundle(a), staged' = Put(staged, {id}, a)
  PROVE  StagedIsReadable'
<1>1. DOMAIN staged' = {id} \cup DOMAIN staged /\ staged'[id] = a
  BY DEF Put
<1>2. \A k \in DOMAIN staged \ {id} : staged'[k] = staged[k]
  BY DEF Put
<1> QED
  BY <1>1, <1>2 DEF StagedIsReadable

(* Packages of other studios are packages.                                 *)
LEMMA ForeignShape ==
  ASSUME NEW a \in Foreign
  PROVE  DOMAIN a = ArchiveParts
<1>1. \A f : DOMAIN Archive(f) = ArchiveParts
  BY DEF Archive, ArchiveParts
<1>2. \A b : DOMAIN b = ArchiveParts => DOMAIN [b EXCEPT !.deps.external = FALSE] = ArchiveParts
  OBVIOUS
<1> DEFINE of(c, sources) ==
       [Files("other" :> [history |-> <<1>>, cursor |-> 1],
              <<"other", 1>> :> [scene |-> "other", content |-> c])
           EXCEPT !.textures = Range(c.materials), !.sources = sources]
    own(c) == {of(c, {})} \cup (IF c.generated THEN {of(c, {c})} ELSE {})
    new == {Archive(f) : f \in UNION {own(c) : c \in Contents}}
<1>3. a \in new \cup {[b EXCEPT !.deps.external = FALSE] : b \in {d \in new : d.files.sources # {}}}
  BY Zenon DEF Foreign
<1>4. \A b \in new : DOMAIN b = ArchiveParts
  BY <1>1
<1> HIDE DEF new
<1> QED
  BY <1>2, <1>3, <1>4

(* The workbench writes what it has checked.                               *)
LEMMA OpStep ==
  ASSUME BundleInv, [BundleNext]_bundleVars
  PROVE  MadeIsChecked' /\ StagedIsReadable'
<1> USE DEF BundlesAreWhole
<1>1. MadeIsChecked /\ StagedIsReadable
  BY DEF BundleInv
<1>2. DOMAIN Idle = {"step"} /\ Idle.step = "idle"
  BY DEF Idle
<1>3. ASSUME UNCHANGED <<op, staged>> PROVE MadeIsChecked' /\ StagedIsReadable'
  BY <1>1, <1>3 DEF MadeIsChecked, StagedIsReadable
<1>4. ASSUME op' = Idle, UNCHANGED staged PROVE MadeIsChecked' /\ StagedIsReadable'
  BY <1>1, <1>2, <1>4 DEF MadeIsChecked, StagedIsReadable
<1>5. CASE ExportStart
  <2>1. PICK id, left, options :
           op' = [step |-> "scenes", id |-> id, left |-> left, options |-> options,
                  files |-> Files(<<>>, <<>>)]
    BY <1>5 DEF ExportStart
  <2>2. DOMAIN Files(<<>>, <<>>) = FileKinds
    BY DEF Files, FileKinds
  <2> QED
    BY <1>1, <1>5, <2>1, <2>2 DEF ExportStart, MadeIsChecked, StagedIsReadable
<1>6. CASE ReadScene
  <2>1. \E left, hs, ds, ts :
           op' = [op EXCEPT !.left = left, !.files.heads = hs, !.files.docs = ds,
                            !.files.textures = ts]
    <3>1. PICK s \in op.left :
             LET new == [d \in {<<s, v>> : v \in Range(heads[s].history)} |-> docs[d[2]]]
             IN  op' = [op EXCEPT !.left = @ \ {s},
                        !.files.heads = Put(@, {s}, heads[s]), !.files.docs = @ @@ new,
                        !.files.textures =
                           @ \cup UNION {Range(new[d].content.materials) : d \in DOMAIN new}]
      BY <1>6, Zenon DEF ReadScene
    <3> QED
      BY <3>1, Zenon
  <2>2. op.step = "scenes" /\ DOMAIN op = {"step", "id", "left", "options", "files"}
        /\ DOMAIN op.files = FileKinds
    BY <1>1, <1>6 DEF ReadScene, MadeIsChecked
  <2>3. PICK left, hs, ds, ts :
           op' = [op EXCEPT !.left = left, !.files.heads = hs, !.files.docs = ds,
                            !.files.textures = ts]
    BY <2>1
  <2>4. DOMAIN op' = DOMAIN op /\ op'.step = "scenes" /\ DOMAIN op'.files = FileKinds
    BY <2>2, <2>3
  <2> QED
    BY <1>1, <1>6, <2>2, <2>4 DEF ReadScene, MadeIsChecked, StagedIsReadable
<1>7. CASE WritePartial
  <2>1. PICK slots \in {{}, SlotsOf(op.files)} :
           op' = [op EXCEPT !.step = "partial", !.files.previews = slots]
    BY <1>7 DEF WritePartial
  <2>2. /\ DOMAIN op = {"step", "id", "left", "options", "files"} /\ DOMAIN op.files = FileKinds
        /\ Valid(op.files) /\ staged' = staged
    BY <1>1, <1>7 DEF WritePartial, MadeIsChecked
  <2>3. /\ DOMAIN op' = DOMAIN op /\ op'.step = "partial"
        /\ op'.files = [op.files EXCEPT !.previews = slots]
    BY <2>1, <2>2
  <2>4. /\ DOMAIN op'.files = FileKinds /\ op'.files.heads = op.files.heads
        /\ op'.files.docs = op.files.docs /\ op'.files.textures = op.files.textures
        /\ op'.files.previews = slots /\ op'.files.sources = op.files.sources
    BY <2>2, <2>3 DEF FileKinds
  <2>5. Valid(op'.files)
    BY <2>2, <2>4, ExtendedIsValid
  <2> QED
    BY <1>1, <2>2, <2>3, <2>4, <2>5 DEF MadeIsChecked, StagedIsReadable
<1>8. CASE ExtendPartial
  <2>1. PICK sources \in {op.files.sources, GeneratedOf(op.files)}, reference \in BOOLEAN :
           op' = [op EXCEPT !.step = "extended", !.options = {},
                    !.files = [op.files EXCEPT !.sources = sources, !.reference = reference]]
    <3> DEFINE reference == "reference" \in op.options
    <3>1. DOMAIN op.files = FileKinds
      BY <1>1, <1>8 DEF ExtendPartial, MadeIsChecked
    <3>2. CASE "sources" \in op.options
      <4>1. op' = [op EXCEPT !.step = "extended", !.options = {},
                     !.files = [Extended(op.files) EXCEPT !.reference = reference]]
        BY <1>8, <3>2, Zenon DEF ExtendPartial
      <4>2. Extended(op.files) = [op.files EXCEPT !.sources = GeneratedOf(op.files)]
        BY DEF Extended
      <4>3. op' = [op EXCEPT !.step = "extended", !.options = {},
                     !.files = [op.files EXCEPT !.sources = GeneratedOf(op.files),
                                                !.reference = reference]]
        BY <4>1, <4>2
      <4>4. reference \in BOOLEAN
        OBVIOUS
      <4> HIDE DEF reference
      <4> QED
        BY <4>3, <4>4, Zenon
    <3>3. CASE "sources" \notin op.options
      <4>1. [op.files EXCEPT !.reference = reference]
              = [op.files EXCEPT !.sources = op.files.sources, !.reference = reference]
        BY <3>1 DEF FileKinds
      <4> QED
        BY <1>8, <3>3, <4>1 DEF ExtendPartial
    <3> QED
      BY <3>2, <3>3
  <2>2. /\ DOMAIN op = {"step", "id", "left", "options", "files"} /\ DOMAIN op.files = FileKinds
        /\ Valid(op.files) /\ staged' = staged
    BY <1>1, <1>8 DEF ExtendPartial, MadeIsChecked
  <2>3. /\ DOMAIN op' = DOMAIN op /\ op'.step = "extended"
        /\ op'.files = [op.files EXCEPT !.sources = sources, !.reference = reference]
    BY <2>1, <2>2
  <2>4. /\ DOMAIN op'.files = FileKinds /\ op'.files.heads = op.files.heads
        /\ op'.files.docs = op.files.docs /\ op'.files.textures = op.files.textures
        /\ op'.files.previews = op.files.previews /\ op'.files.sources = sources
    BY <2>2, <2>3 DEF FileKinds
  <2>5. Valid(op'.files)
    BY <2>2, <2>4, ExtendedIsValid
  <2> QED
    BY <1>1, <2>2, <2>3, <2>4, <2>5 DEF MadeIsChecked, StagedIsReadable
<1>9. CASE Publish
  <2>1. staged' = Put(staged, {op.id}, Archive(op.files)) /\ op' = Idle /\ Valid(op.files)
    BY <1>1, <1>9 DEF Publish, MadeIsChecked
  <2>2. ReadBundle(Archive(op.files))
    BY <2>1 DEF ReadBundle, Archive
  <2> QED
    BY <1>1, <1>2, <2>1, <2>2, StageOne DEF MadeIsChecked
<1>10. CASE Upload
  <2>1. PICK id, b : ReadBundle(b) /\ staged' = Put(staged, {id}, b)
    BY <1>10, Zenon DEF Upload
  <2> QED
    BY <1>1, <1>10, <2>1, StageOne DEF Upload, MadeIsChecked
<1>11. CASE StageByHand
  <2>1. PICK id \in Ids, a \in {b \in Foreign : ReadBundle(b)}, whole \in BOOLEAN :
           staged' = Put(staged, {id}, [a EXCEPT !.whole = whole])
    BY <1>11, Zenon DEF StageByHand
  <2> DEFINE b == [a EXCEPT !.whole = whole]
  <2>2. a \in Foreign /\ b.files = a.files /\ b.deps = a.deps /\ b.whole = whole
    BY ForeignShape DEF ArchiveParts
  <2>3. b.whole => ReadBundle(b)
    BY <2>1, <2>2 DEF ReadBundle
  <2> HIDE DEF b
  <2>4. staged' = Put(staged, {id}, b)
    BY <2>1 DEF b
  <2> QED
    BY <1>1, <1>11, <2>3, <2>4, StageOne DEF StageByHand, MadeIsChecked
<1>12. CASE ImportIsolated
  <2>1. PICK id : op' = [step |-> "import", id |-> id]
    BY <1>12 DEF ImportIsolated
  <2> QED
    BY <1>1, <1>12, <2>1 DEF ImportIsolated, MadeIsChecked, StagedIsReadable
<1>13. CASE OpFails \/ ImportDone \/ CrashWorkbench
  BY <1>4, <1>13 DEF OpFails, ImportDone, CrashWorkbench
<1>14. CASE \/ SaveScene \/ MoveCursor \/ MergeStart \/ MergeMesh \/ MergeCatalog \/ MergeDies
            \/ RestoreAtOnce \/ Preview \/ ReviewExpires \/ ConfirmRestore \/ SaveBaseline
            \/ RestoreReviewed \/ WorldChanges \/ UNCHANGED bundleVars
  BY <1>3, <1>14 DEF SaveScene, MoveCursor, MergeStart, MergeMesh, MergeCatalog, MergeDies,
     RestoreAtOnce, Preview, ReviewExpires, ConfirmRestore, SaveBaseline, RestoreReviewed,
     WorldChanges, bundleVars
<1> QED
  BY <1>5, <1>6, <1>7, <1>8, <1>9, <1>10, <1>11, <1>12, <1>13, <1>14 DEF BundleNext

(* The mergers exclude each other, and the catalog names what is written.  *)
LEMMA MergeStep ==
  ASSUME BundleInv, [BundleNext]_bundleVars
  PROVE  MergerAgrees' /\ CatalogHasItsMeshes'
<1>1. MergerAgrees /\ CatalogHasItsMeshes
  BY DEF BundleInv, BundlesAreWhole
<1>2. Idle.step = "idle"
  BY DEF Idle
<1>3. CASE MergeStart
  <2>1. PICK def, todo :
           Agrees(def, todo)
           /\ merge' = [step |-> "meshes", def |-> def, all |-> todo, todo |-> todo]
    BY <1>3 DEF MergeStart
  <2>2. UNCHANGED <<catalog, meshes>>
    BY <1>3 DEF MergeStart
  <2> QED
    BY <1>1, <2>1, <2>2 DEF Agrees, MergerAgrees, CatalogHasItsMeshes
<1>4. CASE MergeMesh
  <2>1. PICK t \in merge.todo : /\ meshes' = Put(meshes, {t} \ DOMAIN meshes, merge.def)
                                /\ merge' = [merge EXCEPT !.todo = @ \ {t}]
    BY <1>4 DEF MergeMesh
  <2>2. merge.step = "meshes" /\ UNCHANGED catalog
    BY <1>4 DEF MergeMesh
  <2>3. /\ DOMAIN merge = {"step", "def", "all", "todo"} /\ merge.todo \subseteq merge.all
        /\ \A u \in merge.all :
              /\ u \in DOMAIN catalog => catalog[u] = merge.def
              /\ u \in DOMAIN meshes => meshes[u] = merge.def
              /\ u \notin merge.todo => u \in DOMAIN meshes
    BY <1>1, <2>2 DEF MergerAgrees
  <2>4. /\ DOMAIN meshes' = DOMAIN meshes \cup {t}
        /\ \A u \in DOMAIN meshes : meshes'[u] = meshes[u]
        /\ t \notin DOMAIN meshes => meshes'[t] = merge.def
    BY <2>1 DEF Put
  <2>5. /\ DOMAIN merge' = DOMAIN merge /\ merge'.step = merge.step /\ merge'.def = merge.def
        /\ merge'.all = merge.all /\ merge'.todo = merge.todo \ {t}
    BY <2>1, <2>3
  <2>6. MergerAgrees'
    BY <2>2, <2>3, <2>4, <2>5 DEF MergerAgrees
  <2>7. CatalogHasItsMeshes'
    BY <1>1, <2>2, <2>4 DEF CatalogHasItsMeshes
  <2> QED
    BY <2>6, <2>7
<1>5. CASE MergeCatalog
  <2>1. /\ merge.step = "meshes" /\ merge.todo = {} /\ merge' = Idle
        /\ catalog' = Put(catalog, merge.all, merge.def) /\ UNCHANGED meshes
    BY <1>5 DEF MergeCatalog
  <2>2. \A u \in merge.all : u \in DOMAIN meshes /\ meshes[u] = merge.def
    BY <1>1, <2>1 DEF MergerAgrees
  <2>3. /\ DOMAIN catalog' = DOMAIN catalog \cup merge.all
        /\ \A u \in DOMAIN catalog' :
              catalog'[u] = IF u \in merge.all THEN merge.def ELSE catalog[u]
    BY <2>1 DEF Put
  <2> QED
    BY <1>1, <1>2, <2>1, <2>2, <2>3 DEF MergerAgrees, CatalogHasItsMeshes
<1>6. CASE MergeDies
  BY <1>1, <1>2, <1>6 DEF MergeDies, MergerAgrees, CatalogHasItsMeshes
<1>7. CASE UNCHANGED catalogVars
  BY <1>1, <1>7 DEF catalogVars, MergerAgrees, CatalogHasItsMeshes
<1>8. CASE \/ SaveScene \/ MoveCursor \/ ExportStart \/ ReadScene \/ WritePartial
           \/ ExtendPartial \/ Publish \/ OpFails \/ Upload \/ StageByHand \/ ImportIsolated
           \/ ImportDone \/ RestoreAtOnce \/ Preview \/ ReviewExpires \/ ConfirmRestore
           \/ SaveBaseline \/ RestoreReviewed \/ WorldChanges \/ CrashWorkbench
           \/ UNCHANGED bundleVars
  BY <1>7, <1>8 DEF SaveScene, MoveCursor, ExportStart, ReadScene, WritePartial, ExtendPartial,
     Publish, OpFails, Upload, StageByHand, ImportIsolated, ImportDone, RestoreAtOnce, Preview,
     ReviewExpires, ConfirmRestore, SaveBaseline, RestoreReviewed, WorldChanges, CrashWorkbench,
     bundleVars
<1> QED
  BY <1>3, <1>4, <1>5, <1>6, <1>8 DEF BundleNext

(* A scene that is saved with its head can be gone back to.                *)
LEMMA SavedIsThere ==
  ASSUME docs \in Seq(Versions), HeadsOK, NEW s \in Scenes \cup Tokens, NEW c \in Contents,
         NEW headToo \in BOOLEAN, Saved(s, c, headToo)
  PROVE  /\ docs' \in Seq(Versions) /\ HeadsOK'
         /\ headToo => /\ s \in DOMAIN heads'
                       /\ docs'[heads'[s].history[heads'[s].cursor]].content = c
<1> DEFINE v == Len(docs) + 1
           kept == IF s \in DOMAIN heads THEN SubSeq(heads[s].history, 1, heads[s].cursor) ELSE <<>>
           version == [scene |-> s, content |-> c]
           head == [history |-> Append(kept, v), cursor |-> Len(kept) + 1]
<1>1. docs' = Append(docs, version) /\ heads' = IF headToo THEN Put(heads, {s}, head) ELSE heads
  BY DEF Saved
<1>2. version \in Versions /\ version.content = c
  BY DEF Versions
<1>3. v \in Nat
  OBVIOUS
<1>4. kept \in Seq(Nat)
  <2>1. CASE s \in DOMAIN heads
    <3>1. /\ heads[s].history \in Seq(Nat) /\ heads[s].cursor \in 1 .. Len(heads[s].history)
      BY <2>1 DEF HeadsOK
    <3>2. SubSeq(heads[s].history, 1, heads[s].cursor) \in Seq(Nat)
      BY <3>1
    <3> QED
      BY <2>1, <3>2
  <2>2. CASE s \notin DOMAIN heads
    BY <2>2
  <2> QED
    BY <2>1, <2>2
<1> HIDE DEF version, kept
<1>5. /\ docs' \in Seq(Versions) /\ docs'[v] = version
  BY <1>1, <1>2
<1> HIDE DEF v
<1>6. /\ DOMAIN head = {"history", "cursor"} /\ head.history \in Seq(Nat)
      /\ head.cursor \in DOMAIN head.history /\ head.history[head.cursor] = v
  BY <1>3, <1>4
<1> HIDE DEF head
<1>7. headToo => /\ DOMAIN heads' = DOMAIN heads \cup {s} /\ heads'[s] = head
                 /\ \A r \in DOMAIN heads \ {s} : heads'[r] = heads[r]
  BY <1>1 DEF Put
<1>8. HeadsOK'
  BY <1>1, <1>6, <1>7 DEF HeadsOK
<1> QED
  BY <1>2, <1>5, <1>6, <1>7, <1>8

(* The world, the reviews and the restore of the one that holds the lock.  *)
LEMMA WorldStep ==
  ASSUME BundleInv, [BundleNext]_bundleVars
  PROVE  BundleTypeOK' /\ ReviewIsUnused' /\ RestoreIsAlone'
<1>1. BundleTypeOK /\ ReviewIsUnused /\ RestoreIsAlone
  BY DEF BundleInv
<1>2. Idle.step = "idle"
  BY DEF Idle
<1>3. CASE UNCHANGED <<storeVars, worldVars>>
  BY <1>1, <1>3 DEF storeVars, worldVars, BundleTypeOK, HeadsOK, ReviewIsUnused, RestoreIsAlone
<1>4. CASE SaveScene
  <2>1. PICK s \in Scenes, headToo \in BOOLEAN : Saved(s, world.content, headToo)
    BY <1>4, Zenon DEF SaveScene
  <2>2. restoring = Idle /\ UNCHANGED worldVars
    BY <1>4 DEF SaveScene
  <2>3. docs' \in Seq(Versions) /\ HeadsOK'
    BY <1>1, <2>1, SavedIsThere DEF BundleTypeOK
  <2> QED
    BY <1>1, <1>2, <2>2, <2>3 DEF worldVars, BundleTypeOK, ReviewIsUnused, RestoreIsAlone
<1>5. CASE MoveCursor
  <2>1. PICK s \in DOMAIN heads : \E to \in DOMAIN heads[s].history :
           heads' = [heads EXCEPT ![s].cursor = to]
    BY <1>5 DEF MoveCursor
  <2>2. PICK to \in DOMAIN heads[s].history : heads' = [heads EXCEPT ![s].cursor = to]
    BY <2>1
  <2>3. /\ DOMAIN heads' = DOMAIN heads /\ heads'[s] = [heads[s] EXCEPT !.cursor = to]
        /\ \A r \in DOMAIN heads \ {s} : heads'[r] = heads[r]
    BY <2>2
  <2>4. HeadsOK'
    BY <1>1, <2>3 DEF BundleTypeOK, HeadsOK
  <2>5. restoring = Idle /\ UNCHANGED <<docs, worldVars>>
    BY <1>5 DEF MoveCursor
  <2> QED
    BY <1>1, <1>2, <2>4, <2>5 DEF worldVars, BundleTypeOK, ReviewIsUnused, RestoreIsAlone
<1>6. ASSUME restoring = Idle, NEW e \in Nat, NEW c \in Contents, UNCHANGED storeVars,
             world' = [episode |-> e, content |-> c], UNCHANGED <<reviews, restoring, used>>
      PROVE  BundleTypeOK' /\ ReviewIsUnused' /\ RestoreIsAlone'
  BY <1>1, <1>2, <1>6 DEF storeVars, BundleTypeOK, HeadsOK, ReviewIsUnused, RestoreIsAlone
<1>7. \A c : \A r \in RestoreResults(c) :
         r.content \in Contents
         /\ [world EXCEPT !.content = r.content]
               = [episode |-> world.episode, content |-> r.content]
  BY <1>1 DEF RestoreResults, BundleTypeOK
<1>8. CASE RestoreAtOnce
  <2>1. PICK c \in Contents : world' = [episode |-> world.episode, content |-> c]
    BY <1>7, <1>8 DEF RestoreAtOnce
  <2> QED
    BY <1>1, <1>6, <1>8, <2>1 DEF RestoreAtOnce, BundleTypeOK
<1>9. CASE WorldChanges
  <2>1. PICK e \in Nat, c \in Contents : world' = [episode |-> e, content |-> c]
    BY <1>1, <1>9 DEF WorldChanges, BundleTypeOK
  <2> QED
    BY <1>6, <1>9, <2>1 DEF WorldChanges
<1>10. CASE Preview
  <2>1. PICK t \in Tokens : used[t] = 0 /\ \E review : reviews' = Put(reviews, {t}, review)
    BY <1>10 DEF Preview
  <2>2. restoring = Idle /\ UNCHANGED <<storeVars, restoring, used, world>>
    BY <1>10 DEF Preview
  <2>3. DOMAIN reviews' = DOMAIN reviews \cup {t}
    BY <2>1 DEF Put
  <2> QED
    BY <1>1, <1>2, <2>1, <2>2, <2>3 DEF storeVars, BundleTypeOK, HeadsOK, ReviewIsUnused,
       RestoreIsAlone
<1>11. \A t : DOMAIN Restrict(reviews, DOMAIN reviews \ {t}) = DOMAIN reviews \ {t}
  BY DEF Restrict
<1>12. CASE ReviewExpires
  <2>1. PICK t : reviews' = Restrict(reviews, DOMAIN reviews \ {t})
    BY <1>12 DEF ReviewExpires
  <2> QED
    BY <1>1, <1>11, <1>12, <2>1 DEF ReviewExpires, storeVars, BundleTypeOK, HeadsOK,
       ReviewIsUnused, RestoreIsAlone
<1>13. CASE ConfirmRestore
  <2>1. PICK t \in DOMAIN reviews : Consume(t)
    BY <1>13 DEF ConfirmRestore
  <2>2. UNCHANGED <<storeVars, used, world>> /\ DOMAIN reviews' = DOMAIN reviews \ {t}
    BY <1>11, <1>13, <2>1 DEF ConfirmRestore, Consume
  <2>3. \/ restoring' = Idle
        \/ /\ world = reviews[t].seen
           /\ restoring' = [step |-> "backup", token |-> t, review |-> reviews[t]]
    BY <2>1 DEF Consume, Same
  <2> QED
    BY <1>1, <1>2, <2>2, <2>3 DEF storeVars, BundleTypeOK, HeadsOK, ReviewIsUnused, RestoreIsAlone
<1>14. CASE SaveBaseline
  <2>1. /\ restoring.step = "backup" /\ DOMAIN restoring = {"step", "token", "review"}
        /\ restoring.token \in Tokens \ DOMAIN reviews /\ used[restoring.token] = 0
        /\ world = restoring.review.seen
    BY <1>1, <1>14 DEF SaveBaseline, RestoreIsAlone
  <2>2. UNCHANGED <<reviews, used, world>>
    BY <1>14 DEF SaveBaseline
  <2>3. CASE /\ Saved(restoring.token, world.content, TRUE)
             /\ restoring' = [restoring EXCEPT !.step = "restore"]
    <3>1. /\ docs' \in Seq(Versions) /\ HeadsOK' /\ restoring.token \in DOMAIN heads'
          /\ LET h == heads'[restoring.token]
             IN  docs'[h.history[h.cursor]].content = world.content
      BY <1>1, <2>1, <2>3, SavedIsThere DEF BundleTypeOK
    <3>2. /\ DOMAIN restoring' = DOMAIN restoring /\ restoring'.step = "restore"
          /\ restoring'.token = restoring.token /\ restoring'.review = restoring.review
      BY <2>1, <2>3
    <3> QED
      BY <1>1, <2>1, <2>2, <3>1, <3>2 DEF BundleTypeOK, ReviewIsUnused, RestoreIsAlone
  <2>4. CASE UNCHANGED storeVars /\ restoring' = Idle
    BY <1>1, <1>2, <2>2, <2>4 DEF storeVars, BundleTypeOK, HeadsOK, ReviewIsUnused, RestoreIsAlone
  <2> QED
    BY <1>14, <2>3, <2>4 DEF SaveBaseline
<1>15. CASE RestoreReviewed
  <2>1. PICK c \in Contents : world' = [episode |-> world.episode, content |-> c]
    BY <1>7, <1>15 DEF RestoreReviewed
  <2>2. /\ restoring' = Idle /\ UNCHANGED <<storeVars, reviews>>
        /\ used' = [used EXCEPT ![restoring.token] = @ + 1]
        /\ restoring.token \in Tokens \ DOMAIN reviews
    BY <1>1, <1>15 DEF RestoreReviewed, RestoreIsAlone
  <2>3. used' \in [Tokens -> Nat] /\ \A t \in DOMAIN reviews : used'[t] = used[t]
    BY <1>1, <2>2 DEF BundleTypeOK
  <2> QED
    BY <1>1, <1>2, <2>1, <2>2, <2>3 DEF storeVars, BundleTypeOK, HeadsOK, ReviewIsUnused,
       RestoreIsAlone
<1>16. CASE CrashWorkbench
  BY <1>1, <1>2, <1>16 DEF CrashWorkbench, storeVars, BundleTypeOK, HeadsOK, ReviewIsUnused,
     RestoreIsAlone
<1>17. CASE \/ MergeStart \/ MergeMesh \/ MergeCatalog \/ MergeDies \/ ExportStart \/ ReadScene
            \/ WritePartial \/ ExtendPartial \/ Publish \/ OpFails \/ Upload \/ StageByHand
            \/ ImportIsolated \/ ImportDone \/ UNCHANGED bundleVars
  BY <1>3, <1>17 DEF MergeStart, MergeMesh, MergeCatalog, MergeDies, ExportStart, ReadScene,
     WritePartial, ExtendPartial, Publish, OpFails, Upload, StageByHand, ImportIsolated,
     ImportDone, bundleVars
<1> QED
  BY <1>4, <1>5, <1>8, <1>9, <1>10, <1>12, <1>13, <1>14, <1>15, <1>16, <1>17 DEF BundleNext

(* The workbench as it starts.                                             *)
LEMMA BundleStart ==
  ASSUME BundleInit
  PROVE  BundleInv
<1> USE DEF BundleInit
<1>1. Idle.step = "idle"
  BY DEF Idle
<1>2. BundleTypeOK
  BY DEF BundleTypeOK, HeadsOK
<1>3. BundlesAreWhole
  BY DEF BundlesAreWhole, StagedIsReadable, CatalogHasItsMeshes
<1>4. MadeIsChecked /\ MergerAgrees /\ ReviewIsUnused /\ RestoreIsAlone
  BY <1>1 DEF MadeIsChecked, MergerAgrees, ReviewIsUnused, RestoreIsAlone
<1> QED
  BY <1>2, <1>3, <1>4 DEF BundleInv

(* What project_bundle.py, material_catalog_merge.py and the restore       *)
(* reviews keep together, whoever saves, merges or dies.                   *)
THEOREM BundleCorrect == BundleSpec => []BundleInv
<1>1. BundleInit => BundleInv
  BY BundleStart
<1>2. BundleInv /\ [BundleNext]_bundleVars => BundleInv'
  BY OpStep, MergeStep, WorldStep DEF BundleInv, BundlesAreWhole
<1> QED
  BY <1>1, <1>2, PTL DEF BundleSpec

(* A package the studio staged can be read, and the catalog names meshes   *)
(* that are there.                                                         *)
THEOREM BundlesStayWhole == BundleSpec => []BundlesAreWhole
<1>1. BundleInv => BundlesAreWhole
  BY DEF BundleInv
<1> QED
  BY <1>1, BundleCorrect, PTL

(* A reviewed restore touches the world that was seen, once, and behind a  *)
(* scene that holds it.                                                    *)
THEOREM ReviewedRestoresAreSafe == BundleSpec => ReviewedRestoreIsSafe
<1>1. ASSUME BundleInv, restoring.step = "restore"
      PROVE  /\ world = restoring.review.seen
             /\ used[restoring.token] = 0
             /\ restoring.token \in DOMAIN heads
             /\ LET h == heads[restoring.token]
                IN  docs[h.history[h.cursor]].content = world.content
  BY <1>1 DEF BundleInv, RestoreIsAlone
<1> QED
  BY <1>1, BundleCorrect, PTL DEF ReviewedRestoreIsSafe

-----------------------------------------------------------------------------
(* SourceArchive: exports of the model's sources, and their restores.      *)

(* An export, alone.                                                       *)
ExportRecords == [step : ExportSteps, commit : Nat, omits : BOOLEAN, current : BOOLEAN]

Trees == Nat \X BOOLEAN

(* What the last look has found stays found.                               *)
LEMMA SeenStays ==
  ASSUME NEW e, NEW commit, since[e] \subseteq since'[e], disturbed \subseteq disturbed',
         SeenCurrent(e, commit)
  PROVE  SeenCurrent(e, commit)'
<1>1. \E tree \in since'[e] : tree[1] = commit
  BY DEF SeenCurrent
<1>2. \E tree \in since'[e] : ~tree[2]
  BY DEF SeenCurrent
<1>3. CommitOnly(commit) \in since'[e] \/ e \in disturbed'
  BY Zenon DEF SeenCurrent
<1> QED
  BY <1>1, <1>2, <1>3, Zenon DEF SeenCurrent, CommitOnly

(* What an export may do to itself and to the archive.                     *)
LEMMA ExportKeeps ==
  ASSUME SourceInv, NEW e \in Exports, NEW x \in ExportRecords, export' = [export EXCEPT ![e] = x],
         since' \in [Exports -> SUBSET Trees], \A d \in Exports \ {e} : since'[d] = since[d],
         since'[e] = since[e] \/ export[e].step \notin {"published", "done", "failed"},
         output' = output \/ output' = [commit |-> x.commit, whole |-> TRUE, omits |-> x.omits,
                                        current |-> x.current, by |-> e],
         output' # output => x.step = "published" /\ (x.current => ~x.omits /\ SeenCurrent(e, x.commit)'),
         export[e].step \in {"published", "done", "failed"} =>
            x.step \in {"published", "done", "failed"},
         x.step \notin {"idle", "begun", "listing", "failed"} /\ x.current => ~x.omits,
         x.step \in {"written", "verified", "rechecked", "relisting"} => Tree(repo) \in since'[e],
         x.step = "relisting" => (\E tree \in since'[e] : tree[1] = x.commit)
                                 /\ (e \notin disturbed => repo.tracked = x.commit),
         x.step = "checked" /\ x.current => SeenCurrent(e, x.commit)',
         partials' \subseteq Exports, UNCHANGED <<repo, disturbed, restore, model, print>>
  PROVE  SourceInv'
<1>1. /\ export'[e] = x /\ \A d \in Exports \ {e} : export'[d] = export[d]
      /\ export' \in [Exports -> ExportRecords]
  BY DEF SourceInv, SourceTypeOK, ExportRecords
<1>2. SourceTypeOK'
  <2>1. output' \in Archives
    <3>1. CASE output' = output
      BY <3>1 DEF SourceInv, SourceTypeOK
    <3>2. CASE output' # output
      <4>1. x.commit \in Nat /\ x.omits \in BOOLEAN /\ x.current \in BOOLEAN
        BY DEF ExportRecords
      <4>2. output' = [commit |-> x.commit, whole |-> TRUE, omits |-> x.omits,
                       current |-> x.current, by |-> e]
        BY <3>2
      <4> QED
        BY <4>1, <4>2, Zenon DEF Archives
    <3> QED
      BY <3>1, <3>2
  <2> QED
    BY <1>1, <2>1 DEF SourceInv, SourceTypeOK, ExportRecords, Trees
<1>3. PublishedIsCurrent'
  <2>1. CASE output' = output
    <3>1. output.by \in Exports => since'[output.by] = since[output.by]
      BY DEF SourceInv, PublisherIsThrough
    <3>2. output.by \in Exports /\ SeenCurrent(output.by, output.commit)
            => SeenCurrent(output.by, output.commit)'
      BY <2>1, <3>1 DEF SeenCurrent
    <3> QED
      BY <2>1, <3>2 DEF SourceInv, PublishedIsCurrent
  <2>2. CASE output' # output
    <3>1. /\ output'.by = e /\ output'.commit = x.commit /\ output'.omits = x.omits
          /\ output'.current = x.current
      BY <2>2
    <3>2. x.current => ~x.omits /\ SeenCurrent(e, x.commit)'
      BY <2>2
    <3>3. SeenCurrent(e, x.commit)' => SeenCurrent(output.by, output.commit)'
      BY <3>1 DEF SeenCurrent
    <3> QED
      BY <3>1, <3>2, <3>3 DEF PublishedIsCurrent
  <2> QED
    BY <2>1, <2>2
<1>4. ASSUME NEW d \in Exports PROVE CurrentIsComplete(d)'
  <2>1. CASE d = e
    <3>1. (e \in Writing)' => Tree(repo)' \in since'[e]
      BY <1>1 DEF Writing, Tree
    <3>2. SeenCurrent(e, x.commit)' => SeenCurrent(e, export[e].commit)'
      BY <1>1 DEF SeenCurrent
    <3> QED
      BY <1>1, <2>1, <3>1, <3>2 DEF CurrentIsComplete, Passed
  <2>2. CASE d # e
    <3>1. /\ export'[d] = export[d] /\ since'[d] = since[d] /\ CurrentIsComplete(d)
      BY <1>1, <2>2 DEF SourceInv
    <3>2. (d \in Writing)' => Tree(repo)' \in since'[d]
      BY <3>1 DEF CurrentIsComplete, Writing, Tree
    <3>3. SeenCurrent(d, export[d].commit) => SeenCurrent(d, export[d].commit)'
      BY <3>1 DEF SeenCurrent
    <3> QED
      BY <3>1, <3>2, <3>3 DEF CurrentIsComplete
  <2> QED
    BY <2>1, <2>2
<1>5. PublisherIsThrough'
  <2>1. CASE output' = output
    BY <1>1, <2>1 DEF SourceInv, PublisherIsThrough
  <2>2. CASE output' # output
    BY <1>1, <2>2 DEF PublisherIsThrough
  <2> QED
    BY <2>1, <2>2
<1> QED
  BY <1>2, <1>3, <1>4, <1>5 DEF SourceInv, ReceiptIsTrue, FingerprintIsOfOne, RestoreIsOfVerified,
     PartsAreOfOne

(* An export goes on from where it is.                                     *)
LEMMA ExportRecord ==
  ASSUME SourceInv, NEW e \in Exports
  PROVE  export[e] \in ExportRecords /\ CurrentIsComplete(e)
  BY DEF SourceInv, SourceTypeOK, ExportRecords

(* A step of an export that changes nothing but the step.                  *)
LEMMA ExportStep ==
  ASSUME SourceInv, NEW e \in Exports, NEW step \in ExportSteps \ {"published"}, Step(e, step),
         UNCHANGED <<repo, since, disturbed, output, restore, model, print>>, partials' \subseteq Exports,
         export[e].step \in {"published", "done", "failed"} => step \in {"done", "failed"},
         step \notin {"idle", "begun", "listing", "failed"} =>
            export[e].step \notin {"idle", "begun", "listing", "failed"},
         step \in {"written", "verified", "rechecked", "relisting"} => e \in Writing,
         step = "relisting" => repo.tracked = export[e].commit,
         step = "checked" /\ export[e].current => SeenCurrent(e, export[e].commit)
  PROVE  SourceInv'
<1>0. PICK x : x = [export[e] EXCEPT !.step = step]
  OBVIOUS
<1>1. x \in ExportRecords /\ x.step = step /\ x.commit = export[e].commit
      /\ x.omits = export[e].omits /\ x.current = export[e].current
  BY <1>0, ExportRecord DEF ExportRecords
<1>2. export' = [export EXCEPT ![e] = x]
  BY <1>0 DEF Step
<1>3. since \in [Exports -> SUBSET Trees]
  BY DEF SourceInv, SourceTypeOK, Trees
<1>4. CurrentIsComplete(e)
  BY ExportRecord
<1>5. step \in {"written", "verified", "rechecked", "relisting"} => Tree(repo) \in since'[e]
  BY <1>4 DEF CurrentIsComplete
<1>6. step = "relisting" => \E tree \in since'[e] : tree[1] = x.commit
  BY <1>1, <1>5 DEF Tree
<1>7. step = "checked" /\ x.current => SeenCurrent(e, x.commit)'
  BY <1>1 DEF SeenCurrent
<1>8. step \notin {"idle", "begun", "listing", "failed"} /\ x.current => ~x.omits
  BY <1>1, <1>4, ExportRecord DEF CurrentIsComplete, Passed, ExportSteps, ExportRecords
<1> QED
  BY <1>1, <1>2, <1>3, <1>5, <1>6, <1>7, <1>8, ExportKeeps

(* The developer edits, and exports that are written see it.               *)
LEMMA DevelopKeeps == SourceInv /\ Develop => SourceInv'
<1> SUFFICES ASSUME SourceInv, Develop PROVE SourceInv'
  OBVIOUS
<1>1. /\ since' = [e \in Exports |-> IF e \in Writing THEN since[e] \cup {Tree(repo')} ELSE since[e]]
      /\ disturbed' = disturbed \cup {e \in Exports : export[e].step = "relisting"
                                                     /\ Tree(repo') # Tree(repo)}
      /\ UNCHANGED <<export, output, partials, restore, model, print>>
  BY DEF Develop
<1>2. repo' \in [head : Nat \ {0}, tracked : Nat \ {0}, others : BOOLEAN, last : Nat \ {0}]
  <2>1. repo \in [head : Nat \ {0}, tracked : Nat \ {0}, others : BOOLEAN, last : Nat \ {0}]
    BY DEF SourceInv, SourceTypeOK
  <2>2. repo.last + 1 \in Nat \ {0}
    BY <2>1
  <2>3. CASE Edit
    BY <2>1, <2>2, <2>3 DEF Edit
  <2>4. CASE Create \/ Remove
    BY <2>1, <2>4 DEF Create, Remove
  <2>5. CASE Add
    BY <2>1, <2>2, <2>5 DEF Add
  <2>6. CASE Commit
    BY <2>1, <2>6 DEF Commit
  <2>7. CASE Checkout
    <3>1. PICK old \in 1 .. repo.last : repo' = [repo EXCEPT !.head = old, !.tracked = old]
      BY <2>7, Zenon DEF Checkout
    <3>2. old \in Nat \ {0}
      BY <2>1
    <3> QED
      BY <2>1, <3>1, <3>2
  <2> QED
    BY <2>3, <2>4, <2>5, <2>6, <2>7 DEF Develop
<1>3. Tree(repo') \in Trees
  BY <1>2 DEF Tree, Trees
<1>4. /\ since' \in [Exports -> SUBSET Trees] /\ disturbed' \subseteq Exports
  BY <1>1, <1>3 DEF SourceInv, SourceTypeOK, Trees
<1>5. SourceTypeOK'
  BY <1>1, <1>2, <1>4 DEF SourceInv, SourceTypeOK, Trees
<1>6. \A e \in Exports : since[e] \subseteq since'[e] /\ (e \in Writing => Tree(repo') \in since'[e])
  BY <1>1
<1>7. disturbed \subseteq disturbed'
  BY <1>1
<1>8. PublishedIsCurrent'
  <2>1. output.by \in Exports /\ SeenCurrent(output.by, output.commit)
          => SeenCurrent(output.by, output.commit)'
    BY <1>1, <1>6, <1>7, SeenStays DEF SeenCurrent
  <2> QED
    BY <1>1, <2>1 DEF SourceInv, PublishedIsCurrent
<1>9. ASSUME NEW e \in Exports PROVE CurrentIsComplete(e)'
  <2>1. CurrentIsComplete(e) /\ export'[e] = export[e]
    BY <1>1 DEF SourceInv
  <2>2. (e \in Writing)' => Tree(repo)' \in since'[e]
    BY <1>1, <1>6 DEF Writing, Tree
  <2>3. SeenCurrent(e, export[e].commit) => SeenCurrent(e, export[e].commit)'
    BY <1>6, <1>7, <2>1, SeenStays DEF SeenCurrent
  <2>4. export[e].step = "relisting" /\ e \notin disturbed' => repo'.tracked = export[e].commit
    <3> SUFFICES ASSUME export[e].step = "relisting", e \notin disturbed'
                 PROVE  repo'.tracked = export[e].commit
      OBVIOUS
    <3>1. e \notin disturbed /\ Tree(repo') = Tree(repo)
      BY <1>1
    <3>2. repo'.tracked = repo.tracked
      BY <3>1 DEF Tree
    <3> QED
      BY <2>1, <3>1, <3>2 DEF CurrentIsComplete
  <2>5. export[e].step = "relisting" => \E tree \in since'[e] : tree[1] = export[e].commit
    BY <1>6, <2>1 DEF CurrentIsComplete
  <2> QED
    BY <2>1, <2>2, <2>3, <2>4, <2>5 DEF CurrentIsComplete
<1> QED
  BY <1>1, <1>5, <1>8, <1>9 DEF SourceInv, PublisherIsThrough, ReceiptIsTrue, FingerprintIsOfOne,
     RestoreIsOfVerified, PartsAreOfOne

(* An export begins with the commit of the moment.                         *)
LEMMA BeginExportKeeps ==
  ASSUME SourceInv, NEW e \in Exports, BeginExport(e) PROVE SourceInv'
<1>1. PICK current \in BOOLEAN :
        export' = [export EXCEPT ![e] = [@ EXCEPT !.step = "begun", !.commit = repo.head,
                                                  !.current = current]]
  BY DEF BeginExport
<1> DEFINE x == [export[e] EXCEPT !.step = "begun", !.commit = repo.head, !.current = current]
<1>2. x \in ExportRecords /\ x.step = "begun"
  <2>1. repo.head \in Nat
    BY DEF SourceInv, SourceTypeOK
  <2> QED
    BY <2>1, ExportRecord DEF ExportRecords, ExportSteps
<1>3. export' = [export EXCEPT ![e] = x]
  BY <1>1
<1>4. since \in [Exports -> SUBSET Trees] /\ partials \subseteq Exports
  BY DEF SourceInv, SourceTypeOK, Trees
<1> HIDE DEF x
<1> QED
  BY <1>2, <1>3, <1>4, ExportKeeps DEF BeginExport

(* The tracked files are compared with the commit's.                       *)
LEMMA CompareTreeKeeps ==
  ASSUME SourceInv, NEW e \in Exports, CompareTree(e) PROVE SourceInv'
<1> DEFINE omits == repo.tracked # export[e].commit
           x == [export[e] EXCEPT !.omits = omits, !.step = "listing"]
<1>1. /\ export' = [export EXCEPT ![e] = x] /\ export[e].step = "begun"
      /\ UNCHANGED <<repo, since, disturbed, output, partials, restore, model, print>>
  BY DEF CompareTree
<1>2. omits \in BOOLEAN
  OBVIOUS
<1> HIDE DEF omits
<1>3. x \in ExportRecords /\ x.step = "listing"
  BY <1>2, ExportRecord DEF ExportRecords, ExportSteps
<1>4. since \in [Exports -> SUBSET Trees] /\ partials \subseteq Exports
  BY DEF SourceInv, SourceTypeOK, Trees
<1> HIDE DEF x
<1> QED
  BY <1>1, <1>3, <1>4, ExportKeeps

(* One that is to be current fails if it would omit something.             *)
LEMMA ListOthersKeeps ==
  ASSUME SourceInv, NEW e \in Exports, ListOthers(e) PROVE SourceInv'
<1> DEFINE omits == export[e].omits \/ repo.others
           step == IF omits /\ export[e].current THEN "failed" ELSE "compared"
           x == [export[e] EXCEPT !.omits = omits, !.step = step]
<1>1. /\ export' = [export EXCEPT ![e] = x] /\ export[e].step = "listing"
      /\ UNCHANGED <<repo, since, disturbed, output, partials, restore, model, print>>
  BY DEF ListOthers
<1>2. omits \in BOOLEAN /\ step \in {"failed", "compared"}
      /\ (step = "compared" /\ export[e].current => ~omits)
  OBVIOUS
<1> HIDE DEF omits, step
<1>3. x \in ExportRecords /\ x.step = step /\ x.omits = omits /\ x.current = export[e].current
  BY <1>2, ExportRecord DEF ExportRecords, ExportSteps
<1>4. since \in [Exports -> SUBSET Trees] /\ partials \subseteq Exports
  BY DEF SourceInv, SourceTypeOK, Trees
<1> HIDE DEF x
<1> QED
  BY <1>1, <1>2, <1>3, <1>4, ExportKeeps

(* The tree that is there when the archive has been written is seen.       *)
LEMMA WriteArchiveKeeps ==
  ASSUME SourceInv, NEW e \in Exports, WriteArchive(e) PROVE SourceInv'
<1>1. /\ export[e].step = "compared" /\ partials' \subseteq Exports
      /\ UNCHANGED <<repo, disturbed, output, restore, model, print>>
  BY DEF WriteArchive, SourceInv, SourceTypeOK
<1>2. CASE Step(e, "failed") /\ UNCHANGED since
  BY <1>1, <1>2, ExportStep DEF ExportSteps
<1>3. CASE Step(e, "written") /\ since' = [since EXCEPT ![e] = {Tree(repo)}]
  <2> DEFINE x == [export[e] EXCEPT !.step = "written"]
  <2>1. export' = [export EXCEPT ![e] = x]
    BY <1>3 DEF Step
  <2>2. x \in ExportRecords /\ x.step = "written" /\ x.omits = export[e].omits
        /\ x.current = export[e].current
    BY ExportRecord DEF ExportRecords, ExportSteps
  <2>3. Tree(repo) \in Trees
    BY DEF SourceInv, SourceTypeOK, Tree, Trees
  <2>4. /\ since' \in [Exports -> SUBSET Trees] /\ since'[e] = {Tree(repo)}
        /\ \A d \in Exports \ {e} : since'[d] = since[d]
    BY <1>3, <2>3 DEF SourceInv, SourceTypeOK, Trees
  <2>5. x.current => ~x.omits
    BY <1>1, <2>2, ExportRecord DEF CurrentIsComplete, Passed
  <2> HIDE DEF x
  <2> QED
    BY <1>1, <2>1, <2>2, <2>4, <2>5, ExportKeeps
<1> QED
  BY <1>2, <1>3 DEF WriteArchive

(* Verified, and looked at again: what is current then has been seen.      *)
LEMMA RecheckKeeps ==
  ASSUME SourceInv, NEW e \in Exports,
         VerifyPartial(e) \/ RecheckHead(e) \/ RecheckTree(e) \/ RecheckOthers(e)
  PROVE  SourceInv'
<1>1. /\ partials' \subseteq Exports
      /\ UNCHANGED <<repo, since, disturbed, output, partials, restore, model, print>>
      /\ CurrentIsComplete(e)
  BY ExportRecord DEF VerifyPartial, RecheckHead, RecheckTree, RecheckOthers, SourceInv, SourceTypeOK
<1>2. CASE VerifyPartial(e)
  BY <1>1, <1>2, ExportStep DEF VerifyPartial, ExportSteps, Writing
<1>3. CASE RecheckHead(e)
  BY <1>1, <1>3, ExportStep DEF RecheckHead, ExportSteps, Writing
<1>4. CASE RecheckTree(e)
  <2>1. export[e].step = "rechecked" /\ e \in Writing
    BY <1>4 DEF RecheckTree, Writing
  <2>2. CASE repo.tracked = export[e].commit
    BY <1>1, <1>4, <2>1, <2>2, ExportStep DEF RecheckTree, ExportSteps
  <2>3. CASE repo.tracked # export[e].commit
    BY <1>1, <1>4, <2>1, <2>3, ExportStep DEF RecheckTree, ExportSteps
  <2> QED
    BY <2>2, <2>3
<1>5. CASE RecheckOthers(e)
  <2>1. export[e].step = "relisting" /\ Tree(repo) \in since[e]
    BY <1>1, <1>5 DEF RecheckOthers, CurrentIsComplete, Writing
  <2>2. CASE repo.others
    BY <1>1, <1>5, <2>1, <2>2, ExportStep DEF RecheckOthers, ExportSteps
  <2>3. CASE ~repo.others
    <3>1. \E tree \in since[e] : tree[1] = export[e].commit
      BY <1>1, <2>1 DEF CurrentIsComplete
    <3>2. \E tree \in since[e] : ~tree[2]
      BY <2>1, <2>3 DEF Tree
    <3>3. ASSUME e \notin disturbed PROVE CommitOnly(export[e].commit) \in since[e]
      <4>1. repo.tracked = export[e].commit /\ repo.others = FALSE
        BY <1>1, <2>1, <2>3, <3>3 DEF CurrentIsComplete, SourceInv, SourceTypeOK
      <4> QED
        BY <2>1, <4>1 DEF Tree, CommitOnly
    <3>4. SeenCurrent(e, export[e].commit)
      BY <3>1, <3>2, <3>3 DEF SeenCurrent
    <3> QED
      BY <1>1, <1>5, <2>1, <2>3, <3>4, ExportStep DEF RecheckOthers, ExportSteps
  <2> QED
    BY <2>2, <2>3
<1> QED
  BY <1>2, <1>3, <1>4, <1>5

(* The archive is put where nothing is.                                    *)
LEMMA PublishArchiveKeeps ==
  ASSUME SourceInv, NEW e \in Exports, PublishArchive(e) PROVE SourceInv'
<1>1. /\ export[e].step = "checked" /\ partials' \subseteq Exports
      /\ UNCHANGED <<repo, since, disturbed, partials, restore, model, print>>
      /\ CurrentIsComplete(e)
  BY ExportRecord DEF PublishArchive, SourceInv, SourceTypeOK
<1>2. CASE output = NoArchive
  <2>0. PICK x : x = [export[e] EXCEPT !.step = "published"]
    OBVIOUS
  <2>1. export' = [export EXCEPT ![e] = x] /\ output' = Archived(e)
    BY <1>2, <2>0 DEF PublishArchive, Step
  <2>2. x \in ExportRecords /\ x.step = "published" /\ x.omits = export[e].omits
        /\ x.current = export[e].current /\ x.commit = export[e].commit
    BY <2>0, ExportRecord DEF ExportRecords, ExportSteps
  <2>3. output' = [commit |-> x.commit, whole |-> TRUE, omits |-> x.omits,
                   current |-> x.current, by |-> e]
    BY <2>1, <2>2 DEF Archived
  <2>4. since \in [Exports -> SUBSET Trees]
    BY DEF SourceInv, SourceTypeOK, Trees
  <2>5. x.current => ~x.omits
    BY <1>1, <2>2 DEF CurrentIsComplete, Passed
  <2>6. x.current => SeenCurrent(e, x.commit)'
    BY <1>1, <2>2 DEF CurrentIsComplete, SeenCurrent
  <2> QED
    BY <1>1, <2>1, <2>2, <2>3, <2>4, <2>5, <2>6, ExportKeeps
<1>3. CASE output # NoArchive
  BY <1>1, <1>3, ExportStep DEF PublishArchive, ExportSteps
<1> QED
  BY <1>2, <1>3

(* The end of an export.                                                   *)
LEMMA ExportEnds ==
  ASSUME SourceInv, NEW e \in Exports, RemovePartial(e) \/ KillExport(e) PROVE SourceInv'
<1>1. partials' \subseteq Exports /\ UNCHANGED <<repo, since, disturbed, output, restore, model, print>>
  BY DEF RemovePartial, KillExport, SourceInv, SourceTypeOK
<1>2. CASE RemovePartial(e)
  BY <1>1, <1>2, ExportStep DEF RemovePartial, ExportSteps
<1>3. CASE KillExport(e)
  BY <1>1, <1>3, ExportStep DEF KillExport, ExportSteps
<1> QED
  BY <1>2, <1>3

(* What another program puts in its place claims nothing.                  *)
LEMMA SwapKeeps == SourceInv /\ SwapArchive => SourceInv'
<1> SUFFICES ASSUME SourceInv, SwapArchive PROVE SourceInv'
  OBVIOUS
<1>1. PICK whole \in BOOLEAN, commit \in 1 .. repo.last :
        output' = [commit |-> commit, whole |-> whole, omits |-> FALSE, current |-> FALSE,
                   by |-> "outside"]
  BY DEF SwapArchive
<1>2. UNCHANGED <<repo, export, since, disturbed, partials, restore, model, print>>
  BY DEF SwapArchive
<1>3. commit \in Nat
  BY DEF SourceInv, SourceTypeOK
<1>4. SourceTypeOK'
  BY <1>1, <1>2, <1>3 DEF SourceInv, SourceTypeOK, Archives
<1>5. PublishedIsCurrent'
  BY <1>1 DEF PublishedIsCurrent
<1>6. PublisherIsThrough'
  BY <1>1, SourceAssumption DEF PublisherIsThrough
<1> QED
  BY <1>2, <1>4, <1>5, <1>6 DEF SourceInv, ReceiptIsTrue, FingerprintIsOfOne, CurrentIsComplete,
     RestoreIsOfVerified, PartsAreOfOne, Writing, SeenCurrent, Tree

(* The export and the other programs beside a restore or a fingerprint.    *)
LEMMA RestoreKeeps ==
  ASSUME SourceInv, UNCHANGED <<repo, export, since, disturbed, output, partials, model, print>>,
         NEW r \in Restores, NEW x \in [step : RestoreSteps, read : Archives, files : Nat, receipt : Nat],
         restore' = [restore EXCEPT ![r] = x],
         x.step \in {"idle", "verified", "unpacked"} => x.receipt = NoTree,
         x.step = "unpacked" => x.files = x.read.commit,
         x.receipt # NoTree => x.receipt = x.files
  PROVE  SourceInv'
<1>1. /\ restore'[r] = x /\ \A q \in Restores \ {r} : restore'[q] = restore[q]
      /\ restore' \in [Restores -> [step : RestoreSteps, read : Archives, files : Nat, receipt : Nat]]
  BY DEF SourceInv, SourceTypeOK
<1>2. SourceTypeOK'
  BY <1>1 DEF SourceInv, SourceTypeOK
<1>3. ReceiptIsTrue'
  BY <1>1 DEF SourceInv, ReceiptIsTrue
<1>4. ASSUME NEW q \in Restores PROVE RestoreIsOfVerified(q)'
  <2>1. CASE q = r
    BY <1>1, <2>1 DEF RestoreIsOfVerified
  <2>2. CASE q # r
    BY <1>1, <2>2 DEF RestoreIsOfVerified, SourceInv
  <2> QED
    BY <2>1, <2>2
<1> QED
  BY <1>2, <1>3, <1>4 DEF SourceInv, PublishedIsCurrent, FingerprintIsOfOne, CurrentIsComplete,
     PublisherIsThrough, PartsAreOfOne, Writing, SeenCurrent, Tree

(* All bytes are read and verified at once.                                *)
LEMMA ReadArchiveKeeps ==
  ASSUME SourceInv, NEW r \in Restores, ReadArchive(r) PROVE SourceInv'
<1> DEFINE step == IF output.whole THEN "verified" ELSE "failed"
           x == [restore[r] EXCEPT !.read = output, !.step = step]
<1>1. /\ restore' = [restore EXCEPT ![r] = x] /\ restore[r].step = "idle"
      /\ UNCHANGED <<repo, export, since, disturbed, output, partials, model, print>>
  BY DEF ReadArchive, At_
<1>2. /\ restore[r] \in [step : RestoreSteps, read : Archives, files : Nat, receipt : Nat]
      /\ output \in Archives /\ RestoreIsOfVerified(r)
  BY DEF SourceInv, SourceTypeOK
<1>3. /\ x \in [step : RestoreSteps, read : Archives, files : Nat, receipt : Nat]
      /\ x.step \in {"verified", "failed"} /\ x.receipt = restore[r].receipt
  BY <1>2 DEF RestoreSteps
<1>4. x.receipt = NoTree
  BY <1>1, <1>2, <1>3 DEF RestoreIsOfVerified
<1> HIDE DEF x
<1> QED
  BY <1>1, <1>3, <1>4, RestoreKeeps

(* The files are those of the bytes that were verified.                    *)
LEMMA UnpackKeeps ==
  ASSUME SourceInv, NEW r \in Restores, Unpack(r) PROVE SourceInv'
<1>1. /\ restore[r].step = "verified"
      /\ UNCHANGED <<repo, export, since, disturbed, output, partials, model, print>>
  BY DEF Unpack, At_
<1>2. /\ restore[r] \in [step : RestoreSteps, read : Archives, files : Nat, receipt : Nat]
      /\ restore[r].read.commit \in Nat /\ restore[r].receipt = NoTree
  BY <1>1 DEF SourceInv, SourceTypeOK, Archives, RestoreIsOfVerified
<1>3. CASE restore' = [restore EXCEPT ![r].step = "failed"]
  <2> DEFINE x == [restore[r] EXCEPT !.step = "failed"]
  <2>1. restore' = [restore EXCEPT ![r] = x]
    BY <1>3
  <2>2. /\ x \in [step : RestoreSteps, read : Archives, files : Nat, receipt : Nat]
        /\ x.step = "failed" /\ x.receipt = NoTree
    BY <1>2 DEF RestoreSteps
  <2> HIDE DEF x
  <2> QED
    BY <1>1, <2>1, <2>2, RestoreKeeps
<1>4. ASSUME NEW step \in {"unpacked", "failed"},
             restore' = [restore EXCEPT ![r].files = restore[r].read.commit, ![r].step = step]
      PROVE  SourceInv'
  <2> DEFINE x == [restore[r] EXCEPT !.files = restore[r].read.commit, !.step = step]
  <2>1. restore' = [restore EXCEPT ![r] = x]
    BY <1>4
  <2>2. /\ x \in [step : RestoreSteps, read : Archives, files : Nat, receipt : Nat]
        /\ x.step = step /\ x.receipt = NoTree /\ x.files = x.read.commit
    BY <1>2 DEF RestoreSteps
  <2> HIDE DEF x
  <2> QED
    BY <1>1, <2>1, <2>2, RestoreKeeps
<1> QED
  BY <1>3, <1>4 DEF Unpack

(* The receipt comes last.                                                 *)
LEMMA WriteReceiptKeeps ==
  ASSUME SourceInv, NEW r \in Restores, WriteReceipt(r) PROVE SourceInv'
<1>1. /\ restore[r].step = "unpacked"
      /\ UNCHANGED <<repo, export, since, disturbed, output, partials, model, print>>
  BY DEF WriteReceipt, At_
<1>2. /\ restore[r] \in [step : RestoreSteps, read : Archives, files : Nat, receipt : Nat]
      /\ restore[r].read.commit \in Nat /\ restore[r].receipt = NoTree
      /\ restore[r].files = restore[r].read.commit
  BY <1>1 DEF SourceInv, SourceTypeOK, Archives, RestoreIsOfVerified
<1>3. PICK step \in {"done", "failed"}, receipt \in {NoTree, restore[r].read.commit} :
        restore' = [restore EXCEPT ![r].step = step, ![r].receipt = receipt]
  <2>1. CASE restore' = [restore EXCEPT ![r].step = "failed"]
    <3>1. restore' = [restore EXCEPT ![r].step = "failed", ![r].receipt = NoTree]
      BY <1>2, <2>1 DEF SourceInv, SourceTypeOK
    <3> QED
      BY <3>1
  <2> QED
    BY <2>1 DEF WriteReceipt
<1> DEFINE x == [restore[r] EXCEPT !.step = step, !.receipt = receipt]
<1>4. restore' = [restore EXCEPT ![r] = x]
  BY <1>3
<1>5. /\ x \in [step : RestoreSteps, read : Archives, files : Nat, receipt : Nat]
      /\ x.step \in {"done", "failed"} /\ (x.receipt # NoTree => x.receipt = x.files)
  BY <1>2 DEF RestoreSteps, NoTree
<1> HIDE DEF x
<1> QED
  BY <1>1, <1>4, <1>5, RestoreKeeps

(* A fingerprint that is taken of a file that stays is of one version.     *)
LEMMA FingerprintKeeps ==
  ASSUME SourceInv, ChangeModel \/ BeginFingerprint \/ ReadPart \/ EndFingerprint
  PROVE  SourceInv'
<1>1. UNCHANGED <<repo, export, since, disturbed, output, partials, restore>>
  BY DEF ChangeModel, BeginFingerprint, ReadPart, EndFingerprint
<1>2. /\ model \in [version : Nat, changed : Nat]
      /\ print \in [step : {"idle", "first", "second"}, before : Nat, parts : SUBSET Nat,
                    taken : SUBSET SUBSET Nat]
      /\ PartsAreOfOne /\ FingerprintIsOfOne
  BY DEF SourceInv, SourceTypeOK
<1>3. /\ model' \in [version : Nat, changed : Nat]
      /\ print' \in [step : {"idle", "first", "second"}, before : Nat, parts : SUBSET Nat,
                     taken : SUBSET SUBSET Nat]
      /\ PartsAreOfOne' /\ FingerprintIsOfOne'
  <2>1. CASE ChangeModel
    <3>1. PICK version \in 1 .. MaxTrees :
             model' = [version |-> version, changed |-> model.changed + 1] /\ print' = print
      BY <2>1 DEF ChangeModel
    <3>2. model.changed + 1 \in Nat /\ version \in Nat /\ print.before < model.changed + 1
      BY <1>2, SourceAssumption DEF PartsAreOfOne
    <3> QED
      BY <1>2, <3>1, <3>2 DEF PartsAreOfOne, FingerprintIsOfOne
  <2>2. CASE BeginFingerprint
    <3>1. /\ model' = model
          /\ print' = [print EXCEPT !.step = "first", !.before = model.changed, !.parts = {}]
      BY <2>2 DEF BeginFingerprint
    <3>2. /\ print'.step = "first" /\ print'.before = model.changed /\ print'.parts = {}
          /\ print'.taken = print.taken
          /\ print' \in [step : {"idle", "first", "second"}, before : Nat, parts : SUBSET Nat,
                         taken : SUBSET SUBSET Nat]
      BY <1>2, <3>1
    <3> QED
      BY <1>2, <3>1, <3>2 DEF PartsAreOfOne, FingerprintIsOfOne
  <2>3. CASE ReadPart
    <3>1. /\ model' = model /\ print.step # "idle"
          /\ print' = [print EXCEPT !.step = "second", !.parts = print.parts \cup {model.version}]
      BY <2>3 DEF ReadPart
    <3>2. /\ print'.step = "second" /\ print'.before = print.before
          /\ print'.parts = print.parts \cup {model.version}
          /\ print'.taken = print.taken
          /\ print' \in [step : {"idle", "first", "second"}, before : Nat, parts : SUBSET Nat,
                         taken : SUBSET SUBSET Nat]
      BY <1>2, <3>1
    <3> QED
      BY <1>2, <3>1, <3>2 DEF PartsAreOfOne, FingerprintIsOfOne
  <2>4. CASE EndFingerprint
    <3>1. /\ model' = model /\ print.step = "second"
          /\ print' = [print EXCEPT !.step = "idle", !.taken = print'.taken]
          /\ print'.taken = print.taken
               \/ (print.before = model.changed /\ print'.taken = print.taken \cup {print.parts})
      BY <1>2, <2>4 DEF EndFingerprint
    <3>2. print'.taken \in SUBSET SUBSET Nat
      BY <1>2, <3>1
    <3>3. /\ print'.step = "idle" /\ print'.before = print.before /\ print'.parts = print.parts
          /\ print' \in [step : {"idle", "first", "second"}, before : Nat, parts : SUBSET Nat,
                         taken : SUBSET SUBSET Nat]
      BY <1>2, <3>1, <3>2
    <3>4. print.before = model.changed => print.parts = {model.version}
      BY <1>2, <3>1 DEF PartsAreOfOne
    <3>5. print.before = model.changed => Cardinality(print.parts) = 1
      BY <3>4, FS_Singleton
    <3> QED
      BY <1>2, <3>1, <3>3, <3>5 DEF PartsAreOfOne, FingerprintIsOfOne
  <2> QED
    BY <2>1, <2>2, <2>3, <2>4
<1> QED
  BY <1>1, <1>3 DEF SourceInv, SourceTypeOK, PublishedIsCurrent, ReceiptIsTrue, CurrentIsComplete,
     PublisherIsThrough, RestoreIsOfVerified, Writing, SeenCurrent, Tree

(* At first nothing is exported, restored or referred to.                  *)
LEMMA SourceInitially == SourceInit => SourceInv
<1> SUFFICES ASSUME SourceInit PROVE SourceInv
  OBVIOUS
<1>1. SourceTypeOK
  BY DEF SourceInit, SourceTypeOK, NoArchive, NoTree, Archives, ExportSteps, RestoreSteps
<1>2. PublishedIsCurrent
  BY DEF SourceInit, PublishedIsCurrent, NoArchive
<1>3. ASSUME NEW e \in Exports PROVE export[e].step = "idle"
  BY DEF SourceInit
<1>4. (\A e \in Exports : CurrentIsComplete(e)) /\ PublisherIsThrough
  BY <1>3, SourceAssumption DEF SourceInit, CurrentIsComplete, PublisherIsThrough, NoArchive, Writing
<1>5. ReceiptIsTrue /\ (\A r \in Restores : RestoreIsOfVerified(r))
  BY DEF SourceInit, ReceiptIsTrue, RestoreIsOfVerified, NoTree
<1>6. FingerprintIsOfOne /\ PartsAreOfOne
  BY DEF SourceInit, FingerprintIsOfOne, PartsAreOfOne
<1> QED
  BY <1>1, <1>2, <1>4, <1>5, <1>6 DEF SourceInv

(* Every step keeps the invariant.                                         *)
LEMMA SourceStep == SourceInv /\ [SourceNext]_sourceVars => SourceInv'
<1> SUFFICES ASSUME SourceInv, [SourceNext]_sourceVars PROVE SourceInv'
  OBVIOUS
<1>1. CASE \E e \in Exports :
          \/ BeginExport(e) \/ CompareTree(e) \/ ListOthers(e) \/ WriteArchive(e)
          \/ VerifyPartial(e) \/ RecheckHead(e) \/ RecheckTree(e) \/ RecheckOthers(e)
          \/ PublishArchive(e) \/ RemovePartial(e) \/ KillExport(e)
  BY <1>1, BeginExportKeeps, CompareTreeKeeps, ListOthersKeeps, WriteArchiveKeeps, RecheckKeeps,
     PublishArchiveKeeps, ExportEnds
<1>2. CASE \E r \in Restores : ReadArchive(r) \/ Unpack(r) \/ WriteReceipt(r)
  BY <1>2, ReadArchiveKeeps, UnpackKeeps, WriteReceiptKeeps
<1>3. CASE UNCHANGED sourceVars
  BY <1>3 DEF sourceVars, SourceInv, SourceTypeOK, PublishedIsCurrent, ReceiptIsTrue,
     FingerprintIsOfOne, CurrentIsComplete, PublisherIsThrough, RestoreIsOfVerified, PartsAreOfOne,
     Writing, SeenCurrent, Tree
<1> QED
  BY <1>1, <1>2, <1>3, DevelopKeeps, SwapKeeps, FingerprintKeeps DEF SourceNext

(* The invariant of exports, restores and fingerprints, for any number of  *)
(* each, and any work of the developer and of other programs beside them.  *)
THEOREM SourceCorrect == SourceSpec => []SourceInv
  BY SourceInitially, SourceStep, PTL DEF SourceSpec

(* Nothing that is there is replaced by the studio.                        *)
LEMMA ReplacesNothing ==
  ASSUME SourceInv, [SourceNext]_sourceVars, output # NoArchive
  PROVE  output' = output \/ output'.by = "outside"
<1>1. CASE SwapArchive
  BY <1>1 DEF SwapArchive
<1>2. CASE \E e \in Exports : PublishArchive(e)
  BY <1>2 DEF PublishArchive
<1>3. ASSUME \E e \in Exports :
                \/ BeginExport(e) \/ CompareTree(e) \/ ListOthers(e) \/ WriteArchive(e)
                \/ VerifyPartial(e) \/ RecheckHead(e) \/ RecheckTree(e) \/ RecheckOthers(e)
                \/ RemovePartial(e) \/ KillExport(e)
      PROVE  output' = output
  BY <1>3 DEF BeginExport, CompareTree, ListOthers, WriteArchive, VerifyPartial, RecheckHead,
     RecheckTree, RecheckOthers, RemovePartial, KillExport
<1>4. ASSUME \/ Develop \/ ChangeModel \/ BeginFingerprint \/ ReadPart \/ EndFingerprint
             \/ UNCHANGED sourceVars
             \/ \E r \in Restores : ReadArchive(r) \/ Unpack(r) \/ WriteReceipt(r)
      PROVE  output' = output
  BY <1>4 DEF Develop, ChangeModel, ReadArchive, Unpack, WriteReceipt, BeginFingerprint, ReadPart,
     EndFingerprint, sourceVars
<1> QED
  BY <1>1, <1>2, <1>3, <1>4 DEF SourceNext

(* An archive that says it is current passed both commands of the last look*)
(* (and is of a whole work tree unless that changed between them), a       *)
(* receipt is of what has been unpacked, a fingerprint of one file, and    *)
(* nothing is replaced (source_bundle.py:109-113).                         *)
THEOREM SourcesAreFaithful == SourceSpec => SourceIsFaithful
<1>1. SourceInv => PublishedIsCurrent /\ ReceiptIsTrue /\ FingerprintIsOfOne
  BY DEF SourceInv
<1>2. SourceInv /\ [SourceNext]_sourceVars =>
        [output # NoArchive => output' = output \/ output'.by = "outside"]_sourceVars
  BY ReplacesNothing
<1> QED
  BY <1>1, <1>2, SourceCorrect, PTL DEF SourceSpec, SourceIsFaithful, NothingIsReplaced
=============================================================================
