------------------------------ MODULE PlanReview ------------------------------
(***************************************************************************)
(* From a compiled plan to the run that executes it: the page that shows,  *)
(* revises and confirms plans (ScenarioGeneratorPage, PlanRevisionPanel,   *)
(* ReviewedModelRun), the handlers that archive them under their digest    *)
(* (compile_scenario, revise_scenario, scenario_archive), and start and    *)
(* worker, which read the archive again (start_e2e, run_rule_scenario).    *)
(* A digest stands for the content it is of, so a plan is its own name.    *)
(* The bridge may die while it writes, and other programs touch the files. *)
(***************************************************************************)
EXTENDS Naturals, FiniteSets, Sequences, Functions, TLC

CONSTANTS
    Reviewers,      \* open pages
    Settings,       \* what the fields of a plan may say
    MaxDepth,       \* length of a lineage of revisions
    MaxAsked, MaxRuns, MaxTouched       \* bounds of a run

ASSUME PlanAssumption == {MaxDepth, MaxAsked, MaxRuns, MaxTouched} \subseteq Nat

VARIABLES
    plans,      \* the catalog: what the file of each plan holds
    desk,       \* what each page shows, revises and has confirmed
    handlers,   \* requests that archive a plan
    starts,     \* requests to run one
    planRun,    \* the run: what it was started for, what its worker read
    credited,   \* results taken for good (history)
    counts      \* bounds

planVars == <<plans, desk, handlers, starts, planRun, credited, counts>>

Compiled(setting) == [setting |-> setting, parent |-> <<>>, depth |-> 0]
Revised(plan, setting) == [setting |-> setting, parent |-> <<plan>>, depth |-> plan.depth + 1]

Whole(plan) == [whole |-> TRUE, plan |-> plan]
Torn(plan) == [whole |-> FALSE, plan |-> plan]

BlankDesk == [plan |-> <<>>, busy |-> FALSE, review |-> "none", offer |-> <<>>, ticked |-> <<>>]
NoRun == [expected |-> <<>>, seen |-> <<>>, read |-> <<>>]

PlanInit ==
    /\ plans = <<>> /\ desk = [r \in Reviewers |-> BlankDesk]
    /\ handlers = {} /\ starts = {} /\ planRun = NoRun /\ credited = {}
    /\ counts = [asked |-> 0, runs |-> 0, touched |-> 0]

(* Mutant of IsThe: a plan is what its file says.                          *)
IsTheAnyway(name) == name \in DOMAIN plans /\ plans[name].whole

(* read_verified_scenario: the bytes have the digest of the name and of    *)
(* the request.                                                            *)
IsThe(name) == name \in DOMAIN plans /\ plans[name] = Whole(name)

-----------------------------------------------------------------------------
Ask(r, kind, plan, now) ==
    /\ counts.asked < MaxAsked /\ counts' = [counts EXCEPT !.asked = @ + 1]
    /\ desk' = [desk EXCEPT ![r] = now]
    /\ handlers' = handlers \cup {[by |-> r, kind |-> kind, plan |-> plan, step |-> "create",
                                   awaited |-> TRUE]}
    /\ UNCHANGED <<plans, starts, planRun, credited>>

(* The text or the seed is edited: nothing compiled is shown any more.     *)
Invalidate(r) ==
    /\ ~desk[r].busy /\ desk[r].review = "none" /\ desk[r].plan # <<>>
    /\ desk' = [desk EXCEPT ![r] = BlankDesk]
    /\ UNCHANGED <<plans, handlers, starts, planRun, credited, counts>>

AskCompile(r) ==
    /\ ~desk[r].busy /\ desk[r].review = "none"
    /\ \E setting \in Settings :
          Ask(r, "compile", Compiled(setting), [BlankDesk EXCEPT !.busy = TRUE])

(* preview of a revision: execution is locked until it is adopted or       *)
(* cancelled; an instruction that changes nothing is refused.              *)
AskRevision(r) ==
    /\ ~desk[r].busy /\ desk[r].review # "asked" /\ desk[r].plan # <<>>
    /\ LET plan == Head(desk[r].plan)
       IN  /\ plan.depth < MaxDepth
           /\ \E setting \in Settings \ {plan.setting} :
                 Ask(r, "revise", Revised(plan, setting),
                     [desk[r] EXCEPT !.review = "asked", !.offer = <<>>])

(* archive_scenario creates the file and then writes it, unless it is      *)
(* there: then it must hold that very plan.  A revision reads its parent   *)
(* first.  Compilations are serialised (simulation_operation), not so      *)
(* revisions.                                                              *)
CreateFile(h) ==
    /\ h.step = "create"
    /\ h.kind = "compile" => ~\E g \in handlers : g.kind = "compile" /\ g.step = "write"
    /\ LET readable == h.kind = "revise" => IsThe(Head(h.plan.parent))
           there == h.plan \in DOMAIN plans
           step == CASE ~readable -> "refused"
                     [] readable /\ ~there -> "write"
                     [] readable /\ there -> IF IsThe(h.plan) THEN "done" ELSE "refused"
       IN  /\ handlers' = (handlers \ {h}) \cup {[h EXCEPT !.step = step]}
           /\ plans' = IF step = "write" THEN [p \in {h.plan} |-> Torn(p)] @@ plans ELSE plans
    /\ UNCHANGED <<desk, starts, planRun, credited, counts>>

(* A file that was replaced or removed meanwhile is not the one written.   *)
WriteFile(h) ==
    /\ h.step = "write"
    /\ handlers' = (handlers \ {h}) \cup {[h EXCEPT !.step = "done"]}
    /\ plans' = IF h.plan \in DOMAIN plans /\ ~plans[h.plan].whole
                THEN [plans EXCEPT ![h.plan] = Whole(h.plan)] ELSE plans
    /\ UNCHANGED <<desk, starts, planRun, credited, counts>>

(* What a page makes of an answer or of its loss.                          *)
Shown(d, h, ok) ==
    CASE h.kind = "compile" -> [d EXCEPT !.busy = FALSE, !.plan = IF ok THEN <<h.plan>> ELSE <<>>]
      [] h.kind = "revise" -> [d EXCEPT !.review = IF ok THEN "offered" ELSE "failed",
                                        !.offer = IF ok THEN <<h.plan>> ELSE <<>>]

AnswerPlan(h) ==
    /\ h.step \in {"done", "refused"}
    /\ handlers' = handlers \ {h}
    /\ \E ok \in {h.step = "done", FALSE} :
          desk' = IF h.awaited THEN [desk EXCEPT ![h.by] = Shown(@, h, ok)] ELSE desk
    /\ UNCHANGED <<plans, starts, planRun, credited, counts>>

(* cancel aborts the request; the handler goes on.                         *)
CancelRevision(r) ==
    /\ desk[r].review # "none"
    /\ desk' = [desk EXCEPT ![r].review = "none", ![r].offer = <<>>]
    /\ handlers' = {[h EXCEPT !.awaited = @ /\ h.by # r] : h \in handlers}
    /\ UNCHANGED <<plans, starts, planRun, credited, counts>>

(* Mutant of Adopt: what was confirmed for the old plan stays confirmed.   *)
AdoptConfirmed(r) ==
    /\ desk[r].review = "offered"
    /\ desk' = [desk EXCEPT ![r].plan = desk[r].offer, ![r].review = "none", ![r].offer = <<>>]
    /\ UNCHANGED <<plans, handlers, starts, planRun, credited, counts>>

(* The controls of a plan are made anew for another plan.                  *)
Adopt(r) ==
    /\ desk[r].review = "offered"
    /\ desk' = [desk EXCEPT ![r] = [BlankDesk EXCEPT !.plan = desk[r].offer]]
    /\ UNCHANGED <<plans, handlers, starts, planRun, credited, counts>>

-----------------------------------------------------------------------------
Ready(r) == ~desk[r].busy /\ desk[r].review = "none" /\ desk[r].plan # <<>>

(* "I have checked the present plan" (ReviewedModelRun).                   *)
Tick(r) ==
    /\ Ready(r) /\ desk[r].ticked = <<>>
    /\ desk' = [desk EXCEPT ![r].ticked = desk[r].plan]
    /\ UNCHANGED <<plans, handlers, starts, planRun, credited, counts>>

(* execute-plan needs the tick; rule-run is confirmed by its button.       *)
AskRun(r) ==
    /\ Ready(r) /\ counts.runs < MaxRuns /\ counts' = [counts EXCEPT !.runs = @ + 1]
    /\ \/ /\ desk[r].ticked # <<>> /\ desk' = [desk EXCEPT ![r].ticked = <<>>]
          /\ starts' = starts \cup {[plan |-> desk[r].plan, seen |-> desk[r].ticked]}
       \/ /\ starts' = starts \cup {[plan |-> desk[r].plan, seen |-> desk[r].plan]}
          /\ UNCHANGED desk
    /\ UNCHANGED <<plans, handlers, planRun, credited>>

(* execute_reviewed_scenario, start_e2e.                                   *)
HandleStart(s) ==
    /\ starts' = starts \ {s}
    /\ planRun' = IF planRun = NoRun /\ IsThe(Head(s.plan))
                  THEN [expected |-> s.plan, seen |-> s.seen, read |-> <<>>] ELSE planRun
    /\ UNCHANGED <<plans, desk, handlers, credited, counts>>

(* The worker reads the file when it has found its session.                *)
ReadPlan ==
    /\ planRun # NoRun /\ planRun.read = <<>>
    /\ planRun' = IF IsThe(Head(planRun.expected))
                  THEN [planRun EXCEPT !.read = <<plans[Head(planRun.expected)].plan>>] ELSE NoRun
    /\ UNCHANGED <<plans, desk, handlers, starts, credited, counts>>

(* The finisher credits a result with the expected digest, content and run.*)
Finish ==
    /\ planRun # NoRun /\ planRun' = NoRun
    /\ credited' = IF planRun.read # <<>> /\ planRun.read = planRun.expected
                   THEN credited \cup {[seen |-> planRun.seen, document |-> planRun.read]}
                   ELSE credited
    /\ UNCHANGED <<plans, desk, handlers, starts, counts>>

(* A run that fails or is stopped.                                         *)
EndRun ==
    /\ planRun # NoRun /\ planRun' = NoRun
    /\ UNCHANGED <<plans, desk, handlers, starts, credited, counts>>

-----------------------------------------------------------------------------
(* The bridge dies: every request fails, files it was writing stay torn.   *)
CrashStudioBridge ==
    /\ handlers # {} \/ starts # {}
    /\ handlers' = {} /\ starts' = {}
    /\ desk' = [r \in Reviewers |->
                  [desk[r] EXCEPT !.busy = FALSE,
                                  !.review = IF @ = "asked" THEN "failed" ELSE @]]
    /\ UNCHANGED <<plans, planRun, credited, counts>>

(* Somebody edits a file of the catalog in place, or removes it.           *)
Touch(plan) ==
    /\ counts.touched < MaxTouched /\ counts' = [counts EXCEPT !.touched = @ + 1]
    /\ \/ \E setting \in Settings \ {plan.setting} :
             plans' = [plans EXCEPT ![plan] = Whole([plan EXCEPT !.setting = setting])]
       \/ plans' = Restrict(plans, DOMAIN plans \ {plan})
    /\ UNCHANGED <<desk, handlers, starts, planRun, credited>>

PlanNext ==
    \/ \E r \in Reviewers : \/ Invalidate(r) \/ AskCompile(r) \/ AskRevision(r)
                            \/ CancelRevision(r) \/ Adopt(r) \/ Tick(r) \/ AskRun(r)
    \/ \E h \in handlers : CreateFile(h) \/ WriteFile(h) \/ AnswerPlan(h)
    \/ \E s \in starts : HandleStart(s)
    \/ ReadPlan \/ Finish \/ EndRun \/ CrashStudioBridge
    \/ \E plan \in DOMAIN plans : Touch(plan)

PlanSpec == PlanInit /\ [][PlanNext]_planVars

-----------------------------------------------------------------------------
(* What runs, and what a result is credited for, is the plan the operator  *)
(* saw when he confirmed it (livery_bridge.py:973, "Execute the exact      *)
(* reviewed archive"), and a revision he is offered is one of the plan he  *)
(* is shown, whatever became of the files and of his earlier requests.     *)
ReviewedPlanIsRun ==
    /\ planRun.read # <<>> => planRun.read = planRun.seen
    /\ \A c \in credited : c.document = c.seen
    /\ \A r \in Reviewers :
          desk[r].offer # <<>> => Head(desk[r].offer).parent = desk[r].plan

(* A description can always be compiled again: does not hold, a bridge     *)
(* that dies inside archive_scenario leaves a file that refuses it (README *)
(* section 5).                                                             *)
CanCompileAgain ==
    handlers = {} => \A plan \in DOMAIN plans : plans[plan].whole

-----------------------------------------------------------------------------
(* The inductive invariant of ReviewedPlanIsRun.                           *)

(* A page shows, is offered or has confirmed one plan or none.             *)
One(list) == list = <<>> \/ list = <<Head(list)>>

IsDesk(d) ==
    /\ DOMAIN d = {"plan", "busy", "review", "offer", "ticked"}
    /\ One(d.plan) /\ One(d.offer) /\ One(d.ticked)
    /\ d.busy \in BOOLEAN /\ d.review \in {"none", "asked", "offered", "failed"}

IsHandler(h) ==
    /\ h = [by |-> h.by, kind |-> h.kind, plan |-> h.plan, step |-> h.step, awaited |-> h.awaited]
    /\ h.by \in Reviewers /\ h.kind \in {"compile", "revise"}
    /\ h.step \in {"create", "write", "done", "refused"} /\ h.awaited \in BOOLEAN

PlanTypeOK ==
    /\ desk = [r \in Reviewers |-> desk[r]] /\ \A r \in Reviewers : IsDesk(desk[r])
    /\ \A h \in handlers : IsHandler(h)
    /\ DOMAIN planRun = {"expected", "seen", "read"}

IsWaiting(d) == d.review = "none" /\ d.offer = <<>> /\ d.ticked = <<>>

(* What is confirmed is what is shown, and a page that waits for a new     *)
(* plan reviews and has confirmed none.                                    *)
ConfirmedIsShown ==
    \A r \in Reviewers :
        /\ desk[r].ticked # <<>> => desk[r].ticked = desk[r].plan
        /\ desk[r].busy => IsWaiting(desk[r])

(* A page waits for one answer at most: for a plan, or for a revision of   *)
(* the one it shows.                                                       *)
AwaitedIsAsked ==
    /\ \A h \in handlers : h.awaited =>
          IF h.kind = "compile" THEN desk[h.by].busy
          ELSE desk[h.by].review = "asked" /\ h.plan.parent = desk[h.by].plan
    /\ \A h, g \in handlers : h.awaited /\ g.awaited /\ h.by = g.by => h = g

(* A request to run names one plan, which the page has confirmed.          *)
AskedWasConfirmed ==
    \A s \in starts : s.plan # <<>> /\ One(s.plan) /\ s.seen = s.plan

(* So does the run, and its worker has read no other.                      *)
RunIsOfAsked ==
    planRun # NoRun =>
        /\ planRun.expected # <<>> /\ One(planRun.expected) /\ planRun.seen = planRun.expected
        /\ planRun.read # <<>> => planRun.read = planRun.expected

PlanInv ==
    /\ PlanTypeOK /\ ReviewedPlanIsRun /\ ConfirmedIsShown /\ AwaitedIsAsked
    /\ AskedWasConfirmed /\ RunIsOfAsked
=============================================================================
