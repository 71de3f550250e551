------------------------------ MODULE Release ------------------------------
(***************************************************************************)
(* How a change reaches main: the evaluation gate (anime_eval.cli,         *)
(* anime_eval.compare, eval_promote, run by eval-gate.yml on the pull      *)
(* requests that touch certain paths and on every push to main) and the    *)
(* audits (scripts/audit, run by ci.yml on every pull request).  Pull      *)
(* requests are open at the same time; each is judged on a merge with the  *)
(* main branch of the moment its run started and may be merged into a      *)
(* later one.                                                              *)
(*                                                                         *)
(* A measurement is a run of anime_eval.cli: on which content of the tree, *)
(* and whether the reranker timed out, which leaves the hybrid order.  A   *)
(* report and a baseline are kept as the measurement they come from.       *)
(***************************************************************************)
EXTENDS EvalMetrics, Audits

CONSTANTS
    Changes,           \* pull requests
    Watched,           \* those that touch a path the evaluation runs for
    DenseRanking,      \* content -> query -> ranked titles of the chunks
    HybridRanking,     \* content -> query -> titles without the reranker
    RerankedRanking,   \* content -> query -> titles with it
    Threshold,         \* relative tolerance, percent
    Floor, MinLift,    \* absolute tolerance and least lift, in 1/Unit
    Packages, Python,  \* dependencies; those that are not Node's
    Brings,            \* change -> packages it adds
    LicenseOf,         \* package -> license names
    Label,             \* package -> severity label of its advisory
    Leaks,             \* changes one of whose commits adds a credential
    Cleaned,           \* those of Leaks that remove it in a later commit
    Commits,           \* change -> number of its commits
    HistoryWindow,     \* --history: commits searched
    Promoters,         \* changes whose author evaluates and promotes locally
    MaxOpen,           \* bound on pull requests open at once
    EngineFaults       \* <<engine, outcome>>: what may happen but "report"

Contents == SUBSET Changes
Runs == {"reranked", "degraded"}
Nothing == [content |-> {}, ran |-> "reranked"]
Measurements == [content : Contents, ran : Runs]
NoReport == [content |-> {}, ran |-> "never"]
Statuses == {"none", "running", "green", "red"}

ASSUME ReleaseAssumption ==
    /\ IsFiniteSet(Changes) /\ Watched \subseteq Changes
    /\ Python \subseteq Packages
    /\ Cleaned \subseteq Leaks /\ Leaks \subseteq Changes
    /\ HistoryWindow \in Nat
    /\ \A c \in Changes : Commits[c] \in 1..(HistoryWindow - 1)
    /\ \A ranking \in {DenseRanking, HybridRanking, RerankedRanking} :
          ranking \in [Contents -> [DOMAIN Golden -> Seq(Titles)]]
    /\ Threshold \in Nat /\ Floor \in Nat /\ MinLift \in Nat

VARIABLES
    main,       \* content, baseline, the run on its last push and its report
    pr,         \* per pull request: branch point, checks, committed baseline
    report,     \* eval_report.json in the developer's work tree
    advisories  \* packages an advisory has been published for

vars == <<main, pr, report, advisories>>

PullRequest ==
    [state : {"unopened", "open", "merged"}, base : Contents,
     seen : Contents, against : Measurements,
     eval : Statuses, audit : Statuses,
     baseline : Measurements \cup {NoReport}, ran : Runs \cup {"never"}]

TypeOK ==
    /\ main \in [content : Contents, baseline : Measurements,
                 eval : Statuses, seen : Contents, ran : Runs \cup {"never"}]
    /\ pr \in [Changes -> PullRequest]
    /\ report \in Measurements \cup {NoReport}
    /\ advisories \subseteq Packages

Init ==
    /\ main = [content |-> {}, baseline |-> Nothing,
               eval |-> "none", seen |-> {}, ran |-> "never"]
    /\ pr = [c \in Changes |->
                [state |-> "unopened", base |-> {}, seen |-> {},
                 against |-> Nothing, eval |-> "none", audit |-> "none",
                 baseline |-> NoReport, ran |-> "never"]]
    /\ report = NoReport
    /\ advisories = {}

-----------------------------------------------------------------------------
(* anime_eval.cli: the report of a run has the aggregates of the naive and *)
(* of the advanced pipeline.                                               *)
Reports ==
    {[of       |-> m,
      naive    |-> Aggregates([q \in DOMAIN Golden |->
                                  NaiveRetrieve(DenseRanking[m.content][q])]),
      advanced |-> Aggregates(IF m.ran = "degraded" THEN HybridRanking[m.content]
                              ELSE RerankedRanking[m.content])] :
        m \in Measurements}

ReportOf(m) == CHOOSE r \in Reports : r.of = m
NaiveMetrics(m) == ReportOf(m).naive
AdvancedMetrics(m) == ReportOf(m).advanced

GatedMetrics ==
    {"success_1", "success_3", "precision_1", "precision_3", "recall_1",
     "recall_3", "ndcg_1", "ndcg_3", "mrr"}
LiftMetrics == {"success_1", "mrr"}

(* compare_reports: both tolerances must be exceeded; against a baseline   *)
(* of 0 the relative change counts as 0.                                   *)
Regression(name, b, c) ==
    /\ name \in GatedMetrics
    /\ c - b < -Floor
    /\ b # 0 /\ 100 * (c - b) < -Threshold * b

Regressions(baseline, candidate) ==
    {name \in DOMAIN baseline \cap DOMAIN candidate :
        Regression(name, baseline[name], candidate[name])}

LiftFailures(naive, candidate) ==
    {name \in LiftMetrics \cap DOMAIN naive \cap DOMAIN candidate :
        candidate[name] - naive[name] < MinLift}

(* Fault: the comparison is with the baseline alone.                       *)
NoLiftCheck(baseline, m) ==
    Regressions(AdvancedMetrics(baseline), AdvancedMetrics(m)) = {}

(* compare.main on the report of a fresh run: 0 when both gates pass.      *)
GateOk(baseline, m) ==
    LET advanced == AdvancedMetrics(m)
    IN  /\ Regressions(AdvancedMetrics(baseline), advanced) = {}
        /\ LiftFailures(NaiveMetrics(m), advanced) = {}

Verdict(ok) == IF ok THEN "green" ELSE "red"

(* baseline.json of a pull request merged with today's main; two that both *)
(* changed it conflict, and then there is nothing to run or to merge.      *)
BaselineOf(p) == IF p.baseline = NoReport THEN main.baseline ELSE p.baseline

Conflict(p) ==
    /\ p.baseline # NoReport
    /\ \E d \in main.content \ p.base : pr[d].baseline # NoReport

(* on.pull_request.paths: baseline.json is one of them.                    *)
Evaluated(c, p) == c \in Watched \/ p.baseline # NoReport

(* The workflows start on that merge.                                      *)
Running(c, p) ==
    [p EXCEPT !.seen = main.content, !.against = BaselineOf(p),
              !.eval = IF Evaluated(c, p) THEN "running" ELSE "none",
              !.audit = "running", !.ran = "never"]

(* The tree a pull request's run checks out.                               *)
Tree(c) == pr[c].seen \cup {c}

-----------------------------------------------------------------------------
(* A pull request is opened.                                               *)
Open(c) ==
    /\ pr[c].state = "unopened"
    /\ Cardinality({d \in Changes : pr[d].state = "open"}) < MaxOpen
    /\ pr' = [pr EXCEPT ![c] =
                 Running(c, [@ EXCEPT !.state = "open", !.base = main.content])]
    /\ UNCHANGED <<main, report, advisories>>

(* The evaluation of a pull request: the run measures and is compared with *)
(* the baseline file of the same tree.                                     *)
EvalEnds(c) ==
    /\ pr[c].eval = "running"
    /\ \E ran \in Runs :
          LET m == [content |-> Tree(c), ran |-> ran]
          IN  pr' = [pr EXCEPT ![c].eval = Verdict(GateOk(pr[c].against, m)),
                               ![c].ran = ran]
    /\ UNCHANGED <<main, report, advisories>>

(* ... or a step before the comparison fails, and so the job does.         *)
EvalBreaks(c) ==
    /\ pr[c].eval = "running"
    /\ pr' = [pr EXCEPT ![c].eval = "red"]
    /\ UNCHANGED <<main, report, advisories>>

(* The audit job: the three scripts, each of which fails the job.          *)
PackagesOf(content) == UNION {Brings[c] : c \in content}

(* _scan_history: the added lines of the last commits.  The log is by date *)
(* and starts with the checkout's own merge commit, so before the change's *)
(* leak, in its first commit, come its other commits and those of `later`, *)
(* merged into main meanwhile.                                             *)
CommitsSince(c, later) == 1 + Total([d \in {c} \cup later |-> Commits[d]])

(* Fault: the oldest commit searched is left out.                          *)
LeakMissesOldest(c, later) ==
    c \in Leaks /\ CommitsSince(c, later) < HistoryWindow

LeakInWindow(c, later) ==
    c \in Leaks /\ CommitsSince(c, later) <= HistoryWindow

(* _scan_worktree: every file git knows of, as it is in the tree.          *)
LeakInTree(content) == content \cap (Leaks \ Cleaned) # {}

Outcomes(engine) == {"report"} \cup {f[2] : f \in {g \in EngineFaults : g[1] = engine}}

LabelsOf(packages) == {Label[p] : p \in packages}

AuditOk(c, pip, pnpm, pipLicenses, exported, gitleaks, git, later) ==
    LET present == PackagesOf(Tree(c))
        listed == present \cap advisories
    IN  /\ SecretsExit(gitleaks, git, LeakInTree(Tree(c)), LeakInWindow(c, later)) = 0
        /\ DepsExit(pip, pnpm, LabelsOf(listed \cap Python),
                    LabelsOf(listed \ Python)) = 0
        /\ LicensesExit(pipLicenses, exported, present \cap Python,
                        LicenseOf) = 0

MayEnd(c, ok) ==
    \E pip \in Outcomes("pip-audit"), pnpm \in Outcomes("pnpm"),
       pipLicenses \in Outcomes("pip-licenses"),
       gitleaks \in Outcomes("gitleaks"), git \in Outcomes("git"),
       exported \in Outcomes("uv-export"),
       later \in SUBSET (pr[c].seen \ pr[c].base) :
          AuditOk(c, pip, pnpm, pipLicenses, exported, gitleaks, git, later) <=> ok

AuditEnds(c) ==
    /\ pr[c].audit = "running"
    /\ \E ok \in {v \in BOOLEAN : MayEnd(c, v)} :
          pr' = [pr EXCEPT ![c].audit = Verdict(ok)]
    /\ UNCHANGED <<main, report, advisories>>

(* A failed or an outdated check is started again, on today's main.        *)
Rerun(c) ==
    /\ pr[c].state = "open" /\ ~Conflict(pr[c])
    /\ pr[c].eval # "running" /\ pr[c].audit # "running"
    /\ pr' = [pr EXCEPT ![c] = Running(c, @)]
    /\ UNCHANGED <<main, report, advisories>>

(* The author merges main into the branch, and settles a conflict over     *)
(* the baseline for either side.                                           *)
Update(c) ==
    /\ pr[c].state = "open" /\ pr[c].base # main.content
    /\ \E kept \in {pr[c].baseline} \cup (IF Conflict(pr[c]) THEN {NoReport} ELSE {}) :
          pr' = [pr EXCEPT ![c] =
                    Running(c, [@ EXCEPT !.base = main.content, !.baseline = kept])]
    /\ UNCHANGED <<main, report, advisories>>

(* make eval-gate in the developer's work tree: the branch as it is there. *)
EvalLocally(c) ==
    /\ c \in Promoters
    /\ pr[c].state = "open"
    /\ \E ran \in Runs :
          report' = [content |-> pr[c].base \cup {c}, ran |-> ran]
    /\ UNCHANGED <<main, pr, advisories>>

(* eval_promote refuses a file that is not there and one without metrics.  *)
Promotable(m) == m # NoReport /\ AdvancedMetrics(m) # << >>

(* make eval-promote, committed and pushed: whatever eval_report.json is   *)
(* there becomes the branch's baseline.                                    *)
Promote(c) ==
    /\ c \in Promoters
    /\ pr[c].state = "open"
    /\ Promotable(report)
    /\ pr[c].baseline # report
    /\ LET p == [pr[c] EXCEPT !.baseline = report]
       IN  ~Conflict(p) /\ pr' = [pr EXCEPT ![c] = Running(c, p)]
    /\ UNCHANGED <<main, report, advisories>>

(* No check of the pull request is red or under way.                       *)
Passed(p) == p.audit = "green" /\ p.eval \in {"green", "none"}

(* Fault: a run that is under way on main goes on.                         *)
MergeKeepsRun(c) ==
    /\ pr[c].state = "open" /\ Passed(pr[c]) /\ ~Conflict(pr[c])
    /\ pr' = [pr EXCEPT ![c].state = "merged"]
    /\ main' = [main EXCEPT !.content = @ \cup {c}, !.baseline = BaselineOf(pr[c])]
    /\ UNCHANGED <<report, advisories>>

(* A merge needs the checks there are green, on whatever main they were    *)
(* run.  The push to main starts a run there, whatever it touches, and     *)
(* cancels one that is under way.                                          *)
Merge(c) ==
    /\ pr[c].state = "open" /\ Passed(pr[c]) /\ ~Conflict(pr[c])
    /\ pr' = [pr EXCEPT ![c].state = "merged"]
    /\ main' = [content |-> main.content \cup {c}, baseline |-> BaselineOf(pr[c]),
                eval |-> "running", seen |-> main.content \cup {c},
                ran |-> "never"]
    /\ UNCHANGED <<report, advisories>>

(* The run on main: after a push, weekly, or by hand.                      *)
MainStarts ==
    /\ main.eval # "running"
    /\ main' = [main EXCEPT !.eval = "running", !.seen = main.content,
                            !.ran = "never"]
    /\ UNCHANGED <<pr, report, advisories>>

MainEnds ==
    /\ main.eval = "running"
    /\ \E ran \in Runs :
          LET m == [content |-> main.seen, ran |-> ran]
          IN  main' = [main EXCEPT !.eval = Verdict(GateOk(main.baseline, m)),
                                   !.ran = ran]
    /\ UNCHANGED <<pr, report, advisories>>

(* An advisory is published for a package.                                 *)
Publish(p) ==
    /\ p \notin advisories
    /\ advisories' = advisories \cup {p}
    /\ UNCHANGED <<main, pr, report>>

Next ==
    \/ \E c \in Changes :
          \/ Open(c) \/ EvalEnds(c) \/ EvalBreaks(c) \/ AuditEnds(c)
          \/ Rerun(c) \/ Update(c) \/ EvalLocally(c) \/ Promote(c) \/ Merge(c)
    \/ MainStarts \/ MainEnds
    \/ \E p \in Packages : Publish(p)

Spec == Init /\ [][Next]_vars

-----------------------------------------------------------------------------
(* The two gates restated: better than the baseline minus one of the       *)
(* tolerances; better than dense-only retrieval by the least lift.         *)
Within(b, c) == c >= b - Floor \/ 100 * c >= (100 - Threshold) * b

Beats(m) ==
    \A name \in LiftMetrics :
        AdvancedMetrics(m)[name] >= NaiveMetrics(m)[name] + MinLift

Kept(baseline, m) ==
    \A name \in GatedMetrics :
        Within(AdvancedMetrics(baseline)[name], AdvancedMetrics(m)[name])

(* A green main was measured as it stands, pushes during the run included, *)
(* and there neither two drops that were each tolerated alone nor a stage  *)
(* that does nothing has gone through.                                     *)
GreenMainHolds ==
    main.eval = "green" =>
        LET m == [content |-> main.content, ran |-> main.ran]
        IN  Beats(m) /\ Kept(main.baseline, m)

(* eval-gate.yml:110-112: a reranker that does nothing is caught, also     *)
(* when its own numbers have been promoted to be the baseline; so none was *)
(* merged on a run it had passed.  A change outside the paths has no run.  *)
RerankerAlive(m) ==
    m.ran = "reranked" /\ RerankedRanking[m.content] # HybridRanking[m.content]

DeadRerankerCaught ==
    \A c \in Changes : pr[c].eval = "green" =>
        RerankerAlive([content |-> Tree(c), ran |-> pr[c].ran])

(* ci.yml:118-120: a credential is found although a later commit of the    *)
(* change removed it, as long as no more commits than are searched came    *)
(* after it; one that is still in the tree is never merged.  Where         *)
(* gitleaks may be silent or git without a log that does not hold.         *)
LeakNotMerged ==
    \A c \in main.content \cap Leaks :
        /\ c \in Cleaned
        /\ CommitsSince(c, pr[c].seen \ pr[c].base) > HistoryWindow

(* An audit passes only without a blocking advisory among those published  *)
(* by then, and no copyleft package reaches Python's runtime, whatever     *)
(* engines failed in whatever order.                                       *)
Blocking(p) ==
    Label[p] \in {"crit", "critical", "high", "error"}
                    \cup (IF p \in Python THEN {"none"} ELSE {})

VettedDependencies ==
    [][\A c \in Changes : pr[c].audit # "green" /\ pr'[c].audit = "green" =>
          \A p \in PackagesOf(Tree(c)) :
              /\ p \in advisories => ~Blocking(p)
              /\ p \in Python =>
                    LicenseOf[p] \cap {"GPL", "AGPL", "LGPL"} = {}]_vars

-----------------------------------------------------------------------------
(* eval_promote.py:42 "Update via `make eval && make eval-promote`": the   *)
(* baseline a change commits was measured on that change.                  *)
PromotedIsMeasured ==
    \A c \in Changes : pr[c].baseline # NoReport =>
        pr[c].baseline.content = pr[c].base \cup {c}

(* deps.py:270 "A scanner that did not run is not a clean scan": with      *)
(* "garbled" or "errored" among EngineFaults VettedDependencies is the     *)
(* claim; licenses.py:17 gives a tool error exit 2: with "no_export".      *)
=============================================================================
