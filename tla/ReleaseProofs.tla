---------------------------- MODULE ReleaseProofs ----------------------------
(***************************************************************************)
(* What the evaluation gate and the audits keep from main, for any golden  *)
(* set, rankings, changes and engine faults: GreenMainHolds,               *)
(* DeadRerankerCaught, LeakNotMerged and VettedDependencies.               *)
(***************************************************************************)
EXTENDS Release, FiniteSetTheorems, WellFoundedInduction, TLAPS

(* A run on main is of what main holds, and a green one has passed.        *)
MainStands ==
    /\ main.seen = main.content
    /\ main.eval = "green" =>
          /\ main.ran \in Runs
          /\ GateOk(main.baseline, [content |-> main.content, ran |-> main.ran])

(* A green evaluation of a pull request has passed on the tree it ran on.  *)
EvalHolds ==
    \A c \in Changes : pr[c].eval = "green" =>
        /\ pr[c].ran \in Runs
        /\ GateOk(pr[c].against, [content |-> Tree(c), ran |-> pr[c].ran])

(* A green audit has found no credential, in the tree or in the commits it *)
(* searched.                                                               *)
NoneFound(p, c) ==
    c \in Leaks =>
        /\ c \in Cleaned
        /\ CommitsSince(c, p.seen \ p.base) > HistoryWindow

AuditHolds ==
    \A c \in Changes : pr[c].audit = "green" => NoneFound(pr[c], c)

(* What is in main was merged on a green audit.                            *)
MergedStands ==
    \A c \in main.content : pr[c].state = "merged" /\ pr[c].audit = "green"

-----------------------------------------------------------------------------
(* A run's checks start over; a merged pull request has none.              *)
Restarted(c) ==
    /\ pr[c].state # "merged"
    /\ pr'[c].state = "open"
    /\ pr'[c].eval \in {"running", "none"}
    /\ pr'[c].audit = "running"

(* Running starts the checks there are and leaves the pull request as it is. *)
LEMMA RunningFields ==
    ASSUME NEW c, NEW p \in PullRequest, main.content \in Contents,
           main.baseline \in Measurements
    PROVE  /\ Running(c, p) \in PullRequest
           /\ Running(c, p).eval \in {"running", "none"}
           /\ Running(c, p).audit = "running"
           /\ Running(c, p).state = p.state
<1>1. BaselineOf(p) \in Measurements
  BY DEF BaselineOf, PullRequest
<1>2. QED
  BY <1>1 DEF Running, PullRequest, Statuses, Runs

(* The variables keep their types.                                         *)
LEMMA TypeStep == TypeOK /\ [Next]_vars => TypeOK'
<1> SUFFICES ASSUME TypeOK, [Next]_vars PROVE TypeOK'
  OBVIOUS
<1> USE DEF TypeOK
<1>0. main.content \in Contents /\ main.baseline \in Measurements
  OBVIOUS
<1>1. ASSUME NEW c \in Changes, Open(c) PROVE TypeOK'
  <2> DEFINE p == [pr[c] EXCEPT !.state = "open", !.base = main.content]
  <2>1. p \in PullRequest
    BY <1>0 DEF PullRequest
  <2>2. Running(c, p) \in PullRequest
    BY <1>0, <2>1, RunningFields
  <2>3. pr' = [pr EXCEPT ![c] = Running(c, p)] /\ UNCHANGED <<main, report, advisories>>
    BY <1>1 DEF Open
  <2>4. QED
    BY <2>2, <2>3
<1>2. ASSUME NEW c \in Changes, EvalEnds(c) PROVE TypeOK'
  <2> DEFINE V(ran) == Verdict(GateOk(pr[c].against, [content |-> Tree(c), ran |-> ran]))
  <2>1. PICK ran \in Runs : pr' = [pr EXCEPT ![c].eval = V(ran), ![c].ran = ran]
    BY <1>2 DEF EvalEnds
  <2>2. V(ran) \in Statuses
    BY DEF Verdict, Statuses
  <2> HIDE DEF V
  <2>3. [pr[c] EXCEPT !.eval = V(ran), !.ran = ran] \in PullRequest
    BY <2>2 DEF PullRequest
  <2>4. pr' = [pr EXCEPT ![c] = [pr[c] EXCEPT !.eval = V(ran), !.ran = ran]]
    BY <2>1
  <2>5. QED
    BY <1>2, <2>3, <2>4 DEF EvalEnds
<1>3. ASSUME NEW c \in Changes, EvalBreaks(c) PROVE TypeOK'
  BY <1>3 DEF EvalBreaks, PullRequest, Statuses
<1>4. ASSUME NEW c \in Changes, AuditEnds(c) PROVE TypeOK'
  <2>1. PICK ok \in BOOLEAN : pr' = [pr EXCEPT ![c].audit = Verdict(ok)]
    BY <1>4 DEF AuditEnds
  <2>2. Verdict(ok) \in Statuses
    BY DEF Verdict, Statuses
  <2>3. QED
    BY <1>4, <2>1, <2>2 DEF AuditEnds, PullRequest
<1>5. ASSUME NEW c \in Changes, Rerun(c) PROVE TypeOK'
  <2>1. Running(c, pr[c]) \in PullRequest
    BY <1>0, RunningFields
  <2>2. QED
    BY <1>5, <2>1 DEF Rerun
<1>6. ASSUME NEW c \in Changes, Update(c) PROVE TypeOK'
  <2>1. PICK kept \in {pr[c].baseline} \cup {NoReport} :
           pr' = [pr EXCEPT ![c] =
                     Running(c, [pr[c] EXCEPT !.base = main.content, !.baseline = kept])]
    BY <1>6 DEF Update
  <2> DEFINE p == [pr[c] EXCEPT !.base = main.content, !.baseline = kept]
  <2>2. p \in PullRequest
    BY <1>0 DEF PullRequest
  <2>3. Running(c, p) \in PullRequest
    BY <1>0, <2>2, RunningFields
  <2>4. QED
    BY <1>6, <2>1, <2>3 DEF Update
<1>7. ASSUME NEW c \in Changes, EvalLocally(c) PROVE TypeOK'
  <2>1. PICK ran \in Runs : report' = [content |-> pr[c].base \cup {c}, ran |-> ran]
    BY <1>7 DEF EvalLocally
  <2>2. pr[c].base \cup {c} \in Contents
    BY DEF PullRequest, Contents
  <2>3. QED
    BY <1>7, <2>1, <2>2 DEF EvalLocally, Measurements
<1>8. ASSUME NEW c \in Changes, Promote(c) PROVE TypeOK'
  <2> DEFINE p == [pr[c] EXCEPT !.baseline = report]
  <2>1. p \in PullRequest
    BY DEF PullRequest
  <2>2. Running(c, p) \in PullRequest
    BY <1>0, <2>1, RunningFields
  <2>3. QED
    BY <1>8, <2>2 DEF Promote
<1>9. ASSUME NEW c \in Changes, Merge(c) PROVE TypeOK'
  <2>1. BaselineOf(pr[c]) \in Measurements
    BY <1>0 DEF BaselineOf, PullRequest
  <2>2. main.content \cup {c} \in Contents
    BY <1>0 DEF Contents
  <2>3. QED
    BY <1>9, <2>1, <2>2 DEF Merge, PullRequest, Statuses
<1>10. CASE MainStarts
  BY <1>10 DEF MainStarts, Statuses
<1>11. CASE MainEnds
  <2>1. PICK ran \in Runs :
           main' = [main EXCEPT !.eval = Verdict(GateOk(main.baseline,
                                    [content |-> main.seen, ran |-> ran])),
                                !.ran = ran]
    BY <1>11 DEF MainEnds
  <2>2. Verdict(GateOk(main.baseline, [content |-> main.seen, ran |-> ran])) \in Statuses
    BY DEF Verdict, Statuses
  <2>3. QED
    BY <1>11, <2>1, <2>2 DEF MainEnds
<1>12. ASSUME NEW p \in Packages, Publish(p) PROVE TypeOK'
  BY <1>12 DEF Publish
<1>13. CASE UNCHANGED vars
  BY <1>13 DEF vars
<1>14. QED
  BY <1>1, <1>2, <1>3, <1>4, <1>5, <1>6, <1>7, <1>8, <1>9, <1>10, <1>11, <1>12,
     <1>13 DEF Next

(* Types, for every value of the constants.                                *)
THEOREM TypeCorrect == Spec => []TypeOK
<1>1. Init => TypeOK
  BY DEF Init, TypeOK, Contents, Measurements, Runs, Nothing, PullRequest, Statuses
<1>2. QED
  BY <1>1, TypeStep, PTL DEF Spec

-----------------------------------------------------------------------------
(* What a step makes of one pull request.                                  *)
LEMMA Moves ==
    ASSUME TypeOK, [Next]_vars, NEW c \in Changes
    PROVE  \/ pr'[c] = pr[c]
           \/ Restarted(c)
           \/ EvalEnds(c) \/ EvalBreaks(c) \/ AuditEnds(c)
           \/ Merge(c)
<1> USE DEF TypeOK
<1>0. main.content \in Contents /\ main.baseline \in Measurements
  OBVIOUS
<1>1. ASSUME NEW d \in Changes, Open(d) PROVE pr'[c] = pr[c] \/ Restarted(c)
  <2> DEFINE p == [pr[d] EXCEPT !.state = "open", !.base = main.content]
  <2>1. p \in PullRequest /\ p.state = "open"
    BY <1>0 DEF PullRequest
  <2>2. Running(d, p).eval \in {"running", "none"} /\ Running(d, p).audit = "running"
        /\ Running(d, p).state = "open"
    BY <1>0, <2>1, RunningFields
  <2>3. pr' = [pr EXCEPT ![d] = Running(d, p)] /\ pr[d].state = "unopened"
    BY <1>1 DEF Open
  <2> HIDE DEF p
  <2>4. QED
    BY <2>2, <2>3 DEF Restarted
<1>2. ASSUME NEW d \in Changes, EvalEnds(d) \/ EvalBreaks(d) \/ AuditEnds(d), d # c
      PROVE  pr'[c] = pr[c]
  BY <1>2 DEF EvalEnds, EvalBreaks, AuditEnds
<1>3. ASSUME NEW d \in Changes, Rerun(d) PROVE pr'[c] = pr[c] \/ Restarted(c)
  <2>1. Running(d, pr[d]).eval \in {"running", "none"} /\ Running(d, pr[d]).audit = "running"
        /\ Running(d, pr[d]).state = pr[d].state
    BY <1>0, RunningFields
  <2>2. pr' = [pr EXCEPT ![d] = Running(d, pr[d])] /\ pr[d].state = "open"
    BY <1>3 DEF Rerun
  <2>3. QED
    BY <2>1, <2>2 DEF Restarted
<1>4. ASSUME NEW d \in Changes, Update(d) PROVE pr'[c] = pr[c] \/ Restarted(c)
  <2>1. PICK kept \in {pr[d].baseline} \cup {NoReport} :
           pr' = [pr EXCEPT ![d] =
                     Running(d, [pr[d] EXCEPT !.base = main.content, !.baseline = kept])]
    BY <1>4 DEF Update
  <2> DEFINE p == [pr[d] EXCEPT !.base = main.content, !.baseline = kept]
  <2>2. p \in PullRequest /\ p.state = pr[d].state
    BY <1>0 DEF PullRequest
  <2>3. Running(d, p).eval \in {"running", "none"} /\ Running(d, p).audit = "running"
        /\ Running(d, p).state = pr[d].state
    <3>1. Running(d, p).state = p.state
      BY <1>0, <2>2, RunningFields
    <3>2. QED
      BY <1>0, <2>2, <3>1, RunningFields
  <2>4. pr' = [pr EXCEPT ![d] = Running(d, p)] /\ pr[d].state = "open"
    BY <1>4, <2>1 DEF Update
  <2> HIDE DEF p
  <2>5. QED
    BY <2>3, <2>4 DEF Restarted
<1>5. ASSUME NEW d \in Changes, Promote(d) PROVE pr'[c] = pr[c] \/ Restarted(c)
  <2> DEFINE p == [pr[d] EXCEPT !.baseline = report]
  <2>1. p \in PullRequest /\ p.state = pr[d].state
    BY DEF PullRequest
  <2>2. Running(d, p).eval \in {"running", "none"} /\ Running(d, p).audit = "running"
        /\ Running(d, p).state = pr[d].state
    <3>1. Running(d, p).state = p.state
      BY <1>0, <2>1, RunningFields
    <3>2. QED
      BY <1>0, <2>1, <3>1, RunningFields
  <2>3. pr' = [pr EXCEPT ![d] = Running(d, p)] /\ pr[d].state = "open"
    BY <1>5 DEF Promote
  <2> HIDE DEF p
  <2>4. QED
    BY <2>2, <2>3 DEF Restarted
<1>6. ASSUME NEW d \in Changes, Merge(d), d # c PROVE pr'[c] = pr[c]
  BY <1>6 DEF Merge
<1>7. ASSUME NEW d \in Changes, EvalLocally(d) PROVE pr'[c] = pr[c]
  BY <1>7 DEF EvalLocally
<1>8. MainStarts \/ MainEnds \/ UNCHANGED vars => pr'[c] = pr[c]
  BY DEF MainStarts, MainEnds, vars
<1>9. ASSUME NEW p \in Packages, Publish(p) PROVE pr'[c] = pr[c]
  BY <1>9 DEF Publish
<1>10. QED
  BY <1>1, <1>2, <1>3, <1>4, <1>5, <1>6, <1>7, <1>8, <1>9 DEF Next

-----------------------------------------------------------------------------
(* A green evaluation stays one of the tree it ran on: whatever changes    *)
(* the tree starts it again.                                               *)
LEMMA EvalStep == TypeOK /\ EvalHolds /\ [Next]_vars => EvalHolds'
<1> SUFFICES ASSUME TypeOK, EvalHolds, [Next]_vars, NEW c \in Changes,
                    pr'[c].eval = "green"
             PROVE  /\ pr'[c].ran \in Runs
                    /\ GateOk(pr'[c].against, [content |-> Tree(c)', ran |-> pr'[c].ran])
  BY DEF EvalHolds
<1> DEFINE m(ran) == [content |-> Tree(c), ran |-> ran]
<1>0. pr \in [Changes -> PullRequest]
  BY DEF TypeOK
<1>1. CASE EvalEnds(c)
  <2> DEFINE V(ran) == Verdict(GateOk(pr[c].against, m(ran)))
  <2>1. PICK ran \in Runs : pr' = [pr EXCEPT ![c].eval = V(ran), ![c].ran = ran]
    BY <1>1 DEF EvalEnds
  <2> HIDE DEF V, m
  <2>2. /\ pr'[c].eval = V(ran) /\ pr'[c].ran = ran
        /\ pr'[c].against = pr[c].against /\ pr'[c].seen = pr[c].seen
    BY <1>0, <2>1 DEF PullRequest
  <2>3. GateOk(pr[c].against, m(ran))
    BY <2>2 DEF V, Verdict
  <2>4. Tree(c)' = Tree(c)
    BY <2>2 DEF Tree
  <2>5. QED
    BY <2>2, <2>3, <2>4 DEF m
<1>2. CASE EvalBreaks(c)
  BY <1>0, <1>2 DEF EvalBreaks, PullRequest
<1>3. CASE AuditEnds(c)
  <2>1. PICK ok \in BOOLEAN : pr' = [pr EXCEPT ![c].audit = Verdict(ok)]
    BY <1>3 DEF AuditEnds
  <2>2. /\ pr'[c].eval = pr[c].eval /\ pr'[c].ran = pr[c].ran
        /\ pr'[c].against = pr[c].against /\ pr'[c].seen = pr[c].seen
    BY <1>0, <2>1 DEF PullRequest
  <2>3. QED
    BY <2>2 DEF EvalHolds, Tree
<1>4. CASE Merge(c)
  <2>1. /\ pr'[c].eval = pr[c].eval /\ pr'[c].ran = pr[c].ran
        /\ pr'[c].against = pr[c].against /\ pr'[c].seen = pr[c].seen
    BY <1>0, <1>4 DEF Merge, PullRequest
  <2>2. QED
    BY <2>1 DEF EvalHolds, Tree
<1>5. CASE pr'[c] = pr[c]
  BY <1>5 DEF EvalHolds, Tree
<1>6. QED
  BY <1>1, <1>2, <1>3, <1>4, <1>5, Moves DEF Restarted

(* A push to main starts its run again, so a green main is the one that    *)
(* was measured.                                                           *)
LEMMA MainStep == TypeOK /\ MainStands /\ [Next]_vars => MainStands'
<1> SUFFICES ASSUME TypeOK, MainStands, [Next]_vars PROVE MainStands'
  OBVIOUS
<1>1. ASSUME NEW c \in Changes, Merge(c) PROVE MainStands'
  BY <1>1 DEF Merge, MainStands
<1>2. CASE MainStarts
  BY <1>2 DEF MainStarts, MainStands, TypeOK
<1>3. CASE MainEnds
  <2> DEFINE m(ran) == [content |-> main.seen, ran |-> ran]
             V(ran) == Verdict(GateOk(main.baseline, m(ran)))
  <2>1. PICK ran \in Runs : main' = [main EXCEPT !.eval = V(ran), !.ran = ran]
    BY <1>3 DEF MainEnds
  <2> HIDE DEF V, m
  <2>2. /\ main'.eval = V(ran) /\ main'.ran = ran /\ main'.seen = main.seen
        /\ main'.content = main.content /\ main'.baseline = main.baseline
    BY <2>1 DEF TypeOK
  <2>3. V(ran) = "green" => GateOk(main.baseline, m(ran))
    BY DEF V, Verdict
  <2>4. QED
    BY <2>2, <2>3 DEF MainStands, m
<1>4. ASSUME UNCHANGED main PROVE MainStands'
  BY <1>4 DEF MainStands
<1>5. ASSUME NEW c \in Changes,
             Open(c) \/ EvalEnds(c) \/ EvalBreaks(c) \/ AuditEnds(c) \/ Rerun(c)
                \/ Update(c) \/ EvalLocally(c) \/ Promote(c)
      PROVE  UNCHANGED main
  BY <1>5 DEF Open, EvalEnds, EvalBreaks, AuditEnds, Rerun, Update, EvalLocally, Promote
<1>6. (\E p \in Packages : Publish(p)) \/ UNCHANGED vars => UNCHANGED main
  BY DEF Publish, vars
<1>7. QED
  BY <1>1, <1>2, <1>3, <1>4, <1>5, <1>6 DEF Next

(* Both, at every moment.                                                  *)
LEMMA MeasuredCorrect == Spec => [](TypeOK /\ EvalHolds /\ MainStands)
<1>1. Init => EvalHolds /\ MainStands
  BY DEF Init, EvalHolds, MainStands
<1>2. EvalHolds /\ TypeOK /\ [Next]_vars => EvalHolds'
  BY EvalStep
<1>3. MainStands /\ TypeOK /\ [Next]_vars => MainStands'
  BY MainStep
<1>4. QED
  BY <1>1, <1>2, <1>3, TypeCorrect, PTL DEF Spec

-----------------------------------------------------------------------------
(* A sum counted one by one is a natural number, and one of no fewer       *)
(* summands is no smaller.                                                 *)
LEMMA TotalNat ==
    ASSUME NEW f, IsFiniteSet(DOMAIN f), \A x \in DOMAIN f : f[x] \in Nat
    PROVE  /\ IsFiniteSet(UNION {{x} \X (1..f[x]) : x \in DOMAIN f})
           /\ Total(f) \in Nat
<1> DEFINE Part(x) == {x} \X (1..f[x])
           parts == {Part(x) : x \in DOMAIN f}
<1>1. IsFiniteSet(parts)
  <2> DEFINE part == [x \in DOMAIN f |-> Part(x)]
  <2>1. part \in Surjection(DOMAIN f, parts)
    <3> HIDE DEF Part
    <3>1. QED
      BY DEF Surjection
  <2> HIDE DEF part, parts
  <2>2. QED
    BY <2>1, FS_Surjection
<1>2. ASSUME NEW x \in DOMAIN f PROVE IsFiniteSet(Part(x))
  <2>1. IsFiniteSet({x})
    BY FS_Singleton, Zenon
  <2>2. 1 \in Int /\ f[x] \in Int
    OBVIOUS
  <2>3. IsFiniteSet(1..f[x])
    BY <2>2, FS_Interval, Zenon
  <2>4. QED
    BY <2>1, <2>3, FS_Product
<1>3. \A T \in parts : IsFiniteSet(T)
  BY <1>2
<1>4. IsFiniteSet(UNION parts)
  <2> HIDE DEF parts
  <2>1. QED
    BY <1>1, <1>3, FS_UNION
<1>5. QED
  BY <1>4, FS_CardinalityType DEF Total

(* A sum over more is no smaller.                                          *)
LEMMA TotalGrows ==
    ASSUME NEW f, NEW g, IsFiniteSet(DOMAIN g), DOMAIN f \subseteq DOMAIN g,
           \A x \in DOMAIN g : g[x] \in Nat,
           \A x \in DOMAIN f : f[x] = g[x]
    PROVE  Total(f) <= Total(g)
<1> DEFINE F == UNION {{x} \X (1..f[x]) : x \in DOMAIN f}
           G == UNION {{x} \X (1..g[x]) : x \in DOMAIN g}
<1>1. IsFiniteSet(G)
  BY TotalNat
<1>2. F \subseteq G
  OBVIOUS
<1>3. Cardinality(F) <= Cardinality(G)
  <2> HIDE DEF F, G
  <2>1. QED
    BY <1>1, <1>2, FS_Subset
<1>4. QED
  BY <1>3 DEF Total

(* The more has been merged before a change, the more commits came after   *)
(* its leak.                                                               *)
LEMMA CommitsGrow ==
    ASSUME NEW c \in Changes, NEW later, NEW all, later \subseteq all,
           all \subseteq Changes
    PROVE  /\ CommitsSince(c, later) \in Nat
           /\ CommitsSince(c, all) \in Nat
           /\ CommitsSince(c, later) <= CommitsSince(c, all)
<1> DEFINE f == [d \in {c} \cup later |-> Commits[d]]
           g == [d \in {c} \cup all |-> Commits[d]]
<1>1. IsFiniteSet({c} \cup later) /\ IsFiniteSet({c} \cup all)
  <2>1. {c} \cup later \in SUBSET Changes /\ {c} \cup all \in SUBSET Changes
    OBVIOUS
  <2>2. QED
    BY <2>1, ReleaseAssumption, FS_Subset
<1>2. \A d \in Changes : Commits[d] \in Nat
  BY ReleaseAssumption
<1>3. Total(f) \in Nat
  BY <1>1, <1>2, TotalNat
<1>4. Total(g) \in Nat
  BY <1>1, <1>2, TotalNat
<1>5. Total(f) <= Total(g)
  BY <1>1, <1>2, TotalGrows
<1>6. QED
  BY <1>3, <1>4, <1>5 DEF CommitsSince

-----------------------------------------------------------------------------
(* The secrets audit is clean only if neither scan finds anything, unless  *)
(* gitleaks came back with nothing, or git without a log.                  *)
LEMMA SecretsClean ==
    ASSUME NEW gitleaks, gitleaks # "silent", NEW git, git # "no_log",
           NEW inTree \in BOOLEAN, NEW inWindow \in BOOLEAN,
           SecretsExit(gitleaks, git, inTree, inWindow) = 0
    PROVE  ~inTree /\ ~inWindow
<1>1. CASE gitleaks = "report"
  BY <1>1 DEF SecretsExit
<1>2. CASE gitleaks # "report"
  BY <1>2 DEF SecretsExit
<1>3. QED
  BY <1>1, <1>2

(* An audit whose history scan looked at the commits it is said to look at *)
(* has found nothing in them.                                              *)
LEMMA AuditFindsNone ==
    ASSUME TypeOK, NEW c \in Changes, NEW ok \in BOOLEAN, MayEnd(c, ok), ok,
           "silent" \notin Outcomes("gitleaks"), "no_log" \notin Outcomes("git")
    PROVE  NoneFound(pr[c], c)
<1>0. pr[c].seen \in SUBSET Changes
  BY DEF TypeOK, PullRequest, Contents
<1>1. PICK pip \in Outcomes("pip-audit"), pnpm \in Outcomes("pnpm"),
           pipLicenses \in Outcomes("pip-licenses"), gitleaks \in Outcomes("gitleaks"),
           git \in Outcomes("git"), exported \in Outcomes("uv-export"),
           later \in SUBSET (pr[c].seen \ pr[c].base) :
              AuditOk(c, pip, pnpm, pipLicenses, exported, gitleaks, git, later)
  BY DEF MayEnd
<1>2. SecretsExit(gitleaks, git, LeakInTree(Tree(c)), LeakInWindow(c, later)) = 0
  BY <1>1 DEF AuditOk
<1>3. ~LeakInTree(Tree(c)) /\ ~LeakInWindow(c, later)
  <2>1. LeakInTree(Tree(c)) \in BOOLEAN /\ LeakInWindow(c, later) \in BOOLEAN
    BY DEF LeakInTree, LeakInWindow
  <2>2. gitleaks # "silent" /\ git # "no_log"
    BY <1>1
  <2>3. QED
    BY <1>2, <2>1, <2>2, SecretsClean
<1>4. c \in Leaks => c \in Cleaned
  BY <1>3 DEF LeakInTree, Tree
<1> DEFINE some == CommitsSince(c, later)
           all == CommitsSince(c, pr[c].seen \ pr[c].base)
<1>5. some <= all /\ some \in Nat /\ all \in Nat
  BY <1>0, CommitsGrow
<1>6. HistoryWindow \in Nat
  BY ReleaseAssumption
<1>7. c \in Leaks => ~(some <= HistoryWindow)
  BY <1>3 DEF LeakInWindow
<1>8. c \in Leaks => all > HistoryWindow
  <2> HIDE DEF some, all
  <2>1. QED
    BY <1>5, <1>6, <1>7
<1>9. QED
  BY <1>4, <1>8 DEF NoneFound

(* Only the end of the audit job gives an audit its verdict, and what it   *)
(* was about stays until it starts over.                                   *)
LEMMA OnlyAudits ==
    ASSUME TypeOK, [Next]_vars, NEW c \in Changes
    PROVE  \/ AuditEnds(c)
           \/ Restarted(c)
           \/ /\ pr'[c].audit = pr[c].audit
              /\ pr'[c].seen = pr[c].seen
              /\ pr'[c].base = pr[c].base
<1>0. pr \in [Changes -> PullRequest]
  BY DEF TypeOK
<1> DEFINE Same == /\ pr'[c].audit = pr[c].audit
                   /\ pr'[c].seen = pr[c].seen
                   /\ pr'[c].base = pr[c].base
<1>1. CASE EvalEnds(c)
  <2> DEFINE V(ran) == Verdict(GateOk(pr[c].against, [content |-> Tree(c), ran |-> ran]))
  <2>1. PICK ran \in Runs : pr' = [pr EXCEPT ![c].eval = V(ran), ![c].ran = ran]
    BY <1>1 DEF EvalEnds
  <2> HIDE DEF V
  <2>2. QED
    BY <1>0, <2>1 DEF PullRequest
<1>2. CASE EvalBreaks(c)
  BY <1>0, <1>2 DEF EvalBreaks, PullRequest
<1>3. CASE Merge(c)
  BY <1>0, <1>3 DEF Merge, PullRequest
<1>4. CASE pr'[c] = pr[c]
  BY <1>4
<1>5. QED
  BY <1>1, <1>2, <1>3, <1>4, Moves

(* A green audit stays one of what the change is now.                      *)
LEMMA AuditStep ==
    ASSUME "silent" \notin Outcomes("gitleaks"), "no_log" \notin Outcomes("git")
    PROVE  TypeOK /\ AuditHolds /\ [Next]_vars => AuditHolds'
<1> SUFFICES ASSUME TypeOK, AuditHolds, [Next]_vars, NEW c \in Changes,
                    pr'[c].audit = "green"
             PROVE  NoneFound(pr'[c], c)
  BY DEF AuditHolds
<1>1. CASE AuditEnds(c)
  <2>1. PICK ok \in BOOLEAN : MayEnd(c, ok) /\ pr' = [pr EXCEPT ![c].audit = Verdict(ok)]
    BY <1>1 DEF AuditEnds
  <2>2. pr'[c].audit = Verdict(ok) /\ pr'[c].seen = pr[c].seen /\ pr'[c].base = pr[c].base
    BY <2>1 DEF TypeOK, PullRequest
  <2>3. ok
    BY <2>2 DEF Verdict
  <2>4. NoneFound(pr[c], c)
    BY <2>1, <2>3, AuditFindsNone
  <2>5. QED
    BY <2>2, <2>4 DEF NoneFound
<1>2. QED
  BY <1>1, OnlyAudits DEF Restarted, AuditHolds, NoneFound

(* Nothing happens any more to a pull request that has been merged.        *)
LEMMA MergedStep == TypeOK /\ MergedStands /\ [Next]_vars => MergedStands'
<1> SUFFICES ASSUME TypeOK, MergedStands, [Next]_vars, NEW c \in main'.content
             PROVE  pr'[c].state = "merged" /\ pr'[c].audit = "green"
  BY DEF MergedStands
<1>0. pr \in [Changes -> PullRequest] /\ main.content \in SUBSET Changes
  BY DEF TypeOK, Contents
<1>1. CASE c \in Changes /\ Merge(c)
  BY <1>0, <1>1 DEF Merge, Passed, PullRequest
<1>2. CASE c \in main.content
  <2>1. pr[c].state = "merged" /\ pr[c].audit = "green" /\ c \in Changes
    BY <1>0, <1>2 DEF MergedStands
  <2>2. ASSUME EvalEnds(c) \/ EvalBreaks(c)
        PROVE  pr'[c].state = pr[c].state /\ pr'[c].audit = pr[c].audit
    <3>1. CASE EvalEnds(c)
      <4> DEFINE V(ran) == Verdict(GateOk(pr[c].against, [content |-> Tree(c), ran |-> ran]))
      <4>1. PICK ran \in Runs : pr' = [pr EXCEPT ![c].eval = V(ran), ![c].ran = ran]
        BY <3>1 DEF EvalEnds
      <4> HIDE DEF V
      <4>2. QED
        BY <1>0, <2>1, <4>1 DEF PullRequest
    <3>2. CASE EvalBreaks(c)
      BY <1>0, <2>1, <3>2 DEF EvalBreaks, PullRequest
    <3>3. QED
      BY <2>2, <3>1, <3>2
  <2>3. ~AuditEnds(c) /\ ~Merge(c)
    BY <2>1 DEF AuditEnds, Merge
  <2>4. QED
    BY <2>1, <2>2, <2>3, Moves DEF Restarted
<1>3. ASSUME NEW d \in Changes, Merge(d) PROVE main'.content = main.content \cup {d}
  BY <1>3 DEF Merge
<1>4. (\A d \in Changes : ~Merge(d)) => main'.content = main.content
  <2>1. ASSUME NEW d \in Changes,
               Open(d) \/ EvalEnds(d) \/ EvalBreaks(d) \/ AuditEnds(d) \/ Rerun(d)
                  \/ Update(d) \/ EvalLocally(d) \/ Promote(d)
        PROVE  main' = main
    BY <2>1 DEF Open, EvalEnds, EvalBreaks, AuditEnds, Rerun, Update, EvalLocally, Promote
  <2>2. MainStarts \/ MainEnds => main'.content = main.content
    BY DEF MainStarts, MainEnds, TypeOK
  <2>3. (\E p \in Packages : Publish(p)) \/ UNCHANGED vars => main' = main
    BY DEF Publish, vars
  <2>4. QED
    BY <2>1, <2>2, <2>3 DEF Next
<1>5. QED
  BY <1>0, <1>1, <1>2, <1>3, <1>4

(* A credential a change adds reaches main only if a later commit of the   *)
(* change removed it and more commits than are searched came after it, as  *)
(* long as gitleaks does not come back with nothing and git has the log.   *)
THEOREM LeaksCaught ==
    ASSUME "silent" \notin Outcomes("gitleaks"), "no_log" \notin Outcomes("git")
    PROVE  Spec => []LeakNotMerged
<1>1. Init => AuditHolds /\ MergedStands
  BY DEF Init, AuditHolds, MergedStands
<1>2. TypeOK /\ AuditHolds /\ [Next]_vars => AuditHolds'
  BY AuditStep
<1>3. TypeOK /\ AuditHolds /\ MergedStands => LeakNotMerged
  BY DEF TypeOK, Contents, AuditHolds, MergedStands, NoneFound, LeakNotMerged
<1>4. QED
  BY <1>1, <1>2, <1>3, MergedStep, TypeCorrect, PTL DEF Spec

-----------------------------------------------------------------------------
(* What the audit of dependencies lets pass: both engines reported, and    *)
(* none of the severities is one that blocks.                              *)
LEMMA DepsClean ==
    ASSUME NEW pip, NEW pnpm \in {"report", "absent", "silent"}, NEW py, NEW node,
           DepsExit(pip, pnpm, py, node) = 0
    PROVE  /\ \A s \in py : NormalizeSeverity(PipLabel(s)) \notin BlockSeverities
           /\ \A s \in node : NormalizeSeverity(s) \notin BlockSeverities
<1>1. ~PipFailed(pip) /\ ~PnpmFailed(pnpm)
  BY DEF DepsExit
<1>2. (PipFindings(pip, py) \cup PnpmFindings(pnpm, node)) \cap BlockSeverities = {}
  BY <1>1 DEF DepsExit
<1>3. pip = "report" /\ pnpm = "report"
  BY <1>1 DEF PipFailed, PnpmFailed
<1>4. /\ PipFindings(pip, py) = {NormalizeSeverity(PipLabel(s)) : s \in py}
      /\ PnpmFindings(pnpm, node) = {NormalizeSeverity(s) : s \in node}
  BY <1>3 DEF PipFindings, PnpmFindings
<1>5. QED
  BY <1>2, <1>4

(* The labels that block, read as the severities they are normalised to.   *)
LEMMA BlockingLabels ==
    ASSUME NEW p, Blocking(p)
    PROVE  /\ p \in Python => NormalizeSeverity(PipLabel(Label[p])) \in BlockSeverities
           /\ p \notin Python => NormalizeSeverity(Label[p]) \in BlockSeverities
<1>1. CASE Label[p] \in {"crit", "critical"}
  BY <1>1 DEF NormalizeSeverity, PipLabel, BlockSeverities
<1>2. CASE Label[p] \in {"high", "error"}
  BY <1>2 DEF NormalizeSeverity, PipLabel, BlockSeverities
<1>3. CASE p \in Python /\ Label[p] = "none"
  BY <1>3 DEF NormalizeSeverity, PipLabel, BlockSeverities
<1>4. QED
  BY <1>1, <1>2, <1>3 DEF Blocking

(* An audit passes only without a blocking advisory and without copyleft   *)
(* in Python's runtime, as long as pnpm's failures are such that it says   *)
(* nothing, and the runtime can be exported.                               *)
THEOREM DependenciesVetted ==
    ASSUME Outcomes("pnpm") \subseteq {"report", "absent", "silent"},
           Outcomes("uv-export") = {"report"}
    PROVE  Spec => VettedDependencies
<1> DEFINE Vetted(c) ==
               \A p \in PackagesOf(Tree(c)) :
                  /\ p \in advisories => ~Blocking(p)
                  /\ p \in Python => LicenseOf[p] \cap {"GPL", "AGPL", "LGPL"} = {}
<1>1. ASSUME TypeOK, NEW c \in Changes, AuditEnds(c), pr'[c].audit = "green"
      PROVE  Vetted(c)
  <2>1. PICK ok \in BOOLEAN : MayEnd(c, ok) /\ pr' = [pr EXCEPT ![c].audit = Verdict(ok)]
    BY <1>1 DEF AuditEnds
  <2>2. pr'[c].audit = Verdict(ok)
    BY <1>1, <2>1 DEF TypeOK, PullRequest
  <2>3. ok
    BY <1>1, <2>2 DEF Verdict
  <2>4. PICK pip \in Outcomes("pip-audit"), pnpm \in Outcomes("pnpm"),
             pipLicenses \in Outcomes("pip-licenses"),
             gitleaks \in Outcomes("gitleaks"), git \in Outcomes("git"),
             exported \in Outcomes("uv-export"),
             later \in SUBSET (pr[c].seen \ pr[c].base) :
                AuditOk(c, pip, pnpm, pipLicenses, exported, gitleaks, git, later)
    BY <2>1, <2>3 DEF MayEnd
  <2> DEFINE present == PackagesOf(Tree(c))
             listed == present \cap advisories
  <2>5. /\ DepsExit(pip, pnpm, LabelsOf(listed \cap Python), LabelsOf(listed \ Python)) = 0
        /\ LicensesExit(pipLicenses, exported, present \cap Python, LicenseOf) = 0
    BY <2>4 DEF AuditOk
  <2> HIDE DEF present
  <2>6. ASSUME NEW p \in present, p \in advisories PROVE ~Blocking(p)
    <3>1. /\ p \in Python => Label[p] \in LabelsOf(listed \cap Python)
          /\ p \notin Python => Label[p] \in LabelsOf(listed \ Python)
      BY <2>6 DEF LabelsOf
    <3>2. pnpm \in {"report", "absent", "silent"}
      OBVIOUS
    <3>3. /\ p \in Python => NormalizeSeverity(PipLabel(Label[p])) \notin BlockSeverities
          /\ p \notin Python => NormalizeSeverity(Label[p]) \notin BlockSeverities
      <4> HIDE DEF listed
      <4>1. QED
        BY <2>5, <3>1, <3>2, DepsClean
    <3>4. QED
      BY <3>3, BlockingLabels
  <2>7. ASSUME NEW p \in present, p \in Python
        PROVE  LicenseOf[p] \cap {"GPL", "AGPL", "LGPL"} = {}
    <3>1. Classify(LicenseOf[p]) # "copyleft"
      BY <2>5, <2>7 DEF LicensesExit
    <3>2. QED
      BY <3>1 DEF Classify
  <2>8. QED
    BY <2>6, <2>7 DEF present
<1>2. ASSUME TypeOK, [Next]_vars, NEW c \in Changes,
             pr[c].audit # "green", pr'[c].audit = "green"
      PROVE  Vetted(c)
  BY <1>1, <1>2, OnlyAudits DEF Restarted
<1>3. TypeOK /\ [Next]_vars =>
         [\A c \in Changes : pr[c].audit # "green" /\ pr'[c].audit = "green" =>
             Vetted(c)]_vars
  BY <1>2
<1>4. QED
  BY <1>3, TypeCorrect, PTL DEF Spec, VettedDependencies

-----------------------------------------------------------------------------
(* What the two pipelines score in a measurement.                          *)
NaiveResults(m) ==
    [q \in DOMAIN Golden |-> NaiveRetrieve(DenseRanking[m.content][q])]
AdvancedResults(m) ==
    IF m.ran = "degraded" THEN HybridRanking[m.content] ELSE RerankedRanking[m.content]

(* The report of a measurement is the one made of it.                      *)
LEMMA ReportRight ==
    ASSUME NEW m \in Measurements
    PROVE  /\ NaiveMetrics(m) = Aggregates(NaiveResults(m))
           /\ AdvancedMetrics(m) = Aggregates(AdvancedResults(m))
<1> DEFINE R(n) == [of |-> n, naive |-> Aggregates(NaiveResults(n)),
                    advanced |-> Aggregates(AdvancedResults(n))]
<1>1. Reports = {R(n) : n \in Measurements}
  BY DEF Reports, NaiveResults, AdvancedResults
<1>2. \A n \in Measurements : R(n).of = n
  OBVIOUS
<1>3. R(m) \in Reports /\ \A r \in Reports : r.of = m => r = R(m)
  <2> HIDE DEF R
  <2>1. QED
    BY <1>1, <1>2
<1>4. ReportOf(m) = R(m)
  <2> HIDE DEF R
  <2>1. QED
    BY <1>2, <1>3 DEF ReportOf
<1>5. QED
  BY <1>4 DEF NaiveMetrics, AdvancedMetrics

(* Without the reranker the order of the hybrid search does not have the   *)
(* lift over the dense-only one (eval-gate.yml:112, "degrades to ~naive"). *)
HybridLacksLift ==
    \A content \in Contents :
        LET m == [content |-> content, ran |-> "degraded"]
        IN  LiftFailures(NaiveMetrics(m), AdvancedMetrics(m)) # {}

(* No pull request is green on a run whose reranker did nothing, whatever  *)
(* the baseline it was compared with.                                      *)
THEOREM DeadRerankersCaught ==
    ASSUME HybridLacksLift PROVE Spec => []DeadRerankerCaught
<1>1. TypeOK /\ EvalHolds => DeadRerankerCaught
  <2> SUFFICES ASSUME TypeOK, EvalHolds, NEW c \in Changes, pr[c].eval = "green"
               PROVE  RerankerAlive([content |-> Tree(c), ran |-> pr[c].ran])
    BY DEF DeadRerankerCaught
  <2> DEFINE m == [content |-> Tree(c), ran |-> pr[c].ran]
             dead == [content |-> Tree(c), ran |-> "degraded"]
  <2>1. m.ran \in Runs /\ GateOk(pr[c].against, m)
    BY DEF EvalHolds
  <2>2. Tree(c) \in Contents
    BY DEF TypeOK, PullRequest, Contents, Tree
  <2>3. m \in Measurements /\ dead \in Measurements
    BY <2>1, <2>2 DEF Measurements, Runs
  <2>4. LiftFailures(NaiveMetrics(m), AdvancedMetrics(m)) = {}
    BY <2>1 DEF GateOk
  <2>5. LiftFailures(NaiveMetrics(dead), AdvancedMetrics(dead)) # {}
    BY <2>2 DEF HybridLacksLift
  <2>6. NaiveMetrics(m) = NaiveMetrics(dead)
    BY <2>3, ReportRight DEF NaiveResults
  <2>7. AdvancedMetrics(m) # AdvancedMetrics(dead)
    BY <2>4, <2>5, <2>6
  <2>8. AdvancedResults(m) # AdvancedResults(dead)
    BY <2>3, <2>7, ReportRight
  <2>9. QED
    BY <2>1, <2>8 DEF AdvancedResults, RerankerAlive, Runs
<1>2. QED
  BY <1>1, MeasuredCorrect, PTL

-----------------------------------------------------------------------------
(* The arithmetic of the scores.                                           *)
LEMMA Quotients ==
    /\ \A a, b \in Nat : a * b \in Nat
    /\ \A a \in Nat, b \in Nat \ {0} : a \div b \in Nat
  OBVIOUS

(* Numbers there are any of have a least one, which Min is.                *)
LEMMA LeastNat ==
    ASSUME NEW T \in SUBSET Nat, T # {}
    PROVE  \E n \in T : \A m \in T : n <= m
<1>1. PICK n \in T : \A m \in T : ~(<<m, n>> \in OpToRel(<, Nat))
  BY NatLessThanWellFounded, WFMin
<1>2. \A m \in T : <<m, n>> \in OpToRel(<, Nat) <=> m < n
  BY DEF OpToRel
<1>3. \A m \in T : m \in Nat /\ n \in Nat /\ ~(m < n)
  BY <1>1, <1>2
<1>4. \A m \in T : n <= m
  BY <1>3
<1>5. QED
  BY <1>4

(* The ranks of the hits are finitely many places of the list.             *)
LEMMA HitsRight ==
    ASSUME NEW S, NEW got \in Seq(S), NEW e, NEW k
    PROVE  /\ HitRanks(got, e, k) \in SUBSET (Nat \ {0})
           /\ \A i \in HitRanks(got, e, k) : i <= k
           /\ IsFiniteSet(HitRanks(got, e, k))
           /\ Cardinality(HitRanks(got, e, k)) \in Nat
<1>1. DOMAIN got = 1..Len(got) /\ Len(got) \in Nat
  OBVIOUS
<1>2. HitRanks(got, e, k) \in SUBSET (1..Len(got))
  BY <1>1 DEF HitRanks
<1>3. IsFiniteSet(1..Len(got))
  BY <1>1, FS_Interval
<1>4. IsFiniteSet(HitRanks(got, e, k))
  BY <1>2, <1>3, FS_Subset
<1>5. \A i \in HitRanks(got, e, k) : i <= k
  BY DEF HitRanks
<1>6. QED
  BY <1>1, <1>2, <1>4, <1>5, FS_CardinalityType

(* Of what is wanted there is a finite number, and not none unless it is   *)
(* nothing.                                                                *)
LEMMA WantedRight ==
    ASSUME NEW e, IsFiniteSet(e), e # {}
    PROVE  Cardinality(e) \in Nat \ {0}
  BY FS_CardinalityType, FS_EmptySet

(* success_at_k is 1.0 or 0.                                               *)
LEMMA SuccessNat ==
    ASSUME NEW got, NEW e, NEW k PROVE SuccessAt(got, e, k) \in Nat
  BY EvalAssumption DEF SuccessAt

(* precision_at_k divides by k, which is never 0.                          *)
LEMMA PrecisionNat ==
    ASSUME NEW S, NEW got \in Seq(S), NEW e, NEW k \in Nat \ {0}
    PROVE  PrecisionAt(got, e, k) \in Nat
<1>1. Unit \in Nat
  BY EvalAssumption
<1>2. Unit * Cardinality(HitRanks(got, e, k)) \in Nat
  BY <1>1, HitsRight, Quotients
<1>3. QED
  BY <1>2, Quotients DEF PrecisionAt

(* recall_at_k divides by the number of titles wanted, if any are.         *)
LEMMA RecallNat ==
    ASSUME NEW S, NEW got \in Seq(S), NEW e, IsFiniteSet(e), NEW k \in Nat \ {0}
    PROVE  RecallAt(got, e, k) \in Nat
<1>1. Unit \in Nat
  BY EvalAssumption
<1>2. Unit * Cardinality(HitRanks(got, e, k)) \in Nat
  BY <1>1, HitsRight, Quotients
<1>3. QED
  BY <1>2, WantedRight, Quotients DEF RecallAt

(* mrr divides by the rank of the first hit, if there is one.              *)
LEMMA MrrNat ==
    ASSUME NEW S, NEW got \in Seq(S), NEW e PROVE Mrr(got, e) \in Nat
<1> DEFINE ranks == HitRanks(got, e, Len(got))
<1>1. ranks \in SUBSET (Nat \ {0})
  BY HitsRight
<1>2. Unit \in Nat
  BY EvalAssumption
<1>3. ranks # {} => Min(ranks) \in Nat \ {0}
  <2> HIDE DEF ranks
  <2> HAVE ranks # {}
  <2>1. \E n \in ranks : \A m \in ranks : n <= m
    BY <1>1, LeastNat
  <2>2. Min(ranks) \in ranks
    BY <2>1 DEF Min
  <2>3. QED
    BY <1>1, <2>2
<1>4. QED
  BY <1>2, <1>3, Quotients DEF Mrr

(* ndcg_at_k divides by the gain of the ideal ranking, which is positive   *)
(* as soon as a title is wanted.                                           *)
LEMMA NdcgNat ==
    ASSUME NEW S, NEW got \in Seq(S), NEW e, IsFiniteSet(e), NEW k \in 1..FinalK
    PROVE  NdcgAt(got, e, k) \in Nat
<1> DEFINE hits == HitRanks(got, e, k)
           ideal == {i \in 1..k : i <= Cardinality(e)}
           Gain(ranks) == Total([i \in ranks |-> Discount[i]])
<1>1. Unit \in Nat /\ Discount \in [1..FinalK -> Nat \ {0}]
  BY EvalAssumption
<1>2. hits \subseteq 1..FinalK /\ IsFiniteSet(hits)
  BY HitsRight DEF FinalK
<1>3. ideal \subseteq 1..FinalK /\ IsFiniteSet(ideal)
  <2>1. IsFiniteSet(1..k)
    BY FS_Interval DEF FinalK
  <2>2. ideal \in SUBSET (1..k) /\ 1..k \subseteq 1..FinalK
    BY DEF FinalK
  <2>3. QED
    BY <2>1, <2>2, FS_Subset
<1>4. ASSUME NEW ranks, ranks \subseteq 1..FinalK, IsFiniteSet(ranks)
      PROVE  Gain(ranks) \in Nat /\ (ranks # {} => Gain(ranks) # 0)
  <2> DEFINE f == [i \in ranks |-> Discount[i]]
             all == UNION {{x} \X (1..f[x]) : x \in DOMAIN f}
  <2>1. DOMAIN f = ranks /\ \A x \in DOMAIN f : f[x] \in Nat /\ f[x] # 0
    BY <1>1, <1>4
  <2> HIDE DEF f
  <2>2. IsFiniteSet(all) /\ Total(f) \in Nat
    BY <1>4, <2>1, TotalNat
  <2>3. ASSUME NEW x \in ranks PROVE <<x, 1>> \in all
    <3>1. 1 \in 1..f[x]
      BY <2>1, <2>3
    <3>2. <<x, 1>> \in {x} \X (1..f[x])
      BY <3>1
    <3>3. QED
      BY <2>1, <2>3, <3>2
  <2>4. ranks # {} => Total(f) # 0
    <3>1. ranks # {} => all # {}
      BY <2>3
    <3> HIDE DEF all
    <3>2. all # {} => Cardinality(all) # 0
      BY <2>2, FS_EmptySet
    <3>3. QED
      BY <3>1, <3>2 DEF Total, all
  <2>5. QED
    BY <2>2, <2>4 DEF f
<1>5. Gain(hits) \in Nat
  <2> HIDE DEF hits, Gain
  <2>1. QED
    BY <1>2, <1>4
<1>6. e # {} => Gain(ideal) \in Nat \ {0}
  <2>1. e # {} => 1 \in ideal
    BY WantedRight DEF FinalK
  <2> HIDE DEF ideal, Gain
  <2>2. QED
    BY <1>3, <1>4, <2>1
<1>7. NdcgAt(got, e, k) = IF e = {} THEN 0 ELSE (Unit * Gain(hits)) \div Gain(ideal)
  BY DEF NdcgAt
<1>8. QED
  <2> HIDE DEF Gain, hits, ideal
  <2>1. QED
    BY <1>1, <1>5, <1>6, <1>7, Quotients

(* The mean over the queries that are not adversarial, if there are any.   *)
LEMMA MeanNat ==
    ASSUME Scored # {}, NEW score, DOMAIN score = Scored,
           \A q \in Scored : score[q] \in Nat
    PROVE  Mean(score) \in Nat
<1>1. IsFiniteSet(Scored)
  <2>1. Scored \in SUBSET DOMAIN Golden
    BY DEF Scored
  <2>2. QED
    BY <2>1, EvalAssumption, FS_Subset
<1>2. Total(score) \in Nat
  BY <1>1, TotalNat
<1>3. Cardinality(Scored) \in Nat \ {0}
  BY <1>1, WantedRight
<1>4. QED
  BY <1>2, <1>3, Quotients DEF Mean

(* So the gated metrics of a run are natural numbers.                      *)
LEMMA AggregatesRight ==
    ASSUME Scored # {}, NEW results,
           \A q \in Scored : \E S : results[q] \in Seq(S)
    PROVE  \A name \in GatedMetrics :
              /\ name \in DOMAIN Aggregates(results)
              /\ Aggregates(results)[name] \in Nat
<1> DEFINE Wanted(q) == Golden[q].expected
<1>1. ASSUME NEW q \in Scored
      PROVE  /\ IsFiniteSet(Wanted(q))
             /\ \A k \in {1, 3} :
                   /\ SuccessAt(results[q], Wanted(q), k) \in Nat
                   /\ PrecisionAt(results[q], Wanted(q), k) \in Nat
                   /\ RecallAt(results[q], Wanted(q), k) \in Nat
                   /\ NdcgAt(results[q], Wanted(q), k) \in Nat
             /\ Mrr(results[q], Wanted(q)) \in Nat
  <2>1. IsFiniteSet(Wanted(q))
    BY EvalAssumption DEF Scored
  <2>2. PICK S : results[q] \in Seq(S)
    OBVIOUS
  <2>3. ASSUME NEW k \in {1, 3}
        PROVE  /\ SuccessAt(results[q], Wanted(q), k) \in Nat
               /\ PrecisionAt(results[q], Wanted(q), k) \in Nat
               /\ RecallAt(results[q], Wanted(q), k) \in Nat
               /\ NdcgAt(results[q], Wanted(q), k) \in Nat
    <3>1. k \in Nat \ {0} /\ k \in 1..FinalK
      BY <2>3 DEF FinalK
    <3> HIDE DEF Wanted
    <3>2. QED
      BY <2>1, <2>2, <3>1, SuccessNat, PrecisionNat, RecallNat, NdcgNat
  <2>4. Mrr(results[q], Wanted(q)) \in Nat
    BY <2>2, MrrNat
  <2>5. QED
    BY <2>1, <2>3, <2>4
<1> DEFINE Success(k) == Mean([q \in Scored |-> SuccessAt(results[q], Wanted(q), k)])
           Precision(k) == Mean([q \in Scored |-> PrecisionAt(results[q], Wanted(q), k)])
           Recall(k) == Mean([q \in Scored |-> RecallAt(results[q], Wanted(q), k)])
           Ndcg(k) == Mean([q \in Scored |-> NdcgAt(results[q], Wanted(q), k)])
           First == Mean([q \in Scored |-> Mrr(results[q], Wanted(q))])
<1>2. \A k \in {1, 3} : /\ Success(k) \in Nat /\ Precision(k) \in Nat
                        /\ Recall(k) \in Nat /\ Ndcg(k) \in Nat
  <2> HIDE DEF Wanted
  <2> TAKE k \in {1, 3}
  <2>1. Success(k) \in Nat
    BY <1>1, MeanNat
  <2>2. Precision(k) \in Nat
    BY <1>1, MeanNat
  <2>3. Recall(k) \in Nat
    BY <1>1, MeanNat
  <2>4. Ndcg(k) \in Nat
    BY <1>1, MeanNat
  <2>5. QED
    BY <2>1, <2>2, <2>3, <2>4
<1>3. First \in Nat
  <2> HIDE DEF Wanted
  <2>1. QED
    BY <1>1, MeanNat
<1>4. Aggregates(results) =
         [success_1 |-> Success(1), success_3 |-> Success(3),
          precision_1 |-> Precision(1), precision_3 |-> Precision(3),
          recall_1 |-> Recall(1), recall_3 |-> Recall(3),
          ndcg_1 |-> Ndcg(1), ndcg_3 |-> Ndcg(3), mrr |-> First,
          distinct_ratio |-> Mean([q \in Scored |-> DistinctRatio(results[q])])]
  BY DEF Aggregates
<1>5. QED
  <2> HIDE DEF Success, Precision, Recall, Ndcg, First
  <2>1. QED
    BY <1>2, <1>3, <1>4 DEF GatedMetrics

(* Both pipelines return lists.                                            *)
LEMMA ResultsRight ==
    ASSUME NEW m \in Measurements, NEW q \in DOMAIN Golden
    PROVE  /\ \E S : NaiveResults(m)[q] \in Seq(S)
           /\ \E S : AdvancedResults(m)[q] \in Seq(S)
<1>0. m.content \in Contents
  BY DEF Measurements
<1>1. /\ DenseRanking[m.content][q] \in Seq(Titles)
      /\ HybridRanking[m.content][q] \in Seq(Titles)
      /\ RerankedRanking[m.content][q] \in Seq(Titles)
  BY <1>0, ReleaseAssumption
<1>2. \E S : NaiveResults(m)[q] \in Seq(S)
  <2> DEFINE matches == DenseRanking[m.content][q]
             firsts == {i \in DOMAIN matches :
                           \A j \in 1..(i - 1) : matches[j] # matches[i]}
             Nth(n) == CHOOSE i \in firsts : Cardinality({j \in firsts : j < i}) = n - 1
             places == {k \in 1..FinalK : k <= Cardinality(firsts)}
             kept == [n \in places |-> matches[Nth(n)]]
             S == {matches[Nth(n)] : n \in places}
  <2>1. NaiveResults(m)[q] = kept
    BY DEF NaiveResults, NaiveRetrieve
  <2>2. Cardinality(firsts) \in Nat
    <3>1. IsFiniteSet(DOMAIN matches)
      BY <1>1, FS_Interval
    <3>2. firsts \in SUBSET DOMAIN matches
      OBVIOUS
    <3> HIDE DEF firsts, matches
    <3>3. QED
      BY <3>1, <3>2, FS_Subset, FS_CardinalityType
  <2>3. \E n \in Nat : places = 1..n
    <3> HIDE DEF firsts
    <3>1. Cardinality(firsts) <= FinalK => places = 1..Cardinality(firsts)
      BY <2>2 DEF FinalK
    <3>2. Cardinality(firsts) > FinalK => places = 1..FinalK
      BY <2>2 DEF FinalK
    <3>3. QED
      BY <2>2, <3>1, <3>2 DEF FinalK
  <2>4. kept \in Seq(S)
    <3> HIDE DEF places, Nth, matches
    <3>1. QED
      BY <2>3
  <2>5. QED
    BY <2>1, <2>4
<1>3. \E S : AdvancedResults(m)[q] \in Seq(S)
  BY <1>1 DEF AdvancedResults
<1>4. QED
  BY <1>2, <1>3

(* Both halves of a report have every gated metric, and as a number.       *)
LEMMA MetricsNat ==
    ASSUME Scored # {}, NEW m \in Measurements, NEW name \in GatedMetrics
    PROVE  /\ name \in DOMAIN NaiveMetrics(m) /\ NaiveMetrics(m)[name] \in Nat
           /\ name \in DOMAIN AdvancedMetrics(m) /\ AdvancedMetrics(m)[name] \in Nat
<1>1. Scored \subseteq DOMAIN Golden
  BY DEF Scored
<1>2. /\ \A q \in Scored : \E S : NaiveResults(m)[q] \in Seq(S)
      /\ \A q \in Scored : \E S : AdvancedResults(m)[q] \in Seq(S)
  BY <1>1, ResultsRight
<1>3. /\ name \in DOMAIN Aggregates(NaiveResults(m))
      /\ Aggregates(NaiveResults(m))[name] \in Nat
  BY <1>2, AggregatesRight
<1>4. /\ name \in DOMAIN Aggregates(AdvancedResults(m))
      /\ Aggregates(AdvancedResults(m))[name] \in Nat
  BY <1>2, AggregatesRight
<1>5. QED
  BY <1>3, <1>4, ReportRight

(* Both of compare's tolerances must be exceeded for a regression.         *)
LEMMA NotRegressed ==
    ASSUME NEW name \in GatedMetrics, NEW b \in Nat, NEW c \in Nat,
           ~Regression(name, b, c)
    PROVE  Within(b, c)
<1>1. Floor \in Nat /\ Threshold \in Nat
  BY ReleaseAssumption
<1>2. CASE c >= b - Floor
  BY <1>2 DEF Within
<1>3. CASE b = 0
  BY <1>1, <1>3 DEF Within
<1>4. CASE ~(c >= b - Floor) /\ ~(b = 0)
  <2>1. c - b < -Floor
    BY <1>1, <1>4
  <2>2. ~(100 * (c - b) < -Threshold * b)
    BY <1>4, <2>1 DEF Regression
  <2>3. 100 * c >= (100 - Threshold) * b
    BY <1>1, <2>2
  <2>4. QED
    BY <2>3 DEF Within
<1>5. QED
  BY <1>2, <1>3, <1>4

(* What the gate lets pass has the lift and has kept to its baseline.      *)
LEMMA GateMeans ==
    ASSUME Scored # {}, NEW baseline \in Measurements, NEW m \in Measurements,
           GateOk(baseline, m)
    PROVE  Beats(m) /\ Kept(baseline, m)
<1>1. /\ Regressions(AdvancedMetrics(baseline), AdvancedMetrics(m)) = {}
      /\ LiftFailures(NaiveMetrics(m), AdvancedMetrics(m)) = {}
  BY DEF GateOk
<1>2. Beats(m)
  <2> SUFFICES ASSUME NEW name \in LiftMetrics
               PROVE  AdvancedMetrics(m)[name] >= NaiveMetrics(m)[name] + MinLift
    BY DEF Beats
  <2>1. name \in GatedMetrics
    BY DEF LiftMetrics, GatedMetrics
  <2>2. name \notin LiftFailures(NaiveMetrics(m), AdvancedMetrics(m))
    BY <1>1
  <2>3. ~(AdvancedMetrics(m)[name] - NaiveMetrics(m)[name] < MinLift)
    BY <2>1, <2>2, MetricsNat DEF LiftFailures
  <2>4. MinLift \in Nat
    BY ReleaseAssumption
  <2>5. AdvancedMetrics(m)[name] \in Nat /\ NaiveMetrics(m)[name] \in Nat
    BY <2>1, MetricsNat
  <2>6. QED
    BY <2>3, <2>4, <2>5
<1>3. Kept(baseline, m)
  <2> SUFFICES ASSUME NEW name \in GatedMetrics
               PROVE  Within(AdvancedMetrics(baseline)[name], AdvancedMetrics(m)[name])
    BY DEF Kept
  <2>1. name \notin Regressions(AdvancedMetrics(baseline), AdvancedMetrics(m))
    BY <1>1
  <2>2. ~Regression(name, AdvancedMetrics(baseline)[name], AdvancedMetrics(m)[name])
    BY <2>1, MetricsNat DEF Regressions
  <2>3. QED
    BY <2>2, MetricsNat, NotRegressed
<1>4. QED
  BY <1>2, <1>3

(* A green main was measured as it stands; there it has the lift over      *)
(* dense-only retrieval and no gated metric has fallen behind its baseline *)
(* by more than the tolerances.                                            *)
THEOREM GreenHolds ==
    ASSUME Scored # {} PROVE Spec => []GreenMainHolds
<1>1. TypeOK /\ MainStands => GreenMainHolds
  <2> SUFFICES ASSUME TypeOK, MainStands, main.eval = "green"
               PROVE  LET m == [content |-> main.content, ran |-> main.ran]
                      IN  Beats(m) /\ Kept(main.baseline, m)
    BY DEF GreenMainHolds
  <2> DEFINE m == [content |-> main.content, ran |-> main.ran]
  <2>1. main.baseline \in Measurements /\ main.content \in Contents
    BY DEF TypeOK
  <2>2. main.ran \in Runs /\ GateOk(main.baseline, m)
    BY DEF MainStands
  <2>3. m \in Measurements
    BY <2>1, <2>2 DEF Measurements
  <2>4. QED
    BY <2>1, <2>2, <2>3, GateMeans
<1>2. QED
  BY <1>1, MeasuredCorrect, PTL
=============================================================================
