------------------------------ MODULE Inspect ------------------------------
(***************************************************************************)
(* scripts/inspect_stack_*.py: one client among the users warms the API    *)
(* up, clears the cached answers, reads every counter, sends its probes,   *)
(* waits for the telemetry to come through, reads the counters again and   *)
(* judges section after section.                                           *)
(***************************************************************************)
EXTENDS Telemetry

CONSTANTS
    Inspector,   \* its client
    Probes,      \* the battery: [label, query, want], in order
    WarmUp,      \* the query asked first and discarded
    Sections,    \* in the order they are judged
    ScrapeWait,  \* SCRAPE_WAIT_S
    TopShare,    \* 100: the p99 tells one observation from fewer than these
    Slow         \* bound: the users whose requests take time

(* The battery asks one query twice and one the venue is there for         *)
(* (_inspect_sections.py:55-71; the probes that want a grounded answer,    *)
(* not those another check judges); the wait exceeds all three lags.       *)
ASSUME InspectAssumption ==
    /\ Clients = Users \cup {Inspector} /\ Inspector \notin Users
    /\ WarmUp \in Queries
    /\ Probes \in Seq([label : STRING, query : Queries, want : {"grounded"}])
    /\ {"grounded", "repeat"} \subseteq {p.label : p \in Range(Probes)}
    /\ \A p, q \in Range(Probes) :
          {p.label, q.label} \subseteq {"grounded", "repeat"} => p.query = q.query
    /\ \E p \in Range(Probes) : p.query \in ClearClass
    /\ Sections \in Seq({"cache", "retrieval", "router", "serving", "answers"})
    /\ Range(Sections) = {"cache", "retrieval", "router", "serving", "answers"}
    /\ IsInjective(Sections)
    /\ Slow \subseteq Users
    /\ {ScrapeWait, TopShare} \subseteq Nat /\ ScrapeWait > Lag

VARIABLES
    step,     \* of main and run_probes
    results,  \* the answers to the probes so far, in their order
    before, after,   \* the snapshots around them
    left,     \* of the wait for the scrape
    report,   \* section -> the marks of its checks
    made,     \* history: <<query, list>> stored since its answer was cleared
    venueSeen \* history: has the venue ever served a request

history == <<made, venueSeen>>
inspection == <<results, before, after, report>>
vars == <<telemetryVars, step, left, inspection, history>>

TypeOK ==
    /\ TelemetryTypeOK
    /\ step \in {"off", "warming", "rewarming", "cleared", "ready", "asking",
                 "reasking", "waiting", "judging"}
    /\ results \in Seq(Requests) /\ Len(results) <= Len(Probes)
    /\ before \in Snapshots /\ after \in Snapshots
    /\ left \in 0..ScrapeWait
    /\ DOMAIN report \subseteq Range(Sections)
    /\ \A s \in DOMAIN report : Range(report[s]) \subseteq {"ok", "fail", "info"}
    /\ made \subseteq Queries \X Lists /\ venueSeen \in BOOLEAN

Init ==
    /\ TelemetryInit
    /\ step = "off" /\ results = << >>
    /\ before = NoSeries /\ after = NoSeries
    /\ left = 0 /\ report = << >>
    /\ made = {} /\ venueSeen = FALSE

-----------------------------------------------------------------------------
(* An increment of the instant something of the pipeline is due is one of  *)
(* the instant before or after, so requests move when nothing is.  The     *)
(* inspector reads at any time.                                            *)

(* Auth: a token is minted when the last one is old; minting may fail.     *)
TokenHad == BOOLEAN
RefusedUnless(authorized, kind) == IF authorized THEN {} ELSE {kind}

(* ask: the first of at most two requests.                                 *)
Ask(query, from, to) ==
    /\ step = from /\ step' = to /\ Settled
    /\ \E authorized \in TokenHad :
          Arrive(Inspector, query, authorized, RefusedUnless(authorized, "retry"))
    /\ UNCHANGED <<left, inspection, history>>

Mine == request[Inspector]

(* On a 401 a new token is minted and the question sent once more.         *)
Reask(query, from, to) ==
    /\ step = from /\ step' = to /\ Settled
    /\ Mine.code = 401
    /\ \E authorized \in TokenHad :
          Arrive(Inspector, query, authorized, RefusedUnless(authorized, "rejected"))
    /\ UNCHANGED <<left, inspection, history>>

(* Its answer is there.                                                    *)
Heard(first, again) ==
    /\ step \in {first, again} /\ Mine.phase = "over"
    /\ step = first => Mine.code # 401

Asked == Probes[Len(results) + 1].query

Warm == Ask(WarmUp, "off", "warming") \/ Reask(WarmUp, "warming", "rewarming")
Probe == Ask(Asked, "ready", "asking") \/ Reask(Asked, "asking", "reasking")

\* Mutant of Emptied: the stored answers stay.
NothingEmptied(kept) == cached

Emptied(kept) == [q \in Queries |-> IF q \in kept THEN cached[q] ELSE "none"]

(* cache_ctl --clear: the stored answers, and nothing else, are dropped.   *)
(* Where it does not get through to Redis they are kept, some or all, and  *)
(* the inspection goes on, as it does with --keep-cache.                   *)
ClearAnswers ==
    /\ Heard("warming", "rewarming")
    /\ step' = "cleared"
    /\ \E kept \in SUBSET {q \in Queries : cached[q] # "none"} :
          /\ cached' = Emptied(kept)
          /\ made' = {stored \in made : stored[1] \in kept}
          /\ Disturbed(SetbackIf(kept # {}))
    /\ UNCHANGED <<count, request, accepted, pipeline, age,
                   left, inspection, venueSeen>>

SnapshotBefore ==
    /\ step = "cleared" /\ step' = "ready"
    /\ before' = Latest
    /\ UNCHANGED <<telemetryVars, left, results, after, report, history>>

\* Mutant of SettlingTime: no margin over the two intervals.
TwoIntervals == ExportEvery + ScrapeEvery

(* wait_for_scrape sleeps SCRAPE_WAIT_S.                                   *)
SettlingTime == ScrapeWait

Answered ==
    /\ Heard("asking", "reasking")
    /\ results' = Append(results, Mine)
    /\ IF Len(results') = Len(Probes)
       THEN step' = "waiting" /\ left' = SettlingTime
       ELSE step' = "ready" /\ UNCHANGED left
    /\ UNCHANGED <<telemetryVars, before, after, report, history>>

SnapshotAfter ==
    /\ step = "waiting" /\ left = 0
    /\ step' = "judging"
    /\ after' = Latest
    /\ UNCHANGED <<telemetryVars, left, results, before, report, history>>

-----------------------------------------------------------------------------
(* The checks of a section, by what they read when it is judged.           *)
Mark(ok) == IF ok THEN "ok" ELSE "fail"
Live(series) == \E s \in series : Latest[s] > 0
Moved(series) == \E s \in series : after[s] # before[s]

Lookups == {"cache_hit", "cache_miss"}
Reranks == {"rerank_ok", "rerank_timeout"}
Decisions == {"venue_served", "venue_fallback", "hosted"}
Labelled(label) ==
    results[CHOOSE i \in DOMAIN Probes : Probes[i].label = label]

(* Answer.kind                                                             *)
Kind(a) ==
    IF a.code # 200 THEN "http"
    ELSE IF a.list = "refusal" THEN "refused"
    ELSE IF a.list = "popular" THEN "degraded"
    ELSE IF a.list \in Lists THEN "grounded" ELSE "no_answer"

CacheChecks ==
    [events |-> Mark(Moved(Lookups)),
     repeat |-> Mark(/\ Labelled("grounded").list \notin {"none", "refusal"}
                     /\ Labelled("grounded").list = Labelled("repeat").list)]

(* A stage that never ran fails, one that did fails by its recent outcomes. *)
(* The p99 of the confidences reaches the threshold, one of the histogram's *)
(* bounds, once more than one in a hundred has.                             *)
RetrievalChecks ==
    [stage |-> Mark(Live(Reranks)),
     recent |-> Mark(Live(Reranks) /\ Increase("rerank_timeout") = 0),
     score |-> IF Live({"confidence"})
               THEN Mark(TopShare * Latest["confident"] > Latest["confidence"])
               ELSE IF Live({"rerank_timeout"}) THEN "fail" ELSE "info"]

\* Mutant of RouterChecks: a decision that names the venue is one it served.
RouterChecksByName ==
    [confidence |-> Mark(Live({"confidence"})),
     decisions |-> Mark(Live(Decisions)),
     served |-> Mark(Live({"venue_served", "venue_fallback"})),
     moved |-> Mark(Moved(Decisions))]

RouterChecks ==
    [confidence |-> Mark(Live({"confidence"})),
     decisions |-> Mark(Live(Decisions)),
     served |-> Mark(Live({"venue_served"})),
     moved |-> Mark(Moved(Decisions))]

ServingChecks ==
    [calls |-> Mark(Live(Calls)),
     errors |-> IF Rate(Calls) = 0 THEN "info"
                ELSE Mark(Increase("llm_error") = 0)]

AnswerChecks ==
    [i \in DOMAIN Probes |-> Mark(Kind(results[i]) = Probes[i].want)]

Judged(section) ==
    CASE section = "cache" -> CacheChecks
      [] section = "retrieval" -> RetrievalChecks
      [] section = "router" -> RouterChecks
      [] section = "serving" -> ServingChecks
      [] section = "answers" -> AnswerChecks

(* main calls the sections one after another; each reads Prometheus anew.  *)
Judge ==
    /\ step = "judging" /\ DOMAIN report # Range(Sections)
    /\ LET section == Sections[Cardinality(DOMAIN report) + 1]
       IN  report' = [s \in DOMAIN report \cup {section} |->
                         IF s = section THEN Judged(s) ELSE report[s]]
    /\ UNCHANGED <<telemetryVars, step, left, results, before, after, history>>

(* render's exit code.                                                     *)
Fails == {sc \in UNION {{s} \X DOMAIN report[s] : s \in DOMAIN report} :
             report[sc[1]][sc[2]] = "fail"}

-----------------------------------------------------------------------------
Battery == {p.query : p \in Range(Probes)}

(* A user asks: a query of the battery, or another one.                    *)
Visit(c, q) ==
    /\ Settled
    /\ Arrive(c, q, TRUE, {IF q \in Battery THEN "rival" ELSE "visit"})
    /\ UNCHANGED <<step, left, inspection, history>>

(* What is newly stored for the query of this request.                     *)
Stores(c) ==
    IF request[c].phase \in {"scored", "unscored"} /\ request'[c].list \in Lists
    THEN {<<request[c].query, request'[c].list>>} ELSE {}

Serve(c) ==
    /\ Settled
    /\ ClientStep(c) \/ Raise(c)
    /\ made' = made \cup Stores(c)
    /\ venueSeen' = (venueSeen \/ count'["venue_served"] > count["venue_served"])
    /\ UNCHANGED <<step, left, inspection>>

Replace == Settled /\ Restart /\ UNCHANGED <<step, left, inspection, history>>

Transport == PipelineStep /\ UNCHANGED <<step, left, inspection, history>>

(* Time passes while the API works for the inspector and while it sleeps;  *)
(* its sections take no time to speak of.                                  *)
Tick ==
    /\ Pass
    /\ \/ step \in {"warming", "rewarming", "asking", "reasking"} /\ Mine.phase # "over"
       \/ step = "waiting" /\ left > 0
    /\ \A c \in Users \ Slow : request[c].phase = "over"
    /\ left' = IF left > 0 THEN left - 1 ELSE 0
    /\ UNCHANGED <<step, inspection, history>>

InspectorStep ==
    \/ Warm \/ ClearAnswers \/ SnapshotBefore
    \/ Probe \/ Answered \/ SnapshotAfter \/ Judge

Next ==
    \/ InspectorStep
    \/ \E c \in Users, q \in Queries : Visit(c, q)
    \/ \E c \in Clients : Serve(c)
    \/ Replace \/ Transport \/ Tick

Spec == Init /\ [][Next]_vars

-----------------------------------------------------------------------------
(* A check over a recent window fails only for what is recent, before and  *)
(* after a restart; a past episode does not keep it red.                   *)
AlarmIsRecent ==
    /\ Live(Reranks) /\ RetrievalChecks.recent = "fail" =>
          age[{"rerank_timeout"}] <= Memory
    /\ ServingChecks.errors = "fail" => age[{"llm_error"}] <= Memory

(* _inspect_sections.py:45-48: the window is there to answer "is it        *)
(* failing now", so a timeout that came up within it is red.  Not so for   *)
(* the first of a process: what a series is born with is no rise.          *)
RecentTimeoutIsRed ==
    step = "judging" /\ samples # << >>
    /\ Head(samples)["rerank_timeout"] < Latest["rerank_timeout"] =>
          RetrievalChecks.recent = "fail"

(* An inspection that exits with 0 got for every probe a list that was     *)
(* generated, whoever asked for it, and stored since the old answer to the *)
(* query was cleared, if it was; and there has been a request the venue    *)
(* served: in this process or one before it, not necessarily a probe.      *)
GreenMeansServed ==
    DOMAIN report = Range(Sections) /\ Fails = {} =>
        /\ \A i \in DOMAIN Probes : <<Probes[i].query, results[i].list>> \in made
        /\ venueSeen

(* Every request so far got its list from the model its query is routed    *)
(* to, after one 401 at most, the old answers were all cleared, the API    *)
(* was not replaced, and no user has asked a query of the battery; of      *)
(* others, users may have asked.                                           *)
Smooth ==
    /\ disturbances["setback"] = 0 /\ disturbances["rejected"] = 0
    /\ disturbances["restart"] = 0 /\ disturbances["rival"] = 0

(* No false alarm: then, with fewer than a hundred queries scored, an      *)
(* inspection exits with 0, in whatever phases its steps met the users',   *)
(* the reader, the batch and the scrape: a counter that lags is not a      *)
(* component that did nothing (_inspect_common.py:56-68).  A user who asks *)
(* a query of the battery may overwrite its answer between the two probes  *)
(* that must agree, and the hundredth query hides a single confident one.  *)
SmoothIsGreen ==
    /\ Smooth /\ count["confidence"] < TopShare
    /\ DOMAIN report = Range(Sections)
    => Fails = {}

(* Every request is counted under one status class, once: when its         *)
(* response starts, or when it fails without one.                          *)
CountedOnce ==
    count["http_2xx"] + count["http_4xx"] + count["http_5xx"]
      + Cardinality({c \in Clients :
            request[c].phase \in {"arrived", "scored", "unscored", "ready"}})
      = accepted

(* The canary's success rate passes on nothing but answers given within    *)
(* the query's range and the pipeline's lag: never unmeasured.             *)
CanaryMeasured ==
    CanaryHealthy => age[Answers] <= Memory
=============================================================================
