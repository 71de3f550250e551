----------------------------- MODULE Telemetry -----------------------------
(***************************************************************************)
(* How a request becomes a number somebody reads: the instruments of       *)
(* anime_core.observability.metrics, MetricsMiddleware, the periodic       *)
(* reader of otel.setup_otel, the collector's batch processor and          *)
(* Prometheus.  A series exists from its first increment on; a count of 0  *)
(* is a series that is not there.  A snapshot is one count per series.     *)
(***************************************************************************)
EXTENDS Integers, Sequences, FiniteSets, FiniteSetsExt, SequencesExt

CONSTANTS
    Clients,       \* who sends requests, one at a time each
    Users,         \* the clients that are not being followed
    Queries,       \* normalized queries
    ClearClass,    \* the queries the reranker scores above the threshold
    Lists,         \* recommendations the model may generate
    ExportEvery,   \* METRIC_EXPORT_INTERVAL_MS
    BatchTimeout,  \* the batch processor's timeout
    ScrapeEvery,   \* Prometheus' scrape_interval
    Window,        \* scrapes in the range of a PromQL query
    SuccessRate,   \* the canary's successRateThreshold, in percent
    MaxRequests,   \* bound: requests one process accepts
    Together       \* bound: how many disturbances of each kind may come together

(* What an inspection may meet: a request that gets no list from the model *)
(* its query is routed to, or an answer that is not cleared; a first and a *)
(* second 401; a replaced API; and what else users ask.                    *)
Kinds == {"setback", "retry", "rejected", "restart", "visit", "rival"}
Undisturbed == [k \in Kinds |-> 0]

ASSUME TelemetryAssumption ==
    /\ IsFiniteSet(Clients) /\ Users \subseteq Clients
    /\ ClearClass \subseteq Queries /\ "none" \notin Queries
    /\ Lists \cap {"none", "popular", "refusal"} = {}
    /\ {ExportEvery, ScrapeEvery, Window} \subseteq Nat \ {0}
    /\ {BatchTimeout, SuccessRate, MaxRequests} \subseteq Nat
    /\ Together \subseteq [Kinds -> Nat] /\ Undisturbed \in Together

Answers == {"http_2xx", "http_4xx", "http_5xx"}
Calls == {"llm_ok", "llm_error"}

(* What is cached: all but the popular list an answer degrades to.         *)
Cacheable == Lists \cup {"refusal"}
Given == Cacheable \cup {"popular"}

Series ==
    {"cache_hit", "cache_miss", "rerank_ok", "rerank_timeout", "confidence",
     "confident", "venue_served", "venue_fallback", "hosted"}
    \cup Calls \cup Answers

NoSeries == [s \in Series |-> 0]
Snapshots == [Series -> Nat]

(* The time an increment may take to reach the samples, and the time after *)
(* which it has left every range.                                          *)
Lag == ExportEvery + BatchTimeout + ScrapeEvery
Memory == Window * ScrapeEvery + ExportEvery + BatchTimeout

VARIABLES
    count,      \* the instruments of the API process
    request,    \* client -> its request, and once over the answer it got
    cached,     \* Redis: query -> the answer stored
    exportIn,   \* time to the reader's next collection
    batch,      \* the snapshot the collector holds back, and for how long
    exposed,    \* what the collector's :8889 serves
    scrapeIn,   \* time to the next scrape
    samples,    \* Prometheus: the last Window scrapes, oldest first
    accepted,   \* requests the current process has let in
    disturbances,   \* history: how many there have been of each kind
    age         \* history: time since a group of series last grew

pipeline == <<exportIn, batch, exposed, scrapeIn, samples>>
serving == <<count, request, cached, accepted, disturbances>>
telemetryVars == <<serving, pipeline, age>>

(* The groups of series whose age the properties ask for.                  *)
Dated == {{"rerank_timeout"}, {"llm_error"}, Answers}

Reply(list, code) ==
    [phase |-> "over", query |-> "none", list |-> list, code |-> code]
NoRequest == Reply("none", 0)

Requests ==
    [phase : {"arrived", "scored", "unscored", "ready", "started", "over"},
     query : Queries \cup {"none"},
     list : Given \cup {"none"}, code : {0, 200, 401, 500}]

TelemetryTypeOK ==
    /\ count \in Snapshots
    /\ request \in [Clients -> Requests]
    /\ \A c \in Clients : request[c].phase # "over" => request[c].query # "none"
    /\ cached \in [Queries -> Cacheable \cup {"none"}]
    /\ exportIn \in 0..ExportEvery /\ scrapeIn \in 0..ScrapeEvery
    /\ batch \in [left : -1..BatchTimeout, count : Snapshots]
    /\ exposed \in Snapshots
    /\ samples \in Seq(Snapshots) /\ Len(samples) <= Window
    /\ accepted \in 0..MaxRequests /\ disturbances \in Together
    /\ age \in [Dated -> 0..(Memory + 1)]

TelemetryInit ==
    /\ count = NoSeries
    /\ request = [c \in Clients |-> NoRequest]
    /\ cached = [q \in Queries |-> "none"]
    /\ exportIn \in 1..ExportEvery /\ scrapeIn \in 1..ScrapeEvery
    /\ batch = [left |-> -1, count |-> NoSeries]
    /\ exposed = NoSeries
    /\ samples = << >>
    /\ accepted = 0 /\ disturbances = Undisturbed
    /\ age = [g \in Dated |-> Memory + 1]

-----------------------------------------------------------------------------
(* record_*: the counters and histograms add one to these series.          *)
Record(recorded) ==
    /\ count' = [s \in Series |-> count[s] + IF s \in recorded THEN 1 ELSE 0]
    /\ age' = [g \in Dated |-> IF g \cap recorded # {} THEN 0 ELSE age[g]]

(* One more disturbance of each of these kinds, within the bound.          *)
Disturbed(by) ==
    /\ disturbances' = [k \in Kinds |->
                           disturbances[k] + IF k \in by THEN 1 ELSE 0]
    /\ disturbances' \in Together

SetbackIf(it) == IF it THEN {"setback"} ELSE {}

(* A request reaches MetricsMiddleware; without a valid token              *)
(* get_current_user answers it.                                            *)
Arrive(c, q, authorized, by) ==
    /\ request[c].phase = "over"
    /\ accepted < MaxRequests
    /\ accepted' = accepted + 1
    /\ Disturbed(by)
    /\ request' = [request EXCEPT ![c] =
          [phase |-> IF authorized THEN "arrived" ELSE "ready", query |-> q,
           list |-> "none", code |-> IF authorized THEN 200 ELSE 401]]
    /\ UNCHANGED <<count, cached, pipeline, age>>

(* CachedRecommendationService: the lookup, a hit.                         *)
CacheHit(c) ==
    /\ request[c].phase = "arrived" /\ cached[request[c].query] # "none"
    /\ Record({"cache_hit"})
    /\ request' = [request EXCEPT ![c].phase = "ready",
                                  ![c].list = cached[request[c].query]]
    /\ UNCHANGED <<cached, accepted, disturbances, pipeline>>

(* A miss, and the retrieval: only a rerank that ends in time leaves the   *)
(* confidence the venue is chosen by.                                      *)
CacheMiss(c, inTime) ==
    /\ request[c].phase = "arrived" /\ cached[request[c].query] = "none"
    /\ Record({"cache_miss"} \cup
              IF ~inTime THEN {"rerank_timeout"}
              ELSE IF request[c].query \in ClearClass
                   THEN {"rerank_ok", "confidence", "confident"}
                   ELSE {"rerank_ok", "confidence"})
    /\ request' = [request EXCEPT ![c].phase = IF inTime THEN "scored"
                                               ELSE "unscored"]
    /\ Disturbed(SetbackIf(~inTime))
    /\ UNCHANGED <<cached, accepted, pipeline>>

(* The answer, stored unless it is a degraded one.                         *)
Respond(c, list) ==
    /\ request' = [request EXCEPT ![c].phase = "ready", ![c].list = list]
    /\ cached' = [cached EXCEPT ![request[c].query] =
                     IF list \in Cacheable THEN list ELSE @]

(* A miss answered before there are candidates to score: generation is     *)
(* switched off, the query names a title that is not there, or retrieval   *)
(* fails or finds nothing.                                                 *)
Decline(c, list) ==
    /\ request[c].phase = "arrived" /\ cached[request[c].query] = "none"
    /\ list \notin Lists
    /\ Record({"cache_miss"})
    /\ Respond(c, list)
    /\ Disturbed({"setback"})
    /\ UNCHANGED <<accepted, pipeline>>

Routed(c) == request[c].phase = "scored" /\ request[c].query \in ClearClass
Straight(c) == IF Routed(c) THEN {"venue_served", "llm_ok"} ELSE {"hosted", "llm_ok"}

(* What a generation may record.  Behind a fallback, and in the hosted     *)
(* chain, calls fail, answer with nothing, are cut off by a timeout or not *)
(* made with a breaker open; a query below the floor or over the budget is *)
(* not routed at all.                                                      *)
Generations(c) ==
    {{}} \cup IF Routed(c)
              THEN {Straight(c)} \cup {{"venue_fallback"} \cup calls : calls \in SUBSET Calls}
              ELSE {{"hosted"} \cup calls : calls \in SUBSET Calls}

(* And what becomes of it: without an answer of a model, or with none of   *)
(* its titles among the candidates, the popular list; a refusal is the     *)
(* model's, or the floor's for a score too low.                            *)
Outcomes(c, recorded) ==
    CASE "llm_ok" \in recorded -> Given
      [] recorded = {} /\ request[c].phase = "scored" /\ ~Routed(c) -> {"popular", "refusal"}
      [] OTHER -> {"popular"}

Generate(c, recorded, list) ==
    /\ request[c].phase \in {"scored", "unscored"}
    /\ recorded \in Generations(c) /\ list \in Outcomes(c, recorded)
    /\ Record(recorded)
    /\ Respond(c, list)
    /\ Disturbed(SetbackIf(recorded # Straight(c) \/ list \notin Lists))
    /\ UNCHANGED <<accepted, pipeline>>

(* These clients' requests are over; what the users got is not followed.   *)
Ended(clients, list, code) ==
    [c \in Clients |->
        IF c \in clients \cap Users THEN NoRequest
        ELSE IF c \in clients THEN Reply(list, code)
        ELSE request[c]]

StatusClass(code) ==
    CASE code = 200 -> "http_2xx" [] code = 401 -> "http_4xx" [] OTHER -> "http_5xx"

(* send_wrapper: http.response.start is counted under its status.          *)
ResponseStart(c) ==
    /\ request[c].phase = "ready"
    /\ Record({StatusClass(request[c].code)})
    /\ request' = [request EXCEPT ![c].phase = "started"]
    /\ UNCHANGED <<cached, accepted, disturbances, pipeline>>

\* Mutant of Raise: an exception is counted whether or not a response was.
RaiseAgain(c) ==
    /\ request[c].phase # "over"
    /\ Record({StatusClass(500)})
    /\ request' = Ended({c}, "none", 500)
    /\ Disturbed({"setback"})
    /\ UNCHANGED <<cached, accepted, pipeline>>

(* The application raises: counted as a 500 unless a response has started, *)
(* in which case it has been counted already.                              *)
Raise(c) ==
    /\ request[c].phase # "over"
    /\ IF request[c].phase = "started" THEN UNCHANGED <<count, age>>
                                       ELSE Record({StatusClass(500)})
    /\ request' = Ended({c}, "none", 500)
    /\ Disturbed({"setback"})
    /\ UNCHANGED <<cached, accepted, pipeline>>

(* The body is complete.                                                   *)
Complete(c) ==
    /\ request[c].phase = "started"
    /\ request' = Ended({c}, request[c].list, request[c].code)
    /\ UNCHANGED <<count, cached, accepted, disturbances, pipeline, age>>

(* The API container is replaced: its instruments start from nothing and   *)
(* the requests in it are gone.                                            *)
Restart ==
    /\ Disturbed({"restart"})
    /\ count' = NoSeries
    /\ accepted' = 0
    /\ request' = Ended({c \in Clients : request[c].phase # "over"}, "none", 0)
    /\ exportIn' = ExportEvery
    /\ UNCHANGED <<cached, batch, exposed, scrapeIn, samples, age>>

-----------------------------------------------------------------------------
(* The collector keeps serving a series the last export did not have.      *)
Over(new, old) == [s \in Series |-> IF new[s] = 0 THEN old[s] ELSE new[s]]

(* PeriodicExportingMetricReader: the collector has the snapshot and holds *)
(* it back for its next batch.                                             *)
Export ==
    /\ exportIn = 0
    /\ exportIn' = ExportEvery
    /\ batch' = [left |-> IF batch.left < 0 THEN BatchTimeout ELSE batch.left,
                 count |-> Over(count, batch.count)]
    /\ UNCHANGED <<serving, exposed, scrapeIn, samples, age>>

Flush ==
    /\ batch.left = 0
    /\ exposed' = Over(batch.count, exposed)
    /\ batch' = [left |-> -1, count |-> NoSeries]
    /\ UNCHANGED <<serving, exportIn, scrapeIn, samples, age>>

Scrape ==
    /\ scrapeIn = 0
    /\ scrapeIn' = ScrapeEvery
    /\ LET all == Append(samples, exposed)
       IN  samples' = IF Len(all) > Window THEN Tail(all) ELSE all
    /\ UNCHANGED <<serving, exportIn, batch, exposed, age>>

(* Nothing of the pipeline is due.                                         *)
Settled == exportIn > 0 /\ scrapeIn > 0 /\ batch.left # 0

Pass ==
    /\ Settled
    /\ exportIn' = exportIn - 1
    /\ scrapeIn' = scrapeIn - 1
    /\ batch' = [batch EXCEPT !.left = IF @ > 0 THEN @ - 1 ELSE @]
    /\ age' = [g \in Dated |-> IF age[g] <= Memory THEN age[g] + 1 ELSE age[g]]
    /\ UNCHANGED <<serving, exposed, samples>>

ClientStep(c) ==
    \/ CacheHit(c)
    \/ \E inTime \in BOOLEAN : CacheMiss(c, inTime)
    \/ \E list \in Given : Decline(c, list)
    \/ \E recorded \in Generations(c), list \in Given : Generate(c, recorded, list)
    \/ ResponseStart(c)
    \/ Complete(c)

PipelineStep == Export \/ Flush \/ Scrape

-----------------------------------------------------------------------------
(* PromQL as the checks use it.  An instant query reads the last sample.   *)
Latest == IF samples = << >> THEN NoSeries ELSE Last(samples)

(* increase(...[range]), up to its extrapolation: the rises between         *)
(* consecutive samples the series has, a fall being a reset, here counted  *)
(* one by one.  What a series is born with is no rise.                     *)
Rises(s) ==
    LET Rise(i) ==
            LET was == samples[i][s]
                is == samples[i + 1][s]
            IN  IF was = 0 THEN {} ELSE IF is < was THEN 1..is ELSE (was + 1)..is
    IN  UNION {{s} \X {i} \X Rise(i) : i \in 1..(Len(samples) - 1)}

\* Mutant of Increase: the counter's whole life is judged.
Lifetime(s) == Latest[s]

Increase(s) == Cardinality(Rises(s))

(* A series has a rate if it is in two samples of the range.               *)
Rated(s) == Len(samples) > 1 /\ samples[Len(samples) - 1][s] > 0
Rate(series) == Cardinality(UNION {Rises(s) : s \in series})

\* Mutant of CanaryHealthy: a query without a result is no failure.
CanaryUnmeasured ==
    \/ ~ \E s \in Answers \ {"http_5xx"} : Rated(s)
    \/ 100 * Rate(Answers \ {"http_5xx"}) >= SuccessRate * Rate(Answers)

(* The canary's success-rate: the quotient has a result if its numerator   *)
(* has, and 0/0 is no number, which passes no comparison.                  *)
CanaryHealthy ==
    /\ \E s \in Answers \ {"http_5xx"} : Rated(s)
    /\ Rate(Answers) > 0
    /\ 100 * Rate(Answers \ {"http_5xx"}) >= SuccessRate * Rate(Answers)
=============================================================================
