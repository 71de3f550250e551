--------------------------- MODULE InspectProofs ---------------------------
(***************************************************************************)
(* What the numbers of Telemetry are worth, and what an inspection by them *)
(* shows, for any clients, clocks, lags, probes and limits.                *)
(***************************************************************************)
EXTENDS Inspect, FiniteSetTheorems, TLAPS

(* The clocks are naturals.                                                *)
LEMMA ClockFacts ==
    /\ ExportEvery \in Nat /\ ExportEvery > 0 /\ ScrapeEvery \in Nat /\ ScrapeEvery > 0
    /\ BatchTimeout \in Nat /\ Window \in Nat /\ Window > 0 /\ MaxRequests \in Nat
    /\ Window * ScrapeEvery \in Nat
    /\ Memory \in Nat /\ Memory = Window * ScrapeEvery + ExportEvery + BatchTimeout
    /\ Lag \in Nat /\ Lag = ExportEvery + BatchTimeout + ScrapeEvery
    /\ ScrapeWait \in Nat /\ ScrapeWait > Lag
<1>1. /\ ExportEvery \in Nat /\ ExportEvery > 0 /\ ScrapeEvery \in Nat /\ ScrapeEvery > 0
      /\ BatchTimeout \in Nat /\ Window \in Nat /\ Window > 0 /\ MaxRequests \in Nat
  BY TelemetryAssumption
<1>2. Window * ScrapeEvery \in Nat
  BY <1>1
<1>3. ScrapeWait \in Nat /\ ScrapeWait > Lag
  BY InspectAssumption
<1>4. QED
  BY <1>1, <1>2, <1>3 DEF Memory, Lag

-----------------------------------------------------------------------------
(* The inductive invariant.                                                *)

(* Where main is, by what it has in hand.                                  *)
Asking == step \in {"asking", "reasking"}
Flow ==
    /\ step \in {"off", "warming", "rewarming", "cleared"} => results = << >>
    /\ step = "ready" \/ Asking => Len(results) < Len(Probes)
    /\ step \in {"waiting", "judging"} => Len(results) = Len(Probes)
    /\ step \notin {"warming", "rewarming"} /\ ~Asking => Mine.phase = "over"
    /\ Asking /\ Mine.phase # "over" => Mine.query = Asked
    /\ step # "judging" => DOMAIN report = {}
    /\ step = "judging" => left = 0

(* What the collector serves once its batch is out.                        *)
Due == IF batch.left >= 0 THEN Over(batch.count, exposed) ELSE exposed
Held == batch.left < 0 => batch.count = NoSeries

(* A series that has not grown for e has, as far as e goes, come through   *)
(* the reader, the batch and the scrapes: a sample that old is all there   *)
(* is to see.                                                              *)
Synced(e, s) ==
    /\ e > ExportEvery - exportIn => count[s] = 0 \/ count[s] = Due[s]
    /\ batch.left >= 0 /\ e > ExportEvery + BatchTimeout - batch.left =>
          Due[s] = exposed[s]
    /\ \A i \in 1..Len(samples) :
          e > ExportEvery + BatchTimeout + (Len(samples) - i) * ScrapeEvery
                + ScrapeEvery - scrapeIn =>
             samples[i][s] = exposed[s]

LagInv == \A g \in Dated : \A s \in g : \A e \in 0..age[g] : Synced(e, s)

(* Without a restart nothing read anywhere is ahead of the instruments.    *)
Behind ==
    disturbances["restart"] = 0 =>
        \A s \in Series :
            /\ batch.count[s] <= count[s] /\ exposed[s] <= count[s]
            /\ before[s] <= count[s]
            /\ \A i \in 1..Len(samples) : samples[i][s] <= count[s]

(* A series nobody has recorded is nowhere, restarts or not.               *)
Absent(s) ==
    /\ count[s] = 0 /\ batch.count[s] = 0 /\ exposed[s] = 0
    /\ \A i \in 1..Len(samples) : samples[i][s] = 0
Unseen == venueSeen \/ Absent("venue_served")

(* A list the inspector gets or may get for a probe is one stored since it *)
(* had the answer to its query cleared.                                    *)
Fresh ==
    /\ \A q \in Queries : cached[q] \in Lists => <<q, cached[q]>> \in made
    /\ Asking /\ Mine.list \in Lists => <<Asked, Mine.list>> \in made
    /\ \A i \in 1..Len(results) :
          results[i].list \in Lists => <<Probes[i].query, results[i].list>> \in made

(* What a judged section says of the program.                              *)
Marked ==
    /\ "answers" \in DOMAIN report => report["answers"] = AnswerChecks
    /\ "router" \in DOMAIN report =>
          \/ venueSeen
          \/ /\ "served" \in DOMAIN report["router"]
             /\ report["router"]["served"] = "fail"

(* Where every request goes well ...                                       *)
Rejected == Mine.code = 401
Grown(series) == \E s \in series : count[s] > before[s]
Got(answer, query) ==
    answer.code = 200 /\ answer.list \in Lists /\ answer.list = cached[query]

(* ... nothing has failed and the users keep to their queries;             *)
Calm ==
    /\ \A c \in Users : request[c].phase # "over" => request[c].query \notin Battery
    /\ count["rerank_timeout"] = 0 /\ count["llm_error"] = 0

(* a probe's answer that is stored went through every stage;               *)
Stored ==
    \A q \in Battery : cached[q] # "none" =>
        /\ cached[q] \in Lists
        /\ count["rerank_ok"] > 0 /\ count["confidence"] > 0 /\ count["llm_ok"] > 0
        /\ q \in ClearClass => count["confident"] > 0 /\ count["venue_served"] > 0

(* the inspector is on its way to the answer that is or will be stored, or *)
(* to its second try;                                                      *)
Underway ==
    /\ Mine.phase # "unscored"
    /\ Mine.phase # "over" => Mine.code = 200 \/ Rejected
    /\ Rejected => Mine.phase \notin {"arrived", "scored"} /\ step \notin {"rewarming", "reasking"}
    /\ Mine.phase = "scored" =>
          /\ Asking => cached[Mine.query] = "none"
          /\ count["rerank_ok"] > 0 /\ count["confidence"] > 0
          /\ Mine.query \in ClearClass => count["confident"] > 0
    /\ Asking /\ Mine.phase \in {"ready", "started", "over"} /\ ~Rejected => Got(Mine, Asked)
    /\ \A i \in 1..Len(results) : Got(results[i], Probes[i].query)

(* the first probe is a miss, so it is looked up, and a venue decided on;  *)
Unanswered ==
    step \in {"cleared", "ready"} \/ (Asking /\ (Mine.phase \in {"arrived", "scored"} \/ Rejected))
Decided == Asking /\ Mine.phase \notin {"arrived", "scored"} /\ ~Rejected
FirstMiss ==
    /\ Unanswered /\ results = << >> => \A q \in Battery : cached[q] = "none"
    /\ Decided \/ results # << >> => Grown(Lookups) /\ Grown(Decisions)
    /\ Asking /\ Mine.phase = "scored" => Grown(Lookups)

(* while it waits and judges, at least what was counted when the wait      *)
(* began comes through: stage by stage, as the wait gets longer;           *)
Quiet == ScrapeWait - left
Shown(f) ==
    /\ \A s \in {"rerank_ok", "confidence", "confident", "venue_served", "llm_ok"} : f[s] > 0
    /\ \E s \in Lookups : f[s] > before[s]
    /\ \E s \in Decisions : f[s] > before[s]
Carried(e, floor) ==
    /\ e > ExportEvery - exportIn => \A s \in Series : floor[s] <= Due[s]
    /\ batch.left >= 0 /\ e > ExportEvery + BatchTimeout - batch.left =>
          \A s \in Series : floor[s] <= exposed[s]
    /\ \A i \in 1..Len(samples) :
          e > ExportEvery + BatchTimeout + (Len(samples) - i) * ScrapeEvery
                + ScrapeEvery - scrapeIn =>
             \A s \in Series : floor[s] <= samples[i][s]
    /\ e > ScrapeEvery - scrapeIn => samples # << >>
Coming ==
    step \in {"waiting", "judging"} =>
        \E floor \in Snapshots :
            /\ Shown(floor) /\ \A s \in Series : floor[s] <= count[s]
            /\ Carried(Quiet, floor)

(* and no section fails.                                                   *)
Clean ==
    /\ step = "judging" => Shown(after)
    /\ count["confidence"] < TopShare =>
          \A s \in DOMAIN report : \A k \in DOMAIN report[s] : report[s][k] # "fail"

(* The first four do not look at the pipeline.                             *)
Serving == Calm /\ Stored /\ Underway /\ FirstMiss
Well == Smooth => Serving /\ Coming /\ Clean

InspectInv ==
    TypeOK /\ Flow /\ Held /\ LagInv /\ Behind /\ Unseen /\ Fresh /\ Marked /\ CountedOnce /\ Well

-----------------------------------------------------------------------------
(* Types of Telemetry.                                                     *)

(* A recorded count is still a snapshot.                                   *)
LEMMA RecordTyped ==
  ASSUME count \in Snapshots, age \in [Dated -> 0..(Memory + 1)],
         NEW recorded, Record(recorded)
  PROVE  count' \in Snapshots /\ age' \in [Dated -> 0..(Memory + 1)]
<1>1. count' \in Snapshots
  <2>1. \A s \in Series : count[s] + (IF s \in recorded THEN 1 ELSE 0) \in Nat
    BY DEF Snapshots
  <2>2. QED
    BY <2>1 DEF Record, Snapshots
<1>2. age' \in [Dated -> 0..(Memory + 1)]
  <2>1. 0 \in 0..(Memory + 1)
    BY ClockFacts
  <2>2. QED
    BY <2>1 DEF Record
<1>3. QED
  BY <1>1, <1>2

(* Requests that end are requests.                                         *)
LEMMA EndedTyped ==
  ASSUME request \in [Clients -> Requests], NEW clients,
         NEW list \in Given \cup {"none"}, NEW code \in {0, 200, 401, 500}
  PROVE  /\ NoRequest \in Requests
         /\ Ended(clients, list, code) \in [Clients -> Requests]
         /\ \A c \in Clients :
               IF c \in clients
               THEN Ended(clients, list, code)[c].phase = "over"
               ELSE Ended(clients, list, code)[c] = request[c]
<1>1. NoRequest \in Requests
  BY DEF NoRequest, Reply, Requests
<1>2. /\ Reply(list, code) \in Requests /\ Reply(list, code).phase = "over"
      /\ NoRequest.phase = "over"
  BY DEF NoRequest, Reply, Requests
<1> HIDE DEF Requests, NoRequest, Reply
<1>3. QED
  BY <1>1, <1>2 DEF Ended

(* A step of a client leaves everything typed.                             *)
LEMMA ClientTyped ==
  ASSUME TelemetryTypeOK, NEW c \in Clients, ClientStep(c) \/ Raise(c)
  PROVE  TelemetryTypeOK'
<1>1. /\ count \in Snapshots /\ age \in [Dated -> 0..(Memory + 1)]
      /\ request \in [Clients -> Requests] /\ request[c] \in Requests
      /\ cached \in [Queries -> Cacheable \cup {"none"}]
      /\ disturbances \in Together
      /\ \A d \in Clients : request[d].phase # "over" => request[d].query # "none"
  BY DEF TelemetryTypeOK
<1>2. /\ request[c].query \in Queries \cup {"none"}
      /\ request[c].list \in Given \cup {"none"}
      /\ request[c].code \in {0, 200, 401, 500}
  BY <1>1 DEF Requests
<1> DEFINE Good ==
             /\ count' \in Snapshots /\ age' \in [Dated -> 0..(Memory + 1)]
             /\ request' \in [Clients -> Requests]
             /\ \A d \in Clients : request'[d].phase # "over" => request'[d].query # "none"
             /\ cached' \in [Queries -> Cacheable \cup {"none"}]
             /\ UNCHANGED <<pipeline, accepted>> /\ disturbances' \in Together
<1> SUFFICES Good
  BY DEF TelemetryTypeOK, pipeline
<1>3. ASSUME NEW p \in {"arrived", "scored", "unscored", "ready", "started", "over"},
             request[c].phase # "over",
             \/ request' = [request EXCEPT ![c].phase = p]
             \/ \E l \in Given \cup {"none"} :
                   request' = [request EXCEPT ![c].phase = p, ![c].list = l]
      PROVE  /\ request' \in [Clients -> Requests]
             /\ \A d \in Clients : request'[d].phase # "over" => request'[d].query # "none"
  <2>1. request'[c] \in Requests /\ request'[c].query = request[c].query
    BY <1>1, <1>3 DEF Requests
  <2>2. \A d \in Clients : d # c => request'[d] = request[d]
    BY <1>1, <1>3
  <2>3. DOMAIN request' = Clients /\ request' = [d \in Clients |-> request'[d]]
    BY <1>1, <1>3
  <2>4. QED
    BY <1>1, <1>3, <2>1, <2>2, <2>3
<1>4. CASE CacheHit(c)
  <2>1. request[c].phase # "over" /\ request[c].query \in Queries
    BY <1>1, <1>2, <1>4 DEF CacheHit
  <2>2. cached[request[c].query] \in Given \cup {"none"}
    BY <1>1, <2>1 DEF Given
  <2>3. request' = [request EXCEPT ![c].phase = "ready", ![c].list = cached[request[c].query]]
    BY <1>4 DEF CacheHit
  <2>4. QED
    BY <1>1, <1>3, <1>4, <2>1, <2>2, <2>3, RecordTyped DEF CacheHit
<1>5. ASSUME NEW inTime \in BOOLEAN, CacheMiss(c, inTime) PROVE Good
  <2>1. request[c].phase # "over"
    BY <1>5 DEF CacheMiss
  <2>2. PICK p \in {"scored", "unscored"} : request' = [request EXCEPT ![c].phase = p]
    BY <1>5 DEF CacheMiss
  <2>3. PICK recorded : Record(recorded)
    BY <1>5 DEF CacheMiss
  <2>4. disturbances' \in Together /\ UNCHANGED <<cached, accepted, pipeline>>
    BY <1>5 DEF CacheMiss, Disturbed
  <2>5. count' \in Snapshots /\ age' \in [Dated -> 0..(Memory + 1)]
    BY <1>1, <2>3, RecordTyped
  <2>6. QED
    BY <1>1, <1>2, <1>3, <2>1, <2>2, <2>4, <2>5
<1>6. ASSUME NEW list \in Given, NEW recorded, Record(recorded), Respond(c, list),
             request[c].phase # "over",
             disturbances' \in Together, UNCHANGED <<accepted, pipeline>>
      PROVE  Good
  <2>1. request[c].query \in Queries
    BY <1>1, <1>2, <1>6
  <2>2. request' = [request EXCEPT ![c].phase = "ready", ![c].list = list]
    BY <1>6 DEF Respond
  <2>3. count' \in Snapshots /\ age' \in [Dated -> 0..(Memory + 1)]
    BY <1>1, <1>6, RecordTyped
  <2>4. cached' \in [Queries -> Cacheable \cup {"none"}]
    BY <1>1, <1>6, <2>1 DEF Respond
  <2>5. QED
    BY <1>1, <1>2, <1>3, <1>6, <2>2, <2>3, <2>4
<1>7. CASE ResponseStart(c)
  <2>1. request[c].phase # "over" /\ request' = [request EXCEPT ![c].phase = "started"]
    BY <1>7 DEF ResponseStart
  <2>2. count' \in Snapshots /\ age' \in [Dated -> 0..(Memory + 1)]
    BY <1>1, <1>7, RecordTyped DEF ResponseStart
  <2>3. QED
    BY <1>1, <1>2, <1>3, <1>7, <2>1, <2>2 DEF ResponseStart
<1>8. CASE Raise(c)
  <2>1. count' \in Snapshots /\ age' \in [Dated -> 0..(Memory + 1)]
    BY <1>1, <1>8, RecordTyped DEF Raise
  <2>2. request' = Ended({c}, "none", 500) /\ disturbances' \in Together
    BY <1>8 DEF Raise, Disturbed
  <2>3. /\ request' \in [Clients -> Requests]
        /\ \A d \in Clients : request'[d].phase # "over" => request'[d].query # "none"
    <3>1. /\ Ended({c}, "none", 500) \in [Clients -> Requests]
          /\ \A d \in Clients : Ended({c}, "none", 500)[d].phase # "over" =>
                 Ended({c}, "none", 500)[d].query # "none"
      BY <1>1, EndedTyped
    <3>2. QED
      BY <3>1, <2>2
  <2>4. QED
    BY <1>1, <1>8, <2>1, <2>2, <2>3 DEF Raise
<1>9. CASE Complete(c)
  <2>1. request' = Ended({c}, request[c].list, request[c].code)
    BY <1>9 DEF Complete
  <2>2. /\ request' \in [Clients -> Requests]
        /\ \A d \in Clients : request'[d].phase # "over" => request'[d].query # "none"
    BY <1>1, <1>2, <2>1, EndedTyped
  <2>3. QED
    BY <1>1, <1>9, <2>2 DEF Complete
<1>10. ASSUME NEW list \in Given, Decline(c, list) PROVE Good
  BY <1>6, <1>10 DEF Decline, Disturbed
<1>11. ASSUME NEW recorded \in Generations(c), NEW list \in Given, Generate(c, recorded, list)
       PROVE  Good
  BY <1>6, <1>11 DEF Generate, Disturbed
<1>12. QED
  BY <1>4, <1>5, <1>7, <1>8, <1>9, <1>10, <1>11 DEF ClientStep

(* A step of the transport, or of time, leaves everything typed.           *)
LEMMA PipelineTyped ==
  ASSUME TelemetryTypeOK, PipelineStep \/ Pass
  PROVE  TelemetryTypeOK'
<1>1. /\ count \in Snapshots /\ exposed \in Snapshots
      /\ exportIn \in 0..ExportEvery /\ scrapeIn \in 0..ScrapeEvery
      /\ batch \in [left : -1..BatchTimeout, count : Snapshots]
      /\ samples \in Seq(Snapshots) /\ Len(samples) <= Window
      /\ age \in [Dated -> 0..(Memory + 1)]
  BY DEF TelemetryTypeOK
<1>2. \A new, old \in Snapshots : Over(new, old) \in Snapshots
  BY DEF Over, Snapshots
<1>3. NoSeries \in Snapshots
  BY DEF NoSeries, Snapshots
<1> HIDE DEF Snapshots
<1>4. batch.left \in -1..BatchTimeout /\ batch.count \in Snapshots
  BY <1>1
<1> DEFINE Good ==
             /\ exportIn' \in 0..ExportEvery /\ scrapeIn' \in 0..ScrapeEvery
             /\ batch' \in [left : -1..BatchTimeout, count : Snapshots]
             /\ exposed' \in Snapshots
             /\ samples' \in Seq(Snapshots) /\ Len(samples') <= Window
             /\ age' \in [Dated -> 0..(Memory + 1)]
             /\ UNCHANGED serving
<1> SUFFICES Good
  BY DEF TelemetryTypeOK, serving
<1>5. CASE Export
  <2>1. Over(count, batch.count) \in Snapshots
    BY <1>1, <1>2, <1>4
  <2>2. QED
    BY <1>1, <1>4, <1>5, <2>1, ClockFacts DEF Export
<1>6. CASE Flush
  <2>1. Over(batch.count, exposed) \in Snapshots
    BY <1>1, <1>2, <1>4
  <2>2. QED
    BY <1>1, <1>3, <1>6, <2>1, ClockFacts DEF Flush
<1>7. CASE Scrape
  <2> DEFINE all == Append(samples, exposed)
  <2>1. all \in Seq(Snapshots) /\ Len(all) = Len(samples) + 1
    BY <1>1
  <2>2. Tail(all) \in Seq(Snapshots) /\ Len(Tail(all)) = Len(samples)
    BY <1>1, <2>1
  <2>3. samples' = IF Len(all) > Window THEN Tail(all) ELSE all
    BY <1>7 DEF Scrape
  <2> HIDE DEF all
  <2>4. samples' \in Seq(Snapshots) /\ Len(samples') <= Window
    BY <1>1, <2>1, <2>2, <2>3, ClockFacts
  <2>5. QED
    BY <1>1, <1>7, <2>4, ClockFacts DEF Scrape
<1>8. CASE Pass
  <2>1. exportIn' \in 0..ExportEvery /\ scrapeIn' \in 0..ScrapeEvery
    <3>1. /\ exportIn > 0 /\ exportIn' = exportIn - 1
          /\ scrapeIn > 0 /\ scrapeIn' = scrapeIn - 1
      BY <1>8 DEF Pass, Settled
    <3>2. QED
      BY <1>1, <3>1, ClockFacts
  <2>2. batch' \in [left : -1..BatchTimeout, count : Snapshots]
    <3>1. batch' = [batch EXCEPT !.left = IF @ > 0 THEN @ - 1 ELSE @]
      BY <1>8 DEF Pass
    <3>2. (IF batch.left > 0 THEN batch.left - 1 ELSE batch.left) \in -1..BatchTimeout
      BY <1>4, ClockFacts
    <3>3. QED
      BY <1>1, <3>1, <3>2
  <2>3. age' \in [Dated -> 0..(Memory + 1)]
    <3>1. \A g \in Dated : (IF age[g] <= Memory THEN age[g] + 1 ELSE age[g]) \in 0..(Memory + 1)
      BY <1>1, ClockFacts
    <3>2. QED
      BY <1>8, <3>1 DEF Pass
  <2>4. QED
    BY <1>1, <1>8, <2>1, <2>2, <2>3 DEF Pass
<1>9. QED
  BY <1>5, <1>6, <1>7, <1>8 DEF PipelineStep

(* So does a request that arrives.                                         *)
LEMMA ArriveTyped ==
  ASSUME TelemetryTypeOK, NEW c \in Clients, NEW q \in Queries,
         NEW authorized \in BOOLEAN, NEW by, Arrive(c, q, authorized, by)
  PROVE  TelemetryTypeOK'
<1> DEFINE r == [phase |-> IF authorized THEN "arrived" ELSE "ready", query |-> q,
                 list |-> "none", code |-> IF authorized THEN 200 ELSE 401]
<1>1. r \in Requests /\ r.query = q /\ q # "none"
  BY TelemetryAssumption DEF Requests
<1>2. request' = [request EXCEPT ![c] = r]
  BY DEF Arrive
<1> HIDE DEF r
<1>3. /\ request' \in [Clients -> Requests]
      /\ \A d \in Clients : request'[d].phase # "over" => request'[d].query # "none"
  BY <1>1, <1>2 DEF TelemetryTypeOK
<1>4. accepted' \in 0..MaxRequests /\ disturbances' \in Together
  BY ClockFacts DEF Arrive, Disturbed, TelemetryTypeOK
<1>5. UNCHANGED <<count, cached, pipeline, age>>
  BY DEF Arrive
<1>6. QED
  BY <1>3, <1>4, <1>5 DEF TelemetryTypeOK, pipeline

(* And the replacement of the container.                                   *)
LEMMA RestartTyped ==
  ASSUME TelemetryTypeOK, Restart
  PROVE  TelemetryTypeOK'
<1> DEFINE gone == {c \in Clients : request[c].phase # "over"}
<1>1. request' = Ended(gone, "none", 0)
  BY DEF Restart
<1>2. request \in [Clients -> Requests]
  BY DEF TelemetryTypeOK
<1> HIDE DEF gone
<1>3. /\ Ended(gone, "none", 0) \in [Clients -> Requests]
      /\ \A c \in Clients :
            IF c \in gone THEN Ended(gone, "none", 0)[c].phase = "over"
            ELSE Ended(gone, "none", 0)[c] = request[c]
  BY <1>2, EndedTyped
<1>4. /\ request' \in [Clients -> Requests]
      /\ \A c \in Clients : request'[c].phase # "over" => request'[c].query # "none"
  BY <1>1, <1>2, <1>3 DEF TelemetryTypeOK
<1>5. count' \in Snapshots
  BY DEF Restart, NoSeries, Snapshots
<1>6. accepted' \in 0..MaxRequests /\ disturbances' \in Together /\ exportIn' \in 0..ExportEvery
  BY ClockFacts DEF Restart, Disturbed
<1>7. UNCHANGED <<cached, batch, exposed, scrapeIn, samples, age>>
  BY DEF Restart
<1>8. QED
  BY <1>4, <1>5, <1>6, <1>7 DEF TelemetryTypeOK

-----------------------------------------------------------------------------
(* Types of Inspect.                                                       *)

(* A probe asks a query of the system, and wants a grounded answer.        *)
LEMMA ProbesAsk ==
  /\ Len(Probes) \in Nat /\ DOMAIN Probes = 1..Len(Probes)
  /\ \A i \in 1..Len(Probes) : Probes[i].query \in Queries /\ Probes[i].want = "grounded"
<1> DEFINE Asks == [label : STRING, query : Queries, want : {"grounded"}]
<1>1. \A p \in Asks : p.query \in Queries /\ p.want = "grounded"
  OBVIOUS
<1>2. Probes \in Seq(Asks)
  BY InspectAssumption
<1> HIDE DEF Asks
<1>3. \A i \in 1..Len(Probes) : Probes[i] \in Asks
  BY <1>2
<1>4. QED
  BY <1>1, <1>2, <1>3

(* What is asked next is a query.                                          *)
LEMMA AskedQuery ==
  ASSUME TypeOK, Flow, step = "ready" \/ Asking
  PROVE  Len(results) + 1 \in 1..Len(Probes) /\ Asked \in Queries
<1>1. Len(results) \in Nat /\ Len(results) < Len(Probes)
  BY DEF TypeOK, Flow
<1>2. QED
  BY <1>1, ProbesAsk DEF Asked

(* A refusal is counted under the kind it is given.                        *)
LEMMA RefusalKinds ==
  \A authorized \in BOOLEAN, kind \in {"retry", "rejected"} :
     RefusedUnless(authorized, kind) \in SUBSET Kinds
BY DEF RefusedUnless, Kinds

(* A question of the inspector's, its first or its second try.             *)
LEMMA Questions ==
  ASSUME Warm \/ Probe, TypeOK, Flow
  PROVE  /\ Settled /\ UNCHANGED <<left, inspection, history>>
         /\ \E q \in Queries, authorized \in BOOLEAN, by \in SUBSET Kinds :
               /\ Arrive(Inspector, q, authorized, by)
               /\ \/ Warm /\ q = WarmUp /\ step' \in {"warming", "rewarming"}
                     /\ step \in {"off", "warming"}
                  \/ Probe /\ q = Asked /\ Asking'
                     /\ (step = "ready" \/ Asking)
               /\ \/ step \in {"off", "ready"}
                     /\ by = RefusedUnless(authorized, "retry")
                  \/ Rejected /\ step' \in {"rewarming", "reasking"}
                     /\ by = RefusedUnless(authorized, "rejected")
<1>1. WarmUp \in Queries
  BY InspectAssumption
<1>2. CASE Ask(WarmUp, "off", "warming")
  BY <1>1, <1>2, RefusalKinds DEF Warm, Ask, TokenHad
<1>3. CASE Reask(WarmUp, "warming", "rewarming")
  BY <1>1, <1>3, RefusalKinds DEF Warm, Reask, TokenHad, Rejected
<1>4. CASE Ask(Asked, "ready", "asking")
  <2>1. Asked \in Queries
    BY <1>4, AskedQuery DEF Ask
  <2>2. QED
    BY <1>4, <2>1, RefusalKinds DEF Probe, Ask, TokenHad, Asking
<1>5. CASE Reask(Asked, "asking", "reasking")
  <2>1. Asked \in Queries
    BY <1>5, AskedQuery DEF Reask, Asking
  <2>2. QED
    BY <1>5, <2>1, RefusalKinds DEF Probe, Reask, TokenHad, Asking, Rejected
<1>6. QED
  BY <1>2, <1>3, <1>4, <1>5 DEF Warm, Probe

(* The next step of the program, by what it does to the telemetry: leaves  *)
(* it alone, or takes one of its steps.                                    *)
LEMMA StepsOfTelemetry ==
  ASSUME Next, TypeOK, Flow
  PROVE  \/ UNCHANGED telemetryVars
         \/ \E c \in Clients, q \in Queries,
               authorized \in BOOLEAN, by \in SUBSET Kinds :
               Arrive(c, q, authorized, by)
         \/ \E c \in Clients : ClientStep(c) \/ Raise(c)
         \/ ClearAnswers \/ Restart \/ PipelineStep \/ Pass
<1>1. Inspector \in Clients /\ Users \subseteq Clients
  BY InspectAssumption
<1>2. CASE Warm \/ Probe
  BY <1>1, <1>2, Questions
<1>3. CASE SnapshotBefore \/ Answered \/ SnapshotAfter \/ Judge
  BY <1>3 DEF SnapshotBefore, Answered, SnapshotAfter, Judge
<1>4. ASSUME NEW c \in Users, NEW q \in Queries, Visit(c, q)
      PROVE  \E d \in Clients, p \in Queries,
                authorized \in BOOLEAN, by \in SUBSET Kinds :
                Arrive(d, p, authorized, by)
  BY <1>1, <1>4 DEF Visit, Kinds
<1>5. QED
  BY <1>2, <1>3, <1>4 DEF Next, InspectorStep, Serve, Replace, Transport, Tick

(* Telemetry's part of the types.                                          *)
LEMMA TelemetryTyped ==
  ASSUME Next, TypeOK, Flow
  PROVE  TelemetryTypeOK'
<1>1. TelemetryTypeOK
  BY DEF TypeOK
<1>2. CASE UNCHANGED telemetryVars
  BY <1>1, <1>2 DEF TelemetryTypeOK, telemetryVars, serving, pipeline
<1>3. CASE ClearAnswers
  BY <1>1, <1>3 DEF ClearAnswers, Emptied, Disturbed, TelemetryTypeOK, pipeline
<1>4. QED
  BY <1>1, <1>2, <1>3, StepsOfTelemetry, ArriveTyped, ClientTyped, RestartTyped, PipelineTyped

(* A snapshot of what Prometheus has is a snapshot.                        *)
LEMMA LatestTyped ==
  ASSUME TelemetryTypeOK
  PROVE  Latest \in Snapshots
<1>1. NoSeries \in Snapshots
  BY DEF NoSeries, Snapshots
<1>2. samples \in Seq(Snapshots)
  BY DEF TelemetryTypeOK
<1> HIDE DEF Snapshots
<1>3. samples # << >> => Len(samples) \in Nat \ {0} /\ samples[Len(samples)] \in Snapshots
  BY <1>2
<1>4. QED
  BY <1>1, <1>3 DEF Latest, Last

(* The section judged next is one of those not yet judged.                 *)
LEMMA SectionNext ==
  ASSUME TypeOK, DOMAIN report # Range(Sections)
  PROVE  Sections[Cardinality(DOMAIN report) + 1] \in Range(Sections)
<1>1. Sections \in Seq({"cache", "retrieval", "router", "serving", "answers"})
  BY InspectAssumption
<1>2. DOMAIN report \subseteq Range(Sections)
  BY DEF TypeOK
<1>3. Len(Sections) \in Nat /\ \A i \in 1..Len(Sections) : Sections[i] \in Range(Sections)
  BY <1>1 DEF Range
<1>4. Sections \in Surjection(1..Len(Sections), Range(Sections))
  BY <1>1 DEF Surjection, Range
<1>5. /\ IsFiniteSet(Range(Sections)) /\ Cardinality(Range(Sections)) <= Len(Sections)
      /\ Cardinality(Range(Sections)) \in Nat
  <2>1. ExistsSurjection(1..Len(Sections), Range(Sections))
    BY <1>4 DEF ExistsSurjection
  <2>2. IsFiniteSet(Range(Sections))
    BY <1>3, <2>1, FS_NatSurjection
  <2>3. QED
    BY <1>3, <2>1, <2>2, FS_SurjCardinalityBound, FS_CardinalityType
<1>6. Cardinality(DOMAIN report) \in Nat /\ Cardinality(DOMAIN report) < Cardinality(Range(Sections))
  BY <1>2, <1>5, FS_Subset, FS_CardinalityType
<1>7. Cardinality(DOMAIN report) + 1 \in 1..Len(Sections)
  BY <1>3, <1>5, <1>6, FS_CardinalityType
<1>8. QED
  BY <1>3, <1>7

(* Every check marks ok, fail or info.                                     *)
LEMMA JudgedMarks ==
  ASSUME NEW section \in {"cache", "retrieval", "router", "serving", "answers"}
  PROVE  Range(Judged(section)) \subseteq {"ok", "fail", "info"}
<1>1. \A ok \in BOOLEAN : Mark(ok) \in {"ok", "fail", "info"}
  BY DEF Mark
<1>2. Range(CacheChecks) \subseteq {"ok", "fail", "info"}
  BY DEF CacheChecks, Mark, Range
<1>3. Range(RetrievalChecks) \subseteq {"ok", "fail", "info"}
  BY DEF RetrievalChecks, Mark, Range
<1>4. Range(RouterChecks) \subseteq {"ok", "fail", "info"}
  BY DEF RouterChecks, Mark, Range
<1>5. Range(ServingChecks) \subseteq {"ok", "fail", "info"}
  BY DEF ServingChecks, Mark, Range
<1>6. Range(AnswerChecks) \subseteq {"ok", "fail", "info"}
  BY DEF AnswerChecks, Mark, Range
<1>7. QED
  BY <1>2, <1>3, <1>4, <1>5, <1>6 DEF Judged

(* What main has in hand keeps its type.                                   *)
LEMMA MainTyped ==
  ASSUME Next, TypeOK, Flow
  PROVE  /\ step' \in {"off", "warming", "rewarming", "cleared", "ready", "asking", "reasking",
                    "waiting", "judging"}
         /\ results' \in Seq(Requests) /\ Len(results') <= Len(Probes)
         /\ before' \in Snapshots /\ after' \in Snapshots
         /\ left' \in 0..ScrapeWait
         /\ DOMAIN report' \subseteq Range(Sections)
         /\ \A s \in DOMAIN report' : Range(report'[s]) \subseteq {"ok", "fail", "info"}
<1>1. /\ step \in {"off", "warming", "rewarming", "cleared", "ready", "asking", "reasking",
                   "waiting", "judging"}
      /\ results \in Seq(Requests) /\ Len(results) <= Len(Probes)
      /\ before \in Snapshots /\ after \in Snapshots /\ left \in 0..ScrapeWait
      /\ DOMAIN report \subseteq Range(Sections)
      /\ \A s \in DOMAIN report : Range(report[s]) \subseteq {"ok", "fail", "info"}
      /\ TelemetryTypeOK
  BY DEF TypeOK
<1>2. Mine \in Requests
  BY <1>1, InspectAssumption DEF TelemetryTypeOK, Mine
<1> HIDE DEF Requests, Snapshots
<1>3. CASE Warm \/ Probe
  BY <1>1, <1>3, Questions DEF Asking, inspection
<1>4. CASE ClearAnswers
  BY <1>1, <1>4 DEF ClearAnswers, inspection
<1>5. CASE SnapshotBefore
  BY <1>1, <1>5, LatestTyped DEF SnapshotBefore
<1>6. CASE Answered
  <2>1. /\ results' = Append(results, Mine)
        /\ step' \in {"waiting", "ready"} /\ left' \in {ScrapeWait, left}
        /\ UNCHANGED <<before, after, report>> /\ Asking
    BY <1>6 DEF Answered, SettlingTime, Heard, Asking
  <2>2. Len(results) < Len(Probes) /\ Len(Probes) \in Nat
    BY <2>1, ProbesAsk DEF Flow
  <2>3. results' \in Seq(Requests) /\ Len(results') = Len(results) + 1
    BY <1>1, <1>2, <2>1
  <2>4. QED
    BY <1>1, <2>1, <2>2, <2>3, ClockFacts
<1>7. CASE SnapshotAfter
  BY <1>1, <1>7, LatestTyped DEF SnapshotAfter
<1>8. CASE Judge
  <2> DEFINE section == Sections[Cardinality(DOMAIN report) + 1]
  <2>1. /\ report' = [s \in DOMAIN report \cup {section} |->
                         IF s = section THEN Judged(s) ELSE report[s]]
        /\ DOMAIN report # Range(Sections)
        /\ UNCHANGED <<step, left, results, before, after>>
    BY <1>8 DEF Judge
  <2>2. section \in Range(Sections)
    BY <2>1, SectionNext
  <2>3. Range(Judged(section)) \subseteq {"ok", "fail", "info"}
    BY <2>2, JudgedMarks, InspectAssumption
  <2> HIDE DEF section
  <2>4. DOMAIN report' \subseteq Range(Sections)
    BY <1>1, <2>1, <2>2
  <2>5. ASSUME NEW s \in DOMAIN report' PROVE Range(report'[s]) \subseteq {"ok", "fail", "info"}
    BY <1>1, <2>1, <2>3
  <2>6. QED
    BY <1>1, <2>1, <2>4, <2>5
<1>9. CASE (\E c \in Users, q \in Queries : Visit(c, q)) \/ (\E c \in Clients : Serve(c))
           \/ Replace \/ Transport
  BY <1>1, <1>9 DEF Visit, Serve, Replace, Transport, inspection
<1>10. CASE Tick
  <2>1. left' = (IF left > 0 THEN left - 1 ELSE 0) /\ UNCHANGED <<step, inspection>>
    BY <1>10 DEF Tick
  <2>2. left' \in 0..ScrapeWait
    BY <1>1, <2>1, ClockFacts
  <2>3. QED
    BY <1>1, <2>1, <2>2 DEF inspection
<1>11. QED
  BY <1>3, <1>4, <1>5, <1>6, <1>7, <1>8, <1>9, <1>10 DEF Next, InspectorStep

(* So does what has been stored.                                           *)
LEMMA HistoryTyped ==
  ASSUME Next, TypeOK, Flow
  PROVE  made' \subseteq Queries \X Lists /\ venueSeen' \in BOOLEAN
<1>1. made \subseteq Queries \X Lists /\ venueSeen \in BOOLEAN
  BY DEF TypeOK
<1>2. CASE Warm \/ Probe
  BY <1>1, <1>2, Questions DEF history
<1>3. ASSUME NEW c \in Clients, Serve(c)
      PROVE  made' \subseteq Queries \X Lists /\ venueSeen' \in BOOLEAN
  <2>1. /\ request[c] \in Requests
        /\ request[c].phase # "over" => request[c].query # "none"
    BY DEF TypeOK, TelemetryTypeOK
  <2>2. request[c].query \in Queries \cup {"none"}
    BY <2>1 DEF Requests
  <2>3. request[c].phase \in {"scored", "unscored"} => request[c].query \in Queries
    BY <2>1, <2>2
  <2>4. Stores(c) \subseteq Queries \X Lists
    BY <2>3 DEF Stores
  <2>5. QED
    BY <1>1, <1>3, <2>4 DEF Serve
<1>4. CASE ClearAnswers
  BY <1>1, <1>4 DEF ClearAnswers
<1>5. QED
  BY <1>1, <1>2, <1>3, <1>4
     DEF Next, InspectorStep, SnapshotBefore, Answered, SnapshotAfter, Judge, Visit,
         Replace, Transport, Tick, history

(* A step of a client moves its own request, and records once or nothing.  *)
LEMMA ClientMoves ==
  ASSUME TelemetryTypeOK, NEW c \in Clients, ClientStep(c) \/ Raise(c)
  PROVE  /\ request[c].phase # "over"
         /\ request'[c].phase = "over" \/ request'[c].query = request[c].query
         /\ \A d \in Clients \ {c} : request'[d] = request[d]
         /\ UNCHANGED <<pipeline, accepted>>
         /\ UNCHANGED disturbances \/ \E by : Disturbed(by)
         /\ UNCHANGED <<count, age>> \/ \E recorded : Record(recorded)
<1>1. request \in [Clients -> Requests] /\ request[c] \in Requests
  BY DEF TelemetryTypeOK
<1> DEFINE Moves ==
             /\ request[c].phase # "over"
             /\ request'[c].phase = "over" \/ request'[c].query = request[c].query
             /\ \A d \in Clients \ {c} : request'[d] = request[d]
<1>2. ASSUME NEW p, NEW list, request[c].phase # "over",
             \/ request' = [request EXCEPT ![c].phase = p]
             \/ request' = [request EXCEPT ![c].phase = p, ![c].list = list]
      PROVE  Moves
  BY <1>1, <1>2 DEF Requests
<1>3. CASE CacheHit(c) \/ ResponseStart(c)
  BY <1>1, <1>2, <1>3 DEF CacheHit, ResponseStart
<1>4. ASSUME NEW inTime \in BOOLEAN, CacheMiss(c, inTime)
      PROVE  Moves /\ UNCHANGED <<pipeline, accepted>>
             /\ (\E by : Disturbed(by)) /\ \E recorded : Record(recorded)
  BY <1>1, <1>2, <1>4 DEF CacheMiss
<1>5. ASSUME NEW list, Decline(c, list)
      PROVE  Moves /\ UNCHANGED <<pipeline, accepted>>
             /\ (\E by : Disturbed(by)) /\ \E recorded : Record(recorded)
  BY <1>1, <1>2, <1>5 DEF Decline, Respond
<1>6. ASSUME NEW recorded, NEW list, Generate(c, recorded, list)
      PROVE  Moves /\ UNCHANGED <<pipeline, accepted>>
             /\ (\E by : Disturbed(by)) /\ \E new : Record(new)
  BY <1>1, <1>2, <1>6 DEF Generate, Respond
<1>7. CASE Raise(c)
  <2>1. request'[c].phase = "over"
    BY <1>1, <1>7, EndedTyped DEF Raise
  <2>2. QED
    BY <1>1, <1>7, <2>1 DEF Raise, Ended
<1>8. CASE Complete(c)
  <2>1. request'[c].phase = "over"
    BY <1>1, <1>8, EndedTyped DEF Complete, Requests
  <2>2. QED
    BY <1>1, <1>8, <2>1 DEF Complete, Ended
<1>9. QED
  BY <1>3, <1>4, <1>5, <1>6, <1>7, <1>8 DEF ClientStep

(* The replacement ends every request, and leaves an ended one ended.      *)
LEMMA RestartMoves ==
  ASSUME TelemetryTypeOK, Restart
  PROVE  \A c \in Clients : request'[c].phase = "over"
<1> DEFINE gone == {c \in Clients : request[c].phase # "over"}
<1>1. request' = Ended(gone, "none", 0) /\ request \in [Clients -> Requests]
  BY DEF Restart, TelemetryTypeOK
<1> HIDE DEF gone
<1>2. \A c \in Clients :
         IF c \in gone THEN Ended(gone, "none", 0)[c].phase = "over"
         ELSE Ended(gone, "none", 0)[c] = request[c]
  BY <1>1, EndedTyped
<1>3. QED
  BY <1>1, <1>2 DEF gone

(* Main stays where its hands are.                                         *)
LEMMA FlowKept ==
  ASSUME Next, TypeOK, Flow
  PROVE  Flow'
<1>1. /\ Inspector \in Clients /\ Inspector \notin Users /\ Users \subseteq Clients
      /\ TelemetryTypeOK /\ request \in [Clients -> Requests]
      /\ Len(results) \in Nat /\ results \in Seq(Requests)
  BY InspectAssumption DEF TypeOK, TelemetryTypeOK
<1>2. Len(Probes) \in Nat \ {0}
  BY ProbesAsk, InspectAssumption DEF Range
<1>3. CASE Warm \/ Probe
  <2>1. UNCHANGED <<results, report>> /\ left' = left
    BY <1>3, Questions DEF inspection
  <2>2. PICK q \in Queries, authorized \in BOOLEAN, by \in SUBSET Kinds :
          /\ Arrive(Inspector, q, authorized, by)
          /\ \/ step' \in {"warming", "rewarming"} /\ step \in {"off", "warming"}
             \/ q = Asked /\ Asking' /\ (step = "ready" \/ Asking)
    BY <1>3, Questions
  <2>3. Mine'.query = q /\ Asked' = Asked
    BY <1>1, <2>1, <2>2 DEF Arrive, Mine, Asked
  <2>4. QED
    BY <1>1, <1>2, <2>1, <2>2, <2>3 DEF Flow, Asking
<1>4. CASE ClearAnswers
  BY <1>1, <1>4 DEF ClearAnswers, Heard, Asking, Mine, inspection, Flow
<1>5. CASE SnapshotBefore
  BY <1>1, <1>2, <1>5 DEF SnapshotBefore, Asking, Mine, telemetryVars, serving, Flow
<1>6. CASE Answered
  <2>1. /\ results' = Append(results, Mine) /\ Asking
        /\ Mine.phase = "over"
        /\ IF Len(results') = Len(Probes) THEN step' = "waiting" ELSE step' = "ready"
        /\ UNCHANGED <<request, report>>
    BY <1>6 DEF Answered, Heard, Asking, telemetryVars, serving
  <2>2. Len(results') = Len(results) + 1 /\ Len(results) < Len(Probes)
    BY <1>1, <2>1 DEF Flow, Asking, Mine, Asked
  <2>3. QED
    BY <1>1, <1>2, <2>1, <2>2 DEF Flow, Asking, Mine
<1>7. CASE SnapshotAfter
  BY <1>1, <1>7 DEF SnapshotAfter, Asking, Mine, telemetryVars, serving, Flow
<1>8. CASE Judge
  BY <1>1, <1>8 DEF Judge, Asking, Mine, telemetryVars, serving, Flow
<1>9. ASSUME NEW c \in Users, NEW q \in Queries, Visit(c, q) PROVE Flow'
  BY <1>1, <1>9 DEF Visit, Arrive, inspection, Flow, Asking, Mine, Asked
<1>10. ASSUME NEW c \in Clients, Serve(c) PROVE Flow'
  <2>1. /\ request[c].phase # "over" /\ UNCHANGED <<step, left, results, report>>
        /\ \A d \in Clients \ {c} : request'[d] = request[d]
        /\ request'[c].phase = "over" \/ request'[c].query = request[c].query
    BY <1>1, <1>10, ClientMoves DEF Serve, inspection
  <2>2. QED
    BY <1>1, <2>1 DEF Flow, Asking, Mine, Asked
<1>11. CASE Replace
  <2>1. Mine'.phase = "over" /\ UNCHANGED <<step, left, results, report>>
    BY <1>1, <1>11, RestartMoves DEF Replace, inspection, Mine
  <2>2. QED
    BY <2>1 DEF Flow, Asking, Mine, Asked
<1>12. CASE Transport
  BY <1>1, <1>12 DEF Transport, PipelineStep, Export, Flush, Scrape, serving, inspection, Flow,
        Asking, Mine, Asked
<1>13. CASE Tick
  <2>1. /\ UNCHANGED <<step, results, report, request>> /\ step # "judging"
    BY <1>13 DEF Tick, Pass, serving, inspection
  <2>2. QED
    BY <2>1 DEF Flow, Asking, Mine, Asked
<1>14. QED
  BY <1>3, <1>4, <1>5, <1>6, <1>7, <1>8, <1>9, <1>10, <1>11, <1>12, <1>13 DEF Next, InspectorStep

-----------------------------------------------------------------------------
(* Lag.                                                                    *)

(* The numbers the lag is reckoned with.                                   *)
LEMMA PipelineFacts ==
  ASSUME TelemetryTypeOK
  PROVE  /\ exportIn \in Int /\ 0 <= exportIn /\ exportIn <= ExportEvery
         /\ scrapeIn \in Int /\ 0 <= scrapeIn /\ scrapeIn <= ScrapeEvery
         /\ batch.left \in Int /\ -1 <= batch.left /\ batch.left <= BatchTimeout
         /\ Len(samples) \in Nat /\ Len(samples) <= Window
         /\ \A s \in Series :
               /\ count[s] \in Nat /\ batch.count[s] \in Nat /\ exposed[s] \in Nat
               /\ \A i \in 1..Len(samples) : samples[i][s] \in Nat
               /\ Due[s] = IF batch.left >= 0 /\ batch.count[s] # 0
                           THEN batch.count[s] ELSE exposed[s]
<1>1. exportIn \in 0..ExportEvery /\ scrapeIn \in 0..ScrapeEvery
  BY DEF TelemetryTypeOK
<1>2. batch.left \in -1..BatchTimeout /\ batch.count \in Snapshots
  BY DEF TelemetryTypeOK
<1>3. samples \in Seq(Snapshots) /\ Len(samples) <= Window
  BY DEF TelemetryTypeOK
<1>4. Len(samples) \in Nat /\ \A i \in 1..Len(samples) : samples[i] \in Snapshots
  <2> HIDE DEF Snapshots
  <2> QED BY <1>3
<1>5. count \in Snapshots /\ exposed \in Snapshots
  BY DEF TelemetryTypeOK
<1>6. \A s \in Series, f \in Snapshots : f[s] \in Nat
  BY DEF Snapshots
<1>7. \A s \in Series :
         Due[s] = IF batch.left >= 0 /\ batch.count[s] # 0 THEN batch.count[s] ELSE exposed[s]
  BY DEF Due, Over
<1>8. exportIn \in Int /\ 0 <= exportIn /\ exportIn <= ExportEvery
  BY <1>1, ClockFacts
<1>9. scrapeIn \in Int /\ 0 <= scrapeIn /\ scrapeIn <= ScrapeEvery
  BY <1>1, ClockFacts
<1>10. batch.left \in Int /\ -1 <= batch.left /\ batch.left <= BatchTimeout
  BY <1>2, ClockFacts
<1>11. QED
  BY <1>2, <1>3, <1>4, <1>5, <1>6, <1>7, <1>8, <1>9, <1>10

(* What the collector holds back, it holds back for its next batch.        *)
LEMMA HeldKept ==
  ASSUME TypeOK, Flow, Held, [Next]_vars
  PROVE  Held'
<1>1. TelemetryTypeOK
  BY DEF TypeOK
<1>2. CASE UNCHANGED batch
  BY <1>2 DEF Held
<1>3. CASE Export
  <2>1. batch'.left = IF batch.left < 0 THEN BatchTimeout ELSE batch.left
    BY <1>3 DEF Export
  <2>2. ~ (batch'.left < 0)
    BY <1>1, <2>1, PipelineFacts, ClockFacts
  <2>3. QED
    BY <2>2 DEF Held
<1>4. CASE Flush
  BY <1>4 DEF Flush, Held
<1>5. CASE Pass
  <2>1. batch'.count = batch.count /\ (batch'.left < 0 => batch.left < 0)
    <3>1. batch' = [batch EXCEPT !.left = IF @ > 0 THEN @ - 1 ELSE @]
      BY <1>5 DEF Pass
    <3>2. batch \in [left : -1..BatchTimeout, count : Snapshots]
      BY <1>1 DEF TelemetryTypeOK
    <3>3. batch'.count = batch.count
          /\ batch'.left = IF batch.left > 0 THEN batch.left - 1 ELSE batch.left
      BY <3>1, <3>2
    <3>4. QED
      BY <1>1, <3>3, PipelineFacts
  <2>2. QED
    BY <2>1 DEF Held
<1>6. QED
  <2>1. ASSUME Next PROVE Held'
    <3>1. CASE UNCHANGED telemetryVars
      BY <1>2, <3>1 DEF telemetryVars, pipeline
    <3>2. CASE \E c \in Clients, q \in Queries,
                  authorized \in BOOLEAN, by \in SUBSET Kinds :
                 Arrive(c, q, authorized, by)
      BY <1>2, <3>2 DEF Arrive, pipeline
    <3>3. CASE \E c \in Clients : ClientStep(c) \/ Raise(c)
      BY <1>1, <1>2, <3>3, ClientMoves DEF pipeline
    <3>4. CASE ClearAnswers \/ Restart \/ Scrape
      BY <1>2, <3>4 DEF ClearAnswers, Restart, Scrape, pipeline
    <3>5. QED
      BY <2>1, <1>3, <1>4, <1>5, <3>1, <3>2, <3>3, <3>4, StepsOfTelemetry DEF PipelineStep
  <2>2. QED
    BY <1>2, <2>1 DEF vars, telemetryVars, pipeline

(* One scrape more is one interval more.                                   *)
LEMMA OneMore ==
  ASSUME NEW n \in Int
  PROVE  /\ (n + 1) * ScrapeEvery = n * ScrapeEvery + ScrapeEvery
         /\ n * ScrapeEvery \in Int /\ (n >= 0 => n * ScrapeEvery >= 0)
<1>1. ScrapeEvery \in Int /\ ScrapeEvery > 0
  BY ClockFacts
<1>2. QED
  BY <1>1

(* Whatever moves no part of the pipeline, nor the series, keeps the lag.  *)
LEMMA SyncedKept ==
  ASSUME NEW s, NEW e, Synced(e, s), UNCHANGED pipeline, count'[s] = count[s]
  PROVE  Synced(e, s)'
BY DEF Synced, Due, Over, pipeline, Series

(* A scrape's due time is never before its batch's.                        *)
LEMMA ScrapeDue ==
  ASSUME TelemetryTypeOK, NEW i \in 1..Len(samples)
  PROVE  /\ (Len(samples) - i) * ScrapeEvery \in Int
         /\ ExportEvery + BatchTimeout + (Len(samples) - i) * ScrapeEvery
               + ScrapeEvery - scrapeIn \in Int
         /\ ExportEvery + BatchTimeout + (Len(samples) - i) * ScrapeEvery
               + ScrapeEvery - scrapeIn >= ExportEvery + BatchTimeout
<1> DEFINE n == (Len(samples) - i) * ScrapeEvery
<1>1. n \in Int /\ n >= 0
  <2>1. Len(samples) - i \in Int /\ Len(samples) - i >= 0
    BY PipelineFacts
  <2>2. QED
    BY <2>1, OneMore
<1>2. scrapeIn \in Int /\ scrapeIn <= ScrapeEvery
  BY PipelineFacts
<1>3. ExportEvery \in Int /\ BatchTimeout \in Int /\ ScrapeEvery \in Int
  BY ClockFacts
<1> HIDE DEF n
<1>4. n \in Int /\ ExportEvery + BatchTimeout + n + ScrapeEvery - scrapeIn \in Int
      /\ ExportEvery + BatchTimeout + n + ScrapeEvery - scrapeIn >= ExportEvery + BatchTimeout
  BY <1>1, <1>2, <1>3
<1>5. QED
  BY <1>4 DEF n

(* Nothing is asked of a series that has just grown.                       *)
LEMMA JustGrown ==
  ASSUME TelemetryTypeOK, NEW s, UNCHANGED pipeline
  PROVE  Synced(0, s) /\ Synced(0, s)'
<1>1. ~ (0 > ExportEvery - exportIn)
  BY PipelineFacts, ClockFacts
<1>2. ~ (0 > ExportEvery + BatchTimeout - batch.left)
  BY PipelineFacts, ClockFacts
<1> DEFINE T(i) == ExportEvery + BatchTimeout + (Len(samples) - i) * ScrapeEvery
                     + ScrapeEvery - scrapeIn
<1>3. ASSUME NEW i \in 1..Len(samples) PROVE ~ (0 > T(i))
  <2>1. T(i) \in Int /\ T(i) >= ExportEvery + BatchTimeout
    BY ScrapeDue
  <2> HIDE DEF T
  <2>2. QED
    BY <2>1, ClockFacts
<1>4. QED
  BY <1>1, <1>2, <1>3 DEF Synced, pipeline

(* When time passes, each stage is as much nearer as the series is older.  *)
LEMMA SyncedPasses ==
  ASSUME TelemetryTypeOK, NEW s \in Series, NEW e \in Nat, e > 0 => Synced(e - 1, s), Pass
  PROVE  Synced(e, s)'
<1>1. /\ exportIn' = exportIn - 1 /\ scrapeIn' = scrapeIn - 1
      /\ UNCHANGED <<count, exposed, samples>> /\ batch.left # 0
  BY DEF Pass, Settled, serving
<1>2. batch'.count = batch.count
      /\ batch'.left = IF batch.left > 0 THEN batch.left - 1 ELSE batch.left
  <2>1. batch' = [batch EXCEPT !.left = IF @ > 0 THEN @ - 1 ELSE @]
    BY DEF Pass
  <2>2. batch \in [left : -1..BatchTimeout, count : Snapshots]
    BY DEF TelemetryTypeOK
  <2>3. QED
    BY <2>1, <2>2
<1>3. Due'[s] = Due[s]
  <2>1. batch'.left >= 0 <=> batch.left >= 0
    BY <1>1, <1>2, PipelineFacts
  <2>2. QED
    BY <1>1, <1>2, <2>1 DEF Due, Over
<1>4. e > ExportEvery - exportIn' => count[s] = 0 \/ count[s] = Due[s]
  <2>1. e > ExportEvery - exportIn' => e > 0 /\ e - 1 > ExportEvery - exportIn
    BY <1>1, PipelineFacts, ClockFacts
  <2>2. QED
    BY <2>1 DEF Synced
<1>5. batch'.left >= 0 /\ e > ExportEvery + BatchTimeout - batch'.left => Due[s] = exposed[s]
  <2>1. batch'.left >= 0 /\ e > ExportEvery + BatchTimeout - batch'.left =>
           batch.left >= 0 /\ e > 0 /\ e - 1 > ExportEvery + BatchTimeout - batch.left
    <3>1. ExportEvery \in Nat /\ BatchTimeout \in Nat
      BY ClockFacts
    <3>2. batch.left \in Int /\ batch.left <= BatchTimeout /\ batch.left >= -1
      BY PipelineFacts
    <3>3. CASE batch.left > 0
      <4>1. batch'.left = batch.left - 1
        BY <1>2, <3>3
      <4>2. QED
        BY <3>1, <3>2, <3>3, <4>1
    <3>4. CASE ~ (batch.left > 0)
      <4>1. batch'.left = -1
        BY <1>1, <1>2, <3>2, <3>4
      <4>2. QED
        BY <4>1
    <3>5. QED
      BY <3>3, <3>4
  <2>2. QED
    BY <2>1 DEF Synced
<1>6. ASSUME NEW i \in 1..Len(samples),
             e > ExportEvery + BatchTimeout + (Len(samples) - i) * ScrapeEvery
                   + ScrapeEvery - scrapeIn'
      PROVE  samples[i][s] = exposed[s]
  <2> DEFINE n == (Len(samples) - i) * ScrapeEvery
  <2>1. /\ n \in Int /\ e > ExportEvery + BatchTimeout + n + ScrapeEvery - (scrapeIn - 1)
        /\ ExportEvery + BatchTimeout + n + ScrapeEvery - scrapeIn \in Int
        /\ ExportEvery + BatchTimeout + n + ScrapeEvery - scrapeIn >= ExportEvery + BatchTimeout
    BY <1>1, <1>6, ScrapeDue
  <2>2. /\ ExportEvery \in Nat /\ BatchTimeout \in Nat /\ ScrapeEvery \in Nat
        /\ scrapeIn \in Int
    BY ClockFacts, PipelineFacts
  <2> HIDE DEF n
  <2>3. e > 0 /\ e - 1 > ExportEvery + BatchTimeout + n + ScrapeEvery - scrapeIn
    BY <2>1, <2>2
  <2>4. Synced(e - 1, s)
    BY <2>3
  <2>5. QED
    BY <2>3, <2>4 DEF Synced, n
<1>7. QED
  BY <1>1, <1>3, <1>4, <1>5, <1>6 DEF Synced

(* The pipeline takes what it holds one stage on, without losing time.     *)
LEMMA SyncedMoves ==
  ASSUME TelemetryTypeOK, Held, NEW s \in Series, NEW e \in Nat, Synced(e, s), PipelineStep
  PROVE  Synced(e, s)'
<1>1. /\ (e > ExportEvery - exportIn => count[s] = 0 \/ count[s] = Due[s])
      /\ (batch.left >= 0 /\ e > ExportEvery + BatchTimeout - batch.left => Due[s] = exposed[s])
  BY DEF Synced
<1> DEFINE Old(i) == ExportEvery + BatchTimeout + (Len(samples) - i) * ScrapeEvery
                       + ScrapeEvery - scrapeIn
<1>2. \A i \in 1..Len(samples) : e > Old(i) => samples[i][s] = exposed[s]
  BY DEF Synced
<1>3. CASE Export
  <2>1. /\ exportIn = 0 /\ exportIn' = ExportEvery
        /\ batch' = [left |-> IF batch.left < 0 THEN BatchTimeout ELSE batch.left,
                     count |-> Over(count, batch.count)]
        /\ UNCHANGED <<count, exposed, scrapeIn, samples>>
    BY <1>3 DEF Export, serving
  <2>2. /\ batch'.left = IF batch.left < 0 THEN BatchTimeout ELSE batch.left
        /\ batch'.count[s] = IF count[s] = 0 THEN batch.count[s] ELSE count[s]
    BY <2>1 DEF Over
  <2>3. batch.left < 0 => batch.count[s] = 0
    BY DEF Held, NoSeries
  <2>4. batch'.left >= 0
    BY <2>2, PipelineFacts, ClockFacts
  <2>5. Due'[s] = IF count[s] = 0 THEN Due[s] ELSE count[s]
    <3>1. Due'[s] = IF batch'.count[s] # 0 THEN batch'.count[s] ELSE exposed[s]
      BY <2>1, <2>4 DEF Due, Over
    <3>2. QED
      BY <2>2, <2>3, <3>1, PipelineFacts
  <2>6. e > ExportEvery + BatchTimeout - batch'.left => Due'[s] = exposed[s]
    <3>1. e > ExportEvery => Due'[s] = Due[s]
      BY <1>1, <2>1, <2>5, ClockFacts
    <3>2. CASE batch.left < 0
      <4>1. Due[s] = exposed[s] /\ batch'.left = BatchTimeout
        BY <2>2, <3>2, PipelineFacts
      <4>2. ExportEvery + BatchTimeout - batch'.left = ExportEvery
        BY <4>1, ClockFacts
      <4>3. QED
        BY <3>1, <4>1, <4>2
    <3>3. CASE ~ (batch.left < 0)
      <4>1. batch'.left = batch.left /\ batch.left >= 0
        BY <2>2, <3>3, PipelineFacts
      <4>2. e > ExportEvery + BatchTimeout - batch.left => e > ExportEvery
        BY PipelineFacts, ClockFacts
      <4>3. QED
        BY <1>1, <3>1, <4>1, <4>2
    <3>4. QED
      BY <3>2, <3>3
  <2>7. QED
    BY <1>1, <1>2, <2>1, <2>2, <2>4, <2>5, <2>6, PipelineFacts, ClockFacts DEF Synced
<1>4. CASE Flush
  <2>1. /\ batch.left = 0 /\ exposed' = Over(batch.count, exposed)
        /\ batch'.left = -1
        /\ UNCHANGED <<count, exportIn, scrapeIn, samples>>
    BY <1>4 DEF Flush, serving
  <2>2. exposed'[s] = Due[s]
    BY <2>1 DEF Due
  <2>3. Due'[s] = Due[s]
    BY <2>1, <2>2 DEF Due
  <2>4. ASSUME NEW i \in 1..Len(samples), e > Old(i)
        PROVE  samples[i][s] = exposed'[s]
    <3>1. Old(i) \in Int /\ Old(i) >= ExportEvery + BatchTimeout
      BY ScrapeDue
    <3> HIDE DEF Old
    <3>2. e > ExportEvery + BatchTimeout - batch.left
      BY <2>1, <2>4, <3>1, ClockFacts
    <3>3. QED
      BY <1>1, <1>2, <2>1, <2>2, <2>4, <3>2, ClockFacts
  <2>5. QED
    BY <1>1, <2>1, <2>2, <2>3, <2>4 DEF Synced
<1>5. CASE Scrape
  <2> DEFINE all == Append(samples, exposed)
             N == Len(samples)
  <2>1. /\ scrapeIn = 0 /\ scrapeIn' = ScrapeEvery
        /\ samples' = IF Len(all) > Window THEN Tail(all) ELSE all
        /\ UNCHANGED <<count, exportIn, batch, exposed>>
    BY <1>5 DEF Scrape, serving
  <2>2. Due' = Due
    BY <2>1 DEF Due, Over
  <2>3. samples \in Seq(Snapshots) /\ exposed \in Snapshots /\ N \in Nat
    BY DEF TelemetryTypeOK
  <2>4. /\ all \in Seq(Snapshots) /\ Len(all) = N + 1
        /\ all[N + 1] = exposed /\ \A i \in 1..N : all[i] = samples[i]
    <3> HIDE DEF Snapshots
    <3> QED BY <2>3
  <2>5. PICK d \in {0, 1} :
           Len(samples') = N + 1 - d /\ \A i \in 1..Len(samples') : samples'[i] = all[i + d]
    <3>1. CASE Len(all) > Window
      <4>1. samples' = Tail(all)
        BY <2>1, <3>1
      <4>2. Len(samples') = N + 1 - 1 /\ \A i \in 1..Len(samples') : samples'[i] = all[i + 1]
        <5> HIDE DEF all, Snapshots, N
        <5> QED BY <2>3, <2>4, <4>1
      <4>3. QED
        BY <4>2
    <3>2. CASE ~ (Len(all) > Window)
      <4>1. samples' = all
        BY <2>1, <3>2
      <4> HIDE DEF all, N
      <4>2. Len(samples') = N + 1 - 0 /\ \A i \in 1..Len(samples') : samples'[i] = all[i + 0]
        BY <2>3, <2>4, <4>1
      <4>3. QED
        BY <4>2
    <3>3. QED
      BY <3>1, <3>2
  <2> HIDE DEF all
  <2>6. ASSUME NEW i \in 1..Len(samples'),
               e > ExportEvery + BatchTimeout + (Len(samples') - i) * ScrapeEvery
                     + ScrapeEvery - scrapeIn'
        PROVE  samples'[i][s] = exposed[s]
    <3> DEFINE j == i + d
    <3>1. /\ j \in 1..(N + 1) /\ samples'[i] = all[j]
          /\ Len(samples') - i = N + 1 - j
      BY <2>3, <2>5
    <3>2. CASE j = N + 1
      BY <2>4, <3>1, <3>2
    <3>3. CASE j \in 1..N
      <4>1. samples'[i] = samples[j]
        BY <2>4, <3>1, <3>3
      <4>2. (N + 1 - j) * ScrapeEvery = (N - j) * ScrapeEvery + ScrapeEvery
            /\ (N - j) * ScrapeEvery \in Int
        <5>1. N - j \in Int /\ N + 1 - j = (N - j) + 1
          BY <2>3, <3>3
        <5>2. QED
          BY <5>1, OneMore
      <4>3. e > ExportEvery + BatchTimeout + (N + 1 - j) * ScrapeEvery + ScrapeEvery - ScrapeEvery
        BY <2>1, <2>6, <3>1
      <4> DEFINE n == (N - j) * ScrapeEvery
      <4>4. e > ExportEvery + BatchTimeout + n + ScrapeEvery - 0
        <5>1. ExportEvery \in Int /\ BatchTimeout \in Int /\ ScrapeEvery \in Int
          BY ClockFacts
        <5>2. n \in Int /\ e > ExportEvery + BatchTimeout + (n + ScrapeEvery) + ScrapeEvery - ScrapeEvery
          BY <4>2, <4>3
        <5> HIDE DEF n
        <5>3. QED
          BY <5>1, <5>2
      <4>5. e > Old(j)
        BY <2>1, <4>4 DEF n
      <4> HIDE DEF j, Old, n
      <4>6. QED
        BY <1>2, <3>3, <4>1, <4>5
    <3>4. QED
      BY <2>3, <3>1, <3>2, <3>3
  <2>7. QED
    BY <1>1, <2>1, <2>2, <2>6 DEF Synced
<1>6. QED
  BY <1>3, <1>4, <1>5 DEF PipelineStep

(* The ages tell how much of each group has come through.                  *)
LEMMA LagKept ==
  ASSUME TypeOK, Flow, Held, LagInv, [Next]_vars
  PROVE  LagInv'
<1>1. TelemetryTypeOK /\ age \in [Dated -> 0..(Memory + 1)] /\ Memory \in Nat
  BY ClockFacts DEF TypeOK, TelemetryTypeOK
<1>2. \A g \in Dated : \A s \in g : s \in Series
  BY DEF Dated, Series, Calls
<1>3. \A g \in Dated : \A e \in 0..age[g] : e \in Nat
  BY <1>1
<1>4. CASE UNCHANGED <<pipeline, count, age>>
  <2> SUFFICES ASSUME NEW g \in Dated, NEW s \in g, NEW e \in 0..age'[g] PROVE Synced(e, s)'
    BY DEF LagInv
  <2>1. Synced(e, s)
    BY <1>4 DEF LagInv
  <2>2. QED
    BY <1>4, <2>1, SyncedKept
<1>5. ASSUME NEW recorded, Record(recorded), UNCHANGED pipeline PROVE LagInv'
  <2> SUFFICES ASSUME NEW g \in Dated, NEW s \in g, NEW e \in 0..age'[g] PROVE Synced(e, s)'
    BY DEF LagInv
  <2>1. CASE g \cap recorded # {}
    <3>1. age'[g] = 0
      BY <1>5, <2>1 DEF Record
    <3>2. e = 0
      BY <3>1
    <3>3. Synced(0, s)'
      BY <1>1, <1>5, JustGrown
    <3>4. QED
      BY <3>2, <3>3
  <2>2. CASE g \cap recorded = {}
    <3>1. age'[g] = age[g] /\ s \notin recorded /\ s \in Series
      BY <1>2, <1>5, <2>2 DEF Record
    <3>2. count'[s] = count[s]
      BY <1>1, <1>5, <3>1, PipelineFacts DEF Record
    <3>3. Synced(e, s)
      BY <3>1 DEF LagInv
    <3>4. QED
      BY <1>5, <3>2, <3>3, SyncedKept
  <2>3. QED
    BY <2>1, <2>2
<1>6. CASE Restart
  <2> SUFFICES ASSUME NEW g \in Dated, NEW s \in g, NEW e \in 0..age'[g] PROVE Synced(e, s)'
    BY DEF LagInv
  <2>1. /\ count'[s] = 0 /\ UNCHANGED <<batch, exposed, scrapeIn, samples, age>>
    BY <1>2, <1>6 DEF Restart, NoSeries
  <2>2. Synced(e, s)
    BY <2>1 DEF LagInv
  <2>3. Due' = Due
    BY <2>1 DEF Due, Over
  <2>4. QED
    BY <2>1, <2>2, <2>3 DEF Synced
<1>7. CASE PipelineStep
  <2> SUFFICES ASSUME NEW g \in Dated, NEW s \in g, NEW e \in 0..age'[g] PROVE Synced(e, s)'
    BY DEF LagInv
  <2>1. age' = age
    BY <1>7 DEF PipelineStep, Export, Flush, Scrape
  <2>2. Synced(e, s) /\ e \in Nat /\ s \in Series
    BY <1>2, <1>3, <2>1 DEF LagInv
  <2>3. QED
    BY <1>1, <1>7, <2>2, SyncedMoves
<1>8. CASE Pass
  <2> SUFFICES ASSUME NEW g \in Dated, NEW s \in g, NEW e \in 0..age'[g] PROVE Synced(e, s)'
    BY DEF LagInv
  <2>1. age'[g] = IF age[g] <= Memory THEN age[g] + 1 ELSE age[g]
    BY <1>8 DEF Pass
  <2>2. age[g] \in Int
    BY <1>1
  <2>3. e \in Nat /\ (e > 0 => e - 1 \in 0..age[g])
    BY <2>1, <2>2
  <2>4. e > 0 => Synced(e - 1, s)
    BY <2>3 DEF LagInv
  <2>5. QED
    BY <1>1, <1>2, <1>8, <2>3, <2>4, SyncedPasses
<1>9. CASE Next
  <2>1. CASE UNCHANGED telemetryVars
    BY <1>4, <2>1 DEF telemetryVars, serving
  <2>2. CASE \E c \in Clients, q \in Queries,
                authorized \in BOOLEAN, by \in SUBSET Kinds :
                 Arrive(c, q, authorized, by)
    BY <1>4, <2>2 DEF Arrive
  <2>3. CASE \E c \in Clients : ClientStep(c) \/ Raise(c)
    BY <1>1, <1>4, <1>5, <2>3, ClientMoves
  <2>4. CASE ClearAnswers
    BY <1>4, <2>4 DEF ClearAnswers
  <2>5. QED
    BY <1>6, <1>7, <1>8, <1>9, <2>1, <2>2, <2>3, <2>4, StepsOfTelemetry
<1>10. QED
  BY <1>4, <1>9 DEF vars, telemetryVars, serving

(* A series whose group is older than the memory shows no change in any    *)
(* range.                                                                  *)
LEMMA NothingRises ==
  ASSUME TelemetryTypeOK, NEW e \in Nat, e > Memory, NEW s \in Series, Synced(e, s)
  PROVE  Rises(s) = {}
<1>1. Memory = Window * ScrapeEvery + ExportEvery + BatchTimeout
      /\ Window \in Nat /\ ScrapeEvery \in Nat /\ ExportEvery \in Nat /\ BatchTimeout \in Nat
  BY ClockFacts
<1>2. ASSUME NEW i \in 1..Len(samples) PROVE samples[i][s] = exposed[s]
  <2> DEFINE k == Len(samples) - i
             n == k * ScrapeEvery
  <2>1. k \in Int /\ k + 1 <= Window /\ scrapeIn \in Int /\ scrapeIn >= 0
    BY PipelineFacts, <1>1
  <2>2. n \in Int /\ (k + 1) * ScrapeEvery = n + ScrapeEvery
    BY <2>1, OneMore
  <2>3. (k + 1) * ScrapeEvery <= Window * ScrapeEvery
    <3> HIDE DEF k, n
    <3> DEFINE m == k + 1
    <3>1. m \in Int /\ m <= Window
      BY <1>1, <2>1
    <3> HIDE DEF m
    <3>2. m * ScrapeEvery <= Window * ScrapeEvery
      BY <1>1, <3>1
    <3>3. QED
      BY <3>2 DEF m
  <2>4. Window * ScrapeEvery \in Nat
    BY ClockFacts
  <2> HIDE DEF n
  <2>5. e > ExportEvery + BatchTimeout + n + ScrapeEvery - scrapeIn
    <3> HIDE DEF k
    <3> DEFINE w == Window * ScrapeEvery
               m == (k + 1) * ScrapeEvery
    <3>1. w \in Nat /\ m = n + ScrapeEvery /\ m <= w /\ e > w + ExportEvery + BatchTimeout
      BY <1>1, <2>2, <2>3, <2>4
    <3> HIDE DEF w, m
    <3>2. QED
      BY <1>1, <2>1, <2>2, <3>1
  <2>6. QED
    BY <2>5 DEF Synced, n
<1>3. ASSUME NEW i \in 1..(Len(samples) - 1)
      PROVE  samples[i][s] = exposed[s] /\ samples[i + 1][s] = exposed[s] /\ exposed[s] \in Nat
  <2>1. i \in 1..Len(samples) /\ i + 1 \in 1..Len(samples)
    BY PipelineFacts
  <2>2. QED
    BY <1>2, <2>1, PipelineFacts
<1>4. \A i \in 1..(Len(samples) - 1) :
         (IF samples[i][s] = 0 THEN {}
          ELSE IF samples[i + 1][s] < samples[i][s] THEN 1..samples[i + 1][s]
               ELSE (samples[i][s] + 1)..samples[i + 1][s]) = {}
  BY <1>3
<1>5. QED
  BY <1>4 DEF Rises

(* Nor does a series that is still 0 everywhere.                           *)
LEMMA NoneRises ==
  ASSUME NEW s, \A i \in 1..Len(samples) : samples[i][s] = 0, TelemetryTypeOK
  PROVE  Rises(s) = {}
<1>1. \A i \in 1..(Len(samples) - 1) : samples[i][s] = 0
  BY PipelineFacts
<1>2. QED
  BY <1>1 DEF Rises

(* So an alarm over a window, and the canary's rate, are about what is     *)
(* within memory.                                                          *)
LEMMA AlarmWithinMemory ==
  ASSUME TypeOK, LagInv
  PROVE  AlarmIsRecent /\ CanaryMeasured
<1>1. TelemetryTypeOK /\ age \in [Dated -> 0..(Memory + 1)] /\ Memory \in Nat
  BY ClockFacts DEF TypeOK, TelemetryTypeOK
<1>2. ASSUME NEW g \in Dated, ~ (age[g] <= Memory), NEW s \in g
      PROVE  Rises(s) = {}
  <2>1. age[g] \in Nat /\ age[g] > Memory /\ age[g] \in 0..age[g]
    BY <1>1, <1>2
  <2>2. s \in Series
    BY DEF Dated, Series, Calls
  <2>3. PICK e \in Nat : e > Memory /\ e \in 0..age[g]
    BY <2>1
  <2>4. Synced(e, s)
    BY <2>3 DEF LagInv
  <2>5. QED
    BY <1>1, <2>2, <2>3, <2>4, NothingRises
<1>3. {"rerank_timeout"} \in Dated /\ {"llm_error"} \in Dated /\ Answers \in Dated
  BY DEF Dated
<1>4. ~ (age[{"rerank_timeout"}] <= Memory) => Increase("rerank_timeout") = 0
  BY <1>2, <1>3, FS_EmptySet DEF Increase
<1>5. ~ (age[{"llm_error"}] <= Memory) => Increase("llm_error") = 0
  BY <1>2, <1>3, FS_EmptySet DEF Increase
<1>6. ~ (age[Answers] <= Memory) => Rate(Answers) = 0
  <2>1. ~ (age[Answers] <= Memory) => UNION {Rises(s) : s \in Answers} = {}
    BY <1>2, <1>3
  <2>2. QED
    BY <2>1, FS_EmptySet DEF Rate
<1>7. AlarmIsRecent
  BY <1>4, <1>5 DEF AlarmIsRecent, RetrievalChecks, ServingChecks, Mark
<1>8. CanaryMeasured
  BY <1>6 DEF CanaryMeasured, CanaryHealthy
<1>9. QED
  BY <1>7, <1>8

-----------------------------------------------------------------------------
(* Every request is counted once.                                          *)

Uncounted == {c \in Clients : request[c].phase \in {"arrived", "scored", "unscored", "ready"}}
Total == count["http_2xx"] + count["http_4xx"] + count["http_5xx"]

(* What a recording does to the number of answers counted.                 *)
LEMMA TotalRecorded ==
  ASSUME TelemetryTypeOK, NEW recorded, Record(recorded)
  PROVE  /\ Total \in Nat
         /\ recorded \cap Answers = {} => Total' = Total
         /\ \A a \in Answers : recorded = {a} => Total' = Total + 1
<1>1. /\ count["http_2xx"] \in Nat /\ count["http_4xx"] \in Nat /\ count["http_5xx"] \in Nat
      /\ \A s \in Answers : count'[s] = count[s] + IF s \in recorded THEN 1 ELSE 0
  BY DEF TelemetryTypeOK, Snapshots, Series, Answers, Record
<1>2. /\ count'["http_2xx"] = count["http_2xx"] + IF "http_2xx" \in recorded THEN 1 ELSE 0
      /\ count'["http_4xx"] = count["http_4xx"] + IF "http_4xx" \in recorded THEN 1 ELSE 0
      /\ count'["http_5xx"] = count["http_5xx"] + IF "http_5xx" \in recorded THEN 1 ELSE 0
  BY <1>1 DEF Answers
<1>3. recorded \cap Answers = {} => Total' = Total
  BY <1>1, <1>2 DEF Answers, Total
<1>4. ASSUME NEW a \in Answers, recorded = {a} PROVE Total' = Total + 1
  <2>1. CASE a = "http_2xx"
    BY <1>1, <1>2, <1>4, <2>1 DEF Total
  <2>2. CASE a = "http_4xx"
    BY <1>1, <1>2, <1>4, <2>2 DEF Total
  <2>3. CASE a = "http_5xx"
    BY <1>1, <1>2, <1>4, <2>3 DEF Total
  <2>4. QED
    BY <1>4, <2>1, <2>2, <2>3 DEF Answers
<1>5. QED
  BY <1>1, <1>3, <1>4 DEF Total

(* The requests not yet counted are finitely many.                         *)
LEMMA UncountedFinite ==
  ASSUME TRUE
  PROVE  IsFiniteSet(Uncounted) /\ Cardinality(Uncounted) \in Nat
<1>1. IsFiniteSet(Clients) /\ Uncounted \in SUBSET Clients
  BY TelemetryAssumption DEF Uncounted
<1>2. IsFiniteSet(Uncounted)
  BY <1>1, FS_Subset
<1>3. QED
  BY <1>2, FS_CardinalityType

(* A step of a client counts its request at most once, and then for good.  *)
LEMMA ClientCounted ==
  ASSUME TelemetryTypeOK, NEW c \in Clients, ClientStep(c) \/ Raise(c)
  PROVE  \/ Uncounted' = Uncounted /\ Total' = Total
         \/ c \in Uncounted /\ Uncounted' = Uncounted \ {c} /\ Total' = Total + 1
<1>1. request \in [Clients -> Requests]
  BY DEF TelemetryTypeOK
<1>2. ASSUME NEW recorded, Record(recorded), recorded \cap Answers = {},
             c \in Uncounted, request'[c].phase \in {"scored", "unscored", "ready"}
      PROVE  Uncounted' = Uncounted /\ Total' = Total
  <2>1. \A d \in Clients \ {c} : request'[d] = request[d]
    BY ClientMoves
  <2>2. \A d \in Clients : d \in Uncounted' <=> d \in Uncounted
    BY <1>2, <2>1 DEF Uncounted
  <2>3. Uncounted' = Uncounted
    BY <2>2 DEF Uncounted
  <2>4. QED
    BY <1>2, <2>3, TotalRecorded
<1>3. ASSUME NEW a \in Answers, Record({a}), c \in Uncounted,
             request'[c].phase \in {"started", "over"}
      PROVE  c \in Uncounted /\ Uncounted' = Uncounted \ {c} /\ Total' = Total + 1
  <2>1. \A d \in Clients \ {c} : request'[d] = request[d]
    BY ClientMoves
  <2>2. \A d \in Clients : d \in Uncounted' <=> d \in Uncounted \ {c}
    BY <1>3, <2>1 DEF Uncounted
  <2>3. Uncounted' = Uncounted \ {c}
    BY <2>2 DEF Uncounted
  <2>4. QED
    BY <1>3, <2>3, TotalRecorded
<1>4. ASSUME request[c].phase = "started", request'[c].phase = "over", UNCHANGED count
      PROVE  Uncounted' = Uncounted /\ Total' = Total
  <2>1. \A d \in Clients \ {c} : request'[d] = request[d]
    BY ClientMoves
  <2>2. \A d \in Clients : d \in Uncounted' <=> d \in Uncounted
    BY <1>4, <2>1 DEF Uncounted
  <2>3. Uncounted' = Uncounted
    BY <2>2 DEF Uncounted
  <2>4. QED
    BY <1>4, <2>3 DEF Total
<1>5. CASE CacheHit(c)
  <2>1. c \in Uncounted /\ request'[c].phase = "ready" /\ Record({"cache_hit"})
    BY <1>1, <1>5 DEF CacheHit, Uncounted, Requests
  <2>2. {"cache_hit"} \cap Answers = {}
    BY DEF Answers
  <2>3. QED
    BY <1>2, <2>1, <2>2
<1>6. ASSUME NEW inTime \in BOOLEAN, CacheMiss(c, inTime)
      PROVE  Uncounted' = Uncounted /\ Total' = Total
  <2>1. c \in Uncounted /\ request'[c].phase \in {"scored", "unscored"}
    BY <1>1, <1>6 DEF CacheMiss, Uncounted, Requests
  <2>2. PICK recorded : Record(recorded) /\ recorded \cap Answers = {}
    BY <1>6 DEF CacheMiss, Answers
  <2>3. QED
    BY <1>2, <2>1, <2>2
<1>7. ASSUME NEW recorded \in Generations(c), NEW list, Generate(c, recorded, list)
      PROVE  Uncounted' = Uncounted /\ Total' = Total
  <2>1. c \in Uncounted /\ request'[c].phase = "ready" /\ Record(recorded)
    BY <1>1, <1>7 DEF Generate, Respond, Uncounted, Requests
  <2>2. recorded \cap Answers = {}
    <3>1. recorded \subseteq Decisions \cup Calls
      BY <1>7 DEF Generations, Straight, Decisions, Calls
    <3>2. (Decisions \cup Calls) \cap Answers = {}
      BY DEF Decisions, Calls, Answers
    <3>3. QED
      BY <3>1, <3>2
  <2>3. QED
    BY <1>2, <2>1, <2>2
<1>8. CASE ResponseStart(c)
  <2>1. c \in Uncounted /\ request'[c].phase = "started" /\ Record({StatusClass(request[c].code)})
    BY <1>1, <1>8 DEF ResponseStart, Uncounted, Requests
  <2>2. PICK a \in Answers : a = StatusClass(request[c].code)
    BY DEF StatusClass, Answers
  <2>3. QED
    BY <1>3, <2>1, <2>2
<1>9. CASE Raise(c)
  <2>1. request'[c].phase = "over" /\ request[c].phase # "over"
    BY <1>1, <1>9 DEF Raise, Ended, NoRequest, Reply
  <2>2. CASE request[c].phase = "started"
    BY <1>4, <1>9, <2>1, <2>2 DEF Raise
  <2>3. CASE request[c].phase # "started"
    <3>1. c \in Uncounted
      BY <1>1, <2>1, <2>3 DEF Uncounted, Requests
    <3>2. Record({StatusClass(500)}) /\ StatusClass(500) \in Answers
      BY <1>9, <2>3 DEF Raise, StatusClass, Answers
    <3>3. PICK a \in Answers : a = StatusClass(500)
      BY <3>2
    <3>4. QED
      BY <1>3, <2>1, <3>1, <3>2, <3>3
  <2>4. QED
    BY <2>2, <2>3
<1>10. CASE Complete(c)
  <2>1. request[c].phase = "started" /\ request'[c].phase = "over" /\ UNCHANGED count
    BY <1>1, <1>10 DEF Complete, Ended, NoRequest, Reply
  <2>2. QED
    BY <1>4, <2>1
<1>11. ASSUME NEW list, Decline(c, list)
      PROVE  Uncounted' = Uncounted /\ Total' = Total
  <2>1. c \in Uncounted /\ request'[c].phase = "ready" /\ Record({"cache_miss"})
    BY <1>1, <1>11 DEF Decline, Respond, Uncounted, Requests
  <2>2. {"cache_miss"} \cap Answers = {}
    BY DEF Answers
  <2>3. QED
    BY <1>2, <2>1, <2>2
<1>12. QED
  BY <1>5, <1>6, <1>7, <1>8, <1>9, <1>10, <1>11 DEF ClientStep

(* No step counts a request twice, or loses one.                           *)
LEMMA CountedKept ==
  ASSUME TypeOK, Flow, CountedOnce, [Next]_vars
  PROVE  CountedOnce'
<1>1. TelemetryTypeOK /\ Total + Cardinality(Uncounted) = accepted
  BY DEF TypeOK, CountedOnce, Total, Uncounted
<1>2. Total \in Nat /\ accepted \in Nat
  <2>1. count \in [Series -> Nat] /\ accepted \in 0..MaxRequests
    BY <1>1 DEF TelemetryTypeOK, Snapshots
  <2>2. Answers \subseteq Series
    BY DEF Series
  <2>3. \A s \in Answers : count[s] \in Nat
    BY <2>1, <2>2
  <2>4. QED
    BY <2>1, <2>3, ClockFacts DEF Total, Answers
<1>3. IsFiniteSet(Uncounted) /\ Cardinality(Uncounted) \in Nat
  BY UncountedFinite
<1> SUFFICES Total' + Cardinality(Uncounted') = accepted'
  BY DEF CountedOnce, Total, Uncounted
<1>4. CASE UNCHANGED <<count, request, accepted>>
  <2>1. Uncounted' = Uncounted /\ Total' = Total
    BY <1>4 DEF Uncounted, Total
  <2>2. QED
    BY <1>1, <1>4, <2>1
<1>5. ASSUME NEW c \in Clients, NEW q \in Queries, NEW authorized \in BOOLEAN, NEW by,
             Arrive(c, q, authorized, by)
      PROVE  Total' + Cardinality(Uncounted') = accepted'
  <2>1. /\ c \notin Uncounted /\ request'[c].phase \in {"arrived", "ready"}
        /\ accepted' = accepted + 1 /\ UNCHANGED count
        /\ \A d \in Clients \ {c} : request'[d] = request[d]
    BY <1>1, <1>5 DEF Arrive, Uncounted, TelemetryTypeOK
  <2>2. \A d \in Clients : d \in Uncounted' <=> d \in Uncounted \cup {c}
    BY <2>1 DEF Uncounted
  <2>3. Uncounted' = Uncounted \cup {c}
    BY <2>2 DEF Uncounted
  <2>4. Cardinality(Uncounted \cup {c}) = Cardinality(Uncounted) + 1
    BY <1>3, <2>1, FS_AddElement
  <2>5. Total' = Total
    BY <2>1 DEF Total
  <2>6. QED
    BY <1>1, <1>2, <1>3, <2>1, <2>3, <2>4, <2>5
<1>6. ASSUME NEW c \in Clients, ClientStep(c) \/ Raise(c)
      PROVE  Total' + Cardinality(Uncounted') = accepted'
  <2>1. accepted' = accepted
    BY <1>1, <1>6, ClientMoves
  <2>2. CASE Uncounted' = Uncounted /\ Total' = Total
    BY <1>1, <2>1, <2>2
  <2>3. CASE c \in Uncounted /\ Uncounted' = Uncounted \ {c} /\ Total' = Total + 1
    <3>1. Cardinality(Uncounted \ {c}) = Cardinality(Uncounted) - 1
      BY <1>3, <2>3, FS_RemoveElement
    <3>2. QED
      BY <1>1, <1>2, <1>3, <2>1, <2>3, <3>1
  <2>4. QED
    BY <1>1, <1>6, <2>2, <2>3, ClientCounted
<1>7. CASE Restart
  <2>1. \A c \in Clients : request'[c].phase = "over"
    BY <1>1, <1>7, RestartMoves
  <2>2. Uncounted' = {}
    BY <2>1 DEF Uncounted
  <2>3. Total' = 0 /\ accepted' = 0
    BY <1>7 DEF Restart, Total, NoSeries, Series, Answers
  <2>4. QED
    BY <2>2, <2>3, FS_EmptySet
<1>8. CASE Next
  <2>1. CASE UNCHANGED telemetryVars
    BY <1>4, <2>1 DEF telemetryVars, serving
  <2>2. CASE ClearAnswers \/ PipelineStep \/ Pass
    BY <1>4, <2>2 DEF ClearAnswers, PipelineStep, Export, Flush, Scrape, Pass, serving
  <2>3. QED
    BY <1>5, <1>6, <1>7, <1>8, <2>1, <2>2, StepsOfTelemetry
<1>9. QED
  BY <1>4, <1>8 DEF vars, telemetryVars, serving

-----------------------------------------------------------------------------
(* What is read anywhere is behind the instruments.                        *)

(* Disturbances are counted.                                               *)
LEMMA DisturbancesTyped ==
  ASSUME TelemetryTypeOK
  PROVE  disturbances \in [Kinds -> Nat] /\ \A k \in Kinds : disturbances[k] \in Nat
BY TelemetryAssumption DEF TelemetryTypeOK

(* What has been met stays on record.                                      *)
LEMMA DisturbancesStay ==
  ASSUME TypeOK, Flow, [Next]_vars
  PROVE  \A k \in Kinds : /\ disturbances[k] \in Nat /\ disturbances'[k] \in Nat
                          /\ disturbances[k] <= disturbances'[k]
<1>1. TelemetryTypeOK /\ \A k \in Kinds : disturbances[k] \in Nat
  BY DisturbancesTyped DEF TypeOK
<1>2. CASE UNCHANGED disturbances
  BY <1>1, <1>2
<1>3. ASSUME NEW by, Disturbed(by)
      PROVE  \A k \in Kinds : disturbances'[k] \in Nat /\ disturbances[k] <= disturbances'[k]
  BY <1>1, <1>3 DEF Disturbed
<1>4. CASE Next
  <2>1. CASE UNCHANGED telemetryVars
    BY <1>2, <2>1 DEF telemetryVars, serving
  <2>2. CASE \E c \in Clients, q \in Queries,
                authorized \in BOOLEAN, by \in SUBSET Kinds :
                 Arrive(c, q, authorized, by)
    BY <1>1, <1>3, <2>2 DEF Arrive
  <2>3. CASE \E c \in Clients : ClientStep(c) \/ Raise(c)
    BY <1>1, <1>2, <1>3, <2>3, ClientMoves
  <2>4. CASE Restart
    BY <1>1, <1>3, <2>4 DEF Restart
  <2>5. CASE ClearAnswers
    BY <1>1, <1>3, <2>5 DEF ClearAnswers
  <2>6. CASE PipelineStep \/ Pass
    BY <1>2, <2>6 DEF PipelineStep, Export, Flush, Scrape, Pass, serving
  <2>7. QED
    BY <1>4, <2>1, <2>2, <2>3, <2>4, <2>5, <2>6, StepsOfTelemetry
<1>5. QED
  BY <1>2, <1>4 DEF vars, telemetryVars, serving

(* The next step lets no count fall, unless it is a restart.               *)
LEMMA CountsRise ==
  ASSUME TypeOK, Flow, [Next]_vars, disturbances'["restart"] = 0
  PROVE  /\ disturbances["restart"] = 0 /\ ~ Restart
         /\ \A s \in Series : count[s] \in Nat /\ count'[s] \in Nat /\ count[s] <= count'[s]
<1>1. TelemetryTypeOK /\ "restart" \in Kinds
  BY DEF TypeOK, Kinds
<1>2. \A s \in Series : count[s] \in Nat
  BY <1>1, PipelineFacts
<1>3. disturbances["restart"] = 0
  BY <1>1, DisturbancesStay
<1>4. ~ Restart
  BY <1>1, <1>3 DEF Restart, Disturbed
<1>5. CASE UNCHANGED count
  BY <1>2, <1>3, <1>4, <1>5
<1>6. ASSUME NEW recorded, Record(recorded)
      PROVE  \A s \in Series : count'[s] \in Nat /\ count[s] <= count'[s]
  BY <1>2, <1>6 DEF Record
<1>7. ASSUME NEW c \in Clients, ClientStep(c) \/ Raise(c)
      PROVE  \A s \in Series : count'[s] \in Nat /\ count[s] <= count'[s]
  BY <1>1, <1>2, <1>6, <1>7, ClientMoves
<1>8. CASE UNCHANGED telemetryVars
  BY <1>5, <1>8 DEF telemetryVars, serving
<1>9. CASE \E c \in Clients, q \in Queries,
              authorized \in BOOLEAN, by \in SUBSET Kinds :
                 Arrive(c, q, authorized, by)
  BY <1>5, <1>9 DEF Arrive
<1>10. CASE ClearAnswers \/ PipelineStep \/ Pass
  BY <1>5, <1>10 DEF ClearAnswers, PipelineStep, Export, Flush, Scrape, Pass, serving
<1>11. QED
  BY <1>2, <1>3, <1>4, <1>7, <1>8, <1>9, <1>10, StepsOfTelemetry DEF vars

(* Nothing overtakes them.                                                 *)
LEMMA BehindKept ==
  ASSUME TypeOK, Flow, Behind, [Next]_vars
  PROVE  Behind'
<1> SUFFICES ASSUME disturbances'["restart"] = 0, NEW s \in Series
             PROVE  /\ batch'.count[s] <= count'[s] /\ exposed'[s] <= count'[s]
                    /\ before'[s] <= count'[s]
                    /\ \A i \in 1..Len(samples') : samples'[i][s] <= count'[s]
  BY DEF Behind
<1>1. /\ disturbances["restart"] = 0
      /\ count[s] \in Nat /\ count'[s] \in Nat /\ count[s] <= count'[s]
  BY CountsRise
<1>2. /\ batch.count[s] <= count[s] /\ exposed[s] <= count[s]
      /\ before[s] <= count[s]
      /\ \A i \in 1..Len(samples) : samples[i][s] <= count[s]
  BY <1>1 DEF Behind
<1>3. TelemetryTypeOK /\ before[s] \in Nat
  BY DEF TypeOK, Snapshots
<1>4. /\ batch.count[s] \in Nat /\ exposed[s] \in Nat /\ Len(samples) \in Nat
      /\ \A i \in 1..Len(samples) : samples[i][s] \in Nat
  BY <1>3, PipelineFacts
<1>5. before'[s] <= count'[s]
  <2>1. CASE SnapshotBefore
    <3>1. before' = Latest
      BY <2>1 DEF SnapshotBefore
    <3>2. Latest[s] <= count[s] /\ Latest[s] \in Nat
      BY <1>1, <1>2, <1>4 DEF Latest, Last, NoSeries
    <3>3. QED
      BY <1>1, <3>1, <3>2
  <2>2. CASE ~ SnapshotBefore
    <3>1. before' = before
      BY <2>2 DEF Next, InspectorStep, Warm, Probe, Ask, Reask, ClearAnswers, Answered,
                  SnapshotAfter, Judge, Visit, Serve, Replace, Transport, Tick, inspection, vars
    <3>2. QED
      BY <1>1, <1>2, <1>3, <3>1
  <2>3. QED
    BY <2>1, <2>2
<1>6. CASE UNCHANGED <<batch, exposed, samples>>
  BY <1>1, <1>2, <1>4, <1>5, <1>6
<1>7. CASE Export
  <2>1. batch'.count[s] = (IF count[s] = 0 THEN batch.count[s] ELSE count[s])
        /\ UNCHANGED <<count, exposed, samples>>
    BY <1>7 DEF Export, Over, serving
  <2>2. QED
    BY <1>1, <1>2, <1>4, <1>5, <2>1
<1>8. CASE Flush
  <2>1. /\ exposed'[s] = IF batch.count[s] = 0 THEN exposed[s] ELSE batch.count[s]
        /\ batch'.count[s] = 0 /\ UNCHANGED <<count, samples>>
    BY <1>8 DEF Flush, Over, NoSeries, serving
  <2>2. QED
    BY <1>1, <1>2, <1>4, <1>5, <2>1
<1>9. CASE Scrape
  <2> DEFINE all == Append(samples, exposed)
  <2>1. /\ samples' = IF Len(all) > Window THEN Tail(all) ELSE all
        /\ UNCHANGED <<count, batch, exposed>>
    BY <1>9 DEF Scrape, serving
  <2>2. samples \in Seq(Snapshots) /\ exposed \in Snapshots
    BY <1>3 DEF TelemetryTypeOK
  <2>3. /\ all \in Seq(Snapshots) /\ Len(all) = Len(samples) + 1
        /\ all[Len(samples) + 1] = exposed /\ \A i \in 1..Len(samples) : all[i] = samples[i]
    <3> HIDE DEF Snapshots
    <3> QED BY <2>2
  <2> HIDE DEF all
  <2>4. \A i \in 1..Len(all) : all[i][s] <= count[s]
    <3>1. ASSUME NEW i \in 1..Len(all) PROVE i \in 1..Len(samples) \/ i = Len(samples) + 1
      BY <1>4, <2>3
    <3>2. QED
      BY <1>2, <2>3, <3>1
  <2>5. \A i \in 1..Len(samples') : samples'[i][s] <= count[s]
    <3> HIDE DEF Snapshots
    <3>1. CASE samples' = all
      BY <2>4, <3>1
    <3>2. CASE samples' = Tail(all)
      <4>1. \A i \in 1..Len(samples') : i + 1 \in 1..Len(all) /\ samples'[i] = all[i + 1]
        BY <1>4, <2>3, <3>2
      <4>2. QED
        BY <2>4, <4>1
    <3>3. QED
      BY <2>1, <3>1, <3>2
  <2>6. QED
    BY <1>1, <1>2, <1>4, <1>5, <2>1, <2>5
<1>10. CASE Pass
  <2>1. batch'.count = batch.count /\ UNCHANGED <<exposed, samples>>
    <3>1. batch' = [batch EXCEPT !.left = IF @ > 0 THEN @ - 1 ELSE @]
      BY <1>10 DEF Pass
    <3>2. batch \in [left : -1..BatchTimeout, count : Snapshots]
      BY <1>3 DEF TelemetryTypeOK
    <3>3. QED
      BY <1>10, <3>1, <3>2 DEF Pass
  <2>2. QED
    BY <1>1, <1>2, <1>4, <1>5, <2>1
<1>11. CASE Next
  <2>1. CASE UNCHANGED telemetryVars
    BY <1>6, <2>1 DEF telemetryVars, pipeline
  <2>2. CASE \E c \in Clients, q \in Queries,
                authorized \in BOOLEAN, by \in SUBSET Kinds :
                 Arrive(c, q, authorized, by)
    BY <1>6, <2>2 DEF Arrive, pipeline
  <2>3. CASE \E c \in Clients : ClientStep(c) \/ Raise(c)
    BY <1>3, <1>6, <2>3, ClientMoves DEF pipeline
  <2>4. CASE ClearAnswers \/ Restart
    BY <1>6, <2>4 DEF ClearAnswers, Restart, pipeline
  <2>5. QED
    BY <1>7, <1>8, <1>9, <1>10, <1>11, <2>1, <2>2, <2>3, <2>4, StepsOfTelemetry DEF PipelineStep
<1>12. QED
  BY <1>6, <1>11 DEF vars, telemetryVars, pipeline

-----------------------------------------------------------------------------
(* What a report shows.                                                    *)

(* A section that was judged keeps its marks, on results that stay.        *)
LEMMA ReportMoves ==
  ASSUME TypeOK, Flow, [Next]_vars
  PROVE  \/ /\ report' = report
            /\ DOMAIN report = {} \/ results' = results
         \/ Judge
<1>1. CASE Judge
  BY <1>1
<1>2. CASE Answered
  <2>1. Asking /\ report' = report
    BY <1>2 DEF Answered, Heard, Asking
  <2>2. QED
    BY <2>1 DEF Flow, Asking
<1>3. CASE ~ Judge /\ ~ Answered
  BY <1>3 DEF Next, InspectorStep, Warm, Probe, Ask, Reask, ClearAnswers, SnapshotBefore, SnapshotAfter,
              Visit, Serve, Replace, Transport, Tick, inspection, vars
<1>4. QED
  BY <1>1, <1>2, <1>3

(* A section is judged by what it reads, and the others stay.              *)
LEMMA JudgeMoves ==
  ASSUME TypeOK, Judge
  PROVE  \E section \in Range(Sections) :
            /\ DOMAIN report' = DOMAIN report \cup {section}
            /\ \A s \in DOMAIN report' :
                  report'[s] = IF s = section THEN Judged(s) ELSE report[s]
            /\ UNCHANGED <<telemetryVars, step, left, results, before, after, history>>
<1> DEFINE section == Sections[Cardinality(DOMAIN report) + 1]
<1>1. /\ report' = [s \in DOMAIN report \cup {section} |->
                       IF s = section THEN Judged(s) ELSE report[s]]
      /\ DOMAIN report # Range(Sections)
      /\ UNCHANGED <<telemetryVars, step, left, results, before, after, history>>
  BY DEF Judge
<1>2. section \in Range(Sections)
  BY <1>1, SectionNext
<1> HIDE DEF section
<1>3. QED
  BY <1>1, <1>2

(* What has been seen stays seen.                                          *)
LEMMA SeenStays ==
  ASSUME [Next]_vars, venueSeen
  PROVE  venueSeen'
BY DEF Next, InspectorStep, Warm, Probe, Ask, Reask, ClearAnswers, SnapshotBefore, Answered,
       SnapshotAfter, Judge, Visit, Serve, Replace, Transport, Tick, history, vars

(* What is nowhere does not come out of the pipeline.                      *)
LEMMA AbsentPasses ==
  ASSUME TelemetryTypeOK, NEW s \in Series, Absent(s), PipelineStep \/ Pass
  PROVE  Absent(s)'
<1>1. /\ count[s] = 0 /\ batch.count[s] = 0 /\ exposed[s] = 0
      /\ \A i \in 1..Len(samples) : samples[i][s] = 0
  BY DEF Absent
<1>2. CASE Export
  BY <1>1, <1>2 DEF Export, Over, Absent, serving
<1>3. CASE Flush
  BY <1>1, <1>3 DEF Flush, Over, Absent, serving, NoSeries
<1>4. CASE Scrape
  <2> DEFINE all == Append(samples, exposed)
  <2>1. /\ samples' = IF Len(all) > Window THEN Tail(all) ELSE all
        /\ UNCHANGED <<count, batch, exposed>>
    BY <1>4 DEF Scrape, serving
  <2>2. samples \in Seq(Snapshots) /\ exposed \in Snapshots
    BY DEF TelemetryTypeOK
  <2>3. /\ all \in Seq(Snapshots) /\ Len(all) = Len(samples) + 1 /\ Len(samples) \in Nat
        /\ all[Len(samples) + 1] = exposed /\ \A i \in 1..Len(samples) : all[i] = samples[i]
    <3> HIDE DEF Snapshots
    <3> QED BY <2>2
  <2> HIDE DEF all
  <2>4. \A i \in 1..Len(all) : all[i][s] = 0
    <3>1. \A i \in 1..Len(all) : i \in 1..Len(samples) \/ i = Len(samples) + 1
      BY <2>3
    <3>2. QED
      BY <1>1, <2>3, <3>1
  <2>5. \A i \in 1..Len(samples') : samples'[i][s] = 0
    <3> HIDE DEF Snapshots
    <3>1. CASE samples' = all
      BY <2>4, <3>1
    <3>2. CASE samples' = Tail(all)
      <4>1. \A i \in 1..Len(samples') : i + 1 \in 1..Len(all) /\ samples'[i] = all[i + 1]
        BY <2>3, <3>2
      <4>2. QED
        BY <2>4, <4>1
    <3>3. QED
      BY <2>1, <3>1, <3>2
  <2>6. QED
    BY <1>1, <2>1, <2>5 DEF Absent
<1>5. CASE Pass
  <2>1. batch' = [batch EXCEPT !.left = IF @ > 0 THEN @ - 1 ELSE @]
        /\ UNCHANGED <<count, exposed, samples>>
    BY <1>5 DEF Pass, serving
  <2>2. batch \in [left : -1..BatchTimeout, count : Snapshots]
    BY DEF TelemetryTypeOK
  <2>3. batch'.count = batch.count
    BY <2>1, <2>2
  <2>4. QED
    BY <1>1, <2>1, <2>3 DEF Absent
<1>6. QED
  BY <1>2, <1>3, <1>4, <1>5 DEF PipelineStep

(* Until the venue has served, it is nowhere reported to have.             *)
LEMMA UnseenKept ==
  ASSUME TypeOK, Flow, Unseen, [Next]_vars
  PROVE  Unseen'
<1> SUFFICES ASSUME ~ venueSeen' PROVE Absent("venue_served")'
  BY DEF Unseen
<1>1. TelemetryTypeOK /\ Absent("venue_served") /\ "venue_served" \in Series
  BY SeenStays DEF TypeOK, Unseen, Series
<1>2. CASE UNCHANGED <<count, pipeline>>
  BY <1>1, <1>2 DEF Absent, pipeline
<1>3. ASSUME NEW c \in Clients, Serve(c) PROVE UNCHANGED <<count, pipeline>> \/ Absent("venue_served")'
  <2>1. UNCHANGED pipeline /\ (UNCHANGED count \/ \E recorded : Record(recorded))
    BY <1>1, <1>3, ClientMoves DEF Serve
  <2>2. ~ (count'["venue_served"] > count["venue_served"]) /\ count["venue_served"] = 0
    BY <1>1, <1>3 DEF Serve, Absent
  <2>3. ASSUME NEW recorded, Record(recorded) PROVE count'["venue_served"] = 0
    BY <1>1, <2>2, <2>3 DEF Record
  <2>4. QED
    BY <1>1, <2>1, <2>2, <2>3 DEF Absent, pipeline
<1>4. CASE Restart
  BY <1>1, <1>4 DEF Restart, NoSeries, Absent
<1>5. CASE Warm \/ Probe
  BY <1>2, <1>5, Questions DEF Arrive
<1>6. ASSUME NEW c \in Users, NEW q \in Queries, Visit(c, q) PROVE UNCHANGED <<count, pipeline>>
  BY <1>6 DEF Visit, Arrive
<1>7. CASE ClearAnswers \/ SnapshotBefore \/ Answered \/ SnapshotAfter \/ Judge
  BY <1>2, <1>7 DEF ClearAnswers, SnapshotBefore, Answered, SnapshotAfter, Judge, telemetryVars, serving
<1>8. QED
  BY <1>1, <1>2, <1>3, <1>4, <1>5, <1>6, <1>7, AbsentPasses
     DEF Next, InspectorStep, Replace, Transport, Tick, vars, telemetryVars, serving

(* A list comes to be stored, or to be given, by being made or by a hit.   *)
LEMMA ListsMade ==
  ASSUME TypeOK, NEW c \in Clients, Serve(c)
  PROVE  /\ \A q \in Queries : cached'[q] \in Lists =>
               cached'[q] = cached[q] \/ <<q, cached'[q]>> \in made'
         /\ request'[c].list \in Lists =>
               \/ request'[c].list = request[c].list
               \/ request'[c].list = cached[request[c].query]
               \/ <<request[c].query, request'[c].list>> \in made'
         /\ made \subseteq made'
<1>1. /\ request \in [Clients -> Requests] /\ cached \in [Queries -> Cacheable \cup {"none"}]
      /\ request[c] \in Requests
  BY DEF TypeOK, TelemetryTypeOK
<1>2. Lists \cap {"none", "popular", "refusal"} = {}
  BY TelemetryAssumption
<1>3. made' = made \cup Stores(c)
  BY DEF Serve
<1> DEFINE Good ==
             /\ \A q \in Queries : cached'[q] \in Lists =>
                   cached'[q] = cached[q] \/ <<q, cached'[q]>> \in made'
             /\ request'[c].list \in Lists =>
                   \/ request'[c].list = request[c].list
                   \/ request'[c].list = cached[request[c].query]
                   \/ <<request[c].query, request'[c].list>> \in made'
<1> SUFFICES Good
  BY <1>3
<1>4. CASE CacheHit(c)
  <2>1. request'[c].list = cached[request[c].query] /\ cached' = cached
    BY <1>1, <1>4 DEF CacheHit, Requests
  <2>2. QED
    BY <2>1
<1>5. ASSUME NEW inTime \in BOOLEAN, CacheMiss(c, inTime) PROVE Good
  BY <1>1, <1>5 DEF CacheMiss, Requests
<1>6. CASE ResponseStart(c)
  <2>1. request'[c].list = request[c].list /\ cached' = cached
    BY <1>1, <1>6 DEF ResponseStart, Requests
  <2>2. QED
    BY <2>1
<1>7. CASE Raise(c)
  <2>1. request'[c].list = "none" /\ cached' = cached
    BY <1>1, <1>7 DEF Raise, Ended, Reply, NoRequest
  <2>2. QED
    BY <1>2, <2>1
<1>8. CASE Complete(c)
  <2>1. request'[c].list \in {"none", request[c].list} /\ cached' = cached
    BY <1>1, <1>8 DEF Complete, Ended, Reply, NoRequest
  <2>2. QED
    BY <1>2, <2>1
<1>9. ASSUME NEW list, Decline(c, list) PROVE Good
  <2>1. request'[c].list = list /\ list \notin Lists
    BY <1>1, <1>9 DEF Decline, Respond, Requests
  <2>2. \A q \in Queries : cached'[q] = cached[q] \/ cached'[q] = list
    BY <1>1, <1>9 DEF Decline, Respond
  <2>3. QED
    BY <2>1, <2>2
<1>10. ASSUME NEW recorded, NEW list, Generate(c, recorded, list) PROVE Good
  <2>1. request'[c].list = list /\ request[c].phase \in {"scored", "unscored"}
    BY <1>1, <1>10 DEF Generate, Respond, Requests
  <2>2. \A q \in Queries : cached'[q] = cached[q] \/ (q = request[c].query /\ cached'[q] = list)
    BY <1>1, <1>10 DEF Generate, Respond
  <2>3. list \in Lists => <<request[c].query, list>> \in made'
    BY <1>3, <2>1 DEF Stores
  <2>4. QED
    BY <2>1, <2>2, <2>3
<1>11. QED
  BY <1>4, <1>5, <1>6, <1>7, <1>8, <1>9, <1>10 DEF Serve, ClientStep

(* What a probe gets, or may get, was made since its answer was cleared.   *)
LEMMA FreshKept ==
  ASSUME TypeOK, Flow, Fresh, [Next]_vars
  PROVE  Fresh'
<1>1. /\ Inspector \in Clients /\ Inspector \notin Users /\ Users \subseteq Clients
      /\ request \in [Clients -> Requests] /\ results \in Seq(Requests)
      /\ Len(results) \in Nat
      /\ Lists \cap {"none", "popular", "refusal"} = {}
  BY InspectAssumption, TelemetryAssumption DEF TypeOK, TelemetryTypeOK
<1>2. CASE UNCHANGED <<step, cached, request, results, made>>
  BY <1>2 DEF Fresh, Asking, Asked, Mine
<1>3. CASE Warm \/ Probe
  <2>1. UNCHANGED <<results, made, cached>>
        /\ (step' \in {"warming", "rewarming"} \/ (step = "ready" \/ Asking))
        /\ Mine'.list = "none" /\ (step' \in {"warming", "rewarming"} => ~ Asking')
    BY <1>1, <1>3, Questions DEF Arrive, Mine, Asking, inspection, history
  <2>2. QED
    BY <1>1, <2>1 DEF Fresh, Asking
<1>4. CASE ClearAnswers
  <2>1. results' = << >> /\ step' = "cleared"
    BY <1>4 DEF ClearAnswers, Heard, inspection, Flow
  <2>2. PICK kept \in SUBSET {q \in Queries : cached[q] # "none"} :
          /\ cached' = [q \in Queries |-> IF q \in kept THEN cached[q] ELSE "none"]
          /\ made' = {stored \in made : stored[1] \in kept}
    BY <1>4 DEF ClearAnswers, Emptied
  <2>3. ASSUME NEW q \in Queries, cached'[q] \in Lists PROVE <<q, cached'[q]>> \in made'
    <3>1. q \in kept /\ cached'[q] = cached[q]
      BY <1>1, <2>2, <2>3
    <3>2. <<q, cached[q]>> \in made
      BY <2>3, <3>1 DEF Fresh
    <3>3. QED
      BY <2>2, <3>1, <3>2
  <2>4. QED
    BY <1>1, <2>1, <2>3 DEF Fresh, Asking
<1>5. CASE SnapshotBefore
  BY <1>5 DEF SnapshotBefore, telemetryVars, serving, history, Fresh, Asking
<1>6. CASE Answered
  <2>1. /\ Asking /\ ~ Asking' /\ results' = Append(results, Mine)
        /\ UNCHANGED <<cached, made>>
    BY <1>6 DEF Answered, Heard, Asking, telemetryVars, serving, history
  <2>2. \A q \in Queries : cached[q] \in Lists => <<q, cached[q]>> \in made
    BY <2>1 DEF Fresh, Asking
  <2>3. Mine \in Requests
    BY <1>1 DEF Mine
  <2>4. ASSUME NEW i \in 1..Len(results'), results'[i].list \in Lists
        PROVE  <<Probes[i].query, results'[i].list>> \in made
    <3> HIDE DEF Requests
    <3>1. CASE i \in 1..Len(results)
      BY <1>1, <2>1, <2>3, <2>4, <3>1 DEF Fresh
    <3>2. CASE i = Len(results) + 1
      <4>1. results'[i] = Mine /\ Probes[i].query = Asked
        BY <1>1, <2>1, <2>3, <3>2 DEF Asked
      <4>2. QED
        BY <2>1, <2>4, <4>1 DEF Fresh
    <3>3. Len(results') = Len(results) + 1
      BY <1>1, <2>1, <2>3
    <3>4. QED
      BY <1>1, <2>4, <3>1, <3>2, <3>3
  <2>5. QED
    BY <2>1, <2>2, <2>4 DEF Fresh
<1>7. CASE SnapshotAfter \/ Judge
  BY <1>7 DEF SnapshotAfter, Judge, telemetryVars, serving, history, Fresh, Asking, Asked, Mine
<1>8. ASSUME NEW c \in Users, NEW q \in Queries, Visit(c, q) PROVE Fresh'
  BY <1>1, <1>8 DEF Visit, Arrive, inspection, history, Fresh, Asking, Asked, Mine
<1>9. ASSUME NEW c \in Clients, Serve(c) PROVE Fresh'
  <2>1. UNCHANGED <<step, results>> /\ made \subseteq made'
    BY <1>9, ListsMade DEF Serve, inspection
  <2>2. /\ \A d \in Clients \ {c} : request'[d] = request[d]
        /\ request[c].phase # "over"
    BY <1>9, ClientMoves DEF Serve, TypeOK
  <2>3. ASSUME NEW q \in Queries, cached'[q] \in Lists
        PROVE  <<q, cached'[q]>> \in made'
    BY <1>9, <2>1, <2>3, ListsMade DEF Fresh
  <2>4. ASSUME Asking, Mine'.list \in Lists PROVE <<Asked, Mine'.list>> \in made'
    <3>1. CASE c # Inspector
      BY <1>1, <2>1, <2>2, <2>4, <3>1 DEF Fresh, Mine
    <3>2. CASE c = Inspector
      <4>1. request[c].query = Asked /\ Asked \in Queries
        BY <2>2, <2>4, <3>2, AskedQuery DEF Flow, Mine
      <4>2. cached[Asked] \in Lists => <<Asked, cached[Asked]>> \in made
        BY <2>4, <4>1 DEF Fresh, Asking
      <4>3. QED
        BY <1>9, <2>1, <2>4, <3>2, <4>1, <4>2, ListsMade DEF Fresh, Mine
    <3>3. QED
      BY <3>1, <3>2
  <2>5. ASSUME NEW i \in 1..Len(results), results[i].list \in Lists
        PROVE  <<Probes[i].query, results[i].list>> \in made'
    BY <2>1, <2>5 DEF Fresh
  <2>6. Asked' = Asked /\ Asking' = Asking
    BY <2>1 DEF Asked, Asking
  <2>7. QED
    BY <2>1, <2>3, <2>4, <2>5, <2>6 DEF Fresh
<1>10. CASE Replace
  <2>1. UNCHANGED <<step, results, cached, made>>
        /\ (Mine'.list = "none" \/ Mine' = Mine)
    BY <1>1, <1>10 DEF Replace, Restart, Ended, Reply, Mine, inspection, history
  <2>2. QED
    BY <1>1, <2>1 DEF Fresh, Asking, Asked
<1>11. CASE Transport \/ Tick
  BY <1>2, <1>11 DEF Transport, PipelineStep, Export, Flush, Scrape, Tick, Pass, serving,
                     inspection, history
<1>12. QED
  BY <1>2, <1>3, <1>4, <1>5, <1>6, <1>7, <1>8, <1>9, <1>10, <1>11
     DEF Next, InspectorStep, vars, telemetryVars, serving, inspection, history

(* What a section says of the program it goes on saying.                   *)
LEMMA MarkedKept ==
  ASSUME TypeOK, Flow, Unseen, Marked, [Next]_vars
  PROVE  Marked'
<1>1. ASSUME results' = results PROVE AnswerChecks' = AnswerChecks
  BY <1>1 DEF AnswerChecks
<1>2. CASE report' = report /\ (DOMAIN report = {} \/ results' = results)
  BY <1>1, <1>2, SeenStays DEF Marked
<1>3. CASE Judge
  <2>1. PICK section \in Range(Sections) :
           /\ DOMAIN report' = DOMAIN report \cup {section}
           /\ \A s \in DOMAIN report' :
                 report'[s] = IF s = section THEN Judged(s) ELSE report[s]
           /\ UNCHANGED <<telemetryVars, step, left, results, before, after, history>>
    BY <1>3, JudgeMoves
  <2>2. AnswerChecks' = AnswerChecks /\ venueSeen' = venueSeen
    BY <1>1, <2>1 DEF history
  <2>3. "answers" \in DOMAIN report' => report'["answers"] = AnswerChecks'
    <3>1. Judged("answers") = AnswerChecks
      BY DEF Judged
    <3>2. QED
      BY <2>1, <2>2, <3>1 DEF Marked
  <2>4. "router" \in DOMAIN report' =>
           \/ venueSeen'
           \/ "served" \in DOMAIN report'["router"] /\ report'["router"]["served"] = "fail"
    <3>1. CASE section = "router"
      <4>1. Judged("router") = RouterChecks
        BY DEF Judged
      <4>2. /\ "served" \in DOMAIN RouterChecks
            /\ RouterChecks["served"] = Mark(Live({"venue_served"}))
        BY DEF RouterChecks
      <4>3. Live({"venue_served"}) => venueSeen
        <5>1. "venue_served" \in Series /\ TelemetryTypeOK
          BY DEF Series, TypeOK
        <5>2. Len(samples) \in Nat /\ samples \in Seq(Snapshots)
          BY <5>1 DEF TelemetryTypeOK
        <5>3. Absent("venue_served") => Latest["venue_served"] = 0
          BY <5>1, <5>2 DEF Absent, Latest, Last, NoSeries
        <5>4. QED
          BY <5>3 DEF Unseen, Live
      <4>4. Mark(Live({"venue_served"})) = "fail" \/ Live({"venue_served"})
        BY DEF Mark
      <4>5. report'["router"] = RouterChecks
        BY <2>1, <3>1, <4>1
      <4>6. QED
        BY <2>2, <4>2, <4>3, <4>4, <4>5
    <3>2. CASE section # "router"
      BY <2>1, <2>2, <3>2 DEF Marked
    <3>3. QED
      BY <3>1, <3>2
  <2>5. QED
    BY <2>3, <2>4 DEF Marked
<1>4. QED
  BY <1>2, <1>3, ReportMoves

(* An inspection that exits with 0 has seen the product work.              *)
LEMMA GreenServed ==
  ASSUME TypeOK, Flow, Fresh, Marked
  PROVE  GreenMeansServed
<1> SUFFICES ASSUME DOMAIN report = Range(Sections), Fails = {}
             PROVE  /\ \A i \in DOMAIN Probes : <<Probes[i].query, results[i].list>> \in made
                    /\ venueSeen
  BY DEF GreenMeansServed
<1>1. DOMAIN report = {"cache", "retrieval", "router", "serving", "answers"}
  BY InspectAssumption
<1>2. \A s \in DOMAIN report : \A k \in DOMAIN report[s] : report[s][k] # "fail"
  <2>1. ASSUME NEW s \in DOMAIN report, NEW k \in DOMAIN report[s], report[s][k] = "fail" PROVE FALSE
    <3>1. <<s, k>> \in UNION {{t} \X DOMAIN report[t] : t \in DOMAIN report}
      <4>1. {s} \X DOMAIN report[s] \in {{t} \X DOMAIN report[t] : t \in DOMAIN report}
        BY <2>1, Zenon
      <4>2. <<s, k>> \in {s} \X DOMAIN report[s]
        BY <2>1
      <4>3. QED
        BY <4>1, <4>2, Zenon
    <3>2. <<s, k>>[1] = s /\ <<s, k>>[2] = k
      OBVIOUS
    <3>3. <<s, k>> \in Fails
      BY <2>1, <3>1, <3>2 DEF Fails
    <3>4. QED
      BY <3>3
  <2>2. QED
    BY <2>1
<1>3. ASSUME NEW i \in DOMAIN Probes
      PROVE  <<Probes[i].query, results[i].list>> \in made
  <2>1. i \in 1..Len(results)
    <3>1. step = "judging"
      BY <1>1 DEF Flow
    <3>2. Len(results) = Len(Probes) /\ results \in Seq(Requests)
      BY <3>1 DEF Flow, TypeOK
    <3>3. QED
      BY <3>2, ProbesAsk
  <2>2. AnswerChecks[i] # "fail" /\ Probes[i].want = "grounded"
    <3>1. report["answers"] = AnswerChecks
      BY <1>1 DEF Marked
    <3>2. i \in DOMAIN AnswerChecks
      BY <1>3 DEF AnswerChecks
    <3>3. QED
      BY <1>1, <1>2, <1>3, <3>1, <3>2, ProbesAsk
  <2>3. Kind(results[i]) = "grounded"
    BY <1>3, <2>2 DEF AnswerChecks, Mark
  <2>4. results[i].list \in Lists
    BY <2>3 DEF Kind
  <2>5. QED
    BY <2>1, <2>4 DEF Fresh
<1>4. venueSeen
  BY <1>1, <1>2 DEF Marked
<1>5. QED
  BY <1>3, <1>4

-----------------------------------------------------------------------------
(* Where every request goes well.                                          *)

(* What is asked in the battery is a query of the system.                  *)
LEMMA BatteryAsked ==
  /\ Battery \subseteq Queries
  /\ \A i \in 1..Len(Probes) : Probes[i].query \in Battery
<1>1. \A p \in Range(Probes) : \E i \in 1..Len(Probes) : p = Probes[i]
  BY ProbesAsk DEF Range
<1>2. \A i \in 1..Len(Probes) : Probes[i] \in Range(Probes)
  BY ProbesAsk DEF Range
<1>3. QED
  BY <1>1, <1>2, ProbesAsk DEF Battery

(* Where a request can go wrong, it is a disturbance that it does.         *)
LEMMA NoneMore ==
  ASSUME TypeOK, NEW by, Disturbed(by), Smooth'
  PROVE  by \cap {"setback", "rejected", "restart", "rival"} = {}
<1>1. \A k \in Kinds : disturbances[k] \in Nat
  BY DisturbancesTyped DEF TypeOK
<1>2. \A k \in Kinds : k \in by => disturbances'[k] # 0
  BY <1>1 DEF Disturbed
<1>3. {"setback", "rejected", "restart", "rival"} \subseteq Kinds
  BY DEF Kinds
<1>4. QED
  BY <1>2, <1>3 DEF Smooth

(* Then every step was preceded by such, and no request goes wrong.        *)
LEMMA SmoothSteps ==
  ASSUME TypeOK, Flow, [Next]_vars, Smooth'
  PROVE  /\ Smooth /\ ~ Replace
         /\ \A c \in Users, q \in Queries : Visit(c, q) => q \notin Battery
         /\ \A c \in Clients :
               /\ ~ Raise(c) /\ \A list : ~ Decline(c, list)
               /\ \A inTime : CacheMiss(c, inTime) /\ inTime \in BOOLEAN => inTime
               /\ \A recorded, list : Generate(c, recorded, list) =>
                     recorded = Straight(c) /\ list \in Lists
<1>1. Smooth
  BY DisturbancesStay DEF Smooth, Kinds
<1>2. ~ Replace
  BY NoneMore DEF Replace, Restart
<1>3. ASSUME NEW c \in Users, NEW q \in Queries, Visit(c, q), q \in Battery PROVE FALSE
  <2>1. Disturbed({"rival"})
    BY <1>3 DEF Visit, Arrive
  <2>2. QED
    BY <2>1, NoneMore
<1>4. ASSUME NEW c \in Clients
      PROVE  /\ ~ Raise(c) /\ \A list : ~ Decline(c, list)
             /\ \A inTime : CacheMiss(c, inTime) /\ inTime \in BOOLEAN => inTime
             /\ \A recorded, list : Generate(c, recorded, list) =>
                   recorded = Straight(c) /\ list \in Lists
  <2>1. ~ Disturbed({"setback"}) /\ ~ Disturbed(SetbackIf(TRUE))
    BY NoneMore DEF SetbackIf
  <2>2. ~ Raise(c) /\ \A list : ~ Decline(c, list)
    BY <2>1 DEF Raise, Decline
  <2>3. ASSUME NEW inTime, CacheMiss(c, inTime), inTime = FALSE PROVE FALSE
    <3>1. Disturbed(SetbackIf(~ inTime)) /\ ~ inTime
      BY <2>3 DEF CacheMiss
    <3>2. SetbackIf(~ inTime) = {"setback"}
      BY <3>1 DEF SetbackIf
    <3>3. QED
      BY <2>1, <3>1, <3>2
  <2>4. ASSUME NEW recorded, NEW list, Generate(c, recorded, list),
               recorded # Straight(c) \/ list \notin Lists
        PROVE  FALSE
    <3>1. Disturbed(SetbackIf(recorded # Straight(c) \/ list \notin Lists))
      BY <2>4 DEF Generate
    <3>2. SetbackIf(recorded # Straight(c) \/ list \notin Lists) = {"setback"}
      BY <2>4 DEF SetbackIf
    <3>3. QED
      BY <2>1, <3>1, <3>2
  <2>5. QED
    BY <2>2, <2>3, <2>4
<1>5. QED
  BY <1>1, <1>2, <1>3, <1>4

(* The numbers they look at.                                               *)
LEMMA SmoothFacts ==
  ASSUME TypeOK, Flow, Behind, Smooth
  PROVE  /\ TelemetryTypeOK /\ Inspector \in Clients /\ Inspector \notin Users
         /\ Users \subseteq Clients /\ Clients \ {Inspector} \subseteq Users
         /\ request \in [Clients -> Requests] /\ Mine \in Requests
         /\ Mine.phase # "over" =>
               Mine.query \in Queries /\ (Asking \/ step \in {"warming", "rewarming"})
         /\ Asking => Asked \in Battery /\ (Mine.phase # "over" => Mine.query = Asked)
         /\ cached \in [Queries -> Cacheable \cup {"none"}]
         /\ \A s \in Series : count[s] \in Nat /\ before[s] \in Nat /\ before[s] <= count[s]
         /\ results \in Seq(Requests) /\ Len(results) \in Nat
         /\ \A i \in 1..Len(results) : Probes[i].query \in Battery
         /\ Battery \subseteq Queries
<1>1. TelemetryTypeOK /\ results \in Seq(Requests) /\ Len(results) <= Len(Probes)
      /\ before \in Snapshots
  BY DEF TypeOK
<1>2. Inspector \in Clients /\ Inspector \notin Users /\ Users \subseteq Clients
      /\ Clients \ {Inspector} \subseteq Users
  BY InspectAssumption
<1>3. request \in [Clients -> Requests] /\ Mine \in Requests
  BY <1>1, <1>2 DEF TelemetryTypeOK, Mine
<1>4. Mine.phase # "over" => Mine.query \in Queries
  BY <1>1, <1>2, <1>3 DEF TelemetryTypeOK, Mine, Requests
<1>5. Mine.phase # "over" => Asking \/ step \in {"warming", "rewarming"}
  BY DEF Flow
<1>6. Asking => Asked \in Battery /\ (Mine.phase # "over" => Mine.query = Asked)
  BY AskedQuery, BatteryAsked DEF Flow, Asked
<1>7. \A s \in Series : count[s] \in Nat /\ before[s] \in Nat /\ before[s] <= count[s]
  BY <1>1, PipelineFacts DEF Behind, Snapshots, Smooth
<1>8. \A i \in 1..Len(results) : Probes[i].query \in Battery
  <2>1. Len(results) \in Nat
    BY <1>1
  <2>2. QED
    BY <1>1, <2>1, ProbesAsk, BatteryAsked
<1>9. QED
  BY <1>1, <1>2, <1>3, <1>4, <1>5, <1>6, <1>7, <1>8, BatteryAsked DEF TelemetryTypeOK

(* What the users do beside it, and what does not touch the API, leaves    *)
(* the four.                                                               *)
LEMMA ServingStays ==
  ASSUME TypeOK, Flow, Behind, Smooth, Serving,
         UNCHANGED <<results, before, Mine>>,
         step' = step \/ (step = "waiting" /\ step' = "judging"),
         \A q \in Battery : cached'[q] = cached[q],
         \A s \in Series : count'[s] \in Nat /\ count[s] <= count'[s],
         count'["rerank_timeout"] = 0, count'["llm_error"] = 0,
         \A c \in Users : request'[c].phase # "over" => request'[c].query \notin Battery
  PROVE  Serving'
<1>1. Asked' = Asked /\ (Asking' <=> Asking) /\ (Rejected' <=> Rejected)
      /\ (Unanswered' => Unanswered) /\ (Decided' => Decided)
  BY DEF Asked, Asking, Rejected, Unanswered, Decided
<1>2. \A s \in Series : /\ count[s] > 0 => count'[s] > 0
                        /\ count[s] > before[s] => count'[s] > before'[s]
  BY SmoothFacts
<1>3. {"rerank_ok", "confidence", "llm_ok", "confident", "venue_served"} \subseteq Series
      /\ Lookups \subseteq Series /\ Decisions \subseteq Series
  BY DEF Series, Calls, Lookups, Decisions
<1>4. Calm'
  BY DEF Calm
<1>5. Stored'
  BY <1>2, <1>3 DEF Serving, Stored, Battery
<1>6. \A a, q : q \in Battery /\ Got(a, q) =>
         a.code = 200 /\ a.list \in Lists /\ a.list = cached'[q]
  BY DEF Got
<1>7. \A i \in 1..Len(results') : Got(results[i], Probes[i].query)'
  BY <1>6, SmoothFacts DEF Serving, Underway, Got
<1>8. Asking /\ Mine.phase \in {"ready", "started", "over"} /\ ~Rejected => Got(Mine, Asked)'
  BY <1>1, <1>6, SmoothFacts DEF Serving, Underway, Got
<1>9. Mine.phase = "scored" =>
         /\ Asking => cached'[Mine.query] = "none"
         /\ count'["rerank_ok"] > 0 /\ count'["confidence"] > 0
         /\ Mine.query \in ClearClass => count'["confident"] > 0
  BY <1>2, <1>3, SmoothFacts DEF Serving, Underway
<1>10. Rejected => Mine.phase \notin {"arrived", "scored"} /\ step' \notin {"rewarming", "reasking"}
  BY DEF Serving, Underway
<1>11. Underway'
  BY <1>1, <1>7, <1>8, <1>9, <1>10 DEF Serving, Underway
<1>12. (Grown(Lookups) => Grown(Lookups)') /\ (Grown(Decisions) => Grown(Decisions)')
  BY <1>2, <1>3 DEF Grown
<1>13. FirstMiss'
  BY <1>1, <1>12 DEF Serving, FirstMiss, Battery
<1>14. QED
  BY <1>4, <1>5, <1>11, <1>13 DEF Serving

(* The inspector asks.                                                     *)
LEMMA SmoothAsk ==
  ASSUME TypeOK, Flow, Behind, Smooth, Serving, Smooth', Warm \/ Probe
  PROVE  Serving'
<1>1. UNCHANGED <<results, before>>
  BY Questions DEF inspection
<1>2. PICK q \in Queries, authorized \in BOOLEAN, by \in SUBSET Kinds :
        /\ Arrive(Inspector, q, authorized, by)
        /\ \/ step' \in {"warming", "rewarming"} /\ step \in {"off", "warming"}
           \/ q = Asked /\ Asking' /\ (step = "ready" \/ Asking)
        /\ \/ step \in {"off", "ready"} /\ step' \notin {"rewarming", "reasking"}
           \/ /\ Rejected /\ step' \in {"rewarming", "reasking"}
              /\ by = RefusedUnless(authorized, "rejected")
  <2>1. CASE Ask(WarmUp, "off", "warming")
    <3>1. PICK authorized \in BOOLEAN :
            Arrive(Inspector, WarmUp, authorized, RefusedUnless(authorized, "retry"))
      BY <2>1 DEF Ask, TokenHad
    <3>2. WarmUp \in Queries
      BY InspectAssumption
    <3>3. QED
      BY <2>1, <3>1, <3>2, RefusalKinds DEF Ask
  <2>2. CASE Ask(Asked, "ready", "asking")
    <3>1. PICK authorized \in BOOLEAN :
            Arrive(Inspector, Asked, authorized, RefusedUnless(authorized, "retry"))
      BY <2>2 DEF Ask, TokenHad
    <3>2. Asked \in Queries
      BY <2>2, AskedQuery DEF Ask
    <3>3. QED
      BY <2>2, <3>1, <3>2, RefusalKinds DEF Ask, Asking
  <2>3. CASE Reask(WarmUp, "warming", "rewarming") \/ Reask(Asked, "asking", "reasking")
    <3>1. \/ step' = "rewarming" /\ step = "warming"
          \/ step' = "reasking" /\ step = "asking"
      BY <2>3 DEF Reask
    <3>2. QED
      BY <2>3, <3>1, Questions DEF Reask, Asking
  <2>4. QED
    BY <2>1, <2>2, <2>3 DEF Warm, Probe
<1>3. authorized \/ step' \notin {"rewarming", "reasking"}
  <2>1. Disturbed(by)
    BY <1>2 DEF Arrive
  <2>2. "rejected" \notin by
    BY <2>1, NoneMore
  <2>3. QED
    BY <1>2, <2>2 DEF RefusedUnless
<1>4. /\ UNCHANGED <<count, cached>>
      /\ request' = [request EXCEPT ![Inspector] =
            [phase |-> IF authorized THEN "arrived" ELSE "ready", query |-> q,
             list |-> "none", code |-> IF authorized THEN 200 ELSE 401]]
  BY <1>2 DEF Arrive
<1>5. /\ Mine' = [phase |-> IF authorized THEN "arrived" ELSE "ready", query |-> q,
                  list |-> "none", code |-> IF authorized THEN 200 ELSE 401]
      /\ \A c \in Users : request'[c] = request[c]
  BY <1>4, SmoothFacts DEF Mine
<1>6. Calm' /\ Stored'
  BY <1>4, <1>5 DEF Serving, Calm, Stored
<1>7. Asked' = Asked
  BY <1>1 DEF Asked
<1>8. \A i \in 1..Len(results') : Got(results[i], Probes[i].query)'
  BY <1>1, <1>4 DEF Serving, Underway, Got
<1>9. \/ authorized /\ Mine'.phase = "arrived" /\ Mine'.code = 200
      \/ ~ authorized /\ Mine'.phase = "ready" /\ Mine'.code = 401
  BY <1>5
<1>10. Underway'
  BY <1>3, <1>8, <1>9 DEF Underway, Rejected
<1>11. Grown(Lookups)' = Grown(Lookups) /\ Grown(Decisions)' = Grown(Decisions)
  BY <1>1, <1>4 DEF Grown
<1>12. FirstMiss'
  <2>1. ~ Decided' /\ Mine'.phase # "scored"
    BY <1>9 DEF Decided, Rejected
  <2>2. Unanswered' => Unanswered
    BY <1>2 DEF Unanswered, Asking
  <2>3. QED
    BY <1>1, <1>4, <1>11, <2>1, <2>2 DEF Serving, FirstMiss
<1>13. QED
  BY <1>6, <1>10, <1>12 DEF Serving

(* The parts of main that a request in the program leaves alone.           *)
LEMMA ServeFrame ==
  ASSUME TypeOK, Flow, Behind, Smooth, Serving, Serve(Inspector)
  PROVE  /\ UNCHANGED <<step, results, before>> /\ Asked' = Asked /\ Asking' = Asking
         /\ step \notin {"cleared", "ready"} /\ Mine.phase # "over"
         /\ \A c \in Users : request'[c] = request[c]
<1>1. ClientStep(Inspector) \/ Raise(Inspector)
  BY DEF Serve
<1>2. request[Inspector].phase # "over" /\ \A d \in Clients \ {Inspector} : request'[d] = request[d]
  BY <1>1, SmoothFacts, ClientMoves
<1>3. step \notin {"cleared", "ready"}
  BY <1>2 DEF Flow, Asking, Mine
<1>4. QED
  BY <1>2, <1>3, SmoothFacts DEF Serve, inspection, Asked, Asking, Mine

(* What a recording of no failure adds.                                    *)
LEMMA RecordAdds ==
  ASSUME TypeOK, Flow, Behind, Smooth, Serving, UNCHANGED before,
         NEW recorded, Record(recorded),
         recorded \cap {"rerank_timeout", "llm_error"} = {}
  PROVE  /\ count'["rerank_timeout"] = 0 /\ count'["llm_error"] = 0
         /\ \A s \in Series : count'[s] \in Nat /\ count[s] <= count'[s]
         /\ \A s \in Series : count[s] > 0 => count'[s] > 0
         /\ \A s \in Series \cap recorded : count'[s] > 0 /\ count'[s] > before'[s]
         /\ Grown(Lookups) => Grown(Lookups)'
         /\ Grown(Decisions) => Grown(Decisions)'
         /\ recorded \cap Lookups # {} => Grown(Lookups)'
         /\ recorded \cap Decisions # {} => Grown(Decisions)'
<1>1. \A s \in Series : count'[s] = count[s] + IF s \in recorded THEN 1 ELSE 0
  BY DEF Record
<1>2. \A s \in Series : count[s] \in Nat /\ before[s] \in Nat /\ before[s] <= count[s]
  BY SmoothFacts
<1>3. Lookups \subseteq Series /\ Decisions \subseteq Series
      /\ "rerank_timeout" \in Series /\ "llm_error" \in Series
  BY DEF Lookups, Decisions, Series, Calls
<1>4. count'["rerank_timeout"] = 0 /\ count'["llm_error"] = 0
  BY <1>1, <1>3 DEF Serving, Calm
<1>5. \A s \in Series : (count[s] > 0 => count'[s] > 0) /\ (count[s] > before[s] => count'[s] > before'[s])
  BY <1>1, <1>2
<1>6. \A s \in Series : count'[s] \in Nat /\ count[s] <= count'[s]
  BY <1>1, <1>2
<1>7. \A s \in Series \cap recorded : count'[s] > 0 /\ count'[s] > before'[s]
  BY <1>1, <1>2
<1>8. (Grown(Lookups) => Grown(Lookups)') /\ (Grown(Decisions) => Grown(Decisions)')
  BY <1>3, <1>5 DEF Grown
<1>9. /\ recorded \cap Lookups # {} => Grown(Lookups)'
      /\ recorded \cap Decisions # {} => Grown(Decisions)'
  BY <1>3, <1>7 DEF Grown
<1>10. QED
  BY <1>4, <1>5, <1>6, <1>7, <1>8, <1>9

(* The users keep to themselves what the inspector does.                   *)
LEMMA CalmStays ==
  ASSUME Calm, \A c \in Users : request'[c] = request[c],
         count'["rerank_timeout"] = 0, count'["llm_error"] = 0
  PROVE  Calm'
BY DEF Calm

(* What is stored went through every stage, as long as nothing is added.   *)
LEMMA StoredStays ==
  ASSUME Stored, UNCHANGED cached, \A s \in Series : count[s] > 0 => count'[s] > 0
  PROVE  Stored'
<1>1. {"rerank_ok", "confidence", "llm_ok", "confident", "venue_served"} \subseteq Series
  BY DEF Series, Calls
<1>2. QED
  BY <1>1 DEF Stored

(* A hit.                                                                  *)
LEMMA SmoothHit ==
  ASSUME TypeOK, Flow, Behind, Smooth, Serving, Serve(Inspector), CacheHit(Inspector)
  PROVE  Serving'
<1>1. /\ Mine.phase = "arrived" /\ cached[Mine.query] # "none" /\ Record({"cache_hit"})
      /\ request' = [request EXCEPT ![Inspector].phase = "ready",
                                    ![Inspector].list = cached[Mine.query]]
      /\ UNCHANGED cached
  BY DEF CacheHit, Mine
<1>2. /\ Mine'.phase = "ready" /\ Mine'.list = cached[Mine.query]
      /\ Mine'.query = Mine.query /\ Mine'.code = Mine.code
  BY <1>1, SmoothFacts DEF Mine, Requests
<1>3. /\ UNCHANGED <<step, results, before>> /\ Asked' = Asked /\ Asking' = Asking
      /\ step \notin {"cleared", "ready"} /\ \A c \in Users : request'[c] = request[c]
  BY ServeFrame
<1>4. /\ count'["rerank_timeout"] = 0 /\ count'["llm_error"] = 0
      /\ \A s \in Series : count[s] > 0 => count'[s] > 0
      /\ Grown(Lookups) => Grown(Lookups)'
      /\ Grown(Decisions) => Grown(Decisions)'
  BY <1>1, <1>3, RecordAdds
<1>5. Calm' /\ Stored'
  BY <1>1, <1>3, <1>4, CalmStays, StoredStays DEF Serving
<1>6. \A i \in 1..Len(results') : Got(results[i], Probes[i].query)'
  BY <1>1, <1>3 DEF Serving, Underway, Got
<1>7. Mine.code = 200 /\ ~ Rejected /\ ~ Rejected'
  BY <1>1, <1>2 DEF Serving, Underway, Rejected
<1>8. Asking => Mine.query = Asked /\ cached[Asked] \in Lists
  BY <1>1, SmoothFacts DEF Serving, Stored
<1>9. Underway'
  BY <1>1, <1>2, <1>3, <1>6, <1>7, <1>8 DEF Underway, Got
<1>10. Asking => results # << >>
  BY <1>1, SmoothFacts DEF Serving, FirstMiss, Unanswered
<1>11. FirstMiss'
  BY <1>2, <1>3, <1>4, <1>7, <1>10 DEF Serving, FirstMiss, Unanswered, Decided
<1>12. QED
  BY <1>5, <1>9, <1>11 DEF Serving

(* A miss, and a rerank that ends in time.                                 *)
LEMMA SmoothMiss ==
  ASSUME TypeOK, Flow, Behind, Smooth, Serving, Serve(Inspector), CacheMiss(Inspector, TRUE)
  PROVE  Serving'
<1> DEFINE recorded == {"cache_miss"} \cup
                       (IF Mine.query \in ClearClass
                        THEN {"rerank_ok", "confidence", "confident"}
                        ELSE {"rerank_ok", "confidence"})
<1>1. /\ Mine.phase = "arrived" /\ cached[Mine.query] = "none"
      /\ Record(recorded)
      /\ request' = [request EXCEPT ![Inspector].phase = "scored"]
      /\ UNCHANGED cached
  BY DEF CacheMiss, Mine
<1>2. /\ Mine'.phase = "scored" /\ Mine'.query = Mine.query /\ Mine'.code = Mine.code
  BY <1>1, SmoothFacts DEF Mine, Requests
<1>3. /\ recorded \cap {"rerank_timeout", "llm_error"} = {}
      /\ recorded \cap Lookups # {} /\ {"rerank_ok", "confidence"} \subseteq Series \cap recorded
      /\ Mine.query \in ClearClass => "confident" \in Series \cap recorded
  BY DEF Lookups, Series
<1> HIDE DEF recorded
<1>4. /\ UNCHANGED <<step, results, before>> /\ Asked' = Asked /\ Asking' = Asking
      /\ step \notin {"cleared", "ready"} /\ \A c \in Users : request'[c] = request[c]
  BY ServeFrame
<1>5. /\ count'["rerank_timeout"] = 0 /\ count'["llm_error"] = 0 /\ Grown(Lookups)'
      /\ \A s \in Series : count[s] > 0 => count'[s] > 0
      /\ Grown(Decisions) => Grown(Decisions)'
      /\ \A s \in Series \cap recorded : count'[s] > 0
  BY <1>1, <1>3, <1>4, RecordAdds
<1>6. Calm' /\ Stored'
  BY <1>1, <1>4, <1>5, CalmStays, StoredStays DEF Serving
<1>7. \A i \in 1..Len(results') : Got(results[i], Probes[i].query)'
  BY <1>1, <1>4 DEF Serving, Underway, Got
<1>8. Mine.code = 200 /\ ~ Rejected /\ ~ Rejected'
  BY <1>1, <1>2 DEF Serving, Underway, Rejected
<1>9. Underway'
  BY <1>1, <1>2, <1>3, <1>4, <1>5, <1>7, <1>8 DEF Underway
<1>10. FirstMiss'
  BY <1>1, <1>2, <1>4, <1>5, <1>8 DEF Serving, FirstMiss, Unanswered, Decided
<1>11. QED
  BY <1>6, <1>9, <1>10 DEF Serving

(* An answer, from the venue where it is there for the query.              *)
LEMMA SmoothGenerate ==
  ASSUME TypeOK, Flow, Behind, Smooth, Serving, Serve(Inspector),
         NEW list \in Lists, Generate(Inspector, Straight(Inspector), list)
  PROVE  Serving'
<1> DEFINE recorded == Straight(Inspector)
<1>1. Mine.phase = "scored" /\ Mine.query \in Queries
  BY SmoothFacts DEF Generate, Serving, Underway, Mine
<1>2. recorded = IF Mine.query \in ClearClass THEN {"venue_served", "llm_ok"}
                                              ELSE {"hosted", "llm_ok"}
  BY <1>1 DEF Straight, Routed, Mine
<1>3. /\ cached' = [cached EXCEPT ![Mine.query] = list]
      /\ Record(recorded)
      /\ request' = [request EXCEPT ![Inspector].phase = "ready", ![Inspector].list = list]
  BY DEF Generate, Respond, Mine, Cacheable
<1>4. /\ Mine'.phase = "ready" /\ Mine'.list = list
      /\ Mine'.query = Mine.query /\ Mine'.code = Mine.code
  BY <1>3, SmoothFacts DEF Mine, Requests
<1>5. /\ recorded \cap {"rerank_timeout", "llm_error"} = {}
      /\ recorded \cap Decisions # {} /\ "llm_ok" \in Series \cap recorded
      /\ Mine.query \in ClearClass => "venue_served" \in Series \cap recorded
  BY <1>2 DEF Decisions, Series, Calls
<1> HIDE DEF recorded
<1>6. /\ UNCHANGED <<step, results, before>> /\ Asked' = Asked /\ Asking' = Asking
      /\ step \notin {"cleared", "ready"} /\ \A c \in Users : request'[c] = request[c]
  BY ServeFrame
<1>7. /\ count'["rerank_timeout"] = 0 /\ count'["llm_error"] = 0
      /\ Grown(Decisions)' /\ (Grown(Lookups) => Grown(Lookups)')
      /\ \A s \in Series : count[s] > 0 => count'[s] > 0
      /\ \A s \in Series \cap recorded : count'[s] > 0
  BY <1>3, <1>5, <1>6, RecordAdds
<1>8. /\ cached'[Mine.query] = list /\ list # "none"
      /\ \A q \in Queries \ {Mine.query} : cached'[q] = cached[q]
  BY <1>1, <1>3, SmoothFacts, TelemetryAssumption
<1>9. Stored'
  <2> SUFFICES ASSUME NEW q \in Battery, cached'[q] # "none"
               PROVE  /\ cached'[q] \in Lists
                      /\ count'["rerank_ok"] > 0 /\ count'["confidence"] > 0 /\ count'["llm_ok"] > 0
                      /\ q \in ClearClass => count'["confident"] > 0 /\ count'["venue_served"] > 0
    BY DEF Stored, Battery
  <2>1. {"rerank_ok", "confidence", "llm_ok", "confident", "venue_served"} \subseteq Series
        /\ q \in Queries
    BY BatteryAsked DEF Series, Calls
  <2>2. CASE q = Mine.query
    <3>1. /\ count["rerank_ok"] > 0 /\ count["confidence"] > 0
          /\ q \in ClearClass => count["confident"] > 0
      BY <1>1, <2>2 DEF Serving, Underway
    <3>2. QED
      BY <1>5, <1>7, <1>8, <2>1, <2>2, <3>1
  <2>3. CASE q # Mine.query
    BY <1>7, <1>8, <2>1, <2>3 DEF Serving, Stored
  <2>4. QED
    BY <2>2, <2>3
<1>10. Calm'
  BY <1>6, <1>7, CalmStays DEF Serving
<1>11. ASSUME NEW i \in 1..Len(results') PROVE Got(results[i], Probes[i].query)'
  <2>1. /\ i \in 1..Len(results) /\ Probes[i].query \in Queries /\ results' = results
        /\ Asking
    <3>1. i \in 1..Len(results) /\ results # << >> /\ results' = results
      BY <1>6, SmoothFacts
    <3>2. Asking
      BY <1>1, <3>1, SmoothFacts DEF Flow
    <3>3. QED
      BY <3>1, <3>2, SmoothFacts
  <2>2. Got(results[i], Probes[i].query) /\ cached[Mine.query] = "none"
    BY <1>1, <2>1 DEF Serving, Underway
  <2>3. Probes[i].query # Mine.query
    BY <2>2, TelemetryAssumption DEF Got
  <2>4. QED
    BY <1>8, <2>1, <2>2, <2>3 DEF Got
<1>12. Mine.code = 200 /\ ~ Rejected /\ ~ Rejected'
  BY <1>1, <1>4 DEF Serving, Underway, Rejected
<1>13. Asking => Mine.query = Asked
  BY <1>1, SmoothFacts
<1>14. Underway'
  BY <1>4, <1>6, <1>8, <1>11, <1>12, <1>13 DEF Underway, Got
<1>15. FirstMiss'
  BY <1>1, <1>4, <1>6, <1>7, <1>12 DEF Serving, FirstMiss, Unanswered, Decided
<1>16. QED
  BY <1>9, <1>10, <1>14, <1>15 DEF Serving

(* The response starts.                                                    *)
LEMMA SmoothResponse ==
  ASSUME TypeOK, Flow, Behind, Smooth, Serving, Serve(Inspector), ResponseStart(Inspector)
  PROVE  Serving'
<1>1. /\ Mine.phase = "ready" /\ Record({StatusClass(request[Inspector].code)})
      /\ request' = [request EXCEPT ![Inspector].phase = "started"]
      /\ UNCHANGED cached
  BY DEF ResponseStart, Mine
<1>2. /\ Mine'.phase = "started" /\ Mine'.list = Mine.list
      /\ Mine'.query = Mine.query /\ Mine'.code = Mine.code
  BY <1>1, SmoothFacts DEF Mine, Requests
<1>3. {StatusClass(request[Inspector].code)} \cap {"rerank_timeout", "llm_error"} = {}
  BY DEF StatusClass
<1>4. /\ UNCHANGED <<step, results, before>> /\ Asked' = Asked /\ Asking' = Asking
      /\ step \notin {"cleared", "ready"} /\ \A c \in Users : request'[c] = request[c]
  BY ServeFrame
<1>5. /\ count'["rerank_timeout"] = 0 /\ count'["llm_error"] = 0
      /\ \A s \in Series : count[s] > 0 => count'[s] > 0
      /\ Grown(Lookups) => Grown(Lookups)'
      /\ Grown(Decisions) => Grown(Decisions)'
  BY <1>1, <1>3, <1>4, RecordAdds
<1>6. Calm' /\ Stored'
  BY <1>1, <1>4, <1>5, CalmStays, StoredStays DEF Serving
<1>7. \A i \in 1..Len(results') : Got(results[i], Probes[i].query)'
  BY <1>1, <1>4 DEF Serving, Underway, Got
<1>8. Underway'
  BY <1>1, <1>2, <1>4, <1>7 DEF Serving, Underway, Got, Rejected
<1>9. FirstMiss'
  BY <1>1, <1>2, <1>4, <1>5 DEF Serving, FirstMiss, Unanswered, Decided, Rejected
<1>10. QED
  BY <1>6, <1>8, <1>9 DEF Serving

(* The body is complete, and the inspector has its answer.                 *)
LEMMA SmoothComplete ==
  ASSUME TypeOK, Flow, Behind, Smooth, Serving, Serve(Inspector), Complete(Inspector)
  PROVE  Serving'
<1>1. /\ Mine.phase = "started" /\ request' = Ended({Inspector}, Mine.list, Mine.code)
      /\ UNCHANGED <<cached, count>>
  BY DEF Complete, Mine
<1>2. Mine'.phase = "over" /\ Mine'.list = Mine.list /\ Mine'.code = Mine.code
  BY <1>1, SmoothFacts DEF Ended, Reply, Mine
<1>3. /\ UNCHANGED <<step, results, before>> /\ Asked' = Asked /\ Asking' = Asking
      /\ step \notin {"cleared", "ready"} /\ \A c \in Users : request'[c] = request[c]
  BY ServeFrame
<1>4. Calm' /\ Stored'
  BY <1>1, <1>3 DEF Serving, Calm, Stored
<1>5. \A i \in 1..Len(results') : Got(results[i], Probes[i].query)'
  BY <1>1, <1>3 DEF Serving, Underway, Got
<1>6. Underway'
  BY <1>1, <1>2, <1>3, <1>5 DEF Serving, Underway, Got, Rejected
<1>7. Grown(Lookups)' = Grown(Lookups) /\ Grown(Decisions)' = Grown(Decisions)
  BY <1>1, <1>3 DEF Grown
<1>8. FirstMiss'
  BY <1>1, <1>2, <1>3, <1>7 DEF Serving, FirstMiss, Unanswered, Decided, Rejected
<1>9. QED
  BY <1>4, <1>6, <1>8 DEF Serving

(* The stored answers are cleared.                                         *)
LEMMA SmoothClear ==
  ASSUME TypeOK, Flow, Behind, Smooth, Serving, ClearAnswers, Smooth'
  PROVE  Serving'
<1>0. PICK kept \in SUBSET Queries :
        /\ cached' = [q \in Queries |-> IF q \in kept THEN cached[q] ELSE "none"]
        /\ Disturbed(SetbackIf(kept # {}))
  BY DEF ClearAnswers, Emptied
<1>1. /\ step \in {"warming", "rewarming"} /\ step' = "cleared" /\ Mine.phase = "over"
      /\ cached' = [q \in Queries |-> "none"]
      /\ UNCHANGED <<count, request, results, before>>
  <2>1. SetbackIf(kept # {}) \cap {"setback", "rejected", "restart", "rival"} = {}
    BY <1>0, NoneMore
  <2>2. kept = {}
    BY <2>1 DEF SetbackIf
  <2>3. QED
    BY <1>0, <2>2 DEF ClearAnswers, Heard, Mine, inspection
<1>2. results = << >> /\ ~ Asking'
  BY <1>1 DEF Flow, Asking
<1>3. \A q \in Battery : cached'[q] = "none"
  BY <1>1, BatteryAsked
<1>4. Calm' /\ Stored'
  BY <1>1, <1>3 DEF Serving, Calm, Stored, Battery
<1>5. Mine' = Mine
  BY <1>1 DEF Mine
<1>6. \A i \in 1..Len(results') : FALSE
  BY <1>1, <1>2
<1>7. Underway'
  BY <1>1, <1>2, <1>5, <1>6 DEF Underway
<1>8. FirstMiss'
  BY <1>1, <1>2, <1>3 DEF FirstMiss, Decided, Battery
<1>9. QED
  BY <1>4, <1>7, <1>8 DEF Serving

(* The counters are read, before the probes.                               *)
LEMMA SmoothBefore ==
  ASSUME TypeOK, Flow, Behind, Smooth, Serving, SnapshotBefore
  PROVE  Serving'
<1>1. /\ step = "cleared" /\ step' = "ready" /\ UNCHANGED <<count, request, cached, results>>
  BY DEF SnapshotBefore, telemetryVars, serving
<1>2. results = << >> /\ Mine' = Mine /\ Asked' = Asked /\ ~ Asking'
  BY <1>1 DEF Flow, Mine, Asked, Asking
<1>3. Calm' /\ Stored'
  BY <1>1 DEF Serving, Calm, Stored
<1>4. \A i \in 1..Len(results') : FALSE
  BY <1>1, <1>2
<1>5. Mine.phase = "over"
  BY <1>1 DEF Flow, Asking
<1>6. Underway'
  BY <1>1, <1>2, <1>4, <1>5 DEF Underway
<1>7. FirstMiss'
  BY <1>1, <1>2 DEF Serving, FirstMiss, Unanswered, Decided
<1>8. QED
  BY <1>3, <1>6, <1>7 DEF Serving

(* An answer is noted.                                                     *)
LEMMA SmoothAnswered ==
  ASSUME TypeOK, Flow, Behind, Smooth, Serving, Answered
  PROVE  Serving'
<1>1. /\ step \in {"asking", "reasking"} /\ Mine.phase = "over" /\ results' = Append(results, Mine)
      /\ step = "asking" => Mine.code # 401
      /\ step' \in {"waiting", "ready"} /\ UNCHANGED <<count, request, cached, before>>
  BY DEF Answered, Heard, telemetryVars, serving, Mine
<1>2. Mine' = Mine /\ Asking /\ ~ Asking'
  BY <1>1 DEF Mine, Asking
<1>3. Calm' /\ Stored'
  BY <1>1 DEF Serving, Calm, Stored
<1>4. /\ Len(results') = Len(results) + 1 /\ results'[Len(results) + 1] = Mine
      /\ \A i \in 1..Len(results) : results'[i] = results[i]
      /\ Len(results) \in Nat /\ results' # << >>
  <2>1. results \in Seq(Requests) /\ Mine \in Requests
    BY SmoothFacts
  <2> HIDE DEF Requests
  <2>2. QED
    BY <1>1, <2>1
<1>5. ~ Rejected /\ ~ Rejected'
  BY <1>1, <1>2 DEF Serving, Underway, Rejected
<1>6. Got(Mine, Asked)
  BY <1>1, <1>2, <1>5 DEF Serving, Underway
<1>7. ASSUME NEW i \in 1..Len(results') PROVE Got(results[i], Probes[i].query)'
  <2>1. CASE i \in 1..Len(results)
    BY <1>1, <1>4, <2>1 DEF Serving, Underway, Got
  <2>2. CASE i = Len(results) + 1
    BY <1>1, <1>4, <1>6, <2>2 DEF Got, Asked
  <2>3. QED
    BY <1>4, <2>1, <2>2
<1>8. Underway'
  BY <1>1, <1>2, <1>5, <1>7 DEF Underway
<1>9. Grown(Lookups)' /\ Grown(Decisions)'
  <2>1. Grown(Lookups) /\ Grown(Decisions)
    BY <1>1, <1>2, <1>5 DEF Serving, FirstMiss, Decided
  <2>2. QED
    BY <1>1, <2>1 DEF Grown
<1>10. FirstMiss'
  BY <1>2, <1>4, <1>9 DEF FirstMiss
<1>11. QED
  BY <1>3, <1>8, <1>10 DEF Serving

(* Nothing else of the inspection, and nothing of the transport, moves     *)
(* what they look at.                                                      *)
LEMMA SmoothElse ==
  ASSUME TypeOK, Flow, Behind, Smooth, Serving, SnapshotAfter \/ Judge \/ Transport \/ Tick
  PROVE  Serving'
<1>1. UNCHANGED <<serving, results, before>>
  BY DEF SnapshotAfter, Judge, Transport, PipelineStep, Export, Flush, Scrape, Tick, Pass,
         telemetryVars, inspection
<1>2. step' = step \/ (step = "waiting" /\ step' = "judging")
  BY DEF SnapshotAfter, Judge, Transport, Tick
<1>3. UNCHANGED <<count, request, cached, results, before, Mine>>
  BY <1>1 DEF serving, Mine
<1>4. \A s \in Series : count[s] \in Nat
  BY SmoothFacts
<1>5. QED
  BY <1>2, <1>3, <1>4, ServingStays DEF Serving, Calm

(* Nor do the users, with their own queries.                               *)
LEMMA SmoothUsers ==
  ASSUME TypeOK, Flow, Behind, Smooth, Serving, Next, Smooth', NEW c \in Users,
         Serve(c) \/ \E q \in Queries : Visit(c, q)
  PROVE  Serving'
<1>1. /\ c \in Clients /\ c # Inspector /\ TelemetryTypeOK
      /\ request \in [Clients -> Requests] /\ cached \in [Queries -> Cacheable \cup {"none"}]
      /\ Users \subseteq Clients /\ Inspector \in Clients
      /\ Battery \subseteq Queries
      /\ \A d \in Users : request[d].phase # "over" => request[d].query \notin Battery
      /\ count["rerank_timeout"] = 0 /\ count["llm_error"] = 0
      /\ \A s \in Series : count[s] \in Nat
  BY SmoothFacts DEF Serving, Calm
<1>2. ASSUME NEW q \in Queries, Visit(c, q) PROVE Serving'
  <2>1. q \notin Battery
    BY <1>2, SmoothSteps
  <2>2. /\ UNCHANGED <<step, results, before, count, cached>>
        /\ request'[c].query = q /\ \A d \in Clients \ {c} : request'[d] = request[d]
    BY <1>1, <1>2 DEF Visit, Arrive, inspection
  <2>3. UNCHANGED Mine
    BY <1>1, <2>2 DEF Mine
  <2>4. QED
    BY <1>1, <2>1, <2>2, <2>3, ServingStays
<1>3. CASE Serve(c)
  <2>1. /\ UNCHANGED <<step, results, before>>
        /\ request[c].phase # "over"
        /\ request'[c].phase = "over" \/ request'[c].query = request[c].query
        /\ \A d \in Clients \ {c} : request'[d] = request[d]
    BY <1>1, <1>3, ClientMoves DEF Serve, inspection
  <2>2. UNCHANGED Mine
    BY <1>1, <2>1 DEF Mine
  <2>3. /\ UNCHANGED count \/ \E recorded :
              Record(recorded) /\ recorded \cap {"rerank_timeout", "llm_error"} = {}
        /\ \A q \in Queries : q # request[c].query => cached'[q] = cached[q]
    <3>1. ClientStep(c) /\ ~ Raise(c) /\ \A list : ~ Decline(c, list)
      BY <1>1, <1>3, SmoothSteps DEF Serve
    <3>2. CASE CacheHit(c)
      BY <1>1, <3>2 DEF CacheHit
    <3>3. ASSUME NEW inTime \in BOOLEAN, CacheMiss(c, inTime)
          PROVE  /\ \E recorded :
                       Record(recorded) /\ recorded \cap {"rerank_timeout", "llm_error"} = {}
                 /\ cached' = cached
      <4>1. inTime
        BY <1>1, <3>3, SmoothSteps
      <4>2. QED
        BY <3>3, <4>1 DEF CacheMiss
    <3>4. ASSUME NEW recorded, NEW list, Generate(c, recorded, list)
          PROVE  /\ Record(recorded) /\ recorded \cap {"rerank_timeout", "llm_error"} = {}
                 /\ \A q \in Queries : q # request[c].query => cached'[q] = cached[q]
      <4>1. recorded = Straight(c)
        BY <1>1, <3>4, SmoothSteps
      <4>2. QED
        BY <1>1, <3>4, <4>1 DEF Generate, Respond, Straight
    <3>5. CASE ResponseStart(c)
      BY <1>1, <3>5 DEF ResponseStart, StatusClass
    <3>6. CASE Complete(c)
      BY <1>1, <3>6 DEF Complete
    <3>7. QED
      BY <3>1, <3>2, <3>3, <3>4, <3>5, <3>6 DEF ClientStep
  <2>4. /\ count'["rerank_timeout"] = 0 /\ count'["llm_error"] = 0
        /\ \A s \in Series : count'[s] \in Nat /\ count[s] <= count'[s]
    BY <1>1, <2>1, <2>3, RecordAdds
  <2>5. request[c].query \notin Battery
    BY <1>1, <2>1
  <2>6. QED
    BY <1>1, <2>1, <2>2, <2>3, <2>4, <2>5, ServingStays
<1>4. QED
  BY <1>2, <1>3

(* So no step there is disturbs the four.                                  *)
LEMMA ServingKept ==
  ASSUME TypeOK, Flow, Behind, Serving, Next, Smooth'
  PROVE  Smooth /\ Serving'
<1>1. Smooth /\ ~ Replace /\ Inspector \in Clients
  BY SmoothSteps, InspectAssumption DEF vars
<1>2. CASE Serve(Inspector)
  <2>1. ClientStep(Inspector) /\ \A list : ~ Decline(Inspector, list)
    BY <1>1, <1>2, SmoothSteps DEF Serve
  <2>2. CASE CacheHit(Inspector) \/ ResponseStart(Inspector) \/ Complete(Inspector)
    BY <1>1, <1>2, <2>2, SmoothHit, SmoothResponse, SmoothComplete
  <2>3. ASSUME NEW inTime \in BOOLEAN, CacheMiss(Inspector, inTime) PROVE Serving'
    <3>1. inTime = TRUE
      BY <1>1, <2>3, SmoothSteps
    <3>2. QED
      BY <1>1, <1>2, <2>3, <3>1, SmoothMiss
  <2>4. ASSUME NEW recorded, NEW list, Generate(Inspector, recorded, list) PROVE Serving'
    <3>1. recorded = Straight(Inspector) /\ list \in Lists
      BY <1>1, <2>4, SmoothSteps
    <3>2. QED
      BY <1>1, <1>2, <2>4, <3>1, SmoothGenerate
  <2>5. QED
    BY <1>1, <2>1, <2>2, <2>3, <2>4 DEF ClientStep
<1>3. CASE Warm \/ Probe
  BY <1>1, <1>3, SmoothAsk
<1>4. CASE ClearAnswers \/ SnapshotBefore \/ Answered
  BY <1>1, <1>4, SmoothClear, SmoothBefore, SmoothAnswered
<1>5. CASE SnapshotAfter \/ Judge \/ Transport \/ Tick
  BY <1>1, <1>5, SmoothElse
<1>6. ASSUME NEW c \in Users, Serve(c) \/ \E q \in Queries : Visit(c, q) PROVE Serving'
  BY <1>1, <1>6, SmoothUsers
<1>7. QED
  BY <1>1, <1>2, <1>3, <1>4, <1>5, <1>6, InspectAssumption DEF Next, InspectorStep

(* What has come through in time zero is all that is asked of it.          *)
LEMMA CarriedNow ==
  ASSUME TelemetryTypeOK, NEW floor
  PROVE  Carried(0, floor)
<1>1. ~ (0 > ExportEvery - exportIn) /\ ~ (0 > ScrapeEvery - scrapeIn)
  BY PipelineFacts, ClockFacts
<1>2. ~ (0 > ExportEvery + BatchTimeout - batch.left)
  BY PipelineFacts, ClockFacts
<1> DEFINE T(i) == ExportEvery + BatchTimeout + (Len(samples) - i) * ScrapeEvery
                     + ScrapeEvery - scrapeIn
<1>3. ASSUME NEW i \in 1..Len(samples) PROVE ~ (0 > T(i))
  <2>1. T(i) \in Int /\ T(i) >= ExportEvery + BatchTimeout
    BY ScrapeDue
  <2> HIDE DEF T
  <2>2. QED
    BY <2>1, ClockFacts
<1>4. QED
  BY <1>1, <1>2, <1>3 DEF Carried

(* As the wait gets longer each stage is as much nearer.                   *)
LEMMA CarriedPasses ==
  ASSUME TelemetryTypeOK, NEW floor, NEW e \in Nat, e > 0 => Carried(e - 1, floor), Pass
  PROVE  Carried(e, floor)'
<1>1. /\ exportIn' = exportIn - 1 /\ scrapeIn' = scrapeIn - 1
      /\ UNCHANGED <<count, exposed, samples>> /\ batch.left # 0
  BY DEF Pass, Settled, serving
<1>2. batch'.count = batch.count
      /\ batch'.left = IF batch.left > 0 THEN batch.left - 1 ELSE batch.left
  <2>1. batch' = [batch EXCEPT !.left = IF @ > 0 THEN @ - 1 ELSE @]
    BY DEF Pass
  <2>2. batch \in [left : -1..BatchTimeout, count : Snapshots]
    BY DEF TelemetryTypeOK
  <2>3. QED
    BY <2>1, <2>2
<1>3. Due' = Due
  <2>1. batch'.left >= 0 <=> batch.left >= 0
    BY <1>1, <1>2, PipelineFacts
  <2>2. QED
    BY <1>1, <1>2, <2>1 DEF Due, Over
<1>4. e > ExportEvery - exportIn' => \A s \in Series : floor[s] <= Due[s]
  <2>1. e > ExportEvery - exportIn' => e > 0 /\ e - 1 > ExportEvery - exportIn
    BY <1>1, PipelineFacts, ClockFacts
  <2>2. QED
    BY <2>1 DEF Carried
<1>5. batch'.left >= 0 /\ e > ExportEvery + BatchTimeout - batch'.left =>
         \A s \in Series : floor[s] <= exposed[s]
  <2>1. batch'.left >= 0 /\ e > ExportEvery + BatchTimeout - batch'.left =>
           batch.left >= 0 /\ e > 0 /\ e - 1 > ExportEvery + BatchTimeout - batch.left
    <3>1. ExportEvery \in Nat /\ BatchTimeout \in Nat
      BY ClockFacts
    <3>2. batch.left \in Int /\ batch.left <= BatchTimeout /\ batch.left >= -1
      BY PipelineFacts
    <3>3. CASE batch.left > 0
      <4>1. batch'.left = batch.left - 1
        BY <1>2, <3>3
      <4>2. QED
        BY <3>1, <3>2, <3>3, <4>1
    <3>4. CASE ~ (batch.left > 0)
      <4>1. batch'.left = -1
        BY <1>1, <1>2, <3>2, <3>4
      <4>2. QED
        BY <4>1
    <3>5. QED
      BY <3>3, <3>4
  <2>2. QED
    BY <2>1 DEF Carried
<1>6. ASSUME NEW i \in 1..Len(samples),
             e > ExportEvery + BatchTimeout + (Len(samples) - i) * ScrapeEvery
                   + ScrapeEvery - scrapeIn'
      PROVE  \A s \in Series : floor[s] <= samples[i][s]
  <2> DEFINE n == (Len(samples) - i) * ScrapeEvery
  <2>1. /\ n \in Int /\ e > ExportEvery + BatchTimeout + n + ScrapeEvery - (scrapeIn - 1)
        /\ ExportEvery + BatchTimeout + n + ScrapeEvery - scrapeIn \in Int
        /\ ExportEvery + BatchTimeout + n + ScrapeEvery - scrapeIn >= ExportEvery + BatchTimeout
    BY <1>1, <1>6, ScrapeDue
  <2>2. /\ ExportEvery \in Nat /\ BatchTimeout \in Nat /\ ScrapeEvery \in Nat
        /\ scrapeIn \in Int
    BY ClockFacts, PipelineFacts
  <2> HIDE DEF n
  <2>3. e > 0 /\ e - 1 > ExportEvery + BatchTimeout + n + ScrapeEvery - scrapeIn
    BY <2>1, <2>2
  <2>4. Carried(e - 1, floor)
    BY <2>3
  <2>5. QED
    BY <2>3, <2>4 DEF Carried, n
<1>7. e > ScrapeEvery - scrapeIn' => samples # << >>
  <2>1. e > ScrapeEvery - scrapeIn' => e > 0 /\ e - 1 > ScrapeEvery - scrapeIn
    BY <1>1, PipelineFacts, ClockFacts
  <2>2. QED
    BY <2>1 DEF Carried
<1>8. QED
  BY <1>1, <1>3, <1>4, <1>5, <1>6, <1>7 DEF Carried

(* The pipeline takes it one stage on, whatever is counted meanwhile.      *)
LEMMA CarriedMoves ==
  ASSUME TelemetryTypeOK, Held, NEW floor \in Snapshots, NEW e \in Nat,
         \A s \in Series : floor[s] <= count[s], Carried(e, floor), PipelineStep
  PROVE  Carried(e, floor)'
<1>1. /\ (e > ExportEvery - exportIn => \A s \in Series : floor[s] <= Due[s])
      /\ (batch.left >= 0 /\ e > ExportEvery + BatchTimeout - batch.left =>
             \A s \in Series : floor[s] <= exposed[s])
      /\ (e > ScrapeEvery - scrapeIn => samples # << >>)
  BY DEF Carried
<1> DEFINE Old(i) == ExportEvery + BatchTimeout + (Len(samples) - i) * ScrapeEvery
                       + ScrapeEvery - scrapeIn
<1>2. \A i \in 1..Len(samples) : e > Old(i) => \A s \in Series : floor[s] <= samples[i][s]
  BY DEF Carried
<1>3. \A s \in Series : floor[s] \in Nat
  BY DEF Snapshots
<1>4. CASE Export
  <2>1. /\ exportIn = 0 /\ exportIn' = ExportEvery
        /\ batch' = [left |-> IF batch.left < 0 THEN BatchTimeout ELSE batch.left,
                     count |-> Over(count, batch.count)]
        /\ UNCHANGED <<count, exposed, scrapeIn, samples>>
    BY <1>4 DEF Export, serving
  <2>2. batch'.left = IF batch.left < 0 THEN BatchTimeout ELSE batch.left
    BY <2>1
  <2>3. batch'.left >= 0
    BY <2>2, PipelineFacts, ClockFacts
  <2>4. ASSUME NEW s \in Series PROVE Due'[s] = IF count[s] = 0 THEN Due[s] ELSE count[s]
    <3>1. batch'.count[s] = IF count[s] = 0 THEN batch.count[s] ELSE count[s]
      BY <2>1 DEF Over
    <3>2. batch.left < 0 => batch.count[s] = 0
      BY DEF Held, NoSeries
    <3>3. Due'[s] = IF batch'.count[s] # 0 THEN batch'.count[s] ELSE exposed[s]
      BY <2>1, <2>3 DEF Due, Over
    <3>4. QED
      BY <3>1, <3>2, <3>3, PipelineFacts
  <2>5. ASSUME NEW s \in Series PROVE Due'[s] \in Nat /\ floor[s] <= Due'[s]
    BY <1>3, <2>4, PipelineFacts
  <2>6. batch'.left >= 0 /\ e > ExportEvery + BatchTimeout - batch'.left =>
           \A s \in Series : floor[s] <= exposed[s]
    <3>1. CASE batch.left < 0
      <4>1. Due = exposed /\ batch'.left = BatchTimeout
        BY <2>2, <3>1, PipelineFacts DEF Due
      <4>2. ExportEvery + BatchTimeout - batch'.left = ExportEvery - exportIn
        BY <2>1, <4>1, ClockFacts
      <4>3. QED
        BY <1>1, <4>1, <4>2
    <3>2. CASE ~ (batch.left < 0)
      <4>1. batch'.left = batch.left
        BY <2>2, <3>2
      <4>2. QED
        BY <1>1, <2>3, <4>1
    <3>3. QED
      BY <3>1, <3>2
  <2>7. QED
    BY <1>1, <1>2, <2>1, <2>5, <2>6 DEF Carried
<1>5. CASE Flush
  <2>1. /\ batch.left = 0 /\ exposed' = Due /\ batch'.left = -1
        /\ UNCHANGED <<count, exportIn, scrapeIn, samples>>
    BY <1>5 DEF Flush, serving, Due
  <2>2. Due' = Due
    BY <2>1 DEF Due
  <2>3. ~ (batch'.left >= 0)
    BY <2>1
  <2>4. QED
    BY <1>1, <1>2, <2>1, <2>2, <2>3 DEF Carried
<1>6. CASE Scrape
  <2> DEFINE all == Append(samples, exposed)
             N == Len(samples)
  <2>1. /\ scrapeIn = 0 /\ scrapeIn' = ScrapeEvery
        /\ samples' = IF Len(all) > Window THEN Tail(all) ELSE all
        /\ UNCHANGED <<count, exportIn, batch, exposed>>
    BY <1>6 DEF Scrape, serving
  <2>2. Due' = Due
    BY <2>1 DEF Due, Over
  <2>3. samples \in Seq(Snapshots) /\ exposed \in Snapshots /\ N \in Nat
    BY DEF TelemetryTypeOK
  <2>4. /\ all \in Seq(Snapshots) /\ Len(all) = N + 1
        /\ all[N + 1] = exposed /\ \A i \in 1..N : all[i] = samples[i]
    <3> HIDE DEF Snapshots
    <3> QED BY <2>3
  <2>5. PICK d \in {0, 1} :
           /\ Len(samples') = N + 1 - d /\ \A i \in 1..Len(samples') : samples'[i] = all[i + d]
           /\ samples' # << >>
    <3>1. CASE Len(all) > Window
      <4>1. samples' = Tail(all) /\ N >= 1
        BY <2>1, <2>3, <2>4, <3>1, ClockFacts
      <4>2. Len(samples') = N + 1 - 1 /\ \A i \in 1..Len(samples') : samples'[i] = all[i + 1]
        <5> HIDE DEF all, Snapshots, N
        <5> QED BY <2>3, <2>4, <4>1
      <4>3. QED
        BY <2>3, <4>1, <4>2
    <3>2. CASE ~ (Len(all) > Window)
      <4>1. samples' = all
        BY <2>1, <3>2
      <4> HIDE DEF all, N
      <4>2. Len(samples') = N + 1 - 0 /\ \A i \in 1..Len(samples') : samples'[i] = all[i + 0]
        BY <2>3, <2>4, <4>1
      <4>3. QED
        BY <2>3, <4>2
    <3>3. QED
      BY <3>1, <3>2
  <2> HIDE DEF all
  <2>6. e > ExportEvery + BatchTimeout => \A s \in Series : floor[s] <= exposed[s]
    <3>1. CASE batch.left >= 0
      <4>1. e > ExportEvery + BatchTimeout => e > ExportEvery + BatchTimeout - batch.left
        BY <3>1, PipelineFacts, ClockFacts
      <4>2. QED
        BY <1>1, <3>1, <4>1
    <3>2. CASE ~ (batch.left >= 0)
      <4>1. Due = exposed
        BY <3>2 DEF Due
      <4>2. e > ExportEvery + BatchTimeout => e > ExportEvery - exportIn
        BY PipelineFacts, ClockFacts
      <4>3. QED
        BY <1>1, <4>1, <4>2
    <3>3. QED
      BY <3>1, <3>2
  <2>7. ASSUME NEW i \in 1..Len(samples'),
               e > ExportEvery + BatchTimeout + (Len(samples') - i) * ScrapeEvery
                     + ScrapeEvery - scrapeIn'
        PROVE  \A s \in Series : floor[s] <= samples'[i][s]
    <3> DEFINE j == i + d
    <3>1. /\ j \in 1..(N + 1) /\ samples'[i] = all[j]
          /\ Len(samples') - i = N + 1 - j
      BY <2>3, <2>5
    <3>2. CASE j = N + 1
      <4>1. samples'[i] = exposed
        BY <2>4, <3>1, <3>2
      <4>2. (N + 1 - j) * ScrapeEvery = 0
        BY <2>3, <3>2, ClockFacts
      <4>3. e > ExportEvery + BatchTimeout
        <5>1. e > ExportEvery + BatchTimeout + 0 + ScrapeEvery - ScrapeEvery
          BY <2>1, <2>7, <3>1, <4>2
        <5>2. QED
          BY <5>1, ClockFacts
      <4>4. QED
        BY <2>6, <4>1, <4>3
    <3>3. CASE j \in 1..N
      <4>1. samples'[i] = samples[j]
        BY <2>4, <3>1, <3>3
      <4>2. (N + 1 - j) * ScrapeEvery = (N - j) * ScrapeEvery + ScrapeEvery
            /\ (N - j) * ScrapeEvery \in Int
        <5>1. N - j \in Int /\ N + 1 - j = (N - j) + 1
          BY <2>3, <3>3
        <5>2. QED
          BY <5>1, OneMore
      <4>3. e > ExportEvery + BatchTimeout + (N + 1 - j) * ScrapeEvery + ScrapeEvery - ScrapeEvery
        BY <2>1, <2>7, <3>1
      <4> DEFINE n == (N - j) * ScrapeEvery
      <4>4. e > ExportEvery + BatchTimeout + n + ScrapeEvery - 0
        <5>1. ExportEvery \in Int /\ BatchTimeout \in Int /\ ScrapeEvery \in Int
          BY ClockFacts
        <5>2. n \in Int /\ e > ExportEvery + BatchTimeout + (n + ScrapeEvery) + ScrapeEvery - ScrapeEvery
          BY <4>2, <4>3
        <5> HIDE DEF n
        <5>3. QED
          BY <5>1, <5>2
      <4>5. e > Old(j)
        BY <2>1, <4>4 DEF n
      <4> HIDE DEF j, Old, n
      <4>6. QED
        BY <1>2, <3>3, <4>1, <4>5
    <3>4. QED
      BY <2>3, <3>1, <3>2, <3>3
  <2>8. QED
    BY <1>1, <2>1, <2>2, <2>5, <2>7 DEF Carried
<1>7. QED
  BY <1>4, <1>5, <1>6 DEF PipelineStep

(* There is a probe the venue is there for, and one of each label.         *)
LEMMA ProbesThere ==
  /\ \E i \in 1..Len(Probes) : Probes[i].query \in ClearClass
  /\ \E i, j \in DOMAIN Probes :
        /\ Labelled("grounded") = results[i] /\ Labelled("repeat") = results[j]
        /\ Probes[i].query = Probes[j].query
<1>1. \E i \in 1..Len(Probes) : Probes[i].query \in ClearClass
  BY ProbesAsk, InspectAssumption DEF Range
<1>2. \A label \in {"grounded", "repeat"} : \E i \in DOMAIN Probes : Probes[i].label = label
  BY InspectAssumption DEF Range
<1> DEFINE Of(label) == CHOOSE i \in DOMAIN Probes : Probes[i].label = label
<1>3. /\ Of("grounded") \in DOMAIN Probes /\ Probes[Of("grounded")].label = "grounded"
      /\ Of("repeat") \in DOMAIN Probes /\ Probes[Of("repeat")].label = "repeat"
  BY <1>2
<1>4. /\ Labelled("grounded") = results[Of("grounded")]
      /\ Labelled("repeat") = results[Of("repeat")]
  BY DEF Labelled
<1> HIDE DEF Of
<1>5. Probes[Of("grounded")].query = Probes[Of("repeat")].query
  <2>1. /\ Probes[Of("grounded")] \in Range(Probes) /\ Probes[Of("repeat")] \in Range(Probes)
        /\ {Probes[Of("grounded")].label, Probes[Of("repeat")].label} \subseteq {"grounded", "repeat"}
    BY <1>3 DEF Range
  <2>2. QED
    BY <2>1, InspectAssumption
<1>6. QED
  BY <1>1, <1>3, <1>4, <1>5

(* When the wait begins, what the probes must have moved has been counted. *)
LEMMA AllCounted ==
  ASSUME Serving', Len(results') = Len(Probes)
  PROVE  Shown(count)'
<1>1. /\ \E i \in 1..Len(Probes) : Probes[i].query \in ClearClass
      /\ DOMAIN Probes = 1..Len(Probes)
  BY ProbesThere, ProbesAsk
<1>2. PICK n \in 1..Len(results') : Probes[n].query \in ClearClass
  BY <1>1
<1>3. /\ Got(results[n], Probes[n].query)' /\ Probes[n].query \in Battery
      /\ Grown(Lookups)' /\ Grown(Decisions)'
  <2>1. results' # << >>
    BY <1>2
  <2>2. \A i \in 1..Len(results') : Got(results[i], Probes[i].query)'
    BY DEF Serving, Underway
  <2>3. Grown(Lookups)' /\ Grown(Decisions)'
    BY <2>1 DEF Serving, FirstMiss
  <2>4. QED
    BY <1>1, <1>2, <2>2, <2>3, BatteryAsked DEF Got
<1>4. cached'[Probes[n].query] # "none"
  BY <1>3, TelemetryAssumption DEF Got
<1>5. QED
  BY <1>2, <1>3, <1>4 DEF Shown, Serving, Stored, Grown

(* What was counted comes through while the inspector waits.               *)
LEMMA ComingKept ==
  ASSUME TypeOK, TypeOK', Flow, Flow', Held, Behind, Behind', Serving', Coming, Next, Smooth'
  PROVE  Coming'
<1> SUFFICES ASSUME step' \in {"waiting", "judging"}
             PROVE  (\E floor \in Snapshots :
                       /\ Shown(floor) /\ \A s \in Series : floor[s] <= count[s]
                       /\ Carried(Quiet, floor))'
  BY DEF Coming
<1>1. /\ TelemetryTypeOK /\ TelemetryTypeOK' /\ left \in 0..ScrapeWait /\ ScrapeWait \in Nat
      /\ left' \in 0..ScrapeWait
  BY ClockFacts DEF TypeOK
<1>2. Quiet \in Nat
  BY <1>1 DEF Quiet
<1>3. /\ Smooth /\ ~ Replace
      /\ \A s \in Series : count[s] \in Nat /\ count'[s] \in Nat /\ count[s] <= count'[s]
  BY SmoothSteps, CountsRise DEF Smooth
<1>4. CASE Answered
  <2>1. /\ UNCHANGED <<count, before, pipeline>>
        /\ Len(results') = Len(Probes) /\ left' = ScrapeWait
    BY <1>4 DEF Answered, SettlingTime, telemetryVars, serving
  <2>2. Shown(count)'
    BY <2>1, AllCounted
  <2>3. Quiet' = 0
    BY <1>1, <2>1 DEF Quiet
  <2>4. Carried(0, count)'
    <3>1. Carried(0, count')
      BY <1>1, CarriedNow
    <3>2. QED
      BY <2>1, <3>1 DEF Carried, Due, pipeline
  <2>5. count' \in Snapshots
    BY <1>1 DEF TelemetryTypeOK
  <2>6. QED
    BY <1>3, <2>2, <2>3, <2>4, <2>5
<1>5. ASSUME step \in {"waiting", "judging"}, before' = before,
             \A floor \in Snapshots :
                Carried(Quiet, floor) /\ (\A s \in Series : floor[s] <= count[s]) =>
                   Carried(Quiet, floor)'
      PROVE  (\E floor \in Snapshots :
                /\ Shown(floor) /\ \A s \in Series : floor[s] <= count[s]
                /\ Carried(Quiet, floor))'
  <2>1. PICK floor \in Snapshots : /\ Shown(floor) /\ \A s \in Series : floor[s] <= count[s]
                                   /\ Carried(Quiet, floor)
    BY <1>5 DEF Coming
  <2>2. \A s \in Series : floor[s] \in Nat
    BY DEF Snapshots
  <2>3. \A s \in Series : floor[s] <= count'[s]
    BY <1>3, <2>1, <2>2
  <2>4. Shown(floor)'
    BY <1>5, <2>1 DEF Shown
  <2>5. QED
    BY <1>5, <2>1, <2>3, <2>4
<1>6. ASSUME UNCHANGED pipeline, Quiet' = Quiet, NEW floor, Carried(Quiet, floor)
      PROVE  Carried(Quiet, floor)'
  BY <1>6 DEF Carried, Due, pipeline
<1>7. CASE Warm \/ Probe \/ ClearAnswers \/ SnapshotBefore
  BY <1>7, Questions DEF ClearAnswers, SnapshotBefore, Asking
<1>8. CASE SnapshotAfter \/ Judge
  <2>1. UNCHANGED <<pipeline, left, before>> /\ step \in {"waiting", "judging"}
    BY <1>8 DEF SnapshotAfter, Judge, telemetryVars
  <2>2. QED
    BY <1>5, <1>6, <2>1 DEF Quiet
<1>9. ASSUME NEW c \in Clients, Serve(c) \/ (c \in Users /\ \E q \in Queries : Visit(c, q))
      PROVE  (\E floor \in Snapshots :
                /\ Shown(floor) /\ \A s \in Series : floor[s] <= count[s]
                /\ Carried(Quiet, floor))'
  <2>1. UNCHANGED <<step, left, before>>
    BY <1>9 DEF Serve, Visit, inspection
  <2>2. UNCHANGED pipeline
    BY <1>1, <1>9, ClientMoves DEF Serve, Visit, Arrive
  <2>3. QED
    BY <1>5, <1>6, <2>1, <2>2 DEF Quiet
<1>10. CASE Transport
  <2>1. PipelineStep /\ UNCHANGED <<step, left, before>>
    BY <1>10 DEF Transport, inspection
  <2>2. Quiet' = Quiet
    BY <2>1 DEF Quiet
  <2>3. ASSUME NEW floor \in Snapshots, Carried(Quiet, floor), \A s \in Series : floor[s] <= count[s]
        PROVE  Carried(Quiet, floor)'
    <3> DEFINE e == Quiet
    <3>1. Carried(e, floor)' /\ e' = e
      BY <1>1, <1>2, <2>1, <2>2, <2>3, CarriedMoves
    <3>2. QED
      BY <3>1
  <2>4. QED
    BY <1>5, <2>1, <2>3
<1>11. CASE Tick
  <2>1. /\ Pass /\ UNCHANGED <<step, before>> /\ left' = (IF left > 0 THEN left - 1 ELSE 0)
        /\ (step \in {"waiting", "judging"} => step = "waiting" /\ left > 0)
    BY <1>11 DEF Tick, inspection
  <2>2. Quiet' = Quiet + 1
    BY <1>1, <2>1 DEF Quiet
  <2>3. ASSUME NEW floor \in Snapshots, Carried(Quiet, floor), \A s \in Series : floor[s] <= count[s]
        PROVE  Carried(Quiet, floor)'
    BY <1>1, <1>2, <2>1, <2>2, <2>3, CarriedPasses
  <2>4. QED
    BY <1>5, <2>1, <2>3
<1>12. QED
  BY <1>3, <1>4, <1>7, <1>8, <1>9, <1>10, <1>11, InspectAssumption DEF Next, InspectorStep

(* After the wait it is what Prometheus has, or more has come since.       *)
LEMMA AllThrough ==
  ASSUME TypeOK, Coming, step \in {"waiting", "judging"}, left = 0
  PROVE  Shown(Latest)
<1>1. TelemetryTypeOK /\ Quiet = ScrapeWait
  BY ClockFacts DEF TypeOK, Quiet
<1>2. /\ ScrapeWait \in Nat /\ ScrapeWait > ExportEvery + BatchTimeout + ScrapeEvery
      /\ ExportEvery \in Nat /\ BatchTimeout \in Nat /\ ScrapeEvery \in Nat
  BY ClockFacts
<1>3. scrapeIn \in Int /\ 0 <= scrapeIn /\ Len(samples) \in Nat
  BY <1>1, PipelineFacts
<1>4. PICK floor \in Snapshots : Shown(floor) /\ Carried(ScrapeWait, floor)
  BY <1>1 DEF Coming
<1>5. samples # << >> /\ Len(samples) \in 1..Len(samples)
  <2>1. samples # << >>
    BY <1>2, <1>3, <1>4 DEF Carried
  <2>2. samples \in Seq(Snapshots)
    BY <1>1 DEF TelemetryTypeOK
  <2> HIDE DEF Snapshots
  <2>3. QED
    BY <1>3, <2>1, <2>2
<1>6. \A s \in Series : floor[s] <= samples[Len(samples)][s]
  <2>1. (Len(samples) - Len(samples)) * ScrapeEvery = 0
    BY <1>2, <1>3
  <2>2. ScrapeWait > ExportEvery + BatchTimeout + (Len(samples) - Len(samples)) * ScrapeEvery
                      + ScrapeEvery - scrapeIn
    BY <1>2, <1>3, <2>1
  <2>3. QED
    BY <1>4, <1>5, <2>2 DEF Carried
<1>7. \A s \in Series : floor[s] <= Latest[s]
  BY <1>5, <1>6 DEF Latest, Last
<1>8. \A s \in Series : floor[s] \in Nat /\ Latest[s] \in Nat
  BY <1>1, LatestTyped DEF Snapshots
<1>9. Lookups \cup Decisions \subseteq Series /\ before \in Snapshots
  BY DEF Lookups, Decisions, Series, TypeOK
<1>10. \A s \in Series : before[s] \in Nat
  BY <1>9 DEF Snapshots
<1>11. {"rerank_ok", "confidence", "confident", "venue_served", "llm_ok"} \subseteq Series
  BY DEF Series, Calls
<1>12. QED
  BY <1>4, <1>7, <1>8, <1>9, <1>10, <1>11 DEF Shown

(* No section finds anything wrong.                                        *)
LEMMA JudgedWell ==
  ASSUME TypeOK, Flow, Behind, Smooth, Serving, Coming, Clean, step = "judging",
         count["confidence"] < TopShare,
         NEW section \in {"cache", "retrieval", "router", "serving", "answers"}
  PROVE  \A k \in DOMAIN Judged(section) : Judged(section)[k] # "fail"
<1>1. left = 0 /\ Len(results) = Len(Probes) /\ DOMAIN Probes = 1..Len(Probes)
  BY ProbesAsk DEF Flow
<1>2. Shown(Latest) /\ Shown(after)
  BY <1>1, AllThrough DEF Clean
<1>3. \A i \in DOMAIN Probes : Got(results[i], Probes[i].query)
  BY <1>1 DEF Serving, Underway
<1>4. TelemetryTypeOK /\ disturbances["restart"] = 0
  BY DEF TypeOK, Smooth
<1>5. ASSUME NEW s \in {"rerank_timeout", "llm_error"} PROVE Increase(s) = 0
  <2>1. s \in Series /\ count[s] = 0
    BY DEF Series, Calls, Serving, Calm
  <2>2. \A i \in 1..Len(samples) : samples[i][s] = 0
    BY <1>4, <2>1, PipelineFacts DEF Behind
  <2>3. Rises(s) = {}
    BY <1>4, <2>2, NoneRises
  <2>4. QED
    BY <2>3, FS_EmptySet DEF Increase
<1>6. Moved(Lookups) /\ Moved(Decisions)
  <2>1. \A s \in Series : after[s] \in Nat /\ before[s] \in Nat
    BY DEF TypeOK, Snapshots
  <2>2. Lookups \subseteq Series /\ Decisions \subseteq Series
    BY DEF Lookups, Decisions, Series
  <2>3. QED
    BY <1>2, <2>1, <2>2 DEF Shown, Moved
<1>7. \A k \in DOMAIN CacheChecks : CacheChecks[k] # "fail"
  <2>1. PICK i, j \in DOMAIN Probes :
           /\ Labelled("grounded") = results[i] /\ Labelled("repeat") = results[j]
           /\ Probes[i].query = Probes[j].query
    BY ProbesThere
  <2>2. /\ Labelled("grounded").list \notin {"none", "refusal"}
        /\ Labelled("grounded").list = Labelled("repeat").list
    BY <1>3, <2>1, TelemetryAssumption DEF Got
  <2>3. QED
    BY <1>6, <2>2 DEF CacheChecks, Mark
<1>8. TopShare * Latest["confident"] > Latest["confidence"]
  <2>1. "confident" \in Series /\ "confidence" \in Series
    BY DEF Series
  <2>2. /\ Latest["confident"] \in Nat /\ Latest["confident"] > 0
        /\ Latest["confidence"] \in Nat /\ Latest["confidence"] > 0
    BY <1>2, <1>4, <2>1, LatestTyped DEF Shown, Snapshots
  <2>3. Latest["confidence"] <= count["confidence"]
    <3>1. samples # << >>
      BY <2>1, <2>2 DEF Latest, NoSeries
    <3>2. samples \in Seq(Snapshots)
      BY <1>4 DEF TelemetryTypeOK
    <3>3. Len(samples) \in 1..Len(samples)
      <4> HIDE DEF Snapshots
      <4> QED BY <3>1, <3>2
    <3>4. QED
      BY <1>4, <2>1, <3>1, <3>3 DEF Behind, Latest, Last
  <2>4. count["confidence"] \in Nat /\ TopShare \in Nat
    BY <1>4, <2>1, PipelineFacts, InspectAssumption
  <2>5. TopShare * Latest["confident"] >= TopShare
    BY <2>2, <2>4
  <2>6. TopShare * Latest["confident"] \in Nat
    BY <2>2, <2>4
  <2>7. QED
    BY <2>2, <2>3, <2>4, <2>5, <2>6
<1>9. \A k \in DOMAIN RetrievalChecks : RetrievalChecks[k] # "fail"
  <2>1. Live(Reranks) /\ Live({"confidence"})
    BY <1>2 DEF Shown, Live, Reranks
  <2>2. QED
    BY <1>5, <1>8, <2>1 DEF RetrievalChecks, Mark
<1>10. \A k \in DOMAIN RouterChecks : RouterChecks[k] # "fail"
  BY <1>2, <1>6 DEF RouterChecks, Mark, Live, Decisions, Shown
<1>11. \A k \in DOMAIN ServingChecks : ServingChecks[k] # "fail"
  BY <1>2, <1>5 DEF ServingChecks, Mark, Live, Calls, Shown
<1>12. \A k \in DOMAIN AnswerChecks : AnswerChecks[k] # "fail"
  <2>1. ASSUME NEW i \in DOMAIN Probes PROVE Kind(results[i]) = "grounded"
    <3>1. results[i].code = 200 /\ results[i].list \in Lists
      BY <1>3 DEF Got
    <3>2. QED
      BY <3>1, TelemetryAssumption DEF Kind
  <2>2. \A i \in DOMAIN Probes : Probes[i].want = "grounded"
    BY ProbesAsk
  <2>3. QED
    BY <2>1, <2>2 DEF AnswerChecks, Mark
<1>13. QED
  BY <1>7, <1>9, <1>10, <1>11, <1>12 DEF Judged

(* The report stays clean.                                                 *)
LEMMA CleanKept ==
  ASSUME TypeOK, Flow, Behind, Serving, Coming, Clean, Next, Smooth'
  PROVE  Clean'
<1>1. /\ Smooth /\ ~ Replace
      /\ count["confidence"] \in Nat /\ count'["confidence"] \in Nat
      /\ count["confidence"] <= count'["confidence"]
  BY SmoothSteps, CountsRise DEF Smooth, Series
<1>2. count'["confidence"] < TopShare => count["confidence"] < TopShare
  BY <1>1, InspectAssumption
<1>3. CASE Judge
  <2>1. PICK section \in Range(Sections) :
           /\ DOMAIN report' = DOMAIN report \cup {section}
           /\ \A s \in DOMAIN report' :
                 report'[s] = IF s = section THEN Judged(s) ELSE report[s]
           /\ UNCHANGED <<telemetryVars, step, left, results, before, after, history>>
    BY <1>3, JudgeMoves
  <2>2. step = "judging" /\ section \in {"cache", "retrieval", "router", "serving", "answers"}
    BY <1>3, <2>1, InspectAssumption DEF Judge
  <2>3. count["confidence"] < TopShare =>
           \A k \in DOMAIN Judged(section) : Judged(section)[k] # "fail"
    BY <1>1, <2>2, JudgedWell
  <2>4. Shown(after)'
    BY <2>1, <2>2 DEF Clean, Shown
  <2>5. QED
    BY <1>2, <2>1, <2>3, <2>4 DEF Clean
<1>4. CASE SnapshotAfter
  <2>1. step = "waiting" /\ left = 0 /\ after' = Latest /\ UNCHANGED <<before, report>>
    BY <1>4 DEF SnapshotAfter
  <2>2. Shown(Latest)
    BY <2>1, AllThrough
  <2>3. Shown(after)'
    BY <2>1, <2>2 DEF Shown
  <2>4. QED
    BY <1>2, <2>1, <2>3 DEF Clean
<1>5. CASE Warm \/ Probe \/ ClearAnswers \/ SnapshotBefore \/ Answered
  <2>1. step' # "judging" /\ report' = report
    BY <1>5, Questions
       DEF Asking, ClearAnswers, SnapshotBefore, Answered, inspection
  <2>2. QED
    BY <1>2, <2>1 DEF Clean
<1>6. CASE UNCHANGED <<step, before, after, report>>
  BY <1>2, <1>6 DEF Clean, Shown
<1>7. QED
  BY <1>1, <1>3, <1>4, <1>5, <1>6
     DEF Next, InspectorStep, Visit, Serve, Transport, Tick, inspection

-----------------------------------------------------------------------------
(* The invariant, and what follows from it.                                *)

(* It holds when nothing has happened yet.                                 *)
LEMMA InspectInit ==
  ASSUME Init
  PROVE  InspectInv
<1>1. /\ TelemetryInit /\ step = "off" /\ results = << >>
      /\ before = NoSeries /\ after = NoSeries /\ left = 0 /\ report = << >>
      /\ made = {} /\ venueSeen = FALSE
  BY DEF Init
<1>2. NoSeries \in Snapshots /\ \A s \in Series : NoSeries[s] = 0
  BY DEF NoSeries, Snapshots
<1>3. NoRequest \in Requests /\ NoRequest.phase = "over"
  BY DEF NoRequest, Reply, Requests
<1>4. DOMAIN report = {} /\ results \in Seq(Requests) /\ Len(results) = 0
  BY <1>1
<1>5. /\ Inspector \in Clients /\ Users \subseteq Clients /\ Len(Probes) \in Nat
      /\ request[Inspector] = NoRequest
      /\ \A c \in Users : request[c] = NoRequest
  BY <1>1, InspectAssumption, ProbesAsk DEF TelemetryInit
<1>6. TelemetryTypeOK
  <2>1. /\ exportIn \in 0..ExportEvery /\ scrapeIn \in 0..ScrapeEvery
        /\ accepted \in 0..MaxRequests /\ disturbances \in Together
        /\ age \in [Dated -> 0..(Memory + 1)]
    BY <1>1, ClockFacts, TelemetryAssumption DEF TelemetryInit
  <2>2. batch \in [left : -1..BatchTimeout, count : Snapshots]
    BY <1>1, <1>2, ClockFacts DEF TelemetryInit
  <2>3. samples \in Seq(Snapshots) /\ Len(samples) <= Window
    BY <1>1, ClockFacts DEF TelemetryInit
  <2>4. cached \in [Queries -> Cacheable \cup {"none"}] /\ count \in Snapshots /\ exposed \in Snapshots
    BY <1>1, <1>2 DEF TelemetryInit
  <2>5. request \in [Clients -> Requests] /\ \A c \in Clients : request[c].phase = "over"
    <3> HIDE DEF NoRequest, Requests
    <3> QED BY <1>1, <1>3 DEF TelemetryInit
  <2>6. QED
    BY <2>1, <2>2, <2>3, <2>4, <2>5 DEF TelemetryTypeOK
<1>7. TypeOK
  <2>1. before \in Snapshots /\ after \in Snapshots /\ left \in 0..ScrapeWait
    BY <1>1, <1>2, ClockFacts
  <2>2. Len(results) <= Len(Probes)
    BY <1>4, <1>5
  <2>3. /\ DOMAIN report \subseteq Range(Sections)
        /\ \A s \in DOMAIN report : Range(report[s]) \subseteq {"ok", "fail", "info"}
    BY <1>4
  <2>4. QED
    BY <1>1, <1>4, <1>6, <2>1, <2>2, <2>3 DEF TypeOK
<1>8. Flow
  BY <1>1, <1>3, <1>4, <1>5 DEF Flow, Mine, Asking
<1>9. Held
  BY <1>1 DEF Held, TelemetryInit
<1>10. \A s \in Series : \A e : Synced(e, s)
  BY <1>1, <1>2 DEF Synced, TelemetryInit
<1>11. LagInv
  BY <1>10 DEF LagInv, Dated, Series, Calls
<1>12. Behind
  BY <1>1, <1>2 DEF Behind, TelemetryInit
<1>13. Marked
  BY <1>4 DEF Marked
<1>14. CountedOnce
  <2>1. Uncounted = {}
    BY <1>6, <1>1, <1>3 DEF Uncounted, TelemetryInit
  <2>2. Total = 0 /\ accepted = 0
    BY <1>1 DEF Total, TelemetryInit, NoSeries, Series, Answers
  <2>3. Total + Cardinality(Uncounted) = accepted
    BY <2>1, <2>2, FS_EmptySet
  <2>4. QED
    BY <2>3 DEF CountedOnce, Total, Uncounted
<1>15. Unseen
  BY <1>1, <1>2 DEF Unseen, Absent, TelemetryInit, Series
<1>16. Fresh
  <2>1. \A q \in Queries : cached[q] = "none"
    BY <1>1 DEF TelemetryInit
  <2>2. \A q \in Queries : cached[q] \notin Lists
    BY <2>1, TelemetryAssumption
  <2>3. ~ Asking /\ results = << >> /\ Len(results) = 0
    BY <1>1, <1>3, <1>4, <1>5 DEF Asking
  <2>4. QED
    BY <2>2, <2>3 DEF Fresh
<1>17. Serving
  <2>1. Calm
    BY <1>1, <1>2, <1>3, <1>5 DEF Calm, TelemetryInit, Series, Calls
  <2>2. Stored
    BY <1>1, BatteryAsked DEF Stored, TelemetryInit
  <2>3. Underway
    BY <1>1, <1>3, <1>4, <1>5 DEF Underway, Mine, Asking, Rejected, NoRequest, Reply
  <2>4. FirstMiss
    BY <1>1 DEF FirstMiss, Unanswered, Decided, Asking
  <2>5. QED
    BY <2>1, <2>2, <2>3, <2>4 DEF Serving
<1>18. Coming /\ Clean
  BY <1>1, <1>4 DEF Coming, Clean
<1>19. QED
  BY <1>7, <1>8, <1>9, <1>11, <1>12, <1>13, <1>14, <1>15, <1>16, <1>17, <1>18
     DEF InspectInv, Well

(* And every step keeps it.                                                *)
LEMMA InspectKept ==
  ASSUME InspectInv, [Next]_vars
  PROVE  InspectInv'
<1>1. /\ TypeOK /\ Flow /\ Held /\ LagInv /\ Behind /\ Unseen /\ Fresh /\ Marked
      /\ CountedOnce /\ Well
  BY DEF InspectInv
<1>2. Held' /\ LagInv' /\ Behind' /\ Unseen' /\ Fresh' /\ Marked' /\ CountedOnce'
  BY <1>1, HeldKept, LagKept, BehindKept, UnseenKept, FreshKept, MarkedKept, CountedKept
<1>3. CASE Next
  <2>1. TypeOK'
    BY <1>1, <1>3, TelemetryTyped, MainTyped, HistoryTyped DEF TypeOK
  <2>2. Flow'
    BY <1>1, <1>3, FlowKept
  <2>3. Well'
    <3> SUFFICES ASSUME Smooth' PROVE Serving' /\ Coming' /\ Clean'
      BY DEF Well
    <3>1. Smooth
      BY <1>1, SmoothSteps
    <3>2. Serving /\ Coming /\ Clean
      BY <1>1, <3>1 DEF Well
    <3>3. Serving'
      BY <1>1, <1>3, <3>2, ServingKept
    <3>4. Coming'
      BY <1>1, <1>2, <1>3, <2>1, <2>2, <3>2, <3>3, ComingKept
    <3>5. Clean'
      BY <1>1, <1>3, <3>2, CleanKept
    <3>6. QED
      BY <3>3, <3>4, <3>5
  <2>4. QED
    BY <1>2, <2>1, <2>2, <2>3 DEF InspectInv
<1>4. CASE UNCHANGED vars
  <2>1. /\ UNCHANGED <<count, request, cached, accepted, disturbances>>
        /\ UNCHANGED <<exportIn, batch, exposed, scrapeIn, samples>> /\ age' = age
        /\ UNCHANGED <<step, left, results, before, after, report, made, venueSeen>>
    BY <1>4 DEF vars, telemetryVars, serving, pipeline, inspection, history
  <2>2. TypeOK'
    BY <1>1, <2>1 DEF TypeOK, TelemetryTypeOK
  <2>3. Flow'
    BY <1>1, <2>1 DEF Flow, Mine, Asking, Asked
  <2>4. Well'
    <3>1. Serving' = Serving
      BY <2>1 DEF Serving, Calm, Stored, Underway, FirstMiss, Unanswered, Decided, Mine, Asked,
                  Asking, Rejected, Got, Grown
    <3>2. Coming' = Coming
      BY <2>1 DEF Coming, Quiet, Carried, Shown, Due
    <3>3. Clean' = Clean
      BY <2>1 DEF Clean, Shown
    <3>4. QED
      BY <1>1, <2>1, <3>1, <3>2, <3>3 DEF Well, Smooth
  <2>5. QED
    BY <1>2, <2>2, <2>3, <2>4 DEF InspectInv
<1>5. QED
  BY <1>3, <1>4

(* So it always holds.                                                     *)
LEMMA InspectHolds == Spec => []InspectInv
<1>1. Init => InspectInv
  BY InspectInit
<1>2. InspectInv /\ [Next]_vars => InspectInv'
  BY InspectKept
<1>3. QED
  BY <1>1, <1>2, PTL DEF Spec

(* Every value of the state is what its type says: the reports, too, mark  *)
(* only sections there are, with ok, fail or info.                         *)
THEOREM TypeCorrect == Spec => []TypeOK
<1>1. InspectInv => TypeOK
  BY DEF InspectInv
<1>2. QED
  BY <1>1, InspectHolds, PTL

(* MetricsMiddleware counts every request under one status class, once,    *)
(* whatever the response and an exception after it do.                     *)
THEOREM CountsOnce == Spec => []CountedOnce
<1>1. InspectInv => CountedOnce
  BY DEF InspectInv
<1>2. QED
  BY <1>1, InspectHolds, PTL

(* An alarm over a window is about what happened within the window and the *)
(* pipeline's lag, for any intervals, timeouts and windows, and across     *)
(* restarts of the program.                                                *)
THEOREM AlarmsRecent == Spec => []AlarmIsRecent
<1>1. InspectInv => AlarmIsRecent
  BY AlarmWithinMemory DEF InspectInv
<1>2. QED
  BY <1>1, InspectHolds, PTL

(* So is the success rate the canary is promoted by, which never passes on *)
(* answers older than that, nor on none at all.                            *)
THEOREM CanaryRecent == Spec => []CanaryMeasured
<1>1. InspectInv => CanaryMeasured
  BY AlarmWithinMemory DEF InspectInv
<1>2. QED
  BY <1>1, InspectHolds, PTL

(* An inspection that passes got a list for every probe that was generated *)
(* and, where it cleared the old answer to the query, stored since; and    *)
(* the venue has served a request, not necessarily one of the probes nor   *)
(* in this process: however often users ask whatever they like, requests   *)
(* fail and the API is replaced.                                           *)
THEOREM GreenServes == Spec => []GreenMeansServed
<1>1. InspectInv => GreenMeansServed
  BY GreenServed DEF InspectInv
<1>2. QED
  BY <1>1, InspectHolds, PTL

(* An inspection passes if every request so far got its list from the      *)
(* model its query is routed to, the old answers were all cleared, the API *)
(* was not replaced, no user asked a query of the battery and fewer        *)
(* queries were scored than make the p99 blind to one: however many users  *)
(* ask other queries meanwhile, for any battery, and any intervals the     *)
(* wait is longer than the sum of.                                         *)
THEOREM SmoothPasses == Spec => []SmoothIsGreen
<1>1. InspectInv => SmoothIsGreen
  <2>1. ASSUME InspectInv, Smooth, count["confidence"] < TopShare, NEW sc \in Fails PROVE FALSE
    <3>1. Clean
      BY <2>1 DEF InspectInv, Well
    <3>2. /\ sc \in UNION {{s} \X DOMAIN report[s] : s \in DOMAIN report}
          /\ report[sc[1]][sc[2]] = "fail"
      BY DEF Fails
    <3>3. PICK s \in DOMAIN report : sc \in {s} \X DOMAIN report[s]
      BY <3>2
    <3>4. sc[1] = s /\ sc[2] \in DOMAIN report[s]
      BY <3>3
    <3>5. QED
      BY <2>1, <3>1, <3>2, <3>4 DEF Clean
  <2>2. QED
    BY <2>1 DEF SmoothIsGreen
<1>2. QED
  BY <1>1, InspectHolds, PTL
=============================================================================
