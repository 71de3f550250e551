----------------------------- MODULE Recommend -----------------------------
(***************************************************************************)
(* One API process serving POST /recommend and /recommend/stream for one   *)
(* user on one UTC day: the quota gate, the response cache, the cost kill  *)
(* switch, the catalogue check, retrieval, generation, and the bookkeeping *)
(* of the structured route.  Requests are coroutines and every await is a  *)
(* step of its own; what they share is Redis (quota counter, cached        *)
(* answers, the switch) and the user's rows.                               *)
(*                                                                         *)
(* Retrieval and the LLM gateway are known by their outcomes only (their   *)
(* insides are LlmGateway's and Breaker's).  A RecommendationResult is     *)
(* kept as what the layers tell apart: "items" (grounded), "refusal",      *)
(* "popular" and "nomatch" (popular_fallback with either notice, both      *)
(* degraded).                                                              *)
(***************************************************************************)
EXTENDS Integers, Sequences, FiniteSets

CONSTANTS
    Requests,      \* requests of the user
    Queries,       \* normalized queries
    Absent,        \* queries naming a title the catalogue does not have
    Limit,         \* quota_free_tier_daily
    EnvEnabled,    \* LLM_ENABLED
    Faults         \* "redis": commands fail; "evict": Redis drops keys

ASSUME RecommendAssumption ==
    /\ IsFiniteSet(Requests)
    /\ Absent \subseteq Queries
    /\ Limit \in Nat
    /\ EnvEnabled \in BOOLEAN
    /\ Faults \subseteq {"redis", "evict"}

VARIABLES
    count,      \* Redis quota:<user>:<day>
    cache,      \* Redis resp:...: the answer cached for each query
    switch,     \* Redis killswitch:llm, "off" or "absent"
    pc,         \* per request: what it awaits
    ask,        \* per request: its query and entry point
    catalog,    \* the title catalogue was loaded when the process started
    result,     \* per request: the structured result
    said,       \* per request: the events its stream has carried
    status,     \* per request: HTTP status, 0 while there is none
    rows,       \* committed: result in each request's query_history row
    spent,      \* history: a generation was started for the request
    late,       \* history: the switch has been off since the request arrived
    blind,      \* history: the request's increment or its read of the switch,
                \* if Redis did not answer it, or has forgotten it
    trouble     \* history: what degraded this request's own answer

redis == <<count, cache, switch>>
given == <<ask, catalog>>   \* settled before a request's first step
reply == <<result, said, status, rows>>
history == <<spent, late, blind, trouble>>
vars == <<redis, pc, given, reply, history>>

Results == {"items", "refusal", "popular", "nomatch"}
Degraded == {"popular", "nomatch"}
Modes == {"recommend", "stream"}
Events == {"token", "notice", "refusal", "item"}
PCs == {"idle", "gate", "lookup", "switch", "retrieve", "generate", "store",
        "book", "commit", "done"}

TypeOK ==
    /\ count \in 0..Cardinality(Requests)
    /\ cache \in [Queries -> Results \cup {"none"}]
    /\ switch \in {"off", "absent"}
    /\ pc \in [Requests -> PCs]
    /\ ask \in [Requests -> [query : Queries, mode : Modes]]
    /\ catalog \in BOOLEAN
    /\ result \in [Requests -> Results \cup {"none"}]
    /\ said \in [Requests -> Seq(Events)]
    /\ status \in [Requests -> {0, 200, 429, 500}]
    /\ rows \in [Requests -> Results \cup {"none"}]
    /\ spent \in [Requests -> BOOLEAN]
    /\ late \in [Requests -> BOOLEAN]
    /\ blind \in [Requests -> SUBSET {"gate", "switch"}]
    /\ trouble \in [Requests -> BOOLEAN]

(* load_catalog: a failed load leaves the catalogue empty.                 *)
Loaded == catalog \in BOOLEAN

Init ==
    /\ Loaded
    /\ count = 0
    /\ cache = [q \in Queries |-> "none"]
    /\ switch \in {"off", "absent"}
    /\ pc = [r \in Requests |-> "idle"]
    /\ ask \in [Requests -> [query : Queries, mode : Modes]]
    /\ result = [r \in Requests |-> "none"]
    /\ said = [r \in Requests |-> << >>]
    /\ status = [r \in Requests |-> 0]
    /\ rows = [r \in Requests |-> "none"]
    /\ spent = [r \in Requests |-> FALSE]
    /\ late = [r \in Requests |-> FALSE]
    /\ blind = [r \in Requests |-> {}]
    /\ trouble = [r \in Requests |-> FALSE]

-----------------------------------------------------------------------------
Go(r, at) == pc' = [pc EXCEPT ![r] = at]
Say(r, event) == said' = [said EXCEPT ![r] = Append(@, event)]
Structured(r) == ask[r].mode = "recommend"

(* A Redis command of r may fail: RedisCache answers with a default.       *)
RedisFails(r) ==
    /\ "redis" \in Faults
    /\ blind' = [blind EXCEPT ![r] = @ \cup ({pc[r]} \cap {"gate", "switch"})]

\* Mutant of Conclude: a stream says the kind of the result.
ConcludeVerbatim(r, res) ==
    IF Structured(r)
    THEN /\ result' = [result EXCEPT ![r] = res]
         /\ Go(r, "store")
         /\ UNCHANGED <<said, status>>
    ELSE /\ Say(r, res)
         /\ status' = [status EXCEPT ![r] = 200]
         /\ Go(r, "done")
         /\ UNCHANGED result

(* What RecommendationService returns (or, streamed, says) before or       *)
(* instead of a generation.                                                *)
Conclude(r, res) ==
    IF Structured(r)
    THEN /\ result' = [result EXCEPT ![r] = res]
         /\ Go(r, "store")
         /\ UNCHANGED <<said, status>>
    ELSE /\ Say(r, IF res = "refusal" THEN "refusal" ELSE "notice")
         /\ status' = [status EXCEPT ![r] = 200]
         /\ Go(r, "done")
         /\ UNCHANGED result

Arrive(r) ==
    /\ pc[r] = "idle"
    /\ Go(r, "gate")
    /\ late' = [late EXCEPT ![r] = switch = "off"]
    /\ UNCHANGED <<redis, given, reply, spent, blind, trouble>>

(* QuotaCounter.incr_and_check, of the count that includes this request.   *)
OverLimit(n) == n > Limit

\* Mutant of Gate: the count before the increment is compared.
GateLate(r) ==
    /\ pc[r] = "gate"
    /\ count' = count + 1
    /\ \/ OverLimit(count) /\ Go(r, "done") /\ status' = [status EXCEPT ![r] = 429]
       \/ ~OverLimit(count) /\ Go(r, "lookup") /\ UNCHANGED status
    /\ UNCHANGED <<cache, switch, given, result, said, rows, history>>

(* enforce_quota: INCR, then 429 over the limit.                           *)
Gate(r) ==
    /\ pc[r] = "gate"
    /\ count' = count + 1
    /\ \/ OverLimit(count') /\ Go(r, "done") /\ status' = [status EXCEPT ![r] = 429]
       \/ ~OverLimit(count') /\ Go(r, "lookup") /\ UNCHANGED status
    /\ UNCHANGED <<cache, switch, given, result, said, rows, history>>

(* incr_with_ttl fails and reads as 0, whether or not the INCR was done.   *)
GateBlind(r) ==
    /\ pc[r] = "gate"
    /\ RedisFails(r)
    /\ count' \in {count, count + 1}
    /\ Go(r, "lookup")
    /\ UNCHANGED <<cache, switch, given, reply, spent, late, trouble>>

(* A hit: the structured route answers with it, the stream replays its     *)
(* items (there is nothing to replay of a refusal).                        *)
Hit(r) ==
    LET found == cache[ask[r].query] IN
    /\ pc[r] = "lookup"
    /\ found # "none"
    /\ \/ /\ Structured(r)
          /\ result' = [result EXCEPT ![r] = found]
          /\ Go(r, "book")
          /\ UNCHANGED <<said, status>>
       \/ /\ ~Structured(r)
          /\ said' = [said EXCEPT ![r] =
                        IF found = "refusal" THEN << >> ELSE <<"item">>]
          /\ status' = [status EXCEPT ![r] = 200]
          /\ Go(r, "done")
          /\ UNCHANGED result
    /\ UNCHANGED <<redis, given, rows, history>>

Miss(r) ==
    /\ pc[r] = "lookup"
    /\ \/ cache[ask[r].query] = "none" /\ UNCHANGED blind
       \/ RedisFails(r)
    /\ Go(r, "switch")
    /\ UNCHANGED <<redis, given, reply, spent, late, trouble>>

\* Mutant of Enabled: the environment is asked first.
EnabledByEnv(value) == EnvEnabled \/ value = "on"

(* LlmKillSwitch.llm_enabled.                                              *)
Enabled(value) == IF value = "absent" THEN EnvEnabled ELSE value # "off"

\* Mutant of NamedButAbsent: only the structured route looks.
NamedButAbsentStructured(r) ==
    Structured(r) /\ catalog /\ ask[r].query \in Absent

(* TitleCatalog.missing_titles: an empty catalogue objects to nothing.     *)
NamedButAbsent(r) == catalog /\ ask[r].query \in Absent

(* _generation_enabled and, without a further await, _named_but_absent.    *)
ReadSwitch(r) ==
    /\ pc[r] = "switch"
    /\ \E value \in {switch, "absent"} :
          /\ \/ value = switch /\ UNCHANGED blind
             \/ value = "absent" /\ RedisFails(r)
          /\ \/ /\ ~Enabled(value)
                /\ Conclude(r, "popular")
                /\ trouble' = [trouble EXCEPT ![r] = TRUE]
             \/ /\ Enabled(value) /\ NamedButAbsent(r)
                /\ Conclude(r, "refusal")
                /\ UNCHANGED trouble
             \/ /\ Enabled(value) /\ ~NamedButAbsent(r)
                /\ Go(r, "retrieve")
                /\ UNCHANGED <<result, said, status, trouble>>
    /\ UNCHANGED <<redis, given, rows, spent, late>>

-----------------------------------------------------------------------------
(* Candidates with a confidence at or above the floor, or with none at all *)
(* (the reranker did not run).                                             *)
Retrieved(r) ==
    /\ pc[r] = "retrieve"
    /\ Go(r, "generate")
    /\ spent' = [spent EXCEPT ![r] = TRUE]
    /\ UNCHANGED <<redis, given, reply, late, blind, trouble>>

(* Confidence below REFUSE_BELOW_CONFIDENCE: refused before any spend.     *)
OutOfScope(r) ==
    /\ pc[r] = "retrieve"
    /\ Conclude(r, "refusal")
    /\ UNCHANGED <<redis, given, rows, history>>

(* RetrievalUnavailableError, or no candidates.                            *)
NotRetrieved(r, res) ==
    /\ pc[r] = "retrieve"
    /\ Conclude(r, res)
    /\ trouble' = [trouble EXCEPT ![r] = TRUE]
    /\ UNCHANGED <<redis, given, rows, spent, late, blind>>

(* Any other exception of retrieve() (reading the embeddings of the top    *)
(* candidates is not guarded) leaves the service: 500, or a broken stream. *)
RetrievalRaises(r) ==
    /\ pc[r] = "retrieve"
    /\ Go(r, "done")
    /\ status' = [status EXCEPT ![r] = IF Structured(r) THEN 500 ELSE 200]
    /\ UNCHANGED <<redis, given, result, said, rows, history>>

(* ground_recommendations: some item is one of the candidates, or none is. *)
Grounded == {"items", "nomatch"}

(* The gateway answers with a refusal or with items, or raises.            *)
Generated(r, res) ==
    /\ pc[r] = "generate" /\ Structured(r)
    /\ Conclude(r, res)
    /\ trouble' = [trouble EXCEPT ![r] = res \in Degraded]
    /\ UNCHANGED <<redis, given, rows, spent, late, blind>>

(* A token of the generation (one stands for any number).                  *)
Token(r) ==
    /\ pc[r] = "generate" /\ ~Structured(r)
    /\ said[r] = << >>
    /\ Say(r, "token")
    /\ UNCHANGED <<redis, pc, given, result, status, rows, history>>

(* The generation ends; raises, before or after a token; or the client is  *)
(* gone.                                                                   *)
StreamEnds(r) ==
    /\ pc[r] = "generate" /\ ~Structured(r)
    /\ Go(r, "done")
    /\ status' = [status EXCEPT ![r] = 200]
    /\ \/ UNCHANGED <<said, trouble>>
       \/ Say(r, "notice") /\ trouble' = [trouble EXCEPT ![r] = TRUE]
    /\ UNCHANGED <<redis, given, result, rows, spent, late, blind>>

-----------------------------------------------------------------------------
\* Mutant of Store: degraded results are cached as well.
StoreAll(r) ==
    /\ pc[r] = "store"
    /\ cache' = [cache EXCEPT ![ask[r].query] = result[r]]
    /\ Go(r, "book")
    /\ UNCHANGED <<count, switch, given, reply, history>>

(* CachedRecommendationService: only what is not degraded is cached.       *)
Store(r) ==
    /\ pc[r] = "store"
    /\ IF result[r] \in Degraded
       THEN UNCHANGED <<cache, blind>>
       ELSE \/ /\ cache' = [cache EXCEPT ![ask[r].query] = result[r]]
               /\ UNCHANGED blind
            \/ RedisFails(r) /\ cache' \in {cache, [cache EXCEPT ![ask[r].query] = result[r]]}
    /\ Go(r, "book")
    /\ UNCHANGED <<count, switch, given, reply, spent, late, trouble>>

(* ensure_user, add_query_history, record_usage; then the response is sent. *)
Book(r) ==
    /\ pc[r] = "book"
    /\ Go(r, "commit")
    /\ status' = [status EXCEPT ![r] = 200]
    /\ UNCHANGED <<redis, given, result, said, rows, history>>

(* A statement fails: rollback and 500.                                    *)
BookFails(r) ==
    /\ pc[r] = "book"
    /\ Go(r, "done")
    /\ status' = [status EXCEPT ![r] = 500]
    /\ UNCHANGED <<redis, given, result, said, rows, history>>

(* session_scope commits, or fails to, behind the response.                *)
Commit(r) ==
    /\ pc[r] = "commit"
    /\ Go(r, "done")
    /\ \/ rows' = [rows EXCEPT ![r] = result[r]]
       \/ UNCHANGED rows
    /\ UNCHANGED <<redis, given, result, said, status, history>>

-----------------------------------------------------------------------------
(* make llm-off / make llm-on.                                             *)
SwitchOff ==
    /\ switch = "absent"
    /\ switch' = "off"
    /\ UNCHANGED <<count, cache, pc, given, reply, spent, late, blind, trouble>>

SwitchOn ==
    /\ switch = "off"
    /\ switch' = "absent"
    /\ late' = [r \in Requests |-> FALSE]
    /\ UNCHANGED <<count, cache, pc, given, reply, spent, blind, trouble>>

(* Redis evicts the switch, or the counter (allkeys-lru).                  *)
EvictSwitch == "evict" \in Faults /\ SwitchOn

EvictCount ==
    /\ "evict" \in Faults
    /\ count # 0
    /\ count' = 0
    /\ blind' = [r \in Requests |-> IF pc[r] \in {"idle", "gate"} THEN blind[r]
                                    ELSE blind[r] \cup {"gate"}]
    /\ UNCHANGED <<cache, switch, pc, given, reply, spent, late, trouble>>

(* An answer is evicted, expires or is cleared by scripts/cache_ctl.py.    *)
Forget(q) ==
    /\ cache[q] # "none"
    /\ cache' = [cache EXCEPT ![q] = "none"]
    /\ UNCHANGED <<count, switch, pc, given, reply, history>>

RequestStep(r) ==
    \/ Gate(r) \/ GateBlind(r) \/ Hit(r) \/ Miss(r) \/ ReadSwitch(r)
    \/ Retrieved(r) \/ OutOfScope(r) \/ RetrievalRaises(r)
    \/ \E res \in Degraded : NotRetrieved(r, res)
    \/ \E res \in Grounded \cup {"refusal", "popular"} : Generated(r, res)
    \/ StreamEnds(r)
    \/ Store(r) \/ Book(r) \/ BookFails(r) \/ Commit(r)

Next ==
    \/ \E r \in Requests : Arrive(r) \/ RequestStep(r) \/ Token(r)
    \/ SwitchOff \/ SwitchOn \/ EvictSwitch \/ EvictCount
    \/ \E q \in Queries : Forget(q)

Spec == Init /\ [][Next]_vars

-----------------------------------------------------------------------------
(* A degraded answer reaches only a request that ran into trouble of its   *)
(* own: an outage, or a thrown switch, is never served from the cache to   *)
(* somebody else later.                                                    *)
OutageNotPinned ==
    \A r \in Requests :
        \/ result[r] \in Degraded
        \/ \E i \in 1..Len(said[r]) : said[r][i] = "notice"
        => trouble[r]

(* A thrown kill switch stops the spending: no generation is started for a *)
(* request that found the switch off and kept off, as long as Redis        *)
(* answers it.  Requests already past the switch may finish.               *)
OffStopsSpending ==
    \A r \in Requests :
        spent[r] /\ late[r] => "switch" \in blind[r]

(* The gate lets at most Limit requests through that Redis counts, and a   *)
(* refused request costs nothing and leaves nothing behind.                *)
QuotaHolds ==
    /\ Cardinality({r \in Requests : pc[r] \notin {"idle", "gate"}
                       /\ status[r] # 429 /\ "gate" \notin blind[r]}) <= Limit
    /\ \A r \in Requests : status[r] = 429 =>
          ~spent[r] /\ result[r] = "none" /\ rows[r] = "none" /\ said[r] = << >>

(* A query naming a title a loaded catalogue lacks is refused, unspent,    *)
(* or answered degraded; it never gets recommendations, from the cache     *)
(* neither.                                                                *)
AbsentRefused ==
    \A r \in Requests : catalog /\ ask[r].query \in Absent =>
        ~spent[r] /\ result[r] # "items" /\ \A i \in 1..Len(said[r]) :
            said[r][i] \in {"notice", "refusal"}

-----------------------------------------------------------------------------
(* service.py:297-298: "both entry points must refuse the same things" - a *)
(* stream that the client stayed for says something.                       *)
RefusalReplayed ==
    \A r \in Requests :
        pc[r] = "done" /\ status[r] = 200 /\ ~Structured(r) /\ ~spent[r]
            /\ catalog /\ ask[r].query \in Absent
        => said[r] # << >>

(* killswitch.py:14-15: a cache blip "must not silently ENABLE a product   *)
(* someone deliberately switched off".                                     *)
BlipKeepsOff == \A r \in Requests : ~(spent[r] /\ late[r])
=============================================================================
