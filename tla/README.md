# TLA+ models of the Anime Recommendation Engine

Specifications, model-checking configurations and proofs about the parts of this
repository whose correctness depends on interleavings, failures and ordering. Paths
below are relative to the repository root (`src/` in `PROJECT.json`).

* `tlc -workers 2 -config <run>.cfg MC<Module>.tla` checks a run,
* `tlapm <Module>Proofs.tla` checks the proofs of a module,
* `PROJECT.json` maps every definition to the lines it models, lists runs, mutants,
  findings, hazards and theorems.

## 1. Inventory

| Component | Code | State | Operations | Interacts with | Model |
|---|---|---|---|---|---|
| Job worker | `apps/worker` (`worker.py`, `__main__.py`, `registry.py`), `core/sqs.py`, `core/jobs.py` | SQS messages and receive counts, the DLQ, `seen:<key>` markers in Redis, the batch in hand, the stop event | publish, receive, claim, run handler, clear marker, bury, delete, SIGTERM, restart | SQS, Redis, the handlers | `JobQueue`, `JobLedger` |
| Job handlers | `apps/worker/.../handlers` | rows they write | `feedback.recorded`, `housekeeping`, `re_embed`, `gdpr.delete_user` | database, Redis | outcome only in `JobQueue`; gdpr in `Erasure`, re-embed in `Corpus` |
| Circuit breaker, timeout, retry | `core/resilience.py` | state, failure count, opening time | call, state read, success, failure | every LLM provider, both retrieval legs | `Breaker`, `CircuitBreaker` |
| LLM gateway | `core/llm_client.py`, `core/venue.py` | one breaker per provider, `LAST_USAGE` | recommend, astream through budget, venue, tiers, re-ask, fallback | providers, breakers, cost meter | `LlmGateway` |
| Recommendation service | `retrieval/service.py`, `cached_service.py`, `core/caches.py`, `core/killswitch.py`, `core/fallback.py`, `api/routes/recommend.py` | cached answers, the switch, history rows | recommend, astream, llm-off/llm-on | quota, retrieval, gateway, database | `Recommend` |
| Quota and cost | `core/quotas.py`, `api/quota.py`, `core/cost_meter.py` | daily counter, `usage_daily` | enforce_quota, record_usage | Redis, database | gate in `Recommend`, usage in `LlmGateway` |
| Account erasure | `core/rtbf.py`, `core/clerk.py`, `api/routes/account.py`, `scripts/rtbf.py` | all rows of a user, the Clerk identity, the audit row | delete_user, the job, the CLI | every writing route, PostgreSQL locks | `Erasure` |
| Persistence | `api/repository.py`, `core/db` | users, query_history, feedback, usage_daily, account_deletions | ensure_user, add rows, upsert usage, session_scope | all routes | write paths in `Erasure` |
| Retrieval | `retrieval/pipeline.py`, `hybrid.py`, `mmr.py`, `reranker.py`, `sparse.py`, `catalog.py` | request session, leg breakers, model cache | embed, dense and sparse leg, fusion, dedup, rerank, fetch embeddings, MMR | database, embedder, ingestion | `Retrieval`; the catalogue by its verdict in `Recommend` |
| Ingestion | `packages/ingestion` | anime titles, chunks | chunk, embed, upsert, delete and insert | retrieval, re_embed job | `Corpus` (transactions, not the packing of sentences) |
| Metrics and middleware | `api/middleware.py`, `core/observability`, the collector and Prometheus | instruments, the snapshot in the collector's batch, the samples | record, count a response, export, flush, scrape, query | all routes, the canary, the inspection | `Telemetry` |
| Inspection battery | `scripts/inspect_stack_*.py`, `_inspect_common.py`, `_inspect_sections.py` | answers to its probes, two counter snapshots, the report | warm up, clear the cache, probe, wait, judge | API, Redis, Prometheus | `Inspect` |
| Evaluation gate | `packages/eval`, `scripts/eval_promote.py`, `eval-gate.yml` | golden set, baseline and report files, the checks of pull requests and main | evaluate, compare, promote | both retrievers, GitHub | `EvalMetrics`, `Release` |
| Audits | `scripts/audit`, `ci.yml` | none | secrets, dependencies, licenses, each an exit code | external engines, git | `Audits`, `Release` |
| Web front end | `apps/web/src/lib` | the streaming hook's state | start, stop, SSE parsing, proxying | the API | – |
| Benchmarks, venue experiments, infrastructure | `scripts/bench_venue.py`, `scripts/venue`, `infra` | files, configuration | offline | – | the settings the modules above depend on |

### What is hard here

* **At-least-once delivery.** SQS redelivers; the worker deduplicates with a marker it
  sets *before* the handler runs. Correctness hangs on who still believes in the marker
  when something between SET NX and the delete fails, dies or takes too long.
* **Shared breakers.** `AsyncCircuitBreaker` is read before an await and written after
  it. Calls end under a state other than the one that admitted them.
* **Layered fallbacks.** Five layers of the gateway each catch errors or hold back empty
  results; none sees the whole request.
* **Fail-open caches.** `RedisCache` answers every error with a default: a miss, 0,
  "proceed". Quota, kill switch, response cache and deduplication all inherit that, and
  Redis runs with `allkeys-lru`, so keys without a TTL go as well.
* **Commit behind the response.** `get_session` commits after the response has been
  sent, while an erasure may be deleting the same user's rows.
* **Re-indexing under readers.** A request reads the corpus in three statements, each of
  which sees what is committed at that moment, and several runs of `ingest` may overlap;
  no constraint makes a chunk's `(mal_id, chunk_index)` unique.
* **One session for everything.** Both legs, the embeddings and the history row share a
  session that a cancelled or failed query leaves unusable.
* **Gates that outlive what they measured.** A check is green for a tree, a baseline and
  a main branch that have moved on when the change is merged; an engine that failed and
  a reranker that died both look like nothing to report.
* **Numbers in transit.** A count passes a periodic reader, a batch and a scrape before
  anybody reads it, a series does not exist before its first increment, and a restart
  takes it back to nothing. Checks judge the product by those numbers.
* **Degradation.** Almost every failure becomes an answer. What must not happen is that
  a degraded answer, an outage or a refusal becomes something else on a later path.

### What makes each component correct

* Worker: no published job unaccounted for; a handler completes once per key while the
  markers hold; poison ends up on the DLQ; nothing blocks the queue.
* Breaker: its state is a function of how the last calls *ended*; it is always retried.
* Gateway: one re-ask at most, none after an answer; failure only after the fallback;
  no spliced streams; usage names the provider that answered; every request ends.
* Service: degraded answers are never cached; a thrown switch stops spending; the daily
  limit holds; titles the catalogue lacks are never recommended.
* Ingestion: a title's chunks are one run's, and are never missing while it is replaced.
* Retrieval: a failed leg costs its hits and nothing else; no title twice; as many titles
  as there are to offer.
* Release: a green main was measured as it stands; a dead stage, a credential in the
  searched history, a blocking advisory or a copyleft package never passes, whichever
  engines fail.
* Telemetry and inspection: each request is counted once; what the probes did lies
  between the snapshots; red is recent, green was served, silence is neither.
* Erasure: nothing owned outlives the user; an undisturbed erasure leaves nothing;
  personal data goes all together.

## 2. Modules

| Module | Role |
|---|---|
| `JobLedger` | abstract specification: a job is held until it is done or dead-lettered |
| `JobQueue` | the pipeline in detail; implements `JobLedger` (`Ledger == INSTANCE ... WITH`) |
| `MCJobQueue` | constants of its runs |
| `JobQueueProofs` | theorems about `JobQueue` |
| `Breaker` | one breaker as a value and the functions its methods are |
| `CircuitBreaker` | coroutines calling through one breaker; `EXTENDS Breaker` |
| `CircuitBreakerProofs` | theorems about `CircuitBreaker` |
| `LlmGateway` | requests through the gateway, one `Breaker` per provider client |
| `LlmGatewayProofs` | theorems about `LlmGateway` |
| `Erasure` | one user's requests against every kind of eraser |
| `ErasureProofs` | theorems about `Erasure` |
| `Recommend` | one user's requests through quota, cache, switch, service and bookkeeping |
| `RecommendProofs` | theorems about `Recommend` |
| `Corpus` | overlapping runs of ingest as transactions over titles and chunks |
| `Retrieval` | one request's retrieval and history row over a `Corpus` in motion; `EXTENDS Corpus` |
| `RetrievalProofs` | theorems about `Corpus` and about `Retrieval`, which implements it |
| `EvalMetrics` | the ranking metrics and aggregates of `anime_eval` |
| `Audits` | what the audits make of their engines' outcomes |
| `Release` | pull requests, baselines and checks on their way to main; `EXTENDS EvalMetrics, Audits` |
| `ReleaseProofs` | theorems about `Release` |
| `Telemetry` | requests, instruments, collector, Prometheus and the queries on it |
| `Inspect` | the inspection battery among users' requests; `EXTENDS Telemetry` |
| `InspectProofs` | theorems about `Telemetry` and `Inspect` |
| `MCCircuitBreaker`, `MCLlmGateway`, `MCErasure`, `MCRecommend`, `MCRetrieval`, `MCRelease`, `MCInspect` | constants and symmetry of their runs |

Every definition whose name carries a suffix and is introduced by "Mutant of" is a
plausible bug in the code ("Fault:" in `Release`); replacing the definition it names by it makes the property
listed under `mutants` fail. Mutants appear in no specification.

### JobQueue

`loc`, `receives` and `dead` are SQS (`visible` and `inflight` messages, the receive
count, copies on the DLQ); `seen` is Redis; `pc`, `todo`, `cur`, `receipt`, `verdict` and
`stop` are the locals of `run_worker` and `process_message`. Each await is a step:
`Poll`/`Receive` (`receive_message`), `Claim`/`FindDuplicate`/`ClaimBlind` (`set_nx`),
`HandlerReturns`/`HandlerRaises`, `ClearMarker`/`ClearMarkerFails` (`cache.delete`),
`SendToDlq`, `DeleteMessage`, `SqsCallRaises`. The constant `Faults` says which of the
faults named in the module may occur, so that a property can be stated for exactly the
circumstances in which the code keeps it:

| Property | Holds under | Broken by |
|---|---|---|
| `NoJobLost`, `LedgerSpec` | restarts outside a claim, evictions, SQS errors | `kill`, `batchwait`, `overlap`, `redis`; and, for a type without a handler, a failing SQS call after the claim |
| `AtMostOneRun`, `OneHandlerPerKey` | kills, overlaps, SQS errors | `redis`, `evict` |
| `PoisonAccounted`, `EventuallySettled` | every fault | – |

`JobQueue_overlap` is the trace behind the second column's first row: a visibility
timeout ends while a handler runs, the second worker finds the marker and deletes the
message as a duplicate, and the first handler fails. `worker.py:18` calls a rare
concurrent double delivery harmless. TLC refutes further documented expectations that
are kept in the module but have no run of their own: `DuplicateWasProcessed`
(`worker.py:11-12`, with `kill`), and `NoJobLost` with `batchwait` alone (the 300 s
visibility timeout of `infra/terraform/modules/sqs/main.tf` covers one handler, a batch
has ten), with `redis` alone (a swallowed DEL), and with `sqs` and a job type that has
no handler.

### Breaker and CircuitBreaker

`Breakers` is the record of the object's fields; the clock is the age of the last
opening, cut off at `ResetTimeout` because no comparison looks further. `call` says what
each coroutine is doing; a call is admitted by `Admit`, refused by `Refuse` and ends by
`Return`, `Raise` (exceptions and timeouts) or `Cancel` (`CancelledError` counts as
neither). `recent` records how the last `FailMax` counted calls ended. Two sentences of
the class's docstring do not survive overlapping calls and are kept as `OneTrial`
(`resilience.py:67`) and `FastFailUntilReset` (`resilience.py:66`); TLC refutes both
(every caller that comes while a trial is awaited is admitted as well; a call admitted
before the opening closes the breaker by succeeding).

### LlmGateway

A request is one coroutine: `pc` is the layer it is in, `asked` says that a provider has
the call, `spare` that an empty result is held back, `usage` is `LAST_USAGE`, `heard`
the history of replies, `voice` the roles whose tokens reached the caller. `Arrive` and
`OverBudget` are everything before the first call; `OtherCall` is a call of some other
request through a shared breaker, which may end in any way; `Ask`/`Refused` the look at the
breaker; `ProviderFails`/`ProviderReplies` the end of a call together with what all
layers above do with it before the next await. Streams (`Opening` to `StreamEnds`) pass
no breaker. Prompts, SDKs and texts are abstracted to the reply kinds the layers
distinguish. Three sentences of the code are refuted by TLC and have no run:
`EmptyTriesFallback` (`llm_client.py:385-386`: an empty answer to the re-ask is returned
without the fallback), `RefusalReported` (`llm_client.py:373`: the fallback's refusal is
lost to an empty primary result) and `EveryCallMetered` (`db/models.py:134-135`).

### Erasure

One user. Writers are `POST /recommend` and `POST /feedback` transactions, erasers are
`DELETE /account`, `scripts/rtbf.py` and the `gdpr.delete_user` job. Variables are the
committed database (`users`, `rows`, `usage`, `audit`), Clerk's identity, whether a token
is still valid, and what each open transaction has locked, deleted or nulled. PostgreSQL
at READ COMMITTED is external: a statement sees what is committed when it starts, waits
for locked rows, and `ON DELETE SET NULL`/`CASCADE` act at the delete of the users row.
A deadlock ends with a victim (`WriterFails`, `EraserFails`).
A delete waits for rows that another eraser's transaction has deleted or set to null. `Erasure_orphan` is the
race of a request that commits between the eraser's delete of its table and its delete
of the users row. `SingleUnit` (`account.py:53-55`) and `TokenRevoked`
(`account.py:58-60`) are refuted as well and have no run.

### Recommend

Redis is `count`, `cache` and `switch`; a request's locals are `pc`, `ask`, `result`,
its stream `said`, its HTTP `status` and its committed history `rows`. `Gate`/`GateBlind`
are `enforce_quota`, `Hit`/`Miss` the response cache, `ReadSwitch` the kill switch with
the catalogue check that follows it without an await, `Retrieved`, `OutOfScope`,
`NotRetrieved` and `RetrievalRaises` the outcomes of retrieval, `Generated`, `Token` and
`StreamEnds` those of the gateway, `Store`, `Book`, `BookFails` and `Commit` the rest of
the structured route. `SwitchOff`/`SwitchOn` are the make targets, `EvictSwitch`,
`EvictCount` and `Forget` what Redis may drop. The history `late` (the switch has been
off since the request arrived) and `blind` (commands of the request that Redis did not
answer, or has forgotten) say for whom the guarantees are meant. `catalog` says whether the title
catalogue was loaded when the process started; an empty one objects to nothing.
`RefusalReplayed` is refuted and has no run: a cached refusal has no items, so a stream
that hits it ends without a word, although `service.py:297-298` wants both entry points
to refuse the same things. `BlipKeepsOff`
(`killswitch.py:14-15` read literally) is refuted by one failed GET; the same docstring
accepts that by falling back to the environment, so it is no finding.

### Corpus

`names` and `chunks` are the committed tables: per title the run whose upsert wrote its
row, and the chunks with the run that wrote them, which stands for their text and
embedding. A run of `ingest` is `Start` (load, cut and embed, before the first
statement), one `UpsertTitle` per title of its file in the file's order, one
`DeleteChunks`, one `InsertChunks`, and `CommitIngest` or, from anywhere, `IngestFails`
(an exception, a lost connection, the victim of a deadlock), after which the run may be
repeated. PostgreSQL at READ COMMITTED is external: `lock` is the row lock an upsert
holds until its transaction ends, the DELETE sees the chunks committed when it starts,
and the chunks a transaction deletes (`gone`) and inserts (`added`) show at its commit.
How many pieces a title is cut into is part of the file (`Files`). No file is taken to
list a `MAL_ID` twice: `load_anime_csv` would keep both rows, and the title's chunks
would be inserted twice.

### Retrieval

`pc` is what `RetrievalPipeline.retrieve` awaits: the embedder (`Embed`, `EmbedFails`),
the dense and then the sparse leg (`LegAnswers`, `LegFails`, `LegRefused` on a session
that is still broken), the reranker (`Reranked`, `RerankFails`), `_fetch_embeddings`
with MMR (`Fetch`, `FetchFails`), and then the route's bookkeeping (`Book`). `session` is
the request's database session; `Recover` is `_recover_after_failed_leg`. What follows an
await up to the next one is one step, so `AfterSparse` fuses, drops titles seen before
and may already return. Which chunks a leg finds and in which order the cross-encoder and
MMR like them is data, hence free: any list of chunks within `hybrid_k` for the sparse
leg, for the dense leg only lists as long as the corpus allows, any order after them.
The fusion is not free: reciprocal ranks are added up in whole numbers (the constant
`One` is a multiple of every rank's denominator), so ties are exactly those of the
formula.

The leg breakers belong to the pipeline object, which is built per request and calls each
leg once; with a threshold above 1 they cannot open, and the module has no state for
them. `NoneMissing` (`pipeline.py:222`: a candidate without an embedding "shouldn't
happen") is refuted by a re-index that commits between a leg and `_fetch_embeddings`; the
code handles the case, and it has no run.

### EvalMetrics, Audits and Release

`EvalMetrics` computes success, precision, recall, MRR and NDCG of a ranking in whole
numbers of 1/`Unit`, with the adversarial queries left out of the means as `run_eval`
does, and the naive retriever's over-fetch and dedup. A sum (`Total`) is the number of
units its summands have, one by one, which is how the proofs can reason about it. `Audits` maps the outcomes of an
engine (absent, silent, garbled, a report) to findings and exit codes.

In `Release` a measurement is the tree it ran on and whether the reranker worked; what
the two pipelines rank is a constant function of both, and `Reports` what
`anime_eval.cli` makes of each. `pr` holds a pull request's
branch point, the main its checks ran against, the two verdicts and the baseline it
commits; `main` the content, baseline and the last run on it; `report` is
`eval_report.json` in the developer's work tree. `Open`, `Rerun`, `Update` and `Promote`
start the workflows on a merge with the main of that moment (main itself has no run
before the first one starts): the audit always, the evaluation only for changes that
touch a path of `eval-gate.yml:18-24` (`Watched`) or commit a baseline, which is one of
those paths (`Evaluated`). `EvalEnds` and `AuditEnds` end them at any later main. `Merge`
needs every check that has run green (`Passed`), on whatever main it ran, and
starts the run on main, which has no filter and cancels one under way (`concurrency` in
`eval-gate.yml`). A change outside the paths therefore reaches main without an
evaluation of its own; what is claimed of a green main is claimed of its own run.
`Publish` lets an advisory appear. Refuted, without a run: `PromotedIsMeasured`
(`eval_promote.py:42`: whatever `eval_report.json` lies there is promoted, another
branch's included); `VettedDependencies` when pnpm's output is garbled or an error
object, which counts as a clean scan although `deps.py:270` says a scanner that did not
run is not one, and when `uv export` fails, where `licenses.py:17` promises exit 2. A
silent gitleaks passes as well; the code takes no output for no findings. Git serves the
built-in scanner of secrets: without `git ls-files` the audit exits with 2, in the run as
well; without `git log` it warns and searches no history, which refutes `LeakNotMerged`
(`secrets.py:16` promises exit 2 where git is not available); the run's and the theorem's
`Outcomes` of git have a log.

### Telemetry and Inspect

`count` are the instruments of the API process, `batch` the collector's, `exposed` what
its endpoint serves (a series an export lacks stays), `samples` the last scrapes. A
request goes `Arrive`, `CacheHit` or `CacheMiss` (with the rerank in time or not),
`Generate`, `ResponseStart`, `Complete`; `Decline` answers a miss before there is
anything to rank, `Raise` may end it at any point and `Restart` replaces the process.
`Generations` are the counters a generation may move: the venue served; it fell back,
after an error, an empty reply or an open breaker, and the hosted chain behind it
succeeded, failed, or did both in turn; the hosted chain alone, likewise; or nobody was
asked. `Outcomes` is what becomes of each: a list, a refusal, or the popular titles,
which are not cached. An exception counts as a 500; `CancelledError` is no `Exception`
and the middleware counts nothing for it, so a client that hangs up is left out.

`disturbances` counts, by kind, what an inspection may meet: setbacks (a request that
did not get its list from the model its query is routed to, an answer that was not
cleared), a first 401 to a question (`retry`) and a second one (`rejected`), restarts,
users asking a query of the battery (`rival`) and users asking another (`visit`).
`Together` bounds which of them a behaviour may have at once; the theorems hold for any
such bound.
`Increase`, `Rate` and `Latest` are the PromQL functions as the checks use them: what a
series is born with is no rise, a fall is a reset, no samples are no result. `Rises` is
the set of the increments within the window, each by the sample that first shows it,
and `Increase` their number.

`Inspect` is `run_probes` and the cache, retrieval, router, serving and answer sections,
each judged by what Prometheus holds at that moment. `InspectAssumption` says what the
battery relies on: the repeated probe repeats the first one's query, one probe is in the
class the venue may serve, every section is run, and the wait exceeds the lag. Probes
that other checks judge (refusals, absent titles) are left out. `Ask` is the first
request for a probe and `Reask` the second, after a 401; the middleware counts both.
`ClearAnswers` empties the cache where `cache_ctl` gets through to Redis, and keeps any
part of it where it does not, or with `--keep-cache`. `made` remembers which lists were
stored for a query since its answer was last cleared. Requests move only while nothing of
the pipeline is due, which loses nothing: an increment at the instant of an export is
one of the instant before or after. `_inspect_common.py:56-68` derives the wait from the
reader's and the scrape's interval and adds a margin; the collector's batch is a third
lag, and the margin is what covers it. A wait of exactly the three lags is refuted too
(the snapshot may come just before the scrape due at that instant), so the run has one
unit more, as the code has 38 s for 15 + 5 + 15.

What green and red are worth needs their exclusions. `SmoothIsGreen` says an inspection
passes where nothing was set back, no question was refused twice, nothing was replaced,
no user asked a query of the battery and fewer than `TopShare` queries were scored; a
first 401 is made good, and users may ask anything else. Each exclusion is needed:

* a user and the first probe can both miss the same query; the one that ends later
  overwrites the answer, and the repeated probe, a hit, gets another list than the first:
  red although nothing failed;
* a fallback of the venue that needed no failed call (an empty reply, an open breaker)
  leaves `served` red where the venue has served nothing else;
* a second 401 is reported as the probe's answer;
* an answer that was not cleared is served from the cache, so that the router and the
  models have nothing to show;
* a restart takes with it what was not exported yet, and what the snapshots compare
  starts again;
* from the hundredth scored query on, one confident query no longer moves a p99.

`GreenMeansServed` is the other direction: a green inspection got for every probe a list
that was generated, and stored since the old answer was cleared, where it was cleared; and
the venue has served a request. Not necessarily a probe, nor in this process: Prometheus
still shows a series of the process before.

TLC refutes, with no run: `RecentTimeoutIsRed` (what a series is born with is no rise, so
the first timeout of a process's life, often the warm-up's, is invisible to the check over
the window, whose comment, `_inspect_sections.py:45-48`, wants it to answer whether the
stage is failing now); that the discarded warm-up does not show in the deltas
(`_inspect_sections.py:74-87`); that a repeated probe was served from the cache if its
answer is the same (two degraded answers are equal as well).

## 3. Runs

| Run | Question | Instance |
|---|---|---|
| `JobQueue_noloss` | does any interleaving lose a job or a poison message; is the ledger implemented | 3 messages, 2 of one key, 1 poison, 2 workers, batches of 2, 2 receives |
| `JobQueue_once` | can a handler run twice, or twice at once | 2 messages of one key, 2 workers, batches of 2, kills, overlapping deliveries, SQS errors |
| `JobQueue_live` | does every message leave the queue | 1 job with a handler and 1 without, batches of 2, 3 receives, one worker, every fault |
| `JobQueue_overlap` | violation, see above | 1 message, 2 workers |
| `CircuitBreaker_shared` | what state follows from overlapping calls; can it lock itself open | 3 callers, fail_max 2, reset_timeout 2 |
| `LlmGateway_serve` | path of one request through all layers, both modes, while others move the breakers; does it end | 1 request, 4 clients, venue on, fail_max 1, calls of others at any moment |
| `Erasure_quiet` | erasers against requests | 2 recommends, 1 feedback, 1 `delete_user`, 1 job |
| `Erasure_orphan` | violation, see above | 1 recommend, 1 job |
| `Recommend_serve` | shared counter, cache and switch under Redis faults | 2 requests, 1 known and 1 absent query, limit 1 |
| `Retrieval_reindex` | retrieval while the corpus is rewritten, every fault | 1 request, 3 runs of ingest (one may be the past), 3 editions over 2 titles, hybrid_k 3, rerank_k and final_k 2 |
| `Release_gates` | can anything reach main unmeasured, unaudited or worse | 4 changes (two that each cost a golden query a rank, one of them outside the paths that are evaluated; one that disables the reranker and brings a copyleft package; one, outside the paths, that adds and removes a credential), 2 open at once, 1 promoter, history of 3 commits, every engine fault but those above |
| `Inspect_battery` | is a green inspection served, is it green where all went well, what do its windows and the canary's say | inspector and 1 user, 2 probes after a warm-up, 2 lists to generate, export and scrape at 1 in every phase, a batch that is a step of its own, wait 3, window 2, 4 requests per process, and of disturbances: none, a setback, a restart, both, one or two 401s to a question, or one request of the user, for a query of the battery or another |

**Why the bounds are enough.** Every interaction is between two actors over one shared
thing: two deliveries of one key, two calls through one breaker, one writer and one
eraser over one table, one request caching and one reading. Two of each (three calls
for a streak of two; three messages so that a batch has an innocent neighbour) lets
them meet at every pair of awaits. `MaxReceive` 2 is one redelivery and then the
redrive; the quota limit is 1 so that the second request is refused. `FailureBound`
caps only the failure counter of a breaker (the code never resets it in `half_open`, so
it grows without a limit); it is above `FailMax`, or equal with a limit of 1, and no
comparison looks at higher values. In `CircuitBreaker_shared` it is `FailMax` plus the
two other calls that can be in progress when a breaker opens, so late failures are not
cut off in the first opening. In `Retrieval_reindex` requests share nothing
but the corpus, so one is enough; two runs beside what an earlier one left overlap in
every order, the editions list titles in both orders, cut them into more and fewer
pieces and drop one, and `hybrid_k` 3 is below the number of chunks while `rerank_k` 2
is the number of titles, so each cut can bite. In `Release_gates` two changes are each
within the tolerance and together beyond it, two open at once can be judged on each
other's past, and the window of 3 commits can be outgrown by one merge. In
`Inspect_battery` the export and the scrape are as coarse as one another and start in any
phase; only the order of their events and of the requests between them matters, and a wait
one unit shorter already fails. The collector's batch is a step of its own, which other
steps may precede, but takes no time (`BatchTimeout` 0): a length only moves what the
scrape finds, and the wait with it. There are two lists, so that a repeat can differ, and
four requests per process: the warm-up, the two probes, and a repetition after a 401 or
the user's. A restart is the case in which a counter falls and an alarm has to survive it,
hence the setback with a restart. `TopShare` 4 stands for 100. What the run leaves to the
theorems, which leave all of it open: other combinations of disturbances (a kept answer
with a user's request, say), more than one of a kind, a batch that takes time, and users'
requests that take time (`Slow`). The request and the ingestion runs, the pull requests and an
inspection come to an end, hence `CHECK_DEADLOCK FALSE` there. Symmetry is used only in
runs whose properties are safety properties (`LedgerSpec` included).

`TypeOK` of `Release`, `Retrieval` and `Inspect` states the types and bounds of their
variables and is not among the runs' properties, which ask what can go wrong; it is
proved (§4).

**Fairness.** `JobQueue.FairSpec`: a live worker's awaited calls end, Kubernetes restarts
workers, some worker polls again and again (strong: SIGTERM may intervene), SQS ends
visibility timeouts, applies the redrive and does not withhold a message for ever.
`CircuitBreaker.FairSpec`: time passes, calls end (`with_timeout` bounds them), some
caller that would be admitted calls. `LlmGateway.FairSpec`: started calls end (the SDKs' timeouts), the
request takes its next step; the clock and the other requests owe nothing. Nothing is assumed about which way
a call ends. With `FailureBound` reached a call can no longer fail; the liveness
properties do not lean on that, as they do not depend on how a call ends.

## 4. Proofs

TLAPS checks the following for every value of the constants.

`JobQueueProofs`, from `JobQueueAssumption`:

* `TypeCorrect`: `[]TypeOK`.
* `ControlCorrect`: `ControlOK`, the invariant on which the rest stands: a worker has a
  message in hand exactly while it awaits something about it, a worker outside a batch
  has no batch, and the message in hand is not also still to do. Without it nothing
  relates `pc` to `cur`.
* `PoisonNeverLost`: `[]PoisonAccounted` under every fault. Inductive only as
  `PoisonInv`, with "a worker has a poison message only to bury it, or to delete it once
  a copy is on the DLQ", because the copy and the
  delete are two calls and other workers act in between.
* `RunsAtMostOnce`, `HandlersExclude`: without `redis` and `evict` (`MarkersKept`). The
  strengthening `ClaimInv` is that a key in a claim has its marker and no completed run, at most
  one worker is in that claim, and a key whose handler has completed keeps its marker.
* `JobsNeverLost` and `ImplementsLedger`: without `kill`, `batchwait`, `overlap` and
  `redis`, and for job types that all have a handler (`ClaimsHonoured`). The strengthening
  `KeptInv` has three parts: a message in a worker's hands is in flight and in no other's
  hands (`ExclusiveHold`); a marker whose job is not done belongs to a claim in progress
  (`MarkersBacked`), so a duplicate may be deleted; and every published job that is not
  done has a message that is dead-lettered, or queued with nobody about to delete it
  (`JobsKept`). `ImplementsLedger` maps each step to a ledger step or a stutter.

`CircuitBreakerProofs`, from `BreakerAssumption` and `CircuitBreakerAssumption`:

* `TypeCorrect`, and `StreakCorrect`: `[]StreakDecides`. The strengthening
  `CountOK` says that the breaker is closed exactly while the count is below `fail_max`,
  that the last `failures` endings in `recent` failed, and that the one before them was
  a success.

`RetrievalProofs`, about the corpus, from `CorpusAssumption`:

* `WholeCorrect`: `[]CorpusWhole`, and `EmptiedNever`: `NeverEmptied`. A commit is whole
  only because of what the transaction did much earlier, so the inductive `CorpusInv`
  adds `LocksHeld` (a run past its upserts holds the row of every title of its file and
  of no other) and `PendingWhole` (what an open transaction has deleted is still all there
  is of its titles, and what it has inserted is all its file makes). `Disjoint` is the
  heart: two runs about to write have no title in common, so the commit of one
  (`CommitReplaces`) cannot touch what the other has marked.

and about the request, from the same and `RetrievalAssumption`:

* `ImplementsCorpus`: `Spec => CorpusSpec`, every step of a request being a stutter of
  the corpus; with it `CorpusStaysWhole` and `TitlesStay`.
* `LegFailuresAbsorbed`: `[]LegFailureAbsorbed`. `SessionInv` says that a broken session
  goes back to a failed rollback, and that each way the request can end is accounted for
  by what has failed.
* `RequestTyped`, `TitlesDistinct`: `[]DistinctTitles`, and `FullAnswers`:
  `[]FullWhenQuiet`. `CandidatesInv` follows the candidates from the legs to the answer:
  after the deduplication no two share a title, every later operator only reorders or
  cuts, and with a corpus at rest and no failure each cut has at least as many candidates
  to choose from as it keeps or all the titles there are.

`LlmGatewayProofs`, from `BreakerAssumption` and `LlmGatewayAssumption`:

* `TypeCorrect`; `AnswersStand`: `[]NeverSecondGuessed`; `ReaskedOnce`: `[]OneReask`;
  `FailureExhausts`: `[]FailsOnlyExhausted`; `BillCorrect`: `[]BillNamesAnswerer`;
  `OneVoice`: `[]NoSplice`. None is inductive alone: each relates the providers a
  request has heard to a layer that knows nothing of the others. `ChainOK` is the chain
  they form: what was heard descends the tiers but for a re-ask after a parse failure
  (`InOrder`), the layer a request is in lies ahead of all it has heard (`Ahead`),
  nothing is answered before the request is done and one provider is all a stream has
  (`Quiet`), and the request ends as its
  last hearing says (`Settled`, `Exhausted`, `Billed`).

`RecommendProofs`, from `RecommendAssumption`:

* `TypeCorrect`; `QuotaCorrect`: `[]QuotaHolds`; `OutageForgotten`: `[]OutageNotPinned`;
  `OffIsOff`: `[]OffStopsSpending`; `AbsentIsRefused`: `[]AbsentRefused`. For the quota,
  the counter is never behind the requests it counted and never ahead of those that have
  passed the gate. `PlaceOK` says
  what a request can have in each place, `TroubleOK`, `SwitchOK` and `AbsentOK` what the
  three later properties need of it on the way, and `CacheOK` that what is cached was
  neither degraded nor about an absent title.

`ErasureProofs`, from `ErasureAssumption`:

* `TypeCorrect`; `LinksHold`: `[]LinkedToUser`; `QuietComplete`: `[]QuietErasure`;
  `ErasesTogether`: `ErasedTogether`. `ErasureInv` states who holds each lock and that no
  two transactions do (`LocksOK`), what a transaction that has read, written or deleted a
  row knows of it until it ends (`RowsOK`, `ClaimsOK`, `UserGone`), and which overlap a
  row left behind goes back to (`QuietOK`, `RaceOK`). The proof corrected the model: an
  eraser's delete must wait for a row another open eraser has deleted or unlinked, as the
  row lock makes it do.

`InspectProofs`, from `TelemetryAssumption` and `InspectAssumption`:

* `TypeCorrect`; `CountsOnce`: `[]CountedOnce`; `AlarmsRecent`: `[]AlarmIsRecent`;
  `CanaryRecent`: `[]CanaryMeasured`. `LagInv` says that a series not incremented for as
  long as the reader, the batch and the scrape can take has reached each of them
  (`Synced`), whatever the intervals, so that a rise the window shows is about a recent
  increment; `Held` says that no snapshot is held once the
  batch is out.
* `GreenServes`: `[]GreenMeansServed`, with any number of users' requests, setbacks and
  restarts. `Fresh` follows the lists from the generation through the cache and the
  probe's request to its result: whatever is cached or got for a query was stored since
  it was cleared. `Unseen` says that a venue that never served is in no counter, batch,
  sample or snapshot; a restart does not erase the contrary from Prometheus, which is why
  the statement is about the processes so far and not about this one.
* `SmoothPasses`: `[]SmoothIsGreen`, with its exclusions (§2), for any number of users
  asking other queries. The invariant goes from the warm-up to the report: nobody else
  touches a query of the battery (`Calm`), a stored answer went through every stage
  (`Stored`), the inspector is on its way to that answer or to its second try
  (`Underway`), the first probe is a miss that moves the counters (`FirstMiss`); during
  the wait there is a snapshot (`floor`) that shows all of that and that has come as far
  through reader, batch and scrape as the wait is long (`Coming`, `Carried`, `Shown`);
  and so no judged section fails (`Clean`). `Behind` says that without a restart no stage
  of the pipeline is ahead of the instruments, so a counter that has grown is seen to.

`ReleaseProofs`, from `EvalAssumption` and `ReleaseAssumption`:

* `TypeCorrect`.
* `GreenHolds`: `[]GreenMainHolds`, for a golden set with a query to score; without one
  every aggregate is 0 and there is no lift to have.
* `DeadRerankersCaught`: `[]DeadRerankerCaught`, for rankings such that the hybrid search
  without its reranker lacks the lift over the dense-only one (`HybridLacksLift`). That is
  what `eval-gate.yml:112` says of it; it is a fact about data, so it is a hypothesis
  here and TLC evaluates it on the instance.
* `LeaksCaught`: `[]LeakNotMerged`, if gitleaks never comes back with nothing
  (`"silent"`) and git never without a log (`"no_log"`); either does pass, as
  `SecretsExit` records.
* `DependenciesVetted`: `VettedDependencies`, if `uv export` succeeds and a `pnpm audit`
  that fails says nothing. Where `pnpm` prints a readable object that is not an audit, or
  `uv` cannot export, the audit passes without having looked; so the hypotheses are
  needed, and they are what the run has.
* The invariants are `MainStands` (main's verdict is about main's content and baseline),
  `EvalHolds` and `AuditHolds` (a green check has passed on the tree it ran on) and
  `MergedStands` (what is in main was merged on a green audit). The arithmetic of the gate is proved once, in `MetricsNat`,
  `AggregatesRight`, `NotRegressed` and `GateMeans`.

The lemmas before the theorems are steps of these proofs (one per action that disturbs a
conjunct). Every safety property of the passing runs is thus a theorem. Only
model-checked are the liveness properties `EventuallySettled`, `OpenNotForever` and
`EventuallyAnswered`, which need fairness and `ENABLED`.

The induction theorems of the library take an operator as a parameter, which the provers
cannot instantiate. Where a proof needs induction over data, it takes a least
counterexample from a set of numbers (`LeastNat`), the sums of `EvalMetrics` are
counted as cardinalities, and the community modules' fold behind the fusion of the legs is
related to a function on subsets shown to exist the same way (`SumExists`). What a
recursive definition computes for every input is otherwise not proved.

## 5. Not modelled, and why

* The packing of sentences into chunks, the embedder's cache, the likeness of titles in
  the catalogue, the in-flight gauge, the quota counter's expiry at midnight, the dual
  write of the feedback route (a row and a job, of which one may fail; the job feeds a
  counter and a capped review list that nothing else reads).
* `with_retry` (tenacity), prompts, embeddings, scores, wording: data the properties do
  not tell apart.
* Of the inspection: containers, the data tier, the text scan of answers, and the nfr,
  obs, cost and breakers sections, which judge one reading each; `--no-probe`. Latency
  histograms and traces; requests whose client hangs up.
* RAGAS, the refusal evaluation, reports, benchmarks and venue experiments: offline and
  sequential. Dashboards, Terraform beyond the queue: no state of their own.
* The web front end: pages and components are presentation. Its streaming hook is
  the one part with a protocol of its own.
* JWT verification is the library's; a token is valid until it expires.

## 6. Plan

1. *Done*: all modules of §2, their runs, and proofs of every safety property those check.
2. Proofs still worth having: an abstract view of the gateway (one answer or one failure
   per request) and of the quota (a counter checked and raised at once) for `LlmGateway`
   and `Recommend` to implement; the lemmas on rankings and folds stated for reuse.
3. Pure algorithms against reference definitions (`_pack_sentences`, `mmr_select`), the
   quota counter at midnight and the front end's streaming hook.
