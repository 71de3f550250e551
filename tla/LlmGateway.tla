----------------------------- MODULE LlmGateway -----------------------------
(***************************************************************************)
(* The LLM gateway as build_default_llm_client composes it:                *)
(*    BudgetedLLMClient -> [VenueRoutedClient ->] TieredLLMClient          *)
(*       -> ResilientLLMClient (breaker + timeout) -> provider.            *)
(* A request is one coroutine that asks one provider after another until a *)
(* layer returns or raises to its caller; requests run concurrently and    *)
(* share the breakers and nothing else.  A reply is kept as what the       *)
(* layers tell apart: "items", "empty" (no items, no refusal) or           *)
(* "refusal".  `Ask` to a call's end is one await; a layer that goes on to *)
(* the next provider does so in the step that ended the last call, and the *)
(* look at the next breaker is a step of its own.                          *)
(***************************************************************************)
EXTENDS Breaker, Sequences, FiniteSets

CONSTANTS
    Requests,       \* concurrent recommend() and astream() calls
    Clients,        \* provider clients, each with its breaker
    ClientOf,       \* the client in each role of the composition
    VenueEnabled,   \* LLM_VENUE_ROUTING_ENABLED
    Modes,          \* entry points used: subset of {"recommend", "stream"}
    FailureBound    \* bound on a breaker's failure count, for TLC

Roles == {"venue", "default", "escalation", "fallback"}
Nobody == "nobody"

ASSUME LlmGatewayAssumption ==
    /\ ClientOf \in [Roles -> Clients]
    /\ VenueEnabled \in BOOLEAN
    /\ Modes \subseteq {"recommend", "stream"}
    /\ FailureBound \in Nat

VARIABLES
    breaker,    \* per client: its AsyncCircuitBreaker
    req,        \* per request: entry point, confident retrieval, hard query
    pc,         \* per request: the layer it is in
    asked,      \* the provider has been called and not answered
    spare,      \* an empty result is held back while another tier is asked
    answer,     \* what the request ended with
    usage,      \* LAST_USAGE: the role whose usage it holds
    heard,      \* history: <<role, how its call ended>>, in order
    voice       \* history: roles whose tokens reached the caller

requestVars == <<req, pc, asked, spare, answer, usage, heard, voice>>
vars == <<breaker, requestVars>>

Stages == {"venue", "primary", "reask", "fallback"}
Replies == {"items", "empty", "refusal"}
Errors == {"parse", "fault", "open"}
Answers == Replies \cup {"none", "budget", "error", "text", "left"}
Kinds == [mode : Modes, confident : BOOLEAN, hard : BOOLEAN]

TypeOK ==
    /\ breaker \in [Clients -> Breakers]
    /\ req \in [Requests -> Kinds]
    /\ pc \in [Requests -> Stages \cup {"talking", "done"}]
    /\ asked \in [Requests -> BOOLEAN]
    /\ spare \in [Requests -> BOOLEAN]
    /\ answer \in [Requests -> Answers]
    /\ usage \in [Requests -> Roles \cup {Nobody}]
    /\ heard \in [Requests -> Seq([role : Roles, got : Replies \cup Errors])]
    /\ voice \in [Requests -> SUBSET Roles]

Init ==
    /\ breaker = [c \in Clients |-> NewBreaker]
    /\ req \in [Requests -> Kinds]
    /\ pc = [r \in Requests |-> "done"]
    /\ asked = [r \in Requests |-> FALSE]
    /\ spare = [r \in Requests |-> FALSE]
    /\ answer = [r \in Requests |-> "none"]
    /\ usage = [r \in Requests |-> Nobody]
    /\ heard = [r \in Requests |-> << >>]
    /\ voice = [r \in Requests |-> {}]

-----------------------------------------------------------------------------
(* TieredLLMClient._primary.                                               *)
PrimaryRole(r) == IF req[r].hard THEN "escalation" ELSE "default"

RoleAt(r) ==
    IF pc[r] \in {"primary", "reask"} THEN PrimaryRole(r) ELSE pc[r]

Client(r) == ClientOf[RoleAt(r)]

(* `primary is not self._fallback`.                                        *)
HasFallback(r) == ClientOf[PrimaryRole(r)] # ClientOf["fallback"]

(* Budget, route: everything a new request does before its first call.     *)
(* VenueRoutedClient._route sends it to the venue only on a measured       *)
(* confidence at or above the threshold.                                   *)
Arrive(r, k) ==
    /\ pc[r] = "done"
    /\ req' = [req EXCEPT ![r] = k]
    /\ pc' = [pc EXCEPT ![r] =
                IF VenueEnabled /\ k.confident THEN "venue" ELSE "primary"]
    /\ spare' = [spare EXCEPT ![r] = FALSE]
    /\ answer' = [answer EXCEPT ![r] = "none"]
    /\ usage' = [usage EXCEPT ![r] = Nobody]
    /\ heard' = [heard EXCEPT ![r] = << >>]
    /\ voice' = [voice EXCEPT ![r] = {}]
    /\ UNCHANGED <<breaker, asked>>

(* _check_budget raises BudgetExceededError: no provider is called.        *)
OverBudget(r, k) ==
    /\ pc[r] = "done"
    /\ req' = [req EXCEPT ![r] = k]
    /\ answer' = [answer EXCEPT ![r] = "budget"]
    /\ usage' = [usage EXCEPT ![r] = Nobody]
    /\ heard' = [heard EXCEPT ![r] = << >>]
    /\ voice' = [voice EXCEPT ![r] = {}]
    /\ UNCHANGED <<breaker, pc, asked, spare>>

-----------------------------------------------------------------------------
Recommending(r) == pc[r] \in Stages /\ req[r].mode = "recommend"

(* The call of the current layer is over with `got`.                       *)
Hear(r, got) ==
    heard' = [heard EXCEPT ![r] = Append(@, [role |-> RoleAt(r), got |-> got])]

\* Mutant of AfterError: the re-ask is re-asked too, until it parses.
AfterErrorLooping(r, why) ==
    CASE pc[r] = "venue" -> "primary"
      [] pc[r] \in {"primary", "reask"} ->
            IF why = "parse" /\ HasFallback(r) THEN "reask" ELSE "fallback"
      [] pc[r] = "fallback" -> "done"

(* Where an exception takes the request: venue to hosted chain, primary to *)
(* one re-ask for parse failures and to the fallback otherwise, fallback   *)
(* to the caller.                                                          *)
AfterError(r, why) ==
    CASE pc[r] = "venue" -> "primary"
      [] pc[r] = "primary" ->
            IF why = "parse" /\ HasFallback(r) THEN "reask" ELSE "fallback"
      [] pc[r] = "reask" -> "fallback"
      [] pc[r] = "fallback" -> "done"

\* Mutant of Fail: the re-ask is made outside any try, its error escapes.
FailEscaping(r, why) ==
    /\ Hear(r, why)
    /\ asked' = [asked EXCEPT ![r] = FALSE]
    /\ pc' = [pc EXCEPT ![r] = IF @ = "reask" THEN "done" ELSE AfterError(r, why)]
    /\ answer' = [answer EXCEPT ![r] =
                    IF pc[r] \in {"reask", "fallback"} THEN "error" ELSE @]
    /\ UNCHANGED <<req, spare, usage, voice>>

(* The call failed with `why`, which the layer above catches.              *)
Fail(r, why) ==
    /\ Hear(r, why)
    /\ asked' = [asked EXCEPT ![r] = FALSE]
    /\ pc' = [pc EXCEPT ![r] = AfterError(r, why)]
    /\ answer' = [answer EXCEPT ![r] = IF pc[r] = "fallback" THEN "error" ELSE @]
    /\ UNCHANGED <<req, spare, usage, voice>>

(* guarded: the breaker lets the call through.                             *)
Ask(r) ==
    /\ Recommending(r) /\ ~asked[r]
    /\ Looked(breaker[Client(r)]).state # "open"
    /\ breaker' = [breaker EXCEPT ![Client(r)] = Looked(@)]
    /\ asked' = [asked EXCEPT ![r] = TRUE]
    /\ UNCHANGED <<req, pc, spare, answer, usage, heard, voice>>

\* Mutant of Refused: an open breaker is waited out.
RefusedWaiting(r) ==
    /\ Recommending(r) /\ ~asked[r]
    /\ Looked(breaker[Client(r)]).state = "open"
    /\ UNCHANGED vars

(* CircuitBreakerError: the next layer takes over at once.                 *)
Refused(r) ==
    /\ Recommending(r) /\ ~asked[r]
    /\ Looked(breaker[Client(r)]).state = "open"
    /\ Fail(r, "open")
    /\ UNCHANGED breaker

(* The provider fails: "parse" is a structured-output parse error, "fault" *)
(* any other exception and the TimeoutError of with_timeout.               *)
ProviderFails(r, why) ==
    /\ Recommending(r) /\ asked[r]
    /\ breaker[Client(r)].failures < FailureBound
    /\ breaker' = [breaker EXCEPT ![Client(r)] = OnFailure(@)]
    /\ Fail(r, why)

\* Mutant of TriesAnother: any result without items is a soft failure.
TriesAnotherOnRefusal(r, reply) ==
    /\ reply # "items"
    /\ pc[r] = "venue" \/ (pc[r] = "primary" /\ HasFallback(r))

(* An empty result that is no refusal is a soft failure of the venue and   *)
(* of the primary; the re-asked primary and the fallback are returned.     *)
TriesAnother(r, reply) ==
    /\ reply = "empty"
    /\ pc[r] = "venue" \/ (pc[r] = "primary" /\ HasFallback(r))

\* Mutant of Metered: LAST_USAGE keeps the first call's usage.
MeteredFirst(r) ==
    usage' = [usage EXCEPT ![r] = IF @ = Nobody THEN RoleAt(r) ELSE @]

(* _recommend: LAST_USAGE.set on every parsed reply.                       *)
Metered(r) == usage' = [usage EXCEPT ![r] = RoleAt(r)]

(* A parsed reply comes back through the layers.  Those that hold back an  *)
(* empty result return it unless the later one has items.                  *)
ProviderReplies(r, reply) ==
    /\ Recommending(r) /\ asked[r]
    /\ breaker' = [breaker EXCEPT ![Client(r)] = OnSuccess(@)]
    /\ Hear(r, reply)
    /\ Metered(r)
    /\ asked' = [asked EXCEPT ![r] = FALSE]
    /\ \/ /\ TriesAnother(r, reply)
          /\ spare' = [spare EXCEPT ![r] = TRUE]
          /\ pc' = [pc EXCEPT ![r] =
                      IF pc[r] = "venue" THEN "primary" ELSE "fallback"]
          /\ UNCHANGED answer
       \/ /\ ~TriesAnother(r, reply)
          /\ pc' = [pc EXCEPT ![r] = "done"]
          /\ answer' = [answer EXCEPT ![r] =
                          IF spare[r] /\ reply # "items" THEN "empty" ELSE reply]
          /\ UNCHANGED spare
    /\ UNCHANGED <<req, voice>>

-----------------------------------------------------------------------------
(* astream: no breaker, no timeout of ours, no re-ask.                     *)
Opening(r) == pc[r] \in Stages /\ req[r].mode = "stream"

(* The first token arrives and is passed on; later ones come from the same *)
(* generator.                                                              *)
FirstToken(r) ==
    /\ Opening(r)
    /\ voice' = [voice EXCEPT ![r] = @ \cup {RoleAt(r)}]
    /\ pc' = [pc EXCEPT ![r] = "talking"]
    /\ UNCHANGED <<breaker, req, asked, spare, answer, usage, heard>>

(* The stream raises before its first token: fall through.                 *)
StreamFails(r) ==
    /\ Opening(r)
    /\ Fail(r, "fault")
    /\ UNCHANGED breaker

(* The stream ends before its first token (StopAsyncIteration).            *)
StreamEmpty(r) ==
    /\ Opening(r)
    /\ pc' = [pc EXCEPT ![r] = "done"]
    /\ answer' = [answer EXCEPT ![r] = "empty"]
    /\ UNCHANGED <<breaker, req, asked, spare, usage, heard, voice>>

\* Mutant of StreamBreaks: the hosted fallback takes over mid-stream.
StreamBreaksOver(r) ==
    /\ pc[r] = "talking"
    /\ pc' = [pc EXCEPT ![r] = "fallback"]
    /\ UNCHANGED <<breaker, req, asked, spare, answer, usage, heard, voice>>

(* The stream raises after its first token: so does the gateway.           *)
StreamBreaks(r) ==
    /\ pc[r] = "talking"
    /\ pc' = [pc EXCEPT ![r] = "done"]
    /\ answer' = [answer EXCEPT ![r] = "error"]
    /\ UNCHANGED <<breaker, req, asked, spare, usage, heard, voice>>

StreamEnds(r) ==
    /\ pc[r] = "talking"
    /\ pc' = [pc EXCEPT ![r] = "done"]
    /\ answer' = [answer EXCEPT ![r] = "text"]
    /\ UNCHANGED <<breaker, req, asked, spare, usage, heard, voice>>

(* The consumer abandons the generator (the client navigated away).        *)
Leave(r) ==
    /\ Opening(r) \/ pc[r] = "talking"
    /\ pc' = [pc EXCEPT ![r] = "done"]
    /\ answer' = [answer EXCEPT ![r] = "left"]
    /\ UNCHANGED <<breaker, req, asked, spare, usage, heard, voice>>

-----------------------------------------------------------------------------
Tick(c) ==
    /\ breaker[c].age < ResetTimeout
    /\ breaker' = [breaker EXCEPT ![c] = Older(@)]
    /\ UNCHANGED requestVars

(* A call of any other request looks at the breaker or ends: whatever the  *)
(* requests that are not followed do to those that are.                    *)
OtherCall(c) ==
    /\ \/ breaker' = [breaker EXCEPT ![c] = Looked(@)]
       \/ breaker' = [breaker EXCEPT ![c] = OnSuccess(@)]
       \/ /\ breaker[c].failures < FailureBound
          /\ breaker' = [breaker EXCEPT ![c] = OnFailure(@)]
    /\ UNCHANGED requestVars

Enter(r) == Ask(r) \/ Refused(r)

Conclude(r) ==
    \/ \E why \in {"parse", "fault"} : ProviderFails(r, why)
    \/ \E reply \in Replies : ProviderReplies(r, reply)

Streaming(r) ==
    \/ FirstToken(r) \/ StreamFails(r) \/ StreamEmpty(r)
    \/ StreamBreaks(r) \/ StreamEnds(r)

RequestStep(r) ==
    \/ \E k \in Kinds : Arrive(r, k) \/ OverBudget(r, k)
    \/ Enter(r) \/ Conclude(r) \/ Streaming(r) \/ Leave(r)

Next ==
    \/ \E r \in Requests : RequestStep(r)
    \/ \E c \in Clients : Tick(c) \/ OtherCall(c)

Spec == Init /\ [][Next]_vars

(* Every call ends: with_timeout bounds the structured ones, the SDK's     *)
(* read timeout the streamed ones.                                         *)
FairSpec ==
    /\ Spec
    /\ \A r \in Requests :
          WF_vars(Enter(r)) /\ WF_vars(Conclude(r)) /\ WF_vars(Streaming(r))

-----------------------------------------------------------------------------
(* llm_client.py:373: "A REFUSAL is a deliberate, correct answer - never   *)
(* retry it."  No provider is asked after one has answered, by declining   *)
(* or with items, in whatever layer the answer was given.                  *)
NeverSecondGuessed ==
    \A r \in Requests : \A i \in 1..Len(heard[r]) :
        heard[r][i].got \in {"items", "refusal"} =>
            i = Len(heard[r]) /\ pc[r] = "done"

(* A provider is asked again only after a parse failure, once and at once; *)
(* never after a timeout, an outage or an open breaker.                    *)
OneReask ==
    \A r \in Requests : \A i, j \in 1..Len(heard[r]) :
        i < j /\ heard[r][i].role = heard[r][j].role =>
            j = i + 1 /\ heard[r][i].got = "parse"

(* A request fails only when every tier on its way, the fallback last, has *)
(* failed it; and a result with items is never lost to an empty one held   *)
(* back by an outer layer.                                                 *)
FailsOnlyExhausted ==
    \A r \in Requests : pc[r] = "done" =>
        /\ answer[r] = "error" /\ voice[r] = {} =>
              /\ heard[r] # << >>
              /\ heard[r][Len(heard[r])].role = "fallback"
              /\ heard[r][Len(heard[r])].got \in Errors
        /\ (\E i \in 1..Len(heard[r]) : heard[r][i].got = "items")
              => answer[r] = "items"

(* LAST_USAGE names the provider whose answer the user gets.               *)
BillNamesAnswerer ==
    \A r \in Requests : answer[r] \in {"items", "refusal"} =>
        usage[r] = heard[r][Len(heard[r])].role

(* Two models' prose is never spliced into one stream.                     *)
NoSplice == \A r \in Requests : Cardinality(voice[r]) <= 1

(* Every request ends, whatever the providers and breakers do.             *)
EventuallyAnswered ==
    \A r \in Requests : pc[r] # "done" ~> pc[r] = "done"

-----------------------------------------------------------------------------
(* llm_client.py:385-386: "An EMPTY structured result with no refusal IS a *)
(* soft failure ... Retry on the fallback before giving up."               *)
EmptyTriesFallback ==
    \A r \in Requests :
        answer[r] = "empty" /\ req[r].mode = "recommend" =>
            \E i \in 1..Len(heard[r]) : heard[r][i].role = "fallback"

(* llm_client.py:373: a refusal "is a deliberate, correct answer", also    *)
(* when the fallback gives it.                                             *)
RefusalReported ==
    \A r \in Requests :
        pc[r] = "done" /\ heard[r] # << >>
            /\ heard[r][Len(heard[r])].got = "refusal"
        => answer[r] = "refusal"

(* db/models.py:134-135: usage is written "after every successful LLM      *)
(* call, so per-tenant cost is queryable for billing".                     *)
EveryCallMetered ==
    \A r \in Requests : pc[r] = "done" =>
        \A i \in 1..Len(heard[r]) :
            heard[r][i].got \in Replies => heard[r][i].role = usage[r]
=============================================================================
