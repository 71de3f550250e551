--------------------------- MODULE RecommendProofs ---------------------------
(***************************************************************************)
(* The safety properties of Recommend, for any finite set of requests, any *)
(* queries and titles, any daily limit and either default of LLM_ENABLED,  *)
(* with and without the faults of Redis.                                   *)
(***************************************************************************)
EXTENDS Recommend, FiniteSetTheorems, TLAPS

(* The requests past the gate, those of them Redis has counted, and those  *)
(* of these that were let through.                                         *)
Past == {r \in Requests : pc[r] \notin {"idle", "gate"}}
Counted == {r \in Requests : pc[r] \notin {"idle", "gate"} /\ "gate" \notin blind[r]}
Admitted == {r \in Requests : pc[r] \notin {"idle", "gate"}
                  /\ status[r] # 429 /\ "gate" \notin blind[r]}

(***************************************************************************)
(* QuotaHolds is not inductive: what bounds the admitted is the counter,   *)
(* which is never behind the requests it counted and never ahead of those  *)
(* that went through the gate.                                             *)
(***************************************************************************)
CountOK == count \in Nat /\ count <= Cardinality(Past)
QuotaOK == Cardinality(Counted) <= count /\ Cardinality(Admitted) <= Limit

(* Where a request stands says what it can have answered and spent.        *)
PlaceOK(r) ==
    /\ pc[r] \in {"idle", "gate", "lookup", "switch", "retrieve"} =>
          said[r] = << >> /\ ~spent[r] /\ result[r] = "none"
    /\ pc[r] = "generate" => result[r] = "none"
    /\ pc[r] \in {"idle", "gate"} => rows[r] = "none"
    /\ Structured(r) => said[r] = << >>
    /\ status[r] = 429 =>
          /\ pc[r] = "done"
          /\ ~spent[r] /\ result[r] = "none" /\ rows[r] = "none" /\ said[r] = << >>

(* A degraded answer is the request's own trouble.                         *)
TroubleOK(r) ==
    \/ result[r] \in Degraded
    \/ \E i \in 1..Len(said[r]) : said[r][i] = "notice"
    => trouble[r]

(* A request that has found the switch off ever since it came is about to  *)
(* spend, or has spent, only because Redis did not answer it.              *)
SwitchOK(r) ==
    late[r] => /\ switch = "off"
               /\ spent[r] \/ pc[r] = "retrieve" => "switch" \in blind[r]

(* A request for an absent title gets no further than the catalogue check. *)
AbsentOK(r) ==
    catalog /\ ask[r].query \in Absent =>
        /\ pc[r] \notin {"retrieve", "generate"}
        /\ ~spent[r] /\ result[r] # "items"
        /\ \A i \in 1..Len(said[r]) : said[r][i] \in {"notice", "refusal"}

(* The cache holds nothing degraded, and no items for an absent title.     *)
CacheOK ==
    \A q \in Queries :
        /\ cache[q] \notin Degraded
        /\ catalog /\ q \in Absent => cache[q] # "items"

RequestOK(r) == PlaceOK(r) /\ TroubleOK(r) /\ SwitchOK(r) /\ AbsentOK(r)

ServiceOK == CacheOK /\ \A r \in Requests : RequestOK(r)

-----------------------------------------------------------------------------
(* Adding an event keeps what a stream has said a sequence of events.      *)
LEMMA SayType ==
    ASSUME TypeOK, NEW r \in Requests, NEW event \in Events, Say(r, event)
    PROVE  said' \in [Requests -> Seq(Events)]
<1>1. said \in [Requests -> Seq(Events)]
  BY DEF TypeOK
<1>2. Append(said[r], event) \in Seq(Events)
  BY <1>1
<1>3. QED
  BY <1>1, <1>2 DEF Say

(* A request that goes anywhere goes to a place there is.                  *)
LEMMA GoType ==
    ASSUME TypeOK, NEW r \in Requests, NEW at \in PCs, Go(r, at)
    PROVE  pc' \in [Requests -> PCs]
  BY DEF TypeOK, Go

(* What Conclude does: it ends a stream with an event, and hands a         *)
(* structured result on to the cache.                                      *)
LEMMA ConcludeType ==
    ASSUME TypeOK, NEW r \in Requests, NEW res \in Results, Conclude(r, res)
    PROVE  /\ pc' \in [Requests -> PCs]
           /\ result' \in [Requests -> Results \cup {"none"}]
           /\ said' \in [Requests -> Seq(Events)]
           /\ status' \in [Requests -> {0, 200, 429, 500}]
<1>1. CASE Structured(r)
  <2>1. /\ Go(r, "store") /\ result' = [result EXCEPT ![r] = res]
        /\ UNCHANGED <<said, status>>
    BY <1>1 DEF Conclude
  <2>2. pc' \in [Requests -> PCs]
    BY <2>1, GoType DEF PCs
  <2>3. result' \in [Requests -> Results \cup {"none"}]
    BY <2>1 DEF TypeOK
  <2>4. QED
    BY <2>1, <2>2, <2>3 DEF TypeOK
<1>2. CASE ~Structured(r)
  <2>1. said' \in [Requests -> Seq(Events)]
    BY <1>2, SayType DEF Conclude, Events
  <2>2. /\ Go(r, "done") /\ status' = [status EXCEPT ![r] = 200]
        /\ UNCHANGED result
    BY <1>2 DEF Conclude
  <2>3. pc' \in [Requests -> PCs]
    BY <2>2, GoType DEF PCs
  <2>4. status' \in [Requests -> {0, 200, 429, 500}]
    BY <2>2 DEF TypeOK
  <2>5. QED
    BY <2>1, <2>2, <2>3, <2>4 DEF TypeOK
<1>3. QED
  BY <1>1, <1>2

(* A failing command of Redis is remembered as one of the two reads.       *)
LEMMA RedisFailsType ==
    ASSUME TypeOK, NEW r \in Requests, UNCHANGED blind \/ RedisFails(r)
    PROVE  blind' \in [Requests -> SUBSET {"gate", "switch"}]
<1>1. CASE UNCHANGED blind
  BY <1>1 DEF TypeOK
<1>2. CASE RedisFails(r)
  <2>1. blind[r] \cup ({pc[r]} \cap {"gate", "switch"}) \in SUBSET {"gate", "switch"}
    BY DEF TypeOK
  <2>2. QED
    BY <1>2, <2>1 DEF RedisFails, TypeOK
<1>3. QED
  BY <1>1, <1>2

(* The steps before the retrieval keep the types.                          *)
LEMMA EntryTypes ==
    ASSUME TypeOK, NEW r \in Requests, count' \in 0..Cardinality(Requests),
           Arrive(r) \/ Gate(r) \/ GateBlind(r) \/ Hit(r) \/ Miss(r) \/ ReadSwitch(r)
    PROVE  TypeOK'
<1> USE DEF TypeOK
<1>1. CASE Arrive(r)
  <2>1. late' \in [Requests -> BOOLEAN]
    BY <1>1 DEF Arrive
  <2>2. QED
    BY <1>1, <2>1 DEF Arrive, Go, PCs, redis, given, reply
<1>2. CASE Gate(r)
  <2>1. pc' \in [Requests -> PCs]
    BY <1>2, GoType DEF Gate, PCs
  <2>2. UNCHANGED status \/ status' = [status EXCEPT ![r] = 429]
    BY <1>2 DEF Gate
  <2>3. status' \in [Requests -> {0, 200, 429, 500}]
    <3>1. CASE UNCHANGED status
      BY <3>1
    <3>2. CASE status' = [status EXCEPT ![r] = 429]
      BY <3>2
    <3>3. QED
      BY <2>2, <3>1, <3>2
  <2>4. QED
    BY <1>2, <2>1, <2>3 DEF Gate, given, history
<1>3. CASE GateBlind(r)
  <2>1. blind' \in [Requests -> SUBSET {"gate", "switch"}]
    BY <1>3, RedisFailsType DEF GateBlind
  <2>2. QED
    BY <1>3, <2>1 DEF GateBlind, Go, PCs, given, reply
<1>4. CASE Hit(r)
  <2> DEFINE found == cache[ask[r].query]
  <2>1. found \in Results
    BY <1>4 DEF Hit
  <2>2. CASE Structured(r)
    <3>1. /\ Go(r, "book") /\ result' = [result EXCEPT ![r] = found]
          /\ UNCHANGED <<redis, given, said, status, rows, history>>
      BY <1>4, <2>2 DEF Hit
    <3>2. pc' \in [Requests -> PCs]
      BY <3>1, GoType DEF PCs
    <3>3. result' \in [Requests -> Results \cup {"none"}]
      BY <2>1, <3>1
    <3>4. QED
      BY <3>1, <3>2, <3>3 DEF redis, given, history
  <2>3. CASE ~Structured(r)
    <3>1. << >> \in Seq(Events) /\ <<"item">> \in Seq(Events)
      BY DEF Events
    <3>2. \E s \in Seq(Events) : said' = [said EXCEPT ![r] = s]
      BY <1>4, <2>3, <3>1 DEF Hit, Structured
    <3>3. said' \in [Requests -> Seq(Events)]
      BY <3>2
    <3>4. /\ Go(r, "done") /\ status' = [status EXCEPT ![r] = 200]
          /\ UNCHANGED <<redis, given, result, rows, history>>
      BY <1>4, <2>3 DEF Hit
    <3>5. pc' \in [Requests -> PCs]
      BY <3>4, GoType DEF PCs
    <3>6. status' \in [Requests -> {0, 200, 429, 500}]
      BY <3>4
    <3>7. QED
      BY <3>3, <3>4, <3>5, <3>6 DEF redis, given, history
  <2>4. QED
    BY <2>2, <2>3
<1>5. CASE Miss(r)
  <2>1. blind' \in [Requests -> SUBSET {"gate", "switch"}]
    BY <1>5, RedisFailsType DEF Miss
  <2>2. QED
    BY <1>5, <2>1 DEF Miss, Go, PCs, redis, given, reply
<1>6. CASE ReadSwitch(r)
  <2>1. blind' \in [Requests -> SUBSET {"gate", "switch"}]
    BY <1>6, RedisFailsType DEF ReadSwitch
  <2>2. /\ pc' \in [Requests -> PCs]
        /\ result' \in [Requests -> Results \cup {"none"}]
        /\ said' \in [Requests -> Seq(Events)]
        /\ status' \in [Requests -> {0, 200, 429, 500}]
    <3>1. CASE Conclude(r, "popular") \/ Conclude(r, "refusal")
      BY <3>1, ConcludeType DEF Results
    <3>2. CASE Go(r, "retrieve") /\ UNCHANGED <<result, said, status, trouble>>
      BY <3>2 DEF Go, PCs
    <3>3. QED
      BY <1>6, <3>1, <3>2 DEF ReadSwitch
  <2>3. trouble' \in [Requests -> BOOLEAN]
    BY <1>6 DEF ReadSwitch
  <2>4. QED
    BY <1>6, <2>1, <2>2, <2>3 DEF ReadSwitch, redis, given
<1>7. QED
  BY <1>1, <1>2, <1>3, <1>4, <1>5, <1>6

(* The steps from the retrieval to the end of the generation keep them.    *)
LEMMA ServiceTypes ==
    ASSUME TypeOK, NEW r \in Requests,
           \/ Retrieved(r) \/ OutOfScope(r) \/ RetrievalRaises(r)
           \/ \E res \in Degraded : NotRetrieved(r, res)
           \/ \E res \in Grounded \cup {"refusal", "popular"} : Generated(r, res)
           \/ StreamEnds(r) \/ Token(r)
    PROVE  TypeOK'
<1>1. CASE Retrieved(r)
  BY <1>1 DEF Retrieved, TypeOK, Go, PCs, redis, given, reply
<1>2. CASE OutOfScope(r)
  BY <1>2, ConcludeType DEF OutOfScope, TypeOK, Results, redis, given, history
<1>3. CASE RetrievalRaises(r)
  BY <1>3 DEF RetrievalRaises, TypeOK, Go, PCs, redis, given, history
<1>4. ASSUME NEW res \in Degraded, NotRetrieved(r, res) PROVE TypeOK'
  BY <1>4, ConcludeType DEF NotRetrieved, TypeOK, Results, Degraded, redis, given
<1>5. ASSUME NEW res \in Grounded \cup {"refusal", "popular"}, Generated(r, res)
      PROVE  TypeOK'
  <2>1. res \in Results
    BY DEF Grounded, Results
  <2>2. trouble' \in [Requests -> BOOLEAN]
    BY <1>5 DEF Generated, TypeOK
  <2>3. Conclude(r, res)
    BY <1>5 DEF Generated
  <2>4. QED
    BY <1>5, <2>1, <2>2, <2>3, ConcludeType DEF Generated, TypeOK, redis, given
<1>6. CASE StreamEnds(r)
  <2>1. said' \in [Requests -> Seq(Events)]
    BY <1>6, SayType DEF StreamEnds, Events, TypeOK
  <2>2. trouble' \in [Requests -> BOOLEAN]
    BY <1>6 DEF StreamEnds, TypeOK
  <2>3. QED
    BY <1>6, <2>1, <2>2 DEF StreamEnds, TypeOK, Go, PCs, redis, given
<1>7. CASE Token(r)
  <2>1. said' \in [Requests -> Seq(Events)]
    BY <1>7, SayType DEF Token, Events
  <2>2. QED
    BY <1>7, <2>1 DEF Token, TypeOK, redis, given, history
<1>8. QED
  BY <1>1, <1>2, <1>3, <1>4, <1>5, <1>6, <1>7

(* So do the cache's and the books' steps.                                 *)
LEMMA BookTypes ==
    ASSUME TypeOK, NEW r \in Requests,
           Store(r) \/ Book(r) \/ BookFails(r) \/ Commit(r)
    PROVE  TypeOK'
<1>1. CASE Store(r)
  <2>1. blind' \in [Requests -> SUBSET {"gate", "switch"}]
    BY <1>1, RedisFailsType DEF Store
  <2>2. cache' = cache \/ cache' = [cache EXCEPT ![ask[r].query] = result[r]]
    BY <1>1 DEF Store
  <2>3. cache' \in [Queries -> Results \cup {"none"}]
    <3>1. CASE cache' = cache
      BY <3>1 DEF TypeOK
    <3>2. CASE cache' = [cache EXCEPT ![ask[r].query] = result[r]]
      BY <3>2 DEF TypeOK
    <3>3. QED
      BY <2>2, <3>1, <3>2
  <2>4. pc' \in [Requests -> PCs]
    BY <1>1, GoType DEF Store, PCs
  <2>5. UNCHANGED <<count, switch, given, reply, spent, late, trouble>>
    BY <1>1 DEF Store
  <2>6. QED
    BY <2>1, <2>3, <2>4, <2>5 DEF TypeOK, given, reply
<1>2. CASE Book(r) \/ BookFails(r)
  <2>1. pc' \in [Requests -> PCs]
    BY <1>2, GoType DEF Book, BookFails, PCs
  <2>2. status' \in [Requests -> {0, 200, 429, 500}]
    <3>1. CASE Book(r)
      BY <3>1 DEF Book, TypeOK
    <3>2. CASE BookFails(r)
      BY <3>2 DEF BookFails, TypeOK
    <3>3. QED
      BY <1>2, <3>1, <3>2
  <2>3. UNCHANGED <<redis, given, result, said, rows, history>>
    BY <1>2 DEF Book, BookFails
  <2>4. QED
    BY <2>1, <2>2, <2>3 DEF TypeOK, redis, given, history
<1>3. CASE Commit(r)
  <2>1. pc' \in [Requests -> PCs]
    BY <1>3, GoType DEF Commit, PCs
  <2>2. /\ rows' = rows \/ rows' = [rows EXCEPT ![r] = result[r]]
        /\ UNCHANGED <<redis, given, result, said, status, history>>
    BY <1>3 DEF Commit
  <2>3. rows' \in [Requests -> Results \cup {"none"}]
    <3>1. CASE rows' = rows
      BY <3>1 DEF TypeOK
    <3>2. CASE rows' = [rows EXCEPT ![r] = result[r]]
      BY <3>2 DEF TypeOK
    <3>3. QED
      BY <2>2, <3>1, <3>2
  <2>4. QED
    BY <2>1, <2>2, <2>3 DEF TypeOK, redis, given, history
<1>4. QED
  BY <1>1, <1>2, <1>3

(* So do the operator's steps and those of Redis.                          *)
LEMMA OutsideTypes ==
    ASSUME TypeOK, count' \in 0..Cardinality(Requests),
           \/ SwitchOff \/ SwitchOn \/ EvictCount
           \/ \E q \in Queries : Forget(q)
    PROVE  TypeOK'
<1>0. CASE SwitchOff
  BY <1>0 DEF SwitchOff, TypeOK, given, reply
<1>1. CASE SwitchOn
  BY <1>1 DEF SwitchOn, TypeOK, given, reply
<1>2. CASE EvictCount
  <2>1. blind' \in [Requests -> SUBSET {"gate", "switch"}]
    BY <1>2 DEF EvictCount, TypeOK
  <2>2. QED
    BY <1>2, <2>1 DEF EvictCount, TypeOK, given, reply
<1>3. ASSUME NEW q \in Queries, Forget(q) PROVE TypeOK'
  BY <1>3 DEF Forget, TypeOK, given, reply, history
<1>4. QED
  BY <1>0, <1>1, <1>2, <1>3

-----------------------------------------------------------------------------
(* What Conclude does to the request and leaves of the others.             *)
LEMMA ConcludeDoes ==
    ASSUME TypeOK, NEW r \in Requests, NEW res, Conclude(r, res)
    PROVE  /\ Structured(r) =>
                /\ pc'[r] = "store" /\ result'[r] = res
                /\ said'[r] = said[r] /\ status'[r] = status[r]
           /\ ~Structured(r) =>
                /\ pc'[r] = "done" /\ result'[r] = result[r] /\ status'[r] = 200
                /\ said'[r] = Append(said[r],
                                 IF res = "refusal" THEN "refusal" ELSE "notice")
           /\ \A s \in Requests : s # r =>
                /\ pc'[s] = pc[s] /\ result'[s] = result[s]
                /\ said'[s] = said[s] /\ status'[s] = status[s]
<1>1. CASE Structured(r)
  <2>1. /\ Go(r, "store") /\ result' = [result EXCEPT ![r] = res]
        /\ UNCHANGED <<said, status>>
    BY <1>1 DEF Conclude
  <2>2. QED
    BY <1>1, <2>1 DEF Go, TypeOK
<1>2. CASE ~Structured(r)
  <2>1. /\ Go(r, "done") /\ status' = [status EXCEPT ![r] = 200] /\ UNCHANGED result
        /\ Say(r, IF res = "refusal" THEN "refusal" ELSE "notice")
    BY <1>2 DEF Conclude
  <2>2. QED
    BY <1>2, <2>1 DEF Go, Say, TypeOK
<1>3. QED
  BY <1>1, <1>2

(* A command of Redis that fails is held against the request alone.        *)
LEMMA RedisFailsDoes ==
    ASSUME TypeOK, NEW r \in Requests, UNCHANGED blind \/ RedisFails(r)
    PROVE  /\ blind[r] \subseteq blind'[r]
           /\ RedisFails(r) => {pc[r]} \cap {"gate", "switch"} \subseteq blind'[r]
           /\ \A s \in Requests : s # r => blind'[s] = blind[s]
<1>1. CASE UNCHANGED blind /\ ~RedisFails(r)
  BY <1>1
<1>2. CASE RedisFails(r)
  <2>1. blind' = [blind EXCEPT ![r] = @ \cup ({pc[r]} \cap {"gate", "switch"})]
    BY <1>2 DEF RedisFails
  <2>2. QED
    BY <2>1 DEF TypeOK
<1>3. QED
  BY <1>1, <1>2

(* The part of the state that is a request's own is the same after a step. *)
Same(s) ==
    /\ pc'[s] = pc[s] /\ result'[s] = result[s] /\ said'[s] = said[s]
    /\ status'[s] = status[s] /\ rows'[s] = rows[s] /\ spent'[s] = spent[s]
    /\ late'[s] = late[s] /\ blind'[s] = blind[s] /\ trouble'[s] = trouble[s]

(* A request's step changes nothing of another request, nor the switch,    *)
(* nor what is settled beforehand.                                         *)
LEMMA OthersSame ==
    ASSUME TypeOK, NEW r \in Requests, NEW s \in Requests, s # r,
           Arrive(r) \/ RequestStep(r) \/ Token(r)
    PROVE  Same(s) /\ UNCHANGED <<switch, given>>
<1>1. CASE Arrive(r)
  BY <1>1 DEF Arrive, Same, Go, TypeOK, redis, reply
<1>2. CASE Gate(r)
  BY <1>2 DEF Gate, Same, Go, TypeOK, history
<1>3. CASE GateBlind(r) \/ Miss(r)
  <2>1. blind'[s] = blind[s]
    BY <1>3, RedisFailsDoes DEF GateBlind, Miss
  <2>2. QED
    BY <1>3, <2>1 DEF GateBlind, Miss, Same, Go, TypeOK, redis, reply
<1>4. CASE Hit(r)
  BY <1>4 DEF Hit, Same, Go, TypeOK, redis, history
<1>5. CASE ReadSwitch(r)
  <2>1. blind'[s] = blind[s]
    BY <1>5, RedisFailsDoes DEF ReadSwitch
  <2>2. /\ pc'[s] = pc[s] /\ result'[s] = result[s] /\ said'[s] = said[s]
        /\ status'[s] = status[s]
    <3>1. CASE Conclude(r, "popular") \/ Conclude(r, "refusal")
      BY <3>1, ConcludeDoes
    <3>2. CASE Go(r, "retrieve") /\ UNCHANGED <<result, said, status>>
      BY <3>2 DEF Go, TypeOK
    <3>3. QED
      BY <1>5, <3>1, <3>2 DEF ReadSwitch
  <2>3. trouble'[s] = trouble[s]
    BY <1>5 DEF ReadSwitch, TypeOK
  <2>4. QED
    BY <1>5, <2>1, <2>2, <2>3 DEF ReadSwitch, Same, redis
<1>6. CASE Retrieved(r) \/ RetrievalRaises(r)
  BY <1>6 DEF Retrieved, RetrievalRaises, Same, Go, TypeOK, redis, reply, history
<1>7. CASE OutOfScope(r)
  BY <1>7, ConcludeDoes DEF OutOfScope, Same, redis, history
<1>8. ASSUME NEW res, NotRetrieved(r, res)
      PROVE  Same(s) /\ UNCHANGED <<switch, given>>
  BY <1>8, ConcludeDoes DEF NotRetrieved, Same, redis, TypeOK
<1>9. ASSUME NEW res, Generated(r, res)
      PROVE  Same(s) /\ UNCHANGED <<switch, given>>
  BY <1>9, ConcludeDoes DEF Generated, Same, redis, TypeOK
<1>10. CASE StreamEnds(r)
  BY <1>10 DEF StreamEnds, Same, Go, Say, TypeOK, redis
<1>11. CASE Token(r)
  BY <1>11 DEF Token, Same, Say, TypeOK, redis, history
<1>12. CASE Store(r)
  <2>1. blind'[s] = blind[s]
    BY <1>12, RedisFailsDoes DEF Store
  <2>2. QED
    BY <1>12, <2>1 DEF Store, Same, Go, TypeOK, reply
<1>13. CASE Book(r) \/ BookFails(r) \/ Commit(r)
  BY <1>13 DEF Book, BookFails, Commit, Same, Go, TypeOK, redis, history
<1>14. QED
  BY <1>1, <1>2, <1>3, <1>4, <1>5, <1>6, <1>7, <1>8, <1>9, <1>10, <1>11, <1>12,
     <1>13 DEF RequestStep

-----------------------------------------------------------------------------
(* A stream that had said nothing has now said one event.                  *)
LEMMA OneEvent ==
    ASSUME NEW e
    PROVE  /\ Len(Append(<< >>, e)) = 1
           /\ \A i \in 1..Len(Append(<< >>, e)) : Append(<< >>, e)[i] = e
  OBVIOUS

(* An answer given before, or instead of, a generation, or by a structured *)
(* one.                                                                    *)
LEMMA ConcludeKeeps ==
    ASSUME TypeOK, NEW r \in Requests, RequestOK(r),
           NEW res \in Results, Conclude(r, res), UNCHANGED <<switch, given>>,
           pc[r] \in {"switch", "retrieve", "generate"},
           pc[r] = "generate" => Structured(r),
           res = "items" => pc[r] = "generate",
           res \in Degraded => trouble'[r],
           spent'[r] = spent[r], late'[r] = late[r], blind[r] \subseteq blind'[r]
    PROVE  RequestOK(r)'
<1>1. /\ said[r] = << >> /\ result[r] = "none"
      /\ status[r] # 429
  BY DEF RequestOK, PlaceOK
<1>2. /\ pc'[r] = "store" \/ pc'[r] = "done"
      /\ Structured(r)' = Structured(r)
  BY ConcludeDoes DEF given, Structured
<1>3. CASE Structured(r)
  <2>1. /\ pc'[r] = "store" /\ result'[r] = res /\ said'[r] = << >>
        /\ status'[r] # 429
    BY <1>1, <1>3, ConcludeDoes
  <2>2. PlaceOK(r)'
    BY <2>1 DEF PlaceOK
  <2>3. TroubleOK(r)'
    BY <2>1 DEF TroubleOK
  <2>4. SwitchOK(r)'
    BY <2>1 DEF RequestOK, SwitchOK
  <2>5. AbsentOK(r)'
    BY <2>1 DEF RequestOK, AbsentOK, given
  <2>6. QED
    BY <2>2, <2>3, <2>4, <2>5 DEF RequestOK
<1>4. CASE ~Structured(r)
  <2> DEFINE e == IF res = "refusal" THEN "refusal" ELSE "notice"
  <2>1. /\ pc'[r] = "done" /\ result'[r] = "none" /\ status'[r] = 200
        /\ said'[r] = Append(<< >>, e)
    BY <1>1, <1>4, ConcludeDoes
  <2>2. \A i \in 1..Len(said'[r]) : said'[r][i] = e
    BY <2>1, OneEvent
  <2>3. e = "notice" => trouble'[r]
    BY <1>4 DEF Results, Degraded
  <2>4. PlaceOK(r)'
    BY <1>2, <1>4, <2>1 DEF PlaceOK
  <2>5. TroubleOK(r)'
    BY <2>1, <2>2, <2>3 DEF TroubleOK, Degraded
  <2>6. SwitchOK(r)'
    BY <2>1 DEF RequestOK, SwitchOK
  <2>7. AbsentOK(r)'
    BY <2>1, <2>2 DEF RequestOK, AbsentOK, given
  <2>8. QED
    BY <2>4, <2>5, <2>6, <2>7 DEF RequestOK
<1>5. QED
  BY <1>3, <1>4

(* The switch, read, lets a request on only when it is not off, and the    *)
(* catalogue lets it on only when it has the title.                        *)
LEMMA ReadSwitchKeeps ==
    ASSUME TypeOK, NEW r \in Requests, RequestOK(r), ReadSwitch(r)
    PROVE  RequestOK(r)'
<1>1. /\ pc[r] = "switch" /\ UNCHANGED <<switch, given>>
      /\ spent'[r] = spent[r] /\ late'[r] = late[r] /\ rows'[r] = rows[r]
      /\ UNCHANGED blind \/ RedisFails(r)
  BY DEF ReadSwitch, redis
<1>2. blind[r] \subseteq blind'[r]
  BY <1>1, RedisFailsDoes
<1>3. ASSUME Conclude(r, "popular"), trouble' = [trouble EXCEPT ![r] = TRUE]
      PROVE  RequestOK(r)'
  <2>1. trouble'[r] /\ "popular" \in Results
    BY <1>3 DEF TypeOK, Results
  <2>2. QED
    BY <1>1, <1>2, <1>3, <2>1, ConcludeKeeps
<1>4. ASSUME Conclude(r, "refusal") PROVE RequestOK(r)'
  <2>1. "refusal" \in Results /\ "refusal" \notin Degraded
    BY DEF Results, Degraded
  <2>2. QED
    BY <1>1, <1>2, <1>4, <2>1, ConcludeKeeps
<1>5. ASSUME NEW value \in {switch, "absent"},
             \/ value = switch /\ UNCHANGED blind
             \/ value = "absent" /\ RedisFails(r),
             Enabled(value), ~NamedButAbsent(r), Go(r, "retrieve"),
             UNCHANGED <<result, said, status, trouble>>
      PROVE  RequestOK(r)'
  <2>1. pc'[r] = "retrieve"
    BY <1>5 DEF Go, TypeOK
  <2>2. PlaceOK(r)'
    BY <1>1, <1>5, <2>1 DEF RequestOK, PlaceOK, Structured, given
  <2>3. TroubleOK(r)'
    BY <1>5 DEF RequestOK, TroubleOK
  <2>4. SwitchOK(r)'
    <3>1. SUFFICES ASSUME late[r] PROVE switch = "off" /\ "switch" \in blind'[r]
      BY <1>1 DEF SwitchOK
    <3>2. switch = "off"
      BY <3>1 DEF RequestOK, SwitchOK
    <3>3. RedisFails(r)
      BY <1>5, <3>2 DEF Enabled
    <3>4. QED
      BY <1>1, <3>2, <3>3, RedisFailsDoes
  <2>5. AbsentOK(r)'
    BY <1>1, <1>5 DEF AbsentOK, NamedButAbsent, given
  <2>6. QED
    BY <2>2, <2>3, <2>4, <2>5 DEF RequestOK
<1>6. QED
  BY <1>3, <1>4, <1>5 DEF ReadSwitch

(* Arriving, and being counted, refused or waved through by the quota.     *)
LEMMA GateKeeps ==
    ASSUME TypeOK, NEW r \in Requests, RequestOK(r),
           Arrive(r) \/ Gate(r) \/ GateBlind(r) \/ Miss(r)
    PROVE  RequestOK(r)'
<1>1. /\ pc[r] \in {"idle", "gate", "lookup"} /\ pc'[r] # "retrieve"
      /\ pc'[r] \in {"gate", "lookup", "switch", "done"}
      /\ pc[r] = "lookup" => pc'[r] # "gate"
      /\ result'[r] = result[r] /\ said'[r] = said[r] /\ rows'[r] = rows[r]
      /\ spent'[r] = spent[r] /\ trouble'[r] = trouble[r]
      /\ UNCHANGED <<given, switch>>
      /\ status'[r] = 429 => status[r] = 429 \/ (pc[r] = "gate" /\ pc'[r] = "done")
      /\ late'[r] => late[r] \/ switch = "off"
  <2>1. CASE Arrive(r)
    BY <2>1 DEF Arrive, Go, TypeOK, redis, reply
  <2>2. CASE Gate(r)
    BY <2>2 DEF Gate, Go, TypeOK, history
  <2>3. CASE GateBlind(r) \/ Miss(r)
    BY <2>3 DEF GateBlind, Miss, Go, TypeOK, reply, redis
  <2>4. QED
    BY <2>1, <2>2, <2>3
<1>2. /\ said[r] = << >> /\ result[r] = "none" /\ ~spent[r] /\ status[r] # 429
      /\ pc[r] \in {"idle", "gate"} => rows[r] = "none"
  BY <1>1 DEF RequestOK, PlaceOK
<1>3. PlaceOK(r)'
  <2>1. said'[r] = << >> /\ result'[r] = "none" /\ ~spent'[r]
    BY <1>1, <1>2
  <2>2. pc'[r] \in {"idle", "gate"} \/ status'[r] = 429 => rows'[r] = "none"
    BY <1>1, <1>2
  <2>3. status'[r] = 429 => pc'[r] = "done"
    BY <1>1, <1>2
  <2>4. QED
    BY <1>1, <2>1, <2>2, <2>3 DEF PlaceOK
<1>4. TroubleOK(r)'
  BY <1>1 DEF RequestOK, TroubleOK
<1>5. SwitchOK(r)'
  <2>1. ~spent'[r] /\ pc'[r] # "retrieve"
    BY <1>1, <1>2
  <2>2. late'[r] => switch' = "off"
    BY <1>1 DEF RequestOK, SwitchOK
  <2>3. QED
    BY <2>1, <2>2 DEF SwitchOK
<1>6. AbsentOK(r)'
  BY <1>1 DEF RequestOK, AbsentOK, given
<1>7. QED
  BY <1>3, <1>4, <1>5, <1>6 DEF RequestOK

(* What the cache has is fit to be served to anybody who asks.             *)
LEMMA HitKeeps ==
    ASSUME TypeOK, CacheOK, NEW r \in Requests, RequestOK(r), Hit(r)
    PROVE  RequestOK(r)'
<1> DEFINE found == cache[ask[r].query]
<1>1. /\ pc[r] = "lookup" /\ found # "none" /\ ask[r].query \in Queries
      /\ UNCHANGED <<switch, given>> /\ rows'[r] = rows[r] /\ spent'[r] = spent[r]
      /\ late'[r] = late[r] /\ blind'[r] = blind[r] /\ trouble'[r] = trouble[r]
  BY DEF Hit, redis, history, TypeOK
<1>2. /\ found \in Results /\ found \notin Degraded
      /\ catalog /\ ask[r].query \in Absent => found = "refusal"
  BY <1>1 DEF CacheOK, TypeOK, Results, Degraded
<1>3. said[r] = << >> /\ result[r] = "none" /\ ~spent[r] /\ status[r] # 429
  BY <1>1 DEF RequestOK, PlaceOK
<1>4. Structured(r)' = Structured(r)
  BY <1>1 DEF given, Structured
<1>5. CASE Structured(r)
  <2>1. pc'[r] = "book" /\ result'[r] = found /\ UNCHANGED <<said, status>>
    BY <1>5 DEF Hit, Go, TypeOK
  <2>2. PlaceOK(r)'
    BY <1>3, <2>1 DEF PlaceOK
  <2>3. TroubleOK(r)'
    BY <1>2, <1>3, <2>1 DEF TroubleOK
  <2>4. SwitchOK(r)' /\ AbsentOK(r)'
    BY <1>1, <1>2, <1>3, <2>1 DEF RequestOK, SwitchOK, AbsentOK, given
  <2>5. QED
    BY <2>2, <2>3, <2>4 DEF RequestOK
<1>6. CASE ~Structured(r)
  <2>1. /\ pc'[r] = "done" /\ status'[r] = 200 /\ UNCHANGED result
        /\ said'[r] = IF found = "refusal" THEN << >> ELSE <<"item">>
    BY <1>6 DEF Hit, Go, TypeOK
  <2>2. \A i \in 1..Len(said'[r]) : said'[r][i] = "item"
    BY <2>1
  <2>3. PlaceOK(r)'
    BY <1>4, <1>6, <2>1 DEF PlaceOK
  <2>4. TroubleOK(r)'
    BY <1>3, <2>1, <2>2 DEF TroubleOK, Degraded
  <2>5. SwitchOK(r)'
    BY <1>1, <1>3, <2>1 DEF RequestOK, SwitchOK
  <2>6. AbsentOK(r)'
    <3>1. SUFFICES ASSUME catalog, ask[r].query \in Absent PROVE said'[r] = << >>
      BY <1>1, <1>3, <2>1 DEF AbsentOK, given
    <3>2. QED
      BY <1>2, <2>1, <3>1
  <2>7. QED
    BY <2>3, <2>4, <2>5, <2>6 DEF RequestOK
<1>7. QED
  BY <1>5, <1>6

(* The retrieval's outcomes and the generation.                            *)
LEMMA ServiceKeeps ==
    ASSUME TypeOK, NEW r \in Requests, RequestOK(r),
           \/ Retrieved(r) \/ OutOfScope(r) \/ RetrievalRaises(r)
           \/ \E res \in Degraded : NotRetrieved(r, res)
           \/ \E res \in Grounded \cup {"refusal", "popular"} : Generated(r, res)
           \/ StreamEnds(r) \/ Token(r)
    PROVE  RequestOK(r)'
<1>1. CASE Retrieved(r)
  <2>1. /\ pc[r] = "retrieve" /\ pc'[r] = "generate" /\ spent'[r] = TRUE
        /\ UNCHANGED <<redis, given, reply, late, blind, trouble>>
    BY <1>1 DEF Retrieved, Go, TypeOK
  <2>2. QED
    BY <2>1 DEF RequestOK, PlaceOK, TroubleOK, SwitchOK, AbsentOK, Structured,
                redis, given, reply
<1>2. CASE OutOfScope(r)
  <2>1. /\ pc[r] = "retrieve" /\ Conclude(r, "refusal") /\ "refusal" \in Results
        /\ "refusal" \notin Degraded /\ UNCHANGED <<switch, given, history>>
    BY <1>2 DEF OutOfScope, Results, Degraded, redis
  <2>2. QED
    BY <2>1, ConcludeKeeps DEF history
<1>3. CASE RetrievalRaises(r)
  <2>1. /\ pc[r] = "retrieve" /\ pc'[r] = "done" /\ status'[r] \in {200, 500}
        /\ UNCHANGED <<redis, given, result, said, rows, history>>
    BY <1>3 DEF RetrievalRaises, Go, TypeOK
  <2>2. QED
    BY <2>1 DEF RequestOK, PlaceOK, TroubleOK, SwitchOK, AbsentOK, Structured,
                redis, given, history
<1>4. ASSUME NEW res \in Degraded, NotRetrieved(r, res) PROVE RequestOK(r)'
  <2>1. /\ pc[r] = "retrieve" /\ Conclude(r, res) /\ res \in Results
        /\ res # "items" /\ UNCHANGED <<switch, given, spent, late, blind>>
        /\ trouble'[r]
    BY <1>4 DEF NotRetrieved, Results, Degraded, redis, TypeOK
  <2>2. QED
    BY <2>1, ConcludeKeeps
<1>5. ASSUME NEW res \in Grounded \cup {"refusal", "popular"}, Generated(r, res)
      PROVE  RequestOK(r)'
  <2>1. /\ pc[r] = "generate" /\ Conclude(r, res) /\ res \in Results
        /\ Structured(r) /\ UNCHANGED <<switch, given, spent, late, blind>>
    BY <1>5 DEF Generated, Results, Grounded, redis
  <2>2. res \in Degraded => trouble'[r]
    <3>1. trouble'[r] = (res \in Degraded)
      BY <1>5 DEF Generated, TypeOK
    <3>2. QED
      BY <3>1
  <2>3. QED
    BY <2>1, <2>2, ConcludeKeeps
<1>6. CASE StreamEnds(r)
  <2>1. /\ pc[r] = "generate" /\ pc'[r] = "done" /\ status'[r] = 200
        /\ UNCHANGED <<redis, given, result, rows, spent, late, blind>>
        /\ ~Structured(r)
    BY <1>6 DEF StreamEnds, Go, TypeOK
  <2>2. trouble'[r] \/ UNCHANGED <<said, trouble>>
    BY <1>6 DEF StreamEnds, TypeOK
  <2>3. PlaceOK(r)' /\ SwitchOK(r)' /\ AbsentOK(r)'
    BY <2>1 DEF RequestOK, PlaceOK, SwitchOK, AbsentOK, Structured, redis, given
  <2>4. TroubleOK(r)'
    BY <2>1, <2>2 DEF RequestOK, TroubleOK
  <2>5. QED
    BY <2>3, <2>4 DEF RequestOK
<1>7. CASE Token(r)
  <2>1. /\ pc[r] = "generate" /\ ~Structured(r) /\ said'[r] = Append(<< >>, "token")
        /\ UNCHANGED <<redis, pc, given, result, status, rows, history>>
    BY <1>7 DEF Token, Say, TypeOK
  <2>2. \A i \in 1..Len(said'[r]) : said'[r][i] = "token"
    BY <2>1, OneEvent
  <2>3. PlaceOK(r)' /\ SwitchOK(r)' /\ AbsentOK(r)'
    BY <2>1 DEF RequestOK, PlaceOK, SwitchOK, AbsentOK, Structured, redis, given,
                history
  <2>4. TroubleOK(r)'
    BY <2>1, <2>2 DEF RequestOK, TroubleOK, history
  <2>5. QED
    BY <2>3, <2>4 DEF RequestOK
<1>8. QED
  BY <1>1, <1>2, <1>3, <1>4, <1>5, <1>6, <1>7

(* The bookkeeping changes no answer.                                      *)
LEMMA BookKeeps ==
    ASSUME TypeOK, NEW r \in Requests, RequestOK(r),
           Store(r) \/ Book(r) \/ BookFails(r) \/ Commit(r)
    PROVE  RequestOK(r)'
<1>1. /\ pc[r] \in {"store", "book", "commit"} /\ pc'[r] \in {"book", "commit", "done"}
      /\ result'[r] = result[r] /\ said'[r] = said[r]
      /\ spent'[r] = spent[r] /\ late'[r] = late[r] /\ trouble'[r] = trouble[r]
      /\ UNCHANGED <<switch, given>>
      /\ status'[r] = 429 => status[r] = 429
  <2>1. CASE Store(r)
    BY <2>1 DEF Store, Go, TypeOK, reply
  <2>2. CASE Book(r) \/ BookFails(r)
    BY <2>2 DEF Book, BookFails, Go, TypeOK, redis, history
  <2>3. CASE Commit(r)
    BY <2>3 DEF Commit, Go, TypeOK, redis, history
  <2>4. QED
    BY <2>1, <2>2, <2>3
<1>2. blind[r] \subseteq blind'[r]
  <2>1. UNCHANGED blind \/ RedisFails(r)
    BY DEF Store, Book, BookFails, Commit, history
  <2>2. QED
    BY <2>1, RedisFailsDoes
<1>3. PlaceOK(r)'
  BY <1>1 DEF RequestOK, PlaceOK, Structured, given
<1>4. TroubleOK(r)'
  BY <1>1 DEF RequestOK, TroubleOK
<1>5. SwitchOK(r)'
  BY <1>1, <1>2 DEF RequestOK, SwitchOK
<1>6. AbsentOK(r)'
  BY <1>1 DEF RequestOK, AbsentOK, given
<1>7. QED
  BY <1>3, <1>4, <1>5, <1>6 DEF RequestOK

(* A request's step keeps what is known of it.                             *)
LEMMA RequestKeeps ==
    ASSUME TypeOK, CacheOK, NEW r \in Requests, RequestOK(r),
           Arrive(r) \/ RequestStep(r) \/ Token(r)
    PROVE  RequestOK(r)'
<1>1. CASE Arrive(r) \/ Gate(r) \/ GateBlind(r) \/ Miss(r)
  BY <1>1, GateKeeps
<1>2. CASE Hit(r)
  BY <1>2, HitKeeps
<1>3. CASE ReadSwitch(r)
  BY <1>3, ReadSwitchKeeps
<1>4. CASE \/ Retrieved(r) \/ OutOfScope(r) \/ RetrievalRaises(r)
           \/ \E res \in Degraded : NotRetrieved(r, res)
           \/ \E res \in Grounded \cup {"refusal", "popular"} : Generated(r, res)
           \/ StreamEnds(r) \/ Token(r)
  BY <1>4, ServiceKeeps
<1>5. CASE Store(r) \/ Book(r) \/ BookFails(r) \/ Commit(r)
  BY <1>5, BookKeeps
<1>6. QED
  BY <1>1, <1>2, <1>3, <1>4, <1>5 DEF RequestStep

(* Only Store writes to the cache, and what it writes is the request's own *)
(* answer, if that is not degraded.                                        *)
LEMMA CacheKeeps ==
    ASSUME TypeOK, CacheOK, NEW r \in Requests, RequestOK(r),
           Arrive(r) \/ RequestStep(r) \/ Token(r)
    PROVE  CacheOK'
<1>1. UNCHANGED catalog
  BY DEF Arrive, RequestStep, Gate, GateBlind, Hit, Miss, ReadSwitch, Retrieved,
         OutOfScope, RetrievalRaises, NotRetrieved, Generated, StreamEnds,
         Token, Store, Book, BookFails, Commit, given
<1>2. CASE Store(r)
  <2> DEFINE q == ask[r].query
  <2>1. q \in Queries
    BY DEF TypeOK
  <2>2. cache' = cache \/ (cache' = [cache EXCEPT ![q] = result[r]]
                           /\ result[r] \notin Degraded)
    BY <1>2 DEF Store
  <2>3. catalog /\ q \in Absent => result[r] # "items"
    BY DEF RequestOK, AbsentOK
  <2>4. CASE cache' = cache
    BY <1>1, <2>4 DEF CacheOK
  <2>5. CASE cache' = [cache EXCEPT ![q] = result[r]] /\ result[r] \notin Degraded
    BY <1>1, <2>1, <2>3, <2>5 DEF CacheOK, TypeOK
  <2>6. QED
    BY <2>2, <2>4, <2>5
<1>3. CASE ~Store(r)
  <2>1. UNCHANGED cache
    BY <1>3 DEF Arrive, RequestStep, Gate, GateBlind, Hit, Miss, ReadSwitch,
                Retrieved, OutOfScope, RetrievalRaises, NotRetrieved, Generated,
                StreamEnds, Token, Book, BookFails, Commit, redis
  <2>2. QED
    BY <1>1, <2>1 DEF CacheOK
<1>4. QED
  BY <1>2, <1>3

(* The operator, Redis and the clock change no request but in what is held *)
(* against Redis, and forget answers only.                                 *)
LEMMA OutsideKeeps ==
    ASSUME TypeOK, ServiceOK,
           \/ SwitchOff \/ SwitchOn \/ EvictCount
           \/ \E q \in Queries : Forget(q)
    PROVE  ServiceOK'
<1>1. UNCHANGED <<pc, given, reply, spent, trouble>>
  BY DEF SwitchOff, SwitchOn, EvictCount, Forget, history
<1>2. /\ \A q \in Queries : cache'[q] = cache[q] \/ cache'[q] = "none"
  BY DEF SwitchOff, SwitchOn, EvictCount, Forget, TypeOK
<1>3. CacheOK'
  BY <1>1, <1>2 DEF ServiceOK, CacheOK, Degraded, given
<1>4. ASSUME NEW r \in Requests
      PROVE  (late'[r] => late[r] /\ UNCHANGED switch) /\ blind[r] \subseteq blind'[r]
  <2>1. CASE SwitchOff
    BY <2>1 DEF SwitchOff, ServiceOK, RequestOK, SwitchOK
  <2>2. CASE SwitchOn
    BY <2>2 DEF SwitchOn
  <2>3. CASE EvictCount
    BY <2>3 DEF EvictCount
  <2>4. CASE \E q \in Queries : Forget(q)
    BY <2>4 DEF Forget, history
  <2>5. QED
    BY <2>1, <2>2, <2>3, <2>4
<1>5. ASSUME NEW r \in Requests PROVE RequestOK(r)'
  <2>1. PlaceOK(r)' /\ TroubleOK(r)' /\ AbsentOK(r)'
    BY <1>1 DEF ServiceOK, RequestOK, PlaceOK, TroubleOK, AbsentOK, Structured,
                given, reply
  <2>2. SwitchOK(r)'
    BY <1>1, <1>4 DEF ServiceOK, RequestOK, SwitchOK
  <2>3. QED
    BY <2>1, <2>2 DEF RequestOK
<1>6. QED
  BY <1>3, <1>5 DEF ServiceOK

-----------------------------------------------------------------------------
(* Cardinalities of sets of requests, which are finite.                    *)
LEMMA RequestSets ==
    ASSUME NEW A \in SUBSET Requests, NEW B \in SUBSET Requests
    PROVE  /\ Cardinality(A) \in Nat
           /\ A \subseteq B => Cardinality(A) <= Cardinality(B)
           /\ \A r \in Requests : A \subseteq B \cup {r} =>
                 Cardinality(A) <= Cardinality(B) + 1
           /\ \A r \in Requests : r \notin A /\ B = A \cup {r} =>
                 Cardinality(B) = Cardinality(A) + 1
<1>1. IsFiniteSet(A) /\ IsFiniteSet(B)
  BY RecommendAssumption, FS_Subset
<1>2. Cardinality(A) \in Nat /\ Cardinality(B) \in Nat
  BY <1>1, FS_CardinalityType
<1>3. ASSUME A \subseteq B PROVE Cardinality(A) <= Cardinality(B)
  BY <1>1, <1>3, FS_Subset
<1>4. ASSUME NEW r \in Requests, A \subseteq B \cup {r}
      PROVE  Cardinality(A) <= Cardinality(B) + 1
  <2>1. /\ IsFiniteSet(B \cup {r})
        /\ Cardinality(B \cup {r}) = Cardinality(B) \/
           Cardinality(B \cup {r}) = Cardinality(B) + 1
    BY <1>1, FS_AddElement
  <2>2. Cardinality(A) <= Cardinality(B \cup {r})
    BY <1>4, <2>1, FS_Subset
  <2>3. QED
    BY <1>2, <2>1, <2>2
<1>5. ASSUME NEW r \in Requests, r \notin A, B = A \cup {r}
      PROVE  Cardinality(B) = Cardinality(A) + 1
  BY <1>1, <1>5, FS_AddElement
<1>6. QED
  BY <1>2, <1>3, <1>4, <1>5

(* Only the gate lets a request past it: any other step of a request keeps *)
(* who is past it, and none becomes counted or admitted by it.             *)
LEMMA NoGate ==
    ASSUME TypeOK, NEW r \in Requests, PlaceOK(r),
           Arrive(r) \/ RequestStep(r) \/ Token(r), ~Gate(r), ~GateBlind(r)
    PROVE  /\ count' = count /\ Past' = Past
           /\ Counted' \subseteq Counted /\ Admitted' \subseteq Admitted
<1>1. \A s \in Requests : s # r => Same(s)
  BY OthersSame
<1>2. UNCHANGED blind \/ RedisFails(r)
  BY DEF Arrive, RequestStep, Hit, Miss, ReadSwitch, Retrieved, OutOfScope,
         RetrievalRaises, NotRetrieved, Generated, StreamEnds, Token, Store, Book,
         BookFails, Commit, history
<1>3. count' = count
  BY DEF Arrive, RequestStep, Hit, Miss, ReadSwitch, Retrieved, OutOfScope,
         RetrievalRaises, NotRetrieved, Generated, StreamEnds, Token, Store, Book,
         BookFails, Commit, redis
<1>4. /\ pc[r] # "done" /\ pc[r] # "gate"
      /\ pc[r] = "idle" <=> pc'[r] \in {"idle", "gate"}
  <2>1. CASE Arrive(r)
    BY <2>1 DEF Arrive, Go, TypeOK
  <2>2. CASE Hit(r) \/ Miss(r)
    BY <2>2 DEF Hit, Miss, Go, TypeOK
  <2>3. ASSUME NEW res, Conclude(r, res), pc[r] \in {"switch", "retrieve", "generate"}
        PROVE  pc[r] # "idle" /\ pc'[r] \notin {"idle", "gate"}
    BY <2>3, ConcludeDoes
  <2>4. CASE ReadSwitch(r)
    <3>1. CASE Conclude(r, "popular") \/ Conclude(r, "refusal")
      BY <2>3, <2>4, <3>1 DEF ReadSwitch
    <3>2. CASE Go(r, "retrieve")
      BY <2>4, <3>2 DEF ReadSwitch, Go, TypeOK
    <3>3. QED
      BY <2>4, <3>1, <3>2 DEF ReadSwitch
  <2>5. CASE Retrieved(r) \/ RetrievalRaises(r)
    BY <2>5 DEF Retrieved, RetrievalRaises, Go, TypeOK
  <2>6. CASE OutOfScope(r) \/ (\E res \in Degraded : NotRetrieved(r, res))
             \/ (\E res \in Grounded \cup {"refusal", "popular"} : Generated(r, res))
    BY <2>3, <2>6 DEF OutOfScope, NotRetrieved, Generated
  <2>7. CASE StreamEnds(r) \/ Token(r)
    BY <2>7 DEF StreamEnds, Token, Go, TypeOK
  <2>8. CASE Store(r) \/ Book(r) \/ BookFails(r) \/ Commit(r)
    BY <2>8 DEF Store, Book, BookFails, Commit, Go, TypeOK
  <2>9. QED
    BY <2>1, <2>2, <2>4, <2>5, <2>6, <2>7, <2>8 DEF RequestStep
<1>5. status[r] # 429 /\ blind[r] \subseteq blind'[r]
  BY <1>2, <1>4, RedisFailsDoes DEF PlaceOK
<1>6. Past' = Past
  BY <1>1, <1>4 DEF Past, Same
<1>7. Counted' \subseteq Counted
  BY <1>1, <1>4, <1>5 DEF Counted, Same
<1>8. Admitted' \subseteq Admitted
  BY <1>1, <1>4, <1>5 DEF Admitted, Same
<1>9. QED
  BY <1>3, <1>6, <1>7, <1>8

(* What a gate that Redis answers does to the counts.                      *)
LEMMA GateCounts ==
    ASSUME TypeOK, NEW r \in Requests, Gate(r)
    PROVE  /\ count' = count + 1 /\ r \notin Past /\ Past' = Past \cup {r}
           /\ Counted' \subseteq Counted \cup {r}
           /\ Admitted' \subseteq Counted'
           /\ count' > Limit => Admitted' \subseteq Admitted
<1>1. \A s \in Requests : s # r => Same(s)
  BY OthersSame DEF RequestStep
<1>2. /\ count' = count + 1 /\ pc[r] = "gate" /\ blind' = blind
      /\ pc'[r] \in {"done", "lookup"}
  BY DEF Gate, Go, TypeOK, history
<1>3. count' > Limit => status'[r] = 429
  BY DEF Gate, OverLimit, TypeOK
<1>4. QED
  BY <1>1, <1>2, <1>3 DEF Past, Counted, Admitted, Same

(* What a gate that Redis does not answer does to them.                    *)
LEMMA GateBlindCounts ==
    ASSUME TypeOK, NEW r \in Requests, GateBlind(r)
    PROVE  /\ count' \in {count, count + 1}
           /\ r \notin Past /\ Past' = Past \cup {r}
           /\ Counted' \subseteq Counted /\ Admitted' \subseteq Admitted
<1>1. \A s \in Requests : s # r => Same(s)
  BY OthersSame DEF RequestStep
<1>2. /\ count' \in {count, count + 1} /\ pc[r] = "gate" /\ pc'[r] = "lookup"
      /\ RedisFails(r)
  BY DEF GateBlind, Go, TypeOK
<1>3. "gate" \in blind'[r]
  BY <1>2, RedisFailsDoes
<1>4. QED
  BY <1>1, <1>2, <1>3 DEF Past, Counted, Admitted, Same

(* What happens outside the requests counts and admits none.               *)
LEMMA OutsideCounts ==
    ASSUME TypeOK,
           \/ SwitchOff \/ SwitchOn \/ EvictCount
           \/ \E q \in Queries : Forget(q)
    PROVE  /\ Past' = Past /\ Counted' \subseteq Counted /\ Admitted' \subseteq Admitted
           /\ count' = count \/ (count' = 0 /\ Counted' = {})
<1>1. CASE SwitchOff \/ SwitchOn \/ \E q \in Queries : Forget(q)
  BY <1>1 DEF SwitchOff, SwitchOn, Forget, Past, Counted, Admitted, reply, history
<1>2. CASE EvictCount
  <2>1. UNCHANGED <<pc, status>> /\ count' = 0
    BY <1>2 DEF EvictCount, reply
  <2>2. \A r \in Requests : blind[r] \subseteq blind'[r]
    BY <1>2 DEF EvictCount
  <2>3. \A r \in Requests : pc[r] \notin {"idle", "gate"} => "gate" \in blind'[r]
    BY <1>2 DEF EvictCount
  <2>4. QED
    BY <2>1, <2>2, <2>3 DEF Past, Counted, Admitted
<1>3. QED
  BY <1>1, <1>2

(***************************************************************************)
(* The invariant behind the properties.  The parts need each other: the    *)
(* types bound the cardinalities, a request's place says that the gate     *)
(* meets it unspent and that nothing follows a 429.                        *)
(***************************************************************************)
RecommendInv == TypeOK /\ CountOK /\ QuotaOK /\ ServiceOK

(* Every step keeps the counter between those it counted and those that    *)
(* passed, and the admitted within the limit.                              *)
LEMMA CountStep == RecommendInv /\ [Next]_vars => CountOK' /\ QuotaOK'
<1> SUFFICES ASSUME RecommendInv, [Next]_vars PROVE CountOK' /\ QuotaOK'
  OBVIOUS
<1> DEFINE Kept == CountOK' /\ QuotaOK'
<1>1. TypeOK /\ CountOK /\ QuotaOK /\ (\A r \in Requests : PlaceOK(r))
  BY DEF RecommendInv, ServiceOK, RequestOK
<1>2. /\ Past \in SUBSET Requests /\ Past' \in SUBSET Requests
      /\ Counted \in SUBSET Requests /\ Counted' \in SUBSET Requests
      /\ Admitted \in SUBSET Requests /\ Admitted' \in SUBSET Requests
  BY DEF Past, Counted, Admitted
<1>3. /\ Cardinality(Past) \in Nat /\ Cardinality(Past') \in Nat
      /\ Cardinality(Counted) \in Nat /\ Cardinality(Counted') \in Nat
      /\ Cardinality(Admitted) \in Nat /\ Cardinality(Admitted') \in Nat
      /\ Counted' \subseteq Counted => Cardinality(Counted') <= Cardinality(Counted)
      /\ Admitted' \subseteq Admitted => Cardinality(Admitted') <= Cardinality(Admitted)
      /\ Admitted' \subseteq Counted' => Cardinality(Admitted') <= Cardinality(Counted')
  BY <1>2, RequestSets
<1>4. /\ count \in Nat /\ count <= Cardinality(Past) /\ Limit \in Nat
      /\ Cardinality(Counted) <= count /\ Cardinality(Admitted) <= Limit
  BY <1>1, RecommendAssumption DEF CountOK, QuotaOK
<1>5. ASSUME NEW r \in Requests, Arrive(r) \/ RequestStep(r) \/ Token(r),
             ~Gate(r), ~GateBlind(r)
      PROVE  Kept
  <2>1. /\ count' = count /\ Past' = Past
        /\ Counted' \subseteq Counted /\ Admitted' \subseteq Admitted
    BY <1>1, <1>5, NoGate
  <2>2. QED
    BY <1>3, <1>4, <2>1 DEF CountOK, QuotaOK
<1>6. ASSUME NEW r \in Requests, Gate(r) PROVE Kept
  <2>1. /\ count' = count + 1 /\ Cardinality(Past') = Cardinality(Past) + 1
        /\ Cardinality(Counted') <= Cardinality(Counted) + 1
        /\ Admitted' \subseteq Counted'
        /\ count' > Limit => Admitted' \subseteq Admitted
    BY <1>1, <1>2, <1>6, GateCounts, RequestSets
  <2>2. QED
    BY <1>3, <1>4, <2>1 DEF CountOK, QuotaOK
<1>7. ASSUME NEW r \in Requests, GateBlind(r) PROVE Kept
  <2>1. /\ count' \in {count, count + 1}
        /\ Cardinality(Past') = Cardinality(Past) + 1
        /\ Counted' \subseteq Counted /\ Admitted' \subseteq Admitted
    BY <1>1, <1>2, <1>7, GateBlindCounts, RequestSets
  <2>2. QED
    BY <1>3, <1>4, <2>1 DEF CountOK, QuotaOK
<1>8. CASE \/ SwitchOff \/ SwitchOn \/ EvictCount
           \/ \E q \in Queries : Forget(q)
  <2>1. /\ Past' = Past /\ Counted' \subseteq Counted /\ Admitted' \subseteq Admitted
        /\ count' = count \/ (count' = 0 /\ Counted' = {})
    BY <1>1, <1>8, OutsideCounts
  <2>2. Counted' = {} => Cardinality(Counted') = 0
    BY FS_EmptySet
  <2>3. QED
    BY <1>3, <1>4, <2>1, <2>2 DEF CountOK, QuotaOK
<1>9. CASE UNCHANGED vars
  BY <1>1, <1>9
     DEF vars, redis, reply, history, CountOK, QuotaOK, Past, Counted, Admitted
<1>10. QED
  BY <1>5, <1>6, <1>7, <1>8, <1>9 DEF Next, EvictSwitch, RequestStep

(* Every step keeps the types.                                             *)
LEMMA TypeStep == RecommendInv /\ [Next]_vars => TypeOK'
<1> SUFFICES ASSUME RecommendInv, [Next]_vars PROVE TypeOK'
  OBVIOUS
<1>1. TypeOK
  BY DEF RecommendInv
<1>2. count' \in 0..Cardinality(Requests)
  <2>1. count' \in Nat /\ count' <= Cardinality(Past')
    BY CountStep DEF CountOK
  <2>2. Cardinality(Past') <= Cardinality(Requests)
        /\ Cardinality(Past') \in Nat /\ Cardinality(Requests) \in Nat
    BY RequestSets DEF Past
  <2>3. QED
    BY <2>1, <2>2
<1>3. CASE UNCHANGED vars
  BY <1>1, <1>3 DEF vars, redis, given, reply, history, TypeOK
<1>4. CASE \E r \in Requests : Arrive(r) \/ RequestStep(r) \/ Token(r)
  BY <1>1, <1>2, <1>4, EntryTypes, ServiceTypes, BookTypes DEF RequestStep
<1>5. CASE \/ SwitchOff \/ SwitchOn \/ EvictCount
           \/ \E q \in Queries : Forget(q)
  BY <1>1, <1>2, <1>5, OutsideTypes
<1>6. QED
  BY <1>3, <1>4, <1>5 DEF Next, EvictSwitch

(* Every step keeps what is known of the requests and of the cache.        *)
LEMMA ServiceStep == RecommendInv /\ [Next]_vars => ServiceOK'
<1> SUFFICES ASSUME RecommendInv, [Next]_vars PROVE ServiceOK'
  OBVIOUS
<1>1. TypeOK /\ ServiceOK /\ CacheOK /\ \A r \in Requests : RequestOK(r)
  BY DEF RecommendInv, ServiceOK
<1>2. ASSUME NEW r \in Requests, Arrive(r) \/ RequestStep(r) \/ Token(r)
      PROVE  ServiceOK'
  <2>1. CacheOK'
    BY <1>1, <1>2, CacheKeeps
  <2>2. ASSUME NEW s \in Requests, s # r PROVE RequestOK(s)'
    <3>1. Same(s) /\ UNCHANGED <<switch, given>> /\ RequestOK(s)
      BY <1>1, <1>2, <2>2, OthersSame
    <3>2. QED
      BY <3>1 DEF Same, RequestOK, PlaceOK, TroubleOK, SwitchOK, AbsentOK,
                  Structured, given
  <2>3. RequestOK(r)'
    BY <1>1, <1>2, RequestKeeps
  <2>4. QED
    BY <2>1, <2>2, <2>3 DEF ServiceOK
<1>3. CASE \/ SwitchOff \/ SwitchOn \/ EvictCount
           \/ \E q \in Queries : Forget(q)
  BY <1>1, <1>3, OutsideKeeps
<1>4. CASE UNCHANGED vars
  BY <1>1, <1>4 DEF vars, redis, given, reply, history, ServiceOK, CacheOK,
     RequestOK, PlaceOK, TroubleOK, SwitchOK, AbsentOK, Structured
<1>5. QED
  BY <1>2, <1>3, <1>4 DEF Next, EvictSwitch

(* The invariant holds of every behaviour.                                 *)
LEMMA RecommendCorrect == Spec => []RecommendInv
<1>1. Init => RecommendInv
  <2> SUFFICES ASSUME Init PROVE RecommendInv
    OBVIOUS
  <2>1. Past = {} /\ Counted = {} /\ Admitted = {} /\ count = 0
    BY DEF Init, Past, Counted, Admitted
  <2>2. Cardinality({}) = 0 /\ Limit \in Nat
    BY FS_EmptySet, RecommendAssumption
  <2>3. CountOK /\ QuotaOK
    BY <2>1, <2>2 DEF CountOK, QuotaOK
  <2>4. Cardinality(Requests) \in Nat
    BY RequestSets
  <2>5. TypeOK
    <3>1. said \in [Requests -> Seq(Events)]
      BY DEF Init
    <3>2. QED
      BY <2>1, <2>4, <3>1 DEF Init, Loaded, TypeOK, PCs
  <2>6. CacheOK
    BY DEF Init, CacheOK, Degraded
  <2>7. ASSUME NEW r \in Requests PROVE RequestOK(r)
    <3>1. /\ pc[r] = "idle" /\ result[r] = "none" /\ said[r] = << >>
          /\ status[r] = 0 /\ rows[r] = "none" /\ ~spent[r] /\ ~late[r]
      BY DEF Init
    <3>2. 1..Len(said[r]) = {}
      BY <3>1
    <3>3. QED
      BY <3>1, <3>2
         DEF RequestOK, PlaceOK, TroubleOK, SwitchOK, AbsentOK, Degraded
  <2>8. QED
    BY <2>3, <2>5, <2>6, <2>7 DEF RecommendInv, ServiceOK
<1>2. RecommendInv /\ [Next]_vars => RecommendInv'
  BY TypeStep, CountStep, ServiceStep DEF RecommendInv
<1>3. QED
  BY <1>1, <1>2, PTL DEF Spec

(* No behaviour leaves the types declared in TypeOK.                       *)
THEOREM TypeCorrect == Spec => []TypeOK
<1>1. RecommendInv => TypeOK
  BY DEF RecommendInv
<1>2. QED
  BY <1>1, RecommendCorrect, PTL

(* enforce_quota lets at most Limit of the requests Redis counts through,  *)
(* and a refused one leaves nothing behind, however the requests' awaits   *)
(* interleave and whatever Redis fails to answer or forgets.               *)
THEOREM QuotaCorrect == Spec => []QuotaHolds
<1>1. RecommendInv => QuotaHolds
  <2> SUFFICES ASSUME RecommendInv PROVE QuotaHolds
    OBVIOUS
  <2>1. Cardinality(Admitted) <= Limit
    BY DEF RecommendInv, QuotaOK
  <2>2. \A r \in Requests : status[r] = 429 =>
           ~spent[r] /\ result[r] = "none" /\ rows[r] = "none" /\ said[r] = << >>
    BY DEF RecommendInv, ServiceOK, RequestOK, PlaceOK
  <2>3. QED
    BY <2>1, <2>2 DEF QuotaHolds, Admitted
<1>2. QED
  BY <1>1, RecommendCorrect, PTL

(* A degraded answer is never cached and so never outlives the outage, or  *)
(* the thrown switch, that it is due to (CachedRecommendationService).     *)
THEOREM OutageForgotten == Spec => []OutageNotPinned
<1>1. RecommendInv => OutageNotPinned
  BY DEF RecommendInv, ServiceOK, RequestOK, TroubleOK, OutageNotPinned
<1>2. QED
  BY <1>1, RecommendCorrect, PTL

(* A kill switch that is off, and stays off, stops the spending of every   *)
(* request that came under it and that Redis answered.                     *)
THEOREM OffIsOff == Spec => []OffStopsSpending
<1>1. RecommendInv => OffStopsSpending
  BY DEF RecommendInv, ServiceOK, RequestOK, SwitchOK, OffStopsSpending
<1>2. QED
  BY <1>1, RecommendCorrect, PTL

(* An absent title gets no recommendations, from the model or the cache,   *)
(* and costs no generation.                                                *)
THEOREM AbsentIsRefused == Spec => []AbsentRefused
<1>1. RecommendInv => AbsentRefused
  BY DEF RecommendInv, ServiceOK, RequestOK, AbsentOK, AbsentRefused
<1>2. QED
  BY <1>1, RecommendCorrect, PTL
=============================================================================
