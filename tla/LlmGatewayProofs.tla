-------------------------- MODULE LlmGatewayProofs --------------------------
(***************************************************************************)
(* The safety properties of LlmGateway, for any number of requests and of  *)
(* clients, any assignment of clients to roles, with or without the venue. *)
(***************************************************************************)
EXTENDS LlmGateway, FiniteSetTheorems, TLAPS

(***************************************************************************)
(* How far down the chain of tiers a role or a layer is.  The primary and  *)
(* its re-ask are one tier.                                                *)
(***************************************************************************)
Rank(x) == CASE x = "venue" -> 0 [] x = "fallback" -> 2 [] OTHER -> 1

(* The history goes down the chain, but for one parse failure at once      *)
(* followed by another call of the same tier.                              *)
InOrder(r) ==
    \A i, j \in 1..Len(heard[r]) : i < j =>
        \/ Rank(heard[r][i].role) < Rank(heard[r][j].role)
        \/ j = i + 1 /\ heard[r][i].got = "parse"

(* The layer a request is in lies ahead of everything it has heard, except *)
(* the re-ask, which lies level with the parse failure just heard.         *)
Ahead(r) ==
    pc[r] \in Stages => \A i \in 1..Len(heard[r]) :
        \/ Rank(heard[r][i].role) < Rank(pc[r])
        \/ /\ Rank(heard[r][i].role) = Rank(pc[r])
           /\ pc[r] = "reask" /\ i = Len(heard[r]) /\ heard[r][i].got = "parse"

(* Nothing is answered before the request is done, nothing is said before  *)
(* the stream has a provider, and one provider is all it has.              *)
Quiet(r) ==
    /\ pc[r] # "done" => answer[r] = "none"
    /\ pc[r] \in Stages => voice[r] = {}
    /\ pc[r] = "talking" => voice[r] # {}
    /\ \A x, y \in voice[r] : x = y

(* The parts of the properties that speak of one request.                  *)
Settled(r) ==
    \A i \in 1..Len(heard[r]) :
        heard[r][i].got \in {"items", "refusal"} =>
            i = Len(heard[r]) /\ pc[r] = "done"

Exhausted(r) ==
    pc[r] = "done" =>
        /\ answer[r] = "error" /\ voice[r] = {} =>
              /\ heard[r] # << >>
              /\ heard[r][Len(heard[r])].role = "fallback"
              /\ heard[r][Len(heard[r])].got \in Errors
        /\ (\E i \in 1..Len(heard[r]) : heard[r][i].got = "items")
              => answer[r] = "items"

Billed(r) ==
    answer[r] \in {"items", "refusal"} =>
        usage[r] = heard[r][Len(heard[r])].role

RequestOK(r) ==
    /\ InOrder(r) /\ Ahead(r) /\ Quiet(r)
    /\ Settled(r) /\ Exhausted(r) /\ Billed(r)

ChainOK == \A r \in Requests : RequestOK(r)

-----------------------------------------------------------------------------
(* The constants, as the proofs use them.                                  *)
LEMMA ConstantFacts ==
    /\ FailMax \in Nat /\ FailMax >= 1 /\ ResetTimeout \in Nat
    /\ ClientOf \in [Roles -> Clients]
  BY BreakerAssumption, LlmGatewayAssumption, SMT

(* The methods of a breaker answer with a breaker.                         *)
LEMMA BreakerType ==
    ASSUME NEW b \in Breakers
    PROVE  /\ Looked(b) \in Breakers
           /\ OnSuccess(b) \in Breakers
           /\ OnFailure(b) \in Breakers
           /\ Older(b) \in Breakers
<1> /\ b.state \in {"closed", "open", "half_open"}
    /\ b.failures \in Nat /\ b.age \in 0..ResetTimeout
    /\ b = [state |-> b.state, failures |-> b.failures, age |-> b.age]
  BY DEF Breakers
<1>1. Looked(b) \in Breakers
  BY DEF Breakers, Looked
<1>2. OnSuccess(b) \in Breakers
  BY DEF Breakers, OnSuccess
<1>3. OnFailure(b) \in Breakers
  BY ConstantFacts DEF Breakers, OnFailure
<1>4. Older(b) \in Breakers
  BY ConstantFacts DEF Breakers, Older
<1>5. QED
  BY <1>1, <1>2, <1>3, <1>4

(* In a layer a request asks one role, of the rank of that layer, of one   *)
(* client.                                                                 *)
LEMMA RoleFacts ==
    ASSUME NEW r \in Requests, pc[r] \in Stages
    PROVE  /\ RoleAt(r) \in Roles /\ Client(r) \in Clients
           /\ Rank(RoleAt(r)) = Rank(pc[r])
<1>1. RoleAt(r) \in Roles /\ Rank(RoleAt(r)) = Rank(pc[r])
  BY DEF Stages, RoleAt, PrimaryRole, Roles, Rank
<1>2. QED
  BY <1>1, ConstantFacts DEF Client

(* A new request starts with an empty history.                             *)
LEMMA ForgetType ==
    ASSUME TypeOK, NEW r \in Requests, heard' = [heard EXCEPT ![r] = << >>]
    PROVE  heard' \in [Requests -> Seq([role : Roles, got : Replies \cup Errors])]
<1> DEFINE Entries == [role : Roles, got : Replies \cup Errors]
<1>1. << >> \in Seq(Entries)
  OBVIOUS
<1>2. heard \in [Requests -> Seq(Entries)]
  BY DEF TypeOK
<1> HIDE DEF Entries
<1>3. heard' \in [Requests -> Seq(Entries)]
  BY <1>1, <1>2
<1>4. QED
  BY <1>3 DEF Entries

(* Hearing one more call end keeps the history a sequence of its type.     *)
LEMMA HearType ==
    ASSUME TypeOK, NEW r \in Requests, pc[r] \in Stages,
           NEW got \in Replies \cup Errors, Hear(r, got)
    PROVE  heard' \in [Requests -> Seq([role : Roles, got : Replies \cup Errors])]
<1> DEFINE Entries == [role : Roles, got : Replies \cup Errors]
<1>1. [role |-> RoleAt(r), got |-> got] \in Entries
  BY RoleFacts
<1>2. heard[r] \in Seq(Entries)
  BY DEF TypeOK
<1>3. Append(heard[r], [role |-> RoleAt(r), got |-> got]) \in Seq(Entries)
  BY <1>1, <1>2
<1>4. QED
  BY <1>3 DEF Hear, TypeOK

(* An exception leads to another layer or to the end.                      *)
LEMMA AfterErrorType ==
    ASSUME NEW r \in Requests, pc[r] \in Stages, NEW why
    PROVE  AfterError(r, why) \in Stages \cup {"done"}
  BY DEF Stages, AfterError

(* Fail keeps the types of the variables it touches.                       *)
LEMMA FailType ==
    ASSUME TypeOK, NEW r \in Requests, pc[r] \in Stages,
           NEW why \in Errors, Fail(r, why), breaker' \in [Clients -> Breakers]
    PROVE  TypeOK'
<1>1. heard' \in [Requests -> Seq([role : Roles, got : Replies \cup Errors])]
  BY HearType DEF Fail
<1>2. pc' \in [Requests -> Stages \cup {"talking", "done"}]
  BY AfterErrorType DEF Fail, TypeOK
<1>3. answer' \in [Requests -> Answers]
  BY DEF Fail, TypeOK, Answers
<1>4. QED
  BY <1>1, <1>2, <1>3 DEF Fail, TypeOK

(* Every step keeps the types.                                             *)
LEMMA TypeStep == TypeOK /\ [Next]_vars => TypeOK'
<1> SUFFICES ASSUME TypeOK, [Next]_vars PROVE TypeOK'
  OBVIOUS
<1>1. ASSUME NEW r \in Requests, NEW k \in Kinds, Arrive(r, k) PROVE TypeOK'
  <2>1. heard' \in [Requests -> Seq([role : Roles, got : Replies \cup Errors])]
    BY <1>1, ForgetType DEF Arrive
  <2>2. pc' \in [Requests -> Stages \cup {"talking", "done"}]
    BY <1>1 DEF Arrive, TypeOK, Stages
  <2>3. QED
    BY <1>1, <2>1, <2>2 DEF Arrive, TypeOK, Answers
<1>2. ASSUME NEW r \in Requests, NEW k \in Kinds, OverBudget(r, k) PROVE TypeOK'
  <2>1. heard' \in [Requests -> Seq([role : Roles, got : Replies \cup Errors])]
    BY <1>2, ForgetType DEF OverBudget
  <2>2. QED
    BY <1>2, <2>1 DEF OverBudget, TypeOK, Answers
<1>3. ASSUME NEW r \in Requests, Ask(r) PROVE TypeOK'
  BY <1>3, RoleFacts, BreakerType DEF Ask, Recommending, TypeOK
<1>4. ASSUME NEW r \in Requests, Refused(r) PROVE TypeOK'
  BY <1>4, FailType DEF Refused, Recommending, TypeOK, Errors
<1>5. ASSUME NEW r \in Requests, NEW why \in {"parse", "fault"},
             ProviderFails(r, why)
      PROVE  TypeOK'
  <2>1. breaker' \in [Clients -> Breakers]
    BY <1>5, RoleFacts, BreakerType DEF ProviderFails, Recommending, TypeOK
  <2>2. QED
    BY <1>5, <2>1, FailType DEF ProviderFails, Recommending, Errors
<1>6. ASSUME NEW r \in Requests, NEW reply \in Replies, ProviderReplies(r, reply)
      PROVE  TypeOK'
  <2>1. pc[r] \in Stages /\ RoleAt(r) \in Roles /\ Client(r) \in Clients
    BY <1>6, RoleFacts DEF ProviderReplies, Recommending
  <2>2. breaker' \in [Clients -> Breakers]
    BY <1>6, <2>1, BreakerType DEF ProviderReplies, TypeOK
  <2>3. heard' \in [Requests -> Seq([role : Roles, got : Replies \cup Errors])]
    BY <1>6, <2>1, HearType DEF ProviderReplies
  <2>4. usage' \in [Requests -> Roles \cup {Nobody}]
    BY <1>6, <2>1 DEF ProviderReplies, Metered, TypeOK
  <2>5. /\ pc' \in [Requests -> Stages \cup {"talking", "done"}]
        /\ answer' \in [Requests -> Answers]
        /\ spare' \in [Requests -> BOOLEAN]
    <3>1. CASE TriesAnother(r, reply)
      BY <1>6, <3>1 DEF ProviderReplies, TypeOK, Stages
    <3>2. CASE ~TriesAnother(r, reply)
      BY <1>6, <3>2 DEF ProviderReplies, TypeOK, Answers, Replies
    <3>3. QED
      BY <3>1, <3>2
  <2>6. QED
    BY <1>6, <2>2, <2>3, <2>4, <2>5 DEF ProviderReplies, TypeOK
<1>7. ASSUME NEW r \in Requests, FirstToken(r) PROVE TypeOK'
  BY <1>7, RoleFacts DEF FirstToken, Opening, TypeOK
<1>8. ASSUME NEW r \in Requests, StreamFails(r) PROVE TypeOK'
  BY <1>8, FailType DEF StreamFails, Opening, TypeOK, Errors
<1>9. ASSUME NEW r \in Requests,
             StreamEmpty(r) \/ StreamBreaks(r) \/ StreamEnds(r) \/ Leave(r)
      PROVE  TypeOK'
  BY <1>9 DEF StreamEmpty, StreamBreaks, StreamEnds, Leave, TypeOK, Answers, Replies
<1>10. ASSUME NEW c \in Clients, Tick(c) PROVE TypeOK'
  BY <1>10, BreakerType DEF Tick, TypeOK, requestVars
<1>11. ASSUME NEW c \in Clients, OtherCall(c) PROVE TypeOK'
  BY <1>11, BreakerType DEF OtherCall, TypeOK, requestVars
<1>12. CASE UNCHANGED vars
  BY <1>12 DEF vars, requestVars, TypeOK
<1>13. QED
  BY <1>1, <1>2, <1>3, <1>4, <1>5, <1>6, <1>7, <1>8, <1>9, <1>10, <1>11, <1>12
     DEF Next, RequestStep, Enter, Conclude, Streaming

(* No behaviour leaves the types declared in TypeOK.                       *)
THEOREM TypeCorrect == Spec => []TypeOK
<1>1. Init => TypeOK
  BY ConstantFacts, SMT
     DEF Init, TypeOK, NewBreaker, Breakers, Answers
<1>2. QED
  BY <1>1, TypeStep, PTL DEF Spec

-----------------------------------------------------------------------------
(* A request none of whose variables changes stays as it was.              *)
LEMMA Untouched ==
    ASSUME NEW r \in Requests, RequestOK(r),
           pc'[r] = pc[r], answer'[r] = answer[r], usage'[r] = usage[r],
           heard'[r] = heard[r], voice'[r] = voice[r]
    PROVE  RequestOK(r)'
  BY DEF RequestOK, InOrder, Ahead, Quiet, Settled, Exhausted, Billed

(* What Hear does to the history: one entry more, the others kept.         *)
LEMMA HearFacts ==
    ASSUME TypeOK, NEW r \in Requests, NEW got, Hear(r, got)
    PROVE  /\ Len(heard[r]) \in Nat /\ Len(heard'[r]) = Len(heard[r]) + 1
           /\ heard'[r][Len(heard[r]) + 1].role = RoleAt(r)
           /\ heard'[r][Len(heard[r]) + 1].got = got
           /\ \A i \in 1..Len(heard[r]) : heard'[r][i] = heard[r][i]
           /\ \A s \in Requests : s # r => heard'[s] = heard[s]
<1> DEFINE Entries == [role : Roles, got : Replies \cup Errors]
           e == [role |-> RoleAt(r), got |-> got]
<1>1. heard[r] \in Seq(Entries)
  BY DEF TypeOK
<1>2. heard'[r] = Append(heard[r], e)
  BY DEF Hear, TypeOK
<1>3. \A s \in Requests : s # r => heard'[s] = heard[s]
  BY DEF Hear, TypeOK
<1> HIDE DEF Entries, e
<1>4. /\ Len(heard[r]) \in Nat /\ Len(heard'[r]) = Len(heard[r]) + 1
      /\ heard'[r][Len(heard[r]) + 1] = e
      /\ \A i \in 1..Len(heard[r]) : heard'[r][i] = heard[r][i]
  BY <1>1, <1>2
<1>5. e.role = RoleAt(r) /\ e.got = got
  BY DEF e
<1>6. QED
  BY <1>3, <1>4, <1>5

(* The ranks are numbers.                                                  *)
LEMMA RankNat == \A x : Rank(x) \in 0..2
  BY DEF Rank

(* A request that is ahead of its history may add to it.                   *)
LEMMA HearInOrder ==
    ASSUME TypeOK, NEW r \in Requests, pc[r] \in Stages, NEW got, Hear(r, got),
           InOrder(r), Ahead(r)
    PROVE  InOrder(r)'
<1> DEFINE n == Len(heard[r])
<1>1. SUFFICES ASSUME NEW i \in 1..(n + 1), NEW j \in 1..(n + 1), i < j
               PROVE  \/ Rank(heard'[r][i].role) < Rank(heard'[r][j].role)
                      \/ j = i + 1 /\ heard'[r][i].got = "parse"
  BY HearFacts DEF InOrder
<1>0. n \in Nat
  BY HearFacts
<1>2. i \in 1..n /\ heard'[r][i] = heard[r][i]
  <2>1. i \in 1..n
    BY <1>0, <1>1
  <2>2. QED
    BY <2>1, HearFacts
<1>3. CASE j \in 1..n
  BY <1>1, <1>2, <1>3, HearFacts DEF InOrder
<1>4. CASE j = n + 1
  <2>1. Rank(heard'[r][j].role) = Rank(pc[r])
    <3>1. heard'[r][j].role = RoleAt(r)
      BY <1>4, HearFacts
    <3>2. QED
      BY <3>1, RoleFacts
  <2>2. \/ Rank(heard[r][i].role) < Rank(pc[r])
        \/ i = n /\ heard[r][i].got = "parse"
    BY <1>2 DEF Ahead
  <2>3. QED
    BY <1>2, <1>4, <2>1, <2>2
<1>5. QED
  BY <1>0, <1>1, <1>2, <1>3, <1>4

(* A request that goes to a lower layer, or to the re-ask after a parse    *)
(* failure of the primary, is ahead of what it has heard.                  *)
LEMMA HearAhead ==
    ASSUME TypeOK, NEW r \in Requests, pc[r] \in Stages, NEW got, Hear(r, got),
           Ahead(r),
           \/ pc'[r] \notin Stages
           \/ Rank(pc[r]) < Rank(pc'[r])
           \/ pc[r] = "primary" /\ pc'[r] = "reask" /\ got = "parse"
    PROVE  Ahead(r)'
<1> DEFINE n == Len(heard[r])
<1>1. SUFFICES ASSUME pc'[r] \in Stages, NEW i \in 1..(n + 1)
               PROVE  \/ Rank(heard'[r][i].role) < Rank(pc'[r])
                      \/ /\ Rank(heard'[r][i].role) = Rank(pc'[r])
                         /\ pc'[r] = "reask" /\ i = n + 1
                         /\ heard'[r][i].got = "parse"
  BY HearFacts DEF Ahead
<1>2. n \in Nat /\ Rank(pc[r]) \in 0..2 /\ Rank(pc'[r]) \in 0..2
  BY HearFacts, RankNat
<1>3. CASE i = n + 1
  <2>1. heard'[r][i].role = RoleAt(r) /\ heard'[r][i].got = got
    BY <1>3, HearFacts
  <2>2. Rank(heard'[r][i].role) = Rank(pc[r])
    BY <2>1, RoleFacts
  <2>3. pc[r] = "primary" /\ pc'[r] = "reask" => Rank(pc[r]) = Rank(pc'[r])
    BY DEF Rank
  <2>4. QED
    BY <1>1, <1>2, <1>3, <2>1, <2>2, <2>3
<1>4. CASE i \in 1..n
  <2>1. heard'[r][i] = heard[r][i] /\ Rank(heard[r][i].role) \in 0..2
    BY <1>4, HearFacts, RankNat
  <2>2. Rank(heard[r][i].role) <= Rank(pc[r])
    BY <1>2, <1>4, <2>1 DEF Ahead
  <2>3. pc[r] = "primary" => Rank(heard[r][i].role) < Rank(pc[r])
    BY <1>4 DEF Ahead
  <2>4. pc[r] = "primary" /\ pc'[r] = "reask" => Rank(pc[r]) = Rank(pc'[r])
    BY DEF Rank
  <2>5. QED
    BY <1>1, <1>2, <2>1, <2>2, <2>3, <2>4
<1>5. QED
  BY <1>1, <1>2, <1>3, <1>4

(* A failed call hands the request to the next layer, or, in the last one, *)
(* to its caller.                                                          *)
LEMMA FailOK ==
    ASSUME TypeOK, NEW r \in Requests, pc[r] \in Stages,
           NEW why \in Errors, Fail(r, why), RequestOK(r)
    PROVE  RequestOK(r)'
<1> DEFINE n == Len(heard[r])
<1> Hear(r, why)
  BY DEF Fail
<1>1. /\ pc'[r] = AfterError(r, why)
      /\ answer'[r] = IF pc[r] = "fallback" THEN "error" ELSE answer[r]
      /\ usage'[r] = usage[r] /\ voice'[r] = voice[r]
  BY DEF Fail, TypeOK
<1>2. /\ \/ pc'[r] \notin Stages
         \/ Rank(pc[r]) < Rank(pc'[r])
         \/ pc[r] = "primary" /\ pc'[r] = "reask" /\ why = "parse"
      /\ pc[r] = "fallback" <=> pc'[r] = "done"
      /\ pc'[r] # "talking"
  BY <1>1 DEF AfterError, Rank, Stages
<1>3. voice[r] = {} /\ answer[r] = "none"
  BY DEF RequestOK, Quiet, Stages
<1>4. \A i \in 1..(n + 1) : heard'[r][i].got \notin {"items", "refusal"}
  <2>1. \A i \in 1..n : heard[r][i].got \notin {"items", "refusal"}
    BY DEF RequestOK, Settled, Stages
  <2>2. why \notin {"items", "refusal"}
    BY DEF Errors
  <2>3. QED
    BY <2>1, <2>2, HearFacts
<1>5. InOrder(r)' /\ Ahead(r)'
  BY <1>2, HearInOrder, HearAhead DEF RequestOK
<1>6. Quiet(r)'
  BY <1>1, <1>2, <1>3 DEF Quiet
<1>7. Settled(r)'
  BY <1>4, HearFacts DEF Settled
<1>8. Exhausted(r)'
  <2>1. SUFFICES ASSUME pc'[r] = "done"
                 PROVE  /\ heard'[r] # << >>
                        /\ heard'[r][n + 1].role = "fallback"
                        /\ heard'[r][n + 1].got \in Errors
    BY <1>4, HearFacts DEF Exhausted
  <2>2. RoleAt(r) = "fallback"
    BY <1>2, <2>1 DEF RoleAt
  <2>3. Len(heard'[r]) # 0
    BY HearFacts
  <2>4. QED
    BY <2>2, <2>3, HearFacts
<1>9. Billed(r)'
  BY <1>1, <1>3 DEF Billed
<1>10. QED
  BY <1>5, <1>6, <1>7, <1>8, <1>9 DEF RequestOK

(* A parsed reply ends the request, unless it is an empty result that the  *)
(* next tier is asked to better.                                           *)
LEMMA ReplyOK ==
    ASSUME TypeOK, NEW r \in Requests, NEW reply \in Replies,
           ProviderReplies(r, reply), RequestOK(r)
    PROVE  RequestOK(r)'
<1> DEFINE n == Len(heard[r])
<1> pc[r] \in Stages /\ Hear(r, reply)
  BY DEF ProviderReplies, Recommending
<1>1. usage'[r] = RoleAt(r) /\ voice'[r] = voice[r]
  BY DEF ProviderReplies, Metered, TypeOK
<1>2. voice[r] = {} /\ answer[r] = "none"
  BY DEF RequestOK, Quiet, Stages
<1>3. \A i \in 1..n : heard'[r][i].got \notin {"items", "refusal"}
  BY HearFacts DEF RequestOK, Settled, Stages
<1>4. n \in Nat /\ Len(heard'[r]) = n + 1
      /\ heard'[r][n + 1].got = reply /\ heard'[r][n + 1].role = RoleAt(r)
  BY HearFacts
<1>5. CASE TriesAnother(r, reply)
  <2>1. /\ answer'[r] = "none" /\ reply \notin {"items", "refusal"}
        /\ pc'[r] = IF pc[r] = "venue" THEN "primary" ELSE "fallback"
    BY <1>2, <1>5 DEF ProviderReplies, TriesAnother, TypeOK
  <2>2. Rank(pc[r]) < Rank(pc'[r]) /\ pc'[r] \in Stages
        /\ pc'[r] \notin {"done", "talking"}
    BY <1>5, <2>1 DEF TriesAnother, Rank, Stages
  <2>3. InOrder(r)' /\ Ahead(r)'
    BY <2>2, HearInOrder, HearAhead DEF RequestOK
  <2>4. Settled(r)'
    BY <1>3, <1>4, <2>1 DEF Settled
  <2>5. QED
    BY <1>1, <1>2, <2>1, <2>2, <2>3, <2>4
       DEF RequestOK, Quiet, Exhausted, Billed
<1>6. CASE ~TriesAnother(r, reply)
  <2>1. /\ pc'[r] = "done"
        /\ answer'[r] = IF spare[r] /\ reply # "items" THEN "empty" ELSE reply
    BY <1>6 DEF ProviderReplies, TypeOK
  <2>2. answer'[r] \in Replies /\ answer'[r] # "error"
    BY <2>1 DEF Replies
  <2>3. InOrder(r)' /\ Ahead(r)'
    BY <2>1, HearInOrder, HearAhead DEF RequestOK, Stages
  <2>4. Settled(r)'
    BY <1>3, <1>4, <2>1 DEF Settled
  <2>5. Exhausted(r)'
    <3>1. (\E i \in 1..(n + 1) : heard'[r][i].got = "items") => reply = "items"
      BY <1>3, <1>4
    <3>2. QED
      BY <1>4, <2>1, <2>2, <3>1 DEF Exhausted
  <2>6. Billed(r)'
    BY <1>1, <1>4 DEF Billed
  <2>7. QED
    BY <1>1, <1>2, <2>1, <2>3, <2>4, <2>5, <2>6 DEF RequestOK, Quiet, Stages
<1>7. QED
  BY <1>5, <1>6

(* A stream that ends, one way or another, adds nothing to the history.    *)
LEMMA StreamOverOK ==
    ASSUME TypeOK, NEW r \in Requests, RequestOK(r),
           StreamEmpty(r) \/ StreamBreaks(r) \/ StreamEnds(r) \/ Leave(r)
    PROVE  RequestOK(r)'
<1>1. /\ pc[r] # "done" /\ pc'[r] = "done"
      /\ pc[r] \in Stages \/ pc[r] = "talking"
      /\ answer'[r] \in {"empty", "error", "text", "left"}
      /\ answer'[r] = "error" => pc[r] = "talking"
      /\ heard'[r] = heard[r] /\ voice'[r] = voice[r]
  BY DEF StreamEmpty, StreamBreaks, StreamEnds, Leave, Opening, TypeOK, Stages
<1>2. \A i \in 1..Len(heard[r]) : heard[r][i].got \notin {"items", "refusal"}
  BY <1>1 DEF RequestOK, Settled
<1>3. answer'[r] = "error" => voice[r] # {}
  BY <1>1 DEF RequestOK, Quiet
<1>4. InOrder(r)' /\ Ahead(r)'
  BY <1>1 DEF RequestOK, InOrder, Ahead, Stages
<1>5. Quiet(r)'
  BY <1>1 DEF RequestOK, Quiet, Stages
<1>6. QED
  BY <1>1, <1>2, <1>3, <1>4, <1>5 DEF RequestOK, Settled, Exhausted, Billed

(* The first token names the one provider of the stream.                   *)
LEMMA FirstTokenOK ==
    ASSUME TypeOK, NEW r \in Requests, RequestOK(r), FirstToken(r)
    PROVE  RequestOK(r)'
<1>1. /\ pc[r] \in Stages /\ pc'[r] = "talking"
      /\ answer'[r] = answer[r] /\ usage'[r] = usage[r] /\ heard'[r] = heard[r]
      /\ voice'[r] = voice[r] \cup {RoleAt(r)}
  BY DEF FirstToken, Opening, TypeOK
<1>2. voice'[r] = {RoleAt(r)} /\ answer'[r] = "none" /\ pc[r] # "done"
  BY <1>1 DEF RequestOK, Quiet, Stages
<1>3. InOrder(r)' /\ Ahead(r)' /\ Quiet(r)'
  BY <1>1, <1>2 DEF RequestOK, InOrder, Ahead, Quiet, Stages
<1>4. Settled(r)' /\ Exhausted(r)' /\ Billed(r)'
  BY <1>1, <1>2 DEF RequestOK, Settled, Exhausted, Billed
<1>5. QED
  BY <1>3, <1>4 DEF RequestOK

(* A request begins with nothing heard, nothing said and nothing answered. *)
LEMMA FreshOK ==
    ASSUME TypeOK, NEW r \in Requests, NEW k \in Kinds,
           Arrive(r, k) \/ OverBudget(r, k)
    PROVE  RequestOK(r)'
<1>1. /\ heard'[r] = << >> /\ voice'[r] = {} /\ answer'[r] \in {"none", "budget"}
      /\ pc'[r] # "done" => answer'[r] = "none"
      /\ pc'[r] # "talking"
  <2>1. CASE Arrive(r, k)
    BY <2>1 DEF Arrive, TypeOK
  <2>2. CASE OverBudget(r, k)
    BY <2>2 DEF OverBudget, TypeOK
  <2>3. QED
    BY <2>1, <2>2
<1>2. Len(heard'[r]) = 0 /\ 1..Len(heard'[r]) = {}
  BY <1>1
<1>3. QED
  BY <1>1, <1>2
     DEF RequestOK, InOrder, Ahead, Quiet, Settled, Exhausted, Billed

(* A request's step leaves every other request alone: the breakers are all *)
(* that requests share.                                                    *)
LEMMA OthersUntouched ==
    ASSUME TypeOK, NEW r \in Requests, NEW s \in Requests, s # r, RequestStep(r)
    PROVE  /\ pc'[s] = pc[s] /\ answer'[s] = answer[s] /\ usage'[s] = usage[s]
           /\ heard'[s] = heard[s] /\ voice'[s] = voice[s]
<1>1. ASSUME NEW k \in Kinds, Arrive(r, k) \/ OverBudget(r, k)
      PROVE  /\ pc'[s] = pc[s] /\ answer'[s] = answer[s] /\ usage'[s] = usage[s]
             /\ heard'[s] = heard[s] /\ voice'[s] = voice[s]
  BY <1>1 DEF Arrive, OverBudget, TypeOK
<1>2. ASSUME Enter(r) \/ Conclude(r) \/ Streaming(r) \/ Leave(r)
      PROVE  /\ pc'[s] = pc[s] /\ answer'[s] = answer[s] /\ usage'[s] = usage[s]
             /\ heard'[s] = heard[s] /\ voice'[s] = voice[s]
  BY <1>2 DEF Enter, Ask, Refused, Conclude, ProviderFails, ProviderReplies,
              Streaming, FirstToken, StreamFails, StreamEmpty, StreamBreaks,
              StreamEnds, Leave, Fail, Hear, Metered, TypeOK
<1>3. QED
  BY <1>1, <1>2 DEF RequestStep

(* A request's step keeps what is known of it.                             *)
LEMMA RequestKeeps ==
    ASSUME TypeOK, NEW r \in Requests, RequestOK(r), RequestStep(r)
    PROVE  RequestOK(r)'
<1>1. ASSUME NEW k \in Kinds, Arrive(r, k) \/ OverBudget(r, k)
      PROVE  RequestOK(r)'
  BY <1>1, FreshOK
<1>2. CASE Ask(r)
  BY <1>2, Untouched DEF Ask
<1>3. CASE Refused(r)
  BY <1>3, FailOK DEF Refused, Recommending, Errors
<1>4. ASSUME NEW why \in {"parse", "fault"}, ProviderFails(r, why)
      PROVE  RequestOK(r)'
  BY <1>4, FailOK DEF ProviderFails, Recommending, Errors
<1>5. ASSUME NEW reply \in Replies, ProviderReplies(r, reply)
      PROVE  RequestOK(r)'
  BY <1>5, ReplyOK
<1>6. CASE FirstToken(r)
  BY <1>6, FirstTokenOK
<1>7. CASE StreamFails(r)
  BY <1>7, FailOK DEF StreamFails, Opening, Errors
<1>8. CASE StreamEmpty(r) \/ StreamBreaks(r) \/ StreamEnds(r) \/ Leave(r)
  BY <1>8, StreamOverOK
<1>9. QED
  BY <1>1, <1>2, <1>3, <1>4, <1>5, <1>6, <1>7, <1>8
     DEF RequestStep, Enter, Conclude, Streaming

(* Every step keeps what is known of every request.                        *)
LEMMA ChainStep == TypeOK /\ ChainOK /\ [Next]_vars => ChainOK'
<1> SUFFICES ASSUME TypeOK, ChainOK, [Next]_vars, NEW s \in Requests
             PROVE  RequestOK(s)'
  BY DEF ChainOK
<1> RequestOK(s)
  BY DEF ChainOK
<1>1. CASE UNCHANGED requestVars
  BY <1>1, Untouched DEF requestVars
<1>2. ASSUME NEW r \in Requests, RequestStep(r) PROVE RequestOK(s)'
  <2>1. CASE s = r
    BY <1>2, <2>1, RequestKeeps
  <2>2. CASE s # r
    BY <1>2, <2>2, OthersUntouched, Untouched
  <2>3. QED
    BY <2>1, <2>2
<1>3. ASSUME NEW c \in Clients, Tick(c) \/ OtherCall(c) PROVE UNCHANGED requestVars
  BY <1>3 DEF Tick, OtherCall
<1>4. QED
  BY <1>1, <1>2, <1>3 DEF Next, vars

(* The strengthening holds of every behaviour.                             *)
LEMMA ChainCorrect == Spec => []ChainOK
<1>1. Init => ChainOK
  <2> SUFFICES ASSUME Init, NEW r \in Requests PROVE RequestOK(r)
    BY DEF ChainOK
  <2>1. /\ pc[r] = "done" /\ answer[r] = "none" /\ voice[r] = {}
        /\ heard[r] = << >> /\ 1..Len(heard[r]) = {}
    BY DEF Init
  <2>2. QED
    BY <2>1
       DEF RequestOK, InOrder, Ahead, Quiet, Settled, Exhausted, Billed, Stages
<1>2. QED
  BY <1>1, TypeCorrect, ChainStep, PTL DEF Spec

(* No provider is asked after one has answered, by declining or with       *)
(* items, whatever layer the answer came from (TieredLLMClient,            *)
(* VenueRoutedClient).                                                     *)
THEOREM AnswersStand == Spec => []NeverSecondGuessed
<1>1. ChainOK => NeverSecondGuessed
  BY DEF ChainOK, RequestOK, Settled, NeverSecondGuessed
<1>2. QED
  BY <1>1, ChainCorrect, PTL

(* A provider is asked again only once, at once and after a parse failure  *)
(* (TieredLLMClient.recommend).                                            *)
THEOREM ReaskedOnce == Spec => []OneReask
<1>1. ChainOK => OneReask
  <2> SUFFICES ASSUME ChainOK, NEW r \in Requests,
                      NEW i \in 1..Len(heard[r]), NEW j \in 1..Len(heard[r]),
                      i < j, heard[r][i].role = heard[r][j].role
               PROVE  j = i + 1 /\ heard[r][i].got = "parse"
    BY DEF OneReask
  <2>1. InOrder(r)
    BY DEF ChainOK, RequestOK
  <2>2. Rank(heard[r][i].role) = Rank(heard[r][j].role)
        /\ Rank(heard[r][i].role) \in 0..2
    BY RankNat
  <2>3. QED
    BY <2>1, <2>2 DEF InOrder
<1>2. QED
  BY <1>1, ChainCorrect, PTL

(* A request fails only when the fallback, last, has failed it, and items  *)
(* that were given are returned.                                           *)
THEOREM FailureExhausts == Spec => []FailsOnlyExhausted
<1>1. ChainOK => FailsOnlyExhausted
  BY DEF ChainOK, RequestOK, Exhausted, FailsOnlyExhausted
<1>2. QED
  BY <1>1, ChainCorrect, PTL

(* LAST_USAGE names the provider whose answer is returned.                 *)
THEOREM BillCorrect == Spec => []BillNamesAnswerer
<1>1. ChainOK => BillNamesAnswerer
  BY DEF ChainOK, RequestOK, Billed, BillNamesAnswerer
<1>2. QED
  BY <1>1, ChainCorrect, PTL

(* The tokens of one stream come from one provider (astream).              *)
THEOREM OneVoice == Spec => []NoSplice
<1>1. ChainOK => NoSplice
  <2> SUFFICES ASSUME ChainOK, NEW r \in Requests
               PROVE  Cardinality(voice[r]) <= 1
    BY DEF NoSplice
  <2>1. CASE voice[r] = {}
    BY <2>1, FS_EmptySet, SMT
  <2>2. CASE voice[r] # {}
    <3>1. PICK x \in voice[r] : voice[r] = {x}
      BY <2>2 DEF ChainOK, RequestOK, Quiet
    <3>2. Cardinality({x}) = 1
      BY FS_Singleton
    <3>3. QED
      BY <3>1, <3>2
  <2>3. QED
    BY <2>1, <2>2
<1>2. QED
  BY <1>1, ChainCorrect, PTL
=============================================================================
