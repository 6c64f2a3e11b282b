------------------------ MODULE ServiceRequestsProofs ------------------------
(***************************************************************************)
(* Theorems about ServiceRequests, for any number of requests and any      *)
(* sizes of the pools, timeouts, rate limit and grace period.              *)
(***************************************************************************)
EXTENDS ServiceRequests, FiniteSetTheorems, TLAPS

Busy(r) == stage[r] \in {"wait", "query"}

(* What is known of a request between two steps: its clock never passes    *)
(* its timer, only readyz makes a second call, and then the first one's    *)
(* outcome is on record.                                                   *)
InCall(r) ==
  /\ op[r] \in Operation /\ code[r] = None
  /\ call[r] = 1 \/ (call[r] = 2 /\ op[r] = "readyz")
  /\ elapsed[r] \in Nat /\ elapsed[r] <= Timeout(op[r])
  /\ call[r] = 1 => total[r] = elapsed[r] /\ met[r] = {}
  /\ call[r] = 2 => /\ total[r] \in Nat /\ total[r] <= ProbeTimeout + elapsed[r]
                    /\ \E x \in Outcome : met[r] = {<<"primary", x>>}

Truthful(r) ==
  LET outcomes == {m[2] : m \in met[r]}
  IN  /\ Connected(r) /\ code[r] = 504 =>
           "timeout" \in outcomes /\ total[r] = CallTimeout
      /\ Connected(r) /\ code[r] = 500 => "error" \in outcomes
      /\ code[r] = 503 => IF op[r] = "readyz" THEN Failures(met[r]) # {}
                                              ELSE "unreachable" \in outcomes
      /\ code[r] = 200 /\ op[r] = "readyz" =>
           met[r] = {<<p, "rows">> : p \in Pools}

RequestSafe(r) ==
  /\ stage[r] \in {"idle", "wait", "query", "answered"}
  /\ stage[r] = "idle" => code[r] = None /\ elapsed[r] = 0 /\ total[r] = 0 /\ met[r] = {}
  /\ Busy(r) => InCall(r)
  /\ stage[r] = "answered" => elapsed[r] = 0 /\ total[r] \in Nat /\ Truthful(r)

Shape ==
  /\ server \in {"serving", "draining", "stopped"} /\ draining \in Nat
  /\ out \in [Pools -> SUBSET Requests]
  /\ DOMAIN stage = Requests /\ DOMAIN op = Requests /\ DOMAIN call = Requests
  /\ DOMAIN elapsed = Requests /\ DOMAIN total = Requests
  /\ DOMAIN met = Requests /\ DOMAIN code = Requests

(* While the service drains, every request in flight has been in flight    *)
(* since SIGTERM at least.                                                 *)
DrainingCounts ==
  /\ server = "serving" => draining = 0
  /\ server = "draining" => \A r \in Requests : Busy(r) => draining <= total[r]

Safe ==
  /\ Shape
  /\ \A r \in Requests : RequestSafe(r)
  /\ SlotsAreReturned
  /\ DrainingCounts
  /\ NobodyIsCutOff

-----------------------------------------------------------------------------
(* The calls of each operation, spelt out.                                 *)
LEMMA CallsOf ==
  /\ \A o \in Operation \ {"readyz"} : Len(Calls(o)) = 1 /\ Calls(o)[1] \in Pools
  /\ Len(Calls("readyz")) = 2
  /\ Calls("readyz")[1] = "primary" /\ Calls("readyz")[2] = "replica"
<1>1. ASSUME NEW o \in Operation \ {"readyz"}
      PROVE  Calls(o) = <<"replica">> \/ Calls(o) = <<"primary">>
  BY DEF Operation, Limited, Calls
<1>2. Calls("readyz") = <<"primary", "replica">>
  BY DEF Calls, Limited
<1>3. QED
  BY <1>1, <1>2 DEF Pools

LEMMA TimeoutsOf ==
  /\ \A o \in Operation : Timeout(o) \in Nat \ {0}
  /\ \A o \in Limited : Timeout(o) = CallTimeout
  /\ Timeout("readyz") = ProbeTimeout
  /\ \A o \in Operation \ {"readyz"} : Budget(o) = Timeout(o)
  /\ Budget("readyz") = ProbeTimeout + ProbeTimeout
<1>1. \A o \in Operation : Timeout(o) \in Nat \ {0}
  BY LimitsAssumption DEF Operation, Limited, Timeout
<1>2. /\ \A o \in Limited : Timeout(o) = CallTimeout
      /\ Timeout("readyz") = ProbeTimeout
  BY DEF Limited, Timeout
<1>3. ASSUME NEW o \in Operation \ {"readyz"} PROVE Budget(o) = Timeout(o)
  <2>1. Len(Calls(o)) = 1 /\ Timeout(o) \in Nat
    BY <1>1, CallsOf
  <2>2. QED
    BY <2>1 DEF Budget
<1>4. Budget("readyz") = ProbeTimeout + ProbeTimeout
  <2>1. Budget("readyz") = 2 * ProbeTimeout
    BY <1>2, CallsOf DEF Budget
  <2>2. ProbeTimeout \in Nat
    BY LimitsAssumption
  <2>3. QED
    BY <2>1, <2>2
<1>5. QED
  BY <1>1, <1>2, <1>3, <1>4

(* The pool of a request in a call.                                        *)
LEMMA PoolOf ==
  ASSUME NEW r \in Requests, InCall(r)
  PROVE  /\ Pool(r) \in Pools
         /\ call[r] \in 1..Len(Calls(op[r]))
         /\ op[r] = "readyz" => Pool(r) = IF call[r] = 1 THEN "primary" ELSE "replica"
<1>1. CASE op[r] = "readyz"
  BY <1>1, CallsOf DEF InCall, Pool, Pools
<1>2. CASE op[r] # "readyz"
  BY <1>2, CallsOf DEF InCall, Pool, Pools
<1>3. QED
  BY <1>1, <1>2

LEMMA InitSafe == Init => Safe
<1> SUFFICES ASSUME Init PROVE Safe
  OBVIOUS
<1>1. Shape
  BY LimitsAssumption DEF Init, Shape, Pools
<1>2. \A r \in Requests : RequestSafe(r)
  BY DEF Init, RequestSafe, Busy
<1>3. SlotsAreReturned
  <2> SUFFICES ASSUME NEW p \in Pools
               PROVE  /\ out[p] = {r \in Requests : stage[r] = "query" /\ Pool(r) = p}
                      /\ Cardinality(out[p]) <= PoolLimit
    BY DEF SlotsAreReturned
  <2>1. out[p] = {}
    BY DEF Init
  <2>2. {r \in Requests : stage[r] = "query" /\ Pool(r) = p} = {}
    BY DEF Init
  <2>3. QED
    BY <2>1, <2>2, FS_EmptySet, LimitsAssumption
<1>4. DrainingCounts /\ NobodyIsCutOff
  BY DEF Init, DrainingCounts, Busy, NobodyIsCutOff
<1>5. QED
  BY <1>1, <1>2, <1>3, <1>4 DEF Safe

-----------------------------------------------------------------------------
(* A step leaves the record of request q alone.                            *)
Untouched(q) ==
  /\ stage'[q] = stage[q] /\ op'[q] = op[q] /\ call'[q] = call[q]
  /\ elapsed'[q] = elapsed[q] /\ total'[q] = total[q]
  /\ met'[q] = met[q] /\ code'[q] = code[q]

LEMMA UntouchedSafe ==
  ASSUME NEW q \in Requests, RequestSafe(q), Untouched(q)
  PROVE  RequestSafe(q)' /\ Pool(q)' = Pool(q) /\ Busy(q)' = Busy(q)
<1>1. Truthful(q)' = Truthful(q) /\ InCall(q)' = InCall(q)
  BY DEF Untouched, Truthful, Connected, InCall
<1>2. Busy(q)' = Busy(q) /\ Pool(q)' = Pool(q)
  BY DEF Untouched, Busy, Pool
<1>3. QED
  BY <1>1, <1>2 DEF Untouched, RequestSafe

(* What is left to show of a step that touches one request only.           *)
LEMMA OneRequest ==
  ASSUME Safe, NEW r \in Requests,
         \A q \in Requests \ {r} : Untouched(q),
         Shape', RequestSafe(r)', SlotsAreReturned',
         server' = server, draining' = draining,
         Busy(r)' => \/ server = "serving"
                     \/ server = "draining" /\ Busy(r) /\ total'[r] = total[r]
  PROVE  Safe'
<1>1. \A q \in Requests : RequestSafe(q)'
  BY UntouchedSafe DEF Safe
<1>2. DrainingCounts'
  <2>1. ASSUME server = "draining", NEW q \in Requests, Busy(q)'
        PROVE  Busy(q) /\ total'[q] = total[q]
    BY <2>1, UntouchedSafe DEF Safe, Untouched
  <2>2. QED
    BY <2>1 DEF Safe, DrainingCounts
<1>3. NobodyIsCutOff'
  <2> SUFFICES ASSUME server = "stopped", \A o \in Operation : Budget(o) < Grace
               PROVE  InFlight' = {} /\ \A p \in Pools : out'[p] = {}
    BY DEF NobodyIsCutOff
  <2>1. \A q \in Requests : ~Busy(q)
    BY DEF Safe, NobodyIsCutOff, InFlight, Busy
  <2>2. \A q \in Requests : ~Busy(q)'
    BY <2>1, UntouchedSafe DEF Safe
  <2>3. QED
    BY <2>2 DEF SlotsAreReturned, InFlight, Busy
<1>4. QED
  BY <1>1, <1>2, <1>3 DEF Safe

(* A step that lets go of no connection and takes none.                    *)
LEMMA SlotsKept ==
  ASSUME Safe, out' = out, NEW r \in Requests,
         \A q \in Requests \ {r} : Untouched(q),
         stage[r] # "query", stage'[r] # "query"
  PROVE  SlotsAreReturned'
<1> SUFFICES ASSUME NEW p \in Pools
             PROVE  /\ out'[p] = {q \in Requests : stage'[q] = "query" /\ Pool(q)' = p}
                    /\ Cardinality(out'[p]) <= PoolLimit
  BY DEF SlotsAreReturned
<1>1. \A q \in Requests \ {r} : stage'[q] = stage[q] /\ Pool(q)' = Pool(q)
  BY UntouchedSafe DEF Safe, Untouched
<1>2. out[p] = {q \in Requests : stage[q] = "query" /\ Pool(q) = p}
  BY DEF Safe, SlotsAreReturned
<1>3. Cardinality(out'[p]) <= PoolLimit
  BY DEF Safe, SlotsAreReturned
<1>4. QED
  BY <1>1, <1>2, <1>3

LEMMA PoolsAreSmall ==
  ASSUME NEW S \in SUBSET Requests
  PROVE  IsFiniteSet(S) /\ Cardinality(S) \in Nat
BY LimitsAssumption, FS_Subset, FS_CardinalityType

-----------------------------------------------------------------------------
(* A new request: answered at once with a status that needs no reason, or  *)
(* waiting for its first connection.                                       *)
LEMMA StartSafe ==
  ASSUME Safe, NEW r \in Requests, NEW o \in Operation, Start(r, o),
         \/ FirstCall(r)
         \/ \E status \in {200, 422, 429} :
              AnswerAtOnce(r, status) /\ (status = 200 => o # "readyz")
  PROVE  Safe'
<1>1. /\ stage[r] = "idle" /\ server = "serving" /\ server' = server
      /\ draining' = draining /\ out' = out
      /\ elapsed' = elapsed /\ total' = total /\ met' = met
      /\ op' = [op EXCEPT ![r] = o]
  BY DEF Start, serverVars
<1>2. elapsed[r] = 0 /\ total[r] = 0 /\ met[r] = {} /\ code[r] = None
  BY <1>1 DEF Safe, RequestSafe
<1>3. \A q \in Requests \ {r} : Untouched(q)
  BY <1>1 DEF Untouched, FirstCall, AnswerAtOnce, Safe, Shape
<1>4. Shape'
  BY <1>1 DEF Safe, Shape, FirstCall, AnswerAtOnce
<1>5. stage'[r] \in {"wait", "answered"}
  BY DEF FirstCall, AnswerAtOnce, Safe, Shape
<1>6. RequestSafe(r)'
  <2>1. CASE FirstCall(r)
    <3>1. stage'[r] = "wait" /\ call'[r] = 1 /\ op'[r] = o /\ code'[r] = None
      BY <1>1, <1>2, <2>1 DEF FirstCall, Safe, Shape
    <3>2. InCall(r)'
      BY <1>1, <1>2, <3>1, TimeoutsOf DEF InCall
    <3>3. QED
      BY <3>1, <3>2 DEF RequestSafe, Busy
  <2>2. ASSUME NEW status \in {200, 422, 429}, AnswerAtOnce(r, status),
               status = 200 => o # "readyz"
        PROVE  RequestSafe(r)'
    <3>1. stage'[r] = "answered" /\ code'[r] = status /\ op'[r] = o
      BY <1>1, <2>2 DEF AnswerAtOnce, Safe, Shape
    <3>2. Truthful(r)'
      BY <2>2, <3>1 DEF Truthful
    <3>3. QED
      BY <1>1, <1>2, <3>1, <3>2 DEF RequestSafe, Busy
  <2>3. QED
    BY <2>1, <2>2
<1>7. SlotsAreReturned'
  BY <1>1, <1>3, <1>5, SlotsKept
<1>8. QED
  BY <1>1, <1>3, <1>4, <1>6, <1>7, OneRequest

LEMMA LeaveSafe ==
  ASSUME Safe, NEW r \in Requests, Leave(r)
  PROVE  Safe'
<1>1. /\ stage[r] = "answered" /\ server' = server /\ draining' = draining
      /\ out' = out /\ elapsed' = elapsed
  BY DEF Leave, serverVars
<1>2. \A q \in Requests \ {r} : Untouched(q)
  BY <1>1 DEF Untouched, Leave, Safe, Shape
<1>3. Shape'
  BY <1>1 DEF Safe, Shape, Leave
<1>4. /\ stage'[r] = "idle" /\ code'[r] = None /\ total'[r] = 0 /\ met'[r] = {}
      /\ elapsed'[r] = 0
  BY <1>1 DEF Leave, Safe, Shape, RequestSafe
<1>5. RequestSafe(r)' /\ ~Busy(r)'
  BY <1>4 DEF RequestSafe, Busy
<1>6. SlotsAreReturned'
  BY <1>1, <1>2, <1>4, SlotsKept
<1>7. QED
  BY <1>1, <1>2, <1>3, <1>5, <1>6, OneRequest

LEMMA ConnectSafe ==
  ASSUME Safe, NEW r \in Requests, Connect(r), server # "stopped"
  PROVE  Safe'
<1>1. /\ stage[r] = "wait" /\ ~(Cardinality(out[Pool(r)]) >= PoolLimit)
      /\ out' = [out EXCEPT ![Pool(r)] = @ \union {r}]
      /\ stage' = [stage EXCEPT ![r] = "query"]
      /\ server' = server /\ draining' = draining
      /\ op' = op /\ call' = call /\ elapsed' = elapsed /\ total' = total
      /\ met' = met /\ code' = code
  BY DEF Connect, PoolFull, serverVars
<1>2. InCall(r) /\ Busy(r)
  BY <1>1 DEF Safe, RequestSafe, Busy
<1>3. Pool(r) \in Pools /\ Pool(r)' = Pool(r)
  BY <1>1, <1>2, PoolOf DEF Pool
<1>4. \A q \in Requests \ {r} : Untouched(q)
  BY <1>1 DEF Untouched, Safe, Shape
<1>5. Shape'
  BY <1>1, <1>3 DEF Safe, Shape
<1>6. stage'[r] = "query"
  BY <1>1 DEF Safe, Shape
<1>7. RequestSafe(r)'
  <2>1. InCall(r)'
    BY <1>1, <1>2 DEF InCall
  <2>2. QED
    BY <1>6, <2>1 DEF RequestSafe, Busy
<1>8. SlotsAreReturned'
  <2> SUFFICES ASSUME NEW p \in Pools
               PROVE  /\ out'[p] = {q \in Requests : stage'[q] = "query" /\ Pool(q)' = p}
                      /\ Cardinality(out'[p]) <= PoolLimit
    BY DEF SlotsAreReturned
  <2>1. \A q \in Requests \ {r} : stage'[q] = stage[q] /\ Pool(q)' = Pool(q)
    BY <1>4, UntouchedSafe DEF Safe, Untouched
  <2>2. /\ out[p] = {q \in Requests : stage[q] = "query" /\ Pool(q) = p}
        /\ Cardinality(out[p]) <= PoolLimit
    BY DEF Safe, SlotsAreReturned
  <2>3. CASE p = Pool(r)
    <3>1. out'[p] = out[p] \union {r} /\ r \notin out[p]
      BY <1>1, <1>3, <2>2, <2>3 DEF Safe, Shape
    <3>2. Cardinality(out'[p]) = Cardinality(out[p]) + 1
      BY <2>2, <3>1, PoolsAreSmall, FS_AddElement
    <3>3. Cardinality(out[p]) \in Nat /\ PoolLimit \in Nat
      BY <2>2, PoolsAreSmall, LimitsAssumption
    <3>4. out'[p] = {q \in Requests : stage'[q] = "query" /\ Pool(q)' = p}
      BY <1>3, <1>6, <2>1, <2>2, <2>3, <3>1
    <3>5. QED
      BY <1>1, <2>3, <3>2, <3>3, <3>4
  <2>4. CASE p # Pool(r)
    <3>1. out'[p] = out[p]
      BY <1>1, <1>3, <2>4 DEF Safe, Shape
    <3>2. QED
      BY <1>1, <1>3, <1>6, <2>1, <2>2, <2>4, <3>1
  <2>5. QED
    BY <2>3, <2>4
<1>9. server \in {"serving", "draining"} /\ total'[r] = total[r]
  BY <1>1 DEF Safe, Shape
<1>10. QED
  BY <1>1, <1>2, <1>4, <1>5, <1>7, <1>8, <1>9, OneRequest

-----------------------------------------------------------------------------
(* The status of an answer is borne out by the outcome of the last call.   *)
LEMMA AnswerTruthful ==
  ASSUME NEW r \in Requests, InCall(r), NEW x \in Outcome,
         x \in {"timeout", "exhausted"} => elapsed[r] >= Timeout(op[r]),
         call[r] = Len(Calls(op[r])),
         op'[r] = op[r], total'[r] = total[r],
         met'[r] = met[r] \union {<<Pool(r), x>>},
         code'[r] = StatusOf(op[r], x, met[r] \union {<<Pool(r), x>>})
  PROVE  Truthful(r)'
<1>1. CASE op[r] \in Limited
  <2>1. call[r] = 1 /\ total[r] = elapsed[r] /\ Timeout(op[r]) = CallTimeout
    BY <1>1, CallsOf, TimeoutsOf DEF InCall, Operation, Limited
  <2>2. code'[r] = SearchStatus(x) /\ op[r] # "readyz"
    BY <1>1 DEF StatusOf, Limited
  <2>3. x \in {m[2] : m \in met'[r]}
    <3>1. <<Pool(r), x>> \in met'[r] /\ <<Pool(r), x>>[2] = x
      OBVIOUS
    <3>2. QED
      BY <3>1
  <2>4. Connected(r)' => x \notin {"exhausted", "pool"}
    <3>1. <<Pool(r), x>> \in met'[r] /\ <<Pool(r), x>>[2] = x
      OBVIOUS
    <3>2. QED
      BY <3>1 DEF Connected
  <2>5. /\ code'[r] = 504 => x \in {"timeout", "exhausted"}
        /\ code'[r] = 503 => x = "unreachable"
        /\ code'[r] = 500 => x \in {"error", "pool"}
    BY <2>2 DEF SearchStatus, Outcome
  <2>6. elapsed[r] \in Nat /\ elapsed[r] <= CallTimeout /\ CallTimeout \in Nat
    BY <2>1, LimitsAssumption DEF InCall
  <2>7. Connected(r)' /\ code'[r] = 504 => x = "timeout" /\ total'[r] = CallTimeout
    BY <2>1, <2>4, <2>5, <2>6
  <2>8. Connected(r)' /\ code'[r] = 500 => x = "error"
    BY <2>4, <2>5
  <2>9. QED
    BY <2>2, <2>3, <2>5, <2>7, <2>8 DEF Truthful
<1>2. CASE op[r] = "etl_status"
  <2>1. code'[r] = 200
    BY <1>2 DEF StatusOf, Limited
  <2>2. QED
    BY <1>2, <2>1 DEF Truthful
<1>3. CASE op[r] = "readyz"
  <2>1. call[r] = 2 /\ Pool(r) = "replica"
    BY <1>3, CallsOf, PoolOf
  <2>2. PICK y \in Outcome : met[r] = {<<"primary", y>>}
    BY <2>1 DEF InCall
  <2>3. met'[r] = {<<"primary", y>>, <<"replica", x>>}
    BY <2>1, <2>2
  <2>4. code'[r] = IF Failures(met'[r]) = {} THEN 200 ELSE 503
    BY <1>3 DEF StatusOf, Limited
  <2>5. Failures(met'[r]) = {} => y = "rows" /\ x = "rows"
    <3>1. <<"primary", y>>[2] = y /\ <<"replica", x>>[2] = x
      OBVIOUS
    <3>2. QED
      BY <2>3, <3>1 DEF Failures
  <2>6. {<<p, "rows">> : p \in Pools} = {<<"primary", "rows">>, <<"replica", "rows">>}
    BY DEF Pools
  <2>7. op'[r] = "readyz"
    BY <1>3
  <2>8. CASE Failures(met'[r]) = {}
    <3>1. code'[r] = 200
      BY <2>4, <2>8
    <3>2. met'[r] = {<<p, "rows">> : p \in Pools}
      BY <2>3, <2>5, <2>6, <2>8
    <3>3. QED
      BY <3>1, <3>2 DEF Truthful
  <2>9. CASE Failures(met'[r]) # {}
    <3>1. code'[r] = 503
      BY <2>4, <2>9
    <3>2. {m \in met'[r] : m[2] # "rows"} # {}
      BY <2>9 DEF Failures
    <3>3. QED
      BY <2>7, <3>1, <3>2 DEF Truthful, Failures
  <2>10. QED
    BY <2>8, <2>9
<1>4. QED
  BY <1>1, <1>2, <1>3 DEF InCall, Operation

LEMMA EndCallSafe ==
  ASSUME Safe, NEW r \in Requests, Busy(r), server # "stopped",
         NEW x \in Outcome, EndCall(r, x),
         x \in {"timeout", "exhausted"} => elapsed[r] >= Timeout(op[r])
  PROVE  Safe'
<1> DEFINE outcomes == met[r] \union {<<Pool(r), x>>}
<1>1. /\ out' = [out EXCEPT ![Pool(r)] = @ \ {r}]
      /\ met' = [met EXCEPT ![r] = outcomes]
      /\ elapsed' = [elapsed EXCEPT ![r] = 0]
      /\ server' = server /\ draining' = draining
      /\ op' = op /\ total' = total
  BY DEF EndCall, Return, serverVars
<1>2. \/ /\ call[r] < Len(Calls(op[r]))
         /\ call' = [call EXCEPT ![r] = @ + 1]
         /\ stage' = [stage EXCEPT ![r] = "wait"]
         /\ code' = code
      \/ /\ call[r] = Len(Calls(op[r]))
         /\ stage' = [stage EXCEPT ![r] = "answered"]
         /\ code' = [code EXCEPT ![r] = StatusOf(op[r], x, outcomes)]
         /\ call' = call
  BY DEF EndCall
<1>3. InCall(r)
  BY DEF Safe, RequestSafe
<1>4. Pool(r) \in Pools
  BY <1>3, PoolOf
<1>5. \A q \in Requests \ {r} : Untouched(q)
  BY <1>1, <1>2 DEF Untouched, Safe, Shape
<1>6. Shape'
  BY <1>1, <1>2, <1>4 DEF Safe, Shape
<1>7. elapsed'[r] = 0 /\ met'[r] = outcomes /\ stage'[r] \in {"wait", "answered"}
  BY <1>1, <1>2 DEF Safe, Shape
<1>8. RequestSafe(r)'
  <2>1. CASE call[r] < Len(Calls(op[r]))
    <3>0. op[r] = "readyz"
      <4> SUFFICES ASSUME op[r] # "readyz" PROVE FALSE
        OBVIOUS
      <4>1. Len(Calls(op[r])) = 1 /\ call[r] = 1
        BY <1>3, CallsOf DEF InCall
      <4>2. QED
        BY <2>1, <4>1
    <3>1. call[r] = 1 /\ op[r] = "readyz" /\ Pool(r) = "primary" /\ met[r] = {}
      <4>1. Len(Calls(op[r])) = 2
        BY <3>0, CallsOf
      <4>2. call[r] = 1
        BY <1>3, <2>1, <4>1 DEF InCall
      <4>3. QED
        BY <1>3, <3>0, <4>2, PoolOf DEF InCall
    <3>2. stage'[r] = "wait" /\ call'[r] = 2 /\ code'[r] = None
      BY <1>2, <1>3, <2>1, <3>1, CallsOf DEF Safe, Shape, InCall
    <3>3. total[r] \in Nat /\ total[r] <= ProbeTimeout /\ Timeout("readyz") \in Nat \ {0}
      BY <1>3, <3>1, TimeoutsOf DEF InCall, Operation
    <3>4. met'[r] = {<<"primary", x>>}
      BY <1>7, <3>1
    <3>5. op'[r] = "readyz" /\ total'[r] = total[r]
      BY <1>1, <3>1
    <3>6. InCall(r)'
      BY <1>7, <3>2, <3>3, <3>4, <3>5, LimitsAssumption DEF InCall, Operation
    <3>7. QED
      BY <3>2, <3>6 DEF RequestSafe, Busy
  <2>2. CASE call[r] = Len(Calls(op[r]))
    <3>1. ~(call[r] < Len(Calls(op[r])))
      BY <2>2, <1>3, CallsOf DEF InCall
    <3>2. stage'[r] = "answered" /\ code'[r] = StatusOf(op[r], x, outcomes)
      BY <1>2, <3>1 DEF Safe, Shape
    <3>3. Truthful(r)'
      BY <1>1, <1>3, <1>7, <2>2, <3>2, AnswerTruthful DEF Safe, Shape
    <3>4. total[r] \in Nat
      BY <1>3, LimitsAssumption DEF InCall
    <3>5. QED
      BY <1>1, <1>7, <3>2, <3>3, <3>4 DEF RequestSafe, Busy
  <2>3. QED
    BY <1>2, <2>1, <2>2
<1>9. SlotsAreReturned'
  <2> SUFFICES ASSUME NEW p \in Pools
               PROVE  /\ out'[p] = {q \in Requests : stage'[q] = "query" /\ Pool(q)' = p}
                      /\ Cardinality(out'[p]) <= PoolLimit
    BY DEF SlotsAreReturned
  <2>1. \A q \in Requests \ {r} : stage'[q] = stage[q] /\ Pool(q)' = Pool(q)
    BY <1>5, UntouchedSafe DEF Safe, Untouched
  <2>2. /\ out[p] = {q \in Requests : stage[q] = "query" /\ Pool(q) = p}
        /\ Cardinality(out[p]) <= PoolLimit /\ out[p] \in SUBSET Requests
    BY DEF Safe, SlotsAreReturned, Shape
  <2>3. out'[p] = out[p] \ {r}
    BY <1>1, <1>4, <2>2 DEF Safe, Shape
  <2>4. out'[p] = {q \in Requests : stage'[q] = "query" /\ Pool(q)' = p}
    BY <1>7, <2>1, <2>2, <2>3
  <2>5. /\ Cardinality(out'[p]) <= Cardinality(out[p])
        /\ Cardinality(out'[p]) \in Nat /\ Cardinality(out[p]) \in Nat
    BY <2>2, <2>3, PoolsAreSmall, FS_Subset
  <2>6. QED
    BY <2>2, <2>4, <2>5, LimitsAssumption
<1>10. /\ server \in {"serving", "draining"} /\ total'[r] = total[r]
  BY <1>1 DEF Safe, Shape
<1>11. QED
  BY <1>1, <1>5, <1>6, <1>8, <1>9, <1>10, OneRequest

-----------------------------------------------------------------------------
LEMMA HandleSafe ==
  ASSUME Safe, NEW r \in Requests, Handle(r)
  PROVE  Safe'
<1>1. CASE Invalid(r)
  BY <1>1, StartSafe DEF Invalid, Operation, Limited
<1>2. ASSUME NEW o \in Limited, Refuse(r, o) \/ Admit(r, o) PROVE Safe'
  BY <1>2, StartSafe DEF Refuse, Admit, Operation, Limited
<1>3. ASSUME NEW o \in Operation \ Limited, Unlimited(r, o) PROVE Safe'
  BY <1>3, StartSafe DEF Unlimited
<1>4. CASE server # "stopped" /\ Connect(r)
  BY <1>4, ConnectSafe
<1>5. CASE server # "stopped" /\ Result(r)
  <2>1. Busy(r)
    BY <1>5 DEF Result, Busy
  <2>2. \E x \in Outcome \ {"timeout", "exhausted", "pool"} : EndCall(r, x)
    BY <1>5 DEF Result, Outcome
  <2>3. QED
    BY <1>5, <2>1, <2>2, EndCallSafe
<1>6. CASE server # "stopped" /\ TimeOut(r)
  <2>1. Busy(r) /\ elapsed[r] >= Timeout(op[r])
        /\ (EndCall(r, "timeout") \/ EndCall(r, "exhausted"))
    BY <1>6 DEF TimeOut, TimesOut, Busy
  <2>2. QED
    BY <1>6, <2>1, EndCallSafe DEF Outcome
<1>7. CASE server # "stopped" /\ GiveUpPool(r)
  <2>1. Busy(r) /\ EndCall(r, "pool")
    BY <1>7 DEF GiveUpPool, PoolGivesUp, Busy
  <2>2. QED
    BY <1>7, <2>1, EndCallSafe DEF Outcome
<1>8. CASE Leave(r)
  BY <1>8, LeaveSafe
<1>9. QED
  BY <1>1, <1>2, <1>3, <1>4, <1>5, <1>6, <1>7, <1>8 DEF Handle

(* What the invariant says of the requests does not mention the server,    *)
(* the databases or the rate limit.                                        *)
LEMMA RequestsKept ==
  ASSUME Safe, requestVars' = requestVars
  PROVE  /\ \A q \in Requests : RequestSafe(q)' /\ Busy(q)' = Busy(q)
         /\ SlotsAreReturned' /\ InFlight' = InFlight
<1>1. \A q \in Requests : Untouched(q)
  BY DEF requestVars, Untouched
<1>2. \A q \in Requests : RequestSafe(q)' /\ Busy(q)' = Busy(q)
  BY <1>1, UntouchedSafe DEF Safe
<1>3. SlotsAreReturned' /\ InFlight' = InFlight
  BY DEF Safe, SlotsAreReturned, InFlight, Pool, requestVars
<1>4. QED
  BY <1>2, <1>3

LEMMA OutageSafe ==
  ASSUME Safe, UNCHANGED <<server, draining, requestVars>>
  PROVE  Safe'
<1>1. /\ \A q \in Requests : RequestSafe(q)' /\ Busy(q)' = Busy(q)
      /\ SlotsAreReturned' /\ InFlight' = InFlight
  BY RequestsKept
<1>2. Shape'
  BY DEF Safe, Shape, requestVars
<1>3. DrainingCounts'
  BY <1>1 DEF Safe, DrainingCounts, requestVars
<1>4. NobodyIsCutOff'
  BY <1>1 DEF Safe, NobodyIsCutOff, requestVars
<1>5. QED
  BY <1>1, <1>2, <1>3, <1>4 DEF Safe

LEMMA ClocksInRange ==
  ASSUME Safe, NEW r \in Requests, Busy(r)
  PROVE  total[r] \in Nat /\ total[r] <= Budget(op[r])
<1>1. InCall(r)
  BY DEF Safe, RequestSafe
<1>2. CASE op[r] # "readyz"
  <2>1. Budget(op[r]) = Timeout(op[r])
    BY <1>1, <1>2, TimeoutsOf DEF InCall
  <2>2. QED
    BY <1>1, <1>2, <2>1 DEF InCall
<1>3. CASE op[r] = "readyz"
  <2>1. Budget(op[r]) = ProbeTimeout + ProbeTimeout /\ Timeout(op[r]) = ProbeTimeout
    BY <1>3, TimeoutsOf
  <2>2. ProbeTimeout \in Nat
    BY LimitsAssumption
  <2>3. elapsed[r] \in Nat /\ elapsed[r] <= ProbeTimeout
    BY <1>1, <2>1 DEF InCall
  <2>4. total[r] \in Nat /\ total[r] <= ProbeTimeout + elapsed[r]
    BY <1>1, <2>2, <2>3 DEF InCall
  <2>5. QED
    BY <2>1, <2>2, <2>3, <2>4
<1>4. QED
  BY <1>2, <1>3

LEMMA TerminateSafe == ASSUME Safe, Terminate PROVE Safe'
<1>1. /\ server = "serving" /\ server' = "draining" /\ draining' = draining
      /\ requestVars' = requestVars
  BY DEF Terminate
<1>2. /\ \A q \in Requests : RequestSafe(q)' /\ Busy(q)' = Busy(q)
      /\ SlotsAreReturned'
  BY <1>1, RequestsKept
<1>3. Shape' /\ total' = total
  BY <1>1 DEF Safe, Shape, requestVars
<1>4. draining = 0
  BY <1>1 DEF Safe, DrainingCounts
<1>5. DrainingCounts'
  BY <1>1, <1>2, <1>3, <1>4, ClocksInRange DEF DrainingCounts
<1>6. NobodyIsCutOff'
  BY <1>1 DEF NobodyIsCutOff
<1>7. QED
  BY <1>2, <1>3, <1>5, <1>6 DEF Safe

LEMMA StopSafe == ASSUME Safe, Stop PROVE Safe'
<1>1. /\ server = "draining" /\ server' = "stopped" /\ draining' = draining
      /\ requestVars' = requestVars /\ Drained
  BY DEF Stop
<1>2. /\ \A q \in Requests : RequestSafe(q)' /\ Busy(q)' = Busy(q)
      /\ SlotsAreReturned' /\ InFlight' = InFlight
  BY <1>1, RequestsKept
<1>3. Shape' /\ DrainingCounts'
  BY <1>1 DEF Safe, Shape, DrainingCounts, requestVars
<1>4. NobodyIsCutOff'
  <2> SUFFICES ASSUME \A o \in Operation : Budget(o) < Grace
               PROVE  InFlight = {} /\ \A p \in Pools : out[p] = {}
    BY <1>1, <1>2 DEF NobodyIsCutOff, requestVars
  <2>1. ASSUME NEW r \in Requests, Busy(r) PROVE draining < Grace
    <3>1. total[r] \in Nat /\ total[r] <= Budget(op[r]) /\ op[r] \in Operation
      BY <2>1, ClocksInRange DEF Safe, RequestSafe, InCall
    <3>2. draining \in Nat /\ draining <= total[r] /\ Grace \in Nat
      BY <1>1, <2>1, LimitsAssumption DEF Safe, DrainingCounts, Shape
    <3>3. Budget(op[r]) \in Nat
      BY <3>1, TimeoutsOf, LimitsAssumption DEF Operation
    <3>4. QED
      BY <3>1, <3>2, <3>3
  <2>2. \A r \in Requests : ~Busy(r)
    <3>1. InFlight = {} => \A r \in Requests : ~Busy(r)
      BY DEF InFlight, Busy
    <3>2. draining \in Nat /\ Grace \in Nat
      BY LimitsAssumption DEF Safe, Shape
    <3>3. QED
      BY <1>1, <2>1, <3>1, <3>2 DEF Drained
  <2>3. QED
    BY <2>2 DEF Safe, SlotsAreReturned, InFlight, Busy
<1>5. QED
  BY <1>2, <1>3, <1>4 DEF Safe

(* A tick finds no timer run out, so the clocks it moves stay within them. *)
LEMMA TickSafe == ASSUME Safe, Tick PROVE Safe'
<1>1. /\ server' = server /\ server # "stopped"
      /\ out' = out /\ stage' = stage /\ op' = op /\ call' = call /\ met' = met
      /\ code' = code
      /\ draining' = IF server = "draining" THEN draining + 1 ELSE 0
      /\ \A r \in InFlight : ~TimesOut(r)
      /\ DOMAIN elapsed' = Requests /\ DOMAIN total' = Requests
  BY DEF Tick
<1>2. \A r \in Requests : Busy(r)' = Busy(r) /\ Pool(r)' = Pool(r)
  BY <1>1 DEF Busy, Pool
<1>3. \A r \in Requests :
        IF Busy(r) THEN elapsed'[r] = elapsed[r] + 1 /\ total'[r] = total[r] + 1
                   ELSE elapsed'[r] = elapsed[r] + 0 /\ total'[r] = total[r] + 0
  BY DEF Tick, InFlight, Busy
<1>4. Shape'
  BY <1>1 DEF Safe, Shape
<1>5. ASSUME NEW r \in Requests PROVE RequestSafe(r)'
  <2>1. CASE Busy(r)
    <3>1. InCall(r) /\ ~TimesOut(r)
      BY <1>1, <2>1 DEF Safe, RequestSafe, InFlight, Busy
    <3>2. elapsed[r] \in Nat /\ total[r] \in Nat /\ Timeout(op[r]) \in Nat
      BY <2>1, <3>1, ClocksInRange, TimeoutsOf DEF InCall
    <3>3. elapsed'[r] = elapsed[r] + 1 /\ total'[r] = total[r] + 1
      BY <1>3, <2>1
    <3>4. elapsed[r] < Timeout(op[r])
      BY <2>1, <3>1, <3>2 DEF TimesOut, Busy
    <3>5. call[r] = 1 => total'[r] = elapsed'[r] /\ met'[r] = {}
      BY <1>1, <3>1, <3>3 DEF InCall
    <3>6. call[r] = 2 => /\ total'[r] <= ProbeTimeout + elapsed'[r]
                         /\ \E x \in Outcome : met'[r] = {<<"primary", x>>}
      BY <1>1, <3>1, <3>2, <3>3, LimitsAssumption DEF InCall
    <3>7. elapsed'[r] \in Nat /\ total'[r] \in Nat /\ elapsed'[r] <= Timeout(op[r])
      BY <3>2, <3>3, <3>4
    <3>8. Timeout(op[r])' = Timeout(op[r])
      BY <1>1 DEF Timeout
    <3>9. InCall(r)'
      BY <1>1, <3>1, <3>5, <3>6, <3>7, <3>8 DEF InCall
    <3>10. QED
      BY <1>1, <2>1, <3>9 DEF RequestSafe, Busy
  <2>2. CASE ~Busy(r)
    <3>1. stage[r] \in {"idle", "answered"} /\ elapsed[r] = 0 /\ total[r] \in Nat
      BY <2>2 DEF Safe, RequestSafe, Busy
    <3>2. elapsed'[r] = elapsed[r] /\ total'[r] = total[r]
      BY <1>3, <2>2, <3>1
    <3>3. Untouched(r)
      BY <1>1, <3>2 DEF Untouched
    <3>4. QED
      BY <3>3, UntouchedSafe DEF Safe
  <2>3. QED
    BY <2>1, <2>2
<1>6. SlotsAreReturned'
  BY <1>1, <1>2 DEF Safe, SlotsAreReturned
<1>7. DrainingCounts'
  <2>1. CASE server = "serving"
    BY <1>1, <2>1 DEF DrainingCounts
  <2>2. CASE server = "draining"
    <3>1. ASSUME NEW r \in Requests, Busy(r)' PROVE draining' <= total'[r]
      <4>1. Busy(r) /\ total'[r] = total[r] + 1
        BY <1>2, <1>3, <3>1
      <4>2. draining <= total[r] /\ draining \in Nat /\ total[r] \in Nat
        BY <2>2, <4>1, ClocksInRange DEF Safe, DrainingCounts, Shape
      <4>3. QED
        BY <1>1, <2>2, <4>1, <4>2
    <3>2. QED
      BY <1>1, <2>2, <3>1 DEF DrainingCounts
  <2>3. QED
    BY <1>1, <2>1, <2>2 DEF Safe, Shape
<1>8. NobodyIsCutOff'
  BY <1>1 DEF NobodyIsCutOff
<1>9. QED
  BY <1>4, <1>5, <1>6, <1>7, <1>8 DEF Safe

-----------------------------------------------------------------------------
LEMMA StepSafe == Safe /\ [Next]_vars => Safe'
<1> SUFFICES ASSUME Safe, [Next]_vars PROVE Safe'
  OBVIOUS
<1>1. ASSUME NEW r \in Requests, Handle(r) PROVE Safe'
  BY <1>1, HandleSafe
<1>2. ASSUME NEW p \in Pools, Outage(p) PROVE Safe'
  BY <1>2, OutageSafe DEF Outage
<1>3. CASE Terminate
  BY <1>3, TerminateSafe
<1>4. CASE Stop
  BY <1>4, StopSafe
<1>5. CASE Tick
  BY <1>5, TickSafe
<1>6. CASE UNCHANGED vars
  BY <1>6, OutageSafe DEF vars, serverVars
<1>7. QED
  BY <1>1, <1>2, <1>3, <1>4, <1>5, <1>6 DEF Next

(* The inductive invariant holds of every behaviour.                       *)
THEOREM RequestsSafe == Spec => []Safe
<1>1. Init => Safe
  BY InitSafe
<1>2. Safe /\ [Next]_vars => Safe'
  BY StepSafe
<1>3. QED
  BY <1>1, <1>2, PTL DEF Spec

(* Whichever way its calls end, a request gives its connection back        *)
(* (routing_repo.py:106-107).                                              *)
THEOREM NoConnectionLeaks == Spec => []SlotsAreReturned
<1>1. Safe => SlotsAreReturned
  BY DEF Safe
<1>2. QED
  BY <1>1, RequestsSafe, PTL

(* However many requests compete for however few connections, none waits   *)
(* longer than the timeouts of its calls add up to (routing_repo.py:106).  *)
THEOREM NobodyWaitsForEver == Spec => []WaitsAreBounded
<1>1. Safe => WaitsAreBounded
  BY ClocksInRange DEF WaitsAreBounded, InFlight, Busy
<1>2. QED
  BY <1>1, RequestsSafe, PTL

(* For a request whose calls all got a connection, a 504 is for a query    *)
(* that took the whole timeout and a 500 for an error of the database; for *)
(* any request, a 503 met an unreachable database or a failed check, and a *)
(* ready probe reached both databases (errors.py:40-51, health.py:4-6).    *)
(* What status an exhausted pool gives is not claimed: it is not the 503   *)
(* the API documents.                                                      *)
THEOREM StatusTellsWhatHappened == Spec => []StatusIsTruthful
<1>1. Safe => StatusIsTruthful
  <2> SUFFICES ASSUME Safe PROVE \A r \in Requests : Truthful(r)
    BY DEF StatusIsTruthful, Truthful
  <2>1. ASSUME NEW r \in Requests PROVE Truthful(r)
    <3>1. stage[r] = "answered" \/ code[r] = None
      BY DEF Safe, RequestSafe, Busy, InCall
    <3>2. None \notin {200, 500, 503, 504}
      BY NoneAssumption DEF Statuses
    <3>3. CASE stage[r] = "answered"
      BY <3>3 DEF Safe, RequestSafe
    <3>4. CASE code[r] = None
      BY <3>2, <3>4 DEF Truthful
    <3>5. QED
      BY <3>1, <3>3, <3>4
  <2>2. QED
    BY <2>1
<1>2. QED
  BY <1>1, RequestsSafe, PTL

(* A grace period longer than every operation lets the pools be disposed   *)
(* of with nobody in flight (main.py:140-148, Dockerfile:65).              *)
THEOREM ShutdownIsGraceful == Spec => []NobodyIsCutOff
<1>1. Safe => NobodyIsCutOff
  BY DEF Safe
<1>2. QED
  BY <1>1, RequestsSafe, PTL
=============================================================================
