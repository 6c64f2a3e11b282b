--------------------------- MODULE ServiceRequests ---------------------------
(***************************************************************************)
(* The routing service as its callers see it: validation and rate limit    *)
(* (api/routing.py), the two connection pools (main.py), the timeout that  *)
(* wraps every use of a pool (repositories/routing_repo.py, api/health.py, *)
(* api/etl_status.py), the status each outcome is turned into, and the     *)
(* shutdown.  What is cached and which network an answer is of is the      *)
(* subject of ServingCache.                                                *)
(*                                                                         *)
(* Time passes in ticks, and none passes while a timer has run out and has *)
(* not fired, or a request waits for a pool that has a slot (opening the   *)
(* connection is part of the query).  The awaits of Redis, at most 0.5 s   *)
(* each, take no tick.                                                     *)
(***************************************************************************)
EXTENDS Naturals, Sequences, FiniteSets

CONSTANTS
  Requests,      \* request slots
  PoolLimit,     \* routing_db_pool_size + routing_db_pool_max_overflow
  PoolTimeouts,  \* values of routing_db_pool_timeout_s
  CallTimeout,   \* routing_call_timeout_s
  StatusTimeout, \* the timeout in etl_status
  ProbeTimeout,  \* the timeout of each check of readyz
  RateLimit,     \* rate_limit_per_minute
  Window,        \* that minute
  Grace,         \* --timeout-graceful-shutdown
  None           \* no operation or no status yet

ASSUME LimitsAssumption ==
  /\ {PoolLimit, CallTimeout, StatusTimeout, ProbeTimeout, RateLimit, Window,
      Grace} \union PoolTimeouts \subseteq Nat \ {0}
  /\ IsFiniteSet(Requests)

Limited   == {"search", "categories"}
Operation == Limited \union {"etl_status", "readyz"}
Pools     == {"primary", "replica"}
Statuses  == {200, 422, 429, 500, 503, 504}
Outcome   == {"rows", "off_graph", "timeout", "unreachable", "error", "exhausted", "pool"}

ASSUME NoneAssumption == None \notin Statuses

VARIABLES
  poolTimeout, \* how long a pool lets a request wait, as the process was set up
  server,    \* "serving", "draining" after SIGTERM, or "stopped"
  draining,  \* ticks since SIGTERM
  reachable, \* per pool: whether its database answers
  window,    \* per limited operation: hits in this window, and its age
  out,       \* per pool: the requests that hold one of its connections
  stage,     \* per request: "idle", "wait" for a connection, "query", "answered"
  op,        \* what it asked for
  call,      \* which of the operation's calls it is in
  elapsed,   \* ticks in this call
  total,     \* ticks in all
  met,       \* the outcomes of its calls so far
  code       \* the status it is answered with

serverVars  == <<poolTimeout, server, draining, reachable>>
requestVars == <<out, stage, op, call, elapsed, total, met, code>>
vars == <<serverVars, window, requestVars>>

-----------------------------------------------------------------------------
(* The pools an operation uses one after the other, each under a timeout.  *)
Calls(o) == CASE o \in Limited     -> <<"replica">>
              [] o = "etl_status"  -> <<"primary">>
              [] o = "readyz"      -> <<"primary", "replica">>

Timeout(o) == CASE o \in Limited    -> CallTimeout
                [] o = "etl_status" -> StatusTimeout
                [] o = "readyz"     -> ProbeTimeout

Budget(o) == Len(Calls(o)) * Timeout(o)

Pool(r)  == Calls(op[r])[call[r]]
InFlight == {r \in Requests : stage[r] \in {"wait", "query"}}

PoolFull(r) == Cardinality(out[Pool(r)]) >= PoolLimit

(* Mutant: DBAPIError is caught before its subclass OperationalError.      *)
SearchStatusByBaseClass(outcome) ==
  CASE outcome = "rows"      -> 200
    [] outcome = "off_graph" -> 422
    [] outcome \in {"timeout", "exhausted"} -> 504
    [] OTHER                 -> 500

(* The exceptions of the repository and what the handlers make of them.    *)
(* asyncio.timeout raises the same TimeoutError over a query ("timeout")   *)
(* and over the wait for a full pool ("exhausted"); when the pool itself   *)
(* gives up ("pool"), it is SQLAlchemy's own, which no handler knows.      *)
SearchStatus(outcome) ==
  CASE outcome = "rows"        -> 200
    [] outcome = "off_graph"   -> 422
    [] outcome \in {"timeout", "exhausted"} -> 504
    [] outcome = "unreachable" -> 503
    [] OTHER                   -> 500

Failures(outcomes) == {m \in outcomes : m[2] # "rows"}

(* readyz is 503 when one of its checks failed; etl_status reports every   *)
(* failure in the body of a 200.                                           *)
StatusOf(o, outcome, outcomes) ==
  CASE o \in Limited    -> SearchStatus(outcome)
    [] o = "etl_status" -> 200
    [] o = "readyz"     -> IF Failures(outcomes) = {} THEN 200 ELSE 503

-----------------------------------------------------------------------------
Init ==
  /\ poolTimeout \in PoolTimeouts
  /\ server = "serving" /\ draining = 0
  /\ reachable = [p \in Pools |-> TRUE]
  /\ window = [o \in Limited |-> [count |-> 0, age |-> 0]]
  /\ out = [p \in Pools |-> {}]
  /\ stage = [r \in Requests |-> "idle"]
  /\ op = [r \in Requests |-> None]
  /\ call = [r \in Requests |-> 0]
  /\ elapsed = [r \in Requests |-> 0] /\ total = [r \in Requests |-> 0]
  /\ met = [r \in Requests |-> {}]
  /\ code = [r \in Requests |-> None]

Start(r, o) ==
  /\ server = "serving" /\ stage[r] = "idle"
  /\ op' = [op EXCEPT ![r] = o]
  /\ UNCHANGED <<serverVars, out, elapsed, total, met>>

AnswerAtOnce(r, status) ==
  /\ stage' = [stage EXCEPT ![r] = "answered"]
  /\ code' = [code EXCEPT ![r] = status]
  /\ UNCHANGED call

FirstCall(r) ==
  /\ stage' = [stage EXCEPT ![r] = "wait"]
  /\ call' = [call EXCEPT ![r] = 1]
  /\ UNCHANGED code

(* A body the request model refuses never reaches the decorated handler:   *)
(* it is not counted.                                                      *)
Invalid(r) ==
  /\ Start(r, "search")
  /\ AnswerAtOnce(r, 422)
  /\ UNCHANGED window

(* A fixed window, which starts at its first hit; hits over the limit are  *)
(* counted and refused.                                                    *)
CountHit(o) ==
  window' = [window EXCEPT ![o].count = IF @ > RateLimit THEN @ ELSE @ + 1]

Refuse(r, o) ==
  /\ Start(r, o)
  /\ window[o].count >= RateLimit
  /\ CountHit(o)
  /\ AnswerAtOnce(r, 429)

(* Admitted: answered from the cache, or the repository is called.         *)
Admit(r, o) ==
  /\ Start(r, o)
  /\ window[o].count < RateLimit
  /\ CountHit(o)
  /\ AnswerAtOnce(r, 200) \/ FirstCall(r)

Unlimited(r, o) ==
  /\ Start(r, o)
  /\ FirstCall(r)
  /\ UNCHANGED window

(* engine.connect(): a free slot of the pool, in no particular order.      *)
Connect(r) ==
  /\ stage[r] = "wait"
  /\ ~PoolFull(r)
  /\ out' = [out EXCEPT ![Pool(r)] = @ \union {r}]
  /\ stage' = [stage EXCEPT ![r] = "query"]
  /\ UNCHANGED <<serverVars, window, op, call, elapsed, total, met, code>>

(* Mutant: a call that fails keeps its connection.                         *)
ReturnOnSuccess(r, outcome) ==
  out' = IF outcome = "rows"
         THEN [out EXCEPT ![Pool(r)] = @ \ {r}]
         ELSE out

(* Leaving `async with engine.connect()`, however it is left.              *)
Return(r, outcome) == out' = [out EXCEPT ![Pool(r)] = @ \ {r}]

(* A call ends; readyz goes on to its second check even if the first one   *)
(* failed, every other operation is answered.                              *)
EndCall(r, outcome) ==
  LET outcomes == met[r] \union {<<Pool(r), outcome>>}
  IN  /\ Return(r, outcome)
      /\ met' = [met EXCEPT ![r] = outcomes]
      /\ elapsed' = [elapsed EXCEPT ![r] = 0]
      /\ \/ /\ call[r] < Len(Calls(op[r]))
            /\ call' = [call EXCEPT ![r] = @ + 1]
            /\ stage' = [stage EXCEPT ![r] = "wait"]
            /\ UNCHANGED code
         \/ /\ call[r] = Len(Calls(op[r]))
            /\ stage' = [stage EXCEPT ![r] = "answered"]
            /\ code' = [code EXCEPT ![r] = StatusOf(op[r], outcome, outcomes)]
            /\ UNCHANGED call
      /\ UNCHANGED <<serverVars, window, op, total>>

(* What the database or its driver makes of the query.  An error of the    *)
(* driver may be any class; only OperationalError counts as unreachable.   *)
Result(r) ==
  /\ stage[r] = "query"
  /\ \/ reachable[Pool(r)] /\ EndCall(r, "rows")
     \/ reachable[Pool(r)] /\ op[r] = "search" /\ EndCall(r, "off_graph")
     \/ ~reachable[Pool(r)] /\ EndCall(r, "unreachable")
     \/ EndCall(r, "error")

(* Mutant: the timeout is inside the connection, around the query only.    *)
TimesOutInQuery(r) == stage[r] = "query" /\ elapsed[r] >= Timeout(op[r])

(* asyncio.timeout covers the wait for a connection and the query.         *)
TimesOut(r) == stage[r] \in {"wait", "query"} /\ elapsed[r] >= Timeout(op[r])

PoolGivesUp(r) == stage[r] = "wait" /\ elapsed[r] >= poolTimeout

TimeOut(r) ==
  /\ TimesOut(r)
  /\ EndCall(r, IF stage[r] = "wait" THEN "exhausted" ELSE "timeout")

GiveUpPool(r) == PoolGivesUp(r) /\ EndCall(r, "pool")

(* The client has its answer.                                              *)
Leave(r) ==
  /\ stage[r] = "answered"
  /\ stage' = [stage EXCEPT ![r] = "idle"]
  /\ op' = [op EXCEPT ![r] = None]
  /\ call' = [call EXCEPT ![r] = 0]
  /\ total' = [total EXCEPT ![r] = 0]
  /\ met' = [met EXCEPT ![r] = {}]
  /\ code' = [code EXCEPT ![r] = None]
  /\ UNCHANGED <<serverVars, window, out, elapsed>>

-----------------------------------------------------------------------------
(* A database goes away or comes back.                                     *)
Outage(p) ==
  /\ reachable' = [reachable EXCEPT ![p] = ~@]
  /\ UNCHANGED <<poolTimeout, server, draining, window, requestVars>>

(* SIGTERM: uvicorn accepts no more requests and waits for those in        *)
(* flight, at most for the grace period; then the lifespan disposes of the *)
(* pools.                                                                  *)
Terminate ==
  /\ server = "serving"
  /\ server' = "draining"
  /\ UNCHANGED <<poolTimeout, draining, reachable, window, requestVars>>

(* Mutant: the pools are disposed of at SIGTERM.                           *)
DrainedAtOnce == TRUE

Drained == InFlight = {} \/ draining >= Grace

(* Whoever is still in flight is cancelled and never answered.             *)
Stop ==
  /\ server = "draining" /\ Drained
  /\ server' = "stopped"
  /\ UNCHANGED <<poolTimeout, draining, reachable, window, requestVars>>

NextWindow(w) ==
  CASE w.count = 0           -> w
    [] w.age + 1 >= Window   -> [count |-> 0, age |-> 0]
    [] OTHER                 -> [w EXCEPT !.age = @ + 1]

Tick ==
  /\ server # "stopped"
  /\ \A r \in InFlight : ~TimesOut(r) /\ ~PoolGivesUp(r) /\ (stage[r] = "wait" => PoolFull(r))
  /\ server = "draining" => ~Drained
  /\ elapsed' = [r \in Requests |-> elapsed[r] + (IF r \in InFlight THEN 1 ELSE 0)]
  /\ total' = [r \in Requests |-> total[r] + (IF r \in InFlight THEN 1 ELSE 0)]
  /\ draining' = IF server = "draining" THEN draining + 1 ELSE 0
  /\ window' = [o \in Limited |-> NextWindow(window[o])]
  /\ UNCHANGED <<poolTimeout, server, reachable, out, stage, op, call, met, code>>

Handle(r) ==
  \/ Invalid(r)
  \/ \E o \in Limited : Refuse(r, o) \/ Admit(r, o)
  \/ \E o \in Operation \ Limited : Unlimited(r, o)
  \/ server # "stopped" /\ (Connect(r) \/ Result(r) \/ TimeOut(r) \/ GiveUpPool(r))
  \/ Leave(r)

Next ==
  \/ \E r \in Requests : Handle(r)
  \/ \E p \in Pools : Outage(p)
  \/ Terminate \/ Stop \/ Tick

Spec == Init /\ [][Next]_vars

-----------------------------------------------------------------------------
(* Properties.                                                             *)

(* No connection is leaked, whichever way a call ends: those checked out   *)
(* of a pool are those of the requests querying its database, at most as   *)
(* many as the pool may open (routing_repo.py:106-107, main.py:86-99).     *)
SlotsAreReturned ==
  \A p \in Pools :
    /\ out[p] = {r \in Requests : stage[r] = "query" /\ Pool(r) = p}
    /\ Cardinality(out[p]) <= PoolLimit

(* No request is kept waiting longer than the timeouts of its calls add    *)
(* up to, however long the queue for the pool is and whatever the database *)
(* does (routing_repo.py:106).                                             *)
WaitsAreBounded == \A r \in InFlight : total[r] <= Budget(op[r])

(* Did the pools give each of its calls so far a connection?               *)
Connected(r) == \A m \in met[r] : m[2] \notin {"exhausted", "pool"}

(* What the status says happened, if the pools had a connection for every  *)
(* call: a 504 is for a query that took the whole timeout, the wait for    *)
(* its connection included, a 500 for an error of the database.  A 503     *)
(* always met an unreachable database or, from readyz, a failed check, and *)
(* a ready service reached both databases (errors.py:40-51,                *)
(* health.py:4-6).  A pool that has none: ExhaustedPoolIs503.              *)
StatusIsTruthful ==
  \A r \in Requests :
    LET outcomes == {m[2] : m \in met[r]}
    IN  /\ Connected(r) /\ code[r] = 504 =>
             "timeout" \in outcomes /\ total[r] = CallTimeout
        /\ Connected(r) /\ code[r] = 500 => "error" \in outcomes
        /\ code[r] = 503 => IF op[r] = "readyz" THEN Failures(met[r]) # {}
                                                ELSE "unreachable" \in outcomes
        /\ code[r] = 200 /\ op[r] = "readyz" =>
             met[r] = {<<p, "rows">> : p \in Pools}

(* With a grace period longer than the longest operation, the pools        *)
(* are disposed of with every request answered and every connection back   *)
(* (main.py:140-148, Dockerfile:65).                                       *)
NobodyIsCutOff ==
  server = "stopped" /\ (\A o \in Operation : Budget(o) < Grace) =>
    InFlight = {} /\ \A p \in Pools : out[p] = {}

-----------------------------------------------------------------------------
(* What the repository says of the service and the code does not do.       *)

(* errors.py:48, architecture.md:112 and local-operations.md:243: a call   *)
(* that is not given a connection, the pool being exhausted, is a 503.     *)
ExhaustedPoolIs503 ==
  \A r \in Requests :
    op[r] \in Limited /\ code[r] # None /\ ~Connected(r) => code[r] = 503
=============================================================================
