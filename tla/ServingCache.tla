---------------------------- MODULE ServingCache ----------------------------
(***************************************************************************)
(* How a request is answered, and what keeps the answer fresh: the routing *)
(* service (services/closest_facility_service.py, the Redis wrapper        *)
(* cache/closest_facility_cache.py, the replica calls of                   *)
(* repositories/routing_repo.py, the start-up of main.py) beside the ETL's *)
(* swap and flush (infra/etl), the Alembic migrations of the function, and *)
(* the streaming replica that serves every routing read.                   *)
(*                                                                         *)
(* The primary is the sequence `wal` of the states it committed, one for   *)
(* every swap, rollback, migration and downgrade; the replica is somewhere *)
(* in it.  An answer is abstracted to the two positions of `wal` it was    *)
(* read at: `from`, where closest_facility() was called and snapped the    *)
(* incident to a vertex, and `to`, where it read facilities and ways.      *)
(***************************************************************************)
EXTENDS Naturals, Sequences, FiniteSets

CONSTANTS
  Requests,    \* request slots (bounds how many are in flight)
  Questions,   \* distinct quantised closest-facility questions
  Categories,  \* GET /v1/facility-categories
  MaxWal,      \* states the primary goes through (bounds the model)
  MaxRestarts, \* times the service is restarted (bounds the model)
  MaxInFlight, \* SETs under way to Redis at a time (bounds the model)
  Miss,        \* no entry under a key
  None         \* a request has no key or no answer yet

Kind     == {"start", "swap", "rollback", "migrate", "downgrade"}
Fallback == 0              \* settings.function_version, "v1": no function body
Question == Questions \union {Categories}
Version  == 0..MaxWal
Key      == [version: Version, question: Question]
Answer   == [from: 1..MaxWal, to: 1..MaxWal]
Committed == [kind: Kind, net: 1..MaxWal, prev: 0..MaxWal, body: 1..MaxWal]

ASSUME MaxWalAssumption      == MaxWal \in Nat \ {0}
ASSUME MaxRestartsAssumption == MaxRestarts \in Nat
ASSUME CategoriesAssumption  == Categories \notin Questions
ASSUME MissAssumption        == Miss \notin Answer
ASSUME NoneAssumption        == None \notin Key \union Answer
ASSUME MaxInFlightAssumption == MaxInFlight \in Nat

VARIABLES
  wal,       \* the states the primary committed
  replayed,  \* how far the replica has replayed them
  version,   \* the function_version the service read when it started
  restarts,  \* how often it restarted
  redis,     \* Key -> Answer or Miss
  inFlight,  \* SETs sent to Redis and neither applied nor lost
  flush,     \* "none", "due" (swap committed), or the namespace being scanned
  toScan,    \* keys the current SCAN iteration is bound to return
  owed,      \* what was there when the flush began, and still is
  pc,        \* where each request is
  key,       \* the cache key it built
  answer     \* what it read from the replica

etlVars == <<flush, toScan, owed>>
reqVars == <<pc, key, answer>>
vars == <<wal, replayed, version, restarts, redis, inFlight, etlVars, reqVars>>

-----------------------------------------------------------------------------
Primary == wal[Len(wal)]
Replica == wal[replayed]

Commit(kind, net, prev, body) ==
  /\ Len(wal) < MaxWal
  /\ wal' = Append(wal, [kind |-> kind, net |-> net, prev |-> prev, body |-> body])
  /\ UNCHANGED <<replayed, version, restarts, redis, inFlight, reqVars>>

(* A service that could not read its version at its first start is the one *)
(* a Restart leaves.                                                       *)
Init ==
  /\ wal = <<[kind |-> "start", net |-> 1, prev |-> 0, body |-> 1]>>
  /\ replayed = 1
  /\ version = Primary.body
  /\ restarts = 0
  /\ redis = [k \in Key |-> Miss]
  /\ inFlight = {}
  /\ flush = "none" /\ toScan = {} /\ owed = {}
  /\ pc = [r \in Requests |-> "idle"]
  /\ key = [r \in Requests |-> None]
  /\ answer = [r \in Requests |-> None]

(* swap_schema.sql commits; the flush is the ETL's next step.  The new     *)
(* network gets the number of the commit.                                  *)
Swap ==
  /\ flush = "none"
  /\ Commit("swap", Len(wal) + 1, Primary.net, Primary.body)
  /\ flush' = "due"
  /\ UNCHANGED <<toScan, owed>>

(* The manual rollback: no flush.                                          *)
Rollback ==
  /\ Primary.prev # 0
  /\ Commit("rollback", Primary.prev, 0, Primary.body)
  /\ UNCHANGED etlVars

(* A migration replaces closest_facility() and bumps function_version in   *)
(* one transaction; its downgrade restores both.                           *)
Migrate ==
  /\ Commit("migrate", Primary.net, Primary.prev, Primary.body + 1)
  /\ UNCHANGED etlVars

(* Mutant: the base revision can be downgraded too.                        *)
DowngradeBelowBase ==
  /\ Commit("downgrade", Primary.net, Primary.prev, Primary.body - 1)
  /\ UNCHANGED etlVars

Downgrade ==
  /\ Primary.body > 1
  /\ Commit("downgrade", Primary.net, Primary.prev, Primary.body - 1)
  /\ UNCHANGED etlVars

(* Mutant: the LOCK TABLE statements are dropped from the swap.            *)
LocksNothing(kind) == FALSE

(* The swap locks ways and ways_vertices_pgr exclusively before it renames; *)
(* the rollback and the migrations rename or replace without a lock.       *)
LocksTables(kind) == kind = "swap"

(* The replica replays a lock only once no query on it holds the table.    *)
Replay ==
  /\ replayed < Len(wal)
  /\ LocksTables(wal[replayed + 1].kind) => \A r \in Requests : pc[r] # "routing"
  /\ replayed' = replayed + 1
  /\ UNCHANGED <<wal, version, restarts, redis, inFlight, etlVars, reqVars>>

-----------------------------------------------------------------------------
(* The ETL's flush.  SCAN returns every key that is there from its start   *)
(* to its end, and may return others.                                      *)
InSpace(k, space) == (k.question = Categories) = (space = "cfc")

Present(space) == {k \in Key : redis[k] # Miss /\ InSpace(k, space)}

BeginFlush ==
  /\ flush = "due"
  /\ flush' = "cf"
  /\ toScan' = Present("cf")
  /\ owed' = Present("cf") \union Present("cfc")
  /\ UNCHANGED <<wal, replayed, version, restarts, redis, inFlight, reqVars>>

DeleteKey(k) ==
  /\ flush \in {"cf", "cfc"}
  /\ k \in Present(flush)
  /\ redis' = [redis EXCEPT ![k] = Miss]
  /\ toScan' = toScan \ {k} /\ owed' = owed \ {k}
  /\ UNCHANGED <<wal, replayed, version, restarts, inFlight, flush, reqVars>>

(* Mutant: the loop over the two patterns stops after cf:*.                *)
NextNamespaceForgotten ==
  /\ flush = "cf" /\ toScan = {}
  /\ flush' = "none"
  /\ UNCHANGED <<wal, replayed, version, restarts, redis, inFlight, toScan, owed,
                 reqVars>>

(* Cursor 0: the scan of cf:* is over, cfc:* is next.                      *)
NextNamespace ==
  /\ flush = "cf" /\ toScan = {}
  /\ flush' = "cfc"
  /\ toScan' = Present("cfc")
  /\ UNCHANGED <<wal, replayed, version, restarts, redis, inFlight, owed, reqVars>>

EndFlush ==
  /\ flush = "cfc" /\ toScan = {}
  /\ flush' = "none"
  /\ UNCHANGED <<wal, replayed, version, restarts, redis, inFlight, toScan, owed,
                 reqVars>>

(* The ETL dies after the commit, REDIS_URL is unset, Redis does not       *)
(* answer, or a reply that arrives in pieces ends the scan early: the rest *)
(* of the flush does not happen, and it claims nothing of what it left.    *)
CutFlushShort ==
  /\ flush # "none"
  /\ flush' = "none"
  /\ toScan' = {} /\ owed' = {}
  /\ UNCHANGED <<wal, replayed, version, restarts, redis, inFlight, reqVars>>

-----------------------------------------------------------------------------
(* Redis.                                                                  *)

(* Mutant: closest-facility entries are SET without ex=.                   *)
ExpireCategoriesOnly(k) ==
  /\ redis[k] # Miss /\ k.question = Categories
  /\ redis' = [redis EXCEPT ![k] = Miss]
  /\ toScan' = toScan \ {k} /\ owed' = owed \ {k}
  /\ UNCHANGED <<wal, replayed, version, restarts, inFlight, flush, reqVars>>

(* The TTL given with every SET runs out, or the entry is evicted.         *)
Expire(k) ==
  /\ redis[k] # Miss
  /\ redis' = [redis EXCEPT ![k] = Miss]
  /\ toScan' = toScan \ {k} /\ owed' = owed \ {k}
  /\ UNCHANGED <<wal, replayed, version, restarts, inFlight, flush, reqVars>>

(* A SET reaches Redis, possibly long after its sender gave up on it.      *)
ApplySet(w) ==
  /\ w \in inFlight
  /\ redis' = [redis EXCEPT ![w.key] = w.answer]
  /\ inFlight' = inFlight \ {w}
  /\ owed' = owed \ {w.key}
  /\ UNCHANGED <<wal, replayed, version, restarts, flush, toScan, reqVars>>

LoseSet(w) ==
  /\ w \in inFlight
  /\ inFlight' = inFlight \ {w}
  /\ UNCHANGED <<wal, replayed, version, restarts, redis, etlVars, reqVars>>

-----------------------------------------------------------------------------
(* The service.                                                            *)
InService == {"get", "repo", "routing", "computed"}

(* Mutant: the version is read from the primary.                           *)
VersionOnPrimary == {Primary.body, Fallback}

(* _read_function_version: the replica's table, or the fallback if that    *)
(* fails.                                                                  *)
VersionRead == {Replica.body, Fallback}

(* The service stops, with or without the requests in flight, and starts   *)
(* again.                                                                  *)
Restart ==
  /\ restarts < MaxRestarts
  /\ restarts' = restarts + 1
  /\ version' \in VersionRead
  /\ pc' = [r \in Requests |-> "idle"]
  /\ key' = [r \in Requests |-> None]
  /\ answer' = [r \in Requests |-> None]
  /\ UNCHANGED <<wal, replayed, redis, inFlight, etlVars>>

Goto(r, label) == pc' = [pc EXCEPT ![r] = label]

(* The response, whatever its status, is sent.                             *)
Respond(r) ==
  /\ Goto(r, "idle")
  /\ key' = [key EXCEPT ![r] = None]
  /\ answer' = [answer EXCEPT ![r] = None]

Step == UNCHANGED <<wal, replayed, version, restarts, redis, etlVars>>

(* build_key or categories_key, with the version of this process.          *)
Begin(r, question) ==
  /\ pc[r] = "idle"
  /\ Goto(r, "get")
  /\ key' = [key EXCEPT ![r] = [version |-> version, question |-> question]]
  /\ Step /\ UNCHANGED <<inFlight, answer>>

Hit(r) ==
  /\ pc[r] = "get"
  /\ redis[key[r]] # Miss
  /\ Respond(r)
  /\ Step /\ UNCHANGED inFlight

(* A miss; a timeout, an error or an undecodable payload counts as one.    *)
MissOrError(r) ==
  /\ pc[r] = "get"
  /\ Goto(r, "repo")
  /\ Step /\ UNCHANGED <<inFlight, key, answer>>

(* closest_facility() is called and snaps the incident: from here to its   *)
(* end it holds ways_vertices_pgr.                                         *)
Snap(r) ==
  /\ pc[r] = "repo" /\ key[r].question # Categories
  /\ Goto(r, "routing")
  /\ answer' = [answer EXCEPT ![r] = [from |-> replayed, to |-> replayed]]
  /\ Step /\ UNCHANGED <<inFlight, key>>

(* It reads the facilities in the buffer and the ways, and returns.        *)
Route(r) ==
  /\ pc[r] = "routing"
  /\ Goto(r, "computed")
  /\ answer' = [answer EXCEPT ![r].to = replayed]
  /\ Step /\ UNCHANGED <<inFlight, key>>

(* list_categories: one SELECT.                                            *)
ListCategories(r) ==
  /\ pc[r] = "repo" /\ key[r].question = Categories
  /\ Goto(r, "computed")
  /\ answer' = [answer EXCEPT ![r] = [from |-> replayed, to |-> replayed]]
  /\ Step /\ UNCHANGED <<inFlight, key>>

(* Mutant: the timeout covers the wait for a connection only.              *)
RepoFailsBeforeQuery(r) ==
  /\ pc[r] = "repo"
  /\ Respond(r)
  /\ Step /\ UNCHANGED inFlight

(* The 5 s timeout, an unreachable replica, an incident off the graph or   *)
(* any other error of the call: an error response, and nothing is cached.  *)
RepoFails(r) ==
  /\ pc[r] \in {"repo", "routing"}
  /\ Respond(r)
  /\ Step /\ UNCHANGED inFlight

(* The SET is sent, or cannot be; within 0.5 s the request goes on.        *)
Store(r) ==
  /\ pc[r] = "computed"
  /\ Respond(r)
  /\ \/ UNCHANGED inFlight
     \/ /\ Cardinality(inFlight) < MaxInFlight
        /\ inFlight' = inFlight \union {[key |-> key[r], answer |-> answer[r]]}
  /\ Step

-----------------------------------------------------------------------------
Serve(r) == Hit(r) \/ MissOrError(r) \/ Snap(r) \/ Route(r) \/ ListCategories(r)
              \/ RepoFails(r) \/ Store(r)

Etl == Swap \/ BeginFlush \/ NextNamespace \/ EndFlush \/ CutFlushShort
         \/ \E k \in Key : DeleteKey(k)

Operator == Rollback \/ Migrate \/ Downgrade \/ Restart

Redis == \/ \E k \in Key : Expire(k)
         \/ \E w \in inFlight : ApplySet(w) \/ LoseSet(w)

Next == \/ Etl \/ Operator \/ Redis \/ Replay
        \/ \E r \in Requests : Serve(r) \/ \E q \in Question : Begin(r, q)

Spec == Init /\ [][Next]_vars

(* Timeouts bound every await of a request (RepoFails, MissOrError and     *)
(* Store); entries expire; a SET is applied or lost; the replica catches   *)
(* up, strongly fair because the lock it waits for is granted in order,    *)
(* new queries queueing behind it.  A query or an ETL step need never      *)
(* succeed.  Each subscript is a variable that the actions under it change *)
(* at every step, which is all that `vars` would say of them.              *)
FairSpec ==
  /\ Spec
  /\ SF_replayed(Replay)
  /\ WF_inFlight(\E w \in inFlight : ApplySet(w) \/ LoseSet(w))
  /\ \A k \in Key : WF_redis(Expire(k))
  /\ \A r \in Requests : WF_pc(MissOrError(r) \/ RepoFails(r) \/ Store(r))

-----------------------------------------------------------------------------
(* Properties.                                                             *)

TypeOK ==
  /\ wal \in Seq(Committed) /\ Len(wal) \in 1..MaxWal
  /\ replayed \in 1..Len(wal)
  /\ version \in Version
  /\ restarts \in 0..MaxRestarts
  /\ redis \in [Key -> Answer \union {Miss}]
  /\ inFlight \in SUBSET [key: Key, answer: Answer]
  /\ flush \in {"none", "due", "cf", "cfc"}
  /\ toScan \in SUBSET Key /\ owed \in SUBSET Key
  /\ pc \in [Requests -> InService \union {"idle"}]
  /\ key \in [Requests -> Key \union {None}]
  /\ answer \in [Requests -> Answer \union {None}]

Answers ==
  {answer[r] : r \in {r \in Requests : answer[r] # None}}
    \union {w.answer : w \in inFlight}
    \union {redis[k] : k \in {k \in Key : redis[k] # Miss}}

(* No swap falls between two statements of a call: an answer, wherever it  *)
(* is kept, routes on one network (swap_schema.sql:60-61).  Only the       *)
(* rollback, which takes no lock, can mix two.                             *)
OneNetworkPerAnswer ==
  \A a \in Answers :
    wal[a.from].net # wal[a.to].net =>
      \E i \in 1..Len(wal) : a.from < i /\ i <= a.to /\ wal[i].kind = "rollback"

(* A flush that goes through leaves nothing of what it found: every entry  *)
(* of either namespace was SET after it began, however SETs, expiries and  *)
(* deletions interleave with its scans.                                    *)
FlushClearsWhatItFound == flush \in {"none", "due"} => owed = {}

(* After a restart the service is never answered, under the version it     *)
(* read, by an older function body, whatever the replica's lag             *)
(* (main.py:108-112).  A downgrade moves bodies backwards on purpose.      *)
KeyVersionIsNotAhead ==
  (\A i \in 1..Len(wal) : wal[i].kind # "downgrade") =>
    \A k \in Key : redis[k] # Miss => wal[redis[k].from].body >= k.version

(* A request ends, whether or not Redis and the replica answer.            *)
RequestsEnd == \A r \in Requests : pc[r] \in InService ~> pc[r] \notin InService

(* Once the primary stops changing, every answer left in the cache is one  *)
(* of its network and of its function body, whatever became of the flush   *)
(* and whether or not the service is restarted (swap_schema.sql:27-29).    *)
Fresh(entry) ==
  \A i \in {entry.from, entry.to} :
    wal[i].net = Primary.net /\ wal[i].body = Primary.body

StaleEntriesExpire ==
  <>[](\A k \in Key : redis[k] # Miss => Fresh(redis[k]))

-----------------------------------------------------------------------------
(* What the repository says of the cache and the code does not do.  No cfg *)
(* lists it: as an INVARIANT of serving_cache it is violated.              *)

(* main.py:54-56: a migration invalidates the answers cached before it:    *)
(* once it is replayed, a service that read its version from the table     *)
(* finds none of them under the keys it builds.                            *)
MigrationInvalidates ==
  Replica.kind = "migrate" /\ version # Fallback =>
    \A q \in Questions :
      LET k == [version |-> version, question |-> q]
      IN  redis[k] # Miss => wal[redis[k].from].body >= Replica.body
=============================================================================
