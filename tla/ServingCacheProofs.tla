------------------------- MODULE ServingCacheProofs -------------------------
(***************************************************************************)
(* Theorems about ServingCache, for any number of requests and questions   *)
(* and any length of the primary's log.                                    *)
(***************************************************************************)
EXTENDS ServingCache, SequenceTheorems, TLAPS

Log == 1..Len(wal)

(* A commit changes the body by one at most.                               *)
LogGrows == \A i \in Log : wal[i].body <= i

(* What a request holds at each label.                                     *)
RequestHolds(r) ==
  /\ pc[r] = "idle" <=> key[r] = None
  /\ pc[r] \in {"routing", "computed"} <=> answer[r] # None
  /\ pc[r] = "routing" => answer[r].to = answer[r].from

Typed == TypeOK /\ LogGrows /\ \A r \in Requests : RequestHolds(r)

-----------------------------------------------------------------------------
(* A commit appends one entry to the log and changes nothing that was in   *)
(* it.                                                                     *)
LEMMA CommitAppends ==
  ASSUME Typed, NEW kind \in Kind, NEW net \in 1..MaxWal, NEW prev \in 0..MaxWal,
         NEW body \in 1..MaxWal, Commit(kind, net, prev, body)
  PROVE  /\ wal' \in Seq(Committed) /\ Len(wal') = Len(wal) + 1
         /\ Len(wal') \in 1..MaxWal
         /\ \A i \in Log : wal'[i] = wal[i]
         /\ wal'[Len(wal')] =
              [kind |-> kind, net |-> net, prev |-> prev, body |-> body]
         /\ UNCHANGED <<replayed, version, restarts, redis, inFlight, reqVars>>
<1> DEFINE c == [kind |-> kind, net |-> net, prev |-> prev, body |-> body]
<1>1. c \in Committed
  BY DEF Committed
<1>2. wal \in Seq(Committed) /\ Len(wal) \in 1..MaxWal /\ Len(wal) < MaxWal
  BY DEF Typed, TypeOK, Commit
<1>3. wal' = Append(wal, c)
  BY DEF Commit
<1>4. /\ wal' \in Seq(Committed) /\ Len(wal') = Len(wal) + 1
      /\ \A i \in 1..Len(wal) : wal'[i] = wal[i]
      /\ wal'[Len(wal) + 1] = c
  BY <1>1, <1>2, <1>3, AppendProperties
<1>5. Len(wal') \in 1..MaxWal
  BY <1>2, <1>4, MaxWalAssumption
<1>6. QED
  BY <1>4, <1>5 DEF Commit, Log

(* The entries of the log, one by one.                                     *)
LEMMA LogEntries ==
  ASSUME Typed
  PROVE  /\ Len(wal) \in Nat /\ Len(wal) \in Log /\ replayed \in Log
         /\ \A i \in Log : /\ wal[i].kind \in Kind /\ wal[i].net \in 1..MaxWal
                           /\ wal[i].prev \in 0..MaxWal
                           /\ wal[i].body \in 1..MaxWal /\ wal[i].body <= i
<1>1. /\ wal \in Seq(Committed) /\ Len(wal) \in 1..MaxWal
      /\ replayed \in 1..Len(wal)
  BY DEF Typed, TypeOK
<1>2. \A i \in Log : wal[i] \in Committed
  BY <1>1, ElementOfSeq DEF Log
<1>3. Len(wal) \in Nat /\ Len(wal) \in Log /\ replayed \in Log
  BY <1>1, MaxWalAssumption DEF Log
<1>4. \A i \in Log : wal[i].body <= i
  BY DEF Typed, LogGrows
<1>5. QED
  BY <1>2, <1>3, <1>4 DEF Committed

LEMMA TypedInit == Init => Typed
<1> SUFFICES ASSUME Init PROVE Typed
  OBVIOUS
<1> DEFINE c == [kind |-> "start", net |-> 1, prev |-> 0, body |-> 1]
<1>1. c \in Committed
  BY MaxWalAssumption DEF Committed, Kind
<1>2. wal = <<c>>
  BY DEF Init
<1>3. wal \in Seq(Committed) /\ Len(wal) = 1 /\ wal[1] = c
  BY <1>1, <1>2
<1>4. version \in Version
  BY <1>3, MaxWalAssumption DEF Init, Primary, Fallback, Version
<1>5. TypeOK
  BY <1>3, <1>4, MaxWalAssumption, MaxRestartsAssumption
  DEF Init, TypeOK, InService
<1>6. LogGrows
  BY <1>3 DEF Init, LogGrows, Log
<1>7. \A r \in Requests : RequestHolds(r)
  BY DEF Init, RequestHolds
<1>8. QED
  BY <1>5, <1>6, <1>7 DEF Typed

(* A commit keeps the types if it numbers its network and body within the  *)
(* log.                                                                    *)
LEMMA CommitKeepsTypes ==
  ASSUME Typed, NEW kind \in Kind, NEW net \in 1..MaxWal, NEW prev \in 0..MaxWal,
         NEW body \in 1..Len(wal) + 1, Commit(kind, net, prev, body),
         UNCHANGED <<toScan, owed>>, flush' \in {flush, "due"}
  PROVE  Typed'
<1>1. body \in 1..MaxWal
  BY MaxWalAssumption DEF Typed, TypeOK, Commit
<1>2. /\ wal' \in Seq(Committed) /\ Len(wal') = Len(wal) + 1
      /\ Len(wal') \in 1..MaxWal
      /\ \A i \in Log : wal'[i] = wal[i]
      /\ wal'[Len(wal')] =
           [kind |-> kind, net |-> net, prev |-> prev, body |-> body]
      /\ UNCHANGED <<replayed, version, restarts, redis, inFlight, reqVars>>
  BY <1>1, CommitAppends
<1>3. Len(wal) \in Nat /\ replayed \in 1..Len(wal)
  BY LogEntries, MaxWalAssumption DEF Log, Typed, TypeOK
<1>4. TypeOK'
  BY <1>2, <1>3 DEF Typed, TypeOK, reqVars
<1>5. LogGrows'
  <2>1. \A i \in 1..Len(wal') : i \in Log \/ i = Len(wal')
    BY <1>2, <1>3 DEF Log
  <2>2. \A i \in 1..Len(wal') : wal'[i].body <= i
    BY <1>2, <1>3, <2>1 DEF Typed, LogGrows
  <2>3. QED
    BY <2>2 DEF LogGrows, Log
<1>6. \A r \in Requests : RequestHolds(r)'
  BY <1>2 DEF Typed, RequestHolds, reqVars
<1>7. QED
  BY <1>4, <1>5, <1>6 DEF Typed

LEMMA RequestKeepsTypes ==
  ASSUME Typed, NEW r \in Requests,
         \/ Hit(r) \/ MissOrError(r) \/ Snap(r) \/ Route(r)
         \/ ListCategories(r) \/ RepoFails(r) \/ Store(r)
         \/ \E q \in Question : Begin(r, q)
  PROVE  Typed'
<1>0. /\ UNCHANGED <<wal, replayed, version, restarts, redis, flush, toScan,
                     owed>>
  BY DEF Hit, MissOrError, Snap, Route, ListCategories, RepoFails, Store, Begin,
         Step, etlVars
<1>1. /\ pc \in [Requests -> InService \union {"idle"}]
      /\ key \in [Requests -> Key \union {None}]
      /\ answer \in [Requests -> Answer \union {None}]
      /\ inFlight \in SUBSET [key: Key, answer: Answer]
      /\ version \in Version /\ replayed \in 1..MaxWal
      /\ None \notin Key /\ None \notin Answer
      /\ RequestHolds(r)
  BY LogEntries, NoneAssumption, MaxWalAssumption DEF Typed, TypeOK, Log
<1>2. [from |-> replayed, to |-> replayed] \in Answer
  BY <1>1 DEF Answer
<1>3. /\ pc' \in [Requests -> InService \union {"idle"}]
      /\ key' \in [Requests -> Key \union {None}]
      /\ answer' \in [Requests -> Answer \union {None}]
      /\ inFlight' \in SUBSET [key: Key, answer: Answer]
      /\ RequestHolds(r)'
      /\ \A s \in Requests \ {r} :
           pc'[s] = pc[s] /\ key'[s] = key[s] /\ answer'[s] = answer[s]
  <2>1. CASE Hit(r) \/ RepoFails(r)
    BY <2>1, <1>1 DEF Hit, RepoFails, Respond, Goto, InService, RequestHolds
  <2>2. CASE MissOrError(r)
    BY <2>2, <1>1 DEF MissOrError, Goto, InService, RequestHolds
  <2>3. CASE Snap(r)
    BY <2>3, <1>1, <1>2 DEF Snap, Goto, InService, RequestHolds
  <2>4. CASE Route(r)
    <3>1. answer[r] \in Answer
      BY <2>4, <1>1 DEF Route, RequestHolds
    <3>2. /\ answer' = [answer EXCEPT ![r] = [answer[r] EXCEPT !.to = replayed]]
          /\ [answer[r] EXCEPT !.to = replayed] \in Answer
      BY <2>4, <3>1, <1>1 DEF Route, Answer
    <3>3. QED
      BY <2>4, <1>1, <3>1, <3>2 DEF Route, Goto, InService, RequestHolds
  <2>5. CASE ListCategories(r)
    BY <2>5, <1>1, <1>2 DEF ListCategories, Goto, InService, RequestHolds
  <2>6. CASE Store(r)
    <3>1. key[r] \in Key /\ answer[r] \in Answer
      BY <2>6, <1>1 DEF Store, RequestHolds
    <3>2. [key |-> key[r], answer |-> answer[r]] \in [key: Key, answer: Answer]
      BY <3>1
    <3>3. inFlight' \in SUBSET [key: Key, answer: Answer]
      BY <2>6, <1>1, <3>2 DEF Store
    <3>4. QED
      BY <2>6, <1>1, <3>3 DEF Store, Respond, Goto, InService, RequestHolds
  <2>7. CASE \E q \in Question : Begin(r, q)
    <3> PICK q \in Question : Begin(r, q)
      BY <2>7
    <3>1. [version |-> version, question |-> q] \in Key
      BY <1>1 DEF Key
    <3>2. QED
      BY <1>1, <3>1 DEF Begin, Goto, InService, RequestHolds
  <2>8. QED
    BY <2>1, <2>2, <2>3, <2>4, <2>5, <2>6, <2>7
<1>4. TypeOK'
  BY <1>0, <1>3 DEF Typed, TypeOK
<1>5. LogGrows'
  BY <1>0 DEF Typed, LogGrows, Log
<1>6. \A s \in Requests : RequestHolds(s)'
  BY <1>3 DEF Typed, RequestHolds
<1>7. QED
  BY <1>4, <1>5, <1>6 DEF Typed

LEMMA TypedStep == Typed /\ [Next]_vars => Typed'
<1> SUFFICES ASSUME Typed, [Next]_vars PROVE Typed'
  OBVIOUS
<1> USE DEF Typed
<1>a. /\ Len(wal) \in Nat /\ Len(wal) \in Log /\ replayed \in Log
      /\ \A i \in Log : /\ wal[i].kind \in Kind /\ wal[i].net \in 1..MaxWal
                        /\ wal[i].prev \in 0..MaxWal
                        /\ wal[i].body \in 1..MaxWal /\ wal[i].body <= i
  BY LogEntries
<1>b. /\ Len(wal) \in 1..MaxWal /\ MaxWal \in Nat
      /\ redis \in [Key -> Answer \union {Miss}]
      /\ toScan \in SUBSET Key /\ owed \in SUBSET Key
  BY MaxWalAssumption DEF TypeOK
<1>1. CASE Swap
  <2>1. Len(wal) + 1 \in 1..MaxWal /\ "swap" \in Kind
    BY <1>1, <1>a, <1>b DEF Swap, Commit, Kind
  <2>2. QED
    BY <1>1, <1>a, <2>1, CommitKeepsTypes DEF Swap, Primary
<1>2. CASE Rollback
  <2>1. Primary.prev \in 1..MaxWal /\ "rollback" \in Kind /\ 0 \in 0..MaxWal
    BY <1>2, <1>a, <1>b DEF Rollback, Primary, Kind
  <2>2. QED
    BY <1>2, <1>a, <2>1, CommitKeepsTypes DEF Rollback, Primary, etlVars
<1>3. CASE Migrate \/ Downgrade
  <2>1. {"migrate", "downgrade"} \subseteq Kind
    BY DEF Kind
  <2>2. CASE Migrate
    BY <2>2, <1>a, <2>1, CommitKeepsTypes DEF Migrate, Primary, etlVars
  <2>3. CASE Downgrade
    BY <2>3, <1>a, <2>1, CommitKeepsTypes DEF Downgrade, Primary, etlVars
  <2>4. QED
    BY <1>3, <2>2, <2>3
<1>4. CASE Replay
  BY <1>4, <1>a DEF Replay, Log, TypeOK, LogGrows, RequestHolds, etlVars, reqVars
<1>5. CASE BeginFlush
  <2>1. {Present("cf"), Present("cfc")} \subseteq SUBSET Key
    BY DEF Present
  <2>2. TypeOK'
    BY <1>5, <1>b, <2>1 DEF BeginFlush, TypeOK, LogGrows, reqVars
  <2>3. QED
    BY <1>5, <1>b, <2>2 DEF BeginFlush, LogGrows, Log, RequestHolds, reqVars
<1>6. CASE NextNamespace \/ EndFlush \/ CutFlushShort
  <2>1. Present("cfc") \in SUBSET Key
    BY DEF Present
  <2>2. TypeOK'
    BY <1>6, <1>b, <2>1
    DEF NextNamespace, EndFlush, CutFlushShort, TypeOK, reqVars
  <2>3. QED
    BY <1>6, <1>b, <2>2
    DEF NextNamespace, EndFlush, CutFlushShort, LogGrows, Log, RequestHolds, reqVars
<1>7. CASE \E k \in Key : DeleteKey(k) \/ Expire(k)
  BY <1>7, <1>b
  DEF DeleteKey, Expire, TypeOK, LogGrows, Log, RequestHolds, reqVars
<1>8. CASE \E w \in inFlight : ApplySet(w)
  <2> PICK w \in inFlight : ApplySet(w)
    BY <1>8
  <2>1. w.key \in Key /\ w.answer \in Answer
    BY DEF TypeOK
  <2>2. redis' \in [Key -> Answer \union {Miss}]
    BY <2>1, <1>b DEF ApplySet
  <2>3. QED
    BY <2>2, <1>b DEF ApplySet, TypeOK, LogGrows, Log, RequestHolds, etlVars, reqVars
<1>9. CASE \E w \in inFlight : LoseSet(w)
  BY <1>9 DEF LoseSet, TypeOK, LogGrows, Log, RequestHolds, etlVars, reqVars
<1>10. CASE Restart
  <2>1. version' \in Version
    BY <1>10, <1>a, <1>b DEF Restart, VersionRead, Replica, Fallback, Version
  <2>2. restarts' \in 0..MaxRestarts
    BY <1>10, MaxRestartsAssumption DEF Restart, TypeOK
  <2>3. QED
    BY <1>10, <2>1, <2>2
    DEF Restart, TypeOK, LogGrows, Log, RequestHolds, etlVars
<1>11. CASE \E r \in Requests : Serve(r) \/ \E q \in Question : Begin(r, q)
  BY <1>11, RequestKeepsTypes DEF Serve
<1>12. CASE UNCHANGED vars
  BY <1>12 DEF vars, TypeOK, LogGrows, Log, RequestHolds, etlVars, reqVars
<1>13. QED
  BY <1>1, <1>2, <1>3, <1>4, <1>5, <1>6, <1>7, <1>8, <1>9, <1>10, <1>11, <1>12
  DEF Next, Etl, Operator, Redis

(* Each action of the service, Redis, the ETL and the primary keeps the    *)
(* types of the state.                                                     *)
THEOREM ServingTyped == Spec => []TypeOK
<1>1. Typed => TypeOK
  BY DEF Typed
<1>2. QED
  BY TypedInit, TypedStep, <1>1, PTL DEF Spec

-----------------------------------------------------------------------------
(* What a step may do to the log, to an entry, to the SETs under way and   *)
(* to a request: the proofs below go by these and not by the actions.      *)
LEMMA EntryStep ==
  ASSUME Typed, [Next]_vars, NEW k \in Key, redis'[k] # Miss
  PROVE  \/ redis'[k] = redis[k]
         \/ \E w \in inFlight :
              /\ w.key = k /\ ApplySet(w)
              /\ redis'[k] = w.answer
<1>1. redis \in [Key -> Answer \union {Miss}]
  BY DEF Typed, TypeOK
<1>2. CASE \E j \in Key : DeleteKey(j) \/ Expire(j)
  BY <1>1, <1>2 DEF DeleteKey, Expire
<1>3. CASE \E w \in inFlight : ApplySet(w)
  <2> PICK w \in inFlight : ApplySet(w)
    BY <1>3
  <2>1. w.key \in Key
    BY DEF Typed, TypeOK
  <2>2. QED
    BY <1>1, <2>1 DEF ApplySet
<1>4. CASE UNCHANGED redis
  BY <1>4
<1>5. CASE \E r \in Requests : Serve(r) \/ \E q \in Question : Begin(r, q)
  BY <1>4, <1>5 DEF Serve, Hit, MissOrError, Snap, Route, ListCategories,
         RepoFails, Store, Begin, Step
<1>6. CASE Etl \/ Operator \/ Replay \/ \E w \in inFlight : LoseSet(w)
  BY <1>2, <1>4, <1>6 DEF Etl, Operator, Swap, Rollback, Migrate, Downgrade, Commit,
         BeginFlush, NextNamespace, EndFlush, CutFlushShort, Restart, Replay, LoseSet
<1>7. QED
  BY <1>2, <1>3, <1>4, <1>5, <1>6 DEF Next, Redis, vars

LEMMA SetStep ==
  ASSUME Typed, [Next]_vars, NEW w \in inFlight', w \notin inFlight
  PROVE  \E r \in Requests : Store(r) /\ w = [key |-> key[r], answer |-> answer[r]]
<1>1. CASE \E r \in Requests : Store(r)
  BY <1>1 DEF Store
<1>2. CASE \E r \in Requests : Serve(r) \/ \E q \in Question : Begin(r, q)
  BY <1>1, <1>2 DEF Serve, Hit, MissOrError, Snap, Route, ListCategories,
         RepoFails, Begin
<1>3. CASE Etl \/ Operator \/ Replay \/ Redis \/ UNCHANGED vars
  BY <1>3 DEF Etl, Operator, Swap, Rollback, Migrate, Downgrade, Commit,
         BeginFlush, NextNamespace, EndFlush, CutFlushShort, Restart, Replay,
         Redis, DeleteKey, Expire, ApplySet, LoseSet, vars
<1>4. QED
  BY <1>1, <1>2, <1>3 DEF Next

(* The log only grows, by one entry at a time, and while it does nothing   *)
(* else moves but the ETL; the replica only moves on, one entry at a time, *)
(* and past a swap only while no call is routing.                          *)
Commits(c) ==
  /\ c \in Committed /\ Len(wal') = Len(wal) + 1
  /\ \A i \in Log : wal'[i] = wal[i]
  /\ wal'[Len(wal')] = c
  /\ c.kind \notin {"swap", "rollback"} => c.net = Primary.net
  /\ c.kind # "downgrade" => c.body >= Primary.body
  /\ UNCHANGED <<replayed, version, redis, inFlight, reqVars>>

Replays ==
  /\ replayed' = replayed + 1 /\ replayed' \in Log
  /\ wal[replayed'].kind = "swap" => \A r \in Requests : pc[r] # "routing"
  /\ UNCHANGED <<wal, version, redis, inFlight, reqVars>>

LEMMA LogStep ==
  ASSUME Typed, [Next]_vars
  PROVE  (\E c \in Committed : Commits(c)) \/ Replays \/ UNCHANGED <<wal, replayed>>
<1>1. /\ Len(wal) \in Nat /\ Len(wal) \in Log /\ replayed \in Log
      /\ \A i \in Log : /\ wal[i].kind \in Kind /\ wal[i].net \in 1..MaxWal
                        /\ wal[i].prev \in 0..MaxWal
                        /\ wal[i].body \in 1..MaxWal /\ wal[i].body <= i
  BY LogEntries
<1>2. MaxWal \in Nat \ {0} /\ Len(wal) \in 1..MaxWal
  BY MaxWalAssumption DEF Typed, TypeOK
<1>3. ASSUME NEW kind \in Kind, NEW net \in 1..MaxWal, NEW prev \in 0..MaxWal,
             NEW body \in 1..MaxWal, Commit(kind, net, prev, body),
             kind \notin {"swap", "rollback"} => net = Primary.net,
             kind # "downgrade" => body >= Primary.body
      PROVE  \E c \in Committed : Commits(c)
  <2> DEFINE c == [kind |-> kind, net |-> net, prev |-> prev, body |-> body]
  <2>1. c \in Committed
    BY DEF Committed
  <2>2. Commits(c)
    BY <1>3, <2>1, CommitAppends DEF Commits
  <2>3. QED
    BY <2>1, <2>2
<1>4. {"swap", "rollback", "migrate", "downgrade"} \subseteq Kind
  BY DEF Kind
<1>5. /\ Primary.net \in 1..MaxWal /\ Primary.prev \in 0..MaxWal
      /\ Primary.body \in 1..Len(wal)
  BY <1>1 DEF Primary
<1>6. CASE Swap
  <2>1. Len(wal) + 1 \in 1..MaxWal /\ Primary.body \in 1..MaxWal
    BY <1>6, <1>1, <1>2, <1>5 DEF Swap, Commit
  <2>2. QED
    BY <1>6, <1>3, <1>4, <1>5, <2>1 DEF Swap
<1>7. CASE Rollback
  <2>1. /\ Primary.prev \in 1..MaxWal /\ Primary.body \in 1..MaxWal
        /\ 0 \in 0..MaxWal
    BY <1>7, <1>2, <1>5 DEF Rollback
  <2>2. QED
    BY <1>7, <1>3, <1>4, <1>5, <2>1 DEF Rollback
<1>8. CASE Migrate
  <2>1. Primary.body + 1 \in 1..MaxWal /\ Primary.body + 1 >= Primary.body
    BY <1>8, <1>1, <1>2, <1>5 DEF Migrate, Commit
  <2>2. QED
    BY <1>8, <1>3, <1>4, <1>5, <2>1 DEF Migrate
<1>9. CASE Downgrade
  <2>1. Primary.body - 1 \in 1..MaxWal
    BY <1>9, <1>2, <1>5 DEF Downgrade
  <2>2. QED
    BY <1>9, <1>3, <1>4, <1>5, <2>1 DEF Downgrade
<1>10. CASE Replay
  <2>1. replayed + 1 \in Log
    BY <1>10, <1>1 DEF Replay, Log
  <2>2. QED
    BY <1>10, <2>1 DEF Replay, Replays, LocksTables
<1>11. CASE \E r \in Requests : Serve(r) \/ \E q \in Question : Begin(r, q)
  BY <1>11 DEF Serve, Hit, MissOrError, Snap, Route, ListCategories, RepoFails,
         Store, Begin, Step
<1>12. CASE Redis \/ Restart \/ UNCHANGED vars \/ \E k \in Key : DeleteKey(k)
  BY <1>12 DEF Redis, Expire, ApplySet, LoseSet, Restart, DeleteKey, vars
<1>13. CASE BeginFlush \/ NextNamespace \/ EndFlush \/ CutFlushShort
  BY <1>13 DEF BeginFlush, NextNamespace, EndFlush, CutFlushShort
<1>14. QED
  BY <1>6, <1>7, <1>8, <1>9, <1>10, <1>11, <1>12, <1>13 DEF Next, Etl, Operator

(* A key or an answer a request has after a step it had before, or the     *)
(* replica gave it in this step.                                           *)
LEMMA RequestStep ==
  ASSUME Typed, [Next]_vars, NEW r \in Requests
  PROVE  /\ key'[r] # None => \/ key'[r] = key[r]
                              \/ /\ key'[r].version = version
                                 /\ answer'[r] = None
         /\ answer'[r] # None =>
              /\ key[r] # None /\ key'[r] = key[r]
              /\ \/ answer'[r] = answer[r] /\ pc'[r] = pc[r]
                 \/ /\ answer'[r] = [from |-> replayed, to |-> replayed]
                    /\ UNCHANGED <<wal, replayed>>
                 \/ /\ answer'[r] = [from |-> answer[r].from, to |-> replayed]
                    /\ pc[r] = "routing" /\ answer[r] # None
                    /\ pc'[r] # "routing"
                    /\ UNCHANGED <<wal, replayed>>
<1>1. /\ pc \in [Requests -> InService \union {"idle"}]
      /\ key \in [Requests -> Key \union {None}]
      /\ answer \in [Requests -> Answer \union {None}]
      /\ None \notin Key /\ None \notin Answer
      /\ RequestHolds(r)
  BY NoneAssumption DEF Typed, TypeOK
<1>2. CASE UNCHANGED reqVars
  BY <1>1, <1>2 DEF reqVars, RequestHolds
<1>3. CASE \E s \in Requests : Serve(s) \/ \E q \in Question : Begin(s, q)
  <2> PICK s \in Requests : Serve(s) \/ \E q \in Question : Begin(s, q)
    BY <1>3
  <2>1. CASE s # r
    <3>1. pc'[r] = pc[r] /\ key'[r] = key[r] /\ answer'[r] = answer[r]
      BY <1>1, <2>1 DEF Serve, Hit, MissOrError, Snap, Route, ListCategories,
             RepoFails, Store, Begin, Respond, Goto
    <3>2. QED
      BY <1>1, <3>1 DEF RequestHolds
  <2>2. CASE s = r
    <3>1. CASE Hit(r) \/ RepoFails(r) \/ Store(r)
      BY <1>1, <3>1 DEF Hit, RepoFails, Store, Respond
    <3>2. CASE MissOrError(r)
      BY <1>1, <3>2 DEF MissOrError, RequestHolds
    <3>3. CASE Snap(r) \/ ListCategories(r)
      BY <1>1, <3>3 DEF Snap, ListCategories, Step, RequestHolds
    <3>4. CASE Route(r)
      <4>1. answer[r] \in Answer /\ key[r] # None
        BY <3>4, <1>1 DEF Route, RequestHolds
      <4>2. answer'[r] = [from |-> answer[r].from, to |-> replayed]
        BY <3>4, <1>1, <4>1 DEF Route, Answer
      <4>3. QED
        BY <3>4, <1>1, <4>1, <4>2 DEF Route, Goto, Step
    <3>5. CASE \E q \in Question : Begin(r, q)
      BY <1>1, <3>5 DEF Begin, RequestHolds
    <3>6. QED
      BY <2>2, <3>1, <3>2, <3>3, <3>4, <3>5 DEF Serve
  <2>3. QED
    BY <2>1, <2>2
<1>4. CASE Restart
  BY <1>4 DEF Restart
<1>5. CASE Etl \/ Rollback \/ Migrate \/ Downgrade \/ Replay \/ Redis \/ UNCHANGED vars
  BY <1>2, <1>5 DEF Etl, Swap, Rollback, Migrate, Downgrade, Commit, BeginFlush,
         NextNamespace, EndFlush, CutFlushShort, Replay, Redis, DeleteKey, Expire,
         ApplySet, LoseSet, vars
<1>6. QED
  BY <1>3, <1>4, <1>5 DEF Next, Operator

-----------------------------------------------------------------------------
(* A flush that scans cf: still owes entries of both namespaces and has    *)
(* those of cf: on its list; once it scans cfc: it owes only what is on    *)
(* the list.  What it owes is there.                                       *)
FlushProgress ==
  /\ \A k \in owed : k \in Key /\ redis[k] # Miss
  /\ flush \in {"none", "due"} => owed = {}
  /\ flush = "cf" => \A k \in owed : InSpace(k, "cf") => k \in toScan
  /\ flush = "cfc" => owed \subseteq toScan

LEMMA FlushStep == Typed /\ FlushProgress /\ [Next]_vars => FlushProgress'
<1> SUFFICES ASSUME Typed, FlushProgress, [Next]_vars PROVE FlushProgress'
  OBVIOUS
<1> USE DEF FlushProgress
<1>1. /\ redis \in [Key -> Answer \union {Miss}]
      /\ flush \in {"none", "due", "cf", "cfc"} /\ Miss \notin Answer
  BY MissAssumption DEF Typed, TypeOK
<1>2. \A k \in Key : InSpace(k, "cf") \/ InSpace(k, "cfc")
  BY DEF InSpace
<1>3. CASE BeginFlush
  <2>1. \A k \in owed' : k \in Key /\ redis'[k] # Miss
    BY <1>3 DEF BeginFlush, Present
  <2>2. \A k \in owed' : InSpace(k, "cf") => k \in toScan'
    BY <1>3 DEF BeginFlush, Present
  <2>3. QED
    BY <1>3, <2>1, <2>2 DEF BeginFlush, InSpace
<1>4. CASE NextNamespace
  <2>1. \A k \in owed : k \in Present("cfc")
    BY <1>2, <1>4 DEF NextNamespace, Present
  <2>2. QED
    BY <1>4, <2>1 DEF NextNamespace
<1>5. CASE EndFlush
  BY <1>5 DEF EndFlush
<1>6. CASE CutFlushShort
  BY <1>6 DEF CutFlushShort
<1>7. CASE \E j \in Key : DeleteKey(j) \/ Expire(j)
  <2> PICK j \in Key : DeleteKey(j) \/ Expire(j)
    BY <1>7
  <2>1. /\ redis' = [redis EXCEPT ![j] = Miss] /\ flush' = flush
        /\ toScan' = toScan \ {j} /\ owed' = owed \ {j}
    BY DEF DeleteKey, Expire
  <2>2. \A k \in owed' : k \in Key /\ redis'[k] # Miss
    BY <1>1, <2>1
  <2>3. QED
    BY <2>1, <2>2 DEF InSpace
<1>8. CASE \E w \in inFlight : ApplySet(w)
  <2> PICK w \in inFlight : ApplySet(w)
    BY <1>8
  <2>1. /\ redis' = [redis EXCEPT ![w.key] = w.answer]
        /\ UNCHANGED <<flush, toScan>> /\ owed' = owed \ {w.key}
    BY DEF ApplySet
  <2>2. \A k \in owed' : k \in Key /\ redis'[k] # Miss
    BY <1>1, <2>1
  <2>3. QED
    BY <2>1, <2>2 DEF InSpace
<1>9. CASE Swap
  BY <1>9 DEF Swap, Commit
<1>10. CASE UNCHANGED <<redis, etlVars>>
  BY <1>10 DEF etlVars, InSpace
<1>11. CASE \E r \in Requests : Serve(r) \/ \E q \in Question : Begin(r, q)
  BY <1>10, <1>11 DEF Serve, Hit, MissOrError, Snap, Route, ListCategories,
         RepoFails, Store, Begin, Step
<1>12. CASE \/ Operator \/ Replay \/ UNCHANGED vars
            \/ \E w \in inFlight : LoseSet(w)
  BY <1>10, <1>12 DEF Operator, Rollback, Migrate, Downgrade, Commit, Restart,
         Replay, LoseSet, vars
<1>13. QED
  BY <1>3, <1>4, <1>5, <1>6, <1>7, <1>8, <1>9, <1>11, <1>12 DEF Next, Etl, Redis

(* However SETs, expiries and deletions interleave with its two scans, a   *)
(* flush that goes through leaves nothing of what was there when it began: *)
(* an entry it owes is on the list of one of the scans, and one written    *)
(* over it or behind the scan is not owed.                                 *)
THEOREM FlushClears == Spec => []FlushClearsWhatItFound
<1>1. Init => FlushProgress
  BY DEF Init, FlushProgress
<1>2. FlushProgress => FlushClearsWhatItFound
  BY DEF FlushProgress, FlushClearsWhatItFound
<1>3. QED
  BY TypedInit, TypedStep, FlushStep, <1>1, <1>2, PTL DEF Spec

-----------------------------------------------------------------------------
(* An answer is read at two positions the replica was at, in that order,   *)
(* with no swap replayed between them.                                     *)
ReadBetween(i, j) ==
  /\ i \in Log /\ j \in Log /\ i <= j /\ j <= replayed
  /\ \A m \in Log : i < m /\ m <= j => wal[m].kind # "swap"

Reads ==
  /\ \A r \in Requests : answer[r] # None =>
       /\ ReadBetween(answer[r].from, answer[r].to)
       /\ pc[r] = "routing" => ReadBetween(answer[r].from, replayed)
  /\ \A w \in inFlight : ReadBetween(w.answer.from, w.answer.to)
  /\ \A k \in Key : redis[k] # Miss => ReadBetween(redis[k].from, redis[k].to)

(* The network changes from one entry of the log to a later one only if a  *)
(* swap or a rollback lies between.                                        *)
NetworksChange ==
  \A i, j \in Log :
    i <= j /\ wal[i].net # wal[j].net =>
      \E m \in Log : i < m /\ m <= j /\ wal[m].kind \in {"swap", "rollback"}

LEMMA ReadStays ==
  ASSUME Typed, [Next]_vars, NEW i, NEW j, ReadBetween(i, j)
  PROVE  ReadBetween(i, j)'
<1>1. /\ Len(wal) \in Nat /\ replayed \in Log /\ i \in Log /\ j \in Log
      /\ i <= j /\ j <= replayed
      /\ \A m \in Log : i < m /\ m <= j => wal[m].kind # "swap"
  BY LogEntries DEF ReadBetween
<1>2. CASE \E c \in Committed : Commits(c)
  <2>1. Len(wal') = Len(wal) + 1 /\ replayed' = replayed
        /\ \A m \in Log : wal'[m] = wal[m]
    BY <1>2 DEF Commits
  <2>2. \A m \in 1..Len(wal') : i < m /\ m <= j => m \in Log
    BY <1>1, <2>1 DEF Log
  <2>3. i \in 1..Len(wal') /\ j \in 1..Len(wal')
    BY <1>1, <2>1 DEF Log
  <2>4. QED
    BY <1>1, <2>1, <2>2, <2>3 DEF ReadBetween, Log
<1>3. CASE Replays
  BY <1>1, <1>3 DEF Replays, ReadBetween, Log
<1>4. CASE UNCHANGED <<wal, replayed>>
  BY <1>1, <1>4 DEF ReadBetween, Log
<1>5. QED
  BY <1>2, <1>3, <1>4, LogStep

(* While a call routes, the replica does not move past a swap.             *)
LEMMA RoutingReads ==
  ASSUME Typed, [Next]_vars, NEW r \in Requests, pc[r] = "routing",
         NEW i, ReadBetween(i, replayed)
  PROVE  ReadBetween(i, replayed)'
<1>1. /\ Len(wal) \in Nat /\ replayed \in Log /\ i \in Log /\ i <= replayed
      /\ \A m \in Log : i < m /\ m <= replayed => wal[m].kind # "swap"
  BY LogEntries DEF ReadBetween
<1>2. CASE Replays
  <2>1. /\ replayed' = replayed + 1 /\ replayed' \in Log /\ wal' = wal
        /\ wal[replayed'].kind # "swap"
    BY <1>2 DEF Replays
  <2>2. \A m \in Log : m <= replayed' => m <= replayed \/ m = replayed'
    BY <1>1, <2>1 DEF Log
  <2>3. QED
    BY <1>1, <2>1, <2>2 DEF ReadBetween, Log
<1>3. CASE replayed' = replayed
  <2> PICK j : j = replayed
    OBVIOUS
  <2>1. ReadBetween(i, j)'
    BY ReadStays
  <2>2. QED
    BY <1>3, <2>1 DEF ReadBetween, Log
<1>4. QED
  BY <1>2, <1>3, LogStep DEF Commits

LEMMA ReadsStep == Typed /\ Reads /\ [Next]_vars => Reads'
<1> SUFFICES ASSUME Typed, Reads, [Next]_vars PROVE Reads'
  OBVIOUS
<1>0. /\ Len(wal) \in Nat /\ replayed \in Log
  BY LogEntries
<1>1. \A i, j : ReadBetween(i, j) => ReadBetween(i, j)'
  BY ReadStays
<1>2. ASSUME NEW r \in Requests, answer'[r] # None
      PROVE  /\ ReadBetween(answer[r].from, answer[r].to)'
             /\ pc'[r] = "routing" => ReadBetween(answer[r].from, replayed)'
  <2>1. CASE answer'[r] = answer[r] /\ pc'[r] = pc[r]
    <3> PICK i, j : i = answer[r].from /\ j = answer[r].to
      OBVIOUS
    <3>1. ReadBetween(i, j) /\ (pc[r] = "routing" => ReadBetween(i, replayed))
      BY <1>2, <2>1 DEF Reads
    <3>2. ReadBetween(i, j)'
      BY <1>1, <3>1
    <3>3. pc[r] = "routing" => ReadBetween(i, replayed)'
      BY <3>1, RoutingReads
    <3>4. QED
      BY <2>1, <3>2, <3>3 DEF ReadBetween, Log
  <2>2. CASE /\ answer'[r] = [from |-> replayed, to |-> replayed]
             /\ UNCHANGED <<wal, replayed>>
    BY <1>0, <2>2 DEF ReadBetween, Log
  <2>3. CASE /\ answer'[r] = [from |-> answer[r].from, to |-> replayed]
             /\ pc[r] = "routing" /\ answer[r] # None
             /\ pc'[r] # "routing"
             /\ UNCHANGED <<wal, replayed>>
    <3>1. ReadBetween(answer[r].from, replayed)
      BY <2>3 DEF Reads
    <3>2. QED
      BY <2>3, <3>1 DEF ReadBetween, Log
  <2>4. QED
    BY <1>2, <2>1, <2>2, <2>3, RequestStep
<1>3. ASSUME NEW w \in inFlight'
      PROVE  ReadBetween(w.answer.from, w.answer.to)'
  <2>1. CASE w \in inFlight
    BY <1>1, <2>1 DEF Reads
  <2>2. CASE w \notin inFlight
    <3> PICK r \in Requests : /\ Store(r)
                              /\ w = [key |-> key[r], answer |-> answer[r]]
      BY <2>2, SetStep
    <3>1. w.answer = answer[r] /\ answer[r] # None
      BY DEF Store, Typed, RequestHolds
    <3>2. ReadBetween(w.answer.from, w.answer.to)
      BY <3>1 DEF Reads
    <3>3. QED
      BY <1>1, <3>2
  <2>3. QED
    BY <2>1, <2>2
<1>4. ASSUME NEW k \in Key, redis'[k] # Miss
      PROVE  ReadBetween(redis[k].from, redis[k].to)'
  <2>1. CASE redis'[k] = redis[k]
    <3> PICK i, j : i = redis[k].from /\ j = redis[k].to
      OBVIOUS
    <3>1. ReadBetween(i, j)
      BY <1>4, <2>1 DEF Reads
    <3>2. ReadBetween(i, j)'
      BY <1>1, <3>1
    <3>3. QED
      BY <2>1, <3>2 DEF ReadBetween, Log
  <2>2. CASE \E w \in inFlight : redis'[k] = w.answer
    <3> PICK w \in inFlight : redis'[k] = w.answer
      BY <2>2
    <3> PICK i, j : i = w.answer.from /\ j = w.answer.to
      OBVIOUS
    <3>1. ReadBetween(i, j)'
      BY <1>1 DEF Reads
    <3>2. redis'[k].from = i /\ redis'[k].to = j
      OBVIOUS
    <3>3. QED
      BY <3>1, <3>2 DEF ReadBetween, Log
  <2>3. QED
    BY <1>4, <2>1, <2>2, EntryStep
<1>5. QED
  BY <1>2, <1>3, <1>4 DEF Reads

LEMMA NetworksStep == Typed /\ NetworksChange /\ [Next]_vars => NetworksChange'
<1> SUFFICES ASSUME Typed, NetworksChange, [Next]_vars PROVE NetworksChange'
  OBVIOUS
<1>0. Len(wal) \in Nat /\ Len(wal) \in Log
  BY LogEntries
<1>1. CASE \E c \in Committed : Commits(c)
  <2> PICK c \in Committed : Commits(c)
    BY <1>1
  <2>1. /\ Len(wal') = Len(wal) + 1 /\ wal'[Len(wal')] = c
        /\ \A m \in Log : wal'[m] = wal[m]
        /\ c.kind \notin {"swap", "rollback"} => c.net = wal[Len(wal)].net
    BY DEF Commits, Primary
  <2>2. \A m \in 1..Len(wal') : m \in Log \/ m = Len(wal')
    BY <1>0, <2>1 DEF Log
  <2>3. \A m \in Log : m \in 1..Len(wal') /\ m <= Len(wal)
    BY <1>0, <2>1 DEF Log
  <2>4. Len(wal') \in 1..Len(wal') /\ Len(wal) < Len(wal')
    BY <1>0, <2>1
  <2> SUFFICES ASSUME NEW i \in 1..Len(wal'), NEW j \in 1..Len(wal'), i <= j,
                      wal'[i].net # wal'[j].net
               PROVE  \E m \in 1..Len(wal') : /\ i < m /\ m <= j
                                              /\ wal'[m].kind \in {"swap", "rollback"}
    BY DEF NetworksChange, Log
  <2>5. CASE j \in Log
    <3>1. i \in Log
      BY <1>0, <2>5 DEF Log
    <3>2. \E m \in Log : i < m /\ m <= j /\ wal[m].kind \in {"swap", "rollback"}
      BY <2>1, <2>5, <3>1 DEF NetworksChange
    <3>3. QED
      BY <2>1, <2>3, <3>2
  <2>6. CASE j = Len(wal') /\ c.kind \in {"swap", "rollback"}
    <3>1. i < j
      BY <2>6, <2>4, <2>2
    <3>2. QED
      BY <2>1, <2>4, <2>6, <3>1
  <2>7. CASE j = Len(wal') /\ c.kind \notin {"swap", "rollback"}
    <3>1. i \in Log
      BY <2>7, <2>2
    <3>2. wal[i].net # wal[Len(wal)].net
      BY <2>1, <2>7, <3>1
    <3>3. \E m \in Log : i < m /\ m <= Len(wal) /\ wal[m].kind \in {"swap", "rollback"}
      BY <1>0, <2>3, <3>1, <3>2 DEF NetworksChange
    <3>4. QED
      BY <2>1, <2>3, <2>7, <3>3
  <2>8. QED
    BY <2>2, <2>5, <2>6, <2>7
<1>2. CASE UNCHANGED wal
  BY <1>2 DEF NetworksChange, Log
<1>3. QED
  BY <1>1, <1>2, LogStep DEF Replays

(* The lock a routing call holds keeps the replica from a swap until it is *)
(* done, so what the call read before and after is of one network, unless  *)
(* a rollback, which takes no lock, came between.                          *)
THEOREM AnsweredOnOneNetwork == Spec => []OneNetworkPerAnswer
<1>1. Init => Reads /\ NetworksChange
  <2> SUFFICES ASSUME Init PROVE Reads /\ NetworksChange
    OBVIOUS
  <2>1. Len(wal) = 1
    BY DEF Init
  <2>2. \A i, j \in Log : i = j
    BY <2>1 DEF Log
  <2>3. NetworksChange
    BY <2>2 DEF NetworksChange
  <2>4. Reads
    BY DEF Init, Reads
  <2>5. QED
    BY <2>3, <2>4
<1>2. Typed /\ Reads /\ NetworksChange => OneNetworkPerAnswer
  <2> SUFFICES ASSUME Typed, Reads, NetworksChange,
                      NEW a \in Answers, wal[a.from].net # wal[a.to].net
               PROVE  \E i \in 1..Len(wal) :
                        a.from < i /\ i <= a.to /\ wal[i].kind = "rollback"
    BY DEF OneNetworkPerAnswer
  <2>1. ReadBetween(a.from, a.to)
    <3>1. CASE \E r \in Requests : answer[r] # None /\ a = answer[r]
      BY <3>1 DEF Reads
    <3>2. CASE \E w \in inFlight : a = w.answer
      BY <3>2 DEF Reads
    <3>3. CASE \E k \in Key : redis[k] # Miss /\ a = redis[k]
      BY <3>3 DEF Reads
    <3>4. QED
      BY <3>1, <3>2, <3>3 DEF Answers
  <2>2. \E m \in Log : /\ a.from < m /\ m <= a.to
                       /\ wal[m].kind \in {"swap", "rollback"}
    BY <2>1 DEF ReadBetween, NetworksChange
  <2>3. QED
    BY <2>1, <2>2 DEF ReadBetween, Log
<1>3. QED
  BY TypedInit, TypedStep, ReadsStep, NetworksStep, <1>1, <1>2, PTL DEF Spec

-----------------------------------------------------------------------------
(* Without a downgrade, function bodies only grow along the log, and       *)
(* whatever was read of the replica was read no earlier than the version   *)
(* it goes by.                                                             *)
NoDowngrade == \A i \in Log : wal[i].kind # "downgrade"

BodiesGrow == \A i, j \in Log : i <= j => wal[i].body <= wal[j].body

AtLeast(i, v) == i \in Log /\ i <= replayed /\ v <= wal[i].body

VersionsKept ==
  /\ AtLeast(replayed, version)
  /\ \A r \in Requests : key[r] # None =>
       /\ AtLeast(replayed, key[r].version)
       /\ answer[r] # None => AtLeast(answer[r].from, key[r].version)
  /\ \A w \in inFlight : AtLeast(w.answer.from, w.key.version)
  /\ \A k \in Key : redis[k] # Miss => AtLeast(redis[k].from, k.version)

Versions == NoDowngrade => BodiesGrow /\ VersionsKept

(* A log without a downgrade had none before, and grows by none.           *)
LEMMA NoDowngradeYet ==
  ASSUME Typed, [Next]_vars, NoDowngrade'
  PROVE  /\ NoDowngrade
         /\ \A c \in Committed : Commits(c) => c.body >= Primary.body
<1>1. Len(wal) \in Nat
  BY LogEntries
<1>2. ASSUME NEW c \in Committed, Commits(c)
      PROVE  NoDowngrade /\ c.body >= Primary.body
  <2>1. /\ Len(wal') = Len(wal) + 1 /\ wal'[Len(wal')] = c
        /\ \A m \in Log : wal'[m] = wal[m]
        /\ c.kind # "downgrade" => c.body >= Primary.body
    BY <1>2 DEF Commits
  <2>2. \A m \in Log : m \in 1..Len(wal')
    BY <1>1, <2>1 DEF Log
  <2>3. Len(wal') \in 1..Len(wal')
    BY <1>1, <2>1
  <2>4. QED
    BY <2>1, <2>2, <2>3 DEF NoDowngrade, Log
<1>3. CASE UNCHANGED wal
  BY <1>2, <1>3 DEF NoDowngrade, Log
<1>4. QED
  BY <1>2, <1>3, LogStep DEF Replays

LEMMA BodiesStep ==
  ASSUME Typed, [Next]_vars, NoDowngrade', BodiesGrow
  PROVE  BodiesGrow'
<1>0. Len(wal) \in Nat /\ Len(wal) \in Log /\ \A i \in Log : wal[i].body \in Nat
  BY LogEntries, MaxWalAssumption
<1>1. CASE \E c \in Committed : Commits(c)
  <2> PICK c \in Committed : Commits(c)
    BY <1>1
  <2>1. /\ Len(wal') = Len(wal) + 1 /\ wal'[Len(wal')] = c
        /\ \A m \in Log : wal'[m] = wal[m]
        /\ c.body >= wal[Len(wal)].body /\ c.body \in Nat
    BY NoDowngradeYet, MaxWalAssumption DEF Commits, Primary, Committed
  <2>2. \A m \in 1..Len(wal') : m \in Log \/ m = Len(wal')
    BY <1>0, <2>1 DEF Log
  <2>3. \A m \in Log : m < Len(wal') /\ wal[m].body <= wal[Len(wal)].body
    BY <1>0, <2>1 DEF Log, BodiesGrow
  <2> SUFFICES ASSUME NEW i \in 1..Len(wal'), NEW j \in 1..Len(wal'), i <= j
               PROVE  wal'[i].body <= wal'[j].body
    BY DEF BodiesGrow, Log
  <2>4. CASE j \in Log
    BY <1>0, <2>1, <2>2, <2>3, <2>4 DEF BodiesGrow, Log
  <2>5. CASE j = Len(wal')
    BY <1>0, <2>1, <2>2, <2>3, <2>5
  <2>6. QED
    BY <2>2, <2>4, <2>5
<1>2. CASE UNCHANGED wal
  BY <1>2 DEF BodiesGrow, Log
<1>3. QED
  BY <1>1, <1>2, LogStep DEF Replays

(* A version that was behind a position stays behind it, and one that was  *)
(* behind the replica stays behind the replica.                            *)
LEMMA AtLeastStays ==
  ASSUME Typed, [Next]_vars, NEW i, NEW v, AtLeast(i, v)
  PROVE  AtLeast(i, v)'
<1>1. /\ Len(wal) \in Nat /\ replayed \in Nat
      /\ i \in Log /\ i <= replayed /\ v <= wal[i].body
  BY LogEntries DEF AtLeast, Log
<1>2. CASE \E c \in Committed : Commits(c)
  BY <1>1, <1>2 DEF Commits, AtLeast, Log
<1>3. CASE Replays \/ UNCHANGED <<wal, replayed>>
  BY <1>1, <1>3 DEF Replays, AtLeast, Log
<1>4. QED
  BY <1>2, <1>3, LogStep

LEMMA ReplicaStaysAhead ==
  ASSUME Typed, [Next]_vars, BodiesGrow, NEW v \in Nat, AtLeast(replayed, v)
  PROVE  AtLeast(replayed, v)'
<1>1. /\ Len(wal) \in Nat /\ replayed \in Log /\ v <= wal[replayed].body
      /\ \A i \in Log : wal[i].body \in Nat
  BY LogEntries, MaxWalAssumption DEF AtLeast
<1>2. CASE Replays
  BY <1>1, <1>2 DEF Replays, AtLeast, Log, BodiesGrow
<1>3. CASE replayed' = replayed
  <2> PICK i : i = replayed
    OBVIOUS
  <2>1. AtLeast(i, v)'
    BY AtLeastStays
  <2>2. QED
    BY <1>3, <2>1 DEF AtLeast, Log
<1>4. QED
  BY <1>2, <1>3, LogStep DEF Commits

LEMMA VersionsStep == Typed /\ Versions /\ [Next]_vars => Versions'
<1> SUFFICES ASSUME Typed, Versions, [Next]_vars, NoDowngrade'
             PROVE  BodiesGrow' /\ VersionsKept'
  BY DEF Versions
<1>1. BodiesGrow /\ VersionsKept
  BY NoDowngradeYet DEF Versions
<1>2. BodiesGrow'
  BY <1>1, BodiesStep
<1>3. \A i, v : AtLeast(i, v) => AtLeast(i, v)'
  BY AtLeastStays
<1>4. \A v \in Nat : AtLeast(replayed, v) => AtLeast(replayed, v)'
  BY <1>1, ReplicaStaysAhead
<1>5. /\ version \in Nat /\ replayed \in Log /\ Len(wal) \in Nat
      /\ key \in [Requests -> Key \union {None}]
      /\ \A k \in Key : k.version \in Nat
      /\ \A i \in Log : wal[i].body \in Nat
      /\ \A w \in inFlight : w.key \in Key
  BY LogEntries, MaxWalAssumption DEF Typed, TypeOK, Version, Key
<1>6. AtLeast(replayed, version)'
  <2>1. CASE Restart
    BY <1>5, <2>1, LogEntries
    DEF Restart, VersionRead, Replica, Fallback, AtLeast, Log
  <2>2. CASE version' = version
    <3> PICK v : v = version
      OBVIOUS
    <3>1. AtLeast(replayed, v)'
      BY <1>1, <1>4, <1>5 DEF VersionsKept
    <3>2. QED
      BY <2>2, <3>1 DEF AtLeast
  <2>3. CASE \E r \in Requests : Serve(r) \/ \E q \in Question : Begin(r, q)
    BY <2>2, <2>3 DEF Serve, Hit, MissOrError, Snap, Route, ListCategories,
           RepoFails, Store, Begin, Step
  <2>4. CASE Etl \/ Rollback \/ Migrate \/ Downgrade \/ Replay \/ Redis \/ UNCHANGED vars
    BY <2>2, <2>4 DEF Etl, Swap, Rollback, Migrate, Downgrade, Commit, BeginFlush,
           NextNamespace, EndFlush, CutFlushShort, Replay, Redis, DeleteKey, Expire,
           ApplySet, LoseSet, vars
  <2>5. QED
    BY <2>1, <2>3, <2>4 DEF Next, Operator
<1>7. ASSUME NEW r \in Requests, key'[r] # None
      PROVE  /\ AtLeast(replayed, key[r].version)'
             /\ answer'[r] # None => AtLeast(answer[r].from, key[r].version)'
  <2>1. CASE key'[r] = key[r]
    <3> PICK v : v = key[r].version
      OBVIOUS
    <3>1. v \in Nat /\ AtLeast(replayed, v)
      BY <1>1, <1>5, <1>7, <2>1 DEF VersionsKept
    <3>2. AtLeast(replayed, key[r].version)'
      BY <1>4, <2>1, <3>1 DEF AtLeast
    <3>3. ASSUME answer'[r] # None
          PROVE  AtLeast(answer[r].from, key[r].version)'
      <4> PICK i : i = answer'[r].from
        OBVIOUS
      <4>1. AtLeast(i, v)
        <5>1. key[r] # None
          BY <1>7, <2>1
        <5>2. CASE answer'[r] = answer[r]
          BY <1>1, <3>3, <5>1, <5>2 DEF VersionsKept
        <5>3. CASE answer'[r] = [from |-> replayed, to |-> replayed]
          BY <3>1, <5>3
        <5>4. CASE /\ answer'[r] = [from |-> answer[r].from, to |-> replayed]
                   /\ answer[r] # None
          BY <1>1, <5>1, <5>4 DEF VersionsKept
        <5>5. QED
          BY <3>3, <5>2, <5>3, <5>4, RequestStep
      <4>2. AtLeast(i, v)'
        BY <1>3, <4>1
      <4>3. QED
        BY <2>1, <4>2 DEF AtLeast, Log
    <3>4. QED
      BY <3>2, <3>3
  <2>2. CASE key'[r].version = version /\ answer'[r] = None
    <3> PICK v : v = version
      OBVIOUS
    <3>1. AtLeast(replayed, v)'
      BY <1>1, <1>4, <1>5 DEF VersionsKept
    <3>2. QED
      BY <2>2, <3>1 DEF AtLeast
  <2>3. QED
    BY <1>7, <2>1, <2>2, RequestStep
<1>8. ASSUME NEW w \in inFlight'
      PROVE  AtLeast(w.answer.from, w.key.version)'
  <2>1. CASE w \in inFlight
    BY <1>1, <1>3, <2>1 DEF VersionsKept
  <2>2. CASE w \notin inFlight
    <3> PICK r \in Requests : /\ Store(r)
                              /\ w = [key |-> key[r], answer |-> answer[r]]
      BY <2>2, SetStep
    <3>1. /\ w.answer = answer[r] /\ answer[r] # None
          /\ w.key = key[r] /\ key[r] # None
      BY DEF Store, Typed, RequestHolds
    <3>2. AtLeast(w.answer.from, w.key.version)
      BY <1>1, <3>1 DEF VersionsKept
    <3>3. QED
      BY <1>3, <3>2
  <2>3. QED
    BY <2>1, <2>2
<1>9. ASSUME NEW k \in Key, redis'[k] # Miss
      PROVE  AtLeast(redis[k].from, k.version)'
  <2> PICK i : i = redis'[k].from
    OBVIOUS
  <2>1. AtLeast(i, k.version)
    <3>1. CASE redis'[k] = redis[k]
      BY <1>1, <1>9, <3>1 DEF VersionsKept
    <3>2. CASE \E w \in inFlight : w.key = k /\ redis'[k] = w.answer
      BY <1>1, <3>2 DEF VersionsKept
    <3>3. QED
      BY <1>9, <3>1, <3>2, EntryStep
  <2>2. AtLeast(i, k.version)'
    BY <1>3, <2>1
  <2>3. QED
    BY <2>2 DEF AtLeast, Log
<1>10. QED
  BY <1>2, <1>6, <1>7, <1>8, <1>9 DEF VersionsKept

(* Whatever the replica's lag, and however often the service restarts: no  *)
(* entry is kept under a version newer than the function body it was       *)
(* computed by, unless a migration was taken back.                         *)
THEOREM KeyVersionFollowsBody == Spec => []KeyVersionIsNotAhead
<1>1. Init => Versions
  <2> SUFFICES ASSUME Init PROVE BodiesGrow /\ VersionsKept
    BY DEF Versions
  <2>1. Len(wal) = 1 /\ wal[1].body = 1 /\ replayed = 1 /\ version \in {0, 1}
    BY DEF Init, Primary, Fallback
  <2>2. AtLeast(replayed, version)
    BY <2>1 DEF AtLeast, Log
  <2>3. BodiesGrow
    BY <2>1 DEF BodiesGrow, Log
  <2>4. QED
    BY <2>2, <2>3 DEF Init, VersionsKept
<1>2. Typed /\ Versions => KeyVersionIsNotAhead
  <2> SUFFICES ASSUME Typed, Versions, NoDowngrade, NEW k \in Key, redis[k] # Miss
               PROVE  wal[redis[k].from].body >= k.version
    BY DEF KeyVersionIsNotAhead, NoDowngrade, Log
  <2>1. AtLeast(redis[k].from, k.version)
    BY DEF Versions, VersionsKept
  <2>2. QED
    BY <2>1 DEF AtLeast
<1>3. QED
  BY TypedInit, TypedStep, VersionsStep, <1>1, <1>2, PTL DEF Spec
=============================================================================
