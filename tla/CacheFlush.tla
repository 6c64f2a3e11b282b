------------------------------ MODULE CacheFlush ------------------------------
(***************************************************************************)
(* The flush at the end of a load, _flush_via_socket of infra/etl/         *)
(* load_osm.py: SELECT, then SCAN and DEL for each of the two namespaces,  *)
(* over one socket to Redis, beside the requests of the service that write *)
(* new entries.  ServingCache has the flush as single steps; here are the  *)
(* commands and the replies as the loader reads them.                      *)
(*                                                                         *)
(* A reply is the sequence of its lines, a line one of the RESP markers    *)
(* "*", "$", ":", "+" and "-" (without the number or text behind it), a    *)
(* cursor or a key.  TCP keeps the order of the lines and nothing else.    *)
(***************************************************************************)
EXTENDS Naturals, Sequences, SequencesExt

CONSTANTS
  Spaces,   \* the keys of each pattern, in the order the loop takes them
  OtherKeys,\* what else the Redis database holds
  Cursors,  \* the cursors of a SCAN, from "0", in order
  Slot,     \* the cursor under which SCAN returns a key
  Faults,   \* what may go wrong, of AllFaults
  MaxCuts   \* replies read in pieces (bounds the model)

AllFaults == {"cut", "refused", "closed", "hung"}
Namespaces == UNION {Spaces[p] : p \in DOMAIN Spaces}
Keys == Namespaces \union OtherKeys

ASSUME SpacesAssumption  ==
  /\ Spaces \in Seq(SUBSET Namespaces) \ {<<>>}
  /\ IsFiniteSet(Keys) /\ Namespaces \intersect OtherKeys = {}
ASSUME CursorsAssumption ==
  /\ Cursors \in Seq(STRING) \ {<<>>} /\ IsInjective(Cursors)
  /\ Cursors[1] = "0" /\ Slot \in [Keys -> ToSet(Cursors)]
ASSUME FaultsAssumption  == Faults \subseteq AllFaults /\ MaxCuts \in Nat

(* No entry of the cache has the name of a marker, and nothing else in the *)
(* database that of a cursor or of nothing: _parse_scan takes what follows *)
(* a "$" for a key, and after a cut that may be either.                    *)
ASSUME LinesAssumption   ==
  /\ "$" \notin Namespaces \union ToSet(Cursors)
  /\ OtherKeys \intersect (ToSet(Cursors) \union {""}) = {}

VARIABLES
  store,    \* the keys Redis holds
  owed,     \* those of the namespaces it held at the start, unless deleted,
            \* expired or written again since
  server,   \* "up", "closed" (the connection) or "hung"
  commands, \* sent and not handled yet
  stream,   \* lines of replies, sent and not read yet
  pc,       \* the command the loader is at: "select", "scan" or "del"; or
            \* "done" or "failed", as it logs
  waiting,  \* it has sent the command and reads the reply
  pattern, cursor, batch, \* of the loop
  cuts,     \* replies read in pieces
  trouble   \* the faults that happened

client == <<pc, waiting, pattern, cursor, batch>>
vars == <<store, owed, server, commands, stream, client, cuts, trouble>>

-----------------------------------------------------------------------------
(* Redis.                                                                  *)
BulkStrings(keys) ==
  [i \in 1..2 * Len(keys) |-> IF i % 2 = 1 THEN "$" ELSE keys[i \div 2]]

NextCursor(c) ==
  LET i == CHOOSE i \in DOMAIN Cursors : Cursors[i] = c
  IN  IF i = Len(Cursors) THEN "0" ELSE Cursors[i + 1]

(* Mutant: SCAN without MATCH.                                             *)
MatchedEverything(p) == Keys

Matched(p) == Spaces[p]

Found(c, p) == {k \in store \intersect Matched(p) : Slot[k] = c}

ReplyTo(command) ==
  CASE command[1] = "SELECT" -> <<"+">>
    [] command[1] = "DEL"    -> <<":">>
    [] command[1] = "SCAN"   ->
         IF command[2] \in ToSet(Cursors)
         THEN <<"*", "$", NextCursor(command[2]), "*">>
                \o BulkStrings(SetToSeq(Found(command[2], command[3])))
         ELSE <<"-">>

(* The next command is carried out, or refused: NOAUTH, LOADING.           *)
Handle ==
  /\ server = "up" /\ commands # <<>>
  /\ commands' = Tail(commands)
  /\ \/ /\ stream' = stream \o ReplyTo(Head(commands))
        /\ LET deleted == IF Head(commands)[1] = "DEL" THEN Head(commands)[2] ELSE {}
           IN  store' = store \ deleted /\ owed' = owed \ deleted
        /\ UNCHANGED trouble
     \/ /\ "refused" \in Faults
        /\ stream' = Append(stream, "-")
        /\ trouble' = trouble \union {"refused"}
        /\ UNCHANGED <<store, owed>>
  /\ UNCHANGED <<server, client, cuts>>

(* A request caches an answer; an entry expires.                           *)
Write(k) ==
  /\ store' = store \union {k}
  /\ owed' = owed \ {k}
  /\ UNCHANGED <<server, commands, stream, client, cuts, trouble>>

Expire(k) ==
  /\ store' = store \ {k}
  /\ owed' = owed \ {k}
  /\ UNCHANGED <<server, commands, stream, client, cuts, trouble>>

(* Redis restarts, or stops to answer.                                     *)
Break(how) ==
  /\ server = "up" /\ how \in Faults \intersect {"closed", "hung"}
  /\ pc \notin {"done", "failed"}
  /\ server' = how
  /\ trouble' = trouble \union {how}
  /\ UNCHANGED <<store, owed, commands, stream, client, cuts>>

-----------------------------------------------------------------------------
(* The loader.                                                             *)

(* _parse_scan, on the lines it splits the reply into: the text behind the *)
(* last CRLF is a line too.                                                *)
Parse(reply) ==
  LET lines == Append(reply, "")
      pair(i) == 5 + 2 * i
      pairs == {i \in 0..Len(lines) :
                  /\ pair(i) + 1 <= Len(lines)
                  /\ \A j \in 0..i : lines[pair(j)] = "$"}
  IN  [cursor |-> IF Len(lines) > 2 THEN lines[3] ELSE "0",
       keys   |-> IF Len(lines) > 3 /\ lines[4] = "*"
                  THEN {lines[pair(i) + 1] : i \in pairs} ELSE {}]

Command ==
  CASE pc = "select" -> <<"SELECT">>
    [] pc = "scan"   -> <<"SCAN", cursor, pattern>>
    [] pc = "del"    -> <<"DEL", batch>>

Send ==
  /\ pc \in {"select", "scan", "del"} /\ ~waiting
  /\ waiting' = TRUE
  /\ commands' = IF server = "closed" THEN commands ELSE Append(commands, Command)
  /\ UNCHANGED <<store, owed, server, stream, pc, pattern, cursor, batch, cuts,
                 trouble>>

(* An exception of the socket: the peer is gone, or 5 s are over.          *)
Raise ==
  /\ pc \in {"select", "scan", "del"}
  /\ \/ server = "closed"
     \/ server = "hung" /\ waiting /\ stream = <<>>
  /\ pc' = "failed" /\ waiting' = FALSE
  /\ UNCHANGED <<store, owed, server, commands, stream, pattern, cursor, batch,
                 cuts, trouble>>

(* The end of one turn of the loop, with the cursor of the last reply.     *)
EndTurn(next) ==
  /\ cursor' = next
  /\ \/ /\ next # "0"
        /\ pc' = "scan" /\ UNCHANGED pattern
     \/ /\ next = "0" /\ pattern < Len(Spaces)
        /\ pc' = "scan" /\ pattern' = pattern + 1
     \/ /\ next = "0" /\ pattern = Len(Spaces)
        /\ pc' = "done" /\ UNCHANGED pattern

(* Mutant: the loop is left at cursor 0 before the last batch is deleted.  *)
AfterScanLeavesEarly(scan) ==
  IF scan.keys = {} \/ scan.cursor = "0"
  THEN EndTurn(scan.cursor) /\ batch' = {}
  ELSE /\ pc' = "del" /\ batch' = scan.keys /\ cursor' = scan.cursor
       /\ UNCHANGED pattern

(* Mutant: the cursor of the reply is not kept for the next SCAN.          *)
AfterScanFromTheStart(scan) ==
  IF scan.keys = {} /\ scan.cursor = "0"
  THEN EndTurn("0") /\ batch' = {}
  ELSE /\ pc' = IF scan.keys = {} THEN "scan" ELSE "del"
       /\ batch' = scan.keys
       /\ UNCHANGED <<cursor, pattern>>

AfterScan(scan) ==
  \/ /\ scan.keys # {}
     /\ pc' = "del" /\ batch' = scan.keys /\ cursor' = scan.cursor
     /\ UNCHANGED pattern
  \/ /\ scan.keys = {}
     /\ EndTurn(scan.cursor) /\ batch' = {}

(* What the loader does with what it takes for the reply: that of SELECT   *)
(* and of DEL is not looked at.                                            *)
Receive(reply) ==
  /\ waiting' = FALSE
  /\ \/ /\ pc = "select"
        /\ pc' = "scan" /\ UNCHANGED <<pattern, cursor, batch>>
     \/ pc = "scan" /\ AfterScan(Parse(reply))
     \/ pc = "del" /\ EndTurn(cursor) /\ batch' = {}

(* _read_response: everything that has arrived ...                         *)
Read ==
  /\ waiting /\ stream # <<>>
  /\ Receive(stream)
  /\ stream' = <<>>
  /\ UNCHANGED <<store, owed, server, commands, cuts, trouble>>

(* ... which is only a part of the reply if a chunk ends with a line.      *)
ReadCut(n) ==
  /\ "cut" \in Faults /\ cuts < MaxCuts
  /\ waiting /\ n < Len(stream)
  /\ Receive(SubSeq(stream, 1, n))
  /\ stream' = SubSeq(stream, n + 1, Len(stream))
  /\ cuts' = cuts + 1
  /\ trouble' = trouble \union {"cut"}
  /\ UNCHANGED <<store, owed, server, commands>>

(* recv returns nothing once the peer has closed: an empty reply.          *)
ReadEof ==
  /\ waiting /\ stream = <<>> /\ server = "closed"
  /\ Receive(<<>>)
  /\ UNCHANGED <<store, owed, server, commands, stream, cuts, trouble>>

-----------------------------------------------------------------------------
Init ==
  /\ store \in SUBSET Keys
  /\ owed = store \intersect Namespaces
  /\ server = "up" /\ commands = <<>> /\ stream = <<>>
  /\ pc = "select" /\ waiting = FALSE
  /\ pattern = 1 /\ cursor = "0" /\ batch = {}
  /\ cuts = 0 /\ trouble = {}

Loader == Send \/ Read \/ ReadEof \/ Raise \/ \E n \in 1..Len(stream) : ReadCut(n)

Next ==
  \/ Loader \/ Handle
  \/ \E how \in AllFaults : Break(how)
  \/ pc \notin {"done", "failed"} /\ \E k \in Namespaces : Write(k) \/ Expire(k)

Spec == Init /\ [][Next]_vars

(* The loader goes on, with its socket timeout of 5 s; a Redis that is up  *)
(* handles what it is sent.                                                *)
FairSpec == Spec /\ WF_vars(Loader) /\ WF_vars(Handle)

-----------------------------------------------------------------------------
(* Properties.                                                             *)

(* A flush that ends with "flush done", and whose every reply was whole    *)
(* and no error, has deleted every entry the namespaces held when it       *)
(* began, unless it was written again (load_osm.py:380-382, 452-466).      *)
DoneMeansFlushed == pc = "done" /\ trouble = {} => owed = {}

(* Whatever replies it is served, nothing but closest-facility and         *)
(* categories entries is deleted (load_osm.py:417).                        *)
KeepsToItsNamespaces == [][OtherKeys \intersect store \subseteq store']_vars

(* The flush ends, however replies are cut, refused or missing and however *)
(* fast entries are written behind the cursor (load_osm.py:455-465).       *)
FlushEnds == <>(pc \in {"done", "failed"})

(* load_osm.py:378-380: every matching key is deleted, and a failure of    *)
(* the flush is logged as one.                                             *)
FailureIsLogged == pc = "done" => owed = {}
=============================================================================
