------------------------------ MODULE Coherence ------------------------------
(***************************************************************************)
(* MESI coherence of private first-level caches below a shared inclusive   *)
(* cache above memory (coherence_ctrls.h, coherence_ctrls.cpp, cache.cpp). *)
(* A cache releases its lock while it calls its parent, so that the        *)
(* invalidations of other requests reach it between the decision to send a *)
(* request and the parent's lock: CheckForMESIRace sorts these races out.  *)
(*                                                                         *)
(* The parent's two locks are one here, held by the request in llc.        *)
(* Invalidations go to one child per step.  Replacement is any choice;     *)
(* prefetches, the non-inclusive mode and flushes are left out.            *)
(***************************************************************************)
EXTENDS Integers, FiniteSets

CONSTANTS Cores, Lines, L1Ways, LLCWays

ASSUME CoherenceAssumption ==
    /\ IsFiniteSet(Cores)
    /\ L1Ways \in Nat \ {0} /\ LLCWays \in Nat \ {0}

VARIABLES
    tag, st,    \* per core: lines in the array of its cache, their MESI state
    ltag, lst,  \* the same of the shared cache
    numSharers, sharers,  \* its directory entry of each line
    exclusive,  \* lines whose directory entry has the exclusive flag
    req,        \* per core: the call to the parent in progress, or None
    llc,        \* the request that holds the parent's locks, or None
    stale       \* lines that were written since memory was

dir == <<numSharers, sharers, exclusive>>
vars == <<tag, st, ltag, lst, dir, req, llc, stale>>

None == [type |-> "none"]

\* A request of core c for line a at the parent; todo are the children that
\* must still lose the line, or their exclusivity, sent counts the others, wb
\* says that one of them was dirty.
Job(type, at, c, a, line, inv, todo, sent, wb) ==
    [type |-> type, at |-> at, c |-> c, a |-> a, line |-> line, inv |-> inv,
     todo |-> todo, sent |-> sent, wb |-> wb]

Init ==
    /\ tag = [c \in Cores |-> {}]
    /\ st = [c \in Cores |-> [a \in Lines |-> "I"]]
    /\ ltag = {}
    /\ lst = [a \in Lines |-> "I"]
    /\ numSharers = [a \in Lines |-> 0]
    /\ sharers = [a \in Lines |-> {}]
    /\ exclusive = {}
    /\ req = [c \in Cores |-> None]
    /\ llc = None
    /\ stale = {}

-----------------------------------------------------------------------------
\* The core's own cache.

Get(write) == IF write THEN "GETX" ELSE "GETS"

\* A read of a valid line, or a write of an exclusive one.
l1_hit(c, a, write) ==
    /\ req[c] = None /\ a \in tag[c]
    /\ st[c][a] \in (IF write THEN {"E", "M"} ELSE {"S", "E", "M"})
    /\ IF write
       THEN st' = [st EXCEPT ![c][a] = "M"] /\ stale' = stale \cup {a}
       ELSE UNCHANGED <<st, stale>>
    /\ UNCHANGED <<tag, ltag, lst, dir, req, llc>>

\* The line is in the array without the permission.
l1_upgrade(c, a, write) ==
    /\ req[c] = None /\ a \in tag[c]
    /\ st[c][a] \in (IF write THEN {"I", "S"} ELSE {"I"})
    /\ req' = [req EXCEPT ![c] = [type |-> Get(write), a |-> a, init |-> st[c][a]]]
    /\ UNCHANGED <<tag, st, ltag, lst, dir, llc, stale>>

\* A miss that replaces nothing, or an invalid line.
l1_miss(c, a, write) ==
    /\ req[c] = None /\ a \notin tag[c]
    /\ \E V \in SUBSET tag[c] :
          /\ Cardinality(V) = IF Cardinality(tag[c]) < L1Ways THEN 0 ELSE 1
          /\ \A v \in V : st[c][v] = "I"
          /\ tag' = [tag EXCEPT ![c] = (@ \ V) \cup {a}]
    /\ req' = [req EXCEPT ![c] = [type |-> Get(write), a |-> a, init |-> "I"]]
    /\ UNCHANGED <<st, ltag, lst, dir, llc, stale>>

\* A miss that evicts a valid line; it stays in the array during the call.
l1_evict(c, a, write) ==
    /\ req[c] = None /\ a \notin tag[c]
    /\ Cardinality(tag[c]) >= L1Ways
    /\ \E v \in tag[c] :
          /\ st[c][v] # "I"
          /\ req' = [req EXCEPT ![c] = [type |-> IF st[c][v] = "M" THEN "PUTX" ELSE "PUTS", a |-> v,
                                        init |-> st[c][v], next |-> a, write |-> write]]
    /\ UNCHANGED <<tag, st, ltag, lst, dir, llc, stale>>

\* After a PUT: the new line takes the slot, and its request goes out.
insert_next(c) ==
    LET r == req[c]
    IN  /\ tag' = [tag EXCEPT ![c] = (@ \ {r.a}) \cup {r.next}]
        /\ req' = [req EXCEPT ![c] = [type |-> Get(r.write), a |-> r.next, init |-> "I"]]

-----------------------------------------------------------------------------
\* The shared cache.

\* Mutant: a PUT that lost its race is carried out as it was sent.
CheckForMESIRace_none(type, state, initial) == type

\* The type the request has once the parent is locked.
CheckForMESIRace(type, state, initial) ==
    IF state = initial \/ type \notin {"PUTS", "PUTX"} THEN type
    ELSE IF state = "I" THEN "skip" ELSE "PUTS"

\* Mutant: a PUT whose line was invalidated is tried again.
put_skip_retry(c) ==
    LET r == req[c]
    IN  /\ llc = None /\ r.type \in {"PUTS", "PUTX"}
        /\ CheckForMESIRace(r.type, st[c][r.a], r.init) = "skip"
        /\ UNCHANGED vars

\* A PUT that lost its line to an invalidation.
put_skip(c) ==
    LET r == req[c]
    IN  /\ llc = None /\ r.type \in {"PUTS", "PUTX"}
        /\ CheckForMESIRace(r.type, st[c][r.a], r.init) = "skip"
        /\ insert_next(c)
        /\ UNCHANGED <<st, ltag, lst, dir, llc, stale>>

\* The state of the parent's line after a PUT.
put_state(state, type) == IF type = "PUTX" THEN "M" ELSE state

put(c) ==
    LET r == req[c]
        a == r.a
        type == CheckForMESIRace(r.type, st[c][a], r.init)
    IN  /\ llc = None /\ r.type \in {"PUTS", "PUTX"} /\ type # "skip"
        /\ lst' = [lst EXCEPT ![a] = put_state(@, type)]
        /\ sharers' = [sharers EXCEPT ![a] = @ \ {c}]
        /\ numSharers' = [numSharers EXCEPT ![a] = @ - 1]
        /\ st' = [st EXCEPT ![c][a] = "I"]
        /\ insert_next(c)
        /\ UNCHANGED <<ltag, exclusive, llc, stale>>

\* Mutant: only an exclusive copy is invalidated.
evicted_excl(v) == IF v \in exclusive THEN sharers[v] ELSE {}

\* The copies that go with an evicted line.
evicted(v) == sharers[v]

\* A GET that misses the shared cache evicts a line, whose copies are
\* invalidated first.
get_evict(c) ==
    LET r == req[c]
    IN  /\ llc = None /\ r.type \in {"GETS", "GETX"} /\ r.a \notin ltag
        /\ Cardinality(ltag) >= LLCWays
        /\ \E v \in ltag :
              llc' = Job(r.type, "evict", c, r.a, v, "INV", evicted(v), 0, FALSE)
        /\ UNCHANGED <<tag, st, ltag, lst, dir, req, stale>>

\* A GET that finds the line, or room for it.
get_start(c) ==
    LET r == req[c]
    IN  /\ llc = None /\ r.type \in {"GETS", "GETX"}
        /\ r.a \in ltag \/ Cardinality(ltag) < LLCWays
        /\ ltag' = ltag \cup {r.a}
        /\ llc' = Job(r.type, "fetch", c, r.a, r.a, "none", {}, 0, FALSE)
        /\ UNCHANGED <<tag, st, lst, dir, req, stale>>

\* Mutant: a downgrade of a dirty copy reports no write-back.
inval_writeback_inv(state, inv) == state = "M" /\ inv = "INV"

inval_writeback(state, inv) == state = "M"

\* One sharer loses the line (INV) or its exclusivity (INVX).
sendInvalidates(k) ==
    LET a == llc.line
    IN  /\ llc.type # "none" /\ llc.at \in {"evict", "inval"} /\ k \in llc.todo
        /\ IF a \in tag[k]
           THEN /\ st' = [st EXCEPT ![k][a] = IF @ = "I" \/ llc.inv = "INV" THEN "I" ELSE "S"]
                /\ sharers' = IF llc.inv = "INV" THEN [sharers EXCEPT ![a] = @ \ {k}] ELSE sharers
                /\ llc' = Job(llc.type, llc.at, llc.c, llc.a, a, llc.inv, llc.todo \ {k}, llc.sent + 1,
                              llc.wb \/ inval_writeback(st[k][a], llc.inv))
           ELSE /\ llc' = Job(llc.type, llc.at, llc.c, llc.a, a, llc.inv, llc.todo \ {k}, llc.sent, llc.wb)
                /\ UNCHANGED <<st, sharers>>
        /\ UNCHANGED <<tag, ltag, lst, numSharers, exclusive, req, stale>>

\* The evicted line goes to memory; the new one takes its slot and with it
\* the directory entry.
processEviction ==
    LET v == llc.line
        final == IF llc.wb THEN "M" ELSE lst[v]
    IN  /\ llc.type # "none" /\ llc.at = "evict" /\ llc.todo = {}
        /\ stale' = IF final = "M" THEN stale \ {v} ELSE stale
        /\ lst' = [lst EXCEPT ![v] = "I"]
        /\ ltag' = (ltag \ {v}) \cup {llc.a}
        /\ sharers' = [sharers EXCEPT ![v] = {}, ![llc.a] = sharers[v]]
        /\ numSharers' = [numSharers EXCEPT ![v] = 0, ![llc.a] = 0]
        /\ exclusive' = (exclusive \ {v, llc.a}) \cup (IF v \in exclusive THEN {llc.a} ELSE {})
        /\ llc' = Job(llc.type, "fetch", llc.c, llc.a, llc.a, "none", {}, 0, FALSE)
        /\ UNCHANGED <<tag, st, req>>

isExclusive(a) == numSharers[a] = 1 /\ a \in exclusive

\* Mutant: other readers keep their copies at a write.
invalidated_excl(a, c) == IF a \in exclusive THEN sharers[a] \ {c} ELSE {}

\* The copies that a write invalidates.
invalidated(a, c) == sharers[a] \ {c}

\* The line comes from memory if it has to; the copies that are in the way
\* of the request are then invalidated or downgraded.
processAccess ==
    LET a == llc.a
        c == llc.c
        upgrade == c \in sharers[a]
    IN  /\ llc.type # "none" /\ llc.at = "fetch"
        /\ \/ /\ llc.type = "GETS"
              /\ lst' = [lst EXCEPT ![a] = IF @ = "I" THEN "E" ELSE @]
              /\ llc' = Job("GETS", "inval", c, a, a, "INVX", IF isExclusive(a) THEN sharers[a] ELSE {}, 0, FALSE)
              /\ UNCHANGED <<numSharers, sharers>>
           \/ /\ llc.type = "GETX"
              /\ lst' = [lst EXCEPT ![a] = "M"]
              /\ sharers' = [sharers EXCEPT ![a] = @ \ {c}]
              /\ numSharers' = [numSharers EXCEPT ![a] = IF upgrade THEN @ - 1 ELSE @]
              /\ llc' = Job("GETX", "inval", c, a, a, "INV", invalidated(a, c), 0, FALSE)
        /\ UNCHANGED <<tag, st, ltag, exclusive, req, stale>>

\* The line is given to the child, and the parent is unlocked.
grant ==
    LET a == llc.a
        c == llc.c
        only == llc.type = "GETS" /\ numSharers[a] = 0 /\ lst[a] \in {"E", "M"}
    IN  /\ llc.type # "none" /\ llc.at = "inval" /\ llc.todo = {}
        /\ lst' = [lst EXCEPT ![a] = IF llc.wb THEN "M" ELSE @]
        /\ sharers' = [sharers EXCEPT ![a] = @ \cup {c}]
        /\ \/ /\ only
              /\ st' = [st EXCEPT ![c][a] = "E"]
              /\ numSharers' = [numSharers EXCEPT ![a] = 1]
              /\ exclusive' = exclusive \cup {a}
              /\ UNCHANGED stale
           \/ /\ llc.type = "GETS" /\ ~ only
              /\ st' = [st EXCEPT ![c][a] = "S"]
              /\ numSharers' = [numSharers EXCEPT ![a] = @ + 1]
              /\ exclusive' = exclusive \ {a}
              /\ UNCHANGED stale
           \/ /\ llc.type = "GETX"
              /\ st' = [st EXCEPT ![c][a] = "M"]
              /\ numSharers' = [numSharers EXCEPT ![a] = 1]
              /\ exclusive' = exclusive \cup {a}
              /\ stale' = stale \cup {a}
        /\ req' = [req EXCEPT ![c] = None]
        /\ llc' = None
        /\ UNCHANGED <<tag, ltag>>

Parent == (\E k \in Cores : sendInvalidates(k)) \/ processEviction \/ processAccess \/ grant

Serve(c) == put_skip(c) \/ put(c) \/ get_evict(c) \/ get_start(c)

Next ==
    \/ \E c \in Cores, a \in Lines, write \in BOOLEAN :
          l1_hit(c, a, write) \/ l1_upgrade(c, a, write) \/ l1_miss(c, a, write) \/ l1_evict(c, a, write)
    \/ \E c \in Cores : Serve(c)
    \/ Parent

Spec == Init /\ [][Next]_vars

\* A request that holds the locks goes on; a lock that is free again and
\* again is obtained.
FairSpec == Spec /\ WF_vars(Parent) /\ \A c \in Cores : SF_vars(Serve(c))

-----------------------------------------------------------------------------
States == {"I", "S", "E", "M"}

\* Types of the arrays and of the directory.
TypeOK ==
    /\ tag \in [Cores -> SUBSET Lines] /\ st \in [Cores -> [Lines -> States]]
    /\ ltag \subseteq Lines /\ lst \in [Lines -> {"I", "E", "M"}]
    /\ numSharers \in [Lines -> Int] /\ sharers \in [Lines -> SUBSET Cores] /\ exclusive \subseteq Lines
    /\ req = [c \in Cores |-> req[c]]
    /\ stale \subseteq Lines

\* A line that one cache may write is valid in no other cache, also while
\* requests for it race.
SingleWriter ==
    \A a \in Lines : \A c, d \in Cores :
        c # d /\ st[c][a] \in {"E", "M"} => st[d][a] = "I"

\* The directory of the shared cache knows exactly the caches that have a
\* line, and the shared cache has every such line (inclusion).
DirectoryExact ==
    \A a \in Lines : \A c \in Cores :
        /\ st[c][a] # "I" => a \in tag[c] /\ a \in ltag /\ lst[a] # "I"
        /\ (llc.type = "none" => (st[c][a] # "I" <=> c \in sharers[a]))

\* A line that was written and is not in memory yet is dirty in some cache,
\* or its write-back was just taken from one: no race turns it clean.
DirtyKept ==
    \A a \in stale :
        \/ lst[a] = "M" \/ \E c \in Cores : st[c][a] = "M"
        \/ llc.type # "none" /\ llc.at \in {"evict", "inval"} /\ llc.line = a /\ llc.wb

\* The assertions of CheckForMESIRace, of the PUT path and of sendInvalidates.
AssertionsHold ==
    /\ \A c \in Cores :
          LET r == req[c] IN
          /\ r.type = "GETS" => st[c][r.a] = "I"
          /\ r.type = "GETX" /\ st[c][r.a] # r.init => r.init = "S" /\ st[c][r.a] = "I"
          /\ r.type \in {"PUTS", "PUTX"} /\ st[c][r.a] # r.init => st[c][r.a] \in {"I", "S"}
          /\ llc = None /\ r.type = "PUTX" /\ st[c][r.a] = "M" => isExclusive(r.a) /\ lst[r.a] \in {"E", "M"}
    /\ llc.type # "none" /\ llc.at \in {"evict", "inval"} /\ llc.todo = {} =>
          /\ llc.inv = "INV" => llc.sent = numSharers[llc.line]
          /\ llc.wb => lst[llc.line] \in {"E", "M"}

\* Every access completes.
AccessEnds == \A c \in Cores : req[c] # None ~> req[c] = None
=============================================================================
