--------------------------- MODULE CoherenceProofs ---------------------------
(***************************************************************************)
(* Proofs about Coherence for any number of cores and lines and any size   *)
(* of the caches.                                                          *)
(***************************************************************************)
EXTENDS Coherence, FiniteSetTheorems, TLAPS

\* What a core's cache knows of its own call to the parent.
ReqOK ==
    \A c \in Cores :
        /\ req[c].type \in {"none", "GETS", "GETX", "PUTS", "PUTX"}
        /\ req[c].type # "none" => req[c].a \in Lines /\ req[c].a \in tag[c]
        /\ req[c].type = "GETS" => st[c][req[c].a] = "I"
        /\ req[c].type = "GETX" => req[c].init \in {"I", "S"} /\ st[c][req[c].a] \in {req[c].init, "I"}
        /\ req[c].type \in {"PUTS", "PUTX"} =>
              /\ req[c].init # "I" /\ req[c].next \in Lines /\ req[c].next \notin tag[c]
              /\ req[c].type = "PUTX" <=> req[c].init = "M"
              /\ st[c][req[c].a] \in {req[c].init, "I", "S"}

\* The request at the parent, before its invalidations.
JobOK ==
    /\ llc.type \in {"none", "GETS", "GETX"}
    /\ llc.type # "none" =>
          /\ llc.c \in Cores /\ llc.a \in Lines /\ llc.line \in Lines /\ llc.todo \subseteq Cores
          /\ llc.at \in {"evict", "fetch", "inval"}
          /\ req[llc.c].type = llc.type /\ req[llc.c].a = llc.a
          /\ llc.at = "evict" => llc.line \in ltag /\ llc.a \notin ltag /\ llc.inv = "INV"
          /\ llc.at = "fetch" => llc.a \in ltag
          /\ llc.at = "inval" => llc.line = llc.a /\ llc.a \in ltag /\ lst[llc.a] # "I"
          /\ llc.at = "inval" => llc.inv = IF llc.type = "GETS" THEN "INVX" ELSE "INV"

\* Invalidations that take the line away are under way.
Invalidating(a) ==
    llc.type # "none" /\ llc.at \in {"evict", "inval"} /\ llc.inv = "INV" /\ llc.line = a

\* The children that are still in the way are still to be told.
TodoOK ==
    /\ \A a \in Lines : Invalidating(a) => sharers[a] = llc.todo
    /\ llc.type = "GETS" /\ llc.at = "inval" =>
          \A c \in Cores : st[c][llc.a] \in {"E", "M"} => c \in llc.todo
    /\ llc.type = "GETX" /\ llc.at = "inval" =>
          /\ llc.c \notin sharers[llc.a]
          /\ st[llc.c][llc.a] # "I" => \A c \in Cores : st[c][llc.a] \notin {"E", "M"}

\* The core whose write is being granted is off the sharers already.
Upgrading(c, a) == llc.type = "GETX" /\ llc.at = "inval" /\ c = llc.c /\ a = llc.a

\* The directory against the caches.
DirOK ==
    \A a \in Lines : \A c \in Cores :
        /\ c \in sharers[a] => st[c][a] # "I"
        /\ st[c][a] # "I" => a \in tag[c] /\ a \in ltag /\ lst[a] # "I" /\ (c \in sharers[a] \/ Upgrading(c, a))
        /\ st[c][a] \in {"E", "M"} => a \in exclusive /\ c \in sharers[a]
        /\ \A d \in Cores : a \in exclusive /\ c \in sharers[a] /\ d \in sharers[a] => c = d

\* The counter against the set; sendInvalidates lowers the counter at its end.
CountOK ==
    /\ llc.type # "none" => llc.sent \in Int
    /\ \A a \in Lines :
          /\ ~ Invalidating(a) => numSharers[a] = Cardinality(sharers[a])
          /\ Invalidating(a) => numSharers[a] = Cardinality(sharers[a]) + llc.sent

\* What a write-back on its way stands for.
WbOK ==
    /\ DirtyKept
    /\ llc.type # "none" /\ llc.at \in {"evict", "inval"} /\ llc.wb => lst[llc.line] # "I"

IInv == TypeOK /\ ReqOK /\ JobOK /\ TodoOK /\ DirOK /\ CountOK /\ WbOK

LEMMA InitInv == Init => IInv
<1> SUFFICES ASSUME Init PROVE IInv
    OBVIOUS
<1>1. TypeOK
    BY DEF Init, TypeOK, States
<1>2. ReqOK
    BY DEF Init, ReqOK, None
<1>3. JobOK /\ TodoOK
    BY DEF Init, JobOK, TodoOK, None, Invalidating
<1>4. DirOK
    BY DEF Init, DirOK
<1>5. CountOK
    BY FS_EmptySet DEF Init, CountOK, Invalidating, None
<1>6. WbOK
    BY DEF Init, WbOK, DirtyKept, None
<1> QED
    BY <1>1, <1>2, <1>3, <1>4, <1>5, <1>6 DEF IInv

\* Sharers are finitely many.
LEMMA FiniteSharers ==
    ASSUME TypeOK, NEW a \in Lines
    PROVE  IsFiniteSet(sharers[a]) /\ Cardinality(sharers[a]) \in Nat
<1>1. sharers[a] \in SUBSET Cores
    BY DEF TypeOK
<1> QED
    BY <1>1, FS_Subset, FS_CardinalityType, CoherenceAssumption

\* One line of one cache changes its state.
LEMMA StateUpdate ==
    ASSUME TypeOK, NEW c \in Cores, NEW a \in Lines, NEW v \in States
    PROVE  /\ [st EXCEPT ![c][a] = v] \in [Cores -> [Lines -> States]]
           /\ \A x \in Cores : \A b \in Lines :
                 [st EXCEPT ![c][a] = v][x][b] = IF x = c /\ b = a THEN v ELSE st[x][b]
<1>1. st \in [Cores -> [Lines -> States]]
    BY DEF TypeOK
<1> QED
    BY <1>1

LEMMA StutterInv ==
    ASSUME IInv, UNCHANGED vars
    PROVE  IInv'
    BY DEF IInv, vars, dir, TypeOK, ReqOK, JobOK, TodoOK, Invalidating, DirOK, Upgrading, CountOK,
              WbOK, DirtyKept

LEMMA HitInv ==
    ASSUME IInv, NEW c \in Cores, NEW a \in Lines, NEW write \in BOOLEAN, l1_hit(c, a, write)
    PROVE  IInv'
<1> USE DEF IInv
<1>1. UNCHANGED <<tag, ltag, lst, numSharers, sharers, exclusive, req, llc>>
    BY DEF l1_hit, dir
<1>2. req[c].type = "none" /\ a \in tag[c]
    BY DEF l1_hit, None
<1>3. CASE ~ write
  <2>1. UNCHANGED vars
    BY <1>1, <1>3 DEF l1_hit, vars, dir
  <2> QED
    BY <2>1, StutterInv
<1>4. CASE write
  <2>1. st' = [st EXCEPT ![c][a] = "M"] /\ stale' = stale \cup {a} /\ st[c][a] \in {"E", "M"}
    BY <1>4 DEF l1_hit
  <2>2. /\ st' \in [Cores -> [Lines -> States]]
        /\ \A x \in Cores : \A b \in Lines : st'[x][b] = IF x = c /\ b = a THEN "M" ELSE st[x][b]
    <3>1. "M" \in States
        BY DEF States
    <3> QED
        BY <2>1, <3>1, StateUpdate
  <2>3. TypeOK'
    BY <1>1, <2>1, <2>2 DEF TypeOK
  <2>4. ReqOK'
    BY <1>1, <1>2, <2>2 DEF ReqOK
  <2>5. JobOK' /\ CountOK'
    BY <1>1 DEF JobOK, CountOK, Invalidating
  <2>6. TodoOK'
    BY <1>1, <2>1, <2>2 DEF TodoOK, Invalidating, JobOK
  <2>7. DirOK'
    BY <1>1, <1>2, <2>1, <2>2 DEF DirOK, Upgrading
  <2>8. WbOK'
    BY <1>1, <2>1, <2>2 DEF WbOK, DirtyKept, TypeOK
  <2> QED
    BY <2>3, <2>4, <2>5, <2>6, <2>7, <2>8
<1> QED
    BY <1>3, <1>4

LEMMA UpgradeInv ==
    ASSUME IInv, NEW c \in Cores, NEW a \in Lines, NEW write \in BOOLEAN, l1_upgrade(c, a, write)
    PROVE  IInv'
<1> USE DEF IInv
<1>0. req[c].type = "none" /\ (llc.type # "none" => llc.c # c)
    BY DEF l1_upgrade, None, JobOK
<1>1. TypeOK'
  <2>1. (tag \in [Cores -> SUBSET Lines])'
    BY <1>0 DEF l1_upgrade, TypeOK, ReqOK, JobOK, States, dir, Get
  <2>2. (st \in [Cores -> [Lines -> States]])'
    BY <1>0 DEF l1_upgrade, TypeOK, ReqOK, JobOK, States, dir, Get
  <2>3. (ltag \subseteq Lines /\ lst \in [Lines -> {"I", "E", "M"}])'
    BY <1>0 DEF l1_upgrade, TypeOK, ReqOK, JobOK, States, dir, Get
  <2>4. (numSharers \in [Lines -> Int] /\ sharers \in [Lines -> SUBSET Cores] /\ exclusive \subseteq Lines)'
    BY <1>0 DEF l1_upgrade, TypeOK, ReqOK, JobOK, States, dir, Get
  <2>5. (req = [x \in Cores |-> req[x]])'
    BY <1>0 DEF l1_upgrade, TypeOK, ReqOK, JobOK, States, dir, Get
  <2>6. (stale \subseteq Lines)'
    BY <1>0 DEF l1_upgrade, TypeOK, ReqOK, JobOK, States, dir, Get
  <2> QED
    BY <2>1, <2>2, <2>3, <2>4, <2>5, <2>6 DEF TypeOK
<1>2. ReqOK'
    BY <1>0 DEF l1_upgrade, ReqOK, TypeOK, States, dir, Get
<1>3. JobOK'
    BY <1>0 DEF l1_upgrade, JobOK, ReqOK, TypeOK, dir, Get
<1>4. TodoOK'
    BY <1>0 DEF l1_upgrade, TodoOK, Invalidating, JobOK, ReqOK, TypeOK, dir, Get
<1>5. DirOK'
    BY <1>0 DEF l1_upgrade, DirOK, Upgrading, ReqOK, JobOK, TypeOK, dir, Get
<1>6. CountOK'
    BY <1>0 DEF l1_upgrade, CountOK, Invalidating, JobOK, TypeOK, dir, Get
<1>7. WbOK'
    BY <1>0 DEF l1_upgrade, WbOK, DirtyKept, JobOK, ReqOK, TypeOK, dir
<1> QED
    BY <1>1, <1>2, <1>3, <1>4, <1>5, <1>6, <1>7

LEMMA MissInv ==
    ASSUME IInv, NEW c \in Cores, NEW a \in Lines, NEW write \in BOOLEAN, l1_miss(c, a, write)
    PROVE  IInv'
<1> USE DEF IInv
<1>0. req[c].type = "none" /\ (llc.type # "none" => llc.c # c)
    BY DEF l1_miss, None, JobOK
<1>1. TypeOK'
  <2>1. (tag \in [Cores -> SUBSET Lines])'
    BY <1>0 DEF l1_miss, TypeOK, ReqOK, JobOK, States, dir, Get
  <2>2. (st \in [Cores -> [Lines -> States]])'
    BY <1>0 DEF l1_miss, TypeOK, ReqOK, JobOK, States, dir, Get
  <2>3. (ltag \subseteq Lines /\ lst \in [Lines -> {"I", "E", "M"}])'
    BY <1>0 DEF l1_miss, TypeOK, ReqOK, JobOK, States, dir, Get
  <2>4. (numSharers \in [Lines -> Int] /\ sharers \in [Lines -> SUBSET Cores] /\ exclusive \subseteq Lines)'
    BY <1>0 DEF l1_miss, TypeOK, ReqOK, JobOK, States, dir, Get
  <2>5. (req = [x \in Cores |-> req[x]])'
    BY <1>0 DEF l1_miss, TypeOK, ReqOK, JobOK, States, dir, Get
  <2>6. (stale \subseteq Lines)'
    BY <1>0 DEF l1_miss, TypeOK, ReqOK, JobOK, States, dir, Get
  <2> QED
    BY <2>1, <2>2, <2>3, <2>4, <2>5, <2>6 DEF TypeOK
<1>2. ReqOK'
  <2>1. st[c][a] = "I"
    BY DEF l1_miss, DirOK, TypeOK, States
  <2> QED
    BY <1>0, <2>1 DEF l1_miss, ReqOK, TypeOK, dir, Get
<1>3. JobOK'
    BY <1>0 DEF l1_miss, JobOK, ReqOK, TypeOK, dir, Get
<1>4. TodoOK'
    BY <1>0 DEF l1_miss, TodoOK, Invalidating, JobOK, ReqOK, TypeOK, dir, Get
<1>5. DirOK'
    BY <1>0 DEF l1_miss, DirOK, Upgrading, ReqOK, JobOK, TypeOK, dir, Get
<1>6. CountOK'
    BY <1>0 DEF l1_miss, CountOK, Invalidating, JobOK, TypeOK, dir, Get
<1>7. WbOK'
    BY <1>0 DEF l1_miss, WbOK, DirtyKept, JobOK, ReqOK, TypeOK, dir
<1> QED
    BY <1>1, <1>2, <1>3, <1>4, <1>5, <1>6, <1>7

LEMMA EvictInv ==
    ASSUME IInv, NEW c \in Cores, NEW a \in Lines, NEW write \in BOOLEAN, l1_evict(c, a, write)
    PROVE  IInv'
<1> USE DEF IInv
<1>0. req[c].type = "none" /\ (llc.type # "none" => llc.c # c)
    BY DEF l1_evict, None, JobOK
<1>1. TypeOK'
  <2>1. (tag \in [Cores -> SUBSET Lines])'
    BY <1>0 DEF l1_evict, TypeOK, ReqOK, JobOK, States, dir
  <2>2. (st \in [Cores -> [Lines -> States]])'
    BY <1>0 DEF l1_evict, TypeOK, ReqOK, JobOK, States, dir
  <2>3. (ltag \subseteq Lines /\ lst \in [Lines -> {"I", "E", "M"}])'
    BY <1>0 DEF l1_evict, TypeOK, ReqOK, JobOK, States, dir
  <2>4. (numSharers \in [Lines -> Int] /\ sharers \in [Lines -> SUBSET Cores] /\ exclusive \subseteq Lines)'
    BY <1>0 DEF l1_evict, TypeOK, ReqOK, JobOK, States, dir
  <2>5. (req = [x \in Cores |-> req[x]])'
    BY <1>0 DEF l1_evict, TypeOK, ReqOK, JobOK, States, dir
  <2>6. (stale \subseteq Lines)'
    BY <1>0 DEF l1_evict, TypeOK, ReqOK, JobOK, States, dir
  <2> QED
    BY <2>1, <2>2, <2>3, <2>4, <2>5, <2>6 DEF TypeOK
<1>2. ReqOK'
    BY <1>0 DEF l1_evict, ReqOK, TypeOK, States, dir
<1>3. JobOK'
    BY <1>0 DEF l1_evict, JobOK, ReqOK, TypeOK, dir
<1>4. TodoOK'
    BY <1>0 DEF l1_evict, TodoOK, Invalidating, JobOK, ReqOK, TypeOK, dir
<1>5. DirOK'
    BY <1>0 DEF l1_evict, DirOK, Upgrading, ReqOK, JobOK, TypeOK, dir
<1>6. CountOK'
    BY <1>0 DEF l1_evict, CountOK, Invalidating, JobOK, TypeOK, dir
<1>7. WbOK'
    BY <1>0 DEF l1_evict, WbOK, DirtyKept, JobOK, ReqOK, TypeOK, dir
<1> QED
    BY <1>1, <1>2, <1>3, <1>4, <1>5, <1>6, <1>7

LEMMA SkipInv ==
    ASSUME IInv, NEW c \in Cores, put_skip(c)
    PROVE  IInv'
<1> USE DEF IInv
<1>0. llc.type = "none"
    BY DEF put_skip, None
<1>1. TypeOK'
  <2>1. (tag \in [Cores -> SUBSET Lines])'
    BY <1>0 DEF put_skip, TypeOK, ReqOK, JobOK, States, dir, insert_next, CheckForMESIRace, Get
  <2>2. (st \in [Cores -> [Lines -> States]])'
    BY <1>0 DEF put_skip, TypeOK, ReqOK, JobOK, States, dir, insert_next, CheckForMESIRace, Get
  <2>3. (ltag \subseteq Lines /\ lst \in [Lines -> {"I", "E", "M"}])'
    BY <1>0 DEF put_skip, TypeOK, ReqOK, JobOK, States, dir, insert_next, CheckForMESIRace, Get
  <2>4. (numSharers \in [Lines -> Int] /\ sharers \in [Lines -> SUBSET Cores] /\ exclusive \subseteq Lines)'
    BY <1>0 DEF put_skip, TypeOK, ReqOK, JobOK, States, dir, insert_next, CheckForMESIRace, Get
  <2>5. (req = [x \in Cores |-> req[x]])'
    BY <1>0 DEF put_skip, TypeOK, ReqOK, JobOK, States, dir, insert_next, CheckForMESIRace, Get
  <2>6. (stale \subseteq Lines)'
    BY <1>0 DEF put_skip, TypeOK, ReqOK, JobOK, States, dir, insert_next, CheckForMESIRace, Get
  <2> QED
    BY <2>1, <2>2, <2>3, <2>4, <2>5, <2>6 DEF TypeOK
<1>2. ReqOK'
  <2>1. req[c].a \in Lines /\ req[c].next \in Lines /\ req[c].next \notin tag[c]
    BY DEF put_skip, ReqOK
  <2>2. st[c][req[c].next] = "I"
    BY <2>1 DEF DirOK, TypeOK, States
  <2>3. /\ req'[c].type \in {"GETS", "GETX"} /\ req'[c].a = req[c].next /\ req'[c].init = "I"
        /\ req[c].next \in tag'[c]
    BY <2>1 DEF put_skip, insert_next, Get, TypeOK
  <2>4. st'[c][req[c].next] = "I"
    BY <2>1, <2>2 DEF put_skip, TypeOK
  <2>5. \A x \in Cores \ {c} : req'[x] = req[x] /\ tag'[x] = tag[x] /\ st'[x] = st[x]
    BY DEF put_skip, insert_next, TypeOK
  <2> QED
    BY <2>1, <2>3, <2>4, <2>5 DEF ReqOK
<1>3. JobOK'
    BY <1>0 DEF put_skip, JobOK, ReqOK, TypeOK, dir, insert_next, CheckForMESIRace, Get
<1>4. TodoOK'
    BY <1>0 DEF put_skip, TodoOK, Invalidating, JobOK, ReqOK, TypeOK, dir, insert_next, CheckForMESIRace, Get
<1>5. DirOK'
    BY <1>0 DEF put_skip, DirOK, Upgrading, ReqOK, JobOK, TypeOK, dir, insert_next, CheckForMESIRace, Get
<1>6. CountOK'
    BY <1>0 DEF put_skip, CountOK, Invalidating, JobOK, TypeOK, dir, insert_next, CheckForMESIRace, Get
<1>7. WbOK'
    BY <1>0 DEF put_skip, WbOK, DirtyKept, JobOK, ReqOK, TypeOK, dir
<1> QED
    BY <1>1, <1>2, <1>3, <1>4, <1>5, <1>6, <1>7

LEMMA PutInv ==
    ASSUME IInv, NEW c \in Cores, put(c)
    PROVE  IInv'
<1> USE DEF IInv
<1>0. llc.type = "none"
    BY DEF put, None
<1>1. TypeOK'
  <2>1. (tag \in [Cores -> SUBSET Lines])'
    BY <1>0 DEF put, TypeOK, ReqOK, JobOK, States, dir, insert_next, CheckForMESIRace, Get, put_state
  <2>2. (st \in [Cores -> [Lines -> States]])'
    BY <1>0 DEF put, TypeOK, ReqOK, JobOK, States, dir, insert_next, CheckForMESIRace, Get, put_state
  <2>3. (ltag \subseteq Lines /\ lst \in [Lines -> {"I", "E", "M"}])'
    BY <1>0 DEF put, TypeOK, ReqOK, JobOK, States, dir, insert_next, CheckForMESIRace, Get, put_state
  <2>4. (numSharers \in [Lines -> Int] /\ sharers \in [Lines -> SUBSET Cores] /\ exclusive \subseteq Lines)'
    BY <1>0 DEF put, TypeOK, ReqOK, JobOK, States, dir, insert_next, CheckForMESIRace, Get, put_state
  <2>5. (req = [x \in Cores |-> req[x]])'
    BY <1>0 DEF put, TypeOK, ReqOK, JobOK, States, dir, insert_next, CheckForMESIRace, Get, put_state
  <2>6. (stale \subseteq Lines)'
    BY <1>0 DEF put, TypeOK, ReqOK, JobOK, States, dir, insert_next, CheckForMESIRace, Get, put_state
  <2> QED
    BY <2>1, <2>2, <2>3, <2>4, <2>5, <2>6 DEF TypeOK
<1>2. ReqOK'
  <2>1. req[c].a \in Lines /\ req[c].next \in Lines /\ req[c].next \notin tag[c]
    BY DEF put, ReqOK
  <2>2. st[c][req[c].next] = "I"
    BY <2>1 DEF DirOK, TypeOK, States
  <2>3. /\ req'[c].type \in {"GETS", "GETX"} /\ req'[c].a = req[c].next /\ req'[c].init = "I"
        /\ req[c].next \in tag'[c]
    BY <2>1 DEF put, insert_next, Get, TypeOK
  <2>4. st'[c][req[c].next] = "I"
    BY <2>1, <2>2 DEF put, TypeOK
  <2>5. \A x \in Cores \ {c} : req'[x] = req[x] /\ tag'[x] = tag[x] /\ st'[x] = st[x]
    BY DEF put, insert_next, TypeOK
  <2> QED
    BY <2>1, <2>3, <2>4, <2>5 DEF ReqOK
<1>3. JobOK'
    BY <1>0 DEF put, JobOK, ReqOK, TypeOK, dir, insert_next, CheckForMESIRace, Get, put_state
<1>4. TodoOK'
    BY <1>0 DEF put, TodoOK, Invalidating, JobOK, ReqOK, TypeOK, dir, insert_next, CheckForMESIRace, Get, put_state
<1>5. DirOK'
    BY <1>0 DEF put, DirOK, Upgrading, ReqOK, JobOK, TypeOK, dir, insert_next, CheckForMESIRace, Get, put_state
<1>6. CountOK'
  <2> DEFINE a == req[c].a
  <2>1. a \in Lines /\ st[c][a] # "I"
    BY DEF put, ReqOK, CheckForMESIRace
  <2>2. c \in sharers[a]
    BY <1>0, <2>1 DEF DirOK, Upgrading
  <2>3. Cardinality(sharers[a] \ {c}) = numSharers[a] - 1
    <3>1. numSharers[a] = Cardinality(sharers[a])
        BY <1>0, <2>1 DEF CountOK, Invalidating
    <3>2. IsFiniteSet(sharers[a])
        BY <2>1, FiniteSharers
    <3>3. Cardinality(sharers[a] \ {c}) = Cardinality(sharers[a]) - 1
        BY <2>2, <3>2, FS_RemoveElement
    <3> QED
        BY <3>1, <3>3
  <2>4. sharers'[a] = sharers[a] \ {c} /\ numSharers'[a] = numSharers[a] - 1
    BY <2>1 DEF put, TypeOK
  <2>5. \A b \in Lines \ {a} : sharers'[b] = sharers[b] /\ numSharers'[b] = numSharers[b]
    BY DEF put, TypeOK
  <2> QED
    BY <1>0, <2>3, <2>4, <2>5 DEF CountOK, Invalidating, put
<1>7. WbOK'
    BY <1>0 DEF put, WbOK, DirtyKept, JobOK, ReqOK, TypeOK, dir, CheckForMESIRace, put_state
<1> QED
    BY <1>1, <1>2, <1>3, <1>4, <1>5, <1>6, <1>7

LEMMA GetEvictInv ==
    ASSUME IInv, NEW c \in Cores, get_evict(c)
    PROVE  IInv'
<1> USE DEF IInv
<1>0. llc.type = "none"
    BY DEF get_evict, None
<1>1. TypeOK'
  <2>1. (tag \in [Cores -> SUBSET Lines])'
    BY <1>0 DEF get_evict, TypeOK, ReqOK, JobOK, States, dir, Job, evicted
  <2>2. (st \in [Cores -> [Lines -> States]])'
    BY <1>0 DEF get_evict, TypeOK, ReqOK, JobOK, States, dir, Job, evicted
  <2>3. (ltag \subseteq Lines /\ lst \in [Lines -> {"I", "E", "M"}])'
    BY <1>0 DEF get_evict, TypeOK, ReqOK, JobOK, States, dir, Job, evicted
  <2>4. (numSharers \in [Lines -> Int] /\ sharers \in [Lines -> SUBSET Cores] /\ exclusive \subseteq Lines)'
    BY <1>0 DEF get_evict, TypeOK, ReqOK, JobOK, States, dir, Job, evicted
  <2>5. (req = [x \in Cores |-> req[x]])'
    BY <1>0 DEF get_evict, TypeOK, ReqOK, JobOK, States, dir, Job, evicted
  <2>6. (stale \subseteq Lines)'
    BY <1>0 DEF get_evict, TypeOK, ReqOK, JobOK, States, dir, Job, evicted
  <2> QED
    BY <2>1, <2>2, <2>3, <2>4, <2>5, <2>6 DEF TypeOK
<1>2. ReqOK'
    BY <1>0 DEF get_evict, ReqOK, TypeOK, States, dir, Job, evicted
<1>3. JobOK'
    BY <1>0 DEF get_evict, JobOK, ReqOK, TypeOK, dir, Job, evicted
<1>4. TodoOK'
    BY <1>0 DEF get_evict, TodoOK, Invalidating, JobOK, ReqOK, TypeOK, dir, Job, evicted
<1>5. DirOK'
    BY <1>0 DEF get_evict, DirOK, Upgrading, ReqOK, JobOK, TypeOK, dir, Job, evicted
<1>6. CountOK'
    BY <1>0 DEF get_evict, CountOK, Invalidating, JobOK, TypeOK, dir, Job, evicted
<1>7. WbOK'
    BY <1>0 DEF get_evict, WbOK, DirtyKept, JobOK, ReqOK, TypeOK, dir, Job
<1> QED
    BY <1>1, <1>2, <1>3, <1>4, <1>5, <1>6, <1>7

LEMMA GetStartInv ==
    ASSUME IInv, NEW c \in Cores, get_start(c)
    PROVE  IInv'
<1> USE DEF IInv
<1>0. llc.type = "none"
    BY DEF get_start, None
<1>1. TypeOK'
  <2>1. (tag \in [Cores -> SUBSET Lines])'
    BY <1>0 DEF get_start, TypeOK, ReqOK, JobOK, States, dir, Job
  <2>2. (st \in [Cores -> [Lines -> States]])'
    BY <1>0 DEF get_start, TypeOK, ReqOK, JobOK, States, dir, Job
  <2>3. (ltag \subseteq Lines /\ lst \in [Lines -> {"I", "E", "M"}])'
    BY <1>0 DEF get_start, TypeOK, ReqOK, JobOK, States, dir, Job
  <2>4. (numSharers \in [Lines -> Int] /\ sharers \in [Lines -> SUBSET Cores] /\ exclusive \subseteq Lines)'
    BY <1>0 DEF get_start, TypeOK, ReqOK, JobOK, States, dir, Job
  <2>5. (req = [x \in Cores |-> req[x]])'
    BY <1>0 DEF get_start, TypeOK, ReqOK, JobOK, States, dir, Job
  <2>6. (stale \subseteq Lines)'
    BY <1>0 DEF get_start, TypeOK, ReqOK, JobOK, States, dir, Job
  <2> QED
    BY <2>1, <2>2, <2>3, <2>4, <2>5, <2>6 DEF TypeOK
<1>2. ReqOK'
    BY <1>0 DEF get_start, ReqOK, TypeOK, States, dir, Job
<1>3. JobOK'
    BY <1>0 DEF get_start, JobOK, ReqOK, TypeOK, dir, Job
<1>4. TodoOK'
    BY <1>0 DEF get_start, TodoOK, Invalidating, JobOK, ReqOK, TypeOK, dir, Job
<1>5. DirOK'
    BY <1>0 DEF get_start, DirOK, Upgrading, ReqOK, JobOK, TypeOK, dir, Job
<1>6. CountOK'
    BY <1>0 DEF get_start, CountOK, Invalidating, JobOK, TypeOK, dir, Job
<1>7. WbOK'
    BY <1>0 DEF get_start, WbOK, DirtyKept, JobOK, ReqOK, TypeOK, dir, Job
<1> QED
    BY <1>1, <1>2, <1>3, <1>4, <1>5, <1>6, <1>7

LEMMA InvalidateInv ==
    ASSUME IInv, NEW k \in Cores, sendInvalidates(k)
    PROVE  IInv'
<1> USE DEF IInv
<1> DEFINE a == llc.line
           v == IF st[k][a] = "I" \/ llc.inv = "INV" THEN "I" ELSE "S"
<1>1. a \in Lines /\ llc.type # "none" /\ llc.at \in {"evict", "inval"} /\ k \in llc.todo
    BY DEF sendInvalidates, JobOK
<1>2. /\ llc'.type = llc.type /\ llc'.at = llc.at /\ llc'.c = llc.c /\ llc'.a = llc.a
      /\ llc'.line = llc.line /\ llc'.inv = llc.inv /\ llc'.todo = llc.todo \ {k}
    BY DEF sendInvalidates, Job
<1>3. a \notin tag[k] => st[k][a] = "I" /\ k \notin sharers[a]
    BY <1>1 DEF DirOK, TypeOK, States
<1>4. st' = [st EXCEPT ![k][a] = v]
  <2>1. CASE a \in tag[k]
    BY <2>1 DEF sendInvalidates, TypeOK
  <2>2. CASE a \notin tag[k]
    BY <1>1, <1>3, <2>2 DEF sendInvalidates, TypeOK
  <2> QED
    BY <2>1, <2>2
<1>5. /\ st' \in [Cores -> [Lines -> States]]
      /\ \A x \in Cores : \A b \in Lines : st'[x][b] = IF x = k /\ b = a THEN v ELSE st[x][b]
  <2>1. v \in States
    BY DEF States
  <2> HIDE DEF v, a
  <2> QED
    BY <1>1, <1>4, <2>1, StateUpdate
<1>6. /\ sharers' \in [Lines -> SUBSET Cores]
      /\ \A b \in Lines : sharers'[b] = IF b = a /\ llc.inv = "INV" THEN sharers[b] \ {k} ELSE sharers[b]
  <2>1. CASE a \in tag[k]
    <3>1. sharers' = IF llc.inv = "INV" THEN [sharers EXCEPT ![a] = @ \ {k}] ELSE sharers
        BY <2>1 DEF sendInvalidates
    <3>2. sharers \in [Lines -> SUBSET Cores]
        BY DEF TypeOK
    <3> HIDE DEF a
    <3>3. CASE llc.inv = "INV"
        BY <1>1, <3>1, <3>2, <3>3
    <3>4. CASE llc.inv # "INV"
        BY <3>1, <3>2, <3>4
    <3> QED
        BY <3>3, <3>4
  <2>2. CASE a \notin tag[k]
    BY <1>1, <1>3, <2>2 DEF sendInvalidates, TypeOK
  <2> QED
    BY <2>1, <2>2
<1>7. UNCHANGED <<tag, ltag, lst, numSharers, exclusive, req, stale>>
    BY DEF sendInvalidates
<1> HIDE DEF a
<1>8. TypeOK'
    BY <1>5, <1>6, <1>7 DEF TypeOK
<1>9. ReqOK'
    BY <1>5, <1>7 DEF ReqOK
<1>10. JobOK'
    BY <1>2, <1>7 DEF JobOK
<1>11. TodoOK'
  <2>1. \A b \in Lines : Invalidating(b)' <=> Invalidating(b)
    BY <1>2 DEF Invalidating
  <2>2. (\A b \in Lines : Invalidating(b) => sharers[b] = llc.todo)'
    BY <1>1, <1>2, <1>6, <2>1 DEF TodoOK, Invalidating, a
  <2>3. llc.type = "GETS" /\ llc.at = "inval" => a = llc.a /\ llc.inv = "INVX"
    BY DEF JobOK, a
  <2>4. (llc.type = "GETS" /\ llc.at = "inval" =>
            \A c \in Cores : st[c][llc.a] \in {"E", "M"} => c \in llc.todo)'
    BY <1>1, <1>2, <1>5, <2>3 DEF TodoOK
  <2>5. (llc.type = "GETX" /\ llc.at = "inval" =>
            /\ llc.c \notin sharers[llc.a]
            /\ st[llc.c][llc.a] # "I" => \A c \in Cores : st[c][llc.a] \notin {"E", "M"})'
    BY <1>1, <1>2, <1>5, <1>6 DEF TodoOK, JobOK
  <2> QED
    BY <2>2, <2>4, <2>5 DEF TodoOK
<1>12. DirOK'
  <2>1. \A b \in Lines : \A c \in Cores : Upgrading(c, b)' <=> Upgrading(c, b)
    BY <1>2 DEF Upgrading
  <2>2. llc.inv = "INV" => v = "I"
    OBVIOUS
  <2>3. v \in {"I", "S"} /\ (v # "I" <=> st[k][a] # "I" /\ llc.inv # "INV")
    OBVIOUS
  <2> HIDE DEF v
  <2> QED
    BY <1>1, <1>5, <1>6, <1>7, <2>1, <2>2, <2>3 DEF DirOK
<1>13. CountOK'
  <2>1. llc.inv = "INV" => a \in tag[k] /\ k \in sharers[a]
    BY <1>1, <1>3 DEF TodoOK, Invalidating, a
  <2>2. llc'.sent \in Int /\ (a \in tag[k] => llc'.sent = llc.sent + 1)
    BY <1>1 DEF sendInvalidates, Job, CountOK, a
  <2>3. llc.inv = "INV" => Cardinality(sharers[a] \ {k}) = Cardinality(sharers[a]) - 1
    BY <1>1, <2>1, FiniteSharers, FS_RemoveElement
  <2>4. Cardinality(sharers[a]) \in Nat
    BY <1>1, FiniteSharers
  <2> QED
    <3>1. llc'.type # "none" => llc'.sent \in Int
        BY <2>2
    <3>2. \A b \in Lines : Invalidating(b)' <=> b = a /\ llc.inv = "INV"
        BY <1>1, <1>2 DEF Invalidating, a
    <3>3. \A b \in Lines : Invalidating(b) <=> b = a /\ llc.inv = "INV"
        BY <1>1 DEF Invalidating, a
    <3>4. llc.inv = "INV" => numSharers[a] = Cardinality(sharers[a] \ {k}) + llc'.sent
        BY <1>1, <2>1, <2>2, <2>3, <2>4, <3>3 DEF CountOK
    <3> QED
        BY <1>6, <1>7, <3>1, <3>2, <3>3, <3>4 DEF CountOK
<1>14. WbOK'
  <2>1. llc'.wb <=> llc.wb \/ st[k][a] = "M"
    <3>1. CASE a \in tag[k]
      <4>1. llc' = Job(llc.type, llc.at, llc.c, llc.a, a, llc.inv, llc.todo \ {k}, llc.sent + 1,
                       llc.wb \/ inval_writeback(st[k][a], llc.inv))
        BY <3>1 DEF sendInvalidates, a
      <4>2. llc'.wb = (llc.wb \/ inval_writeback(st[k][a], llc.inv))
        BY <4>1, Zenon DEF Job
      <4> QED
        BY <4>2, Zenon DEF inval_writeback
    <3>2. CASE a \notin tag[k]
        BY <1>3, <3>2 DEF sendInvalidates, Job, a
    <3> QED
        BY <3>1, <3>2
  <2>2. st[k][a] = "M" => lst[a] # "I"
    BY <1>1 DEF DirOK
  <2>3. ASSUME NEW b \in stale
        PROVE  \/ lst[b] = "M" \/ \E c \in Cores : st'[c][b] = "M"
               \/ llc'.line = b /\ llc'.wb
    <3>1. b \in Lines
        BY DEF TypeOK
    <3>2. CASE \E c \in Cores : st[c][b] = "M"
      <4>1. PICK c \in Cores : st[c][b] = "M"
        BY <3>2
      <4>2. CASE c = k /\ b = a
        BY <1>2, <2>1, <4>1, <4>2 DEF a
      <4>3. CASE ~ (c = k /\ b = a)
        BY <1>5, <3>1, <4>1, <4>3
      <4> QED
        BY <4>2, <4>3
    <3>3. CASE ~ \E c \in Cores : st[c][b] = "M"
        BY <1>2, <2>1, <3>3 DEF WbOK, DirtyKept
    <3> QED
        BY <3>2, <3>3
  <2> QED
    BY <1>1, <1>2, <1>7, <2>1, <2>2, <2>3 DEF WbOK, DirtyKept, a
<1> QED
    BY <1>8, <1>9, <1>10, <1>11, <1>12, <1>13, <1>14

LEMMA EvictionInv ==
    ASSUME IInv, processEviction
    PROVE  IInv'
<1> USE DEF IInv
<1>1. PICK v, a : v = llc.line /\ a = llc.a
    OBVIOUS
<1>2. /\ v \in Lines /\ a \in Lines /\ v # a /\ v \in ltag /\ a \notin ltag
      /\ llc.type # "none" /\ llc.at = "evict" /\ llc.todo = {} /\ llc.inv = "INV"
    BY <1>1 DEF processEviction, JobOK
<1>3. sharers[v] = {} /\ sharers[a] = {}
  <2>1. sharers[v] = {}
    BY <1>1, <1>2 DEF TodoOK, Invalidating
  <2>2. \A c \in Cores : c \notin sharers[a]
    BY <1>2 DEF DirOK
  <2> QED
    BY <1>2, <2>1, <2>2 DEF TypeOK
<1>4. \A c \in Cores : st[c][v] = "I" /\ st[c][a] = "I"
    BY <1>2, <1>3 DEF DirOK, Upgrading, TypeOK
<1>5. sharers' = sharers
    BY <1>1, <1>2, <1>3 DEF processEviction, TypeOK
<1>6. /\ llc'.type = llc.type /\ llc'.at = "fetch" /\ llc'.c = llc.c /\ llc'.a = llc.a
      /\ llc'.line = llc.a /\ llc'.inv = "none" /\ llc'.todo = {}
    BY DEF processEviction, Job
<1>7. UNCHANGED <<tag, st, req>>
    BY DEF processEviction
<1>8. /\ lst' \in [Lines -> {"I", "E", "M"}]
      /\ \A b \in Lines : lst'[b] = IF b = v THEN "I" ELSE lst[b]
    BY <1>1, <1>2 DEF processEviction, TypeOK, States
<1>9. ltag' = (ltag \ {v}) \cup {a}
    BY <1>1 DEF processEviction
<1>10. /\ numSharers' \in [Lines -> Int]
       /\ \A b \in Lines : numSharers'[b] = IF b \in {v, a} THEN 0 ELSE numSharers[b]
    BY <1>1, <1>2 DEF processEviction, TypeOK
<1>11. exclusive' \subseteq Lines /\ \A b \in Lines \ {v, a} : b \in exclusive' <=> b \in exclusive
    BY <1>1, <1>2 DEF processEviction, TypeOK
<1>12. stale' \subseteq Lines
    BY DEF processEviction, TypeOK
<1>13. TypeOK'
    BY <1>2, <1>5, <1>7, <1>8, <1>9, <1>10, <1>11, <1>12 DEF TypeOK
<1>14. ReqOK'
    BY <1>7 DEF ReqOK
<1>15. JobOK'
    BY <1>1, <1>2, <1>6, <1>7, <1>9 DEF JobOK
<1>16. TodoOK'
    BY <1>6 DEF TodoOK, Invalidating
<1>17. DirOK'
    BY <1>2, <1>3, <1>4, <1>5, <1>6, <1>7, <1>8, <1>9, <1>11 DEF DirOK, Upgrading
<1>18. CountOK'
  <2>1. llc'.sent = 0 /\ \A b \in Lines : ~ Invalidating(b)'
    BY <1>6 DEF processEviction, Job, Invalidating
  <2> QED
    BY <1>1, <1>2, <1>3, <1>5, <1>6, <1>10, <2>1, FS_EmptySet, FiniteSharers DEF CountOK, Invalidating
<1>19. WbOK'
  <2>1. v \in stale' => ~ llc.wb /\ lst[v] # "M"
    BY <1>1 DEF processEviction
  <2>2. v \notin stale'
    BY <1>1, <1>4, <2>1 DEF WbOK, DirtyKept, processEviction
  <2>3. ASSUME NEW b \in stale' PROVE lst'[b] = "M" \/ \E c \in Cores : st'[c][b] = "M"
    BY <1>1, <1>2, <1>7, <1>8, <2>2 DEF WbOK, DirtyKept, processEviction, TypeOK
  <2> QED
    BY <1>6, <2>3 DEF WbOK, DirtyKept
<1> QED
    BY <1>13, <1>14, <1>15, <1>16, <1>17, <1>18, <1>19

LEMMA AccessInv ==
    ASSUME IInv, processAccess
    PROVE  IInv'
<1> USE DEF IInv
<1>1. PICK a, c : a = llc.a /\ c = llc.c
    OBVIOUS
<1>2. /\ a \in Lines /\ c \in Cores /\ a \in ltag /\ llc.at = "fetch"
      /\ req[c].type = llc.type /\ req[c].a = a
    BY <1>1 DEF processAccess, JobOK
<1>3. UNCHANGED <<tag, st, ltag, exclusive, req, stale>>
    BY DEF processAccess
<1>4. /\ st[c][a] \in {"I", "S"} /\ (llc.type = "GETS" => st[c][a] = "I")
    BY <1>2 DEF ReqOK, processAccess, JobOK
<1>5. \A b \in Lines : ~ Invalidating(b) /\ \A x \in Cores : ~ Upgrading(x, b)
    BY <1>2 DEF Invalidating, Upgrading
<1>6. numSharers[a] = Cardinality(sharers[a])
    BY <1>2, <1>5 DEF CountOK
<1>7. CASE llc.type = "GETS"
  <2>1. UNCHANGED <<numSharers, sharers>>
    BY <1>7 DEF processAccess
  <2>2. /\ lst' \in [Lines -> {"I", "E", "M"}] /\ lst'[a] # "I"
        /\ \A b \in Lines \ {a} : lst'[b] = lst[b]
    BY <1>1, <1>2, <1>7 DEF processAccess, TypeOK, States
  <2>3. llc' = Job("GETS", "inval", c, a, a, "INVX", IF isExclusive(a) THEN sharers[a] ELSE {}, 0, FALSE)
    BY <1>1, <1>7 DEF processAccess
  <2>4. /\ llc'.type = "GETS" /\ llc'.at = "inval" /\ llc'.c = c /\ llc'.a = a /\ llc'.line = a
        /\ llc'.inv = "INVX" /\ llc'.todo = IF isExclusive(a) THEN sharers[a] ELSE {}
    BY <2>3 DEF Job
  <2>5. \A x \in Cores : st[x][a] \in {"E", "M"} => isExclusive(a) /\ x \in sharers[a]
    <3> SUFFICES ASSUME NEW x \in Cores, st[x][a] \in {"E", "M"} PROVE isExclusive(a) /\ x \in sharers[a]
        OBVIOUS
    <3>1. a \in exclusive /\ x \in sharers[a]
        BY <1>2 DEF DirOK
    <3>2. sharers[a] = {x}
        BY <1>2, <3>1 DEF DirOK, TypeOK
    <3>3. numSharers[a] = 1
        BY <1>6, <3>2, FS_Singleton
    <3> QED
        BY <3>1, <3>3 DEF isExclusive
  <2>6. TypeOK'
    BY <1>3, <2>1, <2>2 DEF TypeOK
  <2>7. ReqOK'
    BY <1>3 DEF ReqOK
  <2>8. JobOK'
    BY <1>2, <1>3, <1>7, <2>2, <2>4 DEF JobOK, TypeOK
  <2>9. TodoOK'
    BY <1>3, <2>4, <2>5 DEF TodoOK, Invalidating
  <2>10. DirOK'
    BY <1>2, <1>3, <1>5, <2>1, <2>2, <2>4 DEF DirOK, Upgrading
  <2>11. CountOK'
    <3>1. llc'.sent = 0 /\ \A b \in Lines : ~ Invalidating(b)'
        BY <2>3, <2>4 DEF Job, Invalidating
    <3> QED
        BY <1>5, <2>1, <3>1 DEF CountOK
  <2>12. WbOK'
    BY <1>1, <1>2, <1>3, <1>7 DEF WbOK, DirtyKept, TypeOK, processAccess, Job
  <2> QED
    BY <2>6, <2>7, <2>8, <2>9, <2>10, <2>11, <2>12
<1>8. CASE llc.type = "GETX"
  <2>1. /\ sharers' \in [Lines -> SUBSET Cores] /\ sharers'[a] = sharers[a] \ {c}
        /\ \A b \in Lines \ {a} : sharers'[b] = sharers[b]
    <3>1. sharers' = [sharers EXCEPT ![a] = @ \ {c}]
        BY <1>1, <1>8 DEF processAccess
    <3> QED
        BY <1>2, <3>1 DEF TypeOK
  <2>2. /\ numSharers' \in [Lines -> Int]
        /\ \A b \in Lines \ {a} : numSharers'[b] = numSharers[b]
    BY <1>1, <1>2, <1>8 DEF processAccess, TypeOK
  <2>3. /\ lst' \in [Lines -> {"I", "E", "M"}] /\ lst'[a] # "I"
        /\ \A b \in Lines \ {a} : lst'[b] = lst[b]
    BY <1>1, <1>2, <1>8 DEF processAccess, TypeOK, States
  <2>4. /\ llc'.type = "GETX" /\ llc'.at = "inval" /\ llc'.c = c /\ llc'.a = a /\ llc'.line = a
        /\ llc'.inv = "INV" /\ llc'.todo = sharers[a] \ {c}
    BY <1>1, <1>8 DEF processAccess, Job, invalidated
  <2>5. st[c][a] # "I" => \A x \in Cores : st[x][a] \notin {"E", "M"}
    BY <1>2, <1>4, <1>5 DEF DirOK
  <2>6. TypeOK'
    BY <1>3, <2>1, <2>2, <2>3 DEF TypeOK
  <2>7. ReqOK'
    BY <1>3 DEF ReqOK
  <2>8. JobOK'
    BY <1>2, <1>3, <1>8, <2>3, <2>4 DEF JobOK, TypeOK
  <2>9. TodoOK'
    BY <1>3, <2>1, <2>4, <2>5 DEF TodoOK, Invalidating
  <2>10. DirOK'
    BY <1>2, <1>3, <1>4, <1>5, <2>1, <2>3, <2>4 DEF DirOK, Upgrading
  <2>11. CountOK'
    <3>1. llc'.sent = 0
        BY <1>8 DEF processAccess, Job
    <3>2. numSharers'[a] = IF c \in sharers[a] THEN numSharers[a] - 1 ELSE numSharers[a]
        BY <1>1, <1>2, <1>8 DEF processAccess, TypeOK
    <3>3. numSharers'[a] = Cardinality(sharers[a] \ {c})
        BY <1>2, <1>6, <3>2, FiniteSharers, FS_RemoveElement
    <3>4. \A b \in Lines : numSharers'[b] = Cardinality(sharers'[b])
        BY <1>5, <2>1, <2>2, <3>3 DEF CountOK
    <3>5. \A b \in Lines : Cardinality(sharers'[b]) \in Int
        BY <2>2, <3>4
    <3> QED
        BY <3>1, <3>4, <3>5 DEF CountOK
  <2>12. WbOK'
    BY <1>1, <1>2, <1>3, <1>8 DEF WbOK, DirtyKept, TypeOK, processAccess, Job
  <2> QED
    BY <2>6, <2>7, <2>8, <2>9, <2>10, <2>11, <2>12
<1> QED
    BY <1>7, <1>8 DEF processAccess

LEMMA GrantInv ==
    ASSUME IInv, grant
    PROVE  IInv'
<1> USE DEF IInv
<1>1. PICK a, c : a = llc.a /\ c = llc.c
    OBVIOUS
<1>2. /\ a \in Lines /\ c \in Cores /\ a \in ltag /\ lst[a] # "I" /\ a = llc.line
      /\ llc.at = "inval" /\ llc.todo = {} /\ llc.type \in {"GETS", "GETX"}
      /\ req[c].type = llc.type /\ req[c].a = a
    BY <1>1 DEF grant, JobOK
<1>3. UNCHANGED <<tag, ltag>> /\ llc'.type = "none"
    BY DEF grant, None
<1>4. /\ lst' \in [Lines -> {"I", "E", "M"}] /\ lst'[a] # "I"
      /\ \A b \in Lines \ {a} : lst'[b] = lst[b]
    BY <1>1, <1>2 DEF grant, TypeOK, States
<1>5. /\ sharers' \in [Lines -> SUBSET Cores] /\ sharers'[a] = sharers[a] \cup {c}
      /\ \A b \in Lines \ {a} : sharers'[b] = sharers[b]
    BY <1>1, <1>2 DEF grant, TypeOK
<1>6. /\ req' = [x \in Cores |-> req'[x]] /\ req'[c].type = "none"
      /\ \A x \in Cores \ {c} : req'[x] = req[x]
    BY <1>1, <1>2 DEF grant, TypeOK, None
<1>7. PICK v \in {"S", "E", "M"} :
         /\ st' = [st EXCEPT ![c][a] = v]
         /\ v \in {"E", "M"} => a \in exclusive' /\ numSharers'[a] = 1 /\ sharers[a] = {}
         /\ v = "S" => a \notin exclusive' /\ numSharers'[a] = numSharers[a] + 1 /\ llc.type = "GETS"
  <2>1. llc.type = "GETX" => sharers[a] = {}
    BY <1>1, <1>2 DEF TodoOK, Invalidating, JobOK
  <2>2. llc.type = "GETS" /\ numSharers[a] = 0 => sharers[a] = {}
    <3>1. llc.type = "GETS" => ~ Invalidating(a)
        BY <1>2 DEF Invalidating, JobOK
    <3> QED
        BY <1>2, <3>1, FiniteSharers, FS_EmptySet DEF CountOK
  <2> QED
    BY <1>1, <1>2, <2>1, <2>2 DEF grant, TypeOK
<1>8. /\ st' \in [Cores -> [Lines -> States]]
      /\ \A x \in Cores : \A b \in Lines : st'[x][b] = IF x = c /\ b = a THEN v ELSE st[x][b]
  <2>1. v \in States
    BY DEF States
  <2> QED
    BY <1>2, <1>7, <2>1, StateUpdate
<1>9. /\ exclusive' \subseteq Lines
      /\ \A b \in Lines \ {a} : b \in exclusive' <=> b \in exclusive
    BY <1>1, <1>2 DEF grant, TypeOK
<1>10. /\ numSharers' \in [Lines -> Int]
       /\ \A b \in Lines \ {a} : numSharers'[b] = numSharers[b]
    BY <1>1, <1>2 DEF grant, TypeOK
<1>11. stale' \subseteq Lines
    BY <1>1, <1>2 DEF grant, TypeOK
<1>12. TypeOK'
    BY <1>3, <1>4, <1>5, <1>6, <1>8, <1>9, <1>10, <1>11 DEF TypeOK
<1>13. ReqOK'
    BY <1>2, <1>3, <1>6, <1>8 DEF ReqOK
<1>14. JobOK' /\ TodoOK'
    BY <1>3 DEF JobOK, TodoOK, Invalidating
<1>15. DirOK'
  <2>1. \A x \in Cores : st[x][a] # "I" /\ x # c => x \in sharers[a]
    BY <1>1, <1>2 DEF DirOK, Upgrading
  <2>2. \A x \in Cores : v = "S" => st[x][a] \notin {"E", "M"}
    BY <1>1, <1>2, <1>7 DEF TodoOK
  <2>3. \A b \in Lines \ {a} : \A x \in Cores : ~ Upgrading(x, b)
    BY <1>1 DEF Upgrading
  <2>4. a \in tag[c]
    BY <1>2 DEF ReqOK
  <2> SUFFICES ASSUME NEW b \in Lines, NEW x \in Cores
               PROVE  /\ x \in sharers'[b] => st'[x][b] # "I"
                      /\ st'[x][b] # "I" => /\ b \in tag'[x] /\ b \in ltag' /\ lst'[b] # "I"
                                            /\ x \in sharers'[b] \/ Upgrading(x, b)'
                      /\ st'[x][b] \in {"E", "M"} => b \in exclusive' /\ x \in sharers'[b]
                      /\ \A d \in Cores : b \in exclusive' /\ x \in sharers'[b] /\ d \in sharers'[b] => x = d
    BY DEF DirOK
  <2>5. CASE b # a
    <3>1. st'[x][b] = st[x][b] /\ sharers'[b] = sharers[b] /\ lst'[b] = lst[b] /\ (b \in exclusive' <=> b \in exclusive)
      BY <1>4, <1>5, <1>8, <1>9, <2>5, Zenon
    <3> QED
      BY <1>3, <2>3, <2>5, <3>1 DEF DirOK
  <2>6. CASE b = a /\ x = c
    <3>1. st'[x][b] = v /\ x \in sharers'[b]
      BY <1>5, <1>8, <2>6, Zenon
    <3>2. \A d \in Cores : b \in exclusive' /\ d \in sharers'[b] => x = d
      BY <1>5, <1>7, <2>6
    <3> QED
      BY <1>2, <1>3, <1>4, <1>7, <2>4, <2>6, <3>1, <3>2
  <2>7. CASE b = a /\ x # c
    <3>1. st'[x][b] = st[x][a] /\ (x \in sharers'[b] <=> x \in sharers[a])
      BY <1>5, <1>8, <2>7, Zenon
    <3>2. x \in sharers[a] => st[x][a] # "I" /\ a \notin exclusive' /\ v = "S"
      BY <1>2, <1>7 DEF DirOK
    <3> QED
      BY <1>2, <1>3, <1>4, <2>1, <2>2, <2>7, <3>1, <3>2 DEF DirOK
  <2> QED
    BY <2>5, <2>6, <2>7
<1>16. CountOK'
  <2>1. \A b \in Lines \ {a} : ~ Invalidating(b)
    BY <1>2 DEF Invalidating
  <2>2. v \in {"E", "M"} => sharers'[a] = {c}
    BY <1>5, <1>7
  <2>3. v = "S" => ~ Invalidating(a) /\ c \notin sharers[a]
    BY <1>2, <1>7 DEF Invalidating, JobOK, ReqOK, DirOK
  <2>4. numSharers'[a] = Cardinality(sharers'[a])
    <3>1. CASE v = "S"
      <4>1. numSharers[a] = Cardinality(sharers[a])
        BY <1>2, <2>3, <3>1 DEF CountOK
      <4>2. Cardinality(sharers[a] \cup {c}) = Cardinality(sharers[a]) + 1
        BY <1>2, <2>3, <3>1, FS_AddElement, FiniteSharers
      <4> QED
        BY <1>5, <1>7, <3>1, <4>1, <4>2
    <3>2. CASE v # "S"
        BY <1>7, <2>2, <3>2, FS_Singleton
    <3> QED
        BY <3>1, <3>2
  <2> QED
    BY <1>3, <1>5, <1>10, <2>1, <2>4 DEF CountOK, Invalidating
<1>17. WbOK'
  <2>1. ASSUME NEW b \in stale', b # a
        PROVE  lst'[b] = "M" \/ \E x \in Cores : st'[x][b] = "M"
    <3>1. b \in stale /\ b \in Lines
        BY <1>1, <1>11, <2>1 DEF grant
    <3>2. lst[b] = "M" \/ \E x \in Cores : st[x][b] = "M"
        BY <1>2, <2>1, <3>1 DEF WbOK, DirtyKept
    <3> QED
        BY <1>4, <1>8, <2>1, <3>1, <3>2
  <2>2. ASSUME a \in stale', llc.type = "GETS"
        PROVE  lst'[a] = "M" \/ \E x \in Cores : st'[x][a] = "M"
    <3>1. a \in stale /\ lst' = [lst EXCEPT ![a] = IF llc.wb THEN "M" ELSE @]
        BY <1>1, <2>2 DEF grant
    <3>2. lst[a] = "M" \/ llc.wb \/ \E x \in Cores \ {c} : st[x][a] = "M"
        BY <1>2, <2>2, <3>1 DEF WbOK, DirtyKept, ReqOK
    <3>3. lst[a] = "M" \/ llc.wb => lst'[a] = "M"
        BY <1>2, <3>1 DEF TypeOK
    <3> QED
        BY <1>2, <1>8, <3>2, <3>3
  <2>3. llc.type = "GETX" => st'[c][a] = "M"
    BY <1>1, <1>2 DEF grant, TypeOK
  <2> QED
    BY <1>2, <1>3, <2>1, <2>2, <2>3 DEF WbOK, DirtyKept
<1> QED
    BY <1>12, <1>13, <1>14, <1>15, <1>16, <1>17

LEMMA NextInv == IInv /\ [Next]_vars => IInv'
<1> SUFFICES ASSUME IInv, [Next]_vars PROVE IInv'
    OBVIOUS
<1>1. ASSUME NEW c \in Cores, NEW a \in Lines, NEW write \in BOOLEAN,
             l1_hit(c, a, write) \/ l1_upgrade(c, a, write) \/ l1_miss(c, a, write) \/ l1_evict(c, a, write)
      PROVE  IInv'
    BY <1>1, HitInv, UpgradeInv, MissInv, EvictInv
<1>2. ASSUME NEW c \in Cores, Serve(c) PROVE IInv'
    BY <1>2, SkipInv, PutInv, GetEvictInv, GetStartInv DEF Serve
<1>3. CASE Parent
    BY <1>3, InvalidateInv, EvictionInv, AccessInv, GrantInv DEF Parent
<1>4. CASE UNCHANGED vars
    BY <1>4, StutterInv
<1> QED
    BY <1>1, <1>2, <1>3, <1>4 DEF Next

\* The inductive invariant holds in every reachable state.
LEMMA Invariant == Spec => []IInv
    BY InitInv, NextInv, PTL DEF Spec

\* However the requests of any number of caches race, no cache has a valid
\* copy of a line that another one may write.
THEOREM SingleWriterTheorem == Spec => []SingleWriter
<1>1. IInv => SingleWriter
    BY DEF IInv, DirOK, TodoOK, Upgrading, SingleWriter, TypeOK, States
<1> QED
    BY <1>1, Invariant, PTL

\* Inclusion always, and an exact directory whenever the shared cache is
\* unlocked.
THEOREM DirectoryTheorem == Spec => []DirectoryExact
<1>1. IInv => DirectoryExact
    BY DEF IInv, DirOK, Upgrading, DirectoryExact
<1> QED
    BY <1>1, Invariant, PTL

\* A line that was written and is not in memory yet is dirty in a cache, or
\* its write-back was just taken from one.
THEOREM DirtyTheorem == Spec => []DirtyKept
<1>1. IInv => DirtyKept
    BY DEF IInv, WbOK
<1> QED
    BY <1>1, Invariant, PTL

\* No assertion of CheckForMESIRace, of the PUT path or of sendInvalidates
\* fires.
THEOREM AssertionsTheorem == Spec => []AssertionsHold
<1>1. ASSUME IInv, NEW c \in Cores
      PROVE  /\ req[c].type = "GETS" => st[c][req[c].a] = "I"
             /\ req[c].type = "GETX" /\ st[c][req[c].a] # req[c].init => req[c].init = "S" /\ st[c][req[c].a] = "I"
             /\ req[c].type \in {"PUTS", "PUTX"} /\ st[c][req[c].a] # req[c].init => st[c][req[c].a] \in {"I", "S"}
    BY <1>1 DEF IInv, ReqOK
<1>2. ASSUME IInv, NEW c \in Cores, llc = None, req[c].type = "PUTX", st[c][req[c].a] = "M"
      PROVE  isExclusive(req[c].a) /\ lst[req[c].a] \in {"E", "M"}
  <2>1. req[c].a \in Lines /\ llc.type = "none"
    BY <1>2 DEF IInv, ReqOK, None
  <2>2. req[c].a \in exclusive /\ sharers[req[c].a] = {c} /\ lst[req[c].a] # "I"
    BY <1>2, <2>1 DEF IInv, DirOK, TypeOK
  <2>3. numSharers[req[c].a] = 1
    <3>1. numSharers[req[c].a] = Cardinality(sharers[req[c].a])
        BY <1>2, <2>1 DEF IInv, CountOK, Invalidating
    <3> QED
        BY <2>2, <3>1, FS_Singleton
  <2> QED
    BY <1>2, <2>1, <2>2, <2>3 DEF IInv, isExclusive, TypeOK
<1>3. ASSUME IInv, llc.type # "none", llc.at \in {"evict", "inval"}, llc.todo = {}
      PROVE  /\ llc.inv = "INV" => llc.sent = numSharers[llc.line]
             /\ llc.wb => lst[llc.line] \in {"E", "M"}
  <2>1. llc.line \in Lines
    BY <1>3 DEF IInv, JobOK
  <2>2. llc.inv = "INV" => Cardinality(sharers[llc.line]) = 0 /\ Invalidating(llc.line)
    BY <1>3, <2>1, FS_EmptySet DEF IInv, TodoOK, Invalidating
  <2>3. llc.inv = "INV" => llc.sent = numSharers[llc.line]
    BY <1>3, <2>1, <2>2 DEF IInv, CountOK
  <2>4. llc.wb => lst[llc.line] \in {"E", "M"}
    BY <1>3, <2>1 DEF IInv, WbOK, TypeOK
  <2> QED
    BY <2>3, <2>4
<1>4. IInv => AssertionsHold
    BY <1>1, <1>2, <1>3 DEF AssertionsHold
<1> QED
    BY <1>4, Invariant, PTL
=============================================================================
