--------------------------- MODULE HotPagesProofs ---------------------------
(***************************************************************************)
(* Proofs about HotPages for one core that runs one process, with any      *)
(* number of TLBs, pages, frames and blocks, any size of the TLBs and any  *)
(* threshold.                                                              *)
(***************************************************************************)
EXTENDS HotPages, FiniteSetTheorems, TLAPS

Pages == Frames \cup Blocks
Entry == [ppn : Pages, dram : BOOLEAN, dirty : BOOLEAN, cnt : Nat]
Fault == [at : {"fault"}, kind : Kinds, v : Vpns, write : BOOLEAN]
Found == [at : {"insert"}, kind : Kinds, v : Vpns, ppn : Pages, write : BOOLEAN]
Occupied == [occ : {TRUE}, dirty : BOOLEAN, src : Frames, v : Vpns]
Chosen == [at : {"allocate"}, core : Cores, t : Tlbs, v : Vpns, p : Frames]
Caching == [at : {"map", "install"}, core : Cores, t : Tlbs, v : Vpns, p : Frames, b : Blocks]

\* The entries of the TLBs and of the maps by physical page.
EntriesType ==
    /\ DOMAIN tlb = Tlbs /\ DOMAIN pa = Tlbs
    /\ \A t \in Tlbs :
          /\ DOMAIN tlb[t] \subseteq Vpns
          /\ \A v \in DOMAIN tlb[t] : tlb[t][v] \in Entry

StateType ==
    /\ pt \in [Procs -> [Vpns -> Pages \cup {Unmapped}]]
    /\ used \subseteq Frames
    /\ walk \in [Cores -> {Idle} \cup Fault \cup Found]
    /\ block \in [Blocks -> {Free} \cup Occupied]
    /\ mc \in {Idle} \cup Chosen \cup Caching

\* The page table is injective, and agrees with the blocks at every step of
\* a caching operation.
TablesOK(p) ==
    /\ \A u, v \in Vpns : pt[p][u] = pt[p][v] /\ pt[p][u] # Unmapped => u = v
    /\ \A v \in Vpns : pt[p][v] \in Frames => pt[p][v] \in used
    /\ \A b \in Blocks, v \in Vpns : pt[p][v] = b <=> block[b].occ /\ block[b].v = v

\* The frame a cached page came from waits for it: it is not mapped and
\* belongs to one block.
SourcesOK(p) ==
    /\ \A b \in Blocks : block[b].occ => block[b].src \in used /\ \A v \in Vpns : pt[p][v] # block[b].src
    /\ \A b, o \in Blocks : block[b].occ /\ block[o].occ /\ block[b].src = block[o].src => b = o

\* The page that the chosen block holds: between the two shootdowns of a
\* caching operation its entries name the frame it came from.
Between(v) ==
    mc.at \in {"map", "install"} /\ block[mc.b].occ /\ block[mc.b].v = v

Home(p, v) == IF Between(v) THEN block[mc.b].src ELSE pt[p][v]

EntriesOK(p) ==
    \A t \in Tlbs : \A v \in DOMAIN tlb[t] :
        tlb[t][v].ppn = Home(p, v) /\ (tlb[t][v].dram <=> tlb[t][v].ppn \in Blocks)

\* What a core with a TLB miss under way still knows.
WalkOK(c, p) ==
    walk[c] # Idle =>
        /\ mc = Idle
        /\ walk[c].v \notin DOMAIN tlb[<<c, walk[c].kind>>]
        /\ pt[p][walk[c].v] = IF walk[c].at = "fault" THEN Unmapped ELSE walk[c].ppn

\* What a caching operation still knows.
CachingOK(c, p) ==
    mc # Idle =>
        /\ mc.core = c /\ walk[c] = Idle
        /\ mc.v \in DOMAIN tlb[mc.t]
        /\ mc.at \in {"allocate", "map"} => pt[p][mc.v] \in Frames
        /\ mc.at = "install" => block[mc.b].occ /\ block[mc.b].v = mc.v

IInv(c, p) ==
    /\ EntriesType /\ StateType
    /\ TablesOK(p) /\ SourcesOK(p)
    /\ EntriesOK(p) /\ MonitorFinds
    /\ WalkOK(c, p) /\ CachingOK(c, p)

-----------------------------------------------------------------------------
\* One core that runs one process.
Alone(c, p) == Cores = {c} /\ Procs = {p}

LEMMA AloneRuns ==
    ASSUME NEW c, NEW p, Alone(c, p)
    PROVE  /\ c \in Cores /\ p \in Procs /\ ProcOf[c] = p
           /\ \A t \in Tlbs : t[1] = c
BY HotPagesAssumption DEF Alone, Tlbs

\* A resident entry translates to a page.
LEMMA ResidentMapped ==
    ASSUME NEW c, NEW p, Alone(c, p), IInv(c, p), mc.at \notin {"map", "install"},
           NEW t \in Tlbs, NEW v \in DOMAIN tlb[t]
    PROVE  v \in Vpns /\ tlb[t][v] \in Entry /\ pt[p][v] = tlb[t][v].ppn /\ pt[p][v] # Unmapped
<1>1. v \in Vpns /\ tlb[t][v] \in Entry /\ tlb[t][v].ppn \in Pages
  BY DEF IInv, EntriesType, Entry
<1>2. tlb[t][v].ppn = pt[p][v]
  BY DEF IInv, EntriesOK, Home, Between
<1> QED BY <1>1, <1>2, UnmappedAssumption DEF Pages

LEMMA EntryOfType ==
    ASSUME NEW ppn \in Pages, NEW dram \in BOOLEAN, NEW dirty \in BOOLEAN
    PROVE  LET e == EntryOf(ppn, dram, dirty) IN e \in Entry /\ e.ppn = ppn /\ e.dram = dram
BY DEF EntryOf, Entry

LEMMA InitIInv ==
    ASSUME NEW c, NEW p, Alone(c, p), Init
    PROVE  IInv(c, p)
<1> USE AloneRuns, UnmappedAssumption DEF Init
<1>1. DOMAIN (<< >>) = {}
  OBVIOUS
<1>2. EntriesType /\ MonitorFinds /\ EntriesOK(p)
  BY <1>1 DEF EntriesType, MonitorFinds, EntriesOK
<1>3. StateType
  BY DEF StateType, Pages
<1>4. TablesOK(p) /\ SourcesOK(p)
  BY DEF TablesOK, SourcesOK, Free, Pages
<1>5. WalkOK(c, p) /\ CachingOK(c, p)
  BY DEF WalkOK, CachingOK
<1> QED BY <1>2, <1>3, <1>4, <1>5 DEF IInv

-----------------------------------------------------------------------------
\* The effect of a shootdown: the entries of the virtual page change, and the
\* maps by physical page follow, provided the new physical page is nobody
\* else's.
LEMMA ShootdownRemaps ==
    ASSUME NEW v \in Vpns, NEW ppn \in Pages, NEW dram \in BOOLEAN,
           tlb_shootdown_hscc(v, ppn, dram), EntriesType, MonitorFinds,
           \A t \in Tlbs : \A u \in DOMAIN tlb[t] : u # v => tlb[t][u].ppn # ppn
    PROVE  /\ EntriesType' /\ MonitorFinds'
           /\ \A t \in Tlbs :
                 /\ DOMAIN tlb'[t] = DOMAIN tlb[t]
                 /\ \A u \in DOMAIN tlb[t] : tlb'[t][u] = IF u = v THEN remap(ppn, dram) ELSE tlb[t][u]
<1>1. \A t \in Tlbs :
         /\ DOMAIN tlb'[t] = DOMAIN tlb[t]
         /\ \A u \in DOMAIN tlb[t] : tlb'[t][u] = IF u = v THEN remap(ppn, dram) ELSE tlb[t][u]
  BY DEF tlb_shootdown_hscc
<1>2. remap(ppn, dram) \in Entry /\ remap(ppn, dram).ppn = ppn
  BY DEF remap, EntryOf, Entry
<1>3. EntriesType'
  BY <1>1, <1>2 DEF EntriesType, tlb_shootdown_hscc
<1>4. ASSUME NEW t \in Tlbs, v \notin DOMAIN tlb[t]
      PROVE  pa'[t] = pa[t]
  BY <1>4 DEF tlb_shootdown_hscc
<1>5. ASSUME NEW t \in Tlbs, v \in DOMAIN tlb[t]
      PROVE  /\ DOMAIN pa'[t] = (DOMAIN pa[t] \ {tlb[t][v].ppn}) \cup {ppn}
             /\ \A q \in DOMAIN pa'[t] : pa'[t][q] = IF q = ppn THEN v ELSE pa[t][q]
  BY <1>5 DEF tlb_shootdown_hscc, With, Without
<1>6. ASSUME NEW t \in Tlbs
      PROVE  /\ \A u \in DOMAIN tlb'[t] : tlb'[t][u].ppn \in DOMAIN pa'[t] /\ pa'[t][tlb'[t][u].ppn] = u
             /\ \A q \in DOMAIN pa'[t] : pa'[t][q] \in DOMAIN tlb'[t] /\ tlb'[t][pa'[t][q]].ppn = q
  <2>1. CASE v \notin DOMAIN tlb[t]
    BY <2>1, <1>1, <1>4 DEF MonitorFinds
  <2>2. CASE v \in DOMAIN tlb[t]
    <3>1. ASSUME NEW u \in DOMAIN tlb'[t]
          PROVE  tlb'[t][u].ppn \in DOMAIN pa'[t] /\ pa'[t][tlb'[t][u].ppn] = u
      <4>1. CASE u = v
        BY <4>1, <2>2, <1>1, <1>2, <1>5
      <4>2. CASE u # v
        BY <4>2, <2>2, <1>1, <1>5 DEF MonitorFinds
      <4> QED BY <4>1, <4>2
    <3>2. ASSUME NEW q \in DOMAIN pa'[t]
          PROVE  pa'[t][q] \in DOMAIN tlb'[t] /\ tlb'[t][pa'[t][q]].ppn = q
      <4>1. CASE q = ppn
        BY <4>1, <2>2, <1>1, <1>2, <1>5
      <4>2. CASE q # ppn
        BY <4>2, <2>2, <1>1, <1>5 DEF MonitorFinds
      <4> QED BY <4>1, <4>2
    <3> QED BY <3>1, <3>2
  <2> QED BY <2>1, <2>2
<1>7. MonitorFinds'
  BY <1>6 DEF MonitorFinds
<1> QED BY <1>1, <1>3, <1>7

-----------------------------------------------------------------------------
\* Where a miss or a caching operation is says which record it is.
LEMMA WalkKinds ==
    ASSUME NEW w \in {Idle} \cup Fault \cup Found
    PROVE  /\ w.at = "idle" => w = Idle
           /\ w.at = "fault" => w \in Fault
           /\ w.at = "insert" => w \in Found
           /\ Idle.at = "idle"
<1>1. Idle.at = "idle"
  BY DEF Idle
<1>2. \A x \in Fault : x.at = "fault"
  BY DEF Fault
<1>3. \A x \in Found : x.at = "insert"
  BY DEF Found
<1> QED BY <1>1, <1>2, <1>3

LEMMA CachingKinds ==
    ASSUME NEW m \in {Idle} \cup Chosen \cup Caching
    PROVE  /\ m.at = "idle" => m = Idle
           /\ m.at = "allocate" => m \in Chosen
           /\ m.at \in {"map", "install"} => m \in Caching
           /\ Idle.at = "idle"
<1>1. Idle.at = "idle"
  BY DEF Idle
<1>2. \A x \in Chosen : x.at = "allocate"
  BY DEF Chosen
<1>3. \A x \in Caching : x.at \in {"map", "install"}
  BY DEF Caching
<1> QED BY <1>1, <1>2, <1>3

\* A core that starts an access has no miss under way, and nothing is cached.
LEMMA RunsIdle ==
    ASSUME NEW c, NEW p, Alone(c, p), IInv(c, p), Runs(c)
    PROVE  walk[c] = Idle /\ mc = Idle
<1> USE AloneRuns
<1>1. walk[c] \in {Idle} \cup Fault \cup Found /\ mc \in {Idle} \cup Chosen \cup Caching
  BY DEF IInv, StateType
<1>2. walk[c] = Idle
  BY <1>1, WalkKinds DEF Runs
<1>3. mc = Idle \/ (mc.at # "idle" /\ mc.core = c)
  BY <1>1, CachingKinds DEF IInv, CachingOK
<1> QED BY <1>2, <1>3 DEF Runs

\* Marks and counters of entries are nothing to the maps.
LEMMA SamePages ==
    ASSUME EntriesType, MonitorFinds, UNCHANGED pa, DOMAIN tlb' = Tlbs,
           \A s \in Tlbs :
              /\ DOMAIN tlb'[s] = DOMAIN tlb[s]
              /\ \A u \in DOMAIN tlb[s] : tlb'[s][u] \in Entry /\ tlb'[s][u].ppn = tlb[s][u].ppn
    PROVE  EntriesType' /\ MonitorFinds'
<1>1. EntriesType'
  BY DEF EntriesType
<1>2. MonitorFinds'
  BY DEF MonitorFinds
<1> QED BY <1>1, <1>2

\* The blocks hold the same pages as before.
SameContents ==
    \A b \in Blocks :
        /\ block'[b].occ = block[b].occ
        /\ block[b].occ => block'[b].src = block[b].src /\ block'[b].v = block[b].v

LEMMA MarkBlock ==
    ASSUME block \in [Blocks -> {Free} \cup Occupied], NEW b \in Blocks, block[b].occ,
           NEW d \in BOOLEAN, block' = [block EXCEPT ![b].dirty = d]
    PROVE  block' \in [Blocks -> {Free} \cup Occupied] /\ SameContents
<1> DEFINE marked == [block[b] EXCEPT !.dirty = d]
<1>1. block[b] \in Occupied
  BY DEF Free
<1>2. marked \in Occupied /\ marked.occ = block[b].occ /\ marked.src = block[b].src /\ marked.v = block[b].v
  BY <1>1, Zenon DEF Occupied
<1>3. block' = [block EXCEPT ![b] = marked]
  OBVIOUS
<1> HIDE DEF marked
<1> QED BY <1>2, <1>3 DEF SameContents

\* A store that hits a DRAM page marks an occupied block; nothing else that
\* the invariant speaks of changes.
LEMMA HitIInv ==
    ASSUME NEW c, NEW p, Alone(c, p), IInv(c, p),
           NEW k \in Kinds, NEW v \in Vpns, NEW write \in BOOLEAN, tlb_hit(c, k, v, write)
    PROVE  IInv(c, p)'
<1> DEFINE t == <<c, k>>
           e == tlb[t][v]
<1>1. walk[c] = Idle /\ mc = Idle /\ t \in Tlbs /\ v \in DOMAIN tlb[t]
  BY RunsIdle, AloneRuns DEF tlb_hit, Tlbs
<1>2. e \in Entry /\ pt[p][v] = e.ppn /\ (e.dram <=> e.ppn \in Blocks)
  BY <1>1, ResidentMapped DEF IInv, EntriesOK, Idle
<1>3. /\ DOMAIN tlb' = Tlbs
      /\ \A s \in Tlbs :
            /\ DOMAIN tlb'[s] = DOMAIN tlb[s]
            /\ \A u \in DOMAIN tlb[s] :
                  /\ tlb'[s][u] \in Entry
                  /\ tlb'[s][u].ppn = tlb[s][u].ppn
                  /\ tlb'[s][u].dram = tlb[s][u].dram
  <2> DEFINE marked == [e EXCEPT !.dirty = TRUE]
  <2>1. marked \in Entry /\ marked.ppn = e.ppn /\ marked.dram = e.dram
    BY <1>2, Zenon DEF Entry
  <2>2. CASE tlb' = tlb
    BY <2>2 DEF IInv, EntriesType
  <2>3. CASE tlb' = [tlb EXCEPT ![t] = [tlb[t] EXCEPT ![v] = marked]]
    <3> HIDE DEF marked
    <3>1. /\ DOMAIN tlb' = Tlbs
          /\ \A s \in Tlbs : tlb'[s] = IF s = t THEN [tlb[t] EXCEPT ![v] = marked] ELSE tlb[s]
      BY <2>3, <1>1 DEF IInv, EntriesType
    <3> QED BY <2>1, <3>1, <1>1 DEF IInv, EntriesType
  <2> QED BY <2>2, <2>3 DEF tlb_hit
<1>4. block' \in [Blocks -> {Free} \cup Occupied] /\ SameContents
  <2>1. block \in [Blocks -> {Free} \cup Occupied]
    BY DEF IInv, StateType
  <2>2. e.dram => e.ppn \in Blocks /\ block[e.ppn].occ
    BY <1>1, <1>2 DEF IInv, TablesOK
  <2>3. CASE block' = block
    BY <2>1, <2>3 DEF SameContents
  <2>4. CASE e.dram /\ block' = [block EXCEPT ![e.ppn].dirty = TRUE]
    BY <2>1, <2>2, <2>4, MarkBlock, Zenon
  <2> QED BY <2>3, <2>4 DEF tlb_hit, convert_to_dirty
<1>5. UNCHANGED <<pt, used, pa, walk, mc>>
  BY DEF tlb_hit
<1>6. EntriesType' /\ MonitorFinds'
  BY <1>3, <1>5, SamePages DEF IInv
<1>7. StateType'
  BY <1>4, <1>5 DEF IInv, StateType
<1>8. TablesOK(p)' /\ SourcesOK(p)'
  BY <1>4, <1>5 DEF IInv, TablesOK, SourcesOK, SameContents
<1>9. EntriesOK(p)'
  BY <1>1, <1>3, <1>5 DEF IInv, EntriesOK, Home, Between, Idle
<1>10. WalkOK(c, p)' /\ CachingOK(c, p)'
  BY <1>1, <1>5 DEF WalkOK, CachingOK
<1> QED BY <1>6, <1>7, <1>8, <1>9, <1>10 DEF IInv

LEMMA WalkIInv ==
    ASSUME NEW c, NEW p, Alone(c, p), IInv(c, p),
           NEW k \in Kinds, NEW v \in Vpns, NEW write \in BOOLEAN,
           page_walk(c, k, v, write) \/ page_walk_fault(c, k, v, write)
    PROVE  IInv(c, p)'
<1> USE AloneRuns
<1>1. mc = Idle
  BY RunsIdle DEF page_walk, page_walk_fault
<1>2. UNCHANGED <<pt, used, tlb, pa, block, mc>>
  BY DEF page_walk, page_walk_fault
<1>3. pt[p][v] \in Pages \cup {Unmapped}
  BY DEF IInv, StateType
<1>4. walk' \in [Cores -> {Idle} \cup Fault \cup Found]
  BY <1>3 DEF page_walk, page_walk_fault, IInv, StateType, Fault, Found
<1>5. WalkOK(c, p)'
  BY <1>1, <1>2 DEF page_walk, page_walk_fault, WalkOK, IInv, StateType
<1>6. EntriesType' /\ StateType' /\ TablesOK(p)' /\ SourcesOK(p)' /\ MonitorFinds' /\ CachingOK(c, p)'
  BY <1>1, <1>2, <1>4 DEF IInv, EntriesType, StateType, TablesOK, SourcesOK, MonitorFinds, CachingOK
<1>7. EntriesOK(p)'
  BY <1>2 DEF IInv, EntriesOK, Home, Between
<1> QED BY <1>5, <1>6, <1>7 DEF IInv

\* The new frame is fresh, and no TLB has an entry of the page.
LEMMA FaultIInv ==
    ASSUME NEW c, NEW p, Alone(c, p), IInv(c, p), do_page_fault(c)
    PROVE  IInv(c, p)'
<1> USE AloneRuns, UnmappedAssumption, HotPagesAssumption
<1> DEFINE w == walk[c]
<1>1. w \in Fault /\ mc = Idle /\ w.v \in Vpns /\ w.kind \in Kinds
  <2>1. w \in Fault /\ w # Idle
    BY WalkKinds DEF do_page_fault, IInv, StateType
  <2> QED BY <2>1 DEF IInv, WalkOK, Fault
<1>2. pt[p][w.v] = Unmapped /\ w.v \notin DOMAIN tlb[<<c, w.kind>>]
  BY <1>1, WalkKinds DEF do_page_fault, IInv, StateType, WalkOK
<1>3. \A t \in Tlbs : w.v \notin DOMAIN tlb[t]
  BY <1>1, <1>2, ResidentMapped DEF Idle
<1>4. PICK f \in Frames \ used :
         /\ used' = used \cup {f}
         /\ tlb' = [t \in Tlbs |->
                      IF w.v \in DOMAIN tlb[t] THEN [tlb[t] EXCEPT ![w.v] = set_invalid(@)] ELSE tlb[t]]
         /\ pt' = [pt EXCEPT ![p][w.v] = f]
         /\ walk' = [walk EXCEPT ![c] = [at |-> "insert", kind |-> w.kind, v |-> w.v, ppn |-> f, write |-> w.write]]
  BY Zenon DEF do_page_fault
<1>5. UNCHANGED <<pa, block, mc>>
  BY DEF do_page_fault
<1>6. DOMAIN tlb' = Tlbs /\ \A t \in Tlbs : tlb'[t] = tlb[t]
  BY <1>3, <1>4
<1>7. pt' \in [Procs -> [Vpns -> Pages \cup {Unmapped}]] /\ \A v \in Vpns : pt'[p][v] = IF v = w.v THEN f ELSE pt[p][v]
  BY <1>1, <1>4 DEF IInv, StateType, Pages
<1>8. EntriesType' /\ MonitorFinds'
  BY <1>5, <1>6 DEF IInv, EntriesType, MonitorFinds
<1>9. walk' \in [Cores -> {Idle} \cup Fault \cup Found]
  <2>1. [at |-> "insert", kind |-> w.kind, v |-> w.v, ppn |-> f, write |-> w.write] \in Found
    BY <1>1, <1>4 DEF Fault, Found, Pages
  <2> QED BY <2>1, <1>4 DEF IInv, StateType
<1>10. StateType'
  BY <1>4, <1>5, <1>7, <1>9 DEF IInv, StateType
<1>11. TablesOK(p)'
  <2>1. \A v \in Vpns : pt[p][v] # f
    BY <1>4 DEF IInv, TablesOK
  <2>2. \A u, v \in Vpns : pt'[p][u] = pt'[p][v] /\ pt'[p][u] # Unmapped => u = v
    BY <1>7, <2>1 DEF IInv, TablesOK
  <2>3. \A v \in Vpns : pt'[p][v] \in Frames => pt'[p][v] \in used'
    BY <1>4, <1>7 DEF IInv, TablesOK
  <2>4. \A b \in Blocks, v \in Vpns : pt'[p][v] = b <=> block'[b].occ /\ block'[b].v = v
    <3> SUFFICES ASSUME NEW b \in Blocks, NEW v \in Vpns
                 PROVE  pt'[p][v] = b <=> pt[p][v] = b
      BY <1>5 DEF IInv, TablesOK
    <3> QED BY <1>2, <1>4, <1>7
  <2> QED BY <2>2, <2>3, <2>4 DEF TablesOK
<1>12. SourcesOK(p)'
  BY <1>4, <1>5, <1>7 DEF IInv, SourcesOK
<1>13. EntriesOK(p)'
  BY <1>1, <1>3, <1>5, <1>6, <1>7 DEF IInv, EntriesType, EntriesOK, Home, Between, Idle
<1>14. WalkOK(c, p)' /\ CachingOK(c, p)'
  BY <1>1, <1>2, <1>4, <1>5, <1>6, <1>7 DEF WalkOK, CachingOK, IInv, StateType, Tlbs
<1> QED BY <1>8, <1>10, <1>11, <1>12, <1>13, <1>14 DEF IInv

\* The page that is inserted is in no other entry of the TLB, since the page
\* table is injective; so the map by physical page stays the inverse.
LEMMA InsertIInv ==
    ASSUME NEW c, NEW p, Alone(c, p), IInv(c, p), tlb_insert(c)
    PROVE  IInv(c, p)'
<1> DEFINE w == walk[c]
           t == <<c, w.kind>>
           new == EntryOf(w.ppn, w.ppn \in Blocks, FALSE)
<1>1. w \in Found /\ mc = Idle /\ t \in Tlbs
  <2>1. w \in Found /\ w # Idle
    BY WalkKinds, AloneRuns DEF tlb_insert, IInv, StateType
  <2> QED BY <2>1, AloneRuns DEF IInv, WalkOK, Found, Tlbs
<1>2. w.v \in Vpns /\ w.ppn \in Pages /\ w.v \notin DOMAIN tlb[t] /\ pt[p][w.v] = w.ppn
  <2>1. w # Idle /\ w.at = "insert"
    BY WalkKinds DEF tlb_insert, IInv, StateType
  <2>2. w.v \notin DOMAIN tlb[t] /\ pt[p][w.v] = w.ppn
    BY <2>1 DEF IInv, WalkOK
  <2> QED BY <1>1, <2>2 DEF Found
<1>3. new \in Entry /\ new.ppn = w.ppn /\ (new.dram <=> new.ppn \in Blocks)
  <2>1. (w.ppn \in Blocks) \in BOOLEAN
    OBVIOUS
  <2>2. new \in Entry /\ new.ppn = w.ppn /\ new.dram = (w.ppn \in Blocks)
    BY <1>2, <2>1, EntryOfType, Zenon
  <2> QED BY <2>2, Zenon
<1>4. PICK victims \in SUBSET DOMAIN tlb[t] : insert(t, w.v, w.ppn, victims)
  BY DEF tlb_insert
<1>5. UNCHANGED <<pt, used, block, mc>> /\ walk' = [walk EXCEPT ![c] = Idle]
  BY DEF tlb_insert
<1> DEFINE gone == {tlb[t][y].ppn : y \in victims}
<1> HIDE DEF new
<1>6. /\ DOMAIN tlb' = Tlbs /\ DOMAIN pa' = Tlbs
      /\ \A s \in Tlbs : s # t => tlb'[s] = tlb[s] /\ pa'[s] = pa[s]
  BY <1>4, Zenon DEF insert, IInv, EntriesType
<1>7. /\ DOMAIN tlb'[t] = (DOMAIN tlb[t] \ victims) \cup {w.v}
      /\ \A u \in DOMAIN tlb'[t] : tlb'[t][u] = IF u = w.v THEN new ELSE tlb[t][u]
  BY <1>1, <1>4, Zenon DEF insert, With, new, IInv, EntriesType
<1>8. /\ DOMAIN pa'[t] = (DOMAIN pa[t] \ gone) \cup {w.ppn}
      /\ \A q \in DOMAIN pa'[t] : pa'[t][q] = IF q = w.ppn THEN w.v ELSE pa[t][q]
  BY <1>1, <1>4, Zenon DEF insert, With, IInv, EntriesType
<1>9. \A u \in DOMAIN tlb[t] : tlb[t][u].ppn # w.ppn
  <2> SUFFICES ASSUME NEW u \in DOMAIN tlb[t], tlb[t][u].ppn = w.ppn
               PROVE  FALSE
    OBVIOUS
  <2>1. u \in Vpns /\ pt[p][u] = w.ppn /\ pt[p][u] # Unmapped
    BY <1>1, ResidentMapped DEF Idle
  <2> QED BY <2>1, <1>2 DEF IInv, TablesOK
<1>10. EntriesType'
  BY <1>2, <1>3, <1>6, <1>7 DEF IInv, EntriesType
<1>11. /\ \A u \in DOMAIN tlb'[t] : tlb'[t][u].ppn \in DOMAIN pa'[t] /\ pa'[t][tlb'[t][u].ppn] = u
       /\ \A q \in DOMAIN pa'[t] : pa'[t][q] \in DOMAIN tlb'[t] /\ tlb'[t][pa'[t][q]].ppn = q
  <2>1. /\ \A u \in DOMAIN tlb[t] : tlb[t][u].ppn \in DOMAIN pa[t] /\ pa[t][tlb[t][u].ppn] = u
        /\ \A q \in DOMAIN pa[t] : pa[t][q] \in DOMAIN tlb[t] /\ tlb[t][pa[t][q]].ppn = q
    BY <1>1 DEF IInv, MonitorFinds
  <2>2. ASSUME NEW u \in DOMAIN tlb'[t]
        PROVE  tlb'[t][u].ppn \in DOMAIN pa'[t] /\ pa'[t][tlb'[t][u].ppn] = u
    <3>1. CASE u = w.v
      BY <3>1, <1>3, <1>7, <1>8
    <3>2. CASE u # w.v
      <4>1. u \in DOMAIN tlb[t] /\ u \notin victims /\ tlb'[t][u] = tlb[t][u]
        BY <3>2, <1>7
      <4>2. tlb[t][u].ppn \notin gone
        BY <4>1, <2>1
      <4>3. tlb[t][u].ppn \in DOMAIN pa[t] /\ pa[t][tlb[t][u].ppn] = u /\ tlb[t][u].ppn # w.ppn
        BY <4>1, <2>1, <1>9
      <4> HIDE DEF gone, t
      <4> QED BY <4>1, <4>2, <4>3, <1>8
    <3> QED BY <3>1, <3>2, SMTT(20)
  <2>3. ASSUME NEW q \in DOMAIN pa'[t]
        PROVE  pa'[t][q] \in DOMAIN tlb'[t] /\ tlb'[t][pa'[t][q]].ppn = q
    <3>1. CASE q = w.ppn
      BY <3>1, <1>3, <1>7, <1>8
    <3>2. CASE q # w.ppn
      <4>1. q \in DOMAIN pa[t] /\ q \notin gone /\ pa'[t][q] = pa[t][q]
        BY <3>2, <1>8, SMTT(20)
      <4>2. pa[t][q] \in DOMAIN tlb[t] /\ pa[t][q] \notin victims /\ tlb[t][pa[t][q]].ppn = q
        BY <4>1, <2>1
      <4> QED BY <4>1, <4>2, <1>2, <1>7
    <3> QED BY <3>1, <3>2
  <2> QED BY <2>2, <2>3
<1>12. MonitorFinds'
  BY <1>6, <1>11 DEF IInv, MonitorFinds
<1>13. StateType' /\ TablesOK(p)' /\ SourcesOK(p)'
  BY <1>5, Zenon DEF IInv, StateType, TablesOK, SourcesOK
<1>14. EntriesOK(p)'
  <2> SUFFICES ASSUME NEW s \in Tlbs, NEW u \in DOMAIN tlb'[s]
               PROVE  tlb'[s][u].ppn = pt[p][u] /\ (tlb'[s][u].dram <=> tlb'[s][u].ppn \in Blocks)
    BY <1>1, <1>5 DEF EntriesOK, Home, Between, Idle
  <2>1. CASE s = t /\ u = w.v
    BY <2>1, <1>2, <1>3, <1>7
  <2>2. CASE ~ (s = t /\ u = w.v)
    <3>1. u \in DOMAIN tlb[s] /\ tlb'[s][u] = tlb[s][u]
      BY <2>2, <1>6, <1>7
    <3> QED BY <3>1, <1>1 DEF IInv, EntriesOK, Home, Between, Idle
  <2> QED BY <2>1, <2>2
<1>15. WalkOK(c, p)' /\ CachingOK(c, p)'
  BY AloneRuns, <1>1, <1>5 DEF WalkOK, CachingOK, IInv, StateType
<1> QED BY <1>10, <1>12, <1>13, <1>14, <1>15 DEF IInv

-----------------------------------------------------------------------------
LEMMA UncountedIInv ==
    ASSUME NEW c, NEW p, IInv(c, p), UNCHANGED <<pt, used, tlb, pa, walk, block, mc>>
    PROVE  IInv(c, p)'
<1>1. EntriesOK(p)'
  BY DEF IInv, EntriesOK, Home, Between
<1>2. EntriesType' /\ StateType' /\ MonitorFinds'
  BY DEF IInv, EntriesType, StateType, MonitorFinds
<1>3. TablesOK(p)' /\ SourcesOK(p)' /\ WalkOK(c, p)' /\ CachingOK(c, p)'
  BY SMTT(20) DEF IInv, TablesOK, SourcesOK, WalkOK, CachingOK
<1> QED BY <1>1, <1>2, <1>3 DEF IInv

\* The entry that counts is the one of the physical page, which is not in
\* DRAM; it stays resident while the page is cached.
LEMMA CountedIInv ==
    ASSUME NEW c, NEW p, Alone(c, p), IInv(c, p),
           NEW q \in Frames, NEW write \in BOOLEAN, access_counted(c, q, write)
    PROVE  IInv(c, p)'
<1>1. mc = Idle /\ walk[c] = Idle
  BY RunsIdle DEF access_counted
<1>2. UNCHANGED <<pt, used, pa, walk, block>>
  BY DEF access_counted
<1> DEFINE cnt(t) == tlb[t][pa[t][q]].cnt + (IF write THEN 2 ELSE 1)
           capped(t) == IF cnt(t) >= Threshold THEN Threshold ELSE cnt(t)
<1>3. PICK t \in LookupTlb(c, q) :
         IF tlb[t][pa[t][q]].dram
         THEN UNCHANGED <<tlb, mc>>
         ELSE /\ tlb' = [tlb EXCEPT ![t][pa[t][q]].cnt = capped(t)]
              /\ mc' = IF cnt(t) < Threshold THEN mc
                       ELSE [at |-> "allocate", core |-> c, t |-> t, v |-> pa[t][q], p |-> q]
  BY DEF access_counted
<1> DEFINE v == pa[t][q]
           e == tlb[t][v]
           counted == [e EXCEPT !.cnt = capped(t)]
<1>4. t \in Tlbs /\ v \in DOMAIN tlb[t] /\ e.ppn = q
  BY <1>3, AloneRuns DEF LookupTlb, Tlbs, IInv, MonitorFinds
<1>5. v \in Vpns /\ e \in Entry /\ pt[p][v] = q
  BY <1>1, <1>4, ResidentMapped DEF Idle
<1>6. counted \in Entry /\ counted.ppn = e.ppn /\ counted.dram = e.dram
  <2>1. capped(t) \in Nat
    BY <1>5, HotPagesAssumption DEF Entry
  <2> HIDE DEF capped
  <2> QED BY <2>1, <1>5 DEF Entry
<1>7. tlb' = tlb \/ tlb' = [tlb EXCEPT ![t] = [tlb[t] EXCEPT ![v] = counted]]
  BY <1>3
<1>8. mc' = Idle \/ mc' = [at |-> "allocate", core |-> c, t |-> t, v |-> v, p |-> q]
  BY <1>1, <1>3
<1> HIDE DEF counted
<1>9. /\ DOMAIN tlb' = Tlbs
      /\ \A s \in Tlbs :
            /\ DOMAIN tlb'[s] = DOMAIN tlb[s]
            /\ \A u \in DOMAIN tlb[s] :
                  /\ tlb'[s][u] \in Entry
                  /\ tlb'[s][u].ppn = tlb[s][u].ppn
                  /\ tlb'[s][u].dram = tlb[s][u].dram
  <2>1. CASE tlb' = tlb
    BY <2>1 DEF IInv, EntriesType
  <2>2. CASE tlb' = [tlb EXCEPT ![t] = [tlb[t] EXCEPT ![v] = counted]]
    <3>1. /\ DOMAIN tlb' = Tlbs
          /\ \A s \in Tlbs : tlb'[s] = IF s = t THEN [tlb[t] EXCEPT ![v] = counted] ELSE tlb[s]
      BY <2>2, <1>4 DEF IInv, EntriesType
    <3> QED BY <3>1, <1>4, <1>6 DEF IInv, EntriesType
  <2> QED BY <2>1, <2>2, <1>7
<1>10. EntriesType' /\ MonitorFinds'
  BY <1>2, <1>9, SamePages DEF IInv
<1>11. mc' \in {Idle} \cup Chosen
  BY AloneRuns, <1>4, <1>5, <1>8 DEF Chosen
<1>12. StateType' /\ TablesOK(p)' /\ SourcesOK(p)'
  BY <1>2, <1>11 DEF IInv, StateType, TablesOK, SourcesOK
<1>13. EntriesOK(p)'
  <2>1. mc'.at \notin {"map", "install"}
    BY <1>8 DEF Idle
  <2> QED BY <1>1, <1>2, <1>9, <2>1 DEF IInv, EntriesOK, Home, Between, Idle
<1>14. WalkOK(c, p)' /\ CachingOK(c, p)'
  <2>1. CASE mc' = Idle
    BY <2>1, <1>1, <1>2 DEF WalkOK, CachingOK
  <2>2. CASE mc' = [at |-> "allocate", core |-> c, t |-> t, v |-> v, p |-> q]
    BY <2>2, <1>1, <1>2, <1>4, <1>5, <1>9, SMTT(20) DEF WalkOK, CachingOK
  <2> QED BY <2>1, <2>2, <1>8
<1> QED BY <1>10, <1>12, <1>13, <1>14 DEF IInv

\* The evicted page's entries go back to its frame, which nobody else has.
LEMMA AllocateIInv ==
    ASSUME NEW c, NEW p, Alone(c, p), IInv(c, p), allocate_block
    PROVE  IInv(c, p)'
<1>1. mc \in Chosen /\ mc # Idle /\ mc.at = "allocate"
  BY CachingKinds DEF allocate_block, IInv, StateType
<1>2. PICK b \in Blocks, found \in SUBSET lines :
         /\ mc' = [at |-> "map", core |-> mc.core, t |-> mc.t, v |-> mc.v, p |-> mc.p, b |-> b]
         /\ IF block[b].occ
            THEN /\ block' = [block EXCEPT ![b].dirty = @ \/ b \in found]
                 /\ tlb_shootdown_hscc(block[b].v, block[b].src, FALSE)
            ELSE UNCHANGED <<block, tlb, pa>>
  BY Zenon DEF allocate_block
<1>3. UNCHANGED <<pt, used, walk>>
  BY DEF allocate_block
<1>4. mc' \in Caching /\ mc'.at = "map" /\ mc'.b = b /\ mc'.v = mc.v /\ mc'.t = mc.t /\ mc'.core = mc.core
  BY <1>1, <1>2 DEF Chosen, Caching
<1>5. mc.core = c /\ walk[c] = Idle /\ mc.t \in Tlbs /\ mc.v \in DOMAIN tlb[mc.t] /\ pt[p][mc.v] \in Frames
  BY <1>1 DEF IInv, CachingOK, Chosen
<1>6. block \in [Blocks -> {Free} \cup Occupied]
  BY DEF IInv, StateType
<1>7. block[b].occ => block[b].v \in Vpns /\ block[b].src \in Frames
  <2>1. block[b] \in {Free} \cup Occupied
    BY <1>6
  <2>2. block[b].occ => block[b] \in Occupied
    BY <2>1 DEF Free
  <2> QED BY <2>2, Zenon DEF Occupied
<1>8. block' \in [Blocks -> {Free} \cup Occupied] /\ SameContents
  <2>1. CASE block[b].occ
    <3>1. (block[b].dirty \/ b \in found) \in BOOLEAN
      OBVIOUS
    <3> QED BY <3>1, <2>1, <1>2, <1>6, MarkBlock, Zenon
  <2>2. CASE ~ block[b].occ
    BY <2>2, <1>2, <1>6 DEF SameContents
  <2> QED BY <2>1, <2>2
<1>9. \A t \in Tlbs : \A u \in DOMAIN tlb[t] :
         u \in Vpns /\ tlb[t][u].ppn = pt[p][u] /\ (tlb[t][u].dram <=> tlb[t][u].ppn \in Blocks)
  BY <1>1, ResidentMapped DEF IInv, EntriesOK
<1>10. /\ EntriesType' /\ MonitorFinds'
       /\ \A t \in Tlbs :
             /\ DOMAIN tlb'[t] = DOMAIN tlb[t]
             /\ \A u \in DOMAIN tlb[t] :
                   IF block[b].occ /\ u = block[b].v
                   THEN tlb'[t][u].ppn = block[b].src /\ ~ tlb'[t][u].dram
                   ELSE tlb'[t][u] = tlb[t][u]
  <2>1. CASE block[b].occ
    <3>1. \A t \in Tlbs : \A u \in DOMAIN tlb[t] : u # block[b].v => tlb[t][u].ppn # block[b].src
      BY <2>1, <1>9 DEF IInv, SourcesOK
    <3>2. block[b].src \in Pages /\ FALSE \in BOOLEAN /\ tlb_shootdown_hscc(block[b].v, block[b].src, FALSE)
      BY <2>1, <1>2, <1>7, Zenon DEF Pages
    <3>3. /\ EntriesType' /\ MonitorFinds'
          /\ \A t \in Tlbs :
                /\ DOMAIN tlb'[t] = DOMAIN tlb[t]
                /\ \A u \in DOMAIN tlb[t] :
                      tlb'[t][u] = IF u = block[b].v THEN remap(block[b].src, FALSE) ELSE tlb[t][u]
      <4>1. PICK v \in Vpns, src \in Pages : v = block[b].v /\ src = block[b].src
        BY <2>1, <3>2, <1>7
      <4>2. tlb_shootdown_hscc(v, src, FALSE) /\ EntriesType /\ MonitorFinds
        BY <4>1, <3>2, Zenon DEF IInv
      <4>3. \A t \in Tlbs : \A u \in DOMAIN tlb[t] : u # v => tlb[t][u].ppn # src
        BY <4>1, <3>1
      <4>4. /\ EntriesType' /\ MonitorFinds'
            /\ \A t \in Tlbs :
                  /\ DOMAIN tlb'[t] = DOMAIN tlb[t]
                  /\ \A u \in DOMAIN tlb[t] : tlb'[t][u] = IF u = v THEN remap(src, FALSE) ELSE tlb[t][u]
        BY <4>2, <4>3, <3>2, ShootdownRemaps, ZenonT(30)
      <4> QED BY <4>1, <4>4, Zenon
    <3>4. remap(block[b].src, FALSE).ppn = block[b].src /\ ~ remap(block[b].src, FALSE).dram
      BY DEF remap, EntryOf
    <3> QED BY <2>1, <3>3, <3>4, Zenon
  <2>2. CASE ~ block[b].occ
    BY <2>2, <1>2 DEF IInv, EntriesType, MonitorFinds
  <2> QED BY <2>1, <2>2
<1>11. StateType'
  BY <1>3, <1>4, <1>8, SMTT(20) DEF IInv, StateType
<1>12. TablesOK(p)' /\ SourcesOK(p)'
  BY <1>3, <1>8 DEF IInv, TablesOK, SourcesOK, SameContents
<1>13. EntriesOK(p)'
  <2> SUFFICES ASSUME NEW t \in Tlbs, NEW u \in DOMAIN tlb'[t]
               PROVE  /\ tlb'[t][u].ppn = Home(p, u)'
                      /\ tlb'[t][u].dram <=> tlb'[t][u].ppn \in Blocks
    BY DEF EntriesOK
  <2>1. Between(u)' <=> block[b].occ /\ u = block[b].v
    BY <1>4, <1>8 DEF Between, SameContents
  <2>2. CASE Between(u)'
    <3>1. Home(p, u)' = block[b].src
      BY <2>1, <2>2, <1>4, <1>8 DEF Home, SameContents
    <3> QED BY <2>1, <2>2, <3>1, <1>7, <1>10, HotPagesAssumption
  <2>3. CASE ~ Between(u)'
    <3>1. Home(p, u)' = pt[p][u]
      BY <2>3, <1>3 DEF Home
    <3> QED BY <2>1, <2>3, <3>1, <1>9, <1>10
  <2> QED BY <2>2, <2>3
<1>14. WalkOK(c, p)' /\ CachingOK(c, p)'
  BY <1>3, <1>4, <1>5, <1>10 DEF WalkOK, CachingOK
<1> QED BY <1>10, <1>11, <1>12, <1>13, <1>14 DEF IInv

LEMMA NoneIInv ==
    ASSUME NEW c, NEW p, Alone(c, p), IInv(c, p), allocate_none
    PROVE  IInv(c, p)'
<1>1. mc.at = "allocate" /\ mc' = Idle /\ UNCHANGED <<pt, used, tlb, pa, walk, block>>
  BY DEF allocate_none
<1>2. walk[c] = Idle
  BY <1>1 DEF IInv, CachingOK, Idle
<1>3. EntriesOK(p)'
  BY <1>1 DEF IInv, EntriesOK, Home, Between, Idle
<1>4. WalkOK(c, p)' /\ CachingOK(c, p)'
  BY <1>1, <1>2 DEF WalkOK, CachingOK
<1>5. StateType'
  BY <1>1 DEF IInv, StateType
<1>6. EntriesType' /\ TablesOK(p)' /\ SourcesOK(p)' /\ MonitorFinds'
  BY <1>1, SMTT(20) DEF IInv, EntriesType, TablesOK, SourcesOK, MonitorFinds
<1> QED BY <1>3, <1>4, <1>5, <1>6 DEF IInv

\* The page of the block goes back to its frame and the new page takes the
\* block: the page table stays injective because frames that wait in blocks
\* are not mapped.
LEMMA EvictIInv ==
    ASSUME NEW c, NEW p, Alone(c, p), IInv(c, p), evict_and_fetch
    PROVE  IInv(c, p)'
<1> USE AloneRuns, HotPagesAssumption, UnmappedAssumption
<1>1. mc \in Caching /\ mc # Idle /\ mc.at = "map"
  BY CachingKinds DEF evict_and_fetch, IInv, StateType
<1>2. PICK b \in Blocks, n \in Vpns : b = mc.b /\ n = mc.v
  BY <1>1 DEF Caching
<1>3. mc.core = c /\ walk[c] = Idle /\ mc.t \in Tlbs /\ n \in DOMAIN tlb[mc.t] /\ pt[p][n] \in Frames
  BY <1>1, <1>2 DEF IInv, CachingOK, Caching
<1>4. PICK f \in Frames : f = pt[p][n]
  BY <1>3
<1>5. block \in [Blocks -> {Free} \cup Occupied] /\ pt \in [Procs -> [Vpns -> Pages \cup {Unmapped}]]
  BY DEF IInv, StateType
<1>6. block[b].occ => /\ block[b].v \in Vpns /\ block[b].src \in Frames
                      /\ pt[p][block[b].v] = b /\ block[b].v # n
  <2>1. block[b] \in {Free} \cup Occupied
    BY <1>5
  <2>2. block[b].occ => block[b].v \in Vpns /\ block[b].src \in Frames
    <3>1. block[b].occ => block[b] \in Occupied
      BY <2>1 DEF Free
    <3> QED BY <3>1, Zenon DEF Occupied
  <2> QED BY <2>2, <1>3 DEF IInv, TablesOK
<1>7. tlb[mc.t][mc.v].ppn = f
  BY <1>2, <1>3, <1>4, <1>6 DEF IInv, EntriesOK, Home, Between
<1>8. UNCHANGED <<used, tlb, pa, walk>> /\ mc' = [mc EXCEPT !.at = "install"]
  BY DEF evict_and_fetch
<1>9. mc' \in Caching /\ mc'.at = "install" /\ mc'.b = b /\ mc'.v = n /\ mc'.t = mc.t /\ mc'.core = mc.core
  BY <1>1, <1>2, <1>8 DEF Caching
<1> DEFINE taken == [occ |-> TRUE, dirty |-> FALSE, src |-> f, v |-> n]
<1>10. block' = [block EXCEPT ![b] = taken]
  BY <1>2, <1>7 DEF evict_and_fetch
<1>11. taken \in Occupied /\ taken.occ /\ taken.src = f /\ taken.v = n
  BY DEF Occupied
<1> HIDE DEF taken
<1>12. /\ block' \in [Blocks -> {Free} \cup Occupied]
       /\ block'[b].occ /\ block'[b].src = f /\ block'[b].v = n
       /\ \A o \in Blocks : o # b => block'[o] = block[o]
  BY <1>5, <1>10, <1>11
<1>13. pt' = [pt EXCEPT ![p] = [unmap_victim(p, b) EXCEPT ![n] = b]]
  BY <1>2, <1>3, Zenon DEF evict_and_fetch
<1> DEFINE Evicted(v) == block[b].occ /\ v = block[b].v
<1>14. /\ pt' \in [Procs -> [Vpns -> Pages \cup {Unmapped}]]
       /\ \A v \in Vpns : pt'[p][v] = IF v = n THEN b ELSE IF Evicted(v) THEN block[b].src ELSE pt[p][v]
  <2>1. /\ unmap_victim(p, b) \in [Vpns -> Pages \cup {Unmapped}]
        /\ \A v \in Vpns : unmap_victim(p, b)[v] = IF Evicted(v) THEN block[b].src ELSE pt[p][v]
    BY <1>5, <1>6 DEF unmap_victim, Pages
  <2> HIDE DEF Evicted
  <2> QED BY <2>1, <1>5, <1>13 DEF Pages
<1>15. \A v \in Vpns : pt[p][v] = b <=> Evicted(v)
  BY DEF IInv, TablesOK
<1>16. TablesOK(p)'
  <2>1. ASSUME NEW u \in Vpns, NEW v \in Vpns, pt'[p][u] = pt'[p][v], pt'[p][u] # Unmapped
        PROVE  u = v
    <3>1. \A x, y \in Vpns : pt[p][x] = pt[p][y] /\ pt[p][x] # Unmapped => x = y
      BY DEF IInv, TablesOK
    <3>2. block[b].occ => \A x \in Vpns : pt[p][x] # block[b].src
      BY DEF IInv, SourcesOK
    <3> QED BY <2>1, <3>1, <3>2, <1>6, <1>14, <1>15
  <2>2. ASSUME NEW v \in Vpns, pt'[p][v] \in Frames
        PROVE  pt'[p][v] \in used'
    BY <2>2, <1>8, <1>14 DEF IInv, TablesOK, SourcesOK
  <2>3. ASSUME NEW o \in Blocks, NEW v \in Vpns
        PROVE  pt'[p][v] = o <=> block'[o].occ /\ block'[o].v = v
    <3>1. pt[p][v] = o <=> block[o].occ /\ block[o].v = v
      BY DEF IInv, TablesOK
    <3>2. CASE o = b
      BY <3>2, <1>6, <1>12, <1>14, <1>15
    <3>3. CASE o # b
      BY <3>1, <3>3, <1>3, <1>6, <1>12, <1>14, <1>15
    <3> QED BY <3>2, <3>3
  <2> QED BY <2>1, <2>2, <2>3 DEF TablesOK
<1>17. SourcesOK(p)'
  <2>1. \A o \in Blocks : block[o].occ => block[o].src \in used /\ \A v \in Vpns : pt[p][v] # block[o].src
    BY DEF IInv, SourcesOK
  <2>2. \A o \in Blocks : block[o].occ => block[o] \in Occupied
    BY <1>5 DEF Free
  <2>3. \A o \in Blocks : block[o].occ => block[o].src \in Frames
    BY <2>2, Zenon DEF Occupied
  <2>4. f \in used /\ \A v \in Vpns : pt[p][v] = f => v = n
    BY <1>4 DEF IInv, TablesOK
  <2>5. ASSUME NEW o \in Blocks, block'[o].occ
        PROVE  block'[o].src \in used' /\ \A v \in Vpns : pt'[p][v] # block'[o].src
    <3>1. CASE o = b
      BY <3>1, <2>1, <2>4, <1>4, <1>8, <1>12, <1>14
    <3>2. CASE o # b
      <4>1. block'[o] = block[o] /\ block[o].occ
        BY <2>5, <3>2, <1>12
      <4>2. block[b].occ => block[b].src # block[o].src
        BY <3>2, <4>1 DEF IInv, SourcesOK
      <4> QED BY <4>1, <4>2, <2>1, <2>3, <1>8, <1>14
    <3> QED BY <3>1, <3>2
  <2>6. ASSUME NEW o \in Blocks, NEW x \in Blocks, block'[o].occ, block'[x].occ, block'[o].src = block'[x].src
        PROVE  o = x
    BY <2>6, <2>1, <1>4, <1>12 DEF IInv, SourcesOK
  <2> QED BY <2>5, <2>6 DEF SourcesOK
<1>18. StateType'
  BY <1>8, <1>9, <1>12, <1>14 DEF IInv, StateType
<1>19. EntriesType' /\ MonitorFinds'
  BY <1>8 DEF IInv, EntriesType, MonitorFinds
<1>20. EntriesOK(p)'
  <2> SUFFICES ASSUME NEW t \in Tlbs, NEW u \in DOMAIN tlb[t]
               PROVE  tlb[t][u].ppn = Home(p, u)' /\ (tlb[t][u].dram <=> tlb[t][u].ppn \in Blocks)
    BY <1>8 DEF EntriesOK
  <2>1. u \in Vpns /\ tlb[t][u].ppn = Home(p, u) /\ (tlb[t][u].dram <=> tlb[t][u].ppn \in Blocks)
    BY DEF IInv, EntriesType, EntriesOK
  <2>2. Home(p, u) = IF Evicted(u) THEN block[b].src ELSE pt[p][u]
    BY <1>1, <1>2 DEF Home, Between
  <2>3. Home(p, u)' = IF u = n THEN f ELSE pt'[p][u]
    BY <1>9, <1>12 DEF Home, Between
  <2>4. Home(p, u)' = Home(p, u)
    BY <2>1, <2>2, <2>3, <1>4, <1>6, <1>14
  <2> QED BY <2>1, <2>4
<1>21. WalkOK(c, p)' /\ CachingOK(c, p)'
  BY <1>3, <1>8, <1>9, <1>12, SMTT(20) DEF WalkOK, CachingOK
<1> QED BY <1>16, <1>17, <1>18, <1>19, <1>20, <1>21 DEF IInv

LEMMA InstallIInv ==
    ASSUME NEW c, NEW p, Alone(c, p), IInv(c, p), install
    PROVE  IInv(c, p)'
<1> USE AloneRuns, HotPagesAssumption
<1>1. mc \in Caching /\ mc # Idle /\ mc.at = "install"
  BY CachingKinds DEF install, IInv, StateType
<1>2. PICK b \in Blocks, n \in Vpns : b = mc.b /\ n = mc.v
  BY <1>1 DEF Caching
<1>3. walk[c] = Idle /\ block[b].occ /\ block[b].v = n /\ pt[p][n] = b
  BY <1>1, <1>2 DEF IInv, CachingOK, TablesOK
<1>4. mc' = Idle /\ UNCHANGED <<pt, used, walk, block>> /\ tlb_shootdown_hscc(n, b, TRUE)
  BY <1>2, Zenon DEF install
<1>5. \A t \in Tlbs : \A u \in DOMAIN tlb[t] : u # n => u \in Vpns /\ tlb[t][u].ppn = pt[p][u]
  BY <1>2, <1>3, SMTT(20) DEF IInv, EntriesType, EntriesOK, Home, Between
<1>6. \A t \in Tlbs : \A u \in DOMAIN tlb[t] : u # n => tlb[t][u].ppn # b
  BY <1>3, <1>5 DEF IInv, TablesOK
<1>7. /\ EntriesType' /\ MonitorFinds'
      /\ \A t \in Tlbs :
            /\ DOMAIN tlb'[t] = DOMAIN tlb[t]
            /\ \A u \in DOMAIN tlb[t] : tlb'[t][u] = IF u = n THEN remap(b, TRUE) ELSE tlb[t][u]
  <2>1. EntriesType /\ MonitorFinds /\ b \in Pages /\ TRUE \in BOOLEAN
    BY DEF IInv, Pages
  <2> QED BY <2>1, <1>4, <1>6, ShootdownRemaps, ZenonT(30)
<1>8. \A t \in Tlbs : \A u \in DOMAIN tlb[t] :
         IF u = n THEN tlb'[t][u].ppn = b /\ tlb'[t][u].dram ELSE tlb'[t][u] = tlb[t][u]
  <2>1. remap(b, TRUE).ppn = b /\ remap(b, TRUE).dram
    BY DEF remap, EntryOf
  <2> QED BY <2>1, <1>7, ZenonT(30)
<1>9. EntriesOK(p)'
  <2>1. \A u : Home(p, u)' = pt[p][u]
    BY <1>4 DEF Home, Between, Idle
  <2>2. \A t \in Tlbs : DOMAIN tlb'[t] = DOMAIN tlb[t]
    BY <1>7, Zenon
  <2> SUFFICES ASSUME NEW t \in Tlbs, NEW u \in DOMAIN tlb[t]
               PROVE  tlb'[t][u].ppn = pt[p][u] /\ (tlb'[t][u].dram <=> tlb'[t][u].ppn \in Blocks)
    BY <2>1, <2>2 DEF EntriesOK
  <2>3. CASE u = n
    BY <2>3, <1>3, <1>8
  <2>4. CASE u # n
    <3>1. tlb[t][u].dram <=> tlb[t][u].ppn \in Blocks
      BY DEF IInv, EntriesOK
    <3> QED BY <2>4, <3>1, <1>5, <1>8
  <2> QED BY <2>3, <2>4
<1>10. StateType' /\ TablesOK(p)' /\ SourcesOK(p)'
  BY <1>4, SMTT(20) DEF IInv, StateType, TablesOK, SourcesOK
<1>11. WalkOK(c, p)' /\ CachingOK(c, p)'
  BY <1>3, <1>4, SMTT(20) DEF WalkOK, CachingOK
<1> QED BY <1>7, <1>9, <1>10, <1>11, Zenon DEF IInv

-----------------------------------------------------------------------------
LEMMA NextIInv ==
    ASSUME NEW c, NEW p, Alone(c, p), IInv(c, p), [Next]_vars
    PROVE  IInv(c, p)'
<1> USE AloneRuns
<1>1. CASE \E d \in Cores, k \in Kinds, v \in Vpns :
              \E write \in IF k = "d" THEN BOOLEAN ELSE {FALSE} :
                  tlb_hit(d, k, v, write) \/ page_walk(d, k, v, write) \/ page_walk_fault(d, k, v, write)
  <2>1. PICK k \in Kinds, v \in Vpns, write \in BOOLEAN :
            tlb_hit(c, k, v, write) \/ page_walk(c, k, v, write) \/ page_walk_fault(c, k, v, write)
    BY <1>1, Zenon DEF Alone
  <2>2. CASE tlb_hit(c, k, v, write)
    BY <2>2, HitIInv, Zenon
  <2>3. CASE page_walk(c, k, v, write) \/ page_walk_fault(c, k, v, write)
    BY <2>3, WalkIInv, Zenon
  <2> QED BY <2>1, <2>2, <2>3, Zenon
<1>2. CASE \E d \in Cores : do_page_fault(d) \/ tlb_insert(d)
  BY <1>2, FaultIInv, InsertIInv DEF Alone
<1>3. CASE \E d \in Cores, q \in Frames \cup Blocks, write \in BOOLEAN :
              writeback_uncounted(d, q) \/ access_counted(d, q, write)
  <2>1. PICK q \in Frames \cup Blocks, write \in BOOLEAN :
            writeback_uncounted(c, q) \/ access_counted(c, q, write)
    BY <1>3, Zenon DEF Alone
  <2>2. CASE writeback_uncounted(c, q)
    BY <2>2, UncountedIInv DEF writeback_uncounted
  <2>3. CASE access_counted(c, q, write)
    <3>1. q \in Frames
      BY <2>3 DEF access_counted
    <3> QED BY <2>3, <3>1, CountedIInv, Zenon
  <2> QED BY <2>1, <2>2, <2>3, Zenon
<1>4. CASE allocate_block
  BY <1>4, AllocateIInv
<1>5. CASE allocate_none
  BY <1>5, NoneIInv
<1>6. CASE evict_and_fetch
  BY <1>6, EvictIInv
<1>7. CASE install
  BY <1>7, InstallIInv
<1>8. CASE UNCHANGED vars
  BY <1>8, UncountedIInv DEF vars
<1> QED BY <1>1, <1>2, <1>3, <1>4, <1>5, <1>6, <1>7, <1>8, Zenon DEF Next

LEMMA BlocksAgree ==
    ASSUME NEW c, NEW p, Alone(c, p), IInv(c, p)
    PROVE  BlocksMapped
<1> SUFFICES ASSUME NEW b \in Blocks
             PROVE  LET mappings == {m \in Procs \X Vpns : pt[m[1]][m[2]] = b}
                    IN  IF block[b].occ
                        THEN Cardinality(mappings) = 1 /\ \A m \in mappings : m[2] = block[b].v
                        ELSE mappings = {}
  BY DEF BlocksMapped
<1> DEFINE mappings == {m \in Procs \X Vpns : pt[m[1]][m[2]] = b}
<1>1. \A m \in mappings : block[b].occ /\ m = <<p, block[b].v>>
  BY DEF Alone, IInv, TablesOK
<1>2. CASE block[b].occ
  <2>1. block[b] \in Occupied
    BY <1>2 DEF IInv, StateType, Free
  <2>2. block[b].v \in Vpns
    BY <2>1, Zenon DEF Occupied
  <2>3. <<p, block[b].v>> \in mappings
    BY <1>2, <2>2, AloneRuns DEF IInv, TablesOK
  <2>4. mappings = {<<p, block[b].v>>}
    BY <1>1, <2>3
  <2>5. Cardinality(mappings) = 1
    BY <2>4, FS_Singleton, Zenon
  <2> QED BY <1>1, <1>2, <2>5
<1>3. CASE ~ block[b].occ
  BY <1>1, <1>3
<1> QED BY <1>2, <1>3

LEMMA AlwaysIInv ==
    ASSUME NEW c, NEW p, Cores = {c}, Procs = {p}
    PROVE  Alone(c, p) /\ (Spec => []IInv(c, p))
<1>1. Alone(c, p)
  BY DEF Alone
<1>2. Init => IInv(c, p)
  BY <1>1, InitIInv
<1>3. IInv(c, p) /\ [Next]_vars => IInv(c, p)'
  BY <1>1, NextIInv
<1>4. Spec => []IInv(c, p)
  BY <1>2, <1>3, PTL DEF Spec
<1> QED BY <1>1, <1>4

\* With one core and one process, whatever the number of pages, blocks and
\* TLBs: TLB entries agree with the page table whenever nothing is being
\* cached (the steps of do_dram_page_fault and its shootdowns).
THEOREM TranslationTheorem ==
    ASSUME NEW c, NEW p, Cores = {c}, Procs = {p}
    PROVE  Spec => []TranslationAgrees
<1>1. Alone(c, p) /\ (Spec => []IInv(c, p))
  BY AlwaysIInv
<1>2. IInv(c, p) => TranslationAgrees
  BY <1>1, AloneRuns DEF TranslationAgrees, IInv, EntriesOK, Home, Between, Idle
<1> QED BY <1>1, <1>2, PTL

\* With one core and one process the map by physical page finds exactly the
\* resident entries at every step (tlb_trie_pa of hot_monitor_tlb.h).
THEOREM MonitorTheorem ==
    ASSUME NEW c, NEW p, Cores = {c}, Procs = {p}
    PROVE  Spec => []MonitorFinds
<1>1. Alone(c, p) /\ (Spec => []IInv(c, p))
  BY AlwaysIInv
<1>2. IInv(c, p) => MonitorFinds
  BY DEF IInv
<1> QED BY <1>1, <1>2, PTL

\* With one core and one process each block in use is mapped by the page it
\* records and by no other (evict_and_fetch and the page tables).
THEOREM BlocksTheorem ==
    ASSUME NEW c, NEW p, Cores = {c}, Procs = {p}
    PROVE  Spec => []BlocksMapped
<1>1. Alone(c, p) /\ (Spec => []IInv(c, p))
  BY AlwaysIInv
<1>2. IInv(c, p) => BlocksMapped
  BY <1>1, BlocksAgree
<1> QED BY <1>1, <1>2, PTL

=============================================================================
