--------------------------- MODULE MemController ---------------------------
(***************************************************************************)
(* One channel of NVMain: the event-driven FRFCFS memory controller        *)
(* (MemControl/FRFCFS/FRFCFS.cpp over src/MemoryController.cpp), the       *)
(* event queue that drives it (src/EventQueue.cpp) and the banks it        *)
(* commands (StandardRank, DDR3Bank, SubArray).                            *)
(*                                                                         *)
(* Requests wait in memQueue.  A scheduling step (FRFCFS::Cycle) picks one *)
(* and turns it into commands at the end of its bank's command queue,      *)
(* remembering in effectiveRow the row that will be open once they have    *)
(* been executed.  The heads of the command queues are issued one a cycle  *)
(* as the banks' timing allows.  Nothing polls: each step must leave       *)
(* behind the events that wake the controller for the next one.            *)
(*                                                                         *)
(* Time is relative: events[d] is the list of the events d cycles from     *)
(* now, and each timer of a bank counts down to 0.  The configuration is   *)
(* the one of the shipped *_channel.config files: EventDriven,             *)
(* UsePrecharge, UseRefresh, ClosePage 0, ScheduleScheme 2, one queue per  *)
(* bank, one subarray per bank; one rank.  Every request is a READ: a      *)
(* WRITE takes the same path with other timings.                           *)
(***************************************************************************)
EXTENDS Integers, FiniteSets, SequencesExt

CONSTANTS
  BANKS,                    \* number of banks
  BanksPerRefresh,          \* banks refreshed by one REFRESH command
  ROWS,                     \* rows of a bank; the row number ROWS is "none"
  queueSize,                \* capacity of memQueue
  starvationThreshold,      \* row hits a bank may serve before a waiting miss
  DelayedRefreshThreshold,  \* pulses after which a refresh is due
  tRCD,                     \* ACTIVATE to READ
  tRAS,                     \* ACTIVATE to PRECHARGE
  tRP,                      \* PRECHARGE to ACTIVATE
  tCCD,                     \* READ to READ
  tRTP,                     \* READ to PRECHARGE
  tRRD,                     \* ACTIVATE to ACTIVATE, anywhere in the rank (tRRDR)
  tRFC,                     \* length of a REFRESH
  tREFI,                    \* distance of two refresh pulses of a group
  MaxRequests               \* bound: requests accepted in a behaviour

(***************************************************************************)
(* The sanity checks of SetConfig, and what they leave implicit: a group   *)
(* of banks never wraps around.                                            *)
(***************************************************************************)
ASSUME GroupsAssumption ==
  /\ {BANKS, BanksPerRefresh, ROWS, queueSize} \subseteq Nat \ {0}
  /\ BANKS % BanksPerRefresh = 0

ASSUME TimingAssumption ==
  {tRCD, tRAS, tRP, tCCD, tRTP, tRRD, tRFC, tREFI} \subseteq Nat \ {0}

(***************************************************************************)
(* Two relations all *_channel.config files keep and the code relies on:   *)
(* an ACTIVATE delays the next one no longer than the READ that follows it *)
(* (tRRDR <= tRCD, which also covers the tRAW window), and the commands    *)
(* queued before a refresh are done before the next pulse of the group.    *)
(***************************************************************************)
ASSUME ActivateAssumption == tRRD <= tRCD
ASSUME DrainAssumption ==
  tREFI >= 2 * (tRAS + tRP) + tRCD + tRRD + tRTP + tRFC + BANKS * (tCCD + 1)

VARIABLES
  memQueue,               \* waiting requests [bank, row, fresh, overtaken]
  commandQueues,          \* bank -> commands [type, row, issued]
  effectiveRow,           \* bank -> row open after the queued commands
  starvationCounter,      \* bank -> row hits since the last activate
  refreshQueued,          \* bank -> a REFRESH of its group is queued
  delayedRefreshCounter,  \* group head -> refresh pulses not yet handled
  nextRefreshBank,        \* round robin over the groups
  curQueue,               \* round robin over the command queues
  handledRefresh,         \* a refresh was queued in this cycle
  lastIssue,              \* a command was issued in this cycle
  banks,                  \* bank -> [state, openRow] and its timers
  rank,                   \* timers of the rank
  events,                 \* distance in cycles -> list of events
  arrived,                \* bound: requests accepted
  scheduled               \* history: banks scheduled in this cycle

vars == <<memQueue, commandQueues, effectiveRow, starvationCounter,
          refreshQueued, delayedRefreshCounter, nextRefreshBank, curQueue,
          handledRefresh, lastIssue, banks, rank, events, arrived, scheduled>>

Banks == 0 .. BANKS - 1
Rows == 0 .. ROWS - 1
GroupHead(b) == (b \div BanksPerRefresh) * BanksPerRefresh
Group(b) == {c \in Banks : GroupHead(c) = GroupHead(b)}
GroupHeads == {GroupHead(b) : b \in Banks}
Later(timer, t) == IF timer > t THEN timer ELSE t

(***************************************************************************)
(* A handler runs several of the controller's functions in turn.  Each is  *)
(* an operator on the state, held in a record with a field per variable.   *)
(***************************************************************************)
State ==
  [memQueue |-> memQueue, commandQueues |-> commandQueues,
   effectiveRow |-> effectiveRow, starvationCounter |-> starvationCounter,
   refreshQueued |-> refreshQueued,
   delayedRefreshCounter |-> delayedRefreshCounter,
   nextRefreshBank |-> nextRefreshBank, curQueue |-> curQueue,
   handledRefresh |-> handledRefresh, lastIssue |-> lastIssue,
   banks |-> banks, rank |-> rank, events |-> events, arrived |-> arrived,
   scheduled |-> scheduled]

Becomes(s) ==
  /\ memQueue' = s.memQueue
  /\ commandQueues' = s.commandQueues
  /\ effectiveRow' = s.effectiveRow
  /\ starvationCounter' = s.starvationCounter
  /\ refreshQueued' = s.refreshQueued
  /\ delayedRefreshCounter' = s.delayedRefreshCounter
  /\ nextRefreshBank' = s.nextRefreshBank
  /\ curQueue' = s.curQueue
  /\ handledRefresh' = s.handledRefresh
  /\ lastIssue' = s.lastIssue
  /\ banks' = s.banks
  /\ rank' = s.rank
  /\ events' = s.events
  /\ arrived' = s.arrived
  /\ scheduled' = s.scheduled

-----------------------------------------------------------------------------
(***************************************************************************)
(* The event queue.  A list is kept in the order of the priorities.  An    *)
(* EventCycle is placed by the priority it is inserted with, but the event *)
(* itself keeps the default priority 0.                                    *)
(***************************************************************************)
CycleEvent == [kind |-> "Cycle", of |-> 0]
CommandEvent == [kind |-> "CommandQueue", of |-> 0]
CleanupEvent == [kind |-> "Cleanup", of |-> 0]
RefreshEvent(head) == [kind |-> "Refresh", of |-> head]
ResponseEvent(b) == [kind |-> "Response", of |-> b]

InsertPriority(e) ==
  CASE e.kind = "Cleanup" -> -10
    [] e.kind = "Response" -> 0
    [] e.kind = "Refresh" -> 20
    [] e.kind = "Cycle" -> 30
    [] e.kind = "CommandQueue" -> 40

GetPriority(e) == IF e.kind = "Cycle" THEN 0 ELSE InsertPriority(e)

RefreshSlice == tREFI \div (BANKS \div BanksPerRefresh)
FirstPulse(head) == tREFI + (head \div BanksPerRefresh) * RefreshSlice
Horizon == 0 .. Max({FirstPulse(head) : head \in GroupHeads})

InsertEvent(s, e, when) ==
  LET list == s.events[when]
      lower == SelectInSeq(list, LAMBDA f : GetPriority(f) > InsertPriority(e))
  IN  [s EXCEPT !.events[when] =
         InsertAt(list, IF lower = 0 THEN Len(list) + 1 ELSE lower, e)]

FindEvent(s, e, when) == \E k \in DOMAIN s.events[when] : s.events[when][k] = e

InsertOnce(s, e, when) ==
  IF FindEvent(s, e, when) THEN s ELSE InsertEvent(s, e, when)

-----------------------------------------------------------------------------
(***************************************************************************)
(* The device: may command c be given to bank b now, and what it does.     *)
(***************************************************************************)
IsIssuable(s, b, c) ==
  LET bank == s.banks[b] IN
  CASE c.type = "ACTIVATE" ->
         s.rank.nextActivate = 0 /\ bank.nextActivate = 0 /\ bank.state = "CLOSED"
    [] c.type = "READ" ->
         /\ s.rank.nextRead = 0 /\ bank.nextRead = 0
         /\ bank.state = "OPEN" /\ bank.openRow = c.row
    [] c.type = "PRECHARGE" ->
         bank.nextPrecharge = 0 /\ bank.state \in {"OPEN", "CLOSED"}
    [] c.type = "PRECHARGE_ALL" ->
         bank.state = "OPEN" => bank.nextPrecharge = 0
    [] c.type = "REFRESH" ->
         /\ s.rank.nextActivate = 0
         /\ \A g \in Group(b) : /\ s.banks[g].nextActivate = 0
                                /\ s.banks[g].state = "CLOSED"

(***************************************************************************)
(* When the device expects to accept c.  PRECHARGE_ALL and REFRESH are not *)
(* answered by the subarray (its NextIssuable returns 0 for them).         *)
(***************************************************************************)
DeviceNextIssuable(s, b, c) ==
  CASE c.type = "ACTIVATE" -> Later(s.rank.nextActivate, s.banks[b].nextActivate)
    [] c.type = "READ" -> Later(s.rank.nextRead, s.banks[b].nextRead)
    [] c.type = "PRECHARGE" -> s.banks[b].nextPrecharge
    [] c.type = "PRECHARGE_ALL" -> 0
    [] c.type = "REFRESH" -> s.rank.nextActivate

Activate(s, b, row) ==
  [s EXCEPT !.banks[b] = [@ EXCEPT !.state = "OPEN", !.openRow = row,
                                   !.nextPrecharge = Later(@, Later(tRCD, tRAS)),
                                   !.nextRead = Later(@, tRCD)],
            !.rank.nextActivate = Later(@, tRRD)]

Read(s, b) ==
  [s EXCEPT !.banks[b] = [@ EXCEPT !.nextPrecharge = Later(@, tRTP),
                                   !.nextRead = Later(@, tCCD)],
            !.rank.nextRead = Later(@, tCCD)]

Precharge(s, b) ==
  InsertEvent(
    [s EXCEPT !.banks[b] = [@ EXCEPT !.state = "PRECHARGING",
                                     !.nextActivate = Later(@, tRP)]],
    ResponseEvent(b), tRP)

Refresh(s, b) ==
  LET busy == [s EXCEPT
        !.banks = [c \in Banks |->
                     IF c \in Group(b)
                     THEN [@[c] EXCEPT !.state = "REFRESHING",
                                       !.nextActivate = Later(@, tRFC)]
                     ELSE @[c]],
        !.rank.nextActivate = Later(@, tRRD)]
      respond(t, k) == InsertEvent(t, ResponseEvent(GroupHead(b) + k - 1), tRFC)
  IN  FoldLeft(respond, busy, [k \in 1 .. BanksPerRefresh |-> k])

DeviceIssue(s, b, c) ==
  CASE c.type = "ACTIVATE" -> Activate(s, b, c.row)
    [] c.type = "READ" -> Read(s, b)
    [] c.type = "PRECHARGE" -> Precharge(s, b)
    [] c.type = "PRECHARGE_ALL" ->
         IF s.banks[b].state = "OPEN" THEN Precharge(s, b) ELSE s
    [] c.type = "REFRESH" -> Refresh(s, b)

-----------------------------------------------------------------------------
(***************************************************************************)
(* The controller's queries.                                               *)
(***************************************************************************)
NeedRefresh(s, b) == s.delayedRefreshCounter[GroupHead(b)] >= DelayedRefreshThreshold

\* Mutant: an issued command that is still in the queue counts.
empty_uncleaned(s, b) == s.commandQueues[b] = <<>>

EffectivelyEmpty(s, b) ==
  \/ s.commandQueues[b] = <<>>
  \/ Len(s.commandQueues[b]) = 1 /\ Head(s.commandQueues[b]).issued

TransactionAvailable(s, b) == \E k \in DOMAIN s.memQueue : s.memQueue[k].bank = b

\* The cycles until some head may be issuable: the current cycle is over.
\* None if all queues are empty (the code's largest cycle number).
\* The code also looks for a group whose refresh is still to be queued.  It
\* finds none: each pulse calls HandleRefresh itself, which takes the counter
\* below the threshold again before a command is looked for.
None == -1
NextIssuable(s) ==
  LET waiting == {b \in Banks : s.commandQueues[b] # <<>>}
      times == {DeviceNextIssuable(s, b, Head(s.commandQueues[b])) : b \in waiting}
  IN  IF waiting = {} THEN None ELSE Later(Min(times), 1)

(***************************************************************************)
(* ScheduleCommandWake: an event for the next issuable command.  Its       *)
(* callers have just put a command into a queue.                           *)
(***************************************************************************)
ScheduleCommandWake(s) == InsertOnce(s, CommandEvent, NextIssuable(s))

(***************************************************************************)
(* The finders of FRFCFS::Cycle, in its order, each the first request of   *)
(* memQueue in its class.  FindCachedAddress and FindWriteStalledRead find *)
(* nothing in these banks.                                                 *)
(***************************************************************************)
MaySchedule(s, r) ==
  /\ s.commandQueues[r.bank] = <<>>
  /\ ~ NeedRefresh(s, r.bank)
  /\ ~ s.refreshQueued[r.bank]
  /\ ~ r.fresh

RowOf(s, r) == s.effectiveRow[r.bank]

\* Mutant: the threshold itself is not enough.
starved_late(s) ==
  SelectInSeq(s.memQueue, LAMBDA r :
    /\ MaySchedule(s, r)
    /\ RowOf(s, r) \notin {ROWS, r.row}
    /\ s.starvationCounter[r.bank] > starvationThreshold)

FindStarvedRequest(s) ==
  SelectInSeq(s.memQueue, LAMBDA r :
    /\ MaySchedule(s, r)
    /\ RowOf(s, r) \notin {ROWS, r.row}
    /\ s.starvationCounter[r.bank] >= starvationThreshold)

FindRowBufferHit(s) ==
  SelectInSeq(s.memQueue, LAMBDA r : MaySchedule(s, r) /\ RowOf(s, r) = r.row)

FindOldestReadyRequest(s) ==
  SelectInSeq(s.memQueue, LAMBDA r : MaySchedule(s, r) /\ RowOf(s, r) # ROWS)

FindClosedBankRequest(s) ==
  SelectInSeq(s.memQueue, LAMBDA r : MaySchedule(s, r) /\ RowOf(s, r) = ROWS)

NextRequest(s) ==
  LET found == <<FindStarvedRequest(s), FindRowBufferHit(s),
                 FindOldestReadyRequest(s), FindClosedBankRequest(s)>>
      first == SelectInSeq(found, LAMBDA k : k # 0)
  IN  IF first = 0 THEN 0 ELSE found[first]

(***************************************************************************)
(* IssueMemoryCommands for the request at position k of memQueue, which    *)
(* the finder has taken out.  History: a row hit has overtaken the oldest  *)
(* waiting request of the bank, if that is another one.                    *)
(***************************************************************************)
Cmd(type, row) == [type |-> type, row |-> row, issued |-> FALSE]

Overtake(queue, k, hit) ==
  LET oldest == SelectInSeq(queue, LAMBDA r : r.bank = queue[k].bank)
      marked == [queue EXCEPT ![oldest].overtaken = @ + 1]
  IN  RemoveAt(IF hit /\ oldest # k THEN marked ELSE queue, k)

IssueMemoryCommands(s, k) ==
  LET r == s.memQueue[k]
      b == r.bank
      hit == s.effectiveRow[b] = r.row
      close == IF s.effectiveRow[b] = ROWS
               THEN <<>> ELSE <<Cmd("PRECHARGE", s.effectiveRow[b])>>
      open == close \o <<Cmd("ACTIVATE", r.row)>>
      queued == [s EXCEPT
        !.memQueue = Overtake(@, k, hit),
        !.commandQueues[b] = @ \o (IF hit THEN <<>> ELSE open) \o <<Cmd("READ", r.row)>>,
        !.effectiveRow[b] = r.row,
        !.starvationCounter[b] = IF hit THEN Min({@ + 1, starvationThreshold}) ELSE 0,
        !.scheduled = @ \cup {b}]
  IN  ScheduleCommandWake(queued)

(***************************************************************************)
(* CycleCommandQueues: at most one command a cycle, the first issuable     *)
(* head from curQueue on.  MoveCurrentQueue lets curQueue reach BANKS.     *)
(***************************************************************************)
\* Mutant: only the flag of the group's head.
reset_queued_head(s, b) == [s EXCEPT !.refreshQueued[b] = FALSE]

ResetRefreshQueued(s, b) ==
  [s EXCEPT !.refreshQueued =
     [c \in Banks |-> IF c \in Group(b) THEN FALSE ELSE @[c]]]

MoveCurrentQueue(s) == [s EXCEPT !.curQueue = IF @ + 1 > BANKS THEN 0 ELSE @ + 1]

IssueHead(s, b) ==
  LET c == Head(s.commandQueues[b])
      device == DeviceIssue(s, b, c)
      marked == [device EXCEPT !.commandQueues[b][1].issued = TRUE,
                               !.lastIssue = TRUE]
      refreshed == IF c.type = "REFRESH" THEN ResetRefreshQueued(marked, b) ELSE marked
      clean == InsertOnce(refreshed, CleanupEvent, 1)
      woken == IF Len(clean.commandQueues[b]) = 1 /\ TransactionAvailable(clean, b)
               THEN InsertEvent(clean, CycleEvent, 1) ELSE clean
  IN  MoveCurrentQueue(woken)

Issuable(s, b) ==
  s.commandQueues[b] # <<>> /\ IsIssuable(s, b, Head(s.commandQueues[b]))

CycleCommandQueues(s) ==
  LET turn == [k \in 1 .. BANKS |-> (s.curQueue + k - 1) % BANKS]
      first == SelectInSeq(turn, LAMBDA b : Issuable(s, b))
  IN  IF s.handledRefresh \/ s.lastIssue \/ first = 0
      THEN s ELSE IssueHead(s, turn[first])

(***************************************************************************)
(* MemoryController::Cycle, the end of every scheduling step: wake up in   *)
(* the next cycle if another bank can take a transaction.                  *)
(***************************************************************************)
\* Mutant: no second look at the transaction queue.
recheck_none(s) == s

Recheck(s) ==
  IF \E b \in Banks : EffectivelyEmpty(s, b) /\ TransactionAvailable(s, b)
  THEN InsertOnce(s, CycleEvent, 1) ELSE s

(***************************************************************************)
(* HandleRefresh: for the first group in turn that needs a refresh, close  *)
(* its active banks, queue REFRESH at the group's head and bar the group.  *)
(***************************************************************************)
\* Mutant: the rows the refresh closes stay effective.
queue_refresh_open(s, head) ==
  LET active == {b \in Group(head) : s.effectiveRow[b] # ROWS}
      closing == [b \in Banks |->
        IF b \in active THEN <<Cmd("PRECHARGE_ALL", 0)>> ELSE <<>>]
      refresh == [b \in Banks |->
        IF b = head THEN <<Cmd("REFRESH", 0)>> ELSE <<>>]
      queued == [s EXCEPT
        !.commandQueues = [b \in Banks |-> @[b] \o closing[b] \o refresh[b]],
        !.refreshQueued = [b \in Banks |-> b \in Group(head) \/ @[b]],
        !.delayedRefreshCounter[head] = @ - 1,
        !.nextRefreshBank = IF @ + BanksPerRefresh >= BANKS THEN 0 ELSE @ + BanksPerRefresh,
        !.handledRefresh = TRUE]
  IN  ScheduleCommandWake(queued)

QueueRefresh(s, head) ==
  LET active == {b \in Group(head) : s.effectiveRow[b] # ROWS}
      closing == [b \in Banks |->
        IF b \in active THEN <<Cmd("PRECHARGE_ALL", 0)>> ELSE <<>>]
      refresh == [b \in Banks |->
        IF b = head THEN <<Cmd("REFRESH", 0)>> ELSE <<>>]
      queued == [s EXCEPT
        !.commandQueues = [b \in Banks |-> @[b] \o closing[b] \o refresh[b]],
        !.effectiveRow = [b \in Banks |-> IF b \in active THEN ROWS ELSE @[b]],
        !.refreshQueued = [b \in Banks |-> b \in Group(head) \/ @[b]],
        !.delayedRefreshCounter[head] = @ - 1,
        !.nextRefreshBank = IF @ + BanksPerRefresh >= BANKS THEN 0 ELSE @ + BanksPerRefresh,
        !.handledRefresh = TRUE]
  IN  ScheduleCommandWake(queued)

HandleRefresh(s) ==
  LET turn == [k \in 1 .. BANKS \div BanksPerRefresh |->
                 (s.nextRefreshBank + (k - 1) * BanksPerRefresh) % BANKS]
      first == SelectInSeq(turn, LAMBDA b : NeedRefresh(s, b))
  IN  IF first = 0 THEN s ELSE QueueRefresh(s, turn[first])

-----------------------------------------------------------------------------
(***************************************************************************)
(* The handlers of the events.                                             *)
(***************************************************************************)
Cycle(s) ==
  LET k == NextRequest(s)
      issued == IF k = 0 THEN s ELSE IssueMemoryCommands(s, k)
  IN  Recheck(CycleCommandQueues(issued))

CommandQueueCallback(s) ==
  CycleCommandQueues(IF NextIssuable(s) = None THEN s ELSE ScheduleCommandWake(s))

CleanupCallback(s) ==
  [s EXCEPT !.commandQueues =
     [b \in Banks |-> SelectSeq(@[b], LAMBDA c : ~ c.issued)]]

ProcessRefreshPulse(s, head) ==
  InsertEvent([s EXCEPT !.delayedRefreshCounter[head] = @ + 1],
              RefreshEvent(head), tREFI)

RefreshCallback(s, head) == HandleRefresh(ProcessRefreshPulse(s, head))

\* SubArray::RequestComplete of a PRECHARGE, PRECHARGE_ALL or REFRESH.
RequestComplete(s, b) ==
  [s EXCEPT !.banks[b] = [@ EXCEPT !.state = "CLOSED", !.openRow = ROWS]]

Handle(s, e) ==
  CASE e.kind = "Cycle" -> Cycle(s)
    [] e.kind = "CommandQueue" -> CommandQueueCallback(s)
    [] e.kind = "Cleanup" -> CleanupCallback(s)
    [] e.kind = "Refresh" -> RefreshCallback(s, e.of)
    [] e.kind = "Response" -> RequestComplete(s, e.of)

(***************************************************************************)
(* Init: SetConfig and the constructors, in cycle 0.  lastIssueCycle is 0, *)
(* so nothing is issued in cycle 0.                                        *)
(***************************************************************************)
ClosedBank == [state |-> "CLOSED", openRow |-> 0,
               nextActivate |-> 0, nextRead |-> 0, nextPrecharge |-> 0]

Init ==
  /\ memQueue = <<>>
  /\ commandQueues = [b \in Banks |-> <<>>]
  /\ effectiveRow = [b \in Banks |-> ROWS]
  /\ starvationCounter = [b \in Banks |-> 0]
  /\ refreshQueued = [b \in Banks |-> FALSE]
  /\ delayedRefreshCounter = [head \in GroupHeads |-> 0]
  /\ nextRefreshBank = 0
  /\ curQueue = 0
  /\ handledRefresh = FALSE
  /\ lastIssue = TRUE
  /\ banks = [b \in Banks |-> ClosedBank]
  /\ rank = [nextActivate |-> 0, nextRead |-> 0]
  /\ events = [d \in Horizon |->
       SetToSeq({RefreshEvent(h) : h \in {g \in GroupHeads : FirstPulse(g) = d}})]
  /\ arrived = 0
  /\ scheduled = {}

(***************************************************************************)
(* EventQueue::Process, one event of the current cycle's list a step.      *)
(***************************************************************************)
ProcessEvent ==
  /\ events[0] # <<>>
  /\ \E s \in {Handle([State EXCEPT !.events[0] = Tail(@)], Head(events[0]))} :
       Becomes(s)

(***************************************************************************)
(* FRFCFS::IssueCommand and MemoryController::Enqueue.  NVMain calls them  *)
(* between two calls of Process: the current cycle's events are done, but  *)
(* for the one an earlier request of this cycle has added.                 *)
(***************************************************************************)
Arrived == \E k \in DOMAIN memQueue : memQueue[k].fresh

Enqueue(s, b, row) ==
  LET queued == [s EXCEPT
        !.memQueue = Append(@, [bank |-> b, row |-> row, fresh |-> TRUE, overtaken |-> 0]),
        !.arrived = @ + 1]
  IN  IF EffectivelyEmpty(queued, b) THEN InsertOnce(queued, CycleEvent, 0) ELSE queued

IssueCommand(b, row) ==
  /\ arrived < MaxRequests
  /\ events[0] = <<>> \/ Arrived
  /\ Len(memQueue) < queueSize
  /\ \E s \in {Enqueue(State, b, row)} : Becomes(s)

(***************************************************************************)
(* The clock moves on once the current cycle's events are done.            *)
(***************************************************************************)
Down(timer) == Later(timer - 1, 0)

Tick ==
  /\ events[0] = <<>>
  /\ events' = [d \in Horizon |-> IF d + 1 \in Horizon THEN events[d + 1] ELSE <<>>]
  /\ banks' = [b \in Banks |->
       [banks[b] EXCEPT !.nextActivate = Down(@), !.nextRead = Down(@),
                        !.nextPrecharge = Down(@)]]
  /\ rank' = [nextActivate |-> Down(rank.nextActivate), nextRead |-> Down(rank.nextRead)]
  /\ memQueue' = [k \in DOMAIN memQueue |-> [memQueue[k] EXCEPT !.fresh = FALSE]]
  /\ lastIssue' = FALSE
  /\ handledRefresh' = FALSE
  /\ scheduled' = {}
  /\ UNCHANGED <<commandQueues, effectiveRow, starvationCounter, refreshQueued,
                 delayedRefreshCounter, nextRefreshBank, curQueue, arrived>>

Next ==
  \/ ProcessEvent
  \/ Tick
  \/ \E b \in Banks, row \in Rows : IssueCommand(b, row)

Spec == Init /\ [][Next]_vars

(***************************************************************************)
(* zsim keeps driving the memory's clock, whether requests come or not.    *)
(***************************************************************************)
FairSpec == Spec /\ []<><<Tick>>_vars

-----------------------------------------------------------------------------
(***************************************************************************)
(* RowsPredicted.  Scheduling decides hit or miss by effectiveRow, long    *)
(* before the commands reach the bank.  Executing what is still queued     *)
(* leads the bank to exactly that row, and every command on the way finds  *)
(* the row it was made for: a READ its row, an ACTIVATE and a REFRESH a    *)
(* closed bank, a PRECHARGE the row it closes.                             *)
(***************************************************************************)
Unissued(b) == SelectSeq(commandQueues[b], LAMBDA c : ~ c.issued)
OpenRow(b) == IF banks[b].state = "OPEN" THEN banks[b].openRow ELSE ROWS

RowAfter(row, c) ==
  CASE c.type = "ACTIVATE" -> c.row
    [] c.type = "READ" -> row
    [] OTHER -> ROWS

Expects(c, row) ==
  CASE c.type \in {"READ", "PRECHARGE"} -> row = c.row
    [] c.type = "PRECHARGE_ALL" -> row # ROWS
    [] OTHER -> row = ROWS

RowsPredicted ==
  \A b \in Banks :
    LET queue == Unissued(b)
        row[k \in 0 .. Len(queue)] ==
          IF k = 0 THEN OpenRow(b) ELSE RowAfter(row[k - 1], queue[k])
    IN  /\ \A k \in 1 .. Len(queue) : Expects(queue[k], row[k - 1])
        /\ row[Len(queue)] = effectiveRow[b]

(***************************************************************************)
(* RefreshGate.  From HandleRefresh until its REFRESH is issued, and no    *)
(* longer, refreshQueued bars every bank of the group; none of them will   *)
(* be open when the REFRESH gets its turn; and there is only one REFRESH   *)
(* of a group at a time.                                                   *)
(***************************************************************************)
Refreshes(head) == {k \in DOMAIN Unissued(head) : Unissued(head)[k].type = "REFRESH"}

RefreshGate ==
  \A b \in Banks :
    /\ refreshQueued[b] <=> Refreshes(GroupHead(b)) # {}
    /\ refreshQueued[b] => effectiveRow[b] = ROWS
    /\ Cardinality(Refreshes(GroupHead(b))) <= 1

(***************************************************************************)
(* NoReadyCycleMissed.  "make event-driven act like execution-driven":     *)
(* the events wake the controller in every cycle in which polling would    *)
(* have found work.  When a cycle ends, a command that could be issued is  *)
(* left only if another one was issued or a refresh was queued in it, and  *)
(* a request that could be scheduled only if another one was, or if the    *)
(* REFRESH it had to wait for was issued in this very cycle.               *)
(***************************************************************************)
GateJustOpened(b) ==
  LET queue == commandQueues[GroupHead(b)]
  IN  queue # <<>> /\ Head(queue).issued /\ Head(queue).type = "REFRESH"

Schedulable(r) == MaySchedule(State, r) /\ ~ GateJustOpened(r.bank)

NoReadyCycleMissed ==
  events[0] = <<>> =>
    /\ (\E b \in Banks : Issuable(State, b)) => lastIssue \/ handledRefresh
    /\ (\E k \in DOMAIN memQueue : Schedulable(memQueue[k])) => scheduled # {}

(***************************************************************************)
(* OvertakingBounded.  Row hits may overtake the oldest request of a bank, *)
(* but no more than starvationThreshold of them do, whatever arrives,      *)
(* however the wake-ups fall and whichever refreshes come between: a miss  *)
(* never starves behind the open row.                                      *)
(***************************************************************************)
OvertakingBounded ==
  \A k \in DOMAIN memQueue : memQueue[k].overtaken <= starvationThreshold

(***************************************************************************)
(* EveryRequestServed.  Whatever a bank is asked for is read in the end:   *)
(* no wake-up is lost, and a refresh never leaves the queues stuck (the    *)
(* DeadlockTimer of CycleCommandQueues never ends the simulation).         *)
(***************************************************************************)
Owes(b) ==
  \/ TransactionAvailable(State, b)
  \/ \E k \in DOMAIN Unissued(b) : Unissued(b)[k].type = "READ"

EveryRequestServed == \A b \in Banks : Owes(b) ~> ~ Owes(b)
============================================================================
