------------------------- MODULE GraduationSniper -------------------------
(***************************************************************************)
(* tools/graduation_sniper.py: it watches tokens close to graduation,      *)
(* decides at one poll of a bonding curve, and lets the order fill at the  *)
(* next.  Its loops are tasks of one asyncio event loop, so an action is a *)
(* stretch of code between two awaits; the await that matters is the HTTP  *)
(* request of poll_one, which holds a Tracker while the other loops may    *)
(* drop it.                                                                *)
(*                                                                         *)
(* Curve states are real SOL in halves (80.0 SOL is 160).  Fees are counted*)
(* in units of TX_FEE_SOL.                                                 *)
(***************************************************************************)
EXTENDS Integers, FiniteSets

CONSTANTS
  Mints,
  Levels,           \* curve states the API may report
  MaxConcurrent,    \* MAX_CONCURRENT
  MaxTracked,       \* MAX_TRACKED
  MaxOrders,        \* bound: buys ever submitted
  MaxCrashes        \* bound: deaths that are not the kill switch

ASSUME MintsAssumption == IsFiniteSet(Mints)
ASSUME LevelsAssumption == Levels \subseteq Nat \ {0}
ASSUME BoundsAssumption ==
  {MaxConcurrent, MaxTracked, MaxOrders, MaxCrashes} \subseteq Nat

\* In half SOL.
VirtualSol == 60        \* VIRTUAL_SOL_INIT
Graduation == 170       \* GRADUATION_REAL_SOL
EntryMin   == 160       \* ENTRY_REAL_SOL, the lowest the brain may tune it to
Exit       == 167       \* EXIT_REAL_SOL
MinRunway  == 5         \* MIN_RUNWAY_SOL
EntryMax   == Exit - MinRunway
HotZone    == 130       \* HOT_ZONE_MIN_SOL
ColdZone   == HotZone - 20
Disaster   == 10        \* DISASTER_STOP_SOL
SlippagePct == 2        \* ENTRY_SLIPPAGE_BOUND_PCT

None == 0               \* no tracker, no position

Reasons  == {"pre_grad_exit", "disaster_stop", "timeout"}
Abandons == {"disaster_stop", "timeout"}  \* remembered in recent_stops

NoOrder      == [type |-> "none", level |-> None, reason |-> "none"]
Buy(level)   == [type |-> "buy", level |-> level, reason |-> "none"]
Sell(reason) == [type |-> "sell", level |-> None, reason |-> reason]

Orders == {NoOrder} \cup {Buy(l) : l \in Levels} \cup {Sell(r) : r \in Reasons}

\* The saved dictionary: open positions with their entry level, fees charged,
\* fees taken off realized_sol, and the mints in recent_stops.
State == [positions : [Mints -> Levels \cup {None}],
          fees : Nat, debits : Nat, stops : SUBSET Mints]

Fresh == [positions |-> [m \in Mints |-> None], fees |-> 0, debits |-> 0, stops |-> {}]

VARIABLES
  up,        \* the process runs
  kill,      \* KILL_GRADUATION exists
  state,     \* self.state; while the process is dead, what a start will load
  disk,      \* graduation_state.json
  trackers,  \* self.trackers: the level a Tracker last saw
  pending,   \* self.pending
  poll,      \* poll_one of each mint: none, or one holding the mint's tracker
             \* ("live") or a Tracker object dropped meanwhile ("stale")
  aged,      \* positions older than TIMEOUT_MIN
  overdue,   \* pending sells older than SELL_ORPHAN_S
  quiet,     \* trackers without a change for STALE_DROP_S
  orders, crashes    \* for the bounds

vars == <<up, kill, state, disk, trackers, pending, poll, aged, overdue, quiet,
          orders, crashes>>

Held(s)    == {m \in Mints : s.positions[m] # None}
Full(s)    == Cardinality(Held(s)) >= MaxConcurrent
Tracked    == {m \in Mints : trackers[m] # None}

Init ==
  /\ up = TRUE /\ kill = FALSE
  /\ state = Fresh /\ disk = Fresh
  /\ trackers = [m \in Mints |-> None]
  /\ pending = [m \in Mints |-> NoOrder]
  /\ poll = [m \in Mints |-> "idle"]
  /\ aged = {} /\ overdue = {} /\ quiet = {}
  /\ orders = 0 /\ crashes = 0

-----------------------------------------------------------------------------
(* Accounting                                                              *)

Charged(s) == [s EXCEPT !.fees = @ + 1]

\* A reverted buy: the fee is charged and taken off the balance.
Reverted(s) == [Charged(s) EXCEPT !.debits = @ + 1]

\* Mutant: the result is added with the fees' sign turned.
ClosedCrediting(s, S, stopped) ==
  [positions |-> [m \in Mints |-> IF m \in S THEN None ELSE s.positions[m]],
   fees      |-> s.fees + Cardinality(S),
   debits    |-> s.debits - 2 * Cardinality(S),
   stops     |-> s.stops \cup stopped]

\* Mutant: the sell itself is not charged.
ClosedUncharged(s, S, stopped) ==
  [positions |-> [m \in Mints |-> IF m \in S THEN None ELSE s.positions[m]],
   fees      |-> s.fees,
   debits    |-> s.debits + 2 * Cardinality(S),
   stops     |-> s.stops \cup stopped]

\* The positions of S are closed, those of `stopped` to be watched for a
\* graduation.  A sell pays a fee, and the result bears that of the buy too.
Closed(s, S, stopped) ==
  [positions |-> [m \in Mints |-> IF m \in S THEN None ELSE s.positions[m]],
   fees      |-> s.fees + Cardinality(S),
   debits    |-> s.debits + 2 * Cardinality(S),
   stops     |-> s.stops \cup stopped]

\* On a constant-product curve the price goes with the square of the SOL side.
Slipped(decided, now) ==
  100 * (VirtualSol + now) * (VirtualSol + now)
    > (100 + SlippagePct) * (VirtualSol + decided) * (VirtualSol + decided)

-----------------------------------------------------------------------------
(* discovery_loop                                                          *)

DropTracker(dropped) ==
  [m \in Mints |-> IF m \in dropped /\ poll[m] = "live" THEN "stale" ELSE poll[m]]

HotNewcomer(m, v) ==
  /\ up /\ trackers[m] = None
  /\ HotZone <= v /\ v < Graduation

Discover(m, v) ==
  /\ HotNewcomer(m, v)
  /\ Cardinality(Tracked) < MaxTracked
  /\ trackers' = [trackers EXCEPT ![m] = v]
  /\ UNCHANGED <<up, kill, state, disk, pending, poll, aged, overdue, quiet, orders, crashes>>

\* The coldest tracker without a position makes room for a hotter newcomer.
Evict(m, v) ==
  LET idle == Tracked \ Held(state) IN
  /\ HotNewcomer(m, v)
  /\ Cardinality(Tracked) >= MaxTracked
  /\ \E c \in idle :
       /\ trackers[c] < v
       /\ \A t \in idle : trackers[c] <= trackers[t]
       /\ trackers' = [trackers EXCEPT ![c] = None, ![m] = v]
       /\ poll' = DropTracker({c})
       /\ quiet' = quiet \ {c}
  /\ UNCHANGED <<up, kill, state, disk, pending, aged, overdue, orders, crashes>>

-----------------------------------------------------------------------------
(* curve_poll_loop: one request per tracked mint, all awaited together     *)

PollRound ==
  /\ up /\ Tracked # {}
  /\ \A m \in Mints : poll[m] = "idle"
  /\ poll' = [m \in Mints |-> IF m \in Tracked THEN "live" ELSE "idle"]
  /\ UNCHANGED <<up, kill, state, disk, trackers, pending, aged, overdue, quiet, orders, crashes>>

PollFails(m) ==
  /\ up /\ poll[m] # "idle"
  /\ poll' = [poll EXCEPT ![m] = "idle"]
  /\ UNCHANGED <<up, kill, state, disk, trackers, pending, aged, overdue, quiet, orders, crashes>>

\* Mutant: slots are counted at the decision only.
BuyLandsUncounted(m, v) ==
  /\ pending[m].type = "buy"
  /\ \/ Slipped(pending[m].level, v) /\ state' = Reverted(state)
     \/ /\ ~Slipped(pending[m].level, v)
        /\ state' = [Charged(state) EXCEPT !.positions[m] = v]
  /\ disk' = state' /\ aged' = aged

\* Mutant: a revert is not saved.
BuyLandsUnsaved(m, v) ==
  /\ pending[m].type = "buy"
  /\ \/ Full(state) /\ state' = Charged(state) /\ disk' = disk
     \/ /\ ~Full(state) /\ Slipped(pending[m].level, v)
        /\ state' = Reverted(state) /\ disk' = disk
     \/ /\ ~Full(state) /\ ~Slipped(pending[m].level, v)
        /\ state' = [Charged(state) EXCEPT !.positions[m] = v] /\ disk' = state'
  /\ aged' = aged

\* _execute_pending, for a buy: it pays its fee and finds the slots taken, is
\* reverted, or fills at the level the curve has now.
BuyLands(m, v) ==
  /\ pending[m].type = "buy"
  /\ \/ Full(state) /\ state' = Charged(state) /\ disk' = disk
     \/ /\ ~Full(state) /\ Slipped(pending[m].level, v)
        /\ state' = Reverted(state) /\ disk' = state'
     \/ /\ ~Full(state) /\ ~Slipped(pending[m].level, v)
        /\ state' = [Charged(state) EXCEPT !.positions[m] = v] /\ disk' = state'
  /\ aged' = aged

StopsOf(S) == {m \in S : pending[m].reason \in Abandons}

SellLands(m) ==
  /\ pending[m].type = "sell"
  /\ state' = Closed(state, {m} \cap Held(state), StopsOf({m}) \cap Held(state))
  /\ disk' = IF m \in Held(state) THEN state' ELSE disk
  /\ aged' = aged \ {m}

\* Mutant: an entry fills at the poll that decides it.
FilledAtOnce(m) ==
  /\ pending[m] = NoOrder
  /\ ~Full(state) /\ m \notin Held(state) /\ trackers[m] >= EntryMin
  /\ state' = [Charged(state) EXCEPT !.positions[m] = trackers[m]]
  /\ disk' = state' /\ aged' = aged

NothingPending(m) ==
  /\ pending[m] = NoOrder
  /\ UNCHANGED <<state, disk, aged>>

\* Mutant: no upper end of the entry band.
MayEnterAnywhere(m, v) ==
  /\ ~kill
  /\ state'.positions[m] = None
  /\ Cardinality(Held(state')) < MaxConcurrent
  /\ EntryMin <= v
  /\ orders < MaxOrders

\* The gates of _maybe_enter.  Age, creator, hour, velocity, concentration and
\* the brain may refuse any token that passes these.
MayEnter(m, v) ==
  /\ ~kill
  /\ state'.positions[m] = None
  /\ Cardinality(Held(state')) < MaxConcurrent
  /\ EntryMin <= v /\ v < EntryMax
  /\ orders < MaxOrders

\* Mutant: the order is read, not popped.
DecideKeepingOrder(m, v) ==
  \/ /\ state'.positions[m] # None
     /\ pending' = [pending EXCEPT ![m] = IF v >= Exit THEN Sell("pre_grad_exit") ELSE NoOrder]
     /\ orders' = orders
  \/ /\ state'.positions[m] = None
     /\ pending' = pending
     /\ orders' = orders
  \/ /\ MayEnter(m, v)
     /\ pending' = [pending EXCEPT ![m] = Buy(v)]
     /\ orders' = orders + 1

\* What poll_one does after _execute_pending popped the order.
Decide(m, v) ==
  \/ /\ state'.positions[m] # None
     /\ pending' = [pending EXCEPT ![m] = IF v >= Exit THEN Sell("pre_grad_exit") ELSE NoOrder]
     /\ orders' = orders
  \/ /\ state'.positions[m] = None
     /\ pending' = [pending EXCEPT ![m] = NoOrder]
     /\ orders' = orders
  \/ /\ MayEnter(m, v)
     /\ pending' = [pending EXCEPT ![m] = Buy(v)]
     /\ orders' = orders + 1

PollAnswers(m, v) ==
  /\ up /\ poll[m] # "idle"
  /\ poll' = [poll EXCEPT ![m] = "idle"]
  /\ trackers' = IF poll[m] = "live" THEN [trackers EXCEPT ![m] = v] ELSE trackers
  /\ quiet' = IF poll[m] = "live" /\ v # trackers[m] THEN quiet \ {m} ELSE quiet
  /\ BuyLands(m, v) \/ SellLands(m) \/ NothingPending(m)
  /\ Decide(m, v)
  /\ overdue' = overdue \ {m}
  /\ UNCHANGED <<up, kill, crashes>>

-----------------------------------------------------------------------------
(* _on_migration, from a poll that says "complete" or from the websocket   *)

\* The state after the pending buy was reverted and the position closed.
AfterMigration(m) ==
  LET s == IF pending[m].type = "buy" THEN Reverted(state) ELSE state
  IN  Closed(s, {m} \cap Held(s), {})

OnMigration(m) ==
  /\ up
  /\ state' = [AfterMigration(m) EXCEPT !.stops = @ \ {m}]
  /\ disk' = IF state' # state THEN state' ELSE disk
  /\ trackers' = [trackers EXCEPT ![m] = None]
  /\ pending' = [pending EXCEPT ![m] = NoOrder]
  /\ aged' = aged \ {m} /\ overdue' = overdue \ {m} /\ quiet' = quiet \ {m}
  /\ UNCHANGED <<up, kill, orders, crashes>>

PollMigrated(m) ==
  /\ poll[m] # "idle"
  /\ OnMigration(m)
  /\ poll' = [poll EXCEPT ![m] = "idle"]

WebsocketMigrated(m) ==
  /\ m \in Tracked \cup Held(state) \cup state.stops
  /\ OnMigration(m)
  /\ poll' = DropTracker({m})

-----------------------------------------------------------------------------
(* manage_loop                                                             *)

Dropped(m) == trackers[m] # None /\ state.positions[m] - trackers[m] >= Disaster

\* _place_sell does not replace a sell that is already pending.
Placed == [m \in Mints |->
  IF m \in Held(state) /\ pending[m].type # "sell" /\ (Dropped(m) \/ m \in aged)
    THEN Sell(IF Dropped(m) THEN "disaster_stop" ELSE "timeout")
    ELSE pending[m]]

\* Mutant: no backstop, as before it was written.
NoOrphans == {}

\* Sells that no poll has filled in time, closed here.
Orphans == {m \in overdue \cap Held(state) : pending[m].type = "sell"}

\* Mutant: a tracker whose curve is never reported is kept.
KeepsSilent(m, s) == m \notin Held(s) /\ trackers[m] < ColdZone

\* A tracker without a position that is cold, or has not changed for long.
Droppable(m, s) == m \notin Held(s) /\ (trackers[m] < ColdZone \/ m \in quiet)

ManageTick ==
  /\ up /\ ~kill
  /\ \E expired \in SUBSET (state.stops \ StopsOf(Orphans)) :
       LET s == Closed(state, Orphans, StopsOf(Orphans)) IN
       /\ state' = [s EXCEPT !.stops = @ \ expired]
       /\ disk' = IF state' # state THEN state' ELSE disk
  /\ trackers' = [m \in Mints |->
       IF Droppable(m, state') THEN None ELSE trackers[m]]
  /\ poll' = DropTracker({m \in Mints : trackers'[m] = None})
  /\ pending' = [m \in Mints |->
       IF m \in Orphans \/ (Placed[m].type = "buy" /\ trackers'[m] = None)
         THEN NoOrder ELSE Placed[m]]
  /\ aged' = aged \ Orphans
  /\ overdue' = overdue \ Orphans
  /\ quiet' = {m \in quiet : trackers'[m] # None}
  /\ UNCHANGED <<up, kill, orders, crashes>>

\* The tail holder keeps its result in the same dictionary and saves all of it.
TailSaves ==
  /\ up /\ disk # state /\ disk' = state
  /\ UNCHANGED <<up, kill, state, trackers, pending, poll, aged, overdue, quiet, orders, crashes>>

-----------------------------------------------------------------------------
(* Deaths and starts                                                       *)

\* The process is gone and the file holds d, which the next start will load.
Die(d) ==
  /\ up
  /\ up' = FALSE
  /\ disk' = d /\ state' = d
  /\ trackers' = [m \in Mints |-> None]
  /\ pending' = [m \in Mints |-> NoOrder]
  /\ poll' = [m \in Mints |-> "idle"]
  /\ aged' = aged \cap Held(d)
  /\ overdue' = {} /\ quiet' = {}
  /\ UNCHANGED <<kill, orders>>

\* The kill switch: every position is closed, then SystemExit.
KillTick ==
  /\ kill
  /\ Die(Closed(state, Held(state), {}))
  /\ crashes' = crashes

ManageLoop == ManageTick \/ KillTick

Crashing == crashes < MaxCrashes /\ crashes' = crashes + 1

\* At an await, or before the first save of a handler.
Crash == Crashing /\ Die(disk)

\* Between two of the saves of a manage tick: some positions are closed.
CrashInTick ==
  /\ Crashing
  /\ \E S \in SUBSET (IF kill THEN Held(state) ELSE Orphans) :
       S # {} /\ Die(Closed(state, S, IF kill THEN {} ELSE StopsOf(S)))

\* After the close or the revert, before recent_stops is saved.
CrashInMigration(m) ==
  /\ Crashing
  /\ poll[m] # "idle" \/ m \in Tracked \cup Held(state) \cup state.stops
  /\ m \in state.stops /\ AfterMigration(m) # state
  /\ Die(AfterMigration(m))

\* The watchdog restarts the process; main refuses while the kill file exists.
Restart ==
  /\ ~up /\ ~kill
  /\ up' = TRUE
  /\ UNCHANGED <<kill, state, disk, trackers, pending, poll, aged, overdue, quiet, orders, crashes>>

-----------------------------------------------------------------------------
(* The operator and the clock                                              *)

Operator ==
  /\ kill' = ~kill
  /\ UNCHANGED <<up, state, disk, trackers, pending, poll, aged, overdue, quiet, orders, crashes>>

Age(m) ==
  /\ m \in Held(state) \ aged
  /\ aged' = aged \cup {m}
  /\ UNCHANGED <<up, kill, state, disk, trackers, pending, poll, overdue, quiet, orders, crashes>>

Delay(m) ==
  /\ pending[m].type = "sell" /\ m \notin overdue
  /\ overdue' = overdue \cup {m}
  /\ UNCHANGED <<up, kill, state, disk, trackers, pending, poll, aged, quiet, orders, crashes>>

Quiet(m) ==
  /\ m \in Tracked \ quiet
  /\ quiet' = quiet \cup {m}
  /\ UNCHANGED <<up, kill, state, disk, trackers, pending, poll, aged, overdue, orders, crashes>>

Next ==
  \/ \E m \in Mints, v \in Levels : Discover(m, v) \/ Evict(m, v) \/ PollAnswers(m, v)
  \/ PollRound
  \/ \E m \in Mints : PollFails(m) \/ PollMigrated(m) \/ WebsocketMigrated(m)
  \/ ManageTick \/ KillTick \/ TailSaves
  \/ Crash \/ CrashInTick \/ (\E m \in Mints : CrashInMigration(m)) \/ Restart
  \/ Operator
  \/ \E m \in Mints : Age(m) \/ Delay(m) \/ Quiet(m)

Spec == Init /\ [][Next]_vars

PollEnds(m) == PollFails(m) \/ PollMigrated(m) \/ \E v \in Levels : PollAnswers(m, v)

\* The loops keep going (each await in them has a timeout), the watchdog
\* restarts a dead process, and time passes.  A tracker goes quiet unless its
\* curve keeps being reported.
Fairness ==
  /\ WF_vars(PollRound) /\ WF_vars(ManageLoop) /\ WF_vars(Restart)
  /\ \A m \in Mints :
       /\ WF_vars(PollEnds(m))
       /\ WF_vars(Age(m)) /\ WF_vars(Delay(m))
       /\ WF_vars(Quiet(m) \/ \E v \in Levels : PollAnswers(m, v))

FairSpec == Spec /\ Fairness

-----------------------------------------------------------------------------
(* Properties                                                              *)

\* Every variable has its type; times are kept only of what exists.
TypeOK ==
  /\ up \in BOOLEAN /\ kill \in BOOLEAN
  /\ state \in State /\ disk \in State
  /\ trackers \in [Mints -> Levels \cup {None}]
  /\ pending \in [Mints -> Orders]
  /\ poll \in [Mints -> {"idle", "live", "stale"}]
  /\ aged \subseteq Held(state)
  /\ overdue \subseteq {m \in Mints : pending[m].type = "sell"}
  /\ quiet \subseteq Tracked
  /\ orders \in 0..MaxOrders /\ crashes \in 0..MaxCrashes

\* However many buys are in flight when a slot opens, MAX_CONCURRENT holds in
\* memory and in the file (_execute_pending).
SlotLimit ==
  Cardinality(Held(state)) <= MaxConcurrent /\ Cardinality(Held(disk)) <= MaxConcurrent

\* Pending orders agree with the book: no buy of what is held, no sell of
\* what is not (_maybe_enter, _place_sell, _close).
OrdersMatch ==
  \A m \in Mints : /\ pending[m].type = "buy" => m \notin Held(state)
                   /\ pending[m].type = "sell" => m \in Held(state)

\* The balance never bears a fee that was not charged: fees taken off it, and
\* the one every open position will take off, were all charged (_charge_fee).
NoPhantomFee ==
  /\ state.debits + Cardinality(Held(state)) <= state.fees
  /\ disk.debits + Cardinality(Held(disk)) <= disk.fees

\* The file is the memory, fees of buys that found no slot excepted: a death
\* loses no position, no debit and no watched stop (_save_state).
Durable ==
  /\ disk.positions = state.positions /\ disk.debits = state.debits
  /\ disk.stops = state.stops /\ disk.fees <= state.fees

\* A buy that is reverted or finds no slot is not decided again in the same
\* poll: a price that moved beyond the slippage bound has left the entry band.
NoInstantRetry ==
  [][orders' > orders
       => \E m \in Mints : pending[m].type # "buy" /\ pending'[m].type = "buy"]_vars

\* Each mint goes through the life of an order, within the slots.
stage == [m \in Mints |->
  IF m \in Held(state) THEN IF pending[m].type = "sell" THEN "selling" ELSE "held"
                       ELSE IF pending[m].type = "buy" THEN "buying" ELSE "idle"]

Lifecycle == INSTANCE OrderLifecycle WITH Slots <- MaxConcurrent

LifecycleSpec == Lifecycle!Spec

\* Every position closes, though polls of its mint may fail for ever, unless
\* the sniper is dead and the kill file keeps it so (the orphaned-sell
\* backstop of manage_loop).
PositionsClose ==
  \A m \in Mints : m \in Held(state) ~> m \notin Held(state) \/ (~up /\ kill)

\* Every pending buy is filled, refused or pruned; one can stay only while its
\* mint is evicted and found again for ever, between the polls and the ticks.
BuysEnd ==
  \A m \in Mints : <>[](pending[m].type = "buy")
                    => []<>(m \in Tracked) /\ []<>(m \notin Tracked)

\* The comment at _execute_pending: a submitted buy pays its fee, filled or
\* reverted.  What was charged is then off the balance or borne by a position.
FeesReachBalance == state.fees = state.debits + Cardinality(Held(state))
=============================================================================
