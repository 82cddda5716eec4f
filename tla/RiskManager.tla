--------------------------- MODULE RiskManager ---------------------------
(***************************************************************************)
(* The live-mode risk engine: the position book of risk/manager.py, the    *)
(* trade loop of main.py that fills it, the monitor loop that empties it,  *)
(* and the dashboard handlers that reach into it.                          *)
(*                                                                         *)
(* All of it runs on one asyncio event loop, so a stretch of code without  *)
(* an await is one atomic step and every await is a point where any other  *)
(* task may run.  An action below is such a stretch: it starts where an    *)
(* awaited call returns and ends where the next one is issued.             *)
(*                                                                         *)
(* A Position is a Python object: a task that holds one across an await    *)
(* keeps it even when the book has dropped or replaced it meanwhile.  So   *)
(* objects have identities (Objs), the book maps a mint to an object, and  *)
(* the tasks hold object identities.                                       *)
(*                                                                         *)
(* SOL amounts are naturals in a unit finer than the 4 decimals that       *)
(* calculate_position_size rounds to; Tick is 1e-4 SOL in that unit.       *)
(***************************************************************************)
EXTENDS Integers, FiniteSets, FiniteSetsExt, Sequences, Sums

CONSTANTS
  Mints,                \* token mints the scorer may send to the trade loop
  NoMint,
  Symbols,              \* ticker symbols
  SymbolOf,             \* the symbol of each mint; several mints may share one
  Monitor,              \* the monitor loop, as the owner of a force-sell
  Clicks,               \* force-sell tasks the dashboard can have in flight
  MaxOpenPositions,     \* config.MAX_OPEN_POSITIONS
  MaxTotalExposure,     \* config.MAX_TOTAL_EXPOSURE_SOL
  SymbolCap,            \* _symbol_cap_sol(): a share of the starting capital
  MinViable,            \* least size worth a trade
  Tick,                 \* the rounding step of a position size
  BaseSizes,            \* sizes that balance, win rate and hard cap may give
  BoughtTokens,         \* tokens one buy delivers
  TakeProfit,           \* sell_pct of each TAKE_PROFIT_LEVELS entry, in order
  MaxForceSellAttempts, \* MAX_FORCE_SELL_ATTEMPTS
  MaxBuys,              \* bound: positions ever opened
  MaxCrashes            \* bound: process deaths

ASSUME MintsAssumption == IsFiniteSet(Mints) /\ NoMint \notin Mints
ASSUME SymbolsAssumption == SymbolOf \in [Mints -> Symbols]
ASSUME SellersAssumption == Monitor \notin Clicks
ASSUME AmountsAssumption ==
  /\ MaxTotalExposure \in Nat /\ SymbolCap \in Nat
  /\ MinViable \in Nat \ {0} /\ Tick \in Nat \ {0}
  /\ BaseSizes \subseteq Nat /\ BoughtTokens \in Nat \ {0}
ASSUME LimitsAssumption ==
  /\ MaxOpenPositions \in Nat /\ MaxForceSellAttempts \in Nat \ {0}
  /\ MaxBuys \in Nat /\ MaxCrashes \in Nat
ASSUME LadderAssumption == TakeProfit \in Seq(1..100)

Objs    == 1..MaxBuys
Levels  == 1..Len(TakeProfit)
Sellers == Clicks \cup {Monitor}
None    == 0            \* no object, no level

Position == [mint : Mints \cup {NoMint}, sol : Nat, tok : Nat, tp : SUBSET Levels, att : Nat]

\* What an object field holds before the object is created.
Blank == [mint |-> NoMint, sol |-> 0, tok |-> 0, tp |-> {}, att |-> 0]

NoRow == [obj |-> None, rec |-> Blank]

VARIABLES
  up,         \* the process is alive
  estop,      \* emergency_stop_active
  fsell,      \* emergency_force_sell
  positions,  \* the book: mint -> object, None if the mint is not a key
  pos,        \* the Position objects
  nobj,       \* objects created so far
  deployed,   \* _symbol_deployed
  rows,       \* open_positions.json: mint -> row
  dDeployed,  \* symbol_deployed.json
  dStop,      \* risk_state.json, emergency_stop_active
  dSell,      \* risk_state.json, emergency_force_sell
  buy,        \* the trade loop
  mon,        \* the monitor loop
  sell,       \* _force_sell, one slot per task that may be inside it
  spent,      \* history: SOL each object cost
  recorded,   \* history: cost basis written to closed_trades per object
  lateBuys,   \* history: buys submitted since the emergency stop was set
  crashes     \* history and bound: deaths, and per symbol the torn openings

memVars  == <<positions, pos, nobj, deployed>>
flagVars == <<estop, fsell>>
diskVars == <<rows, dDeployed, dStop, dSell>>
taskVars == <<buy, mon, sell>>
histVars == <<spent, recorded, lateBuys>>
vars == <<up, memVars, flagVars, diskVars, taskVars, histVars, crashes>>

---------------------------------------------------------------------------
(* The book and its image on disk *)

Open == {m \in Mints : positions[m] # None}

\* The cost basis of each mint, over the book p and the objects q.
Basis(p, q) == [m \in Mints |-> IF p[m] = None THEN 0 ELSE q[p[m]].sol]

Exposure == SumOver(Basis(positions, pos), Mints)

\* Mutant: the row is written without force_sell_attempts.
SnapshotWithoutAttempts(p, q) ==
  [m \in Mints |-> IF p[m] = None THEN NoRow
                   ELSE [obj |-> p[m], rec |-> [q[p[m]] EXCEPT !.att = 0]]]

\* _save_open_positions over the book p and the objects q.
Snapshot(p, q) ==
  [m \in Mints |-> IF p[m] = None THEN NoRow ELSE [obj |-> p[m], rec |-> q[p[m]]]]

Drop(p, m) == [p EXCEPT ![m] = None]

\* round(size, 4) on binary floats: a nearest multiple, either one on a tie.
RoundedTo(x) ==
  {r \in 0..(x + Tick) : r % Tick = 0 /\ 2 * (r - x) <= Tick /\ 2 * (x - r) <= Tick}

BuyIdle  == [pc |-> "idle", mint |-> NoMint, expo |-> 0, amt |-> 0]
SellIdle == [pc |-> "idle", mint |-> NoMint, obj |-> None]
MonIdle  == [pc |-> "idle", todo |-> {}, mint |-> NoMint,
             obj |-> None, lvl |-> None, reach |-> None]

Init ==
  /\ up = TRUE /\ estop = FALSE /\ fsell = FALSE
  /\ positions = [m \in Mints |-> None]
  /\ pos = [o \in Objs |-> Blank]
  /\ nobj = 0
  /\ deployed = [s \in Symbols |-> 0]
  /\ rows = [m \in Mints |-> NoRow]
  /\ dDeployed = [s \in Symbols |-> 0]
  /\ dStop = FALSE /\ dSell = FALSE
  /\ buy = BuyIdle /\ mon = MonIdle
  /\ sell = [t \in Sellers |-> SellIdle]
  /\ spent = [o \in Objs |-> 0] /\ recorded = [o \in Objs |-> 0]
  /\ lateBuys = 0 /\ crashes = [count |-> 0, torn |-> [s \in Symbols |-> 0]]

---------------------------------------------------------------------------
(* The trade loop: one token at a time, from the queue to the book.  The   *)
(* queue may hold the same mint twice, because PumpFunMonitor and          *)
(* TrendingScanner remember what they have seen separately.                *)

\* Mutant: the loop does not look at the emergency flag.
TakeTokenAlways(m) ==
  /\ up /\ buy.pc = "idle" /\ nobj < MaxBuys
  /\ buy' = [BuyIdle EXCEPT !.pc = "pausing", !.mint = m]
  /\ UNCHANGED <<up, memVars, flagVars, diskVars, mon, sell, histVars, crashes>>

\* A token is taken; nothing is awaited between the loop's own look at the
\* emergency flag, the one in calculate_position_size and _is_paused.
TakeToken(m) ==
  /\ up /\ buy.pc = "idle" /\ nobj < MaxBuys
  /\ ~estop
  /\ buy' = [BuyIdle EXCEPT !.pc = "pausing", !.mint = m]
  /\ UNCHANGED <<up, memVars, flagVars, diskVars, mon, sell, histVars, crashes>>

\* Mutant: the position count may reach the maximum plus one.
WithinLimitsOffByOne(m) ==
  /\ Cardinality(Open) <= MaxOpenPositions
  /\ deployed[SymbolOf[m]] <= SymbolCap
  /\ Exposure < MaxTotalExposure

\* The limits calculate_position_size looks at before it reads the balance.
WithinLimits(m) ==
  /\ Cardinality(Open) < MaxOpenPositions
  /\ deployed[SymbolOf[m]] <= SymbolCap
  /\ Exposure < MaxTotalExposure

\* _is_paused has answered "no" and the limits hold: the exposure is summed
\* now and used after the balance has been fetched.
AdmitBuy ==
  /\ up /\ buy.pc = "pausing"
  /\ WithinLimits(buy.mint)
  /\ buy' = [buy EXCEPT !.pc = "sizing", !.expo = Exposure]
  /\ UNCHANGED <<up, memVars, flagVars, diskVars, mon, sell, histVars, crashes>>

\* A circuit breaker answered "yes", which it may at any time, or a limit is
\* reached.
RejectBuy ==
  /\ up /\ buy.pc = "pausing"
  /\ buy' = BuyIdle
  /\ UNCHANGED <<up, memVars, flagVars, diskVars, mon, sell, histVars, crashes>>

\* Mutant: the exposure is not looked at.
SizeIgnoringExposure(base, expo, s) == Min({base, Max({0, SymbolCap - deployed[s]})})

\* The size before rounding: clipped to the exposure left when it was summed
\* and to what the symbol has left now.
SizeOf(base, expo, s) ==
  Min({base, MaxTotalExposure - expo, Max({0, SymbolCap - deployed[s]})})

\* The balance is known, the size is fixed and executor.buy is called.
SubmitBuy ==
  /\ up /\ buy.pc = "sizing"
  /\ \E base \in BaseSizes :
       LET size == SizeOf(base, buy.expo, SymbolOf[buy.mint]) IN
       \/ /\ size >= MinViable
          /\ \E amt \in RoundedTo(size) :
               buy' = [buy EXCEPT !.pc = "buying", !.expo = 0, !.amt = amt]
          /\ lateBuys' = IF estop THEN lateBuys + 1 ELSE lateBuys
       \/ /\ size < MinViable
          /\ buy' = BuyIdle
          /\ UNCHANGED lateBuys
  /\ UNCHANGED <<up, memVars, flagVars, diskVars, mon, sell, spent, recorded, crashes>>

\* executor.buy reports failure: nothing was sent, the transaction failed, or
\* it was not confirmed in time and may have landed all the same.
BuyFails ==
  /\ up /\ buy.pc = "buying"
  /\ buy' = BuyIdle
  /\ UNCHANGED <<up, memVars, flagVars, diskVars, mon, sell, histVars, crashes>>

\* PumpPortal confirms the buy without a token count: ask the chain for it.
BuyNeedsResolving ==
  /\ up /\ buy.pc = "buying"
  /\ buy' = [buy EXCEPT !.pc = "resolving"]
  /\ UNCHANGED <<up, memVars, flagVars, diskVars, mon, sell, histVars, crashes>>

\* Neither the receipt nor the wallet gave a count: "tokens_unresolved".
ResolveFails ==
  /\ up /\ buy.pc = "resolving"
  /\ buy' = BuyIdle
  /\ UNCHANGED <<up, memVars, flagVars, diskVars, mon, sell, histVars, crashes>>

\* open_position up to its first save: a new object replaces whatever the book
\* holds for the mint.
AddToBook ==
  LET o == nobj + 1
      q == [pos EXCEPT ![o] = [mint |-> buy.mint, sol |-> buy.amt, tok |-> BoughtTokens,
                               tp |-> {}, att |-> 0]]
  IN  /\ pos' = q /\ nobj' = o
      /\ spent' = [spent EXCEPT ![o] = buy.amt]
      /\ rows' = Snapshot([positions EXCEPT ![buy.mint] = o], q)

\* All of it: the symbol's total is raised and saved as well.
OpenPosition ==
  /\ AddToBook
  /\ positions' = [positions EXCEPT ![buy.mint] = nobj + 1]
  /\ deployed' = [deployed EXCEPT ![SymbolOf[buy.mint]] = @ + buy.amt]
  /\ dDeployed' = deployed'
  /\ buy' = BuyIdle

\* Jupiter confirms the buy with its token count.
BuyConfirmed ==
  /\ up /\ buy.pc = "buying"
  /\ OpenPosition
  /\ UNCHANGED <<up, flagVars, dStop, dSell, mon, sell, recorded, lateBuys, crashes>>

\* The count arrives.
BuyResolved ==
  /\ up /\ buy.pc = "resolving"
  /\ OpenPosition
  /\ UNCHANGED <<up, flagVars, dStop, dSell, mon, sell, recorded, lateBuys, crashes>>

TradeLoop ==
  \/ AdmitBuy \/ RejectBuy \/ SubmitBuy
  \/ BuyFails \/ BuyNeedsResolving \/ ResolveFails \/ BuyConfirmed \/ BuyResolved

---------------------------------------------------------------------------
(* _force_sell, run by the monitor loop or by a dashboard task             *)

Sellable(m, q) == positions[m] # None /\ q[positions[m]].tok > 0

\* Its first stretch, over the objects q: a position without tokens leaves
\* the book (the book is not saved), any other is sold.
BeginForceSell(t, m, q) ==
  \/ /\ Sellable(m, q)
     /\ sell' = [sell EXCEPT ![t] = [pc |-> "selling", mint |-> m, obj |-> positions[m]]]
     /\ UNCHANGED positions
  \/ /\ ~Sellable(m, q)
     /\ sell' = [sell EXCEPT ![t] = SellIdle]
     /\ positions' = Drop(positions, m)

\* Mutant: a failed attempt is not counted.
Uncounted(r) == r

AfterFailure(r) == [r EXCEPT !.att = @ + 1]

\* The sell is not successful; it may have landed unconfirmed.  After the
\* last attempt the mint leaves the book, whatever object it maps to by now.
SellFails(t) ==
  /\ up /\ sell[t].pc = "selling"
  /\ LET m == sell[t].mint
         o == sell[t].obj
         q == [pos EXCEPT ![o] = AfterFailure(@)]
         p == IF q[o].att >= MaxForceSellAttempts THEN Drop(positions, m) ELSE positions
     IN  /\ pos' = q /\ positions' = p
         /\ rows' = Snapshot(p, q)
         /\ sell' = [sell EXCEPT ![t] = SellIdle]
  /\ UNCHANGED <<up, nobj, deployed, flagVars, dDeployed, dStop, dSell,
                 buy, mon, histVars, crashes>>

\* The sell is confirmed; the SOL it brought is looked up next.
SellLands(t) ==
  /\ up /\ sell[t].pc = "selling"
  /\ sell' = [sell EXCEPT ![t].pc = "settling"]
  /\ UNCHANGED <<up, memVars, flagVars, diskVars, buy, mon, histVars, crashes>>

\* Mutant: the close records what the position cost, legs or no legs.
CloseAtFullCost(m, q) ==
  LET o == positions[m]
  IN  /\ positions' = Drop(positions, m)
      /\ recorded' = IF o = None THEN recorded ELSE [recorded EXCEPT ![o] = @ + spent[o]]

\* close_position over the objects q, but for its save: the book drops the
\* mint, whatever object it maps to by now, and that object's cost basis is
\* recorded.
ClosePosition(m, q) ==
  LET o == positions[m]
  IN  /\ positions' = Drop(positions, m)
      /\ recorded' = IF o = None THEN recorded ELSE [recorded EXCEPT ![o] = @ + q[o].sol]

\* Mutant: the book is not saved after a close.
SettleUnsaved(t) ==
  /\ up /\ sell[t].pc = "settling"
  /\ ClosePosition(sell[t].mint, pos)
  /\ sell' = [sell EXCEPT ![t] = SellIdle]
  /\ UNCHANGED <<up, pos, nobj, deployed, flagVars, diskVars, buy, mon, spent, lateBuys, crashes>>

\* The book is saved if it still held the mint.
Settle(t) ==
  /\ up /\ sell[t].pc = "settling"
  /\ ClosePosition(sell[t].mint, pos)
  /\ rows' = IF positions[sell[t].mint] = None THEN rows ELSE Snapshot(positions', pos)
  /\ sell' = [sell EXCEPT ![t] = SellIdle]
  /\ UNCHANGED <<up, pos, nobj, deployed, flagVars, dDeployed, dStop, dSell,
                 buy, mon, spent, lateBuys, crashes>>

ForceSell(t) == SellFails(t) \/ SellLands(t) \/ Settle(t)

---------------------------------------------------------------------------
(* The monitor loop: an emergency check, then one check per position       *)

\* "idle" is the sleep between ticks and the balance query that starts one:
\* nothing is read before that query returns.
MonitorFree(pc) == up /\ mon.pc = pc /\ sell[Monitor].pc = "idle"

\* The flag is already set: sell everything once more.
ResumeForceSell ==
  /\ MonitorFree("idle") /\ fsell
  /\ mon' = [mon EXCEPT !.pc = "emergency", !.todo = Open]
  /\ UNCHANGED <<up, memVars, flagVars, diskVars, buy, sell, histVars, crashes>>

\* The drawdown trips: both flags are set and saved, everything is sold.
TripEmergency ==
  /\ MonitorFree("idle") /\ ~fsell
  /\ estop' = TRUE /\ fsell' = TRUE
  /\ dStop' = TRUE /\ dSell' = TRUE
  /\ lateBuys' = IF estop THEN lateBuys ELSE 0
  /\ mon' = [mon EXCEPT !.pc = "emergency", !.todo = Open]
  /\ UNCHANGED <<up, memVars, rows, dDeployed, buy, sell, spent, recorded, crashes>>

NoEmergency ==
  /\ MonitorFree("idle") /\ ~fsell
  /\ mon' = [mon EXCEPT !.pc = "check", !.todo = Open]
  /\ UNCHANGED <<up, memVars, flagVars, diskVars, buy, sell, histVars, crashes>>

EmergencySell(m) ==
  /\ MonitorFree("emergency") /\ m \in mon.todo
  /\ mon' = [mon EXCEPT !.todo = @ \ {m}]
  /\ BeginForceSell(Monitor, m, pos)
  /\ UNCHANGED <<up, pos, nobj, deployed, flagVars, diskVars, buy, histVars, crashes>>

\* The emergency pass is over and the checks follow in the same tick.
EmergencyDone ==
  /\ MonitorFree("emergency") /\ mon.todo = {}
  /\ mon' = [mon EXCEPT !.pc = "check", !.todo = Open]
  /\ UNCHANGED <<up, memVars, flagVars, diskVars, buy, sell, histVars, crashes>>

ChecksDone ==
  /\ MonitorFree("check") /\ mon.todo = {}
  /\ mon' = MonIdle
  /\ UNCHANGED <<up, memVars, flagVars, diskVars, buy, sell, histVars, crashes>>

\* The mint was closed since the tick listed it.
CheckMissing(m) ==
  /\ MonitorFree("check") /\ m \in mon.todo /\ positions[m] = None
  /\ mon' = [mon EXCEPT !.todo = @ \ {m}]
  /\ UNCHANGED <<up, memVars, flagVars, diskVars, buy, sell, histVars, crashes>>

\* Early rug, stop loss, panic stop or trailing stop: a price may do any of
\* them at any time.
CheckStops(m) ==
  /\ MonitorFree("check") /\ m \in mon.todo /\ positions[m] # None
  /\ mon' = [mon EXCEPT !.todo = @ \ {m}]
  /\ BeginForceSell(Monitor, m, pos)
  /\ UNCHANGED <<up, pos, nobj, deployed, flagVars, diskVars, buy, histVars, crashes>>

\* The take-profit levels from level "from" on that the price has reached, that
\* the object r has not taken and that it can sell.  The levels reached are a
\* prefix of the ladder: gains ascend.
Due(r, from, reach) == {l \in from..reach : l \notin r.tp /\ r.tok > 0}

\* The rest of _check_position for mint m and object o from level "from" on,
\* over the objects q: the first leg that is due is sold; without one, the late
\* exits (no movement, momentum stall, time) sell everything or nothing.
ContinueCheck(m, o, from, reach, todo, q) ==
  LET due == Due(q[o], from, reach) IN
  \/ \E l \in due :
       /\ \A k \in due : l <= k
       /\ mon' = [pc |-> "leg", todo |-> todo, mint |-> m, obj |-> o,
                  lvl |-> l, reach |-> reach]
       /\ UNCHANGED <<positions, sell>>
  \/ /\ due = {}
     /\ mon' = [MonIdle EXCEPT !.pc = "check", !.todo = todo]
     /\ UNCHANGED <<positions, sell>> \/ BeginForceSell(Monitor, m, q)

CheckLadder(m) ==
  /\ MonitorFree("check") /\ m \in mon.todo /\ positions[m] # None
  /\ \E reach \in 0..Len(TakeProfit) :
       ContinueCheck(m, positions[m], 1, reach, mon.todo \ {m}, pos)
  /\ UNCHANGED <<up, pos, nobj, deployed, flagVars, diskVars, buy, histVars, crashes>>

\* int(amount * (1 - sell_pct / 100))
Keep(amount, l) == (amount * (100 - TakeProfit[l])) \div 100

\* The leg is not successful: it is retried on the next tick, and the ladder
\* goes on with the next level.
LegFails ==
  /\ up /\ mon.pc = "leg"
  /\ ContinueCheck(mon.mint, mon.obj, mon.lvl + 1, mon.reach, mon.todo, pos)
  /\ UNCHANGED <<up, pos, nobj, deployed, flagVars, diskVars, buy, histVars, crashes>>

\* Mutant: the percentage is taken off the cost basis as if it were SOL.
LegInPercent(r, l) ==
  [r EXCEPT !.tok = Keep(r.tok, l), !.sol = r.sol - TakeProfit[l], !.tp = r.tp \cup {l}]

\* The object after leg l.
AfterLeg(r, l) ==
  [r EXCEPT !.tok = Keep(r.tok, l), !.sol = Keep(r.sol, l), !.tp = r.tp \cup {l}]

\* A leg that leaves tokens: its share of the cost basis is recorded, the
\* object shrinks, the book is saved and the ladder goes on.
PartialLeg ==
  LET o == mon.obj
      r == AfterLeg(pos[o], mon.lvl)
      q == [pos EXCEPT ![o] = r]
  IN  /\ up /\ mon.pc = "leg"
      /\ r.tok > 0
      /\ recorded' = [recorded EXCEPT ![o] = @ + (pos[o].sol - r.sol)]
      /\ pos' = q
      /\ rows' = Snapshot(positions, q)
      /\ ContinueCheck(mon.mint, o, mon.lvl + 1, mon.reach, mon.todo, q)
      /\ UNCHANGED <<up, nobj, deployed, flagVars, dDeployed, dStop, dSell,
                     buy, spent, lateBuys, crashes>>

\* A leg that leaves none: the object shrinks, the book is saved, and the
\* mint's position is closed, which saves the book again.
FinalLeg ==
  LET o == mon.obj
      r == AfterLeg(pos[o], mon.lvl)
      q == [pos EXCEPT ![o] = r]
  IN  /\ up /\ mon.pc = "leg"
      /\ r.tok = 0
      /\ pos' = q
      /\ ClosePosition(mon.mint, q)
      /\ rows' = Snapshot(positions', q)
      /\ mon' = [MonIdle EXCEPT !.pc = "check", !.todo = mon.todo]
      /\ UNCHANGED <<up, nobj, deployed, flagVars, dDeployed, dStop, dSell,
                     buy, sell, spent, lateBuys, crashes>>

MonitorLoop ==
  \/ ResumeForceSell \/ TripEmergency \/ NoEmergency
  \/ EmergencyDone \/ ChecksDone \/ LegFails \/ PartialLeg \/ FinalLeg
  \/ \E m \in Mints : EmergencySell(m) \/ CheckMissing(m) \/ CheckStops(m) \/ CheckLadder(m)

---------------------------------------------------------------------------
(* The dashboard: logger/web_server.py, same event loop                    *)

\* Mutant: the flag is set but not saved.
WebStopUnsaved ==
  /\ up /\ ~estop
  /\ estop' = TRUE /\ lateBuys' = 0
  /\ UNCHANGED <<up, memVars, fsell, diskVars, taskVars, spent, recorded, crashes>>

WebStop ==
  /\ up /\ ~estop
  /\ estop' = TRUE /\ dStop' = TRUE /\ dSell' = fsell
  /\ lateBuys' = 0
  /\ UNCHANGED <<up, memVars, fsell, rows, dDeployed, taskVars, spent, recorded, crashes>>

WebResume ==
  /\ up /\ estop
  /\ estop' = FALSE /\ fsell' = FALSE /\ dStop' = FALSE /\ dSell' = FALSE
  /\ lateBuys' = 0
  /\ UNCHANGED <<up, memVars, rows, dDeployed, taskVars, spent, recorded, crashes>>

\* api_force_sell found the mint in the book and created the task.  It starts
\* later, when the mint may have left the book: hence no guard on the book.
WebForceSell(c, m) ==
  /\ up /\ sell[c].pc = "idle"
  /\ BeginForceSell(c, m, pos)
  /\ UNCHANGED <<up, pos, nobj, deployed, flagVars, diskVars, buy, mon, histVars, crashes>>

---------------------------------------------------------------------------
(* Death and restart of the process                                        *)

\* The memory is gone; torn holds the symbol of an opening this death cuts.
Die(torn) ==
  /\ up /\ crashes.count < MaxCrashes
  /\ up' = FALSE
  /\ crashes' = [count |-> crashes.count + 1,
                 torn  |-> [s \in Symbols |-> IF s \in torn THEN crashes.torn[s] + 1
                                                            ELSE crashes.torn[s]]]
  /\ estop' = FALSE /\ fsell' = FALSE
  /\ deployed' = [s \in Symbols |-> 0]
  /\ buy' = BuyIdle /\ mon' = MonIdle /\ sell' = [t \in Sellers |-> SellIdle]
  /\ UNCHANGED <<dStop, dSell, lateBuys>>

\* Between two stretches: the disk is as the last handler left it.
Crash ==
  /\ Die({})
  /\ positions' = [m \in Mints |-> None]
  /\ UNCHANGED <<pos, nobj, rows, dDeployed, spent, recorded>>

\* Between the two files of open_position: the symbol's total is not raised.
CrashInOpen ==
  /\ buy.pc \in {"buying", "resolving"}
  /\ Die({SymbolOf[buy.mint]})
  /\ AddToBook
  /\ positions' = [m \in Mints |-> None]
  /\ UNCHANGED <<dDeployed, recorded>>

\* Between the trade log and the book of a partial leg: the leg is recorded
\* but the row still has its tokens, its cost basis and the level.
CrashInPartialLeg ==
  /\ Die({}) /\ mon.pc = "leg"
  /\ LET r == AfterLeg(pos[mon.obj], mon.lvl)
     IN  /\ r.tok > 0
         /\ recorded' = [recorded EXCEPT ![mon.obj] = @ + (pos[mon.obj].sol - r.sol)]
  /\ positions' = [m \in Mints |-> None]
  /\ UNCHANGED <<pos, nobj, rows, dDeployed, spent>>

\* Between the two saves of a final leg, when the row stays without tokens, or
\* between the second one and the trade log.
CrashInFinalLeg ==
  /\ Die({}) /\ mon.pc = "leg"
  /\ LET r == AfterLeg(pos[mon.obj], mon.lvl)
         q == [pos EXCEPT ![mon.obj] = r]
     IN  /\ r.tok = 0
         /\ pos' = q
         /\ rows' \in {Snapshot(positions, q), Snapshot(Drop(positions, mon.mint), q)}
  /\ positions' = [m \in Mints |-> None]
  /\ UNCHANGED <<nobj, dDeployed, spent, recorded>>

\* Between the two saves of a last force-sell attempt: the row stays, with all
\* its attempts used up.
CrashInAbandon(t) ==
  /\ Die({}) /\ sell[t].pc = "selling"
  /\ LET q == [pos EXCEPT ![sell[t].obj] = AfterFailure(@)]
     IN  /\ q[sell[t].obj].att >= MaxForceSellAttempts
         /\ pos' = q
         /\ rows' = Snapshot(positions, q)
  /\ positions' = [m \in Mints |-> None]
  /\ UNCHANGED <<nobj, dDeployed, spent, recorded>>

\* Between the book and the trade log of close_position: the position is gone
\* and its trade was never recorded.
CrashInClose(t) ==
  /\ Die({}) /\ sell[t].pc = "settling" /\ positions[sell[t].mint] # None
  /\ rows' = Snapshot(Drop(positions, sell[t].mint), pos)
  /\ positions' = [m \in Mints |-> None]
  /\ UNCHANGED <<pos, nobj, dDeployed, spent, recorded>>

\* Mutant: the symbols' totals are not loaded.
RestartWithoutTotals ==
  /\ ~up
  /\ up' = TRUE
  /\ positions' = [m \in Mints |-> rows[m].obj]
  /\ pos' = [o \in Objs |-> LET m == pos[o].mint IN
                 IF m \in Mints /\ rows[m].obj = o THEN rows[m].rec ELSE pos[o]]
  /\ estop' = dStop /\ fsell' = dSell
  /\ UNCHANGED <<nobj, deployed, diskVars, taskVars, histVars, crashes>>

\* initialize(): the book, the symbol totals and the flags come from disk.
Restart ==
  /\ ~up
  /\ up' = TRUE
  /\ positions' = [m \in Mints |-> rows[m].obj]
  /\ pos' = [o \in Objs |-> LET m == pos[o].mint IN
                 IF m \in Mints /\ rows[m].obj = o THEN rows[m].rec ELSE pos[o]]
  /\ deployed' = dDeployed
  /\ estop' = dStop /\ fsell' = dSell
  /\ UNCHANGED <<nobj, diskVars, taskVars, histVars, crashes>>

---------------------------------------------------------------------------

Next ==
  \/ TradeLoop \/ MonitorLoop \/ WebStop \/ WebResume
  \/ \E m \in Mints : TakeToken(m)
  \/ \E t \in Sellers : ForceSell(t) \/ CrashInAbandon(t) \/ CrashInClose(t)
  \/ \E c \in Clicks, m \in Mints : WebForceSell(c, m)
  \/ Crash \/ CrashInOpen \/ CrashInPartialLeg \/ CrashInFinalLeg \/ Restart

Spec == Init /\ [][Next]_vars

\* Both loops run for as long as the process does; every executor call ends
\* (each network call under it has a timeout, each retry loop a count), so the
\* stretch after it runs; a supervisor restarts a dead process.  Nothing is
\* assumed of tokens, the dashboard's operator or deaths.
FairSpec ==
  /\ Spec
  /\ WF_vars(TradeLoop) /\ WF_vars(MonitorLoop) /\ WF_vars(Restart)
  /\ \A t \in Sellers : WF_vars(ForceSell(t))

\* A check of mint m that ends in a late exit.
LateExit(m) ==
  /\ CheckLadder(m) \/ ((LegFails \/ PartialLeg) /\ mon.mint = m)
  /\ sell'[Monitor].pc = "selling"

\* A position only grows older: checked over and over, it is at last past
\* TIME_EXIT_MINUTES, and from then on each of its checks ends in a force-sell.
TimeExits == \A m \in Mints : SF_vars(LateExit(m))

---------------------------------------------------------------------------
(* Correctness *)

FlagTypes ==
  up \in BOOLEAN /\ estop \in BOOLEAN /\ fsell \in BOOLEAN /\ dStop \in BOOLEAN /\ dSell \in BOOLEAN

BookTypes ==
  /\ positions \in [Mints -> 0..MaxBuys] /\ \A m \in Mints : positions[m] <= nobj
  /\ pos \in [Objs -> Position]
  /\ nobj \in 0..MaxBuys
  /\ rows \in [Mints -> [obj : 0..MaxBuys, rec : Position]]

TotalTypes == deployed \in [Symbols -> Nat] /\ dDeployed \in [Symbols -> Nat]

TaskTypes ==
  /\ buy \in [pc : {"idle", "pausing", "sizing", "buying", "resolving"},
              mint : Mints \cup {NoMint}, expo : Nat, amt : Nat]
  /\ mon \in [pc : {"idle", "emergency", "check", "leg"}, todo : SUBSET Mints,
              mint : Mints \cup {NoMint}, obj : 0..MaxBuys, lvl : Nat, reach : Nat]
  /\ sell \in [Sellers -> [pc : {"idle", "selling", "settling"},
                           mint : Mints \cup {NoMint}, obj : 0..MaxBuys]]

HistoryTypes ==
  /\ spent \in [Objs -> Nat] /\ recorded \in [Objs -> Nat]
  /\ lateBuys \in Nat
  /\ crashes \in [count : 0..MaxCrashes, torn : [Symbols -> Nat]]

TypeOK == FlagTypes /\ BookTypes /\ TotalTypes /\ TaskTypes /\ HistoryTypes

\* What a task's program counter says of the rest of its state, and where the
\* objects that tasks, book and disk refer to come from.
Shape ==
  /\ ~up => /\ buy.pc = "idle" /\ mon.pc = "idle"
            /\ \A t \in Sellers : sell[t].pc = "idle"
            /\ Open = {}
  /\ buy.pc # "idle" => buy.mint \in Mints /\ nobj < MaxBuys
  /\ mon.pc = "leg" => mon.mint \in Mints /\ mon.obj \in 1..nobj /\ mon.lvl \in Levels
                       /\ mon.reach \in Levels
  /\ \A t \in Sellers : sell[t].pc # "idle" => sell[t].mint \in Mints /\ sell[t].obj \in 1..nobj
  /\ \A m \in Open : pos[positions[m]].mint = m
  /\ \A m \in Mints : rows[m].obj # None =>
       rows[m].obj \in 1..nobj /\ pos[rows[m].obj].mint = m /\ rows[m].rec.mint = m

\* Never more open positions than MAX_OPEN_POSITIONS.  The count is looked at
\* before two awaits and a buy that takes up to a minute, and every restart
\* refills the book from disk.
PositionCap == Cardinality(Open) <= MaxOpenPositions

\* The capital in open positions stays within MAX_TOTAL_EXPOSURE_SOL, up to
\* half a rounding step: the size is cut to an exposure summed one await
\* earlier and then rounded.
ExposureCap == 2 * Exposure <= 2 * MaxTotalExposure + Tick

\* The SOL put into the positions of symbol s, over all lives of the process.
Given(s) ==
  SumOver([o \in Objs |-> IF o <= nobj /\ SymbolOf[pos[o].mint] = s THEN spent[o] ELSE 0], Objs)

\* The positions a symbol has ever had cost no more than its lifetime cap, up
\* to half a rounding step, through deaths and restarts.  The one exception is
\* a death between the two files of open_position: the symbol's total misses
\* that opening, and the symbol can be given as much once more.
LifetimeCap ==
  \A s \in Symbols : 2 * Given(s) <= (crashes.torn[s] + 1) * (2 * SymbolCap + Tick)

\* The promise of the comments at _symbol_deployed and _load_symbol_deployed:
\* the cap on the SOL ever deployed into a symbol survives restarts.
LifetimeCapSurvives == \A s \in Symbols : 2 * Given(s) <= 2 * SymbolCap + Tick

\* An emergency stop lets at most one buy through: the one the trade loop had
\* admitted before the flag was set.
AtMostOneLateBuy == lateBuys <= 1

\* The emergency flags on disk are the ones in memory, so a crash at any
\* moment resumes in the same emergency; forced selling implies the stop.
EmergencyDurable == up => dStop = estop /\ dSell = fsell /\ (fsell => estop)

\* Every open position is on disk, with the tokens, cost basis, levels and
\* attempts it has in memory: a crash at any moment loses none of them.
BookDurable ==
  up => \A m \in Open : rows[m] = [obj |-> positions[m], rec |-> pos[positions[m]]]

\* Without a crash, the cost basis recorded for a position, over its partial
\* legs and its close, never exceeds what the position cost.
RecordedOnce == crashes.count = 0 => \A o \in Objs : recorded[o] <= spent[o]

\* Once forced selling stays on, the book is eventually empty for good, even
\* if no sell ever succeeds: MAX_FORCE_SELL_ATTEMPTS drops what cannot be sold.
ForcedSellingDrains == <>[]fsell => <>[](Open = {})

\* With the time exit, every position that is opened leaves the book again.
EveryPositionExits == TimeExits =>
  \A o \in Objs : (\E m \in Open : positions[m] = o) ~> (\A m \in Open : positions[m] # o)

---------------------------------------------------------------------------
(* What all of it amounts to: a book that is checked, changed and saved in  *)
(* one step.                                                                *)

\* The rows r as entries: the object is the id, attempts and levels are left
\* out.
Entries(r) ==
  [m \in Mints |-> [id |-> r[m].obj, cost |-> r[m].rec.sol, tokens |-> r[m].rec.tok]]

book == Entries(Snapshot(positions, pos))
file == Entries(rows)

Atomic == INSTANCE AtomicBook WITH given <- deployed, written <- dDeployed, last <- nobj

\* The position limits are looked at before two awaits and a buy that takes up
\* to a minute, and the book is saved in several writes; the positions are
\* nevertheless those of AtomicBook, where the check, the opening and the save
\* are one step.
ImplementsAtomicBook == Atomic!Spec
=============================================================================
