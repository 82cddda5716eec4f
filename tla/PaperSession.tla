---------------------------- MODULE PaperSession ----------------------------
(***************************************************************************)
(* A paper session: the trade loop, the position book and the price        *)
(* monitor of RiskManager on top of the simulated venue, the circuit       *)
(* breakers and the trade log.  In paper mode no call yields, so a buy or  *)
(* a sale runs to its end before another task moves; only a crash can fall *)
(* between its writes.  op holds the call in progress.                     *)
(* Which exit fires when is RiskManager's subject: here any open position  *)
(* may be sold, a leg only above its target.                               *)
(***************************************************************************)
EXTENDS PaperExecutor, CircuitBreakers, TradeLog, Sums

CONSTANTS Prices,            \* quotes the feeds may return
          SpotPrices,        \* prices a token may be bought at
          TakeProfit,        \* TAKE_PROFIT_LEVELS: a sequence of [gain, sell]
          MaxSolPerTrade, MaxPositionPct, MaxExposure, MinTrade,
          HotMult, ColdMult, HardCapMult,   \* percent
          MaxLots,           \* bound: buys per behaviour
          MaxTime,           \* bound: ticks per behaviour
          MaxCrashes,        \* bound: crashes per behaviour
          MaxFaults          \* bound: failed transactions and failed log writes

ASSUME SessionAssumption ==
    /\ Prices \cup SpotPrices \subseteq Nat \ {0}
    /\ {MaxSolPerTrade, MaxPositionPct, MaxExposure, MinTrade, HardCapMult, MaxLots} \subseteq Nat
    /\ HotMult \in Nat /\ ColdMult \in 0..100 /\ 100 <= HotMult
    /\ \A i \in DOMAIN TakeProfit : TakeProfit[i].sell \in 1..99
    /\ MaxPositionPct * HotMult <= 9000   \* a buy leaves room for its fee

VARIABLES book,      \* RiskManager.positions; lot 0: no position
          disk,      \* logs/open_positions.json
          op,        \* the buy or sale in progress
          lots,      \* buys booked so far, to name them
          lastBase,  \* history: the baseline before the last rollover
          crashes, faults

session == <<book, disk, op, lots, lastBase, crashes, faults>>
vars == <<venue, now, breakers, trades, session>>

NoRow == [lot |-> 0, cost |-> 0, tokens |-> 0, entry |-> 0, cur |-> 0,
          hit |-> {}, seen |-> {}, updated |-> FALSE]
Idle == [kind |-> "none"]

Open == {m \in Mints : book[m].lot # 0}

Equity == bal + SumOver([m \in Mints |-> Value(book[m].tokens, book[m].cur)], Mints)
Exposure == SumOver([m \in Mints |-> book[m].cost], Mints)

Multiplier == CASE Temper = "hot" -> HotMult [] Temper = "cold" -> ColdMult [] OTHER -> 100

SizeOf ==
    LET base == LeastOf(MaxSolPerTrade, (bal * MaxPositionPct) \div 100)
        grown == LeastOf((base * Multiplier) \div 100, (MaxSolPerTrade * HardCapMult) \div 100)
    IN LeastOf(grown, MaxExposure - Exposure)

MinViable == LeastOf(MaxSolPerTrade \div 2, MinTrade)

Init ==
    /\ VenueInit /\ BreakerInit /\ LogInit
    /\ book = [m \in Mints |-> NoRow]
    /\ disk = book
    /\ op = Idle
    /\ lots = 0 /\ lastBase = 0 /\ crashes = 0 /\ faults = 0
-----------------------------------------------------------------------------
(* trade_loop takes a token off its queue: the breakers look at the equity *)
(* either way; an admitted buy charges its fee first.                      *)
Admits == ~Paused(Equity) /\ Exposure < MaxExposure /\ SizeOf >= MinViable

LookAtBreakers ==
    /\ Look(Equity)
    /\ lastBase' = IF dayDate' # dayDate THEN dayBase ELSE lastBase

RejectToken ==
    /\ op = Idle /\ ~Admits
    /\ LookAtBreakers
    /\ UNCHANGED <<venue, now, trades, book, disk, op, lots, crashes, faults>>

Buy(m) ==
    /\ op = Idle /\ lots < MaxLots /\ Admits
    /\ LookAtBreakers
    /\ UNCHANGED <<now, trades, book, disk, lots, crashes>>

Fault == faults < MaxFaults /\ faults' = faults + 1

BuyFails(m) ==
    /\ Buy(m)
    /\ Fault
    /\ ChargeFee(BuyFee(SizeOf))
    /\ UNCHANGED op

(* A fill of no tokens gives the fee back.                                 *)
BuyFills(m, p) ==
    /\ Buy(m)
    /\ IF TokensFor(SizeOf, p) > 0
       THEN /\ FillBuy(m, SizeOf, p)
            /\ op' = [kind |-> "buy", mint |-> m, sol |-> SizeOf, at |-> "filled"]
       ELSE /\ bal' = After(bal, BuyFee(SizeOf)) + BuyFee(SizeOf)
            /\ UNCHANGED <<quote, held, op>>
    /\ UNCHANGED faults

OpenPosition ==
    /\ op.kind = "buy"
    /\ LET m == op.mint
           entry == (op.sol * 100) \div held[m]
       IN book' = [book EXCEPT ![m] = [NoRow EXCEPT !.lot = lots + 1, !.cost = op.sol,
                       !.tokens = held[m], !.entry = entry, !.cur = entry]]
    /\ disk' = book'
    /\ lots' = lots + 1
    /\ op' = Idle
    /\ UNCHANGED <<venue, now, breakers, trades, lastBase, crashes, faults>>
-----------------------------------------------------------------------------
(* A sale: a take-profit leg of the ladder, or everything.                 *)
Levels == DOMAIN TakeProfit

Everything == 0   \* the level of a sale of the whole position

Pct(level) == IF level = Everything THEN 100 ELSE TakeProfit[level].sell

MaySell(m, level) ==
    /\ op = Idle
    /\ book[m].lot # 0 /\ book[m].tokens > 0
    /\ level \in Levels =>
           /\ level \notin book[m].hit
           /\ (book[m].cur - book[m].entry) * 100
                 >= TakeProfit[level].gain * book[m].entry

FeeOfSale(m, level) == SellFee(Value(Resolve(m, Pct(level)), quote[m]))

SellFails(m, level) ==
    /\ MaySell(m, level)
    /\ Fault
    /\ ChargeFee(FeeOfSale(m, level))
    /\ UNCHANGED <<now, breakers, trades, book, disk, op, lots, lastBase, crashes>>

(* What a leg leaves of a position, rounded down as int() does.            *)
Left(i, amount) == (amount * (100 - TakeProfit[i].sell)) \div 100

Empties(m, level) == level = Everything \/ Left(level, book[m].tokens) = 0

(* The basis the sale is booked against: the whole of what is left, of     *)
(* which a leg that empties the position first takes its own share.        *)
Basis(m, level) ==
    LET cost == book[m].cost
    IN IF level = Everything THEN cost
       ELSE IF Empties(m, level) THEN Left(level, cost)
       ELSE cost - Left(level, cost)

(* A sale without a quote or without tokens succeeds for nothing.          *)
SellFills(m, level, stampede) ==
    /\ MaySell(m, level)
    /\ level \in Levels => ~stampede
    /\ LET tokens == Resolve(m, Pct(level))
       IN \E p \in FillPrices(m, stampede, book[m].seen) :
            LET got == IF quote[m] <= 0 \/ tokens <= 0 THEN 0
                       ELSE Proceeds(tokens, p, IF stampede THEN StampedeMult ELSE 1)
            IN /\ FillSell(m, tokens, FeeOfSale(m, level), got)
               /\ op' = [kind |-> "sell", mint |-> m, level |-> level, at |-> "sold",
                         record |-> [lot |-> book[m].lot, final |-> Empties(m, level),
                                     won |-> got > Basis(m, level), at |-> now]]
    /\ UNCHANGED <<now, breakers, trades, book, disk, lots, lastBase, crashes, faults>>

Selling(at) == op.kind = "sell" /\ op.at = at

(* A leg that leaves no tokens is saved before the position is closed.     *)
EmptyByLeg ==
    /\ Selling("sold") /\ op.record.final /\ op.level \in Levels
    /\ book' = [book EXCEPT ![op.mint].tokens = 0,
                            ![op.mint].cost = Left(op.level, @),
                            ![op.mint].hit = @ \cup {op.level}]
    /\ disk' = book'
    /\ op' = [op EXCEPT !.at = "emptied"]
    /\ UNCHANGED <<venue, now, breakers, trades, lots, lastBase, crashes, faults>>

Closing == op.kind = "sell" /\ op.record.final
           /\ op.at = IF op.level \in Levels THEN "emptied" ELSE "sold"

(* Mutant: the row is saved away after the trade is written.               *)
DropFromBookUnsaved ==
    /\ Closing
    /\ book' = [book EXCEPT ![op.mint] = NoRow]
    /\ op' = [op EXCEPT !.at = "dropped"]
    /\ UNCHANGED <<venue, now, breakers, trades, disk, lots, lastBase, crashes, faults>>

(* close_position first takes the row off the book and the disk.           *)
DropFromBook ==
    /\ Closing
    /\ book' = [book EXCEPT ![op.mint] = NoRow]
    /\ disk' = book'
    /\ op' = [op EXCEPT !.at = "dropped"]
    /\ UNCHANGED <<venue, now, breakers, trades, lots, lastBase, crashes, faults>>

LogJsonl ==
    /\ op.kind = "sell"
    /\ op.at = IF op.record.final THEN "dropped" ELSE "sold"
    /\ closed' = Append(closed, op.record)
    /\ \/ AppendJsonl(op.record) /\ UNCHANGED faults
       \/ Fault /\ UNCHANGED jsonl
    /\ op' = [op EXCEPT !.at = "jsonl"]
    /\ UNCHANGED <<venue, now, breakers, rows, loaded, book, disk, lots, lastBase, crashes>>

(* The table is the last write of a close, which then counts the streak;   *)
(* a leg goes on to reduce the position and save it.                       *)
LogRow ==
    /\ Selling("jsonl")
    /\ \/ InsertRow(op.record) /\ UNCHANGED faults
       \/ Fault /\ UNCHANGED rows
    /\ IF op.record.final
       THEN CountClose(op.record.won) /\ op' = Idle
       ELSE UNCHANGED breakers /\ op' = [op EXCEPT !.at = "rows"]
    /\ UNCHANGED <<venue, now, closed, jsonl, loaded, book, disk, lots, lastBase, crashes>>

(* Mutant: the leg reduces the cost of the position, not its tokens.       *)
BookLegCostOnly ==
    /\ Selling("rows")
    /\ book' = [book EXCEPT ![op.mint].cost = Left(op.level, @),
                            ![op.mint].hit = @ \cup {op.level}]
    /\ disk' = book'
    /\ op' = Idle
    /\ UNCHANGED <<venue, now, breakers, trades, lots, lastBase, crashes, faults>>

BookLeg ==
    /\ Selling("rows")
    /\ book' = [book EXCEPT ![op.mint].tokens = Left(op.level, @),
                            ![op.mint].cost = Left(op.level, @),
                            ![op.mint].hit = @ \cup {op.level}]
    /\ disk' = book'
    /\ op' = Idle
    /\ UNCHANGED <<venue, now, breakers, trades, lots, lastBase, crashes, faults>>

(* A restart found the row of a leg that left no tokens: the force-sell of *)
(* such a position takes it off the book and saves nothing.                *)
DropEmpty(m) ==
    /\ op = Idle
    /\ book[m].lot # 0 /\ book[m].tokens = 0
    /\ book' = [book EXCEPT ![m] = NoRow]
    /\ UNCHANGED <<venue, now, breakers, trades, disk, op, lots, lastBase, crashes, faults>>
-----------------------------------------------------------------------------
(* A price comes from the first feed that has one: the bonding curve, then *)
(* Jupiter, then DexScreener; without any the mint keeps its price.        *)
Feeds == 1..3

FirstQuote(answers) ==
    IF \A i \in Feeds : answers[i] = 0 THEN 0
    ELSE answers[CHOOSE i \in Feeds : answers[i] > 0 /\ \A j \in 1..(i - 1) : answers[j] = 0]

Quotes == {FirstQuote(answers) : answers \in [Feeds -> Prices \cup {0}]} \ {0}

(* price_monitor_loop hands every quote to the book, whose sanity guard    *)
(* drops a spike above five times a price of the last seconds, and then to *)
(* the executor, which has no such guard.  The time of the last price is   *)
(* saved with the row, so the guard may hold across a restart.             *)
SpikeCap == 5

Implausible(m, p) == book[m].updated /\ p > book[m].cur * SpikeCap

AcceptPrice(m, p) ==
    book' = [book EXCEPT ![m].cur = p, ![m].seen = @ \cup {p}, ![m].updated = TRUE]

UpdatePrice(m, p) ==
    /\ op = Idle /\ m \in Open
    /\ \/ AcceptPrice(m, p)
       \/ Implausible(m, p) /\ UNCHANGED book
    /\ Quote(m, p)
    /\ UNCHANGED <<now, breakers, trades, disk, op, lots, lastBase, crashes, faults>>

Tick ==
    /\ op = Idle /\ now < MaxTime
    /\ now' = now + 1
    /\ UNCHANGED <<venue, breakers, trades, session>>

(* The fees a call may have paid when a death falls between its fee and    *)
(* what it buys or earns; 0 when no call has begun.                        *)
CutFees ==
    {fee \in 0..MostOf(BuyFeeCap, SellFeeCap) :
        \/ fee = 0
        \/ op = Idle /\ lots < MaxLots /\ Admits /\ fee = BuyFee(SizeOf)
        \/ \E m \in Mints, level \in Levels \cup {Everything} :
              MaySell(m, level) /\ fee = FeeOfSale(m, level)}

(* The process dies at any point and starts again: the book comes back     *)
(* from disk, without the price history.  A crash within a wallet write    *)
(* tears the file.                                                         *)
Crash ==
    /\ crashes < MaxCrashes
    /\ crashes' = crashes + 1
    /\ \E fee \in CutFees :
          VenueRestart(After(bal, fee),
                       fee > 0 \/ (op # Idle /\ op.at \in {"filled", "sold"}))
    /\ BreakerRestart
    /\ LogRestart
    /\ book' = [m \in Mints |-> [disk[m] EXCEPT !.seen = {}]]
    /\ op' = Idle
    /\ lastBase' = 0
    /\ UNCHANGED <<now, disk, lots, faults>>

Next ==
    \/ RejectToken
    \/ \E m \in Mints : BuyFails(m) \/ (\E p \in SpotPrices : BuyFills(m, p))
    \/ OpenPosition
    \/ \E m \in Mints, level \in Levels \cup {Everything} :
          SellFails(m, level) \/ (\E stampede \in BOOLEAN : SellFills(m, level, stampede))
    \/ EmptyByLeg \/ DropFromBook \/ LogJsonl \/ LogRow \/ BookLeg
    \/ \E m \in Mints : DropEmpty(m) \/ \E p \in Quotes : UpdatePrice(m, p)
    \/ Tick
    \/ Crash

Spec == Init /\ [][Next]_vars
-----------------------------------------------------------------------------
TypeOK ==
    /\ VenueTypeOK
    /\ BreakerTypeOK
    /\ {book[m].cost : m \in Mints} \cup {book[m].tokens : m \in Mints} \subseteq Nat
    /\ DOMAIN disk = Mints
    /\ lots \in 0..MaxLots

(* The executor holds what the book believes it can still sell.  Both      *)
(* round a leg down on their own (_resolve_token_amount and the leg of     *)
(* _check_position), so the two drift; the drift is never at the expense   *)
(* of the venue, and only a restart, which forgets the holdings, leaves a  *)
(* position without tokens behind it.                                      *)
HeldCoversBook ==
    op = Idle => \A m \in Open : (held[m] = 0 /\ crashes > 0) \/ held[m] >= book[m].tokens

(* However a close is cut by a crash, a lot is closed in the logs once:    *)
(* the row leaves the disk before its trade is written                     *)
(* (close_position), so no restart closes a logged lot again.              *)
LotClosedOnce ==
    \A log \in {jsonl, rows} : \A i \in DOMAIN log :
        log[i].final /\ log[i].lot > 0 =>
            /\ FinalsOf(log, log[i].lot) = {i}
            /\ \A m \in Mints : disk[m].lot # log[i].lot

(* deduct() stops at zero, so a buy the balance does not cover would be    *)
(* given away.  The sizer (calculate_position_size) and the fee never let  *)
(* one reach it, whatever the streak, the win rate and the losses before.  *)
BuyPaidInFull ==
    [][op = Idle /\ op'.kind = "buy" => bal' = bal - BuyFee(op'.sol) - op'.sol]_op

(* A rollover at midnight is no clean slate for losses (_is_paused): while *)
(* the process lives, nothing is bought unless the equity is above both    *)
(* bands in a row, today's on top of yesterday's.                          *)
NoCleanSlate ==
    [][op = Idle /\ op'.kind = "buy"
         => Equity * 10000 > lastBase' * 80 * (100 - DailyLossPct)]_vars

(* The positions closed since the start, by their place in the list, and   *)
(* the last n of them.                                                     *)
OwnCloses == {i \in (loaded + 1)..Len(closed) : closed[i].final}

ClosedAfter(i) == {j \in OwnCloses : j > i}

LastCloses(n) == {i \in OwnCloses : Cardinality(ClosedAfter(i)) < n}

(* A buy never follows a losing run: if the last LOSS_STREAK_LIMIT closes  *)
(* of this process all lost, the pause that one of them started is over.   *)
(* Positions that were open when the pause began close within it and count *)
(* towards the next one.                                                   *)
NoBuyAfterLosingRun ==
    [][op = Idle /\ op'.kind = "buy" /\ Cardinality(OwnCloses) >= LossStreakLimit
         => \E i \in LastCloses(LossStreakLimit) :
                closed[i].won \/ closed[i].at + StreakPause <= now]_vars

(* The price sanity guard of update_price exists so that a garbage quote   *)
(* moves no money ("Reject implausible single-tick spike"): the venue      *)
(* should not value an open position above what the book does.             *)
NoFillAboveBook ==
    op = Idle => \A m \in Open : quote[m] <= book[m].cur
=============================================================================
