---------------------------- MODULE LiveCustody ----------------------------
(* Live trading of one mint: what the wallet really holds against what the *)
(* position book says.  The trade loop buys (trade_loop, main.py), the     *)
(* monitor sells (_check_position and _force_sell, risk/manager.py), both  *)
(* through TradeExecutor and PumpPortalExecutor, and a background task     *)
(* stashes a pre-built sale.                                               *)
EXTENDS LiveExecutor, Sums

CONSTANTS
  Fills,          \* tokens a buy may bring, within its slippage limit
  LegPct,         \* the share of a take-profit leg, in percent
  MaxAttempts,    \* MAX_FORCE_SELL_ATTEMPTS
  Fresh,          \* ticks a pre-built sale is trusted for
  MaxBuys, MaxFaults, MaxCrashes      \* bounds of the model

ASSUME CustodyAssumption ==
  /\ Endpoints # {} /\ Fills \cup {Lot, MaxAttempts, ConfirmWait} \subseteq Nat \ {0}
  /\ LegPct \in 1..99 /\ {MaxTxs, MaxBuys, MaxFaults, MaxCrashes} \subseteq Nat
  /\ {Fresh, Life} \subseteq Nat /\ ConfirmWait < Fresh /\ Fresh < Life

VARIABLES
  book, disk,     \* the position and its row in open_positions.json
  trade, monitor, \* the two loops
  waiting,        \* the prebuild tasks, by the transaction they were given
  said,           \* what was reported of tokens that may be nobody's
  recorded        \* sum of sol_received over the closed trades

chain  == <<wallet, pool>>
client == <<known, buySize>>
files  == <<book, disk>>
vars   == <<chain, txs, client, left, files, trade, monitor, waiting, said, recorded>>

----------------------------------------------------------------------------
(* The chain moves on its own                                              *)

Land(i) ==
  /\ Executes(i)
  /\ UNCHANGED <<pool, client, left, files, trade, monitor, waiting, said, recorded>>

\* A transaction that cannot execute fails; one that could may still miss
\* its slippage limit.
Revert(i) ==
  /\ Fails(i)
  /\ IF Executable(txs[i]) THEN Fault ELSE UNCHANGED left
  /\ UNCHANGED <<chain, client, files, trade, monitor, waiting, said, recorded>>

Rug ==
  /\ Rugged
  /\ UNCHANGED <<wallet, txs, client, left, files, trade, monitor, waiting, said, recorded>>

----------------------------------------------------------------------------
(* The trade loop                                                          *)

NoPosition ==
  [id |-> NoTx, tokens |-> 0, bytes |-> NoTx, stale |-> 0, attempts |-> 0, leg |-> FALSE]
Held == book.id # NoTx

\* A row of the file: the bytes of the pre-built sale are not written.
Row(p) == [p EXCEPT !.bytes = NoTx, !.stale = 0]

Idle == [pc |-> "idle", tx |-> NoTx, wait |-> 0]

\* buy: Jupiter when it quotes an acceptable impact, PumpPortal otherwise.
\* How it fills shows when it executes.
StartBuy(venue) ==
  /\ trade.pc = "idle" /\ left.buys > 0
  /\ left' = [left EXCEPT !.buys = @ - 1]
  /\ \E fill \in Fills : Sign("buy", fill, venue)
  /\ trade' = [pc |-> "send", tx |-> Newest, wait |-> 0]
  /\ UNCHANGED <<chain, client, files, monitor, waiting, said, recorded>>

\* The buy ends without a position: its reject_reason goes to the dashboard.
Reject == trade' = Idle /\ said' = said \cup {trade.tx}

\* Mutant: a buy that was not answered is dropped as if it could not execute.
DropBuy == trade' = Idle /\ UNCHANGED said

SendFailed == Reject

SendBuy ==
  /\ trade.pc = "send"
  /\ \E a \in Answers :
       /\ txs[trade.tx].venue = "jupiter" => Alone(a)
       /\ Send(trade.tx, a)
       /\ IF Answered(a) THEN trade' = [trade EXCEPT !.pc = "confirm"] /\ UNCHANGED said
          ELSE SendFailed
  /\ UNCHANGED <<chain, client, files, monitor, waiting, recorded>>

BuyUnconfirmed ==
  /\ trade.pc = "confirm" /\ Unconfirmed(trade)
  /\ Reject
  /\ UNCHANGED <<chain, txs, client, left, files, monitor, waiting, recorded>>

\* open_position replaces what the book says of the mint, and starts a task
\* that builds the sale of everything.
OpenPosition(tokens) ==
  /\ book' = [NoPosition EXCEPT !.id = trade.tx, !.tokens = tokens]
  /\ disk' = Row(book')
  /\ txs' = [txs EXCEPT ![trade.tx].booked = TRUE]
  /\ waiting' = waiting \cup {[id |-> trade.tx, tx |-> NoTx]}
  /\ trade' = Idle

\* Mutant: a PumpPortal buy is booked at the quote as well.
BookedUnresolved ==
  /\ trade.pc = "confirm" /\ Confirmed(trade)
  /\ OpenPosition(Lot)
  /\ UNCHANGED <<chain, client, left, monitor, said, recorded>>

\* A Jupiter buy is booked at its quote, whatever it brought; a PumpPortal
\* buy has to find out.
BuyConfirmed ==
  /\ trade.pc = "confirm" /\ Confirmed(trade)
  /\ IF txs[trade.tx].venue = "jupiter"
     THEN OpenPosition(Lot) /\ UNCHANGED buySize
     ELSE /\ buySize' = Lot
          /\ trade' = [trade EXCEPT !.pc = "resolve"]
          /\ UNCHANGED <<txs, files, waiting>>
  /\ UNCHANGED <<chain, known, left, monitor, said, recorded>>

\* _resolve_tokens_received: the receipt, else the balance of the wallet,
\* else nothing is known and the position is skipped.
ResolveByReceipt ==
  /\ trade.pc = "resolve"
  /\ OpenPosition(txs[trade.tx].amount)
  /\ UNCHANGED <<chain, client, left, monitor, said, recorded>>

ResolveByBalance ==
  /\ trade.pc = "resolve" /\ Fault
  /\ \/ wallet.tokens > 0 /\ OpenPosition(wallet.tokens) /\ UNCHANGED said
     \/ Reject /\ UNCHANGED <<txs, files, waiting>>
  /\ UNCHANGED <<chain, client, monitor, recorded>>

----------------------------------------------------------------------------
(* The pre-built sale                                                      *)

\* PumpPortal turns "100%" into the number of tokens the wallet holds now.
PrebuildSigned(w) ==
  /\ w.tx = NoTx /\ wallet.tokens > 0
  /\ Sign("sell", wallet.tokens, "pumpportal")
  /\ waiting' = (waiting \ {w}) \cup {[w EXCEPT !.tx = Newest]}
  /\ UNCHANGED <<chain, client, left, files, trade, monitor, said, recorded>>

\* The bytes go to whatever position the mint has when they arrive.
PrebuildArrives(w) ==
  /\ w.tx # NoTx
  /\ waiting' = waiting \ {w}
  /\ book' = IF Held THEN [book EXCEPT !.bytes = w.tx, !.stale = 0] ELSE book
  /\ UNCHANGED <<chain, txs, client, left, disk, trade, monitor, said, recorded>>

PrebuildFails(w) ==
  /\ w.tx = NoTx
  /\ IF wallet.tokens = 0 THEN UNCHANGED left ELSE Fault
  /\ waiting' = waiting \ {w}
  /\ UNCHANGED <<chain, txs, client, files, trade, monitor, said, recorded>>

----------------------------------------------------------------------------
(* The monitor                                                             *)

Resting ==
  [pc |-> "idle", kind |-> "none", id |-> NoTx, tx |-> NoTx, wait |-> 0, before |-> 0, try |-> 0]

\* before: what there was when the sale began, the SOL of the wallet for an
\* exit, the tokens of the position for a leg.
Selling(kind, tx, before) ==
  [Resting EXCEPT !.pc = "send", !.kind = kind, !.id = book.id, !.tx = tx,
                  !.before = before, !.try = book.attempts + 1]

Leg == (wallet.tokens * LegPct) \div 100

\* A take-profit level is reached: sell its share, built afresh.  When it
\* cannot be built the level waits for the next tick.
StartLeg ==
  /\ monitor.pc = "idle" /\ Held /\ ~ book.leg
  /\ Leg > 0 /\ Sign("sell", Leg, "pumpportal")
  /\ monitor' = Selling("leg", Newest, book.tokens)
  /\ UNCHANGED <<chain, client, left, files, trade, waiting, said, recorded>>

FreshBytes == book.bytes # NoTx /\ book.stale < Fresh

\* _force_sell, for any reason: with the pre-built bytes while they are
\* fresh, else with a sale built now.
StartExit ==
  /\ monitor.pc = "idle" /\ Held
  /\ \E b \in {wallet.sol, known} :
       /\ ReadBalance(b)
       /\ IF FreshBytes THEN monitor' = Selling("exit", book.bytes, b) /\ UNCHANGED txs
          ELSE /\ wallet.tokens > 0 /\ Sign("sell", wallet.tokens, "pumpportal")
               /\ monitor' = Selling("exit", Newest, b)
  /\ UNCHANGED <<chain, buySize, files, trade, waiting, said, recorded>>

\* Mutant: one attempt too many.
GivenUpLate(try) == try > MaxAttempts

GivenUp(try) == try >= MaxAttempts

\* A failed attempt counts for the position it was made for; after the last
\* one the mint leaves the book.
AttemptFails(id, try) ==
  /\ monitor' = Resting
  /\ IF GivenUp(try)
     THEN book' = NoPosition /\ said' = said \cup {id}
     ELSE /\ book' = IF book.id = id THEN [book EXCEPT !.attempts = try] ELSE book
          /\ UNCHANGED said
  /\ disk' = Row(book')

\* Nothing to build a sale of, or PumpPortal does not answer.
ExitUnbuilt ==
  /\ monitor.pc = "idle" /\ Held /\ ~ FreshBytes
  /\ IF wallet.tokens = 0 THEN UNCHANGED left ELSE Fault
  /\ known' = wallet.sol
  /\ AttemptFails(book.id, book.attempts + 1)
  /\ UNCHANGED <<chain, txs, buySize, trade, waiting, recorded>>

SaleFails ==
  IF monitor.kind = "exit" THEN AttemptFails(monitor.id, monitor.try)
  ELSE monitor' = Resting /\ UNCHANGED <<files, said>>

SendSale ==
  /\ monitor.pc = "send"
  /\ \E a \in Answers :
       /\ Send(monitor.tx, a)
       /\ IF Answered(a) THEN monitor' = [monitor EXCEPT !.pc = "confirm"] /\ UNCHANGED <<files, said>>
          ELSE SaleFails
  /\ UNCHANGED <<chain, client, trade, waiting, recorded>>

SaleUnconfirmed ==
  /\ monitor.pc = "confirm" /\ Unconfirmed(monitor)
  /\ SaleFails
  /\ UNCHANGED <<chain, txs, client, left, trade, waiting, recorded>>

SaleConfirmed ==
  /\ monitor.pc = "confirm" /\ Confirmed(monitor)
  /\ monitor' = [monitor EXCEPT !.pc = "receipt"]
  /\ buySize' = IF monitor.kind = "exit" THEN 0 ELSE buySize
  /\ UNCHANGED <<chain, txs, known, left, files, trade, waiting, said, recorded>>

Booked == txs' = [txs EXCEPT ![monitor.tx].booked = TRUE]

RestOf(tokens) == (tokens * (100 - LegPct)) \div 100

\* What the position is left with after the leg.
Rest == RestOf(monitor.before)

\* A leg: the book keeps the rest of what it had, if it is still the same
\* position.
BookLeg ==
  /\ monitor.pc = "receipt" /\ monitor.kind = "leg" /\ Rest > 0
  /\ \E sol \in 0..txs[monitor.tx].amount :
       ReadReceipt(monitor.tx, sol) /\ recorded' = recorded + sol
  /\ book' = IF book.id = monitor.id THEN [book EXCEPT !.tokens = Rest, !.leg = TRUE] ELSE book
  /\ disk' = Row(book') /\ Booked /\ monitor' = Resting
  /\ UNCHANGED <<chain, client, trade, waiting, said>>

\* close_position: the mint leaves the book, if it is still there.
Close(sol) ==
  /\ book' = NoPosition /\ disk' = NoPosition
  /\ recorded' = IF Held THEN recorded + sol ELSE recorded
  /\ Booked /\ monitor' = Resting
  /\ UNCHANGED <<chain, buySize, trade, waiting, said>>

\* The final leg: nothing would be left, the mint leaves the book.
BookFinalLeg ==
  /\ monitor.pc = "receipt" /\ monitor.kind = "leg" /\ Rest = 0
  /\ \E sol \in 0..txs[monitor.tx].amount : ReadReceipt(monitor.tx, sol) /\ Close(sol)
  /\ UNCHANGED known

CloseByReceipt ==
  /\ monitor.pc = "receipt" /\ monitor.kind = "exit"
  /\ Close(txs[monitor.tx].amount) /\ UNCHANGED <<known, left>>

Growth(n) == IF n > 0 THEN n ELSE 0

\* No receipt: what the balance has grown by since the sale began.
CloseByBalance ==
  /\ monitor.pc = "receipt" /\ monitor.kind = "exit" /\ left.faults > 0
  /\ known' = wallet.sol /\ left' = [left EXCEPT !.faults = @ - 1]
  /\ Close(Growth(wallet.sol - monitor.before))

----------------------------------------------------------------------------
(* Time and restarts                                                       *)

OneOlder(n, max) == IF n < max THEN n + 1 ELSE n

Waits(p) == IF p.pc = "confirm" THEN [p EXCEPT !.wait = OneOlder(@, ConfirmWait)] ELSE p

Tick ==
  /\ txs' = Aged
  /\ book' = IF book.bytes # NoTx THEN [book EXCEPT !.stale = OneOlder(@, Fresh)] ELSE book
  /\ trade' = Waits(trade) /\ monitor' = Waits(monitor)
  /\ UNCHANGED <<chain, client, left, disk, waiting, said, recorded>>

\* A restart: the book is read back, the calls under way are forgotten.
Restart ==
  /\ left.crashes > 0 /\ left' = [left EXCEPT !.crashes = @ - 1]
  /\ book' = disk /\ trade' = Idle /\ monitor' = Resting /\ waiting' = {}
  /\ known' = wallet.sol /\ buySize' = 0
  /\ UNCHANGED <<chain, txs, disk, said, recorded>>

----------------------------------------------------------------------------

Init ==
  /\ wallet = [tokens |-> 0, sol |-> MaxBuys * Lot] /\ pool = TRUE /\ txs = <<>>
  /\ known = wallet.sol /\ buySize = 0
  /\ left = [buys |-> MaxBuys, faults |-> MaxFaults, crashes |-> MaxCrashes]
  /\ book = NoPosition /\ disk = NoPosition
  /\ trade = Idle /\ monitor = Resting /\ waiting = {}
  /\ said = {} /\ recorded = 0

Buying ==
  \/ \E venue \in {"jupiter", "pumpportal"} : StartBuy(venue)
  \/ SendBuy \/ BuyUnconfirmed \/ BuyConfirmed \/ ResolveByReceipt \/ ResolveByBalance

Prebuilding == \E w \in waiting : PrebuildSigned(w) \/ PrebuildArrives(w) \/ PrebuildFails(w)

MonitorStep ==
  \/ StartLeg \/ StartExit \/ ExitUnbuilt
  \/ SendSale \/ SaleUnconfirmed \/ SaleConfirmed
  \/ BookLeg \/ BookFinalLeg \/ CloseByReceipt \/ CloseByBalance

Next ==
  \/ \E i \in Ids : Land(i) \/ Revert(i)
  \/ Rug \/ Buying \/ Prebuilding \/ MonitorStep \/ Tick \/ Restart

Spec == Init /\ [][Next]_vars

----------------------------------------------------------------------------
(* Correctness                                                             *)

Landed(side) == {i \in DOMAIN txs : txs[i].side = side /\ txs[i].status = "landed"}
Amount(S) == SumOver([i \in Ids |-> IF i \in S THEN txs[i].amount ELSE 0], Ids)
Unbooked(side) == {i \in Landed(side) : ~ txs[i].booked}

TypeOK ==
  /\ wallet \in [tokens : Nat, sol : Nat] /\ pool \in BOOLEAN
  /\ \A i \in DOMAIN txs :
       txs[i] \in [side : {"buy", "sell"}, amount : Nat \ {0},
                   venue : {"jupiter", "pumpportal"}, age : 0..Life,
                   status : {"built", "sent", "landed", "failed"}, booked : BOOLEAN]
  /\ known \in Nat /\ buySize \in {0, Lot}
  /\ {book, disk} \subseteq
       [id : Ids \cup {NoTx}, tokens : Nat, bytes : Ids \cup {NoTx}, stale : 0..Fresh,
        attempts : 0..(MaxAttempts - 1), leg : BOOLEAN]
  /\ disk = Row(book)
  /\ trade.tx \in DOMAIN txs \cup {NoTx} /\ monitor.tx \in DOMAIN txs \cup {NoTx}

\* What the buy of the position fell short of the quote it was booked at: of
\* a buy through Jupiter nobody asks what it brought.
Short ==
  IF Held /\ txs[book.id].venue = "jupiter" /\ txs[book.id].amount < Lot
  THEN Lot - txs[book.id].amount ELSE 0

\* The position claims no tokens the wallet has not got, but for those of
\* sales that executed behind the back of the process and, of a Jupiter buy,
\* those it was quoted and did not bring.
BookBacked == book.tokens <= wallet.tokens + Amount(Unbooked("sell")) + Short

\* In one life of the process no buy executes without either a position or a
\* report: it is never given up in silence.
BuyTraced ==
  left.crashes = MaxCrashes => \A i \in Unbooked("buy") : i = trade.tx \/ i \in said

\* When the sale of everything closes the position, the wallet is empty of the
\* mint, however old the sale, whatever was booked and sold before it: no
\* tokens stay behind without a position.
ExitSellsAll ==
  [][Held /\ ~ Held' /\ monitor.pc = "receipt" /\ monitor.kind = "exit" => wallet.tokens = 0]_vars

\* "The mint is almost certainly dead (no liquidity / paused pool)": while
\* the pool trades, a position is not given up over pre-built bytes that ask
\* for more than the tokens that are still there.
AbandonedOnlyWhenDead ==
  [][Held /\ ~ Held' /\ monitor.tx \in {book.bytes} \ {NoTx} /\ txs[monitor.tx].status = "failed"
     => ~ pool \/ wallet.tokens = 0 \/ txs[monitor.tx].amount <= wallet.tokens]_vars
=============================================================================
