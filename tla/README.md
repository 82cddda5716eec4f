# Verification of the Solana pump.fun trading bot

The bot watches new pump.fun tokens, scores them, buys some with SOL and sells
them again along an exit ladder. It is one Python process on one asyncio event
loop (`src/main.py`), plus independent tools beside it, of which the graduation
sniper (`src/tools/graduation_sniper.py`) trades on its own.

Concurrency is cooperative: code between two `await`s runs alone, and every
`await` lets every other task run. The modules therefore make one action of
each stretch between two awaited calls, and keep in a per-task record what the
task carries across the await. That is where this code is hard: what is read
before an await is used after it.

## The system

| Component | State | Operations | Interacts with | Hard behaviour |
|---|---|---|---|---|
| Risk engine `risk/manager.py` | book of positions, per-symbol totals, emergency flags, breakers; four files under `logs/` | size a buy, open, take-profit legs, force-sell, close, emergency check, restore | trade loop, dashboard, executor, wallet | stale reads across awaits, two sellers of one position, crashes between files |
| Trade loop `main.py` | one token in hand | take, size, buy, resolve tokens, open | queue, risk engine, executor | a stop arriving while a buy is under way |
| Web dashboard `logger/web_server.py` | none of its own | stop, resume, force-sell one mint | writes the risk engine's state directly | runs as an independent task |
| Live executor `trader/*` | signatures in flight | build, sign, race, confirm | RPC endpoints | a timeout is not a failure |
| Paper executor `trader/paper_*` | paper tokens and balance | simulated buy and sell | risk engine | memory-only holdings against a restored book |
| Graduation sniper `tools/graduation_sniper.py` | trackers, pending orders, positions | discover, poll, enter, fill, close, migrate | five loops in one process | pending orders against evictions, several ways to close |
| Detectors `detector/*` | seen-sets, caches | push tokens | raw queue | duplicates, bounded queue |
| Scorer `analyzer/signal_scorer.py` | counters | filter, score, enqueue | raw queue, trade queue | order of hard filters, awaits per token |
| Learning loop `analyzer/*` | pending outcomes, rug memory, offset | resolve, record, retune | scorer, files | failed lookups read as outcomes |
| Wallet and creator intelligence `detector/wallet_intel.py`, `whale_tracker.py`, `creator_tracker.py` | first buyers, outcomes and classes of wallets, records of creators | hear a trade, decide a launch, rank | stream, scorer, learning loop | a decision after 10 s against a score that waits 5 |
| Trade log `logger/trade_db.py` and `_append_closed_trade` | list, JSONL file, sqlite table | append, read back | risk engine, tuner | three writes, each may fail |
| Reports, Telegram, social feeds, offline tools | none that the trading reads back | read and format | files | not modelled |

What makes each correct: limits on positions, exposure and symbol totals that
hold at every instant; a stop that stops; durable state that matches memory;
accounting that counts each SOL once; every position eventually closed.

## The modules

* `RiskManager.tla` is the live-mode engine: the trade loop, the monitor loop
  with its emergency pass and its per-position checks, `_force_sell`, the
  dashboard's three handlers, and the death and restart of the process.
* `AtomicBook.tla` is the abstract specification it implements: a book of positions
  whose check, change and save are one step.
* `MCRiskManager.tla` gives its constants values that a `.cfg` cannot write.
* `RiskManagerTypeProofs.tla`, `RiskManagerSafetyProofs.tla` and
  `RiskManagerAccountProofs.tla` hold the proofs about it; the last of them also
  that it implements `AtomicBook`.
* `GraduationSniper.tla` is the graduation sniper: its discovery, polling,
  websocket and management loops, the orders in flight between them, the saved
  dictionary, the kill switch, and the death and restart of the process.
* `OrderLifecycle.tla` is the abstract specification it implements: the stages a
  mint goes through (idle, buying, held, selling), and the slots.
* `MCGraduationSniper.tla` gives it curve levels and a symmetry.
* `GraduationSniperProofs.tla` holds the proofs about it, and the proof that it
  implements `OrderLifecycle`.
* `PaperSession.tla` is a paper session: the book and its file against the
  simulated venue (`PaperExecutor.tla`), the circuit breakers of `_is_paused`
  (`CircuitBreakers.tla`) and the trade log (`TradeLog.tla`), which it composes.
  `PaperSessionProofs.tla` holds the proofs about it.
* `LiveCustody.tla` is live trading of one mint: what the wallet holds against
  what the book claims. It stands on `LiveExecutor.tla` (sending, confirming,
  receipts, balances) and `SolanaChain.tla` (signed transactions and when they
  execute), which is the environment. `LiveCustodyProofs.tla` holds the proofs.
* `CurveMath.tla` is the integer arithmetic of `trader/local_tx_builder.py`.
  `Sums.tla` is the sum over a finite set, which the exposure of a book, the
  equity of a session and the amount of a set of sales are. What is proved of
  either is in `ArithmeticProofs.tla`.
* `SignalPipeline.tla` goes from a launch to a buy and back to what is learned of
  it: `LaunchStream.tla` (websocket, scanner, raw queue), `WalletIntel.tla` (first
  buyers, wallets, whales), `Learning.tla` (rejections and outcomes, rug memory,
  creators, tuner), `Scoring.tla` (score and filters, pure operators), and the
  tasks, queues and restarts that tie them together. `SignalPipelineProofs.tla`
  holds the proofs about it.
* `MCPaperSession`, `MCLiveCustody` and `MCSignalPipeline` give their constants
  values.

Why the bot is split this way: `RiskManager` leaves to chance what `_is_paused`,
the executor and the prices answer, so that its results hold for every answer;
`PaperSession` fixes them by the paper venue, `LiveCustody` by the chain. Of the
book each takes the part it needs. The pipeline ends where `RiskManager` begins,
with the token in the hand of `trade_loop`. The sniper is a process of its own
with a file of its own and shares no state with the bot, so no module composes
the two.

How `RiskManager` corresponds to the code:

* A `Position` is a Python object and tasks hold references to it across
  awaits. `pos` maps object identities to their fields; the book `positions`
  maps a mint to an identity; `mon.obj` and `sell[t].obj` are references held by
  tasks. This is what lets a task go on with an object the book has dropped.
* `buy`, `mon` and `sell[t]` are the local variables of `trade_loop`,
  `run_monitor_loop` with `_check_position`, and `_force_sell`, which the
  monitor awaits in line and the dashboard starts as a task of its own. `sell`
  has one slot for each task that may be inside it.
* `rows`, `dDeployed`, `dStop` and `dSell` are the files. Each is written to a
  temporary file and renamed, so a write happens or does not; the crash actions
  (`Crash`, `CrashInOpen`, `CrashInPartialLeg`, `CrashInFinalLeg`,
  `CrashInAbandon`, `CrashInClose`) cut every handler between any two of its
  writes.
* Prices, ages and breakers are not state: which exit fires, whether the
  drawdown trips and whether `_is_paused` says yes are nondeterministic. So is
  every answer of the executor.
* Amounts are naturals in a unit finer than the 4 decimals sizes are rounded to,
  `Tick` being 1e-4 SOL in it. Binary rounding of a tie may go either way
  (`RoundedTo`).
* Time, notifications, trade statistics, rug memory, prebuilt transactions and
  the price monitor are left out: they feed the nondeterministic choices.
* `spent`, `recorded`, `lateBuys` and `crashes` (how many deaths, and how many of
  them per symbol tore an opening) are history variables.
* Seen as an `AtomicBook`, an entry is the object, cost and tokens of a position, as
  `_save_positions` would write it (`book`) and as the file has it (`file`); symbol totals
  and object numbers are the same on both sides. Attempts and levels are left out.

How `GraduationSniper` corresponds to the code:

* `state` is `self.state`, the dictionary that `_save_state` writes whole, and
  `disk` is the file: open positions with the level they were entered at, the fee
  counter, the fees that reached `realized_sol`, and `recent_stops`. Of the
  results only the fees are kept: they are what the several ways to close could
  count differently. They are in units of `TX_FEE_SOL`.
* `trackers[m]` is the level a `Tracker` last saw. `poll_one` holds its
  `Tracker` across an HTTP request, during which the tracker may be evicted,
  pruned or migrated; `poll[m]` then turns from `live` to `stale`, and the answer
  goes on with an object nobody else sees.
* An answer is one action, as the code after the request has no `await`: it pops the pending order (`BuyLands`, `SellLands`), then
  decides the next one (`Decide`) on the state just written.
* Ages are sets: `aged` positions are past `TIMEOUT_MIN`, `overdue` sells past
  `SELL_ORPHAN_S`, `quiet` trackers past `STALE_DROP_S`. Time may put a member in
  at any moment; the handlers take it out as the code resets the timestamps.
* Levels are real SOL in halves, so that the band from 80.0 to 81.0 SOL has a
  level below its end and fills can land on either side of it.
* The gates that only refuse an entry are left to chance; the band, the slots,
  the kill file and the position held are kept.
* `Die(d)` is a death that leaves `d` in the file. `Crash` dies at an await,
  `CrashInTick` and `CrashInMigration` between two saves of one handler.
* `TailSaves` is the tail holder's save of the shared dictionary.

How `PaperSession` corresponds to the code:

* `book` and `disk` are `RiskManager.positions` and `open_positions.json`; a `lot`
  numbers the buys. `bal`, `quote` and `held` are `PaperWallet._balance`,
  `PaperExecutor._prices` and `_tokens_held`: the balance is in a file, the other
  two are lost with the process.
* No call of the paper executor yields, so a buy or a sale is one step for the
  event loop, but each of its writes may be the last: `op` says how far a sale has
  come (`sold`, `emptied` by a leg that leaves no tokens, `dropped` from book and
  disk, `jsonl`, `rows`), and `Crash` may fall between any two. A buy or a sale
  pays its fee before the rest of it: `CutFees` are the fees a death may leave paid
  with nothing to show for them. A crash within the write of the wallet file
  leaves it unreadable and the next start seeds it anew.
* `updated` of a row is `price_updated_at`, on which the sanity guard depends; it
  comes back from the file with the row. A row that an emptying leg left on disk is
  dropped by its first force-sell (`DropEmpty`), which saves nothing.
* Amounts are whole units of 0.0005 SOL with the divisions of the code rounded
  down; fees, slippage, sandwich tax and the drag on a stampede exit are its
  formulas. Time is counted in parts of a UTC day. `FirstQuote` is the order of
  the three price feeds.
* A write to the file or to the table may fail (`Fault`); the code catches it.

How `LiveCustody` corresponds to the code:

* `trade` and `monitor` are the local variables of `trade_loop` and of the
  monitor; `waiting` are the background tasks of the pre-built sale, `book.bytes`
  and `book.stale` the bytes and their age.
* A transaction is decided by its bytes. `Land` or `Revert` decides one at any
  tick between the moment an endpoint took it and the end of its blockhash, or
  never; `_confirm` gives up after `ConfirmWait`, before that. What each endpoint
  answers to a send is an element of `Answers`: its signature, a refusal, or
  nothing although it took the transaction.
* A buy pays `Lot` and brings one of `Fills`, within its slippage limit: more or
  less than the `Lot` tokens it was quoted. A buy through Jupiter is booked at the
  quote (`executor.py:147`, `:165`) and nobody asks what it brought; for PumpPortal
  `_resolve_tokens_received` (`main.py:162`) asks the receipt, else the wallet.
* PumpPortal resolves a percentage against what the wallet holds when the bytes
  are built, the book takes the same percentage of what it claims; the two round
  apart and start apart. When the book is left with nothing the leg closes the
  position (`BookFinalLeg`), and what the wallet has left of it stays behind.
* Prices stand still, a token sells for a unit of SOL: the properties are about
  quantities of tokens.

How `SignalPipeline` corresponds to the code:

* `stage[k]` is where the task of a token is: in `SignalScorer` (`waiting` out the
  cool-down and the bundle decision, `checking` holders, `putting` into a full
  queue), in the trade queue, in the hands of `trade_loop`, or settled. A token is
  a mint together with the source that reported it, as the code deduplicates per
  source.
* What a token says of itself (`Features`), what DexScreener, Birdeye and the
  holder check answer (`Answers`) and what the tracker saw (`Polls`) are inputs of
  `Scoring`, whose operators are the score of the code with its weights; `Sights`
  puts them together as the awaits of `_score_token` do. `Known` is what the bot
  knows by itself.
* Time is in ticks of five seconds. A tick waits for everything that is due:
  handlers take milliseconds, so the loop is assumed never to be five seconds late.
  That is an assumption about the machine, and `BundleDecidedFirst` depends on it.
* The connection may drop while the reader waits on a full queue; it then notices
  when it has put its token.
* Anything rare (a lost connection, an exception in a scoring task, a file that
  cannot be written, a stop, a leg that is sold, a run of the tuner, a restart) is
  drawn from one budget, trades heard from another.

## What the runs show

| Run | Question | Bounds |
|---|---|---|
| `rm_crash` | Do limits, flags and book survive a death at any point, as if every change of the book were one step? | 2 mints of one ticker, 1 slot, 2 buys, 1 crash, no dashboard sell |
| `rm_live` | Do the checks made before an await bound what happens after it; does forced selling empty the book even if nothing sells, and does every position leave it? | 2 mints of 2 tickers, 2 slots, 2 buys, 1 dashboard force-sell at a time |
| `rm_torn_opening` | Does the lifetime cap survive a death between two files? It does not. | violation |
| `rm_double_record` | Can a force-sell during a leg record a cost twice? It can. | violation |
| `sniper_slots` | Do slots, orders, book, fees and file agree, and is each mint's life that of an order? | 2 mints, 1 slot, 2 trackers, 2 buys, 1 crash |
| `sniper_exits` | Does every position close and every buy end? | 2 mints, 1 slot, 1 tracker, 2 buys, 1 crash |
| `sniper_fees` | Does every charged fee reach the balance? It does not. | violation |
| `paper_session` | Does the venue cover the book, is a lot closed once, do the breakers hold? (Types are proved only.) | 1 mint, 3 buys, 2 days, 1 crash, 1 fault |
| `paper_spike` | Does a quote the book rejects move no money? It does. | violation |
| `custody` | Does the book claim only what the wallet has, is no buy lost, does a close sell all? | 2 endpoints, 1 buy, 4 transactions, 1 fault, 1 crash |
| `custody_abandon` | Is a position given up only when its mint is dead? It is not. | violation |
| `pipeline` | Does a token pass feeds, filters, queues and learning without being lost, doubled or misjudged? | 2 tokens, 1 trade heard, 1 rare event, queues of 1 |

Two buys suffice for every way two positions meet: side by side, one after the
other, and one replacing the other under the same mint (the same token can be
queued twice). Amounts are chosen so that the limits bite and round both ways: a
base size of 12 against an exposure limit of 10 gives a size of 10, which with
`Tick` 4 ties between 8 and 12, and after a sale the symbol cap of 14 leaves 6,
another tie; in `rm_live` the limit of 19 leaves 7 after a first position of 12,
which rounds up past it. Two tokens and legs of 50% give one partial and one final leg. The
attempt limit of 2 lets both a retry and an abandonment happen.

For the sniper, two mints and one slot put two buys in flight for one slot; one
tracker in `sniper_exits` makes the mints evict each other. The four levels are
below the cold zone, in the entry band, above the band but within slippage, and
past the exit; a buy decided in the band reverts if it fills at the last. One
crash is enough to cut any handler once and restart from what it left.

The paper session starts with five closed trades, so that the adaptive size is
hot and cools with the first loss; its quotes are a price and one six times as
high, above the sanity cap of five; streaks of two losses and days of one part
let a pause, a midnight and a restart each fall between two of the three buys. The
first leg of its ladder sells a quarter, the second so much that no token is left.
Custody needs four transactions for a buy, a leg, a pre-built sale and a fresh
one; one fault is one lost answer or missing receipt. A lot of 10 with fills of 9
and 11 falls below and above its quote, and a leg of 90 % then leaves the wallet
and the book different rests, or the book nothing; `custody_abandon` needs a leg
that leaves enough to sell, and no fault. It covers one buy of a mint; what the
proofs say of more is below. In the pipeline
one trade makes a bundle, one rug a pattern, one outcome a sample, and queues of
one entry are full at once; the launch and the listing are alike, so that what is
learned from one decides about the other.

Every property has a mutant, a definition changed as a plausible bug would, that
makes it fail (`PROJECT.json`, `mutants`; the operators stand in the modules
just before what they replace, marked "Mutant").

`RecordedOnce` is stated for runs without a crash, since a crash between the
trade log and the book makes the restarted bot repeat a leg. With a dashboard
force-sell it fails (`rm_double_record`).

What the violations say of the code:

* `rm_torn_opening`: `open_position` saves the book and then the symbol's total. A
  death between the two leaves a position whose SOL the cap has forgotten, and the
  next one of the symbol goes past it, against what the comments at
  `risk/manager.py:155-160` and `:237-240` promise.
* `rm_double_record`: a dashboard force-sell while a leg is awaited closes the
  position; the leg then records its share of a cost that was recorded already.
* `sniper_fees`: the buy whose slot was taken in flight is counted in `fees_sol`
  and never taken off the balance.
* `paper_spike`: `price_monitor_loop` hands every quote to the paper executor, so
  the spike `update_price` rejects is the price of the next sale.
* `custody_abandon`: pre-built bytes are dropped for age only. After a leg they ask
  for more than is left, fail, and are sent again until the attempts are used up.

Noticed while modelling, and not the subject of a run:

* `web_server.py:241-254` says its stop force-sells every position;
  `risk/manager.py:851` does so only under `emergency_force_sell`.
* `wallet_intel._on_buy` counts sales and repeated trades of a wallet as buys, and
  classes are recomputed only when some wallet reaches the minimum of outcomes.
  Outcomes are saved on a clean stop only.
* A lookup that fails ten minutes after a rejection reads as a market cap of 0: an
  outcome of -100 %, which rug memory learns.
* A Jupiter buy that brings less than its quote leaves a position that claims tokens
  the wallet never got, for as long as it lives.
* The tuner shifts its offset again on a sample it has already used.
* While fewer than ten creators qualify, each of them ranks in the top ten.
* A boosted listing has the symbol "???" and is always rejected, yet it enters the
  `seen` set that the trending listing of the same mint is checked against.
* A missing `top10` from Birdeye counts as 100 % and rejects the token.
* The growth of a tracker's first poll is taken against `marketCapSol * 150`, a
  guessed price of SOL: well above it, each first poll looks like a spike.
* The sets of seen mints are memory only: after a restart a mint is offered again.

## Fairness

`FairSpec` assumes that the two loops keep running (`WF` on `TradeLoop` and
`MonitorLoop`: both are `while` loops over bounded awaits), that each executor
call ends, with either outcome (`WF` on `ForceSell(t)`: the HTTP and RPC calls
under it have timeouts, its retry loops have counts), and that a dead process is
restarted (the run-forever scripts). Nothing is assumed of tokens, of the
operator at the dashboard, or of deaths.

`EveryPositionExits` assumes beyond that strong fairness of `LateExit(m)` (`TimeExits`), a check of `m` that ends in a
force-sell: age only grows and a check is made every tick, so a position that
stays in the book is at last past `TIME_EXIT_MINUTES`, and from then on each of
its checks that falls through the ladder ends in a force-sell. Success of a sell
is never assumed; the attempt counter does the rest.

The sniper's `FairSpec` assumes that its loops keep running (`WF` on `PollRound`
and `ManageLoop`), that every request ends, possibly always with a failure (`WF`
on `PollEnds(m)`: the client has a timeout), that the watchdog restarts a dead
process, and that time passes (`Age`, `Delay`, and `Quiet` unless the curve keeps
being reported). No poll is assumed to succeed. `PositionsClose` leaves out a
process that died under the kill file and may not start; `BuysEnd` leaves out a
mint that is evicted and found again for ever between polls and ticks, which the
code does not exclude.

The paper session and custody state no fairness: their properties are about steps.
Nor does the pipeline, whose answer to starvation is `NeverStuck`: while a token is
on its way the bot has a step of its own to take. `Progress` is finite without new
input, since every step of it moves a token, a timer or a subscription on.

## What is proved

For any finite set of mints, any symbols, limits, amounts, ladder and number of
dashboard tasks, buys and crashes (the named ASSUMEs of `RiskManager` only say
that amounts are naturals, percentages 1 to 100 and tasks distinct), TLAPS
checks `Spec => []P` for

* `TypeCorrect`: `TypeOK`. It is not inductive alone: what a task may write
  depends on what its `pc` says of the rest of its record. `Shape` states that
  (a leg has a mint, an object and a level; a seller has an object; the book, the
  files and the objects agree on mints; a dead process holds nothing), and the
  induction is over `Typed == TypeOK /\ Shape`, one lemma per group of actions.
* `PositionsCapped`: `PositionCap`. The check is made before awaits, and only the
  trade loop adds positions, so from the check to the opening the count can only
  fall; a restart restores what a snapshot saved, and the invariant therefore
  also bounds the number of rows on disk.
* `LifetimeCapped`: `LifetimeCap`, of the SOL really put into the positions of a
  symbol, over all lives of the process: within the cap and half a `Tick`, times one
  more than the deaths that tore an opening of that symbol between its two files
  (`torn`). Without such a death it is the cap itself; with one it is not, and
  `LifetimeCapSurvives` is what `rm_torn_opening` refutes. `LifeInv` compares three
  numbers: from sizing to opening the admitted amount plus the symbol's total fits
  under the cap; the total on disk is the one in memory while the process runs; and
  what was given exceeds the total by no more than the torn openings account for.
* `CapitalCapped`: `ExposureCap`. The exposure is summed before the balance is
  fetched and the buy runs, so `CapitalInv` says what a buy in flight needs: while
  it is sized the book holds no more than was summed, once it is on its way book and
  buy fit under the limit and half a `Tick` together, and the file carries no more
  than the limit, because a restart believes it. Every other step only makes the
  book lighter (`Sheds`).
* `LateBuysBounded`: `AtMostOneLateBuy`. A late buy leaves the trade loop past
  the point where it looks at the flag; the invariant says how many late buys
  there can have been for each `pc` of the loop.
* `EmergencySurvives` and `BookSurvives`: `EmergencyDurable`, `BookDurable`.
  Whatever the interleaving, the last write of a file follows the last change of
  what it stores; the one change made without a save, dropping a position without
  tokens, only removes.
* `SingleAccount`: `RecordedOnce`, under `Clicks = {}` (no dashboard sells).
  `AccountInv` says that until a crash, for every object somebody may still sell
  from (it is in the book or a take-profit leg holds it), what is recorded and
  what it still carries fit into what it cost, and that a leg's object is not
  inside `_force_sell` at the same time: in the one monitor loop these exclude
  each other, and that is what the dashboard's task breaks.
* `BookImplemented`: `ImplementsAtomicBook`, the refinement, with everything: deaths
  inside handlers, dashboard sells, a mint bought twice. The step that takes an
  argument is the buy whose tokens arrive: the limits were checked awaits ago, and
  `AtomicBook` checks them with the position in the book. `RefInv` therefore puts the
  invariants of the three caps together, which say of a buy in flight that it still
  fits (`BuyFits`), and adds that a row of no object says nothing else (`RowsClean`).
  Legs, closes and abandonments map to `Reduce`, the pop of a position without tokens
  to `Forget`, every death to `Die`, all else to a stutter. An engine that booked a
  leg without saving it, or saved before the change, would take no step of the book.
* `NothingComesBack`: from it, whenever the engine runs its book is what the file says,
  so that no restart brings back what was sold, or loses what was bought.

For the sniper, for any finite set of mints, any positive curve levels and any
limits:

* `SniperTyped`, `SlotsHold`, `OrdersAgree`, `FeesCharged` and `FileIsMemory`
  (`TypeOK`, `SlotLimit`, `OrdersMatch`, `NoPhantomFee`, `Durable`) follow from one
  inductive invariant, `Sound`. They need each other: a fill takes a slot only
  because `OrdersMatch` says the mint is not held already, a sell takes its fees off
  the balance only because it says the mint is held, and a restart keeps the limits
  only because `Durable` says the file kept them. `Sound` adds that a pending buy
  was decided inside the entry band. `Book` is what every saved dictionary
  satisfies; lemmas show that a charge, a fill, a close and a forgotten stop each
  turn a book into a book, and each handler is a composition of these.
* `RetriesWait`: `NoInstantRetry`, from `Sound` and the arithmetic of the band: two
  levels inside it never differ by more than `ENTRY_SLIPPAGE_BOUND_PCT` in price.
* `SniperImplementsLifecycle`: `LifecycleSpec`, the refinement. The mapping is
  `stage`; a death maps to the lifecycle's `Die`, every other step to its `Trade` or
  to a stutter.

For the pipeline, for any mints, wallets and answers of the services, any limits
that are naturals and any bounds of the environment:

* `SubscriptionsReturned`: `SubscriptionsExpire`, by the invariant `Streams`: nothing
  is subscribed while the connection is down, and a subscribed mint was announced
  and has a running task. A reconnect may find a task of the connection before,
  which is why the task and not the connection is what the invariant speaks of.
* `NoSecondOffer`: `OfferedOnce`, by `Offers`: what was offered is in the `seen` set
  of the feed that offered it.
* `JudgedBeforeAccepted`: `BundleDecidedFirst`, by `Timed`: a launch on its way is
  watched or judged, and its task has not waited longer than it was watched. It
  rests on `CooldownAssumption`, `Cooldown + BundleWait > Window`: the scorer itself
  waits five seconds for a decision that takes ten, and only the cool-down of
  fifteen makes it right. With a cool-down of five seconds or less it would not hold.
* `RuggedNeverAccepted`: `RuggedPatternRefused`, by `Remembered`: memory and file hold
  the signatures that rugged, and everything that may rug later (a scored token, a
  position, a rejection that waits) carries the signature it was judged by.
* `RejectionsTracked`: `RejectionsAccounted`, by `Booked`, which speaks of one line of
  rejections, the batch that is being looked up followed by what is still pending: a
  rejected token is in the line once, or settled, never both. A step of the learner
  moves the border in the line or takes its head, a restart keeps what it keeps in
  order. That a token is not rejected a second time follows from `Once` (it is in one
  place of one feed and gets one task) and `Queued` (the trade queue holds it once).
* `PipelineTyped`: `TypeOK`, which holds the bounds of the queues and lists. `Bounds`
  (the streams), `Watched` (the wallets), `Learnt` (a creator has no more results than
  positions were closed; the threshold stays in its band), `Slept` and `Rest` are its
  parts; `Slept` needs `Timed`, as a sleeper is due before it sleeps too long.

For the paper session, for any finite set of mints, any ladder, prices, sizes and
breakers:

* `SessionTyped`: `TypeOK`, by `Typed`: every amount is a natural, although most are
  differences. A buy in progress has got tokens for its money and a leg in progress is
  one of the ladder (`CallTyped`).
* `HoldingsCovered`: `HeldCoversBook`, by `Covered`: the venue's share of a leg and the
  book's share are rounded apart, and `LegCovered` shows that the drift is on the
  venue's side. While a leg is under way, what is held covers what the book will be left
  with; a final sale has left the book before the venue forgets the mint.
* `BuysPaidInFull`: `BuyPaidInFull`. The size is at most 90 % of the balance for any
  multipliers with `MaxPositionPct * HotMult <= 9000`, and the fee at most what is
  left then (`SizeFits`, `FeeFits`).
* `NoFreshStart`: `NoCleanSlate`, by `Bands`: a new day takes the equity as its baseline
  only if that is at least 80 % of the baseline before.
* `NoBuyInLosingRun`: `NoBuyAfterLosingRun`, by `Streaks`: of the closes of this process
  at most `streak` followed the last one that won or started a pause that is over by
  `pauseUntil`. A close is in the list a moment before it is counted; `Counted` leaves
  it out for as long.

* `LotsClosedOnce`: `LotClosedOnce`, by `Filed`, which follows a lot from the file of
  the book through the sale in progress into the two logs: the book and its file
  have the same lots, a closed lot is in neither, and a close whose trade is not
  written yet is already off the disk.

For custody of one mint, for any endpoints, lot, leg, attempts and waits:

* `CustodyTyped`: `TypeOK`, by `Typed`, which also says what a transaction in the
  hands of a task is (the trade loop's a buy, all others sales).
* `BuysTraced`: `BuyTraced`, for any number of buys, by `Traced`, which speaks of every
  buy that was signed: one that has not executed when it is given up may still do so.
* `BookBackedApart` and `ExitsSellAllApart`: `BookBacked` and `ExitSellsAll`, for any
  number of buys that keep apart (`BuysApart`): each starts when the book has no position,
  no task holds a sale, the wallet has no tokens and no transaction can still execute.
  `BookBacked` allows the book what executed sales are still owed to it and, for a
  position bought through Jupiter, what the buy fell short of its quote (`Short`);
  `ExitSellsAll` says that after the sale that closes a position the wallet is empty,
  however much the book claimed.
  `Sound` is the invariant: of the latest buy, what was signed before it is done with and
  in nobody's hands, and nothing happens before it executes (`LatestBuy`); every sale that
  would close the position is of all the wallet holds (`AllFull`); a leg is sold once, of
  what the buy brought, and from a position that claims more than that by `Short` only
  (`LegDue`). That the claim stays covered after a leg is arithmetic of two roundings
  (`RestBounded`).
* `BookAlwaysBacked` and `ExitsSellAll`: the same for `MaxBuys = 1`, where the one buy
  keeps apart by itself (`OneBuyApart`).

  That buys keep apart is needed, and the code does not see to it. A mint is announced
  once by each source (`seen_mints`, `TrendingScanner.seen`), so it can be bought twice,
  and `open_position` overwrites its row (`risk/manager.py:590`). With two buys TLC finds
  that the second executes while its confirmation is awaited, the exit of the first sells
  everything and closes, and the second is then booked with tokens that are gone.

The proofs rest on lemmas about sums over a finite set (`ArithmeticProofs`). `SumOver`
is a recursive function on the subsets of its set, and each fact about it is proved on a
smallest counterexample, which the well-foundedness of strict inclusion between finite
sets provides; no induction principle with an operator parameter is needed. For the
same reason the modules that are proved about speak of the places of a list that
satisfy something (`OwnCloses`, `RowsOf`), never of the filtered list.

For the arithmetic of the local builder, for all reserves, payments and slippages:
`BuyKeepsProduct` (a buy never empties the curve and rounds against the buyer),
`RoundTripGainsNothing` and `LimitsAdmitTheQuote`. No run checks them; the custody
model leaves prices out.

The named ASSUMEs of each module say what its constants must be, and TLC evaluates
them in the runs. Beyond kinds of numbers they say: mints and dashboard tasks are finite;
percentages of legs are below 100; a buy leaves a tenth of the balance for its fee; a
confirmation is waited for less long than pre-built bytes are trusted, and these less
long than a blockhash lives (30 s, 50 s and about 60 s in the code); the outcomes a file
restores are at most `MaxOutcomes` a wallet, as `wallet_intel.py:175` cuts the list it
loads; and `CooldownAssumption`.

Model-checked only: `NeverStuck`, which speaks of ENABLED, and the liveness properties
`ForcedSellingDrains`, `EveryPositionExits`, `PositionsClose` and `BuysEnd`, which are
out of the prover's reach. Every other property of a passing run is a theorem. Two theorems
about the paper session, `SessionTyped` and `BuysPaidInFull`, are of invariants no run
checks. What the
violation runs show is a trace, which no proof is needed for.

## Plan

What is left, in order: the sniper's tail holder as a task of its own; a run of
custody that shows what a second buy does to the book; the edge brain's vetoes.

## Not modelled

* Risk engine and process: start-up order, pid lock, the statistics for reports.
  `trade_loop` has no `try` of its own, so an exception out of it ends the task; the
  modules take each handler's own error paths only. A book file that cannot be
  written is not modelled.
* Paper trading: the legacy mode without friction differs in constants only.
* Live executor: Jupiter sales of a token count, which no caller asks for, the
  account layout of the local builder, priority fees, prices that move.
* Detection and scoring: the tracker's slots, `score_bins` and `shadow_mode`, which
  no decision reads, the whale tracker's buffer for trades of a mint not announced. A
  message that fails on an open socket is taken as the loss of that socket. The
  weights of the score are modelled as they stand, though no property depends on most
  of them: the runs feed them, and a property that compared them with themselves
  would say nothing.
* Sniper: the gates that only refuse an entry may answer anything; the hand-off to
  tail-holding is one save of the shared dictionary; shadow data and alerts.
* Edge brain, control bot, social feeds, reports, dashboards, offline analysis,
  set-up tools and configuration: they read files and format text, feed the score,
  or are the constants of the modules.

`PROJECT.json` lists each component with its reason.
