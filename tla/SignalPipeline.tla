--------------------------- MODULE SignalPipeline ---------------------------
(* From a launch to a buy: the feeds, the raw queue, one task of           *)
(* SignalScorer per token, the trade queue and trade_loop of main.py; and  *)
(* the way back, from what became of a token to the next decision.         *)
(*                                                                         *)
(* Time is in ticks of five seconds.  A tick waits for everything that is  *)
(* due: handlers take milliseconds, so the event loop is assumed never to  *)
(* be five seconds late.                                                   *)
EXTENDS Learning, Scoring

CONSTANTS
  Features,        \* what a token may say of itself
  Answers, Polls,  \* what the services may say of it when it is scored
  Histories,       \* [h, hours]: launches of the hours the regime filter knows
  TradeEvents,     \* [wallet, side, sol] of the trades that may be heard
  Cooldown,        \* BUY_COOLDOWN_SECONDS
  BundleWait,      \* the longest wait for a bundle's decision
  TradeMax,        \* maxsize of the trade queue
  MaxTrades, MaxRare       \* bounds of the environment

\* The scorer waits five seconds for a decision that takes ten: only the
\* cooldown before it makes the decision precede the score.
ASSUME CooldownAssumption == Cooldown + BundleWait > Window

ASSUME PipelineAssumption ==
  /\ {Cooldown, BundleWait, Window, MaxTrades, MaxRare} \subseteq Nat /\ TradeMax \in Nat \ {0}
  /\ TradeEvents \subseteq [wallet : Wallets, side : {"buy", "sell"}, sol : Nat]
  /\ DOMAIN Features = Tokens

VARIABLES
  stage,      \* where the task of a token is
  waited,     \* how long it has slept there
  scored,     \* what the score leaves on the token
  trades,     \* trade_queue
  held,       \* RiskManager.positions, and their file
  stop,       \* emergency_stop_active, and its file
  rugged,     \* history: the rugs written, by the signature of the raw score
  offers,     \* history: how often a token entered the raw queue
  left        \* what the environment may still do

tasks == <<stage, waited, scored, trades>>
desk  == <<held, stop>>
past  == <<rugged, offers>>
vars  == <<stream, intel, learned, tasks, desk, past, left>>

Budget == [trades |-> MaxTrades, rare |-> MaxRare]

Spend(what) == left[what] > 0 /\ left' = [left EXCEPT ![what] = @ - 1]

\* Rare: a lost connection, an exception, a file that cannot be written, a
\* stop, a restart, a run of the tuner, a leg that is sold.
Writes(written) == IF written THEN UNCHANGED left ELSE Spend("rare")

NoScore    == [sig |-> <<>>, key |-> <<>>, capped |-> FALSE]
NoPosition == [sig |-> <<>>, key |-> <<>>, known |-> FALSE]

Init ==
  /\ StreamInit /\ IntelInit /\ LearningInit
  /\ stage = [k \in Tokens |-> "none"] /\ waited = [k \in Tokens |-> 0]
  /\ scored = [k \in Tokens |-> NoScore] /\ trades = <<>>
  /\ held = [m \in Mints |-> NoPosition] /\ stop = FALSE
  /\ rugged = <<>> /\ offers = [k \in Tokens |-> 0]
  /\ left = Budget

----------------------------------------------------------------------------
(* The feeds                                                               *)

Offered(k) == offers' = [offers EXCEPT ![k] = @ + 1]

Link ==
  /\ \/ Connect /\ UNCHANGED left
     \/ Disconnect /\ Spend("rare")
  /\ UNCHANGED <<intel, learned, tasks, desk, past>>

Launch(m) ==
  /\ Announce(m) /\ OnCreate(m) /\ Offered(New(m))
  /\ UNCHANGED <<learned, tasks, desk, rugged, left>>

HearTrade(m, x) ==
  /\ HearsTrades(m) /\ OnTrade(m, x.wallet, x.side, x.sol) /\ Spend("trades")
  /\ UNCHANGED <<stream, learned, tasks, desk, past>>

Listed(l) ==
  /\ Find(l) /\ Offered(l)
  /\ UNCHANGED <<intel, learned, tasks, desk, rugged, left>>

Feeds ==
  /\ \/ ReaderPuts \/ ScannerPuts
     \/ \E m \in Mints : Subscribe(m) \/ Unsubscribe(m)
  /\ UNCHANGED <<intel, learned, tasks, desk, past, left>>

Decide(m) ==
  /\ DecideBundle(m)
  /\ UNCHANGED <<stream, learned, tasks, desk, past, left>>

----------------------------------------------------------------------------
(* The task of a token                                                     *)

MoveTo(k, s) == stage' = [stage EXCEPT ![k] = s]
Forget(k)    == scored' = [scored EXCEPT ![k] = NoScore]
FromStream(k) == k.src = "stream"
CreatorOfToken(k) == CreatorOf[k.mint]

Take ==
  /\ TakeRaw
  /\ MoveTo(Head(raw), "waiting") /\ waited' = [waited EXCEPT ![Head(raw)] = 0]
  /\ UNCHANGED <<intel, learned, scored, trades, desk, past, left>>

\* Mutant: the optional cooldown is switched off.
NoCooldown == 0

Asleep == Cooldown

Cooled(k) == waited[k] >= Asleep

\* What the bot knows before it asks the rug memory; a listing names no
\* creator.
Known(k, quiet) ==
  LET m == k.mint
      w == CreatorOfToken(k)
      known == FromStream(k)
  IN [bonus |-> IF known THEN Bonus(AfterLaunch(w), w) ELSE 0,
      smartCreator |-> known /\ w \in smart,
      botCreator |-> known /\ IsBot(w),
      losingCreator |-> known /\ LosingCreator(w),
      smart |-> SmartBuyers(m), noise |-> NoiseBuyers(m),
      whales |-> WhaleBuyers(m), whaleSol |-> WhaleVolume(m),
      bundled |-> decided[m] = "bundled", botBuyer |-> m \in targeted,
      quiet |-> quiet, offset |-> Shift, rugs |-> 0]

WithRugs(t, c) == [c EXCEPT !.rugs = Recorded(Signature(t, RawScore(t, c)))]

\* Mutant: rugs are remembered under the score after fusion and penalty.
KeyOfEffective(t, raw_score, effective) == Signature(t, effective)

KeyOf(t, raw_score, effective) == Signature(t, raw_score)

Result(t, c) ==
  [sig |-> Signature(t, RawScore(t, c)), key |-> KeyOf(t, RawScore(t, c), Effective(t, c)),
   capped |-> t.cap > 0]

Entry(k, result) == [token |-> k, sig |-> result.sig, key |-> result.key, capped |-> result.capped]

\* After the cooldown the bundle is waited for, but not for long.
Scorable(k) ==
  /\ stage[k] = "waiting" /\ Cooled(k)
  /\ ~ Pending(k.mint) \/ waited[k] >= Asleep + BundleWait

Quiet == {RegimePauses(x.h, x.hours) : x \in Histories}

\* Only a listing is old enough to be looked up; only a launch the stream has
\* announced is polled, and its polls may not have begun.
LookedUp(k) == IF FromStream(k) THEN Features[k] ELSE {Enriched(t, a) : t \in Features[k], a \in Answers}

Sights(k) ==
  LookedUp(k) \cup (IF k.mint \in seen THEN {Polled(t, p) : t \in LookedUp(k), p \in Polls} ELSE {})

Launches(k) == IF FromStream(k) THEN RecordLaunch(CreatorOfToken(k)) ELSE UNCHANGED creators

\* The launch is counted before the score is computed.
Score(k, t, quiet) ==
  /\ Scorable(k)
  /\ Launches(k)
  /\ \E b \in {Known(k, quiet)} : \E c \in {WithRugs(t, b)} :
     IF Wanted(t, c)
     THEN MoveTo(k, "checking") /\ scored' = [scored EXCEPT ![k] = Result(t, c)] /\ UNCHANGED rejected
     ELSE MoveTo(k, "rejected") /\ Reject(Entry(k, Result(t, c))) /\ UNCHANGED scored
  /\ UNCHANGED <<stream, intel, memory, tuning, waited, trades, desk, past, left>>

\* The task dies with an exception: the token is neither bought nor
\* rejected.
ScoreFails(k) ==
  /\ Scorable(k) /\ Spend("rare") /\ Launches(k)
  /\ MoveTo(k, "over")
  /\ UNCHANGED <<stream, intel, memory, rejected, tuning, waited, scored, trades, desk, past>>

Offer(k) ==
  IF Len(trades) < TradeMax THEN trades' = Append(trades, k) /\ MoveTo(k, "queued")
  ELSE MoveTo(k, "putting") /\ UNCHANGED trades

\* The holders and the freeze authority.  A node that does not answer passes
\* the token.
CheckHolders(k, passes) ==
  /\ stage[k] = "checking"
  /\ IF passes THEN Offer(k) /\ UNCHANGED <<rejected, scored>>
     ELSE MoveTo(k, "rejected") /\ Reject(Entry(k, scored[k])) /\ Forget(k) /\ UNCHANGED trades
  /\ UNCHANGED <<stream, intel, memory, creators, tuning, waited, desk, past, left>>

PutTrade(k) ==
  /\ stage[k] = "putting" /\ Len(trades) < TradeMax
  /\ Offer(k)
  /\ UNCHANGED <<stream, intel, learned, waited, scored, desk, past, left>>

----------------------------------------------------------------------------
(* The trade loop                                                          *)

Idle == \A k \in Tokens : stage[k] # "buying"

\* Mutant: tokens stay in the queue while trading is stopped.
ReadyUnlessStopped == trades # <<>> /\ ~ stop

Ready == trades # <<>>

\* A stop, a listed creator or the risk manager refuse the token; the other
\* tokens are bought one at a time.
TakeTrade(accepted) ==
  /\ Idle /\ Ready /\ trades' = Tail(trades)
  /\ accepted => ~ stop
  /\ MoveTo(Head(trades), IF accepted THEN "buying" ELSE "over")
  /\ IF accepted THEN UNCHANGED scored ELSE Forget(Head(trades))
  /\ UNCHANGED <<stream, intel, learned, waited, desk, past, left>>

\* A position of the mint is replaced.
BuyEnds(k, success) ==
  /\ stage[k] = "buying"
  /\ IF success
     THEN /\ MoveTo(k, "bought")
          /\ held' = [held EXCEPT ![k.mint] = [sig |-> scored[k].sig, key |-> scored[k].key,
                                               known |-> FromStream(k)]]
     ELSE MoveTo(k, "over") /\ UNCHANGED held
  /\ Forget(k)
  /\ UNCHANGED <<stream, intel, learned, waited, trades, stop, past, left>>

SetStop(on) ==
  /\ stop' = on /\ stop # on /\ Spend("rare")
  /\ UNCHANGED <<stream, intel, learned, tasks, held, past>>

----------------------------------------------------------------------------
(* What is learned                                                         *)

Learn(entry, is_rug, written) ==
  IF is_rug
  THEN /\ RecordRug(entry.key, written) /\ Writes(written)
       /\ rugged' = IF written THEN Append(rugged, entry.sig) ELSE rugged
  ELSE written /\ UNCHANGED <<memory, rugged, left>>

\* Thousandths of a SOL: the close of a position, by how it ended.
Profit == [won |-> 20, lost |-> -3, rugged |-> -20]

LegProfit == [won \in BOOLEAN |-> IF won THEN 10 ELSE -3]

Close(m, how, written) ==
  /\ held[m] # NoPosition
  /\ held' = [held EXCEPT ![m] = NoPosition]
  /\ closed' = Append(closed, how = "won")
  /\ IF held[m].known THEN RecordResult(CreatorOf[m], Profit[how]) ELSE UNCHANGED creators
  /\ Attribute(m, how = "won")
  /\ Learn(held[m], how = "rugged", written)
  /\ UNCHANGED <<stream, bought, watch, whales, rejected, offset, savedOffset, tasks, stop, offers>>

\* A leg sells a part of the position: a result of its own for the tuner and
\* the creator, and nothing for the wallets and the rug memory.
SellLeg(m, won) ==
  /\ held[m] # NoPosition /\ Spend("rare")
  /\ closed' = Append(closed, won)
  /\ IF held[m].known THEN RecordResult(CreatorOf[m], LegProfit[won]) ELSE UNCHANGED creators
  /\ UNCHANGED <<stream, intel, memory, rejected, offset, savedOffset, tasks, desk, past>>

Resolve(answer, written) ==
  /\ batch # <<>>
  /\ LET e == Head(batch) IN
     /\ Attribute(e.token.mint, Outcome(e, answer) = "pumped")
     /\ Learn(e, Outcome(e, answer) = "rugged", written)
  /\ EntryDone
  /\ UNCHANGED <<stream, bought, watch, whales, creators, tuning, tasks, desk, offers>>

Tune(written) ==
  /\ Evaluate(written) /\ Spend("rare")
  /\ UNCHANGED <<stream, intel, memory, rejected, creators, tasks, desk, past>>

----------------------------------------------------------------------------
(* Time and restarts                                                       *)

Sleeping(k) == stage[k] = "waiting"

SomethingDue ==
  \/ raw # <<>> \/ reader # NoToken \/ scanner # NoToken
  \/ SubscriptionDue
  \/ \E m \in Mints : WindowOver(m)
  \/ \E k \in Tokens : Scorable(k)

SomethingRuns ==
  \/ \E m \in Mints : Running(m) \/ Pending(m)
  \/ \E k \in Tokens : Sleeping(k)

\* Ten minutes are longer than any sleep of a token.
BecomeDue(n) ==
  /\ ~ SomethingRuns /\ TakeDue(n)
  /\ UNCHANGED <<stream, intel, memory, creators, tuning, tasks, desk, past, left>>

Tick ==
  /\ ~ SomethingDue /\ SomethingRuns
  /\ SubscriptionsAge /\ WindowsAge
  /\ waited' = [k \in Tokens |-> IF Sleeping(k) THEN waited[k] + 1 ELSE waited[k]]
  /\ UNCHANGED <<learned, stage, scored, trades, desk, past, left>>

\* Positions, the stop and what was learned survive; tokens on their way do
\* not.
Restart(saved, clean) ==
  /\ Spend("rare")
  /\ StreamRestart /\ IntelRestart(saved, clean) /\ LearningRestart(clean)
  /\ stage' = [k \in Tokens |-> "none"] /\ waited' = [k \in Tokens |-> 0]
  /\ scored' = [k \in Tokens |-> NoScore] /\ trades' = <<>>
  /\ offers' = [k \in Tokens |-> 0]
  /\ UNCHANGED <<desk, rugged>>

----------------------------------------------------------------------------
Progress ==
  \/ Feeds \/ Take \/ Tick
  \/ \E m \in Mints : Decide(m)
  \/ \E k \in Tokens : PutTrade(k)
  \/ \E k \in Tokens : \E t \in Sights(k), quiet \in Quiet : Score(k, t, quiet)
  \/ \E k \in Tokens, b \in BOOLEAN : CheckHolders(k, b) \/ BuyEnds(k, b)
  \/ \E b \in BOOLEAN : TakeTrade(b)

Environment ==
  \/ Link
  \/ \E m \in Launched : Launch(m) \/ \E x \in TradeEvents : HearTrade(m, x)
  \/ \E l \in Listings : Listed(l)
  \/ \E k \in Tokens : ScoreFails(k)
  \/ \E b \in BOOLEAN : SetStop(b) \/ Tune(b)
  \/ \E m \in Mints, b \in BOOLEAN : SellLeg(m, b)
  \/ \E m \in Mints, how \in DOMAIN Profit, b \in BOOLEAN : Close(m, how, b)
  \/ \E n \in 1..Len(pending) : BecomeDue(n)
  \/ \E a \in {"pumped", "flat", "rugged", "none"}, b \in BOOLEAN : Resolve(a, b)
  \/ \E saved, clean \in BOOLEAN : (clean => saved) /\ Restart(saved, clean)

Next == Progress \/ Environment

Spec == Init /\ [][Next]_vars
----------------------------------------------------------------------------
(* Properties                                                              *)

\* Every value has its type; the queues keep their bounds, a token is in the
\* trade queue when its task says so, and the threshold stays in its band.
TypeOK ==
  /\ StreamOK /\ IntelOK /\ LearningOK
  /\ stage \in [Tokens -> {"none", "waiting", "checking", "putting", "queued",
                           "buying", "bought", "rejected", "over"}]
  /\ waited \in [Tokens -> 0..Cooldown + BundleWait]
  /\ Len(trades) <= TradeMax /\ {trades[i] : i \in DOMAIN trades} = {k \in Tokens : stage[k] = "queued"}
  /\ stop \in BOOLEAN
  /\ \A what \in DOMAIN Budget : left[what] \in 0..Budget[what]

\* A feed offers a token once in the life of the process, whatever the
\* connection does (seen_mints, TrendingScanner.seen).
OfferedOnce == \A k \in Tokens : offers[k] <= 1

\* The server streams the trades of a mint only while a task of the bot will
\* give the subscription back: subscriptions do not pile up over reconnects.
SubscriptionsExpire == subs \subseteq {m \in Mints : Running(m)}

TokensOf(entries) == {entries[i].token : i \in DOMAIN entries}

\* As long as the cap has cut nothing off, every rejected token is waiting
\* for its outcome or has got one, once.
RejectionsAccounted ==
  ~ overflowed =>
    /\ {k \in Tokens : stage[k] = "rejected"} = TokensOf(pending) \cup TokensOf(batch) \cup settled
    /\ Cardinality(TokensOf(pending) \cup TokensOf(batch) \cup settled)
         = Len(pending) + Len(batch) + Cardinality(settled)

Accepts(k) == stage[k] = "waiting" /\ stage'[k] = "checking"

\* A launch is accepted only when its first buyers have been judged, and a
\* bundle only when two of them are smart: the score never overtakes the
\* ten seconds wallet_intel needs.
BundleDecidedFirst ==
  [][\A k \in Tokens : Accepts(k) /\ FromStream(k) =>
       /\ ~ Pending(k.mint) /\ decided[k.mint] # "unknown"
       /\ decided[k.mint] = "bundled" => SmartBuyers(k.mint) >= 2]_vars

\* A pattern that has rugged often enough is refused, if that is limited: what is remembered of
\* a position or of a rejected token, days later or after a restart, is found
\* again under the same key.
RuggedPatternRefused ==
  [][\A k \in Tokens : Accepts(k) /\ RugHardRejectMatches > 0 =>
       Cardinality({i \in DOMAIN rugged : rugged[i] = scored'[k].sig}) < RugHardRejectMatches]_vars

Settled == {"none", "bought", "rejected", "over"}

\* While a token is on its way the bot has a step of its own to take: no
\* queue, wait or stop can hold a token for good.  Each of these steps brings
\* a token, a timer or a subscription further.
NeverStuck == (\E k \in Tokens : stage[k] \notin Settled) => ENABLED Progress
=============================================================================
