------------------------------ MODULE Scoring -------------------------------
(* What signal_scorer.py computes of one token: the four factors, the      *)
(* fusion of signal_fusion.py, the signature and the penalty of            *)
(* rug_memory.py, the regime filter and the hard filters.                  *)
(*                                                                         *)
(* t is what the token says of itself, c what the bot knows of it when it  *)
(* is scored.  SOL amounts are in hundredths, shares and changes in        *)
(* percent; a source that did not answer leaves its fields at zero.        *)
EXTENDS Integers, FiniteSets

CONSTANTS
  MinBuyScore,
  FusionMaxBonus, FusionMaxPenalty,
  RugMatchMinRugs, RugMaxPenalty, RugHardRejectMatches,
  MaxInitialBuy,            \* hundredths of a SOL
  MaxBondingCurvePct, AthRatioRejectBelow,
  RegimeMinHours, RegimePauseRatio          \* hours, percent

ASSUME ScoringAssumption ==
  /\ {FusionMaxBonus, FusionMaxPenalty, RugMaxPenalty} \subseteq Nat
  /\ {RugMatchMinRugs, RugHardRejectMatches, MinBuyScore} \subseteq Nat
  /\ {MaxInitialBuy, MaxBondingCurvePct, AthRatioRejectBelow} \subseteq Nat
  /\ {RegimeMinHours, RegimePauseRatio} \subseteq Nat

\* A rung of a ladder: x from the threshold a on, y below it.
From(v, a, x, y) == IF v >= a THEN x ELSE y
When(b, x)       == IF b THEN x ELSE 0
AtMost(x, y)     == IF x < y THEN x ELSE y
AtLeast(x, y)    == IF x > y THEN x ELSE y

----------------------------------------------------------------------------
(* What the services add to a token before it is scored                    *)

\* A security answer without a top-ten share counts as all of the supply.
RiskFlag(a) == (IF a.top10 = "missing" THEN 100 ELSE a.top10) > 80 \/ a.creatorShare > 20

\* DexScreener's best pair, Birdeye's overview and its security report, each
\* of which may not answer.
Enriched(t, a) ==
  [t EXCEPT !.change5 = IF a.pair THEN a.change5 ELSE @,
            !.change60 = IF a.pair THEN a.change60 ELSE @,
            !.buys = IF a.pair THEN a.buys ELSE @,
            !.sells = IF a.pair THEN a.sells ELSE @,
            !.holders = IF a.overview THEN a.holders ELSE @,
            !.rugRisk = IF a.security THEN RiskFlag(a) ELSE @]

\* The latest poll of pump.fun: its growth is against the poll before it, a
\* token without an all-time high has no ratio, and a spike is a growth of
\* more than 80 percent within the first minute.  Replies on its page count
\* once more as mentions, as long as they are recent.
Growth(p) == IF p.before > 0 THEN ((p.cap - p.before) * 100) \div p.before ELSE 0

Polled(t, p) ==
  [t EXCEPT !.chat = p.replies, !.mentions = @ + p.recent, !.live = p.live, !.twitter = p.twitter,
            !.ath = IF p.top > 0 THEN (100 * p.cap) \div p.top ELSE 0,
            !.velocity = (60 * p.replies) \div AtLeast(1, p.age),
            !.spike = p.age > 0 /\ p.age < 60 /\ Growth(p) > 80]

----------------------------------------------------------------------------
(* The four factors                                                        *)

\* A small first buy of the creator, a complete listing, a creator with a
\* record, and smart or rich wallets among the first buyers.
Creator(t, c) ==
  From(t.buy, 200, -5, From(t.buy, 100, 2, From(t.buy, 60, 4,
    From(t.buy, 30, 8, From(t.buy, 10, 12, 15)))))
  + When(t.image, 3) + When(t.named, 4) + c.bonus
  + From(c.smart, 2, 15, From(c.smart, 1, 8, 0)) + When(c.smartCreator, 8)
  + (IF c.whales >= 2 \/ c.whaleSol >= 300 THEN 10 ELSE When(c.whales = 1, 5))

\* How far the curve is; a fresh one counts by the SOL that is in it.
Curve(t) ==
  (IF t.curve > 0
   THEN From(t.curve, 50, 20, From(t.curve, 30, 15, From(t.curve, 10, 8, From(t.curve, 3, 4, 2))))
   ELSE From(t.sol, 500, 10, From(t.sol, 200, 7, From(t.sol, 50, 4, 2))))
  + When(t.sol > 0 /\ t.buy > 0,
         IF 2 * t.buy >= t.sol THEN 5 ELSE When(5 * t.buy >= t.sol, 3))

Trades(t) == t.buys + t.sells

\* buy_ratio >= pct, of a window with at least five trades.
BuySide(t, pct) == Trades(t) >= 5 /\ 100 * t.buys >= pct * Trades(t)
SellSide(t, pct) == Trades(t) >= 5 /\ 100 * t.buys < pct * Trades(t)

Talk(t) ==
  From(t.holders, 100, 10, From(t.holders, 50, 7, From(t.holders, 20, 4, From(t.holders, 10, 2, 0))))
  + From(t.buys, 30, 5, From(t.buys, 15, 3, From(t.buys, 5, 1, 0)))
  + (IF BuySide(t, 75) THEN 5 ELSE When(BuySide(t, 60), 3))
  + (IF Trades(t) >= 50 \/ t.replies >= 30 THEN 5
     ELSE When(Trades(t) >= 20 \/ t.replies >= 10, 3))
  + From(t.mentions, 5, 5, From(t.mentions, 2, 3, 0))
  + From(t.chat, 30, 6, From(t.chat, 15, 4, From(t.chat, 5, 2, 0)))
  + When(t.live, 3) + When(t.twitter, 1)
  + From(t.velocity, 10, 8, From(t.velocity, 5, 5, From(t.velocity, 2, 2, 0)))
  + (IF t.influencer THEN 10 ELSE When(t.hype, 4))

\* A launch of less than a minute gets a floor, if nothing else counted.
Community(t) == IF t.fresh /\ Talk(t) = 0 THEN 5 ELSE Talk(t)

Moves(t) ==
  (IF t.change5 > 100 THEN 8 ELSE From(t.change5, 5, 15, When(t.change5 > 0, 5)))
  + (IF t.change60 > 50 THEN 10 ELSE IF t.change60 > 20 THEN 5 ELSE When(t.change60 > 0, 2))
  + When(t.cap >= 10 /\ t.cap <= 60, From(t.cap, 25, 5, 3))

Momentum(t) == IF t.fresh /\ Moves(t) = 0 THEN 8 ELSE Moves(t)

RawScore(t, c) ==
  AtMost(100, AtLeast(0, AtMost(25, Creator(t, c))) + AtMost(25, Curve(t))
              + AtMost(25, Community(t)) + AtMost(25, Momentum(t)))

----------------------------------------------------------------------------
(* Fusion: signals that agree, each side with its cap                      *)

Hyped(t) == t.influencer \/ t.hype

Alignment(t, c) ==
  When(Hyped(t) /\ (c.smart >= 1 \/ t.velocity >= 5), 8)
  + When(t.buy < 30 /\ t.curve >= 30 /\ BuySide(t, 70), 7)
  + When(c.smart >= 2 /\ t.chat >= 15 /\ t.velocity >= 2, 8)
  + When(t.buys >= 15 /\ t.change5 > 5 /\ t.holders >= 20, 6)
  + When(t.cap >= 25 /\ t.cap <= 60 /\ c.smart >= 1, 4)
  + When((c.whales >= 1 \/ c.whaleSol >= 200) /\ (c.smart >= 1 \/ BuySide(t, 65)), 7)

Divergence(t, c) ==
  When(t.velocity >= 5 /\ SellSide(t, 40) /\ t.change5 < 0, 8)
  + When(Hyped(t) /\ c.smart = 0 /\ SellSide(t, 50), 5)

Fusion(t, c) ==
  AtMost(FusionMaxBonus, Alignment(t, c)) - AtMost(FusionMaxPenalty, Divergence(t, c))

Fused(t, c) == AtLeast(0, AtMost(100, RawScore(t, c) + Fusion(t, c)))

----------------------------------------------------------------------------
(* Rug memory                                                              *)

\* The bucket key of a token: first buy, curve and score, each in its bin.
Signature(t, score) ==
  << IF t.buy <= 0 THEN 0 ELSE From(t.buy, 200, 5, From(t.buy, 100, 4,
       From(t.buy, 50, 3, From(t.buy, 20, 2, 1)))),
     From(t.curve, 60, 4, From(t.curve, 40, 3, From(t.curve, 20, 2, From(t.curve, 10, 1, 0)))),
     From(score, 40, 3, From(score, 35, 2, From(score, 32, 1, 0))) >>

RugPenalty(rugs) == IF rugs < RugMatchMinRugs THEN 0 ELSE AtMost(RugMaxPenalty, 2 * rugs)

HardReject(rugs) == RugHardRejectMatches > 0 /\ rugs >= RugHardRejectMatches

\* The score the threshold sees: it may be negative.
Effective(t, c) == Fused(t, c) - RugPenalty(c.rugs)

----------------------------------------------------------------------------
(* The regime filter.  h[0] is the count of launches in the last hour,     *)
(* h[i] that of the hour i before it; the baseline is the median of the    *)
(* past hours.  No verdict before the history is long enough.              *)

Past(h) == DOMAIN h \ {0}

\* Half the hours lie on either side of the median, which is one of them:
\* the day has 23 past hours.
Median(h) ==
  CHOOSE v \in {h[i] : i \in Past(h)} :
    /\ 2 * Cardinality({i \in Past(h) : h[i] < v}) <= Cardinality(Past(h))
    /\ 2 * Cardinality({i \in Past(h) : h[i] > v}) <= Cardinality(Past(h))

RegimePauses(h, hours) ==
  /\ hours >= RegimeMinHours
  /\ Median(h) > 0
  /\ 100 * h[0] < RegimePauseRatio * Median(h)

----------------------------------------------------------------------------
(* The hard filters and the threshold                                      *)

PassesHardFilters(t, c) ==
  /\ ~ c.quiet                                \* the regime filter
  /\ ~ t.blacklisted
  /\ t.buy < MaxInitialBuy
  /\ ~ c.losingCreator
  /\ ~ HardReject(c.rugs)
  /\ c.botCreator => c.smartCreator
  /\ c.bundled => c.smart >= 2
  /\ c.botBuyer => c.smart > 0 /\ c.noise <= c.smart
  /\ AthRatioRejectBelow > 0 => ~ (0 < t.ath /\ t.ath < AthRatioRejectBelow)
  /\ t.curve <= MaxBondingCurvePct
  /\ ~ t.rugRisk
  /\ t.buy <= 500
  /\ t.symbol
  /\ t.change5 >= -30
  /\ ~ t.spike

Wanted(t, c) == PassesHardFilters(t, c) /\ Effective(t, c) >= MinBuyScore + c.offset
=============================================================================
