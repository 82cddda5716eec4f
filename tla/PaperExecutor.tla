--------------------------- MODULE PaperExecutor ---------------------------
(***************************************************************************)
(* The simulated venue of a paper session: PaperWallet and PaperExecutor   *)
(* (trader/paper_wallet.py, trader/paper_executor.py).  The wallet is one  *)
(* number kept in memory and in a file rewritten in place; the executor    *)
(* keeps, in memory only, the last quote and the holding of every mint.    *)
(* Nothing in a call of the executor yields to the event loop.             *)
(* Amounts are in units of 0.0005 SOL, quotes in hundredths of that unit   *)
(* per token, slippage in thousandths.                                     *)
(***************************************************************************)
EXTENDS Integers, FiniteSets

CONSTANTS Mints,          \* mints the session may trade
          StartBalance,   \* the seed of a fresh wallet
          CurveSol,       \* SOL in a bonding curve (v_sol_in_bonding)
          BuyFeeCap,      \* PRIORITY_FEE_SOL
          SellFeeCap,     \* SELL_PRIORITY_FEE_SOL
          StampedeMult    \* STAMPEDE_MULT_STALL

ASSUME PaperExecutorAssumption ==
    /\ IsFiniteSet(Mints)
    /\ {StartBalance, BuyFeeCap, SellFeeCap, StampedeMult} \subseteq Nat
    /\ CurveSol \in Nat \ {0}

VARIABLES bal,     \* PaperWallet._balance
          quote,   \* PaperExecutor._prices, 0 for a mint never quoted
          held     \* PaperExecutor._tokens_held, 0 for a mint not held

venue == <<bal, quote, held>>

LeastOf(a, b) == IF a <= b THEN a ELSE b
MostOf(a, b)  == IF a >= b THEN a ELSE b

(* Fees: 5 % of the trade between a floor and a cap on a buy; on a sell    *)
(* 5 % above 0.1 SOL and a flat fallback below.                            *)
BuyFee(sol) == LeastOf(BuyFeeCap, MostOf((sol * 5) \div 100, 1))

SellFee(value) ==
    LeastOf(SellFeeCap, IF value > 200 THEN (value * 5) \div 100 ELSE 2)

(* Slippage and sandwich tax grow with the share of the curve traded.      *)
Slippage(sol) == 25 + (600 * LeastOf(sol, CurveSol)) \div CurveSol
MevTax(sol)   == 5 + (400 * LeastOf(sol, CurveSol)) \div CurveSol

TokensFor(sol, price) ==
    (sol * 100000) \div (price * (1000 + Slippage(sol) + MevTax(sol)))

Value(tokens, price) == (tokens * price) \div 100

(* "25%" of what is held, rounded down as int() does.                      *)
Resolve(m, pct) == (held[m] * pct) \div 100

(* The credit of a sale: the drag is clamped at 95 %.                      *)
Proceeds(tokens, price, mult) ==
    LET gross == Value(tokens, price)
        drag  == LeastOf(Slippage(gross) * mult + MevTax(gross), 950)
    IN (gross * (1000 - drag)) \div 1000

(* The prices a stampede exit may be filled at: a recorded one from a      *)
(* moment ago, never better than the last quote.  Other exits take the     *)
(* last quote.                                                             *)
FillPrices(m, stampede, history) ==
    IF stampede /\ history # {}
    THEN {LeastOf(p, quote[m]) : p \in history}
    ELSE {quote[m]}

After(balance, spent) == MostOf(balance - spent, 0)

VenueInit ==
    /\ bal = StartBalance
    /\ quote = [m \in Mints |-> 0]
    /\ held = [m \in Mints |-> 0]

Quote(m, p) ==
    /\ quote' = [quote EXCEPT ![m] = p]
    /\ UNCHANGED <<bal, held>>

ChargeFee(fee) ==
    /\ bal' = After(bal, fee)
    /\ UNCHANGED <<quote, held>>

(* A filled buy, its fee deducted before its price, replaces the holding;  *)
(* it does not add to it.                                                  *)
FillBuy(m, sol, price) ==
    /\ quote' = [quote EXCEPT ![m] = price]
    /\ held' = [held EXCEPT ![m] = TokensFor(sol, price)]
    /\ bal' = After(After(bal, BuyFee(sol)), sol)

FillSell(m, tokens, fee, credit) ==
    /\ bal' = After(bal, fee) + credit
    /\ held' = [held EXCEPT ![m] = MostOf(held[m] - tokens, 0)]
    /\ UNCHANGED quote

(* A new process reads the balance last written from the file, which a     *)
(* crash inside a write leaves unreadable (then the wallet is seeded       *)
(* afresh), and knows no quote and no holding.                             *)
VenueRestart(balance, torn) ==
    /\ bal' \in IF torn THEN {balance, StartBalance} ELSE {balance}
    /\ quote' = [m \in Mints |-> 0]
    /\ held' = [m \in Mints |-> 0]

VenueTypeOK ==
    /\ bal \in Nat
    /\ quote \in [Mints -> Nat]
    /\ held \in [Mints -> Nat]
=============================================================================
