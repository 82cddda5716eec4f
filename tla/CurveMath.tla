----------------------------- MODULE CurveMath -----------------------------
(* The integer arithmetic of trader/local_tx_builder.py: what a swap on a  *)
(* pump.fun bonding curve yields, and the limits put into the transaction. *)
EXTENDS Integers

Bps == 10000

\* Tokens for solIn lamports on a curve with reserves vSol and vToken.
TokensForSol(vSol, vToken, solIn) ==
  IF vSol <= 0 \/ vToken <= 0 \/ solIn <= 0 THEN 0
  ELSE (vToken * solIn) \div (vSol + solIn)

SolForTokens(vSol, vToken, tokensIn) ==
  IF vSol <= 0 \/ vToken <= 0 \/ tokensIn <= 0 THEN 0
  ELSE (vSol * tokensIn) \div (vToken + tokensIn)

AtLeast0(n) == IF n > 0 THEN n ELSE 0

\* The least a swap that is expected to yield `expected` may yield: the
\* buy's token amount and the sell's min_sol_output.
Floor(expected, slippageBps) ==
  IF expected <= 0 THEN 0
  ELSE (expected * AtLeast0(Bps - AtLeast0(slippageBps))) \div Bps

\* The most a buy may cost, rounded up.
MaxSol(amount, slippageBps) ==
  IF amount <= 0 THEN 0
  ELSE (amount * (Bps + AtLeast0(slippageBps)) + Bps - 1) \div Bps

\* The swap a local buy or sale asks for; the builder raises, and the caller
\* falls back to PumpPortal, when there is nothing to ask for.
BuyTerms(vSol, vToken, lamports, slippageBps) ==
  [tokens |-> Floor(TokensForSol(vSol, vToken, lamports), slippageBps),
   limit  |-> MaxSol(lamports, slippageBps)]

SellTerms(vSol, vToken, tokens, slippageBps) ==
  [tokens |-> tokens,
   limit  |-> Floor(SolForTokens(vSol, vToken, tokens), slippageBps)]
=============================================================================
