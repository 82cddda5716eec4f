---------------------------- MODULE SolanaChain ----------------------------
(* The chain as the bot meets it: a wallet, one mint with its pool, and    *)
(* the transactions the process has signed.  A signed transaction is       *)
(* decided by its bytes: sending it again sends the same signature.  It    *)
(* executes at any time after some endpoint took it and before its         *)
(* blockhash expires, or not at all.                                       *)
(*                                                                         *)
(* Prices stand still, one unit of SOL per token, but a buy need not fill  *)
(* at the price it was quoted: it pays Lot and brings what it brings.      *)
EXTENDS Integers, Sequences

CONSTANTS
  Lot,            \* the SOL a buy pays, and the tokens it is quoted
  Life,           \* ticks a blockhash is valid for
  MaxTxs          \* bound: transactions ever signed

VARIABLES
  wallet,         \* tokens of the mint and SOL owned
  pool,           \* can the mint be traded?
  txs             \* the transactions signed so far

Ids == 1..MaxTxs
NoTx == 0

\* amount: the tokens it moves, for a buy those it turns out to bring.
\* status: built (bytes only), sent (some endpoint took it), landed or failed.
\* booked: the process has seen it confirmed and put it into its book.
Tx(side, amount, venue) ==
  [side |-> side, amount |-> amount, venue |-> venue, age |-> 0, status |-> "built", booked |-> FALSE]

Sign(side, amount, venue) == Len(txs) < MaxTxs /\ txs' = Append(txs, Tx(side, amount, venue))
Newest == Len(txs) + 1

Pays(tx) == tx.side = "buy" /\ wallet.sol >= Lot
Owns(tx) == tx.side = "sell" /\ 0 < tx.amount /\ wallet.tokens >= tx.amount
Executable(tx) == pool /\ (Pays(tx) \/ Owns(tx))

After(tx) ==
  IF tx.side = "buy" THEN [tokens |-> wallet.tokens + tx.amount, sol |-> wallet.sol - Lot]
  ELSE [tokens |-> wallet.tokens - tx.amount, sol |-> wallet.sol + tx.amount]

Pending(i) == i \in DOMAIN txs /\ txs[i].status = "sent" /\ txs[i].age < Life

Executes(i) ==
  /\ Pending(i) /\ Executable(txs[i])
  /\ wallet' = After(txs[i])
  /\ txs' = [txs EXCEPT ![i].status = "landed", ![i].age = 0]

Fails(i) == Pending(i) /\ txs' = [txs EXCEPT ![i].status = "failed", ![i].age = 0]

\* The liquidity is gone.
Rugged == pool /\ pool' = FALSE

\* Only what may still execute grows older.
Older(tx) ==
  IF tx.status \in {"built", "sent"} /\ tx.age < Life THEN [tx EXCEPT !.age = @ + 1] ELSE tx

Aged == [i \in DOMAIN txs |-> Older(txs[i])]
=============================================================================
