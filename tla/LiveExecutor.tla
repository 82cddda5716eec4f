---------------------------- MODULE LiveExecutor ---------------------------
(* The parts of PumpPortalExecutor, TradeExecutor and SolanaWallet that    *)
(* talk to the RPC endpoints: sending a transaction, waiting for it and    *)
(* reading a balance.                                                      *)
EXTENDS SolanaChain

CONSTANTS
  Endpoints,      \* the configured RPC endpoints
  ConfirmWait     \* ticks _confirm polls for

VARIABLES
  known,          \* SolanaWallet._last_known_balance; 0 before any read
  buySize,        \* PumpPortalExecutor._buy_size_for_mint; 0 is no entry
  left            \* what is left of the bounds on buys, faults and crashes

Fault == left.faults > 0 /\ left' = [left EXCEPT !.faults = @ - 1]

\* What each endpoint does with a sendTransaction: it returns the signature,
\* refuses, or takes the transaction while its answer is lost.
Answers == [Endpoints -> {"signature", "refused", "lost"}]
Taken(a)    == \E e \in Endpoints : a[e] # "refused"
Answered(a) == \E e \in Endpoints : a[e] = "signature"

\* Jupiter's transactions go to one endpoint, PumpPortal's to all.
Alone(a) == \A e, f \in Endpoints : a[e] = a[f]

\* _sign_and_send of transaction i, raced over the endpoints.
Send(i, a) ==
  /\ txs' = [txs EXCEPT ![i].status = IF @ = "built" /\ Taken(a) THEN "sent" ELSE @]
  /\ IF Answered(a) THEN UNCHANGED left ELSE Fault

\* Mutant: running out of time counts as confirmed.
ConfirmedOrLate(p) == txs[p.tx].status # "failed"

\* _confirm sees that the transaction of p executed, or that it failed, or
\* gives up on one that may execute later.
Confirmed(p) == txs[p.tx].status = "landed"

Unconfirmed(p) == txs[p.tx].status = "failed" \/ p.wait >= ConfirmWait

\* get_sol_balance: a failed read answers with the last good one.
ReadBalance(b) ==
  \/ b = wallet.sol /\ known' = b /\ UNCHANGED left
  \/ b = known /\ Fault /\ UNCHANGED known

\* The SOL credited by transaction i, read from its receipt; the read may
\* fail over all its attempts, and answers 0.
ReadReceipt(i, sol) ==
  \/ sol = txs[i].amount /\ UNCHANGED left
  \/ sol = 0 /\ Fault
=============================================================================
