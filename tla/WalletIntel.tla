---------------------------- MODULE WalletIntel -----------------------------
(* wallet_intel.py and whale_tracker.py: who bought a launch in its first  *)
(* seconds, which wallets are bots, smart, noise or whales.  Both listen   *)
(* to the same events of the stream and both watch a launch for ten        *)
(* seconds, so one window serves both.                                     *)
EXTENDS LaunchStream, FiniteSets, SequencesExt

CONSTANTS
  Wallets,
  CreatorOf,             \* the wallet that launches a mint
  KnownOutcomes,         \* wallet_outcomes.json at the start
  Window,                \* BUNDLE_WINDOW_S and WHALE_WINDOW_S, in ticks
  BotWalletThreshold, BundleBuyerLimit,
  SmartWalletMinBuys, SmartWalletWinPct,
  NoiseWalletMinBuys, NoiseWalletMaxWinPct,
  MaxOutcomes,           \* MAX_OUTCOMES_PER_WALLET
  WhaleMinLifetime, WhaleMinAverage,     \* hundredths of a SOL
  MaxTracked             \* WHALE_MAX_TRACKED

ASSUME WalletAssumption ==
  /\ CreatorOf \in [Mints -> Wallets]
  /\ KnownOutcomes \in [Wallets -> Seq(BOOLEAN)]
  /\ \A w \in Wallets : Len(KnownOutcomes[w]) <= MaxOutcomes
  /\ {Window, BundleBuyerLimit, BotWalletThreshold, MaxOutcomes, MaxTracked} \subseteq Nat

VARIABLES
  bought,      \* _wallets: buys counted, up to the threshold
  window,      \* _observing and _bundles: how long the launch is watched, or -1
  buyers,      \* _bundles[mint].early_buyers
  decided,     \* _bundle_decided
  targeted,    \* _bot_buyer_mints
  early,       \* _mint_buyers
  outcomes,    \* _outcomes: did the mint pump; latest last
  smart, noise,
  rows,        \* WhaleTracker._wallets, least recently seen first
  whaleSol     \* WhaleTracker._mint_buyers: SOL by mint and whale

classes == <<outcomes, smart, noise>>
watch   == <<window, buyers, decided, targeted, early>>
whales  == <<rows, whaleSol>>
intel   == <<bought, watch, classes, whales>>

----------------------------------------------------------------------------
(* Classes                                                                 *)

Wins(outs) == Cardinality({i \in DOMAIN outs : outs[i]})

SmartBy(outs) ==
  /\ Len(outs) >= SmartWalletMinBuys
  /\ 100 * Wins(outs) >= SmartWalletWinPct * Len(outs)

NoiseBy(outs) ==
  /\ Len(outs) >= SmartWalletMinBuys /\ ~ SmartBy(outs)
  /\ Len(outs) >= NoiseWalletMinBuys
  /\ 100 * Wins(outs) < NoiseWalletMaxWinPct * Len(outs)

\* Mutant: the history of a wallet grows without bound.
AllOfThem(outs) == outs

Latest(outs) ==
  IF Len(outs) > MaxOutcomes THEN SubSeq(outs, Len(outs) - MaxOutcomes + 1, Len(outs)) ELSE outs

Reclassified(all) ==
  /\ smart' = {w \in Wallets : SmartBy(all[w])}
  /\ noise' = {w \in Wallets : NoiseBy(all[w])}

\* attribute_outcome: every early buyer gets the outcome; the classes are
\* drawn up again only when some wallet reaches the least number of them.
Attribute(m, pumped) ==
  /\ outcomes' = [w \in Wallets |-> IF w \in early[m] THEN Latest(Append(outcomes[w], pumped))
                                    ELSE outcomes[w]]
  /\ IF \E w \in early[m] : Len(outcomes[w]) + 1 = SmartWalletMinBuys
     THEN Reclassified(outcomes') ELSE UNCHANGED <<smart, noise>>

\* What the scorer asks.
Pending(m) == window[m] >= 0
IsBot(w)   == bought[w] >= BotWalletThreshold
SmartBuyers(m) == Cardinality(early[m] \cap smart)
NoiseBuyers(m) == Cardinality(early[m] \cap noise)
WhaleBuyers(m) == Cardinality({w \in Wallets : whaleSol[m][w] > 0})
WhaleVolume(m) == FoldFunction(LAMBDA x, y : x + y, 0, whaleSol[m])

----------------------------------------------------------------------------
(* Events of the stream                                                    *)

Counted(w) == [bought EXCEPT ![w] = IF @ < BotWalletThreshold THEN @ + 1 ELSE @]

OnCreate(m) ==
  /\ bought' = Counted(CreatorOf[m])
  /\ window' = [window EXCEPT ![m] = 0]
  /\ buyers' = [buyers EXCEPT ![m] = {}]
  /\ UNCHANGED <<decided, targeted, early, classes, whales>>

\* The rows are kept in the order they were last seen.
RowsOf(w) == {i \in DOMAIN rows : rows[i].wallet = w}
RowOf(w)  == CHOOSE i \in RowsOf(w) : TRUE
OtherRows(w) == IF RowsOf(w) = {} THEN rows ELSE RemoveAt(rows, RowOf(w))

IsWhale(r) ==
  \/ r.buys >= WhaleMinLifetime
  \/ r.buys >= WhaleMinAverage * (IF r.trades > 1 THEN r.trades ELSE 1)

Traded(w, side, sol) ==
  LET old == IF RowsOf(w) = {} THEN [wallet |-> w, buys |-> 0, trades |-> 0] ELSE rows[RowOf(w)]
  IN [old EXCEPT !.trades = @ + 1, !.buys = IF side = "buy" THEN @ + sol ELSE @]

\* Past the cap the wallet that is no whale and was seen longest ago goes,
\* or the oldest one if all are whales.
Evicted(all) ==
  LET plain == {i \in DOMAIN all : ~ IsWhale(all[i])}
      oldest == CHOOSE i \in plain : \A j \in plain : i <= j
  IN IF Len(all) <= MaxTracked THEN all
     ELSE IF plain = {} THEN Tail(all) ELSE RemoveAt(all, oldest)

\* WhaleTracker._on_trade, of a mint the stream has announced.
OnWhaleTrade(m, w, side, sol) ==
  LET row == Traded(w, side, sol) IN
  /\ rows' = Evicted(Append(OtherRows(w), row))
  /\ whaleSol' = IF side = "buy" /\ Pending(m) /\ IsWhale(row)
                 THEN [whaleSol EXCEPT ![m][w] = @ + sol] ELSE whaleSol

\* WalletIntel._on_buy, which is called for sells as well.
OnTrade(m, w, side, sol) ==
  /\ bought' = Counted(w)
  /\ buyers' = IF Pending(m) /\ w # CreatorOf[m]
               THEN [buyers EXCEPT ![m] = @ \cup {w}] ELSE buyers
  /\ OnWhaleTrade(m, w, side, sol)
  /\ UNCHANGED <<window, decided, targeted, early, classes>>

\* _finalize_bundle, when the window is over.
WindowOver(m) == window[m] >= Window

DecideBundle(m) ==
  /\ WindowOver(m)
  /\ window' = [window EXCEPT ![m] = -1]
  /\ decided' = [decided EXCEPT ![m] =
                   IF Cardinality(buyers[m]) >= BundleBuyerLimit THEN "bundled" ELSE "clean"]
  /\ early' = [early EXCEPT ![m] = IF buyers[m] = {} THEN @ ELSE buyers[m]]
  /\ targeted' = targeted \cup {x \in {m} : \E w \in buyers[m] : IsBot(w)}
  /\ buyers' = [buyers EXCEPT ![m] = {}]
  /\ UNCHANGED <<bought, classes, whales>>

WindowsAge ==
  /\ window' = [m \in Mints |-> IF Pending(m) THEN window[m] + 1 ELSE -1]
  /\ UNCHANGED <<bought, buyers, decided, targeted, early, classes, whales>>

----------------------------------------------------------------------------
(* Start and restart                                                       *)

NoWhales == [m \in Mints |-> [w \in Wallets |-> 0]]
Nothing  == [m \in Mints |-> "unknown"]

IntelInit ==
  /\ bought = [w \in Wallets |-> 0]
  /\ window = [m \in Mints |-> -1] /\ buyers = [m \in Mints |-> {}]
  /\ decided = Nothing /\ targeted = {} /\ early = [m \in Mints |-> {}]
  /\ outcomes = KnownOutcomes
  /\ smart = {w \in Wallets : SmartBy(outcomes[w])}
  /\ noise = {w \in Wallets : NoiseBy(outcomes[w])}
  /\ rows = <<>> /\ whaleSol = NoWhales

\* The early buyers are appended to their file at once and survive, and so
\* does what the last save wrote: it is taken to be all of it or nothing.
\* Wallets with a single buy are not written.  A clean stop saves everything
\* but the rows of the whales.
IntelRestart(saved, clean) ==
  /\ window' = [m \in Mints |-> -1] /\ buyers' = [m \in Mints |-> {}]
  /\ IF saved \/ clean
     THEN /\ bought' = [w \in Wallets |-> IF bought[w] >= 2 THEN bought[w] ELSE 0]
          /\ UNCHANGED <<decided, targeted>>
     ELSE bought' = [w \in Wallets |-> 0] /\ decided' = Nothing /\ targeted' = {}
  /\ rows' = IF saved THEN rows ELSE <<>>
  /\ outcomes' = IF clean THEN outcomes ELSE KnownOutcomes
  /\ Reclassified(outcomes')
  /\ whaleSol' = NoWhales
  /\ UNCHANGED early

IntelOK ==
  /\ bought \in [Wallets -> 0..BotWalletThreshold]
  /\ window \in [Mints -> -1..Window]
  /\ {buyers, early} \subseteq [Mints -> SUBSET Wallets]
  /\ decided \in [Mints -> {"unknown", "clean", "bundled"}] /\ targeted \subseteq Mints
  /\ \A w \in Wallets : Len(outcomes[w]) <= MaxOutcomes
  /\ smart \cup noise \subseteq Wallets /\ smart \cap noise = {}
  /\ Len(rows) <= MaxTracked
=============================================================================
