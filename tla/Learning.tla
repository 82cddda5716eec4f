------------------------------ MODULE Learning ------------------------------
(* What the bot learns from its decisions: the outcomes of rejected tokens *)
(* (counterfactual.py), the signatures that rugged (rug_memory.py), the    *)
(* record of the creators (creator_tracker.py) and the shift of the score  *)
(* threshold (auto_tuner.py).                                              *)
EXTENDS WalletIntel

CONSTANTS
  CreatorTopN, CreatorMinLaunches,
  OffsetMin, OffsetMax, MinSampleSize, LookbackTrades,
  AutoTuneEnabled,
  MaxPending       \* the cap on rejections that wait for their outcome

ASSUME LearningAssumption ==
  /\ {OffsetMin, OffsetMax} \subseteq Int /\ OffsetMin <= 0 /\ OffsetMax >= 0
  /\ MinSampleSize \in Nat \ {0} /\ LookbackTrades \in Nat \ {0} /\ MaxPending \in Nat \ {0}
  /\ IsFiniteSet(Wallets)

VARIABLES
  rugs,        \* RugMemory._counts: the signatures counted
  rugFile,     \* rug_patterns.jsonl
  pending,     \* CounterfactualLogger._pending
  batch,       \* the entries _resolve_due works on
  settled,     \* history: tokens whose outcome was written
  overflowed,  \* history: the cap has cut entries off
  creators,    \* CreatorTracker._db, and its file
  closed,      \* RiskManager.closed_trades: was it won
  offset, savedOffset      \* AutoTuner.offset and auto_tune_state.json

memory   == <<rugs, rugFile>>
rejected == <<pending, batch, settled, overflowed>>
tuning   == <<closed, offset, savedOffset>>
learned  == <<memory, rejected, creators, tuning>>

----------------------------------------------------------------------------
(* Rug memory                                                              *)

Recorded(s) == Cardinality({i \in DOMAIN rugs : rugs[i] = s})

\* The count follows the file: a write that fails counts nothing.
RecordRug(s, written) ==
  IF written THEN rugs' = Append(rugs, s) /\ rugFile' = Append(rugFile, s) ELSE UNCHANGED memory

----------------------------------------------------------------------------
(* Creators                                                                *)

\* Thousandths of a SOL.
NewCreator == [launches |-> 0, wins |-> 0, losses |-> 0, pnl |-> 0, since |-> 0]
Results(c) == creators[c].wins + creators[c].losses

Met == {d \in Wallets : creators[d].launches > 0}

\* since: the place of a creator in the file, in the order they were met.
AfterLaunch(c)  == [creators EXCEPT ![c].launches = @ + 1,
                                    ![c].since = IF @ > 0 THEN @ ELSE Cardinality(Met) + 1]
RecordLaunch(c) == creators' = AfterLaunch(c)

RecordResult(c, pnl) ==
  creators' = [creators EXCEPT ![c].pnl = @ + pnl,
                               ![c].wins = @ + (IF pnl > 0 THEN 1 ELSE 0),
                               ![c].losses = @ + (IF pnl > 0 THEN 0 ELSE 1)]

Qualified(db) == {c \in Wallets : db[c].launches >= CreatorMinLaunches}

\* The win rate decides, then the profit, then who was met first; without a
\* result the rate is 0.
Ahead(db, c, d) ==
  LET results(x) == db[x].wins + db[x].losses
      rate(x, y) == db[x].wins * (IF results(y) = 0 THEN 1 ELSE results(y))
  IN \/ rate(c, d) > rate(d, c)
     \/ rate(c, d) = rate(d, c) /\ db[c].pnl > db[d].pnl
     \/ rate(c, d) = rate(d, c) /\ db[c].pnl = db[d].pnl /\ db[c].since < db[d].since

Rank(db, c) == 1 + Cardinality({d \in Qualified(db) : Ahead(db, d, c)})

\* Everybody who qualifies is ranked while there are few of them.
Bonus(db, c) ==
  IF c \notin Qualified(db) THEN 0
  ELSE IF Rank(db, c) <= CreatorTopN THEN (IF Rank(db, c) <= 10 THEN 20 ELSE 10)
  ELSE IF 5 * db[c].wins < db[c].wins + db[c].losses \/ db[c].wins = 0 THEN -10 ELSE 0

LosingCreator(c) == Results(c) >= 1 /\ creators[c].pnl < -1

----------------------------------------------------------------------------
(* Outcomes of what was rejected                                           *)

Reject(e) == pending' = Append(pending, e) /\ UNCHANGED <<batch, settled, overflowed>>

\* Mutant: an entry at the limit counts as due and as not yet due.
FromLastDue(k) == SubSeq(pending, k, Len(pending))

NotDue(k) == SubSeq(pending, k + 1, Len(pending))

\* The first k entries are ten minutes old: they leave the list before
\* anything is awaited.
TakeDue(k) ==
  /\ batch = <<>> /\ k \in 1..Len(pending)
  /\ batch' = SubSeq(pending, 1, k) /\ pending' = NotDue(k)
  /\ UNCHANGED <<settled, overflowed>>

\* A lookup that fails reads as a market cap of zero: everything is lost.  A
\* token that had no market cap when it was rejected did not move.
Outcome(e, answer) ==
  IF ~ e.capped THEN "flat" ELSE IF answer = "none" THEN "rugged" ELSE answer

\* After the last entry the list is cut to its newest entries.
Newest(p) == SubSeq(p, Len(p) - MaxPending + 1, Len(p))
Full == Len(pending) > MaxPending

EntryDone ==
  /\ batch' = Tail(batch)
  /\ settled' = settled \cup {Head(batch).token}
  /\ IF Len(batch) = 1 /\ Full
     THEN pending' = Newest(pending) /\ overflowed' = TRUE
     ELSE UNCHANGED <<pending, overflowed>>

----------------------------------------------------------------------------
(* The threshold                                                           *)

Recent == SubSeq(closed, IF Len(closed) > LookbackTrades THEN Len(closed) - LookbackTrades + 1 ELSE 1,
                 Len(closed))

\* 45 and 70 percent.
Tuned ==
  LET n == Len(Recent) IN
  IF n < MinSampleSize THEN offset
  ELSE IF 100 * Wins(Recent) < 45 * n /\ offset < OffsetMax THEN offset + 1
  ELSE IF 100 * Wins(Recent) > 70 * n /\ offset > OffsetMin THEN offset - 1
  ELSE offset

Evaluate(written) ==
  /\ AutoTuneEnabled
  /\ offset' = Tuned
  /\ savedOffset' = IF written THEN offset' ELSE savedOffset
  /\ UNCHANGED closed

Shift == IF AutoTuneEnabled THEN offset ELSE 0

----------------------------------------------------------------------------
LearningInit ==
  /\ rugs = <<>> /\ rugFile = <<>>
  /\ pending = <<>> /\ batch = <<>> /\ settled = {} /\ overflowed = FALSE
  /\ creators = [w \in Wallets |-> NewCreator]
  /\ closed = <<>> /\ offset = 0 /\ savedOffset = 0

\* Rejections that wait are memory only; a clean stop saves the offset.
LearningRestart(clean) ==
  /\ rugs' = rugFile
  /\ pending' = <<>> /\ batch' = <<>> /\ settled' = {} /\ overflowed' = FALSE
  /\ offset' = IF clean THEN offset ELSE savedOffset
  /\ savedOffset' = offset'
  /\ UNCHANGED <<rugFile, creators, closed>>

LearningOK ==
  /\ rugs = rugFile
  /\ overflowed \in BOOLEAN
  /\ \A c \in Wallets : creators[c].launches \in Nat /\ Results(c) <= Len(closed)
  /\ {offset, savedOffset} \subseteq OffsetMin..OffsetMax
=============================================================================
