-------------------------- MODULE CircuitBreakers --------------------------
(***************************************************************************)
(* The tier 2 circuit breakers of RiskManager: the pause after a streak of *)
(* losses and the daily loss and profit bands (_is_paused and the end of   *)
(* close_position, risk/manager.py).  All of this state is memory only.    *)
(***************************************************************************)
EXTENDS Integers, Sequences

CONSTANTS LossStreakLimit,   \* LOSS_STREAK_LIMIT
          StreakPause,       \* LOSS_STREAK_PAUSE_MIN, in ticks of the clock
          DayLength,         \* ticks in a UTC day
          DailyLossPct,      \* DAILY_LOSS_LIMIT_PCT
          ProfitLockPct      \* DAILY_PROFIT_LOCK_PCT

ASSUME BreakerAssumption ==
    /\ {LossStreakLimit, StreakPause, DayLength} \subseteq Nat \ {0}
    /\ DailyLossPct \in 0..100
    /\ ProfitLockPct \in Nat

VARIABLES now,          \* the clock
          streak,       \* consecutive_losses
          pauseUntil,   \* loss_streak_pause_until
          dayBase,      \* day_baseline_balance, 0 before the first look
          dayDate       \* day_baseline_date, -1 before the first look

breakers == <<streak, pauseUntil, dayBase, dayDate>>

Today == now \div DayLength

StreakPaused == now < pauseUntil

(* The baseline of a new day is the equity at its first look, unless that  *)
(* is below 80 % of the old one: then the old one stays for the day.       *)
Rollover == dayDate # Today

(* Mutant: every midnight rebases.                                         *)
AlwaysRebases(equity) == FALSE

KeepsBaseline(equity) == dayBase > 0 /\ equity * 100 < dayBase * 80

BaseAt(equity) ==
    IF Rollover /\ ~KeepsBaseline(equity) THEN equity ELSE dayBase

OutsideBands(equity) ==
    LET base == BaseAt(equity)
    IN /\ base > 0
       /\ \/ (equity - base) * 100 <= -DailyLossPct * base
          \/ (equity - base) * 100 >= ProfitLockPct * base

Paused(equity) == StreakPaused \/ OutsideBands(equity)

(* What a call of _is_paused leaves behind: a streak pause returns before  *)
(* the baseline is looked at.                                              *)
Look(equity) ==
    /\ dayBase' = IF StreakPaused THEN dayBase ELSE BaseAt(equity)
    /\ dayDate' = IF StreakPaused THEN dayDate ELSE Today
    /\ UNCHANGED <<streak, pauseUntil>>

(* Mutant: the pause starts one loss late.                                 *)
CountCloseLate(won) ==
    /\ IF won
       THEN streak' = 0 /\ UNCHANGED pauseUntil
       ELSE IF streak + 1 > LossStreakLimit
            THEN streak' = 0 /\ pauseUntil' = now + StreakPause
            ELSE streak' = streak + 1 /\ UNCHANGED pauseUntil
    /\ UNCHANGED <<dayBase, dayDate>>

(* The end of close_position: a loss lengthens the streak, the last one of *)
(* a full streak starts the pause and the count anew, a win ends it.       *)
CountClose(won) ==
    /\ IF won
       THEN streak' = 0 /\ UNCHANGED pauseUntil
       ELSE IF streak + 1 >= LossStreakLimit
            THEN streak' = 0 /\ pauseUntil' = now + StreakPause
            ELSE streak' = streak + 1 /\ UNCHANGED pauseUntil
    /\ UNCHANGED <<dayBase, dayDate>>

BreakerInit ==
    /\ now = 0
    /\ streak = 0
    /\ pauseUntil = 0
    /\ dayBase = 0
    /\ dayDate = -1

BreakerRestart ==
    /\ streak' = 0
    /\ pauseUntil' = 0
    /\ dayBase' = 0
    /\ dayDate' = -1

BreakerTypeOK ==
    /\ now \in Nat
    /\ streak \in 0..(LossStreakLimit - 1)
    /\ pauseUntil \in Nat
    /\ dayBase \in Nat
    /\ dayDate \in Nat \cup {-1}
=============================================================================
