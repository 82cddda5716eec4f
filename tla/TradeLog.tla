------------------------------ MODULE TradeLog ------------------------------
(***************************************************************************)
(* The record of closed trades: the list in memory, the JSONL file and the *)
(* sqlite table, written one after the other, each in a try of its own     *)
(* (_append_closed_trade, risk/manager.py; logger/trade_db.py).  A start   *)
(* reads the table, and the file only when the table is empty.             *)
(***************************************************************************)
EXTENDS Naturals, Sequences, FiniteSets

CONSTANTS Histories,   \* logs a session may start from
          AdaptiveLookback, HotWinPct, ColdWinPct   \* ADAPTIVE_*

(* Lots are numbered by the session; a trade from before it has lot 0.     *)
ASSUME HistoryAssumption ==
    \A h \in Histories : h \in Seq([lot : {0}, final : BOOLEAN, won : BOOLEAN, at : Nat])

VARIABLES closed,   \* RiskManager.closed_trades
          jsonl,    \* logs/closed_trades.jsonl
          rows,     \* logs/trades.db, in order of id
          loaded    \* how many of closed were read at the last start

trades == <<closed, jsonl, rows, loaded>>

FinalsOf(log, lot) == {i \in DOMAIN log : log[i].final /\ log[i].lot = lot}

LogInit ==
    /\ jsonl \in Histories
    /\ rows = jsonl
    /\ closed = jsonl
    /\ loaded = Len(jsonl)

AppendJsonl(t) == jsonl' = Append(jsonl, t)

InsertRow(t) == rows' = Append(rows, t)

Stored == IF rows # <<>> THEN rows ELSE jsonl

LogRestart ==
    /\ closed' = Stored
    /\ loaded' = Len(Stored)
    /\ UNCHANGED <<jsonl, rows>>

(* The win rate calculate_position_size looks at, in percent: the last     *)
(* trades, partial legs included, once there are five.                     *)
Recent == SubSeq(closed, IF Len(closed) > AdaptiveLookback
                         THEN Len(closed) - AdaptiveLookback + 1 ELSE 1,
                 Len(closed))

Wins == Cardinality({i \in DOMAIN Recent : Recent[i].won})

Temper == IF Len(closed) < 5 THEN "normal"
          ELSE IF Wins * 100 >= HotWinPct * Len(Recent) THEN "hot"
          ELSE IF Wins * 100 <= ColdWinPct * Len(Recent) THEN "cold"
          ELSE "normal"
=============================================================================
