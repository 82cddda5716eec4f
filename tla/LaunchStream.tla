---------------------------- MODULE LaunchStream ----------------------------
(* Where tokens come from: the one websocket of PumpFunMonitor, with a     *)
(* trade subscription of a few seconds for every new mint, and the         *)
(* TrendingScanner of dex_monitor.py.  Both put what they find into the    *)
(* raw queue of main.py, and wait there while it is full: the reader of    *)
(* the socket reads nothing meanwhile.                                     *)
(* A subscription task and a scan run between two looks of the event loop  *)
(* at other tasks; a connection may end at any point.                      *)
EXTENDS Integers, Sequences

CONSTANTS
  Mints,
  Launched,       \* mints the stream announces
  Listings,       \* [mint, src] of what the scanner may find
  RawMax,         \* maxsize of the raw queue
  SubLife         \* TRADE_SUB_DURATION_S, in ticks

ASSUME StreamAssumption ==
  /\ Launched \subseteq Mints
  /\ \A l \in Listings : l.mint \in Mints /\ l.src \in {"trending", "boosted"}
  /\ RawMax \in Nat \ {0} /\ SubLife \in Nat

VARIABLES
  link,       \* the connection, as the server sees it
  ws,         \* PumpFunMonitor._ws: none, open, or a socket that is closed
  seen,       \* seen_mints
  subbed,     \* _trade_subbed
  subs,       \* trade subscriptions of this connection, at the server
  subTask,    \* _subscribe_mint_trades: none, start, or seconds slept
  reader,     \* the token the reader is waiting to put
  scanned,    \* TrendingScanner.seen
  scanner,    \* the token the scanner is waiting to put
  raw         \* raw_queue

monitor == <<ws, seen, subbed, subTask, reader>>
scan    == <<scanned, scanner>>
stream  == <<link, subs, monitor, scan, raw>>

Tokens == {[mint |-> m, src |-> "stream"] : m \in Launched} \cup Listings
NoToken == [mint |-> "none", src |-> "none"]
New(m) == [mint |-> m, src |-> "stream"]

Starting == -1          \* the task is made, its first step has not run
NoTask   == -2
Running(m) == subTask[m] >= 0

StreamInit ==
  /\ link = "down" /\ ws = "none" /\ subs = {}
  /\ seen = {} /\ subbed = {} /\ subTask = [m \in Mints |-> NoTask]
  /\ scanned = {}
  /\ reader = NoToken /\ scanner = NoToken /\ raw = <<>>

----------------------------------------------------------------------------
(* The connection                                                          *)

\* A new connection, made when the reader is done with the last one, knows no
\* subscription; what the bot believes to be subscribed is left as it is.
Connect ==
  /\ link = "down" /\ reader = NoToken
  /\ link' = "up" /\ ws' = "open" /\ subs' = {}
  /\ UNCHANGED <<seen, subbed, subTask, reader, scan, raw>>

\* A clean close ends the read loop, which resets the handle; any other one
\* raises, and leaves the handle on the closed socket.  A reader that waits
\* on the queue notices neither yet.
LoopEnds == ws' = "none" /\ subbed' = {}

Disconnect ==
  /\ link = "up"
  /\ link' = "down" /\ subs' = {}
  /\ \/ reader = NoToken /\ LoopEnds
     \/ ws' = "closed" /\ UNCHANGED subbed
  /\ UNCHANGED <<seen, subTask, reader, scan, raw>>

----------------------------------------------------------------------------
(* The reader                                                              *)

Listening == link = "up" /\ reader = NoToken

\* Mutant: mints are not remembered.
AnySight(m) == m \in Mints

FirstSight(m) == m \notin seen

\* A create event: subscribers are called, a subscription task is made, the
\* token goes to the queue.
Announce(m) ==
  /\ Listening /\ FirstSight(m)
  /\ seen' = seen \cup {m}
  /\ subTask' = [subTask EXCEPT ![m] = Starting]
  /\ IF Len(raw) < RawMax THEN raw' = Append(raw, New(m)) /\ UNCHANGED reader
     ELSE reader' = New(m) /\ UNCHANGED raw
  /\ UNCHANGED <<link, ws, subbed, subs, scan>>

ReaderPuts ==
  /\ reader # NoToken /\ Len(raw) < RawMax
  /\ raw' = Append(raw, reader) /\ reader' = NoToken
  /\ \/ link = "down" /\ LoopEnds
     \/ UNCHANGED <<ws, subbed>>
  /\ UNCHANGED <<link, subs, seen, subTask, scan>>

\* The message goes out on an open socket and raises on a closed one; a
\* socket on which it fails is lost, and its subscriptions with it.
Subscribe(m) ==
  /\ subTask[m] = Starting
  /\ IF ws = "open" /\ m \notin subbed
     THEN /\ subbed' = subbed \cup {m} /\ subs' = subs \cup {m}
          /\ subTask' = [subTask EXCEPT ![m] = 0]
     ELSE subTask' = [subTask EXCEPT ![m] = NoTask] /\ UNCHANGED <<subbed, subs>>
  /\ UNCHANGED <<link, ws, seen, reader, scan, raw>>

\* Mutant: only what is still believed to be subscribed is given back, after
\* it was taken off that list.
StaysOn(m) == subs

Without(m) == IF ws = "open" THEN subs \ {m} ELSE subs

Unsubscribe(m) ==
  /\ Running(m) /\ subTask[m] >= SubLife
  /\ subbed' = subbed \ {m} /\ subs' = Without(m)
  /\ subTask' = [subTask EXCEPT ![m] = NoTask]
  /\ UNCHANGED <<link, ws, seen, reader, scan, raw>>

\* The server sends trades of subscribed mints only.
HearsTrades(m) == Listening /\ m \in subs

----------------------------------------------------------------------------
(* The scanner                                                             *)

\* A listing of either kind is taken once; one set serves both scans.
Find(l) ==
  /\ scanner = NoToken /\ l.mint \notin scanned
  /\ scanned' = scanned \cup {l.mint}
  /\ IF Len(raw) < RawMax THEN raw' = Append(raw, l) /\ UNCHANGED scanner
     ELSE scanner' = l /\ UNCHANGED raw
  /\ UNCHANGED <<link, subs, monitor>>

ScannerPuts ==
  /\ scanner # NoToken /\ Len(raw) < RawMax
  /\ raw' = Append(raw, scanner) /\ scanner' = NoToken
  /\ UNCHANGED <<link, subs, monitor, scanned>>

----------------------------------------------------------------------------
\* What SignalScorer takes off the queue.
TakeRaw ==
  /\ raw # <<>> /\ raw' = Tail(raw)
  /\ UNCHANGED <<link, subs, monitor, scan>>

SubscriptionDue == \E m \in Mints : subTask[m] = Starting \/ subTask[m] >= SubLife

OneOlder(m) == IF Running(m) THEN subTask[m] + 1 ELSE subTask[m]

SubscriptionsAge ==
  /\ subTask' = [m \in Mints |-> OneOlder(m)]
  /\ UNCHANGED <<link, subs, ws, seen, subbed, reader, scan, raw>>

StreamRestart ==
  /\ link' = "down" /\ ws' = "none" /\ subs' = {}
  /\ seen' = {} /\ subbed' = {} /\ subTask' = [m \in Mints |-> NoTask]
  /\ scanned' = {}
  /\ reader' = NoToken /\ scanner' = NoToken /\ raw' = <<>>

StreamOK ==
  /\ link \in {"up", "down"} /\ ws \in {"none", "open", "closed"}
  /\ link = "up" => ws = "open"
  /\ seen \subseteq Launched /\ subbed \subseteq seen /\ subs \subseteq seen
  /\ subTask \in [Mints -> NoTask..SubLife]
  /\ scanned \subseteq Mints
  /\ {reader, scanner} \subseteq Tokens \cup {NoToken}
  /\ raw \in Seq(Tokens) /\ Len(raw) <= RawMax
=============================================================================
