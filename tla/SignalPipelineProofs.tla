------------------------ MODULE SignalPipelineProofs -------------------------
(* Proofs about SignalPipeline: what a feed offers (Offers) and what the   *)
(* server streams (Streams), that a score waits for the judgement of the   *)
(* first buyers (Timed), that a rug is found again (Remembered), that a    *)
(* rejection gets one outcome (Booked), and the types.                     *)
EXTENDS SignalPipeline, FiniteSetTheorems, SequenceTheorems, WellFoundedInduction, TLAPS

-----------------------------------------------------------------------------
(* The streams                                                             *)

\* The handle is open just while the connection is up.  Nothing is subscribed
\* while it is down, and a mint that is
\* subscribed was announced and has a running task.
Streams ==
  /\ link \in {"up", "down"} /\ (link = "up" <=> ws = "open") /\ (link = "down" => subs = {})
  /\ subTask \in [Mints -> Int]
  /\ subs \subseteq seen /\ \A m \in Mints : subTask[m] >= -1 => m \in seen
  /\ SubscriptionsExpire

\* What one step of the program does to the streams.
StreamStep ==
  \/ Connect \/ Disconnect \/ ReaderPuts \/ ScannerPuts \/ TakeRaw
  \/ (SubscriptionsAge /\ ~ SubscriptionDue) \/ StreamRestart \/ UNCHANGED stream
  \/ \E m \in Launched : Announce(m)
  \/ \E m \in Mints : Subscribe(m) \/ Unsubscribe(m)
  \/ \E l \in Listings : Find(l)

\* Every step is one of them.
LEMMA StepsOfStreams == [Next]_vars => StreamStep
<1> SUFFICES ASSUME [Next]_vars PROVE StreamStep
  OBVIOUS
<1>1. CASE Link \/ Feeds
  BY <1>1 DEF Link, Feeds, StreamStep
<1>2. CASE Take
  BY <1>2 DEF Take, StreamStep
<1>3. CASE Tick
  BY <1>3 DEF Tick, SomethingDue, StreamStep
<1>4. CASE \E m \in Mints : Decide(m)
  BY <1>4 DEF Decide, StreamStep
<1>5. CASE \E k \in Tokens : PutTrade(k) \/ ScoreFails(k)
  BY <1>5 DEF PutTrade, ScoreFails, StreamStep
<1>6. CASE \E k \in Tokens : \E t \in Sights(k), quiet \in Quiet : Score(k, t, quiet)
  BY <1>6 DEF Score, StreamStep
<1>7. CASE \E k \in Tokens, b \in BOOLEAN : CheckHolders(k, b) \/ BuyEnds(k, b)
  BY <1>7 DEF CheckHolders, BuyEnds, StreamStep
<1>8. CASE \E b \in BOOLEAN : TakeTrade(b) \/ SetStop(b) \/ Tune(b) \/ \E m \in Mints : SellLeg(m, b)
  BY <1>8 DEF TakeTrade, SetStop, Tune, SellLeg, StreamStep
<1>9. CASE \E m \in Launched : Launch(m)
  BY <1>9 DEF Launch, StreamStep
<1>10. CASE \E m \in Launched : \E x \in TradeEvents : HearTrade(m, x)
  BY <1>10 DEF HearTrade, StreamStep
<1>11. CASE \E l \in Listings : Listed(l)
  BY <1>11 DEF Listed, StreamStep
<1>12. CASE \E m \in Mints, how \in DOMAIN Profit, b \in BOOLEAN : Close(m, how, b)
  BY <1>12 DEF Close, StreamStep
<1>13. CASE \E n \in 1..Len(pending) : BecomeDue(n)
  BY <1>13 DEF BecomeDue, StreamStep
<1>14. CASE \E a \in {"pumped", "flat", "rugged", "none"}, b \in BOOLEAN : Resolve(a, b)
  BY <1>14 DEF Resolve, StreamStep
<1>15. CASE \E saved, clean \in BOOLEAN : (clean => saved) /\ Restart(saved, clean)
  BY <1>15 DEF Restart, StreamStep
<1>16. CASE UNCHANGED vars
  BY <1>16 DEF vars, StreamStep
<1> QED
  BY <1>1, <1>2, <1>3, <1>4, <1>5, <1>6, <1>7, <1>8, <1>9, <1>10, <1>11, <1>12, <1>13, <1>14,
     <1>15, <1>16 DEF Next, Progress, Environment

\* Each of them keeps the invariant.
LEMMA StreamsKept == Streams /\ StreamStep => Streams'
<1> SUFFICES ASSUME Streams, StreamStep PROVE Streams'
  OBVIOUS
<1> USE DEF Streams, SubscriptionsExpire, Running
<1>1. CASE Connect
  BY <1>1 DEF Connect
<1>2. CASE Disconnect
  BY <1>2 DEF Disconnect, LoopEnds
<1>3. CASE ReaderPuts \/ ScannerPuts \/ TakeRaw \/ UNCHANGED stream
  BY <1>3 DEF ReaderPuts, LoopEnds, ScannerPuts, TakeRaw, stream, monitor, scan
<1>4. CASE SubscriptionsAge
  BY <1>4 DEF SubscriptionsAge, OneOlder
<1>5. CASE StreamRestart
  BY <1>5 DEF StreamRestart, NoTask
<1>6. CASE \E m \in Launched : Announce(m)
  <2>1. PICK m \in Launched : Announce(m)
    BY <1>6
  <2> m \in Mints
    BY StreamAssumption
  <2>2. m \notin subs /\ seen' = seen \cup {m} /\ subTask' = [subTask EXCEPT ![m] = -1]
        /\ UNCHANGED <<link, ws, subs>>
    BY <2>1 DEF Announce, FirstSight, Starting
  <2>3. subs \subseteq seen'
    BY <2>2
  <2>5. subTask' \in [Mints -> Int]
    BY <2>2, m \in Mints
  <2>6. ASSUME NEW n \in Mints, subTask'[n] >= -1 PROVE n \in seen'
    BY <2>2, <2>6
  <2>4. subs \subseteq {n \in Mints : subTask'[n] >= 0}
    BY <2>2
  <2> QED
    BY <2>2, <2>3, <2>4, <2>5, <2>6
<1>7. CASE \E m \in Mints : Subscribe(m)
  <2>1. PICK m \in Mints : Subscribe(m)
    BY <1>7
  <2>2. subTask[m] = -1 /\ UNCHANGED <<link, ws, seen>>
    BY <2>1 DEF Subscribe, Starting
  <2>3. m \notin subs
    BY <2>2
  <2>4. CASE ws = "open" /\ m \notin subbed
    <3>1. subs' = subs \cup {m} /\ subTask' = [subTask EXCEPT ![m] = 0]
      BY <2>1, <2>4 DEF Subscribe
    <3>2. subTask' \in [Mints -> Int] /\ \A n \in subs' : n \in Mints /\ subTask'[n] >= 0
      BY <3>1
    <3>3. link = "up" /\ m \in seen
      BY <2>2, <2>4
    <3> QED
      BY <2>2, <3>1, <3>2, <3>3
  <2>5. CASE ~ (ws = "open" /\ m \notin subbed)
    BY <2>1, <2>2, <2>3, <2>5 DEF Subscribe, NoTask
  <2> QED
    BY <2>4, <2>5
<1>8. CASE \E m \in Mints : Unsubscribe(m)
  <2>1. PICK m \in Mints : Unsubscribe(m)
    BY <1>8
  <2>2. subs' = subs \ {m} /\ subTask' = [subTask EXCEPT ![m] = -2]
        /\ UNCHANGED <<link, ws, seen>>
    BY <2>1 DEF Unsubscribe, Without, NoTask
  <2> QED
    BY <2>2
<1>9. CASE \E l \in Listings : Find(l)
  BY <1>9 DEF Find, monitor
<1> QED
  BY <1>1, <1>2, <1>3, <1>4, <1>5, <1>6, <1>7, <1>8, <1>9 DEF StreamStep

\* Nothing is subscribed at the start.
LEMMA StreamsStart == Init => Streams
  BY DEF Init, StreamInit, Streams, SubscriptionsExpire, NoTask

\* SubscriptionsExpire: a trade subscription at the server has a task of
\* PumpFunMonitor that gives it back, over any number of reconnects.
THEOREM SubscriptionsReturned == Spec => []SubscriptionsExpire
<1>1. Streams /\ [Next]_vars => Streams'
  BY StepsOfStreams, StreamsKept
<1>2. Streams => SubscriptionsExpire
  BY DEF Streams
<1> QED
  BY StreamsStart, <1>1, <1>2, PTL DEF Spec
-----------------------------------------------------------------------------
(* The offers                                                              *)

\* A token was offered at most once, and what was offered is remembered by
\* its feed.
Offers ==
  /\ offers \in [Tokens -> 0..1]
  /\ \A m \in Launched : offers[New(m)] = 1 => m \in seen
  /\ \A l \in Listings : offers[l] = 1 => l.mint \in scanned

\* A launch and a listing are different tokens, and so are two launches.
LEMMA Distinct ==
  /\ Tokens = {New(m) : m \in Launched} \cup Listings
  /\ \A m \in Launched : New(m) \notin Listings /\ New(m).mint = m /\ New(m).src = "stream"
  /\ \A l \in Listings : l.src # "stream"
<1>1. \A m \in Launched : New(m).mint = m /\ New(m).src = "stream"
  BY DEF New
<1>2. \A l \in Listings : l.src # "stream"
  BY StreamAssumption
<1> QED
  BY <1>1, <1>2 DEF Tokens, New

\* Offers change with a launch, a listing or a restart only.
LEMMA OffersChange ==
  [Next]_vars => \/ UNCHANGED offers /\ seen \subseteq seen' /\ scanned \subseteq scanned'
                 \/ \E m \in Launched : Launch(m)
                 \/ \E l \in Listings : Listed(l)
                 \/ offers' = [k \in Tokens |-> 0]
<1> SUFFICES ASSUME [Next]_vars
             PROVE  \/ UNCHANGED offers /\ seen \subseteq seen' /\ scanned \subseteq scanned'
                    \/ \E m \in Launched : Launch(m)
                    \/ \E l \in Listings : Listed(l)
                    \/ offers' = [k \in Tokens |-> 0]
  OBVIOUS
<1>1. CASE \E saved, clean \in BOOLEAN : (clean => saved) /\ Restart(saved, clean)
  BY <1>1 DEF Restart
<1>2. CASE Link \/ Feeds \/ Take \/ Tick \/ UNCHANGED vars
  BY <1>2 DEF Link, Feeds, Take, Tick, vars, past, Connect, Disconnect, ReaderPuts, ScannerPuts,
              Subscribe, Unsubscribe, TakeRaw, SubscriptionsAge, stream, monitor, scan
<1>3. CASE \E m \in Mints : Decide(m)
  BY <1>3 DEF Decide, past, stream, monitor, scan
<1>4. CASE \E k \in Tokens : PutTrade(k) \/ ScoreFails(k)
  BY <1>4 DEF PutTrade, ScoreFails, past, stream, monitor, scan
<1>5. CASE \E k \in Tokens : \E t \in Sights(k), quiet \in Quiet : Score(k, t, quiet)
  BY <1>5 DEF Score, past, stream, monitor, scan
<1>6. CASE \E k \in Tokens, b \in BOOLEAN : CheckHolders(k, b) \/ BuyEnds(k, b)
  BY <1>6 DEF CheckHolders, BuyEnds, past, stream, monitor, scan
<1>7. CASE \E b \in BOOLEAN : TakeTrade(b) \/ SetStop(b) \/ Tune(b) \/ \E m \in Mints : SellLeg(m, b)
  BY <1>7 DEF TakeTrade, SetStop, Tune, SellLeg, past, stream, monitor, scan
<1>8. CASE \E m \in Launched : \E x \in TradeEvents : HearTrade(m, x)
  BY <1>8 DEF HearTrade, past, stream, monitor, scan
<1>9. CASE \E m \in Mints, how \in DOMAIN Profit, b \in BOOLEAN : Close(m, how, b)
  BY <1>9 DEF Close, stream, monitor, scan
<1>10. CASE \E n \in 1..Len(pending) : BecomeDue(n)
  BY <1>10 DEF BecomeDue, past, stream, monitor, scan
<1>11. CASE \E a \in {"pumped", "flat", "rugged", "none"}, b \in BOOLEAN : Resolve(a, b)
  BY <1>11 DEF Resolve, stream, monitor, scan
<1> QED
  BY <1>1, <1>2, <1>3, <1>4, <1>5, <1>6, <1>7, <1>8, <1>9, <1>10, <1>11 DEF Next, Progress, Environment

\* A feed that has not seen a token has not offered it.
LEMMA OffersKept == Offers /\ [Next]_vars => Offers'
<1> SUFFICES ASSUME Offers, [Next]_vars PROVE Offers'
  OBVIOUS
<1>1. CASE UNCHANGED offers /\ seen \subseteq seen' /\ scanned \subseteq scanned'
  BY <1>1 DEF Offers
<1>2. ASSUME NEW m \in Launched, Launch(m) PROVE Offers'
  <2>1. m \notin seen /\ seen' = seen \cup {m} /\ scanned' = scanned
        /\ offers' = [offers EXCEPT ![New(m)] = @ + 1]
    BY <1>2 DEF Launch, Announce, FirstSight, Offered, scan
  <2>2. New(m) \in Tokens /\ offers[New(m)] = 0
    BY <2>1, Distinct DEF Offers
  <2>3. offers' \in [Tokens -> 0..1]
    BY <2>1, <2>2 DEF Offers
  <2>4. \A l \in Listings : offers'[l] = offers[l]
    BY <2>1, Distinct DEF Offers
  <2>5. \A n \in Launched : n # m => offers'[New(n)] = offers[New(n)]
    BY <2>1, Distinct DEF Offers
  <2> QED
    BY <2>1, <2>3, <2>4, <2>5 DEF Offers
<1>3. ASSUME NEW l \in Listings, Listed(l) PROVE Offers'
  <2>1. l.mint \notin scanned /\ scanned' = scanned \cup {l.mint} /\ seen' = seen
        /\ offers' = [offers EXCEPT ![l] = @ + 1]
    BY <1>3 DEF Listed, Find, Offered, monitor
  <2>2. l \in Tokens /\ offers[l] = 0
    BY <2>1, Distinct DEF Offers
  <2>3. offers' \in [Tokens -> 0..1]
    BY <2>1, <2>2 DEF Offers
  <2>4. \A m \in Launched : offers'[New(m)] = offers[New(m)]
    BY <2>1, Distinct DEF Offers
  <2>5. \A n \in Listings : n # l => offers'[n] = offers[n]
    BY <2>1, Distinct DEF Offers
  <2> QED
    BY <2>1, <2>3, <2>4, <2>5 DEF Offers
<1>4. CASE offers' = [k \in Tokens |-> 0]
  BY <1>4, Distinct DEF Offers
<1> QED
  BY <1>1, <1>2, <1>3, <1>4, OffersChange

\* OfferedOnce: seen_mints and TrendingScanner.seen keep a token from being
\* offered twice, whatever becomes of the connection.
THEOREM NoSecondOffer == Spec => []OfferedOnce
<1>1. Init => Offers
  BY Distinct DEF Init, Offers
<1>2. Offers => OfferedOnce
  BY DEF Offers, OfferedOnce
<1> QED
  BY <1>1, <1>2, OffersKept, PTL DEF Spec
-----------------------------------------------------------------------------
(* The wait for the first buyers                                           *)

Stages == {"none", "waiting", "checking", "putting", "queued", "buying", "bought", "rejected", "over"}

\* The feeds hold tokens of their own.
Fed ==
  /\ raw \in Seq(Tokens)
  /\ reader \in Tokens \cup {NoToken} /\ scanner \in Listings \cup {NoToken}

\* The launch of a mint is on its way to the scorer.
InFeed(m) == reader = New(m) \/ \E i \in 1..Len(raw) : raw[i] = New(m)

OnItsWay(m) == InFeed(m) \/ stage[New(m)] = "waiting"

\* A launch on its way is watched since before its task began to wait, or
\* has been judged.
Timed ==
  /\ Fed
  /\ stage \in [Tokens -> Stages] /\ waited \in [Tokens -> Nat]
  /\ window \in [Mints -> Int] /\ \A m \in Mints : window[m] <= Window
  /\ decided \in [Mints -> {"unknown", "clean", "bundled"}]
  /\ \A m \in Launched : OnItsWay(m) => m \in seen /\ (Pending(m) \/ decided[m] # "unknown")
  /\ \A m \in Launched : stage[New(m)] = "waiting" /\ Pending(m) => waited[New(m)] <= window[m]

\* No launch is the empty token, and none is a listing.
LEMMA NotEmpty == NoToken \notin Tokens /\ \A m \in Launched : New(m) # NoToken
<1>1. \A k \in Tokens : k.src \in {"stream", "trending", "boosted"}
  BY StreamAssumption DEF Tokens
<1>2. NoToken.src = "none"
  BY DEF NoToken
<1>3. NoToken \notin Tokens
  BY <1>1, <1>2
<1> QED
  BY <1>3, Distinct

\* A launch enters the feeds when it is announced, and only then.
LEMMA FeedsKept ==
  ASSUME Fed, StreamStep
  PROVE  /\ Fed'
         /\ seen \subseteq seen' \/ StreamRestart
         /\ \A m \in Launched : InFeed(m)' => InFeed(m) \/ Announce(m)
<1> USE DEF Fed, InFeed
<1>1. CASE Connect \/ Disconnect \/ SubscriptionsAge \/ UNCHANGED stream
  BY <1>1 DEF Connect, Disconnect, SubscriptionsAge, stream, monitor, scan
<1>2. CASE ReaderPuts
  <2>1. raw' = Append(raw, reader) /\ reader' = NoToken /\ reader \in Tokens /\ seen' = seen
        /\ scanner' = scanner
    BY <1>2 DEF ReaderPuts, scan
  <2>2. raw' \in Seq(Tokens)
    BY <2>1
  <2>3. ASSUME NEW m \in Launched, NEW i \in 1..Len(raw'), raw'[i] = New(m) PROVE InFeed(m)
    BY <2>1, <2>3
  <2> QED
    BY <2>1, <2>2, <2>3, NotEmpty
<1>3. CASE ScannerPuts
  <2>1. raw' = Append(raw, scanner) /\ scanner' = NoToken /\ scanner \in Listings /\ seen' = seen
        /\ reader' = reader
    BY <1>3 DEF ScannerPuts, monitor
  <2>2. raw' \in Seq(Tokens)
    BY <2>1, Distinct
  <2>3. ASSUME NEW m \in Launched, NEW i \in 1..Len(raw'), raw'[i] = New(m) PROVE InFeed(m)
    BY <2>1, <2>3, Distinct
  <2> QED
    BY <2>1, <2>2, <2>3
<1>4. CASE TakeRaw
  <2>1. raw # <<>> /\ raw' = Tail(raw) /\ UNCHANGED <<reader, scanner, seen>>
    BY <1>4 DEF TakeRaw, monitor, scan
  <2>2. raw' \in Seq(Tokens) /\ Len(raw') = Len(raw) - 1 /\ \A i \in 1..Len(raw') : raw'[i] = raw[i + 1]
    BY <2>1
  <2>3. ASSUME NEW m \in Launched, NEW i \in 1..Len(raw'), raw'[i] = New(m) PROVE InFeed(m)
    BY <2>2, <2>3
  <2> QED
    BY <2>1, <2>2, <2>3
<1>5. CASE StreamRestart
  BY <1>5, NotEmpty DEF StreamRestart
<1>6. ASSUME NEW n \in Launched, Announce(n)
      PROVE  Fed' /\ seen \subseteq seen' /\ \A m \in Launched : InFeed(m)' => InFeed(m) \/ Announce(m)
  <2>1. New(n) \in Tokens /\ scanner' = scanner /\ seen \subseteq seen'
        /\ reader = NoToken
    BY <1>6, Distinct DEF Announce, Listening, scan
  <2>2. CASE raw' = Append(raw, New(n)) /\ UNCHANGED reader
    <3>1. raw' \in Seq(Tokens)
      BY <2>1, <2>2
    <3>2. ASSUME NEW m \in Launched, NEW i \in 1..Len(raw'), raw'[i] = New(m) PROVE InFeed(m) \/ m = n
      BY <2>1, <2>2, <3>2, Distinct
    <3> QED
      BY <1>6, <2>1, <2>2, <3>1, <3>2
  <2>3. CASE reader' = New(n) /\ UNCHANGED raw
    <3>1. ASSUME NEW m \in Launched, reader' = New(m) PROVE m = n
      BY <2>3, <3>1, Distinct
    <3> QED
      BY <1>6, <2>1, <2>3, <3>1
  <2> QED
    BY <1>6, <2>2, <2>3 DEF Announce
<1>7. CASE \E m \in Mints : Subscribe(m) \/ Unsubscribe(m)
  BY <1>7 DEF Subscribe, Unsubscribe, scan
<1>8. ASSUME NEW l \in Listings, Find(l)
      PROVE  Fed' /\ seen \subseteq seen' /\ \A m \in Launched : InFeed(m)' => InFeed(m)
  <2>1. l \in Tokens /\ reader' = reader /\ seen' = seen
    BY <1>8, Distinct DEF Find, monitor
  <2>2. CASE raw' = Append(raw, l) /\ UNCHANGED scanner
    <3>1. raw' \in Seq(Tokens)
      BY <2>1, <2>2
    <3>2. ASSUME NEW m \in Launched, NEW i \in 1..Len(raw'), raw'[i] = New(m) PROVE InFeed(m)
      BY <2>1, <2>2, <3>2, Distinct
    <3> QED
      BY <2>1, <2>2, <3>1, <3>2
  <2>3. CASE scanner' = l /\ UNCHANGED raw
    BY <2>1, <2>3
  <2> QED
    BY <1>8, <2>2, <2>3 DEF Find
<1> QED
  BY <1>1, <1>2, <1>3, <1>4, <1>5, <1>6, <1>7, <1>8 DEF StreamStep

\* A token that moves anywhere but to its wait.
LEMMA Moved ==
  ASSUME stage \in [Tokens -> Stages], NEW k, NEW s \in Stages \ {"waiting"}, MoveTo(k, s)
  PROVE  /\ stage' \in [Tokens -> Stages]
         /\ \A j \in Tokens : stage'[j] = "waiting" => stage[j] = "waiting"
<1>1. CASE k \in Tokens
  BY <1>1 DEF MoveTo
<1>2. CASE k \notin Tokens
  <2>1. stage' = stage
    BY <1>2, Zenon DEF MoveTo
  <2> QED
    BY <2>1
<1> QED
  BY <1>1, <1>2

\* The steps that neither start a wait nor judge nor let time pass.
TimeStands ==
  /\ UNCHANGED <<window, decided, waited, seen>>
  /\ stage' \in [Tokens -> Stages]
  /\ \A j \in Tokens : stage'[j] = "waiting" => stage[j] = "waiting"

\* What every other step does.
LEMMA StepsOfTime ==
  ASSUME stage \in [Tokens -> Stages], [Next]_vars
  PROVE  \/ TimeStands \/ Take \/ Tick
         \/ \E m \in Launched : Launch(m)
         \/ \E m \in Mints : Decide(m)
         \/ \E saved, clean \in BOOLEAN : Restart(saved, clean)
<1>1. CASE Link \/ Feeds \/ UNCHANGED vars
  BY <1>1 DEF Link, Feeds, Connect, Disconnect, ReaderPuts, ScannerPuts, Subscribe, Unsubscribe, vars,
              tasks, intel, watch, stream, monitor, TimeStands
<1>2. ASSUME NEW k \in Tokens, PutTrade(k) PROVE TimeStands
  BY <1>2, Moved DEF PutTrade, Offer, intel, watch, stream, monitor, TimeStands, Stages
<1>3. ASSUME NEW k \in Tokens, ScoreFails(k) PROVE TimeStands
  BY <1>3, Moved DEF ScoreFails, intel, watch, stream, monitor, TimeStands, Stages
<1>4. ASSUME NEW k \in Tokens, NEW t, NEW quiet, Score(k, t, quiet) PROVE TimeStands
  <2>1. MoveTo(k, "checking") \/ MoveTo(k, "rejected")
    BY <1>4 DEF Score
  <2>2. UNCHANGED <<window, decided, waited, seen>>
    BY <1>4 DEF Score, intel, watch, stream, monitor
  <2> QED
    BY <2>1, <2>2, Moved DEF TimeStands, Stages
<1>5. ASSUME NEW k \in Tokens, NEW b \in BOOLEAN, CheckHolders(k, b) PROVE TimeStands
  <2>1. MoveTo(k, "queued") \/ MoveTo(k, "putting") \/ MoveTo(k, "rejected")
    BY <1>5 DEF CheckHolders, Offer
  <2> QED
    BY <1>5, <2>1, Moved DEF CheckHolders, intel, watch, stream, monitor, TimeStands, Stages
<1>6. ASSUME NEW k \in Tokens, NEW b \in BOOLEAN, BuyEnds(k, b) PROVE TimeStands
  <2>1. MoveTo(k, "bought") \/ MoveTo(k, "over")
    BY <1>6 DEF BuyEnds
  <2> QED
    BY <1>6, <2>1, Moved DEF BuyEnds, intel, watch, stream, monitor, TimeStands, Stages
<1>7. ASSUME NEW b \in BOOLEAN, TakeTrade(b) PROVE TimeStands
  <2>1. MoveTo(Head(trades), "buying") \/ MoveTo(Head(trades), "over")
    BY <1>7 DEF TakeTrade
  <2> QED
    BY <1>7, <2>1, Moved DEF TakeTrade, intel, watch, stream, monitor, TimeStands, Stages
<1>8. CASE \E b \in BOOLEAN : SetStop(b) \/ Tune(b) \/ \E m \in Mints : SellLeg(m, b)
  BY <1>8 DEF SetStop, Tune, SellLeg, tasks, intel, watch, stream, monitor, TimeStands
<1>9. CASE \E m \in Launched : \E x \in TradeEvents : HearTrade(m, x)
  BY <1>9 DEF HearTrade, OnTrade, tasks, stream, monitor, TimeStands
<1>10. CASE \E l \in Listings : Listed(l)
  BY <1>10 DEF Listed, Find, tasks, intel, watch, stream, monitor, TimeStands
<1>11. CASE \E m \in Mints, how \in DOMAIN Profit, b \in BOOLEAN : Close(m, how, b)
  BY <1>11 DEF Close, tasks, watch, stream, monitor, TimeStands
<1>12. CASE \E n \in 1..Len(pending) : BecomeDue(n)
  BY <1>12 DEF BecomeDue, tasks, intel, watch, stream, monitor, TimeStands
<1>13. CASE \E a \in {"pumped", "flat", "rugged", "none"}, b \in BOOLEAN : Resolve(a, b)
  BY <1>13 DEF Resolve, tasks, watch, stream, monitor, TimeStands
<1> QED
  BY <1>1, <1>2, <1>3, <1>4, <1>5, <1>6, <1>7, <1>8, <1>9, <1>10, <1>11, <1>12, <1>13
     DEF Next, Progress, Environment

\* Each step keeps the invariant.
LEMMA TimedKept == Timed /\ [Next]_vars => Timed'
<1> SUFFICES ASSUME Timed, [Next]_vars PROVE Timed'
  OBVIOUS
<1> USE DEF Timed, OnItsWay, Pending
<1>0. /\ Fed' /\ \A m \in Launched : InFeed(m)' => InFeed(m) \/ Announce(m)
      /\ seen \subseteq seen' \/ StreamRestart
  BY StepsOfStreams, FeedsKept
<1>a. Launched \subseteq Mints /\ Window \in Nat /\ \A m \in Launched : New(m) \in Tokens
  BY StreamAssumption, PipelineAssumption, Distinct
<1>1. CASE TimeStands
  <2>1. \A m \in Launched : ~ Announce(m)
    BY <1>1 DEF TimeStands, Announce, FirstSight
  <2>2. \A m \in Launched : OnItsWay(m)' => OnItsWay(m)
    BY <1>0, <1>1, <1>a, <2>1 DEF TimeStands
  <2> QED
    BY <1>0, <1>1, <1>a, <2>2 DEF TimeStands
<1>2. CASE Take
  <2> DEFINE h == Head(raw)
  <2>1. /\ raw # <<>> /\ stage' = [stage EXCEPT ![h] = "waiting"] /\ waited' = [waited EXCEPT ![h] = 0]
        /\ UNCHANGED <<window, decided, seen>>
    BY <1>2 DEF Take, TakeRaw, MoveTo, monitor, intel, watch
  <2>2. h \in Tokens /\ h = raw[1] /\ 1 \in 1..Len(raw)
    BY <2>1 DEF Fed
  <2> HIDE DEF h
  <2>3. \A m \in Launched : h = New(m) => InFeed(m)
    BY <2>2 DEF InFeed
  <2>4. \A m \in Launched : ~ Announce(m)
    BY <2>1 DEF Announce, FirstSight
  <2>5. \A m \in Launched : OnItsWay(m)' => OnItsWay(m)
    BY <1>0, <1>a, <2>1, <2>2, <2>3, <2>4
  <2>6. stage' \in [Tokens -> Stages] /\ waited' \in [Tokens -> Nat]
    BY <2>1, <2>2 DEF Stages
  <2>7. ASSUME NEW m \in Launched, stage'[New(m)] = "waiting", Pending(m)' PROVE waited'[New(m)] <= window'[m]
    BY <1>a, <2>1, <2>2, <2>7
  <2> QED
    BY <1>0, <1>a, <2>1, <2>5, <2>6, <2>7
<1>3. CASE Tick
  <2>1. /\ \A m \in Mints : ~ WindowOver(m)
        /\ window' = [m \in Mints |-> IF Pending(m) THEN window[m] + 1 ELSE -1]
        /\ waited' = [k \in Tokens |-> IF Sleeping(k) THEN waited[k] + 1 ELSE waited[k]]
        /\ UNCHANGED <<decided, seen, stage>>
    BY <1>3 DEF Tick, SomethingDue, WindowsAge, SubscriptionsAge
  <2>2. window' \in [Mints -> Int] /\ waited' \in [Tokens -> Nat] /\ \A m \in Mints : window'[m] <= Window
    BY <1>a, <2>1 DEF WindowOver
  <2>3. \A m \in Launched : ~ Announce(m)
    BY <2>1 DEF Announce, FirstSight
  <2>4. \A m \in Mints : Pending(m)' <=> Pending(m)
    BY <2>1
  <2>5. \A m \in Launched : OnItsWay(m)' => OnItsWay(m)
    BY <1>0, <1>a, <2>1, <2>3
  <2>6. ASSUME NEW m \in Launched, stage'[New(m)] = "waiting", Pending(m)' PROVE waited'[New(m)] <= window'[m]
    BY <1>a, <2>1, <2>4, <2>6 DEF Sleeping
  <2> QED
    BY <1>0, <1>a, <2>1, <2>2, <2>4, <2>5, <2>6
<1>4. ASSUME NEW n \in Launched, Launch(n) PROVE Timed'
  <2>1. /\ n \notin seen /\ seen' = seen \cup {n} /\ window' = [window EXCEPT ![n] = 0]
        /\ UNCHANGED <<decided, stage, waited>>
    BY <1>4 DEF Launch, Announce, FirstSight, OnCreate, tasks
  <2>2. window' \in [Mints -> Int] /\ \A m \in Mints : window'[m] <= Window
    BY <1>a, <2>1
  <2>3. ~ OnItsWay(n)
    BY <2>1
  <2>4. \A m \in Launched : m # n => ~ Announce(m)
    BY <2>1 DEF Announce, FirstSight
  <2>5. \A m \in Launched : m # n /\ OnItsWay(m)' => OnItsWay(m)
    BY <1>0, <2>1, <2>4
  <2>6. window'[n] = 0 /\ \A m \in Launched : m # n => window'[m] = window[m]
    BY <1>a, <2>1
  <2> QED
    BY <1>0, <1>a, <2>1, <2>2, <2>3, <2>5, <2>6
<1>5. ASSUME NEW n \in Mints, Decide(n) PROVE Timed'
  <2>1. /\ window' = [window EXCEPT ![n] = -1]
        /\ decided'[n] \in {"clean", "bundled"} /\ decided' \in [Mints -> {"unknown", "clean", "bundled"}]
        /\ \A m \in Mints : m # n => decided'[m] = decided[m]
        /\ UNCHANGED <<seen, stage, waited, raw, reader>>
    BY <1>5 DEF Decide, DecideBundle, stream, monitor, tasks
  <2>2. window' \in [Mints -> Int] /\ \A m \in Mints : window'[m] <= Window
    BY <1>a, <2>1
  <2>3. \A m \in Launched : OnItsWay(m)' => OnItsWay(m)
    BY <2>1 DEF InFeed
  <2> QED
    BY <1>0, <1>a, <2>1, <2>2, <2>3
<1>6. ASSUME NEW saved, NEW clean, Restart(saved, clean) PROVE Timed'
  <2>1. /\ window' = [m \in Mints |-> -1] /\ decided' \in {decided, Nothing}
        /\ stage' = [k \in Tokens |-> "none"] /\ waited' = [k \in Tokens |-> 0]
        /\ raw' = <<>> /\ reader' = NoToken
    BY <1>6 DEF Restart, StreamRestart, IntelRestart
  <2>2. Nothing \in [Mints -> {"unknown", "clean", "bundled"}]
    BY DEF Nothing
  <2>3. \A m \in Launched : ~ OnItsWay(m)'
    BY <1>a, <2>1, NotEmpty DEF InFeed
  <2> QED
    BY <1>0, <1>a, <2>1, <2>2, <2>3 DEF Stages
<1> QED
  BY <1>1, <1>2, <1>3, <1>4, <1>5, <1>6, StepsOfTime

\* At the start nothing is on its way.
LEMMA TimedStart == Init => Timed
<1> SUFFICES ASSUME Init PROVE Timed
  OBVIOUS
<1>1. /\ raw = <<>> /\ reader = NoToken /\ scanner = NoToken
      /\ stage = [k \in Tokens |-> "none"] /\ waited = [k \in Tokens |-> 0]
      /\ window = [m \in Mints |-> -1] /\ decided = Nothing
  BY DEF Init, StreamInit, IntelInit
<1>2. Fed /\ \A m \in Launched : ~ OnItsWay(m)
  BY <1>1, NotEmpty, Distinct DEF Fed, OnItsWay, InFeed
<1>3. stage \in [Tokens -> Stages] /\ waited \in [Tokens -> Nat]
  BY <1>1 DEF Stages
<1>4. /\ window \in [Mints -> Int] /\ \A m \in Mints : window[m] <= Window /\ ~ Pending(m)
      /\ decided \in [Mints -> {"unknown", "clean", "bundled"}]
  BY <1>1, PipelineAssumption DEF Nothing, Pending
<1> QED
  BY <1>2, <1>3, <1>4 DEF Timed, OnItsWay

\* A token that is accepted is the one that moves, and to the last check.
LEMMA AcceptMoves ==
  ASSUME stage \in [Tokens -> Stages], NEW k \in Tokens, Accepts(k), NEW j, NEW s, MoveTo(j, s)
  PROVE  j = k /\ s = "checking"
<1>1. j = k
  BY Zenon DEF Accepts, MoveTo
<1> QED
  BY <1>1 DEF Accepts, MoveTo

\* The score of t wants the token.
Wanting(k, t, quiet) ==
  /\ Wanted(t, WithRugs(t, Known(k, quiet)))
  /\ scored' = [scored EXCEPT ![k] = Result(t, WithRugs(t, Known(k, quiet)))]

\* An acceptance is the end of a score that wanted the token.
LEMMA AcceptedByScore ==
  ASSUME stage \in [Tokens -> Stages], [Next]_vars, NEW k \in Tokens, Accepts(k)
  PROVE  Scorable(k) /\ \E t \in Sights(k), quiet \in Quiet : Wanting(k, t, quiet)
<1>1. ASSUME UNCHANGED stage PROVE FALSE
  BY <1>1 DEF Accepts
<1>2. ASSUME NEW j, NEW s, MoveTo(j, s), s # "checking" PROVE FALSE
  BY <1>2, AcceptMoves
<1>3. CASE Link \/ Feeds \/ Tick \/ UNCHANGED vars
  BY <1>1, <1>3 DEF Link, Feeds, Tick, vars, tasks
<1>4. CASE Take
  BY <1>2, <1>4 DEF Take
<1>5. CASE \E m \in Mints : Decide(m)
  BY <1>1, <1>5 DEF Decide, tasks
<1>6. ASSUME NEW j \in Tokens, PutTrade(j) \/ ScoreFails(j) PROVE FALSE
  BY <1>2, <1>6 DEF PutTrade, ScoreFails, Offer
<1>7. ASSUME NEW j \in Tokens, NEW b \in BOOLEAN, CheckHolders(j, b) \/ BuyEnds(j, b) PROVE FALSE
  BY <1>2, <1>7 DEF CheckHolders, BuyEnds, Offer
<1>8. ASSUME NEW b \in BOOLEAN, TakeTrade(b) PROVE FALSE
  BY <1>2, <1>8 DEF TakeTrade
<1>9. CASE \E b \in BOOLEAN : SetStop(b) \/ Tune(b) \/ \E m \in Mints : SellLeg(m, b)
  BY <1>1, <1>9 DEF SetStop, Tune, SellLeg, tasks
<1>10. CASE \/ \E m \in Launched : Launch(m) \/ \E x \in TradeEvents : HearTrade(m, x)
            \/ \E l \in Listings : Listed(l)
  BY <1>1, <1>10 DEF Launch, HearTrade, Listed, tasks
<1>11. CASE \/ \E m \in Mints, how \in DOMAIN Profit, b \in BOOLEAN : Close(m, how, b)
            \/ \E n \in 1..Len(pending) : BecomeDue(n)
            \/ \E a \in {"pumped", "flat", "rugged", "none"}, b \in BOOLEAN : Resolve(a, b)
  BY <1>1, <1>11 DEF Close, BecomeDue, Resolve, tasks
<1>12. ASSUME NEW saved, NEW clean, Restart(saved, clean) PROVE FALSE
  BY <1>12 DEF Restart, Accepts
<1>13. ASSUME NEW j \in Tokens, NEW t \in Sights(j), NEW quiet \in Quiet, Score(j, t, quiet)
       PROVE  Scorable(k) /\ \E u \in Sights(k), q \in Quiet : Wanting(k, u, q)
  <2> DEFINE c == WithRugs(t, Known(j, quiet))
  <2>1. Scorable(j)
    BY <1>13 DEF Score
  <2>2. IF Wanted(t, c)
        THEN MoveTo(j, "checking") /\ scored' = [scored EXCEPT ![j] = Result(t, c)]
        ELSE MoveTo(j, "rejected")
    BY <1>13 DEF Score
  <2> HIDE DEF c
  <2>3. Wanted(t, c) /\ scored' = [scored EXCEPT ![j] = Result(t, c)] /\ j = k
    BY <1>2, <2>2, AcceptMoves
  <2> QED
    BY <2>1, <2>3 DEF c, Wanting
<1> QED
  BY <1>3, <1>4, <1>5, <1>6, <1>7, <1>8, <1>9, <1>10, <1>11, <1>12, <1>13 DEF Next, Progress, Environment

\* A token that is wanted and was bundled has two smart buyers.
LEMMA BundledNeedsSmart ==
  ASSUME NEW t, NEW k, NEW quiet, Wanted(t, WithRugs(t, Known(k, quiet))), decided[k.mint] = "bundled"
  PROVE  SmartBuyers(k.mint) >= 2
  BY DEF Wanted, PassesHardFilters, WithRugs, Known

\* BundleDecidedFirst: although the scorer waits for a decision no longer
\* than five seconds of the ten it takes, the cooldown before that is long
\* enough for every launch (CooldownAssumption).
THEOREM JudgedBeforeAccepted == Spec => BundleDecidedFirst
<1>1. ASSUME Timed, [Next]_vars, NEW k \in Tokens, Accepts(k), FromStream(k)
      PROVE  /\ ~ Pending(k.mint) /\ decided[k.mint] # "unknown"
             /\ decided[k.mint] = "bundled" => SmartBuyers(k.mint) >= 2
  <2>1. PICK m \in Launched : k = New(m)
    BY <1>1, Distinct DEF FromStream
  <2>2. k.mint = m /\ m \in Mints
    BY <2>1, Distinct, StreamAssumption
  <2>3. Scorable(k) /\ \E t \in Sights(k), quiet \in Quiet : Wanting(k, t, quiet)
    BY <1>1, AcceptedByScore DEF Timed
  <2>4. decided[m] = "bundled" => SmartBuyers(m) >= 2
    BY <2>2, <2>3, BundledNeedsSmart DEF Wanting
  <2>5. stage[k] = "waiting" /\ (~ Pending(m) \/ waited[k] >= Cooldown + BundleWait)
    BY <2>2, <2>3 DEF Scorable, Asleep
  <2>6. ~ Pending(m)
    <3>1. SUFFICES ASSUME Pending(m) PROVE FALSE
      OBVIOUS
    <3>2. waited[k] <= window[m] /\ window[m] <= Window
      BY <1>1, <2>1, <2>2, <2>5, <3>1 DEF Timed
    <3>3. waited[k] \in Nat /\ window[m] \in Int /\ {Cooldown, BundleWait, Window} \subseteq Nat
      BY <1>1, <2>2, PipelineAssumption DEF Timed
    <3> QED
      BY <2>5, <3>1, <3>2, <3>3, CooldownAssumption
  <2>7. decided[m] # "unknown"
    BY <1>1, <2>1, <2>5, <2>6 DEF Timed, OnItsWay
  <2> QED
    BY <2>2, <2>4, <2>6, <2>7
<1>2. Timed /\ [Next]_vars =>
        [\A k \in Tokens : Accepts(k) /\ FromStream(k) =>
           /\ ~ Pending(k.mint) /\ decided[k.mint] # "unknown"
           /\ decided[k.mint] = "bundled" => SmartBuyers(k.mint) >= 2]_vars
  BY <1>1
<1> QED
  BY <1>2, TimedStart, TimedKept, PTL DEF Spec, BundleDecidedFirst
-----------------------------------------------------------------------------
(* The memory of rugs                                                      *)

Bins == ((0..5) \X (0..4) \X (0..3)) \cup {<<>>}

\* Whatever carries a signature carries it as the key as well.
Carried  == {r \in [sig : Bins, key : Bins, capped : BOOLEAN] : r.sig = r.key}
Positions == {r \in [sig : Bins, key : Bins, known : BOOLEAN] : r.sig = r.key}
Entries  == {r \in [token : Tokens, sig : Bins, key : Bins, capped : BOOLEAN] : r.sig = r.key}

\* Memory and file hold the signatures that rugged, and what may rug later
\* would be recorded under its signature.
Remembered ==
  /\ rugged \in Seq(Bins) /\ rugs = rugged /\ rugFile = rugged
  /\ scored \in [Tokens -> Carried]
  /\ held \in [Mints -> Positions]
  /\ pending \in Seq(Entries) /\ batch \in Seq(Entries)

\* A signature is a triple of bins.
LEMMA SignatureBins == ASSUME NEW t, NEW n PROVE Signature(t, n) \in Bins
<1>1. (IF t.buy <= 0 THEN 0 ELSE From(t.buy, 200, 5, From(t.buy, 100, 4,
         From(t.buy, 50, 3, From(t.buy, 20, 2, 1))))) \in 0..5
  BY DEF From
<1>2. From(t.curve, 60, 4, From(t.curve, 40, 3, From(t.curve, 20, 2, From(t.curve, 10, 1, 0)))) \in 0..4
  BY DEF From
<1>3. From(n, 40, 3, From(n, 35, 2, From(n, 32, 1, 0))) \in 0..3
  BY DEF From
<1> QED
  BY <1>1, <1>2, <1>3 DEF Signature, Bins

\* The score of a token carries its signature.
LEMMA ResultCarried == ASSUME NEW t, NEW c PROVE Result(t, c) \in Carried
<1>1. Signature(t, RawScore(t, c)) \in Bins /\ (t.cap > 0) \in BOOLEAN
  BY SignatureBins
<1> QED
  BY <1>1 DEF Result, KeyOf, Carried

\* And so does the entry that is made of it.
LEMMA EntryCarried ==
  ASSUME NEW k \in Tokens, NEW r \in Carried
  PROVE  Entry(k, r) \in Entries
  BY DEF Entry, Carried, Entries

\* Nothing is scored, and nothing is held.
LEMMA NothingCarried == NoScore \in Carried /\ NoPosition \in Positions
  BY DEF NoScore, NoPosition, Carried, Positions, Bins

\* A rug that is learned from something that carries its signature.
LEMMA LearnKept ==
  ASSUME rugged \in Seq(Bins), rugs = rugged, rugFile = rugged,
         NEW e, e.sig \in Bins, e.key = e.sig, NEW is_rug, NEW written, Learn(e, is_rug, written)
  PROVE  rugged' \in Seq(Bins) /\ rugs' = rugged' /\ rugFile' = rugged'
<1>1. CASE is_rug /\ written
  <2>1. rugs' = Append(rugs, e.sig) /\ rugFile' = Append(rugFile, e.sig) /\ rugged' = Append(rugged, e.sig)
    BY <1>1 DEF Learn, RecordRug
  <2> QED
    BY <2>1
<1>2. CASE is_rug /\ ~ written
  BY <1>2 DEF Learn, RecordRug, memory
<1>3. CASE ~ is_rug
  BY <1>3 DEF Learn, memory
<1> QED
  BY <1>1, <1>2, <1>3

\* The rejections that wait, before and after they are due.
LEMMA TakeDueKept ==
  ASSUME pending \in Seq(Entries), NEW n \in 1..Len(pending), TakeDue(n)
  PROVE  pending' \in Seq(Entries) /\ batch' \in Seq(Entries)
  BY DEF TakeDue, NotDue

\* (as above)
LEMMA EntryDoneKept ==
  ASSUME pending \in Seq(Entries), batch \in Seq(Entries), batch # <<>>, EntryDone
  PROVE  pending' \in Seq(Entries) /\ batch' \in Seq(Entries)
<1>1. batch' \in Seq(Entries)
  BY DEF EntryDone
<1>2. CASE UNCHANGED pending
  BY <1>1, <1>2
<1>3. CASE Full /\ pending' = Newest(pending)
  <2>1. MaxPending \in Nat \ {0} /\ Len(pending) \in Nat /\ Len(pending) > MaxPending
    BY <1>3, LearningAssumption DEF Full
  <2>2. Newest(pending) \in Seq(Entries)
    BY <2>1 DEF Newest
  <2> QED
    BY <1>1, <1>3, <2>2
<1> QED
  BY <1>2, <1>3 DEF EntryDone

\* The steps that leave memory and entries as they are.
Untouched == UNCHANGED <<rugged, rugs, rugFile, pending, batch, held>>

\* Each step keeps the invariant.
LEMMA RememberedKept == Remembered /\ [Next]_vars => Remembered'
<1> SUFFICES ASSUME Remembered, [Next]_vars PROVE Remembered'
  OBVIOUS
<1> USE DEF Remembered, Untouched
<1>1. ASSUME Untouched, scored' = scored PROVE Remembered'
  BY <1>1
<1>2. ASSUME NEW k, Forget(k) PROVE scored' \in [Tokens -> Carried]
  <2>1. CASE k \in Tokens
    BY <1>2, <2>1, NothingCarried DEF Forget
  <2>2. CASE k \notin Tokens
    <3>1. scored' = scored
      BY <1>2, <2>2, Zenon DEF Forget
    <3> QED
      BY <3>1
  <2> QED
    BY <2>1, <2>2
<1>3. CASE Link \/ Feeds \/ Take \/ Tick \/ UNCHANGED vars
  BY <1>1, <1>3 DEF Link, Feeds, Take, Tick, vars, learned, memory, rejected, tasks, desk, past
<1>4. CASE \/ \E m \in Mints : Decide(m)
           \/ \E k \in Tokens : PutTrade(k) \/ ScoreFails(k)
           \/ \E b \in BOOLEAN : SetStop(b) \/ Tune(b) \/ \E m \in Mints : SellLeg(m, b)
  BY <1>1, <1>4 DEF Decide, PutTrade, ScoreFails, SetStop, Tune, SellLeg, learned, memory, rejected, tasks, desk, past
<1>5. CASE \/ \E m \in Launched : Launch(m) \/ \E x \in TradeEvents : HearTrade(m, x)
           \/ \E l \in Listings : Listed(l)
  BY <1>1, <1>5 DEF Launch, HearTrade, Listed, learned, memory, rejected, tasks, desk, past
<1>6. ASSUME NEW k \in Tokens, NEW t, NEW quiet, Score(k, t, quiet) PROVE Remembered'
  <2> DEFINE c == WithRugs(t, Known(k, quiet))
  <2>1. /\ UNCHANGED <<rugged, rugs, rugFile, held, batch>>
        /\ \/ scored' = [scored EXCEPT ![k] = Result(t, c)] /\ UNCHANGED pending
           \/ pending' = Append(pending, Entry(k, Result(t, c))) /\ UNCHANGED scored
    BY <1>6 DEF Score, Reject, memory, rejected, desk, past
  <2>2. Result(t, c) \in Carried /\ Entry(k, Result(t, c)) \in Entries
    BY ResultCarried, EntryCarried
  <2> HIDE DEF c
  <2> DEFINE r == Result(t, c)  e == Entry(k, r)
  <2> HIDE DEF r, e
  <2>3. CASE scored' = [scored EXCEPT ![k] = r] /\ UNCHANGED pending
    BY <2>1, <2>2, <2>3 DEF r
  <2>4. CASE pending' = Append(pending, e) /\ UNCHANGED scored
    BY <2>1, <2>2, <2>4 DEF r, e
  <2> QED
    BY <2>1, <2>3, <2>4 DEF r, e
<1>7. ASSUME NEW k \in Tokens, NEW b \in BOOLEAN, CheckHolders(k, b) PROVE Remembered'
  <2>1. UNCHANGED <<rugged, rugs, rugFile, held, batch>>
    BY <1>7 DEF CheckHolders, Reject, memory, rejected, desk, past
  <2>2. CASE b
    <3>1. UNCHANGED <<pending, scored>>
      BY <1>7, <2>2 DEF CheckHolders, rejected
    <3> QED
      BY <2>1, <3>1
  <2>3. CASE ~ b
    <3>1. pending' = Append(pending, Entry(k, scored[k])) /\ Forget(k)
      BY <1>7, <2>3 DEF CheckHolders, Reject
    <3>2. Entry(k, scored[k]) \in Entries
      BY EntryCarried
    <3>3. pending' \in Seq(Entries) /\ scored' \in [Tokens -> Carried]
      BY <1>2, <3>1, <3>2
    <3> QED
      BY <2>1, <3>3
  <2> QED
    BY <2>2, <2>3
<1>8. ASSUME NEW b \in BOOLEAN, TakeTrade(b) PROVE Remembered'
  <2>1. Untouched /\ (scored' = scored \/ Forget(Head(trades)))
    BY <1>8 DEF TakeTrade, learned, memory, rejected, desk, past
  <2> QED
    BY <1>1, <1>2, <2>1
<1>9. ASSUME NEW k \in Tokens, NEW b \in BOOLEAN, BuyEnds(k, b) PROVE Remembered'
  <2> DEFINE bought_ == [sig |-> scored[k].sig, key |-> scored[k].key, known |-> FromStream(k)]
  <2>1. /\ UNCHANGED <<rugged, rugs, rugFile, pending, batch>> /\ Forget(k)
        /\ held' = held \/ held' = [held EXCEPT ![k.mint] = bought_]
    BY <1>9 DEF BuyEnds, learned, memory, rejected, past
  <2>2. scored[k] \in Carried /\ FromStream(k) \in BOOLEAN
    BY DEF FromStream
  <2>3. bought_ \in Positions
    BY <2>2 DEF Carried, Positions
  <2>4. k.mint \in Mints
    BY Distinct, StreamAssumption
  <2> HIDE DEF bought_
  <2>5. held' \in [Mints -> Positions]
    BY <2>1, <2>3, <2>4
  <2> QED
    BY <1>2, <2>1, <2>5
<1>10. ASSUME NEW m \in Mints, NEW how, NEW b \in BOOLEAN, Close(m, how, b) PROVE Remembered'
  <2>1. /\ held' = [held EXCEPT ![m] = NoPosition] /\ Learn(held[m], how = "rugged", b)
        /\ UNCHANGED <<pending, batch, scored>>
    BY <1>10 DEF Close, rejected, tasks
  <2>2. held[m].sig \in Bins /\ held[m].key = held[m].sig
    BY DEF Positions
  <2>3. rugged' \in Seq(Bins) /\ rugs' = rugged' /\ rugFile' = rugged'
    BY <2>1, <2>2, LearnKept
  <2>4. held' \in [Mints -> Positions]
    BY <2>1, NothingCarried
  <2> QED
    BY <2>1, <2>3, <2>4
<1>11. ASSUME NEW n \in 1..Len(pending), BecomeDue(n) PROVE Remembered'
  <2>1. TakeDue(n) /\ UNCHANGED <<rugged, rugs, rugFile, held, scored>>
    BY <1>11 DEF BecomeDue, memory, tasks, desk, past
  <2> QED
    BY <2>1, TakeDueKept
<1>12. ASSUME NEW a, NEW b \in BOOLEAN, Resolve(a, b) PROVE Remembered'
  <2> DEFINE e == Head(batch)
  <2>1. batch # <<>> /\ EntryDone /\ Learn(e, Outcome(e, a) = "rugged", b) /\ UNCHANGED <<held, scored>>
    BY <1>12 DEF Resolve, tasks, desk
  <2>2. e \in Entries
    BY <2>1
  <2>3. e.sig \in Bins /\ e.key = e.sig
    BY <2>2 DEF Entries
  <2> HIDE DEF e
  <2>4. rugged' \in Seq(Bins) /\ rugs' = rugged' /\ rugFile' = rugged'
    BY <2>1, <2>3, LearnKept
  <2> QED
    BY <2>1, <2>4, EntryDoneKept
<1>13. ASSUME NEW saved, NEW clean, Restart(saved, clean) PROVE Remembered'
  <2>1. /\ rugs' = rugFile /\ rugFile' = rugFile /\ pending' = <<>> /\ batch' = <<>>
        /\ scored' = [k \in Tokens |-> NoScore] /\ UNCHANGED <<held, rugged>>
    BY <1>13 DEF Restart, LearningRestart, desk
  <2>2. scored' \in [Tokens -> Carried]
    BY <2>1, NothingCarried
  <2> QED
    BY <2>1, <2>2
<1> QED
  BY <1>3, <1>4, <1>5, <1>6, <1>7, <1>8, <1>9, <1>10, <1>11, <1>12, <1>13 DEF Next, Progress, Environment

\* At the start nothing is remembered.
LEMMA RememberedStart == Init => Remembered
<1> SUFFICES ASSUME Init PROVE Remembered
  OBVIOUS
<1>1. /\ rugs = <<>> /\ rugFile = <<>> /\ rugged = <<>> /\ pending = <<>> /\ batch = <<>>
      /\ scored = [k \in Tokens |-> NoScore] /\ held = [m \in Mints |-> NoPosition]
  BY DEF Init, LearningInit
<1> QED
  BY <1>1, NothingCarried DEF Remembered

\* The score before fusion and penalty does not look at the memory.
LEMMA RawScoreBlind ==
  ASSUME NEW t, NEW k, NEW quiet
  PROVE  LET b == Known(k, quiet) IN RawScore(t, WithRugs(t, b)) = RawScore(t, b)
<1> DEFINE b == Known(k, quiet)  c == WithRugs(t, b)
<1>1. /\ c.bonus = b.bonus /\ c.smart = b.smart /\ c.smartCreator = b.smartCreator
      /\ c.whales = b.whales /\ c.whaleSol = b.whaleSol
  BY DEF WithRugs, Known
<1> HIDE DEF b, c
<1>2. Creator(t, c) = Creator(t, b)
  BY <1>1 DEF Creator
<1>3. RawScore(t, c) = RawScore(t, b)
  BY <1>2 DEF RawScore
<1> QED
  BY <1>3 DEF b, c

\* RuggedPatternRefused: a pattern that has rugged RugHardRejectMatches times
\* is never accepted, whether its rugs were positions or rejected tokens and
\* whatever restarts lie between.
THEOREM RuggedNeverAccepted == Spec => RuggedPatternRefused
<1>1. ASSUME Remembered, Timed, [Next]_vars, NEW k \in Tokens, Accepts(k), RugHardRejectMatches > 0
      PROVE  Cardinality({i \in DOMAIN rugged : rugged[i] = scored'[k].sig}) < RugHardRejectMatches
  <2>1. PICK t \in Sights(k), quiet \in Quiet : Wanting(k, t, quiet)
    BY <1>1, AcceptedByScore DEF Timed
  <2> DEFINE b == Known(k, quiet)  c == WithRugs(t, b)  s == Signature(t, RawScore(t, b))
  <2>2. c.rugs = Recorded(s)
    BY DEF WithRugs, Known
  <2>3. RawScore(t, c) = RawScore(t, b)
    BY RawScoreBlind
  <2>4. Wanted(t, c) /\ scored' = [scored EXCEPT ![k] = Result(t, c)]
    BY <2>1 DEF Wanting
  <2> HIDE DEF b, c, s
  <2>5. scored'[k].sig = s
    BY <1>1, <2>3, <2>4 DEF Result, Remembered, s
  <2>6. ~ HardReject(c.rugs)
    BY <2>4 DEF Wanted, PassesHardFilters
  <2>7. Recorded(s) \in Nat /\ RugHardRejectMatches \in Nat
    <3>1. Len(rugged) \in Nat /\ DOMAIN rugged = 1..Len(rugged)
      BY <1>1 DEF Remembered
    <3>2. IsFiniteSet(1..Len(rugged))
      BY <3>1, FS_Interval
    <3> QED
      BY <1>1, <3>1, <3>2, FS_Subset, FS_CardinalityType, ScoringAssumption DEF Recorded, Remembered
  <2>8. Recorded(s) < RugHardRejectMatches
    BY <1>1, <2>2, <2>6, <2>7 DEF HardReject
  <2> QED
    BY <1>1, <2>5, <2>8 DEF Recorded, Remembered
<1>2. Remembered /\ Timed /\ [Next]_vars =>
        [\A k \in Tokens : Accepts(k) /\ RugHardRejectMatches > 0 =>
           Cardinality({i \in DOMAIN rugged : rugged[i] = scored'[k].sig}) < RugHardRejectMatches]_vars
  BY <1>1
<1> QED
  BY <1>2, RememberedStart, RememberedKept, TimedStart, TimedKept, PTL DEF Spec, RuggedPatternRefused
-----------------------------------------------------------------------------
(* A token on its way                                                      *)

feeds == <<raw, reader, scanner, offers>>

\* The token has been offered and not been taken yet.
Waits(k) == reader = k \/ scanner = k \/ \E i \in 1..Len(raw) : raw[i] = k

\* A token is in one place of one feed, and was offered; its task is made
\* when it leaves the feed, and not a second time.
Once ==
  /\ \A i, j \in 1..Len(raw) : raw[i] = raw[j] => i = j
  /\ \A k \in Tokens : reader = k \/ scanner = k => \A i \in 1..Len(raw) : raw[i] # k
  /\ \A k \in Tokens : ~ (reader = k /\ scanner = k)
  /\ \A k \in Tokens : Waits(k) => stage[k] = "none"
  /\ \A k \in Tokens : Waits(k) \/ stage[k] # "none" => offers[k] = 1

\* The trade queue holds each token whose task has put it there once.
Queued ==
  /\ trades \in Seq(Tokens) /\ Len(trades) <= TradeMax
  /\ \A i, j \in 1..Len(trades) : trades[i] = trades[j] => i = j
  /\ \A k \in Tokens : stage[k] = "queued" <=> \E i \in 1..Len(trades) : trades[i] = k

\* The rejections without an outcome, oldest first.
line == batch \o pending

\* A rejected token is in line once, or has its outcome.
Booked ==
  ~ overflowed =>
    /\ \A i, j \in 1..Len(line) : line[i].token = line[j].token => i = j
    /\ \A i \in 1..Len(line) : line[i].token \notin settled
    /\ \A k \in Tokens :
         stage[k] = "rejected" <=> k \in settled \/ \E i \in 1..Len(line) : line[i].token = k

\* What a step does to a token that is out of the feeds.
Passes(k, s) ==
  /\ stage[k] \notin {"none", "queued", "rejected"} /\ s \in {"checking", "putting", "bought", "over"}
  /\ MoveTo(k, s) /\ UNCHANGED <<trades, rejected, feeds>>

Enqueues(k) ==
  /\ stage[k] \in {"checking", "putting"} /\ MoveTo(k, "queued")
  /\ Len(trades) < TradeMax /\ trades' = Append(trades, k)
  /\ UNCHANGED <<rejected, feeds>>

Dequeues(s) ==
  /\ trades # <<>> /\ trades' = Tail(trades) /\ s \in {"buying", "over"} /\ MoveTo(Head(trades), s)
  /\ UNCHANGED <<rejected, feeds>>

Rejects(k, e) ==
  /\ stage[k] \in {"waiting", "checking"} /\ MoveTo(k, "rejected")
  /\ e \in Entries /\ e.token = k /\ Reject(e)
  /\ UNCHANGED <<trades, feeds>>

\* What it does to a token in the feeds, or on its way into them.
Flows ==
  /\ \/ ReaderPuts /\ UNCHANGED <<stage, offers>>
     \/ ScannerPuts /\ UNCHANGED <<stage, offers>>
     \/ TakeRaw /\ MoveTo(Head(raw), "waiting") /\ UNCHANGED offers
     \/ \E m \in Launched : Announce(m) /\ Offered(New(m)) /\ UNCHANGED stage
     \/ \E l \in Listings : Find(l) /\ Offered(l) /\ UNCHANGED stage
  /\ UNCHANGED <<trades, rejected>>

\* And to the rejections in line.
Books ==
  /\ \/ \E n \in 1..Len(pending) : TakeDue(n)
     \/ batch # <<>> /\ EntryDone
  /\ UNCHANGED <<stage, trades, feeds>>

Forgets ==
  /\ stage' = [k \in Tokens |-> "none"] /\ trades' = <<>>
  /\ pending' = <<>> /\ batch' = <<>> /\ settled' = {} /\ overflowed' = FALSE
  /\ raw' = <<>> /\ reader' = NoToken /\ scanner' = NoToken /\ offers' = [k \in Tokens |-> 0]

TokenStep ==
  \/ UNCHANGED <<stage, trades, rejected, feeds>>
  \/ Flows \/ Books \/ Forgets
  \/ \E k \in Tokens, s \in Stages : Passes(k, s)
  \/ \E k \in Tokens : Enqueues(k) \/ \E e \in Entries : Rejects(k, e)
  \/ \E s \in Stages : Dequeues(s)

\* Every step is one of them.
LEMMA StepsOfTokens == Remembered /\ Timed /\ [Next]_vars => TokenStep
<1> SUFFICES ASSUME Remembered, Timed, [Next]_vars PROVE TokenStep
  OBVIOUS
<1>1. ASSUME UNCHANGED <<stage, trades, rejected, feeds>> PROVE TokenStep
  BY <1>1 DEF TokenStep
<1>2. CASE Link \/ Tick \/ UNCHANGED vars
  BY <1>1, <1>2 DEF Link, Connect, Disconnect, Tick, SubscriptionsAge, vars, tasks, learned, stream, monitor,
                   scan, past, feeds
<1>3. CASE Feeds
  <2>1. CASE ReaderPuts \/ ScannerPuts
    BY <1>3, <2>1 DEF Feeds, Flows, TokenStep, tasks, past, learned
  <2>2. CASE \E m \in Mints : Subscribe(m) \/ Unsubscribe(m)
    BY <1>1, <1>3, <2>2 DEF Feeds, Subscribe, Unsubscribe, tasks, past, learned, scan, feeds
  <2> QED
    BY <1>3, <2>1, <2>2 DEF Feeds
<1>4. CASE Take
  BY <1>4 DEF Take, Flows, TokenStep, past, learned
<1>5. CASE \E m \in Mints : Decide(m)
  BY <1>1, <1>5 DEF Decide, tasks, learned, stream, monitor, scan, past, feeds
<1>6. ASSUME NEW k \in Tokens, NEW t, NEW quiet, Score(k, t, quiet) PROVE TokenStep
  <2> DEFINE r == Result(t, WithRugs(t, Known(k, quiet)))
  <2>1. stage[k] = "waiting" /\ UNCHANGED <<trades, feeds>>
    BY <1>6 DEF Score, Scorable, stream, monitor, scan, past, feeds
  <2>2. \/ MoveTo(k, "checking") /\ UNCHANGED rejected
        \/ MoveTo(k, "rejected") /\ Reject(Entry(k, r))
    BY <1>6 DEF Score
  <2>3. r \in Carried
    BY ResultCarried
  <2> HIDE DEF r
  <2>4. Entry(k, r) \in Entries /\ Entry(k, r).token = k
    BY <2>3, EntryCarried DEF Entry
  <2>5. CASE MoveTo(k, "checking") /\ UNCHANGED rejected
    <3>1. Passes(k, "checking")
      BY <2>1, <2>5 DEF Passes
    <3> QED
      BY <3>1 DEF TokenStep, Stages
  <2>6. CASE MoveTo(k, "rejected") /\ Reject(Entry(k, r))
    <3>1. Rejects(k, Entry(k, r))
      BY <2>1, <2>4, <2>6 DEF Rejects
    <3> QED
      BY <2>4, <3>1 DEF TokenStep
  <2> QED
    BY <2>2, <2>5, <2>6
<1>7. ASSUME NEW k \in Tokens, ScoreFails(k) PROVE TokenStep
  <2>1. Passes(k, "over")
    BY <1>7 DEF ScoreFails, Scorable, Passes, stream, monitor, scan, past, feeds
  <2> QED
    BY <2>1 DEF TokenStep, Stages
<1>8. ASSUME NEW k \in Tokens, stage[k] \in {"checking", "putting"}, Offer(k),
             UNCHANGED <<rejected, feeds>>
      PROVE  TokenStep
  <2>1. Enqueues(k) \/ Passes(k, "putting")
    BY <1>8 DEF Offer, Enqueues, Passes
  <2> QED
    BY <2>1 DEF TokenStep, Stages
<1>9. ASSUME NEW k \in Tokens, NEW b \in BOOLEAN, CheckHolders(k, b) PROVE TokenStep
  <2>1. stage[k] = "checking" /\ UNCHANGED feeds
    BY <1>9 DEF CheckHolders, stream, monitor, scan, past, feeds
  <2>2. CASE b
    BY <1>8, <1>9, <2>1, <2>2 DEF CheckHolders
  <2>3. CASE ~ b
    <3> DEFINE e == Entry(k, scored[k])
    <3>1. e \in Entries /\ e.token = k
      BY EntryCarried DEF Remembered, Entry
    <3>2. Rejects(k, e)
      BY <1>9, <2>1, <2>3, <3>1 DEF CheckHolders, Rejects
    <3> QED
      BY <3>1, <3>2 DEF TokenStep
  <2> QED
    BY <2>2, <2>3
<1>10. ASSUME NEW k \in Tokens, PutTrade(k) PROVE TokenStep
  BY <1>8, <1>10 DEF PutTrade, learned, stream, monitor, scan, past, feeds
<1>11. ASSUME NEW k \in Tokens, NEW b \in BOOLEAN, BuyEnds(k, b) PROVE TokenStep
  <2>1. Passes(k, "bought") \/ Passes(k, "over")
    BY <1>11 DEF BuyEnds, Passes, learned, stream, monitor, scan, past, feeds
  <2> QED
    BY <2>1 DEF TokenStep, Stages
<1>12. ASSUME NEW b \in BOOLEAN, TakeTrade(b) PROVE TokenStep
  <2>1. Dequeues("buying") \/ Dequeues("over")
    BY <1>12 DEF TakeTrade, Ready, Dequeues, learned, stream, monitor, scan, past, feeds
  <2> QED
    BY <2>1 DEF TokenStep, Stages
<1>13. CASE \E b \in BOOLEAN : SetStop(b) \/ Tune(b) \/ \E m \in Mints : SellLeg(m, b)
  BY <1>1, <1>13 DEF SetStop, Tune, SellLeg, tasks, learned, stream, monitor, scan, past, feeds
<1>14. ASSUME NEW m \in Launched, Launch(m) PROVE TokenStep
  BY <1>14 DEF Launch, tasks, learned, Flows, TokenStep
<1>15. CASE \E m \in Launched : \E x \in TradeEvents : HearTrade(m, x)
  BY <1>1, <1>15 DEF HearTrade, tasks, learned, stream, monitor, scan, past, feeds
<1>16. ASSUME NEW l \in Listings, Listed(l) PROVE TokenStep
  BY <1>16 DEF Listed, tasks, learned, Flows, TokenStep
<1>17. CASE \E m \in Mints, how \in DOMAIN Profit, b \in BOOLEAN : Close(m, how, b)
  BY <1>1, <1>17 DEF Close, tasks, stream, monitor, scan, feeds
<1>18. ASSUME NEW n \in 1..Len(pending), BecomeDue(n) PROVE TokenStep
  BY <1>18 DEF BecomeDue, tasks, stream, monitor, scan, past, feeds, Books, TokenStep
<1>19. ASSUME NEW a, NEW b \in BOOLEAN, Resolve(a, b) PROVE TokenStep
  BY <1>19 DEF Resolve, tasks, stream, monitor, scan, feeds, Books, TokenStep
<1>20. ASSUME NEW saved, NEW clean, Restart(saved, clean) PROVE TokenStep
  BY <1>20 DEF Restart, StreamRestart, LearningRestart, Forgets, TokenStep
<1> QED
  BY <1>2, <1>3, <1>4, <1>5, <1>6, <1>7, <1>9, <1>10, <1>11, <1>12, <1>13, <1>14, <1>15, <1>16, <1>17,
     <1>18, <1>19, <1>20 DEF Next, Progress, Environment

\* A token that has left the feeds moves on.
LEMMA OnceMoved ==
  ASSUME Once, stage \in [Tokens -> Stages], UNCHANGED feeds,
         NEW k \in Tokens, stage[k] # "none", NEW s, MoveTo(k, s)
  PROVE  Once'
<1>1. /\ UNCHANGED <<raw, reader, scanner, offers>>
      /\ stage' = [stage EXCEPT ![k] = s] /\ stage'[k] = s
      /\ \A j \in Tokens : j # k => stage'[j] = stage[j]
  BY DEF feeds, MoveTo
<1>2. \A j \in Tokens : Waits(j)' <=> Waits(j)
  BY <1>1 DEF Waits
<1>3. ~ Waits(k) /\ offers[k] = 1
  BY DEF Once
<1> QED
  BY <1>1, <1>2, <1>3 DEF Once

\* A feed takes up a token that was never offered.
LEMMA OnceFed ==
  ASSUME Once, Fed, offers \in [Tokens -> 0..1], UNCHANGED stage,
         NEW k \in Tokens, offers[k] # 1, Offered(k),
         \/ raw' = Append(raw, k) /\ UNCHANGED <<reader, scanner>>
         \/ raw' = raw /\ reader' = k /\ UNCHANGED scanner
         \/ raw' = raw /\ scanner' = k /\ UNCHANGED reader
  PROVE  Once'
<1>1. ~ Waits(k) /\ stage[k] = "none"
  BY DEF Once
<1>2. offers'[k] = 1 /\ \A j \in Tokens : j # k => offers'[j] = offers[j]
  BY DEF Offered, Once
<1>3. CASE raw' = Append(raw, k) /\ UNCHANGED <<reader, scanner>>
  <2>1. /\ Len(raw) \in Nat /\ Len(raw') = Len(raw) + 1 /\ raw'[Len(raw) + 1] = k
        /\ \A i \in 1..Len(raw) : raw'[i] = raw[i]
    BY <1>3 DEF Fed
  <2>2. \A j \in Tokens : Waits(j)' => Waits(j) \/ j = k
    BY <1>3, <2>1 DEF Waits
  <2>3. \A i, j \in 1..Len(raw') : raw'[i] = raw'[j] => i = j
    BY <1>1, <2>1 DEF Waits, Once
  <2>4. \A j \in Tokens : reader' = j \/ scanner' = j => \A i \in 1..Len(raw') : raw'[i] # j
    BY <1>1, <1>3, <2>1 DEF Waits, Once
  <2> QED
    BY <1>1, <1>2, <1>3, <2>2, <2>3, <2>4 DEF Once
<1>4. CASE \/ raw' = raw /\ reader' = k /\ UNCHANGED scanner
           \/ raw' = raw /\ scanner' = k /\ UNCHANGED reader
  <2>1. \A j \in Tokens : Waits(j)' => Waits(j) \/ j = k
    BY <1>4 DEF Waits
  <2>2. /\ \A j \in Tokens : reader' = j \/ scanner' = j => \A i \in 1..Len(raw') : raw'[i] # j
        /\ \A j \in Tokens : ~ (reader' = j /\ scanner' = j)
    BY <1>1, <1>4 DEF Waits, Once
  <2> QED
    BY <1>1, <1>2, <1>4, <2>1, <2>2 DEF Once
<1> QED
  BY <1>3, <1>4

\* What a feed was waiting to put goes into the queue.
LEMMA OncePut ==
  ASSUME Once, Fed, UNCHANGED <<stage, offers>>, NEW k \in Tokens, raw' = Append(raw, k),
         \/ reader = k /\ reader' = NoToken /\ UNCHANGED scanner
         \/ scanner = k /\ scanner' = NoToken /\ UNCHANGED reader
  PROVE  Once'
<1>1. /\ Len(raw) \in Nat /\ Len(raw') = Len(raw) + 1 /\ raw'[Len(raw) + 1] = k
      /\ \A i \in 1..Len(raw) : raw'[i] = raw[i] /\ raw[i] # k
  BY DEF Fed, Once
<1>2. \A j \in Tokens : (reader' = j => reader = j /\ j # k) /\ (scanner' = j => scanner = j /\ j # k)
  BY NotEmpty DEF Once
<1>3. Waits(k) /\ \A j \in Tokens : Waits(j)' => Waits(j)
  BY <1>1, <1>2 DEF Waits
<1>4. \A i, j \in 1..Len(raw') : raw'[i] = raw'[j] => i = j
  BY <1>1 DEF Once
<1>5. \A j \in Tokens : reader' = j \/ scanner' = j => \A i \in 1..Len(raw') : raw'[i] # j
  BY <1>1, <1>2 DEF Once
<1> QED
  BY <1>2, <1>3, <1>4, <1>5 DEF Once

\* Each step keeps a token in one place.
LEMMA OnceKept == Once /\ Offers /\ Timed /\ Queued /\ TokenStep => Once'
<1> SUFFICES ASSUME Once, Offers, Timed, Queued, TokenStep PROVE Once'
  OBVIOUS
<1>0. Fed /\ stage \in [Tokens -> Stages] /\ offers \in [Tokens -> 0..1]
  BY DEF Timed, Offers
<1>1. CASE UNCHANGED <<stage, trades, rejected, feeds>> \/ Books
  BY <1>1 DEF Once, Waits, Books, feeds
<1>2. ASSUME NEW k \in Tokens, NEW s, Passes(k, s) \/ Enqueues(k) \/ \E e \in Entries : Rejects(k, e)
      PROVE  Once'
  <2>1. stage[k] # "none" /\ UNCHANGED feeds /\ \E z : MoveTo(k, z)
    BY <1>2 DEF Passes, Enqueues, Rejects
  <2> QED
    BY <1>0, <2>1, OnceMoved
<1>3. ASSUME NEW s, Dequeues(s) PROVE Once'
  <2>1. trades # <<>> /\ MoveTo(Head(trades), s) /\ UNCHANGED feeds
    BY <1>3 DEF Dequeues
  <2>2. Head(trades) \in Tokens /\ Head(trades) = trades[1] /\ 1 \in 1..Len(trades)
    BY <2>1 DEF Queued
  <2>3. stage[Head(trades)] = "queued"
    BY <2>2 DEF Queued
  <2> QED
    BY <1>0, <2>1, <2>2, <2>3, OnceMoved
<1>4. CASE Forgets
  <2>1. \A k \in Tokens : ~ Waits(k)'
    BY <1>4, NotEmpty DEF Forgets, Waits
  <2> QED
    BY <1>4, <2>1, NotEmpty DEF Forgets, Once
<1>5. CASE Flows
  <2>1. ASSUME ReaderPuts, UNCHANGED <<stage, offers>> PROVE Once'
    <3>1. reader \in Tokens /\ raw' = Append(raw, reader) /\ reader' = NoToken /\ UNCHANGED scanner
      BY <1>0, <2>1 DEF ReaderPuts, Fed, scan
    <3> QED
      BY <1>0, <2>1, <3>1, OncePut
  <2>2. ASSUME ScannerPuts, UNCHANGED <<stage, offers>> PROVE Once'
    <3>1. scanner \in Tokens /\ raw' = Append(raw, scanner) /\ scanner' = NoToken /\ UNCHANGED reader
      BY <1>0, <2>2, Distinct DEF ScannerPuts, Fed, monitor
    <3> QED
      BY <1>0, <2>2, <3>1, OncePut
  <2>3. ASSUME TakeRaw, MoveTo(Head(raw), "waiting"), UNCHANGED offers PROVE Once'
    <3> DEFINE h == Head(raw)
    <3>1. raw # <<>> /\ raw' = Tail(raw) /\ UNCHANGED <<reader, scanner>>
      BY <2>3 DEF TakeRaw, monitor, scan
    <3>2. h \in Tokens /\ h = raw[1] /\ 1 \in 1..Len(raw)
      BY <1>0, <3>1 DEF Fed
    <3>3. /\ Len(raw) \in Nat /\ Len(raw') = Len(raw) - 1
          /\ \A i \in 1..Len(raw') : i + 1 \in 1..Len(raw) /\ raw'[i] = raw[i + 1]
      BY <1>0, <3>1 DEF Fed
    <3>4. stage' = [stage EXCEPT ![h] = "waiting"]
      BY <2>3 DEF MoveTo
    <3> HIDE DEF h
    <3>5. stage'[h] = "waiting" /\ \A j \in Tokens : j # h => stage'[j] = stage[j]
      BY <1>0, <3>2, <3>4
    <3>6. \A j \in Tokens : Waits(j)' => Waits(j)
      BY <3>1, <3>3 DEF Waits
    <3>a. Waits(h)
      BY <3>2 DEF Waits
    <3>b. reader' # h /\ scanner' # h
      BY <3>1, <3>2 DEF Once
    <3>c. \A i \in 1..Len(raw') : raw'[i] # h
      <4>1. SUFFICES ASSUME NEW i \in 1..Len(raw'), raw'[i] = h PROVE FALSE
        OBVIOUS
      <4>2. i + 1 \in 1..Len(raw) /\ raw[i + 1] = raw[1]
        BY <3>2, <3>3, <4>1
      <4>3. i + 1 = 1
        BY <3>2, <4>2 DEF Once
      <4> QED
        BY <4>3
    <3>7. \A j \in Tokens : Waits(j)' => j # h
      BY <3>b, <3>c DEF Waits
    <3>8. ASSUME NEW i \in 1..Len(raw'), NEW j \in 1..Len(raw'), raw'[i] = raw'[j] PROVE i = j
      <4>1. i + 1 = j + 1
        BY <3>3, <3>8 DEF Once
      <4> QED
        BY <4>1
    <3>9. /\ \A j \in Tokens : reader' = j \/ scanner' = j => \A i \in 1..Len(raw') : raw'[i] # j
          /\ \A j \in Tokens : ~ (reader' = j /\ scanner' = j)
      BY <3>1, <3>3 DEF Once
    <3>10. \A j \in Tokens : Waits(j)' => stage'[j] = "none"
      BY <3>5, <3>6, <3>7 DEF Once
    <3>11. \A j \in Tokens : Waits(j)' \/ stage'[j] # "none" => offers'[j] = 1
      BY <2>3, <3>2, <3>5, <3>6, <3>7, <3>a DEF Once
    <3> QED
      BY <3>8, <3>9, <3>10, <3>11 DEF Once
  <2>4. ASSUME NEW m \in Launched, Announce(m), Offered(New(m)), UNCHANGED stage PROVE Once'
    <3>1. New(m) \in Tokens /\ offers[New(m)] # 1
      BY <2>4, Distinct DEF Announce, FirstSight, Offers
    <3>2. \/ raw' = Append(raw, New(m)) /\ UNCHANGED <<reader, scanner>>
          \/ raw' = raw /\ reader' = New(m) /\ UNCHANGED scanner
      BY <2>4 DEF Announce, scan
    <3> QED
      BY <1>0, <2>4, <3>1, <3>2, OnceFed
  <2>5. ASSUME NEW l \in Listings, Find(l), Offered(l), UNCHANGED stage PROVE Once'
    <3>1. l \in Tokens /\ offers[l] # 1
      BY <2>5, Distinct DEF Find, Offers
    <3>2. \/ raw' = Append(raw, l) /\ UNCHANGED <<reader, scanner>>
          \/ raw' = raw /\ scanner' = l /\ UNCHANGED reader
      BY <2>5 DEF Find, monitor
    <3> QED
      BY <1>0, <2>5, <3>1, <3>2, OnceFed
  <2> QED
    BY <1>5, <2>1, <2>2, <2>3, <2>4, <2>5 DEF Flows
<1> QED
  BY <1>1, <1>2, <1>3, <1>4, <1>5 DEF TokenStep

\* Each step keeps the trade queue.
LEMMA QueuedKept == Once /\ Timed /\ Queued /\ TokenStep => Queued'
<1> SUFFICES ASSUME Once, Timed, Queued, TokenStep PROVE Queued'
  OBVIOUS
<1>0. stage \in [Tokens -> Stages] /\ trades \in Seq(Tokens) /\ Len(trades) \in Nat /\ TradeMax \in Nat \ {0}
  BY PipelineAssumption DEF Timed, Queued
<1>1. ASSUME UNCHANGED <<stage, trades>> PROVE Queued'
  BY <1>1 DEF Queued
<1>2. ASSUME NEW k \in Tokens, stage[k] # "queued", NEW s, s # "queued", MoveTo(k, s), UNCHANGED trades
      PROVE  Queued'
  <2>1. stage'[k] = s /\ \A j \in Tokens : j # k => stage'[j] = stage[j]
    BY <1>0, <1>2 DEF MoveTo
  <2>2. \A j \in Tokens : stage'[j] = "queued" <=> stage[j] = "queued"
    BY <1>2, <2>1
  <2> QED
    BY <1>2, <2>2 DEF Queued
<1>3. ASSUME NEW k \in Tokens, NEW s, Passes(k, s) \/ \E e \in Entries : Rejects(k, e) PROVE Queued'
  <2>1. stage[k] # "queued" /\ UNCHANGED trades /\ \E z : z # "queued" /\ MoveTo(k, z)
    BY <1>3 DEF Passes, Rejects
  <2> QED
    BY <1>2, <2>1
<1>4. ASSUME NEW k \in Tokens, Enqueues(k) PROVE Queued'
  <2>1. /\ stage[k] # "queued" /\ stage' = [stage EXCEPT ![k] = "queued"]
        /\ trades' = Append(trades, k) /\ Len(trades) < TradeMax
    BY <1>4 DEF Enqueues, MoveTo
  <2>2. /\ trades' \in Seq(Tokens) /\ Len(trades') = Len(trades) + 1 /\ trades'[Len(trades) + 1] = k
        /\ \A i \in 1..Len(trades) : trades'[i] = trades[i] /\ trades[i] # k
    BY <1>0, <2>1 DEF Queued
  <2>3. stage'[k] = "queued" /\ \A j \in Tokens : j # k => stage'[j] = stage[j]
    BY <1>0, <2>1
  <2>4. \A i, j \in 1..Len(trades') : trades'[i] = trades'[j] => i = j
    BY <1>0, <2>2 DEF Queued
  <2>5. ASSUME NEW j \in Tokens
        PROVE  stage'[j] = "queued" <=> \E i \in 1..Len(trades') : trades'[i] = j
    <3>1. CASE j = k
      BY <1>0, <2>2, <2>3, <3>1
    <3>2. CASE j # k
      BY <1>0, <2>2, <2>3, <3>2 DEF Queued
    <3> QED
      BY <3>1, <3>2
  <2> QED
    BY <1>0, <2>1, <2>2, <2>4, <2>5 DEF Queued
<1>5. ASSUME NEW s, Dequeues(s) PROVE Queued'
  <2> DEFINE h == Head(trades)
  <2>1. /\ trades # <<>> /\ trades' = Tail(trades) /\ s # "queued"
        /\ stage' = [stage EXCEPT ![h] = s]
    BY <1>5 DEF Dequeues, MoveTo
  <2>2. h \in Tokens /\ h = trades[1] /\ 1 \in 1..Len(trades)
    BY <1>0, <2>1
  <2> HIDE DEF h
  <2>3. /\ trades' \in Seq(Tokens) /\ Len(trades') = Len(trades) - 1
        /\ \A i \in 1..Len(trades') : i + 1 \in 1..Len(trades) /\ trades'[i] = trades[i + 1]
        /\ \A i \in 1..Len(trades) : i = 1 \/ (i - 1 \in 1..Len(trades') /\ trades'[i - 1] = trades[i])
    BY <1>0, <2>1
  <2>4. \A i, j \in 1..Len(trades') : trades'[i] = trades'[j] => i = j
    BY <2>3 DEF Queued
  <2>5. stage'[h] = s /\ \A j \in Tokens : j # h => stage'[j] = stage[j]
    BY <1>0, <2>1, <2>2
  <2>6. \A i \in 1..Len(trades') : trades'[i] # h
    BY <2>2, <2>3 DEF Queued
  <2>7. ASSUME NEW j \in Tokens
        PROVE  stage'[j] = "queued" <=> \E i \in 1..Len(trades') : trades'[i] = j
    <3>1. CASE j = h
      BY <2>1, <2>5, <2>6, <3>1
    <3>2. CASE j # h
      <4>1. stage'[j] = "queued" <=> \E i \in 1..Len(trades) : trades[i] = j
        BY <2>5, <3>2 DEF Queued
      <4>2. (\E i \in 1..Len(trades) : trades[i] = j) <=> \E i \in 1..Len(trades') : trades'[i] = j
        BY <2>2, <2>3, <3>2
      <4> QED
        BY <4>1, <4>2
    <3> QED
      BY <3>1, <3>2
  <2> QED
    BY <1>0, <2>3, <2>4, <2>7 DEF Queued
<1>6. CASE Flows
  <2>1. CASE UNCHANGED stage
    BY <1>1, <1>6, <2>1 DEF Flows
  <2>2. CASE TakeRaw /\ MoveTo(Head(raw), "waiting")
    <3>1. raw # <<>> /\ raw \in Seq(Tokens)
      BY <2>2 DEF TakeRaw, Timed, Fed
    <3>2. Head(raw) \in Tokens /\ Head(raw) = raw[1] /\ 1 \in 1..Len(raw)
      BY <3>1
    <3>3. stage[Head(raw)] = "none"
      BY <3>2 DEF Once, Waits
    <3> QED
      BY <1>2, <1>6, <2>2, <3>2, <3>3 DEF Flows
  <2> QED
    BY <1>6, <2>1, <2>2 DEF Flows
<1>7. CASE Forgets
  BY <1>0, <1>7 DEF Forgets, Queued
<1> QED
  BY <1>1, <1>3, <1>4, <1>5, <1>6, <1>7 DEF TokenStep, Books

\* The line is as long as its parts, and batch comes first.
LEMMA Line ==
  ASSUME batch \in Seq(Entries), pending \in Seq(Entries)
  PROVE  /\ Len(batch) \in Nat /\ Len(pending) \in Nat
         /\ line \in Seq(Entries) /\ Len(line) = Len(batch) + Len(pending)
         /\ \A i \in 1..Len(batch) : line[i] = batch[i]
         /\ \A i \in 1..Len(pending) : line[Len(batch) + i] = pending[i]
         /\ \A i \in 1..Len(line) : i > Len(batch) => line[i] = pending[i - Len(batch)]
  BY DEF line

\* A rejection goes to the end of the line.
LEMMA RejectLine ==
  ASSUME batch \in Seq(Entries), pending \in Seq(Entries), NEW e \in Entries,
         pending' = Append(pending, e), batch' = batch
  PROVE  /\ Len(line') = Len(line) + 1 /\ line'[Len(line) + 1] = e
         /\ \A i \in 1..Len(line) : line'[i] = line[i]
<1>1. line' = batch \o Append(pending, e)
  BY DEF line
<1>2. Append(pending, e) \in Seq(Entries) /\ Len(Append(pending, e)) = Len(pending) + 1
  OBVIOUS
<1>3. /\ Len(batch) \in Nat /\ Len(pending) \in Nat
      /\ \A i \in 1..Len(pending) : Append(pending, e)[i] = pending[i]
      /\ Append(pending, e)[Len(pending) + 1] = e
  OBVIOUS
<1> DEFINE p == Append(pending, e)
<1> HIDE DEF p
<1>4. /\ Len(line') = Len(batch) + Len(p)
      /\ \A i \in 1..Len(batch) + Len(p) : line'[i] = IF i <= Len(batch) THEN batch[i] ELSE p[i - Len(batch)]
  BY <1>1, <1>2, ConcatProperties DEF p
<1>5. /\ Len(line) = Len(batch) + Len(pending)
      /\ \A i \in 1..Len(line) : line[i] = IF i <= Len(batch) THEN batch[i] ELSE pending[i - Len(batch)]
  BY DEF line
<1>6. Len(line') = Len(line) + 1 /\ line'[Len(line) + 1] = e
  <2>1. Len(p) = Len(pending) + 1 /\ p[Len(pending) + 1] = e
    BY <1>2, <1>3 DEF p
  <2>2. Len(line) + 1 \in 1..Len(batch) + Len(p) /\ ~ (Len(line) + 1 <= Len(batch))
        /\ (Len(line) + 1) - Len(batch) = Len(pending) + 1
    BY <1>3, <1>5, <2>1
  <2>3. line'[Len(line) + 1] = p[(Len(line) + 1) - Len(batch)]
    BY <1>4, <2>2
  <2> QED
    BY <1>3, <1>4, <1>5, <2>1, <2>2, <2>3
<1>7. ASSUME NEW i \in 1..Len(line) PROVE line'[i] = line[i]
  <2>1. /\ i \in 1..Len(batch) + Len(p) /\ \A j \in 1..Len(pending) : p[j] = pending[j]
        /\ ~ (i <= Len(batch)) => i - Len(batch) \in 1..Len(pending)
    BY <1>2, <1>3, <1>5 DEF p
  <2>2. line'[i] = IF i <= Len(batch) THEN batch[i] ELSE p[i - Len(batch)]
    BY <1>4, <2>1
  <2>3. line[i] = IF i <= Len(batch) THEN batch[i] ELSE pending[i - Len(batch)]
    BY <1>5
  <2> QED
    BY <2>1, <2>2, <2>3
<1> QED
  BY <1>6, <1>7

\* What falls due leaves the list and stays in line.
LEMMA DueLine ==
  ASSUME batch \in Seq(Entries), pending \in Seq(Entries), NEW n \in 1..Len(pending), TakeDue(n)
  PROVE  line' = line
<1>1. batch = <<>> /\ batch' = SubSeq(pending, 1, n) /\ pending' = SubSeq(pending, n + 1, Len(pending))
  BY DEF TakeDue, NotDue
<1>2. /\ Len(pending) \in Nat /\ n \in Nat /\ batch' \in Seq(Entries) /\ pending' \in Seq(Entries)
      /\ Len(batch') = n /\ Len(pending') = Len(pending) - n
      /\ \A i \in 1..n : batch'[i] = pending[i]
      /\ \A i \in 1..Len(pending) - n : pending'[i] = pending[n + i]
  BY <1>1
<1>3. line = pending
  BY <1>1 DEF line
<1>4. /\ line' \in Seq(Entries) /\ Len(line') = Len(batch') + Len(pending')
      /\ \A i \in 1..Len(line') : line'[i] = IF i <= Len(batch') THEN batch'[i] ELSE pending'[i - Len(batch')]
  <2>1. line' = batch' \o pending'
    BY DEF line
  <2> DEFINE b == batch'  p == pending'
  <2>2. b \in Seq(Entries) /\ p \in Seq(Entries)
    BY <1>2
  <2> HIDE DEF b, p
  <2>3. /\ b \o p \in Seq(Entries) /\ Len(b \o p) = Len(b) + Len(p)
        /\ \A i \in 1..Len(b) + Len(p) : (b \o p)[i] = IF i <= Len(b) THEN b[i] ELSE p[i - Len(b)]
    BY <2>2, ConcatProperties
  <2> QED
    BY <2>1, <2>3 DEF b, p
<1>5. ASSUME NEW i \in 1..Len(line') PROVE line'[i] = pending[i]
  <2>1. CASE i <= n
    BY <1>2, <1>4, <2>1
  <2>2. CASE ~ (i <= n)
    <3>1. i - n \in 1..Len(pending) - n /\ line'[i] = pending'[i - n] /\ n + (i - n) = i
      BY <1>2, <1>4, <2>2
    <3> QED
      BY <1>2, <3>1
  <2> QED
    BY <2>1, <2>2
<1> QED
  BY <1>2, <1>3, <1>4, <1>5

\* What is resolved was the head of the line.
LEMMA DoneLine ==
  ASSUME batch \in Seq(Entries), pending \in Seq(Entries), batch # <<>>,
         batch' = Tail(batch), pending' = pending
  PROVE  /\ Head(batch) = line[1] /\ 1 \in 1..Len(line) /\ Len(line') = Len(line) - 1
         /\ \A i \in 1..Len(line') : i + 1 \in 1..Len(line) /\ line'[i] = line[i + 1]
<1>1. /\ Len(batch) \in Nat \ {0} /\ Len(pending) \in Nat /\ batch' \in Seq(Entries)
      /\ Head(batch) = batch[1] /\ Len(batch') = Len(batch) - 1
      /\ \A i \in 1..Len(batch') : batch'[i] = batch[i + 1]
  OBVIOUS
<1>2. /\ Len(line) = Len(batch) + Len(pending)
      /\ \A i \in 1..Len(line) : line[i] = IF i <= Len(batch) THEN batch[i] ELSE pending[i - Len(batch)]
  BY DEF line
<1>3. /\ Len(line') = Len(batch') + Len(pending)
      /\ \A i \in 1..Len(line') : line'[i] = IF i <= Len(batch') THEN batch'[i] ELSE pending[i - Len(batch')]
  BY <1>1 DEF line
<1>4. ASSUME NEW i \in 1..Len(line') PROVE i + 1 \in 1..Len(line) /\ line'[i] = line[i + 1]
  <2>1. CASE i <= Len(batch')
    BY <1>1, <1>2, <1>3, <2>1
  <2>2. CASE ~ (i <= Len(batch'))
    <3>1. i \in Nat /\ i - Len(batch') = (i + 1) - Len(batch)
      BY <1>1, <1>3
    <3>2. i + 1 \in 1..Len(line) /\ ~ (i + 1 <= Len(batch))
      BY <1>1, <1>2, <1>3, <2>2, <3>1
    <3>3. line[i + 1] = pending[(i + 1) - Len(batch)]
      BY <1>2, <3>2
    <3>4. line'[i] = pending[i - Len(batch')]
      BY <1>3, <2>2
    <3> QED
      BY <3>1, <3>2, <3>3, <3>4
  <2> QED
    BY <2>1, <2>2
<1>5. Head(batch) = line[1] /\ 1 \in 1..Len(line) /\ Len(line') = Len(line) - 1
  BY <1>1, <1>2, <1>3
<1> QED
  BY <1>4, <1>5

\* A token that moves without being rejected, and was not.
LEMMA BookedMoved ==
  ASSUME Booked, stage \in [Tokens -> Stages], UNCHANGED rejected,
         NEW k \in Tokens, stage[k] # "rejected", NEW s, s # "rejected", MoveTo(k, s)
  PROVE  Booked'
<1>1. \A j \in Tokens : stage'[j] = "rejected" <=> stage[j] = "rejected"
  BY DEF MoveTo
<1>2. UNCHANGED <<overflowed, settled>> /\ line' = line
  BY DEF rejected, line
<1> QED
  BY <1>1, <1>2 DEF Booked

\* Each step keeps the rejections.
LEMMA BookedKept == Booked /\ Once /\ Queued /\ Timed /\ Remembered /\ TokenStep => Booked'
<1> SUFFICES ASSUME Booked, Once, Queued, Timed, Remembered, TokenStep PROVE Booked'
  OBVIOUS
<1>0. stage \in [Tokens -> Stages] /\ batch \in Seq(Entries) /\ pending \in Seq(Entries)
  BY DEF Timed, Remembered
<1>a. ASSUME UNCHANGED <<stage, rejected>> PROVE Booked'
  <2>1. UNCHANGED <<stage, overflowed, settled>> /\ line' = line
    BY <1>a DEF rejected, line
  <2> QED
    BY <2>1 DEF Booked
<1>1. ASSUME NEW k \in Tokens, NEW s, Passes(k, s) \/ Enqueues(k) PROVE Booked'
  <2>1. stage[k] # "rejected" /\ UNCHANGED rejected /\ \E z : z # "rejected" /\ MoveTo(k, z)
    BY <1>1 DEF Passes, Enqueues
  <2> QED
    BY <1>0, <2>1, BookedMoved
<1>2. ASSUME NEW s, Dequeues(s) PROVE Booked'
  <2>1. trades # <<>> /\ MoveTo(Head(trades), s) /\ UNCHANGED rejected /\ s # "rejected"
    BY <1>2 DEF Dequeues
  <2>2. Head(trades) \in Tokens /\ Head(trades) = trades[1] /\ 1 \in 1..Len(trades)
    BY <2>1 DEF Queued
  <2>3. stage[Head(trades)] = "queued"
    BY <2>2 DEF Queued
  <2> QED
    BY <1>0, <2>1, <2>2, <2>3, BookedMoved
<1>3. CASE Flows
  <2>1. CASE UNCHANGED stage
    BY <1>a, <1>3, <2>1 DEF Flows
  <2>2. CASE TakeRaw /\ MoveTo(Head(raw), "waiting")
    <3>1. raw # <<>> /\ raw \in Seq(Tokens)
      BY <2>2 DEF TakeRaw, Timed, Fed
    <3>2. Head(raw) \in Tokens /\ Head(raw) = raw[1] /\ 1 \in 1..Len(raw)
      BY <3>1
    <3>3. stage[Head(raw)] = "none"
      BY <3>2 DEF Once, Waits
    <3> QED
      BY <1>0, <1>3, <2>2, <3>2, <3>3, BookedMoved DEF Flows
  <2> QED
    BY <1>3, <2>1, <2>2 DEF Flows
<1>4. CASE Forgets
  <2>1. line' = <<>> /\ Len(line') = 0
    BY <1>4 DEF Forgets, line
  <2> QED
    BY <1>4, <2>1 DEF Forgets, Booked
<1>5. ASSUME NEW k \in Tokens, NEW e \in Entries, Rejects(k, e), ~ overflowed PROVE Booked'
  <2>1. /\ stage[k] # "rejected" /\ stage' = [stage EXCEPT ![k] = "rejected"] /\ e.token = k
        /\ pending' = Append(pending, e) /\ UNCHANGED <<batch, settled, overflowed>>
    BY <1>5 DEF Rejects, Reject, MoveTo
  <2>2. stage'[k] = "rejected" /\ \A j \in Tokens : j # k => stage'[j] = stage[j]
    BY <1>0, <2>1
  <2>3. /\ Len(line') = Len(line) + 1 /\ line'[Len(line) + 1] = e
        /\ \A i \in 1..Len(line) : line'[i] = line[i]
    BY <1>0, <2>1, RejectLine
  <2>4. Len(line) \in Nat
    BY <1>0, Line
  <2>5. k \notin settled /\ \A i \in 1..Len(line) : line[i].token # k
    BY <1>5, <2>1 DEF Booked
  <2>6. ASSUME NEW i \in 1..Len(line'), NEW j \in 1..Len(line'), line'[i].token = line'[j].token PROVE i = j
    BY <1>5, <2>1, <2>3, <2>4, <2>5, <2>6 DEF Booked
  <2>7. ASSUME NEW i \in 1..Len(line') PROVE line'[i].token \notin settled'
    BY <1>5, <2>1, <2>3, <2>4, <2>5 DEF Booked
  <2>8. ASSUME NEW j \in Tokens
        PROVE  stage'[j] = "rejected" <=> j \in settled' \/ \E i \in 1..Len(line') : line'[i].token = j
    <3>1. CASE j = k
      BY <2>1, <2>2, <2>3, <2>4, <3>1
    <3>2. CASE j # k
      <4>1. stage'[j] = "rejected" <=> j \in settled' \/ \E i \in 1..Len(line) : line[i].token = j
        BY <1>5, <2>1, <2>2, <3>2 DEF Booked
      <4>2. (\E i \in 1..Len(line) : line[i].token = j) <=> \E i \in 1..Len(line') : line'[i].token = j
        BY <2>1, <2>3, <2>4, <3>2
      <4> QED
        BY <4>1, <4>2
    <3> QED
      BY <3>1, <3>2
  <2> QED
    BY <2>6, <2>7, <2>8 DEF Booked
<1>6. ASSUME NEW k \in Tokens, NEW e \in Entries, Rejects(k, e), overflowed PROVE Booked'
  BY <1>6 DEF Rejects, Reject, Booked
<1>7. ASSUME NEW n \in 1..Len(pending), TakeDue(n), UNCHANGED stage PROVE Booked'
  <2>1. line' = line
    BY <1>0, <1>7, DueLine
  <2>2. UNCHANGED <<settled, overflowed, stage>>
    BY <1>7 DEF TakeDue
  <2> QED
    BY <2>1, <2>2 DEF Booked
<1>8. ASSUME batch # <<>>, EntryDone, UNCHANGED stage PROVE Booked'
  <2>1. CASE UNCHANGED <<pending, overflowed>> /\ ~ overflowed
    <3>1. batch' = Tail(batch) /\ pending' = pending /\ settled' = settled \cup {Head(batch).token}
      BY <1>8, <2>1 DEF EntryDone
    <3>2. /\ Head(batch) = line[1] /\ 1 \in 1..Len(line) /\ Len(line') = Len(line) - 1
          /\ \A i \in 1..Len(line') : i + 1 \in 1..Len(line) /\ line'[i] = line[i + 1]
      BY <1>0, <1>8, <3>1, DoneLine
    <3>3. Len(line) \in Nat
      BY <1>0, Line
    <3>4. ASSUME NEW i \in 1..Len(line'), NEW j \in 1..Len(line'), line'[i].token = line'[j].token PROVE i = j
      <4>1. i + 1 = j + 1
        BY <2>1, <3>2, <3>4 DEF Booked
      <4> QED
        BY <3>2, <3>3, <4>1
    <3>5. ASSUME NEW i \in 1..Len(line') PROVE line'[i].token \notin settled'
      <4>1. i + 1 \in 1..Len(line) /\ line'[i] = line[i + 1] /\ i + 1 # 1
        BY <3>2, <3>3
      <4>2. line[i + 1].token # line[1].token /\ line[i + 1].token \notin settled
        BY <2>1, <3>2, <4>1 DEF Booked
      <4> QED
        BY <3>1, <3>2, <4>1, <4>2
    <3>6. ASSUME NEW j \in Tokens
          PROVE  stage'[j] = "rejected" <=> j \in settled' \/ \E i \in 1..Len(line') : line'[i].token = j
      <4>1. stage'[j] = "rejected" <=> j \in settled \/ \E i \in 1..Len(line) : line[i].token = j
        BY <1>8, <2>1 DEF Booked
      <4>2. ASSUME NEW i \in 1..Len(line), line[i].token = j
            PROVE  j \in settled' \/ \E n \in 1..Len(line') : line'[n].token = j
        <5>1. CASE i = 1
          BY <3>1, <3>2, <4>2, <5>1
        <5>2. CASE i # 1
          <6>1. i - 1 \in 1..Len(line') /\ (i - 1) + 1 = i
            BY <3>2, <3>3, <5>2
          <6> QED
            BY <3>2, <4>2, <6>1
        <5> QED
          BY <5>1, <5>2
      <4>3. ASSUME NEW i \in 1..Len(line'), line'[i].token = j PROVE \E n \in 1..Len(line) : line[n].token = j
        BY <3>2, <4>3
      <4>4. j \in settled' <=> j \in settled \/ j = line[1].token
        BY <3>1, <3>2
      <4> QED
        BY <3>2, <4>1, <4>2, <4>3, <4>4
    <3> QED
      BY <3>4, <3>5, <3>6 DEF Booked
  <2>2. CASE overflowed' \/ (UNCHANGED overflowed /\ overflowed)
    BY <2>2 DEF Booked
  <2> QED
    BY <1>8, <2>1, <2>2 DEF EntryDone
<1> QED
  BY <1>a, <1>1, <1>2, <1>3, <1>4, <1>5, <1>6, <1>7, <1>8 DEF TokenStep, Books, feeds

\* The tokens of a line in which none comes twice are as many as it has places.
LEMMA TokensCounted ==
  ASSUME NEW s \in Seq(Entries), \A i, j \in 1..Len(s) : s[i].token = s[j].token => i = j
  PROVE  IsFiniteSet(TokensOf(s)) /\ Cardinality(TokensOf(s)) = Len(s)
<1>1. Len(s) \in Nat /\ TokensOf(s) = {s[i].token : i \in 1..Len(s)}
  BY DEF TokensOf
<1> DEFINE f == [i \in 1..Len(s) |-> s[i].token]
<1>2. f \in Bijection(1..Len(s), TokensOf(s))
  <2>1. f \in [1..Len(s) -> TokensOf(s)]
    BY <1>1
  <2>2. \A i, j \in 1..Len(s) : f[i] = f[j] => i = j
    OBVIOUS
  <2>3. \A x \in TokensOf(s) : \E i \in 1..Len(s) : f[i] = x
    BY <1>1
  <2> HIDE DEF f
  <2> QED
    BY <2>1, <2>2, <2>3 DEF Bijection, Injection, Surjection, IsInjective
<1>3. ExistsBijection(1..Len(s), TokensOf(s))
  BY <1>2 DEF ExistsBijection
<1> QED
  BY <1>1, <1>3, FS_CountingElements, FS_NatBijection

\* RejectionsAccounted: a token is rejected once, and CounterfactualLogger
\* has it among its pending entries, at work on it or resolved until the cap
\* of its list cuts one off.
THEOREM RejectionsTracked == Spec => []RejectionsAccounted
<1> DEFINE Ledger == /\ Remembered /\ Timed /\ Offers /\ Once /\ Queued /\ Booked
                     /\ IsFiniteSet(settled) /\ settled \subseteq Tokens
<1>1. Init => Ledger
  <2> SUFFICES ASSUME Init PROVE Ledger
    OBVIOUS
  <2>1. /\ raw = <<>> /\ reader = NoToken /\ scanner = NoToken /\ stage = [k \in Tokens |-> "none"]
        /\ trades = <<>> /\ batch = <<>> /\ pending = <<>> /\ settled = {} /\ offers = [k \in Tokens |-> 0]
    BY DEF Init, StreamInit, LearningInit
  <2>2. line = <<>> /\ Len(line) = 0
    BY <2>1 DEF line
  <2>3. Booked
    BY <2>1, <2>2 DEF Booked
  <2>4. Queued
    BY <2>1, PipelineAssumption DEF Queued
  <2>5. Once
    BY <2>1, NotEmpty DEF Once, Waits
  <2>6. Offers
    BY <2>1, Distinct DEF Offers
  <2> QED
    BY <2>1, <2>3, <2>4, <2>5, <2>6, RememberedStart, TimedStart, FS_EmptySet
<1>2. Ledger /\ [Next]_vars => Ledger'
  <2> SUFFICES ASSUME Ledger, [Next]_vars PROVE Ledger'
    OBVIOUS
  <2>1. Remembered' /\ Timed' /\ Offers' /\ TokenStep
    BY RememberedKept, TimedKept, OffersKept, StepsOfTokens
  <2>2. Once' /\ Queued' /\ Booked'
    BY <2>1, OnceKept, QueuedKept, BookedKept
  <2>3. settled' = settled \/ settled' = {} \/ (batch # <<>> /\ settled' = settled \cup {Head(batch).token})
    <3>1. CASE UNCHANGED rejected \/ Flows \/ Forgets
      BY <3>1 DEF Flows, Forgets, rejected
    <3>2. CASE Books
      BY <3>2 DEF Books, TakeDue, EntryDone
    <3>3. CASE \/ \E k \in Tokens, s \in Stages : Passes(k, s)
               \/ \E k \in Tokens : Enqueues(k) \/ \E e \in Entries : Rejects(k, e)
               \/ \E s \in Stages : Dequeues(s)
      BY <3>3 DEF Passes, Enqueues, Rejects, Dequeues, Reject, rejected
    <3> QED
      BY <2>1, <3>1, <3>2, <3>3 DEF TokenStep
  <2>4. batch # <<>> => Head(batch).token \in Tokens
    BY DEF Remembered, Entries
  <2>5. IsFiniteSet(settled') /\ settled' \subseteq Tokens
    <3>1. IsFiniteSet(settled) /\ settled \subseteq Tokens
      OBVIOUS
    <3>2. CASE settled' = settled \/ settled' = {}
      BY <3>1, <3>2, FS_EmptySet
    <3>3. CASE batch # <<>> /\ settled' = settled \cup {Head(batch).token}
      <4>1. IsFiniteSet(settled \cup {Head(batch).token})
        BY <3>1, FS_AddElement
      <4> QED
        BY <2>4, <3>1, <3>3, <4>1
    <3> QED
      BY <2>3, <3>2, <3>3
  <2> QED
    BY <2>1, <2>2, <2>5
<1>3. Ledger => RejectionsAccounted
  <2> SUFFICES ASSUME Ledger, ~ overflowed PROVE RejectionsAccounted
    BY DEF RejectionsAccounted
  <2>1. batch \in Seq(Entries) /\ pending \in Seq(Entries) /\ \A i \in DOMAIN line : line[i].token \in Tokens
    BY Line DEF Remembered, Entries
  <2>2. TokensOf(line) = TokensOf(pending) \cup TokensOf(batch)
    <3>1. /\ Len(batch) \in Nat /\ Len(pending) \in Nat
          /\ DOMAIN batch = 1..Len(batch) /\ DOMAIN pending = 1..Len(pending) /\ DOMAIN line = 1..Len(line)
      BY <2>1, Line
    <3>2. ASSUME NEW x \in TokensOf(line) PROVE x \in TokensOf(pending) \cup TokensOf(batch)
      <4>1. PICK i \in 1..Len(line) : x = line[i].token
        BY <3>1 DEF TokensOf
      <4>2. CASE i <= Len(batch)
        <5>1. i \in DOMAIN batch /\ x = batch[i].token
          BY <2>1, <3>1, <4>1, <4>2, Line
        <5> QED
          BY <5>1 DEF TokensOf
      <4>3. CASE i > Len(batch)
        <5>1. i - Len(batch) \in DOMAIN pending /\ x = pending[i - Len(batch)].token
          BY <2>1, <3>1, <4>1, <4>3, Line
        <5> QED
          BY <5>1 DEF TokensOf
      <4> QED
        BY <3>1, <4>2, <4>3
    <3>3. ASSUME NEW i \in DOMAIN batch PROVE batch[i].token \in TokensOf(line)
      <4>1. i \in DOMAIN line /\ line[i] = batch[i]
        BY <2>1, <3>1, Line
      <4> QED
        BY <4>1 DEF TokensOf
    <3>4. ASSUME NEW i \in DOMAIN pending PROVE pending[i].token \in TokensOf(line)
      <4>1. Len(batch) + i \in DOMAIN line /\ line[Len(batch) + i] = pending[i]
        BY <2>1, <3>1, Line
      <4> QED
        BY <4>1 DEF TokensOf
    <3> QED
      BY <3>2, <3>3, <3>4 DEF TokensOf
  <2>3. DOMAIN line = 1..Len(line) /\ line \in Seq(Entries) /\ Len(line) = Len(pending) + Len(batch)
    BY <2>1, Line
  <2>4. {k \in Tokens : stage[k] = "rejected"} = TokensOf(line) \cup settled
    BY <2>1, <2>3 DEF Booked, TokensOf
  <2>5. IsFiniteSet(TokensOf(line)) /\ Cardinality(TokensOf(line)) = Len(line)
    BY <2>3, TokensCounted DEF Booked
  <2>6. TokensOf(line) \cap settled = {}
    BY <2>3 DEF Booked, TokensOf
  <2>7. Cardinality(TokensOf(line) \cup settled) = Len(line) + Cardinality(settled)
    <3>1. IsFiniteSet(settled)
      OBVIOUS
    <3>2. Cardinality(settled) \in Nat /\ Cardinality(TokensOf(line) \cap settled) = 0
      BY <2>6, <3>1, FS_EmptySet, FS_CardinalityType, Zenon
    <3>3. Len(line) \in Nat
      BY <2>3
    <3>4. Cardinality(TokensOf(line) \cup settled)
            = Cardinality(TokensOf(line)) + Cardinality(settled) - Cardinality(TokensOf(line) \cap settled)
      BY <2>5, <3>1, FS_Union
    <3> QED
      BY <2>5, <3>2, <3>3, <3>4
  <2> QED
    BY <2>2, <2>3, <2>4, <2>7 DEF RejectionsAccounted
<1> HIDE DEF Ledger
<1> QED
  BY <1>1, <1>2, <1>3, PTL DEF Spec
-----------------------------------------------------------------------------
(* Types                                                                   *)

\* What StreamOK adds to Streams and Fed.
Bounds ==
  /\ ws \in {"none", "open", "closed"} /\ seen \subseteq Launched /\ subbed \subseteq seen
  /\ subTask \in [Mints -> NoTask..SubLife] /\ scanned \subseteq Mints /\ Len(raw) <= RawMax

\* A step of the streams keeps them.
LEMMA BoundsKept == Bounds /\ Streams /\ Fed /\ StreamStep => Bounds'
<1> SUFFICES ASSUME Bounds, Streams, Fed, StreamStep PROVE Bounds'
  OBVIOUS
<1> USE DEF Bounds
<1>0. /\ RawMax \in Nat \ {0} /\ SubLife \in Nat /\ Launched \subseteq Mints /\ NoTask = -2 /\ Starting = -1
      /\ Len(raw) \in Nat /\ \A l \in Listings : l.mint \in Mints
  BY StreamAssumption DEF NoTask, Starting, Fed
<1>1. ASSUME NEW k, Len(raw) < RawMax, raw' = Append(raw, k) PROVE Len(raw') <= RawMax
  BY <1>0, <1>1 DEF Fed
<1>2. CASE Connect \/ Disconnect \/ UNCHANGED stream
  BY <1>2 DEF Connect, Disconnect, LoopEnds, stream, monitor, scan
<1>3. CASE ReaderPuts \/ ScannerPuts
  BY <1>1, <1>3 DEF ReaderPuts, LoopEnds, ScannerPuts, monitor, scan
<1>4. CASE TakeRaw
  <2>1. Len(raw') <= Len(raw)
    BY <1>0, <1>4 DEF TakeRaw, Fed
  <2> QED
    BY <1>0, <1>4, <2>1 DEF TakeRaw, monitor, scan, Fed
<1>5. CASE SubscriptionsAge /\ ~ SubscriptionDue
  <2>1. subTask' = [m \in Mints |-> OneOlder(m)] /\ \A m \in Mints : subTask[m] < SubLife
    BY <1>0, <1>5 DEF SubscriptionsAge, SubscriptionDue
  <2>2. \A m \in Mints : OneOlder(m) \in NoTask..SubLife
    BY <1>0, <2>1 DEF OneOlder, Running
  <2>3. subTask' \in [Mints -> NoTask..SubLife]
    BY <2>1, <2>2
  <2> QED
    BY <1>5, <2>3 DEF SubscriptionsAge, scan
<1>6. CASE StreamRestart
  BY <1>0, <1>6 DEF StreamRestart
<1>7. ASSUME NEW m \in Launched, Announce(m) PROVE Bounds'
  <2>1. /\ seen' = seen \cup {m} /\ subTask' = [subTask EXCEPT ![m] = -1] /\ UNCHANGED <<ws, subbed, scanned>>
        /\ raw' = raw \/ Len(raw') <= RawMax
    BY <1>0, <1>1, <1>7 DEF Announce, scan
  <2>2. subTask' \in [Mints -> NoTask..SubLife]
    BY <1>0, <2>1
  <2> QED
    BY <2>1, <2>2
<1>8. ASSUME NEW m \in Mints, Subscribe(m) PROVE Bounds'
  <2>1. m \in seen
    BY <1>0, <1>8 DEF Subscribe, Streams
  <2>2. UNCHANGED <<ws, seen, scanned, raw>> /\ (subbed' = subbed \/ subbed' = subbed \cup {m})
        /\ \E z \in {0, NoTask} : subTask' = [subTask EXCEPT ![m] = z]
    BY <1>8 DEF Subscribe, scan
  <2>3. subTask' \in [Mints -> NoTask..SubLife]
    BY <1>0, <2>2
  <2> QED
    BY <2>1, <2>2, <2>3
<1>9. ASSUME NEW m \in Mints, Unsubscribe(m) PROVE Bounds'
  <2>1. UNCHANGED <<ws, seen, scanned, raw>> /\ subbed' = subbed \ {m} /\ subTask' = [subTask EXCEPT ![m] = NoTask]
    BY <1>9 DEF Unsubscribe, scan
  <2> QED
    BY <1>0, <2>1
<1>10. ASSUME NEW l \in Listings, Find(l) PROVE Bounds'
  BY <1>0, <1>1, <1>10 DEF Find, monitor
<1> QED
  BY <1>2, <1>3, <1>4, <1>5, <1>6, <1>7, <1>8, <1>9, <1>10 DEF StreamStep

\* What a step does to the wallets.
IntelStep ==
  \/ UNCHANGED intel
  \/ \E m \in Launched : OnCreate(m)
  \/ \E m \in Launched, x \in TradeEvents : OnTrade(m, x.wallet, x.side, x.sol)
  \/ \E m \in Mints : DecideBundle(m)
  \/ (WindowsAge /\ \A m \in Mints : ~ WindowOver(m))
  \/ \E m, b : Attribute(m, b) /\ b \in BOOLEAN /\ UNCHANGED <<bought, watch, whales>>
  \/ \E saved, clean \in BOOLEAN : IntelRestart(saved, clean)

\* Every step is one of them.
LEMMA StepsOfIntel == [Next]_vars => IntelStep
<1> SUFFICES ASSUME [Next]_vars PROVE IntelStep
  OBVIOUS
<1>1. CASE Link \/ Feeds \/ Take \/ UNCHANGED vars
  BY <1>1 DEF Link, Feeds, Take, vars, IntelStep
<1>2. CASE Tick
  BY <1>2 DEF Tick, SomethingDue, IntelStep
<1>3. CASE \E m \in Mints : Decide(m)
  BY <1>3 DEF Decide, IntelStep
<1>4. CASE \E k \in Tokens : PutTrade(k) \/ ScoreFails(k)
  BY <1>4 DEF PutTrade, ScoreFails, IntelStep
<1>5. CASE \E k \in Tokens : \E t \in Sights(k), quiet \in Quiet : Score(k, t, quiet)
  BY <1>5 DEF Score, IntelStep
<1>6. CASE \E k \in Tokens, b \in BOOLEAN : CheckHolders(k, b) \/ BuyEnds(k, b)
  BY <1>6 DEF CheckHolders, BuyEnds, IntelStep
<1>7. CASE \E b \in BOOLEAN : TakeTrade(b) \/ SetStop(b) \/ Tune(b) \/ \E m \in Mints : SellLeg(m, b)
  BY <1>7 DEF TakeTrade, SetStop, Tune, SellLeg, IntelStep
<1>8. CASE \E m \in Launched : Launch(m) \/ \E x \in TradeEvents : HearTrade(m, x)
  BY <1>8 DEF Launch, HearTrade, IntelStep
<1>9. CASE \E l \in Listings : Listed(l)
  BY <1>9 DEF Listed, IntelStep
<1>10. ASSUME NEW m \in Mints, NEW how, NEW b \in BOOLEAN, Close(m, how, b) PROVE IntelStep
  <2>1. Attribute(m, how = "won") /\ (how = "won") \in BOOLEAN /\ UNCHANGED <<bought, watch, whales>>
    BY <1>10 DEF Close
  <2> QED
    BY <2>1 DEF IntelStep
<1>11. CASE \E n \in 1..Len(pending) : BecomeDue(n)
  BY <1>11 DEF BecomeDue, IntelStep
<1>12. ASSUME NEW a, NEW b \in BOOLEAN, Resolve(a, b) PROVE IntelStep
  <2> DEFINE m == Head(batch).token.mint  p == Outcome(Head(batch), a) = "pumped"
  <2>1. Attribute(m, p) /\ p \in BOOLEAN /\ UNCHANGED <<bought, watch, whales>>
    BY <1>12 DEF Resolve
  <2> HIDE DEF m, p
  <2> QED
    BY <2>1 DEF IntelStep
<1>13. CASE \E saved, clean \in BOOLEAN : (clean => saved) /\ Restart(saved, clean)
  BY <1>13 DEF Restart, IntelStep
<1> QED
  BY <1>1, <1>2, <1>3, <1>4, <1>5, <1>6, <1>7, <1>8, <1>9, <1>10, <1>11, <1>12, <1>13
     DEF Next, Progress, Environment

\* The wallets are typed, their outcomes and rows finite and bounded.
Watched ==
  /\ IntelOK
  /\ outcomes \in [Wallets -> Seq(BOOLEAN)]
  /\ \E S : rows \in Seq(S)

\* A wallet keeps no more outcomes than it may.
LEMMA LatestFits ==
  ASSUME NEW s \in Seq(BOOLEAN), Len(s) <= MaxOutcomes, NEW b \in BOOLEAN
  PROVE  Latest(Append(s, b)) \in Seq(BOOLEAN) /\ Len(Latest(Append(s, b))) <= MaxOutcomes
<1> DEFINE a == Append(s, b)
<1>1. MaxOutcomes \in Nat /\ a \in Seq(BOOLEAN) /\ Len(a) \in Nat /\ Len(a) <= MaxOutcomes + 1
  BY WalletAssumption
<1> HIDE DEF a
<1>2. CASE Len(a) <= MaxOutcomes
  <2>1. ~ (Len(a) > MaxOutcomes)
    BY <1>1, <1>2
  <2>2. Latest(a) = a
    BY <2>1 DEF Latest
  <2> QED
    BY <1>1, <1>2, <2>2 DEF a
<1>3. CASE Len(a) > MaxOutcomes
  <2>1. Latest(a) = SubSeq(a, Len(a) - MaxOutcomes + 1, Len(a))
    BY <1>3 DEF Latest
  <2>2. Len(a) = MaxOutcomes + 1 /\ Latest(a) = SubSeq(a, 2, Len(a))
    BY <1>1, <1>3, <2>1
  <2>3. SubSeq(a, 2, Len(a)) \in Seq(BOOLEAN) /\ Len(SubSeq(a, 2, Len(a))) = Len(a) - 1
    BY <1>1, <2>2
  <2> QED
    BY <1>1, <2>2, <2>3 DEF a
<1> QED
  BY <1>1, <1>2, <1>3

\* Taking one element off a sequence.
LEMMA OneLess ==
  ASSUME NEW S, NEW s \in Seq(S), NEW i \in 1..Len(s)
  PROVE  RemoveAt(s, i) \in Seq(S) /\ Len(RemoveAt(s, i)) = Len(s) - 1
<1> DEFINE a == SubSeq(s, 1, i - 1)  b == SubSeq(s, i + 1, Len(s))
<1>1. Len(s) \in Nat /\ i \in Nat
  OBVIOUS
<1>2. a \in Seq(S) /\ Len(a) = i - 1 /\ b \in Seq(S) /\ Len(b) = Len(s) - i
  BY <1>1
<1>3. RemoveAt(s, i) = a \o b
  BY DEF RemoveAt
<1> HIDE DEF a, b
<1>4. a \o b \in Seq(S) /\ Len(a \o b) = Len(a) + Len(b)
  BY <1>2, ConcatProperties
<1> QED
  BY <1>1, <1>2, <1>3, <1>4

\* A set of positions has a first one.
LEMMA First ==
  ASSUME NEW n \in Nat, NEW P \in SUBSET (1..n), P # {}
  PROVE  \E i \in P : \A j \in P : i <= j
<1>1. P \in SUBSET Nat
  OBVIOUS
<1>2. PICK i \in P : \A j \in P : ~ (<<j, i>> \in OpToRel(<, Nat))
  BY <1>1, NatLessThanWellFounded, WFMin, Zenon
<1>3. ASSUME NEW j \in P PROVE i <= j
  <2>1. ~ (<<j, i>> \in OpToRel(<, Nat)) /\ <<j, i>> \in Nat \X Nat
    BY <1>1, <1>2
  <2> QED
    BY <2>1 DEF OpToRel
<1> QED
  BY <1>3

\* The rows of the whales never pass their cap.
LEMMA RowsKept ==
  ASSUME \E S : rows \in Seq(S), Len(rows) <= MaxTracked, NEW m, NEW w, NEW side, NEW sol,
         OnWhaleTrade(m, w, side, sol)
  PROVE  (\E S : rows' \in Seq(S)) /\ Len(rows') <= MaxTracked
<1>1. PICK S : rows \in Seq(S)
  OBVIOUS
<1> DEFINE r == Traded(w, side, sol)  T == S \cup {r}  o == OtherRows(w)  a == Append(o, r)
<1>2. MaxTracked \in Nat /\ rows' = Evicted(a)
  BY WalletAssumption DEF OnWhaleTrade
<1>3. o \in Seq(S) /\ Len(o) <= MaxTracked
  <2>1. CASE RowsOf(w) = {}
    BY <1>1, <2>1 DEF OtherRows
  <2>2. CASE RowsOf(w) # {}
    <3>1. RowOf(w) \in 1..Len(rows)
      BY <1>1, <2>2 DEF RowOf, RowsOf
    <3>2. o = RemoveAt(rows, RowOf(w))
      BY <2>2 DEF OtherRows
    <3>3. o \in Seq(S) /\ Len(o) = Len(rows) - 1 /\ Len(rows) \in Nat
      BY <1>1, <3>1, <3>2, OneLess
    <3> HIDE DEF o
    <3> QED
      BY <1>2, <3>3
  <2> QED
    BY <2>1, <2>2
<1> HIDE DEF r, o
<1>4. o \in Seq(T)
  BY <1>3
<1>5. a \in Seq(T) /\ Len(a) \in Nat /\ Len(a) <= MaxTracked + 1
  BY <1>2, <1>3, <1>4
<1> HIDE DEF T, a
<1> DEFINE P == {i \in DOMAIN a : ~ IsWhale(a[i])}  i == CHOOSE i \in P : \A j \in P : i <= j
<1>6. Evicted(a) = IF Len(a) <= MaxTracked THEN a ELSE IF P = {} THEN Tail(a) ELSE RemoveAt(a, i)
  BY DEF Evicted
<1>7. CASE Len(a) <= MaxTracked
  BY <1>2, <1>5, <1>6, <1>7
<1>8. CASE Len(a) > MaxTracked /\ P = {}
  <2>1. rows' = Tail(a) /\ a # <<>>
    BY <1>2, <1>5, <1>6, <1>8
  <2>2. Tail(a) \in Seq(T) /\ Len(Tail(a)) = Len(a) - 1
    BY <1>5, <2>1
  <2> QED
    BY <1>2, <1>5, <2>1, <2>2
<1>9. CASE Len(a) > MaxTracked /\ P # {}
  <2>1. P \in SUBSET (1..Len(a))
    BY <1>5
  <2>2. i \in 1..Len(a)
    <3>1. \E n \in P : \A j \in P : n <= j
      BY <1>5, <1>9, <2>1, First
    <3> HIDE DEF P
    <3> QED
      BY <2>1, <3>1
  <2> HIDE DEF P, i
  <2>3. rows' = RemoveAt(a, i)
    BY <1>2, <1>5, <1>6, <1>9
  <2>4. RemoveAt(a, i) \in Seq(T) /\ Len(RemoveAt(a, i)) = Len(a) - 1
    BY <1>5, <2>2, OneLess
  <2> QED
    BY <1>2, <1>5, <2>3, <2>4
<1> QED
  BY <1>2, <1>5, <1>7, <1>8, <1>9

\* Whoever they are, smart wallets are no noise.
LEMMA ClassesApart ==
  ASSUME NEW all, Reclassified(all)
  PROVE  smart' \cup noise' \subseteq Wallets /\ smart' \cap noise' = {}
  BY DEF Reclassified, NoiseBy

\* Each step keeps the wallets.
LEMMA WatchedKept == Watched /\ IntelStep => Watched'
<1> SUFFICES ASSUME Watched, IntelStep PROVE Watched'
  OBVIOUS
<1> USE DEF Watched, IntelOK
<1>0. /\ BotWalletThreshold \in Nat /\ Window \in Nat /\ Launched \subseteq Mints
      /\ \A m \in Mints : CreatorOf[m] \in Wallets
      /\ \A x \in TradeEvents : x.wallet \in Wallets
  BY WalletAssumption, StreamAssumption, PipelineAssumption
<1>1. CASE UNCHANGED intel
  BY <1>1 DEF intel, watch, classes, whales
<1>2. ASSUME NEW w \in Wallets, bought' = Counted(w) PROVE bought' \in [Wallets -> 0..BotWalletThreshold]
  BY <1>0, <1>2 DEF Counted
<1>3. ASSUME NEW m \in Launched, OnCreate(m) PROVE Watched'
  <2>1. window' = [window EXCEPT ![m] = 0] /\ buyers' = [buyers EXCEPT ![m] = {}] /\ bought' = Counted(CreatorOf[m])
        /\ UNCHANGED <<decided, targeted, early, outcomes, smart, noise, rows>>
    BY <1>3 DEF OnCreate, classes, whales
  <2>2. window' \in [Mints -> -1..Window] /\ buyers' \in [Mints -> SUBSET Wallets]
    BY <1>0, <2>1
  <2>3. bought' \in [Wallets -> 0..BotWalletThreshold]
    BY <1>0, <1>2, <2>1
  <2> QED
    BY <2>1, <2>2, <2>3
<1>4. ASSUME NEW m \in Launched, NEW x \in TradeEvents, OnTrade(m, x.wallet, x.side, x.sol) PROVE Watched'
  <2> DEFINE w == x.wallet
  <2>1. /\ bought' = Counted(w) /\ w \in Wallets /\ OnWhaleTrade(m, w, x.side, x.sol)
        /\ buyers' = buyers \/ buyers' = [buyers EXCEPT ![m] = @ \cup {w}]
        /\ UNCHANGED <<window, decided, targeted, early, outcomes, smart, noise>>
    BY <1>0, <1>4 DEF OnTrade, classes
  <2>2. (\E S : rows' \in Seq(S)) /\ Len(rows') <= MaxTracked
    BY <2>1, RowsKept
  <2> HIDE DEF w
  <2>3. buyers' \in [Mints -> SUBSET Wallets]
    BY <1>0, <2>1
  <2>4. bought' \in [Wallets -> 0..BotWalletThreshold]
    BY <1>2, <2>1
  <2> QED
    BY <2>1, <2>2, <2>3, <2>4
<1>5. ASSUME NEW m \in Mints, DecideBundle(m) PROVE Watched'
  <2>1. /\ window' = [window EXCEPT ![m] = -1] /\ buyers' = [buyers EXCEPT ![m] = {}]
        /\ \E d \in {"bundled", "clean"} : decided' = [decided EXCEPT ![m] = d]
        /\ early' = [early EXCEPT ![m] = IF buyers[m] = {} THEN @ ELSE buyers[m]]
        /\ targeted' \subseteq targeted \cup {m}
        /\ UNCHANGED <<bought, outcomes, smart, noise, rows>>
    BY <1>5 DEF DecideBundle, classes, whales
  <2>2. window' \in [Mints -> -1..Window] /\ {buyers', early'} \subseteq [Mints -> SUBSET Wallets]
    BY <1>0, <2>1
  <2>3. decided' \in [Mints -> {"unknown", "clean", "bundled"}] /\ targeted' \subseteq Mints
    BY <2>1
  <2> QED
    BY <2>1, <2>2, <2>3
<1>6. CASE WindowsAge /\ \A m \in Mints : ~ WindowOver(m)
  <2>1. /\ window' = [m \in Mints |-> IF Pending(m) THEN window[m] + 1 ELSE -1]
        /\ UNCHANGED <<bought, buyers, decided, targeted, early, outcomes, smart, noise, rows>>
    BY <1>6 DEF WindowsAge, classes, whales
  <2>2. ASSUME NEW m \in Mints PROVE (IF Pending(m) THEN window[m] + 1 ELSE -1) \in -1..Window
    BY <1>0, <1>6 DEF WindowOver, Pending
  <2>3. window' \in [Mints -> -1..Window]
    BY <2>1, <2>2
  <2> QED
    BY <2>1, <2>3
<1>7. ASSUME NEW m, NEW b \in BOOLEAN, Attribute(m, b), UNCHANGED <<bought, watch, whales>> PROVE Watched'
  <2>1. UNCHANGED <<bought, window, buyers, decided, targeted, early, rows>>
    BY <1>7 DEF watch, whales
  <2>2. outcomes' = [w \in Wallets |-> IF w \in early[m] THEN Latest(Append(outcomes[w], b)) ELSE outcomes[w]]
    BY <1>7 DEF Attribute
  <2>3. ASSUME NEW w \in Wallets PROVE outcomes'[w] \in Seq(BOOLEAN) /\ Len(outcomes'[w]) <= MaxOutcomes
    BY <2>2, LatestFits
  <2>4. outcomes' \in [Wallets -> Seq(BOOLEAN)]
    BY <2>2, <2>3
  <2>5. Reclassified(outcomes') \/ UNCHANGED <<smart, noise>>
    BY <1>7 DEF Attribute
  <2>6. smart' \cup noise' \subseteq Wallets /\ smart' \cap noise' = {}
    BY <2>5, ClassesApart
  <2> QED
    BY <2>1, <2>3, <2>4, <2>6
<1>8. ASSUME NEW saved \in BOOLEAN, NEW clean \in BOOLEAN, IntelRestart(saved, clean) PROVE Watched'
  <2>1. /\ window' = [m \in Mints |-> -1] /\ buyers' = [m \in Mints |-> {}]
        /\ rows' = rows \/ rows' = <<>>
        /\ outcomes' = outcomes \/ outcomes' = KnownOutcomes
        /\ Reclassified(outcomes') /\ early' = early
    BY <1>8 DEF IntelRestart
  <2>2. /\ bought' = [w \in Wallets |-> IF bought[w] >= 2 THEN bought[w] ELSE 0] \/ bought' = [w \in Wallets |-> 0]
        /\ decided' = decided \/ decided' = Nothing
        /\ targeted' = targeted \/ targeted' = {}
    BY <1>8 DEF IntelRestart
  <2>3. window' \in [Mints -> -1..Window] /\ buyers' \in [Mints -> SUBSET Wallets]
        /\ bought' \in [Wallets -> 0..BotWalletThreshold]
    BY <1>0, <2>1, <2>2
  <2>4. decided' \in [Mints -> {"unknown", "clean", "bundled"}] /\ targeted' \subseteq Mints
    BY <2>2 DEF Nothing
  <2>5. smart' \cup noise' \subseteq Wallets /\ smart' \cap noise' = {}
    BY <2>1, ClassesApart
  <2>6. outcomes' \in [Wallets -> Seq(BOOLEAN)] /\ \A w \in Wallets : Len(outcomes'[w]) <= MaxOutcomes
    BY <2>1, WalletAssumption
  <2>7. (\E S : rows' \in Seq(S)) /\ Len(rows') <= MaxTracked
    <3>1. CASE rows' = <<>>
      <4>1. rows' \in Seq({}) /\ Len(rows') = 0 /\ MaxTracked \in Nat
        BY <3>1, WalletAssumption
      <4> QED
        BY <4>1
    <3> QED
      BY <2>1, <3>1
  <2> QED
    BY <2>1, <2>3, <2>4, <2>5, <2>6, <2>7
<1> QED
  BY <1>1, <1>3, <1>4, <1>5, <1>6, <1>7, <1>8 DEF IntelStep

\* At the start nobody has bought, and the outcomes are those of the file.
LEMMA WatchedStart == Init => Watched
<1> SUFFICES ASSUME Init PROVE Watched
  OBVIOUS
<1>1. /\ bought = [w \in Wallets |-> 0] /\ window = [m \in Mints |-> -1] /\ buyers = [m \in Mints |-> {}]
      /\ decided = Nothing /\ targeted = {} /\ early = [m \in Mints |-> {}]
      /\ outcomes = KnownOutcomes /\ rows = <<>>
      /\ smart = {w \in Wallets : SmartBy(outcomes[w])} /\ noise = {w \in Wallets : NoiseBy(outcomes[w])}
  BY DEF Init, IntelInit
<1>2. smart \cup noise \subseteq Wallets /\ smart \cap noise = {}
  BY <1>1 DEF NoiseBy
<1>3. rows \in Seq({}) /\ Len(rows) = 0
  BY <1>1
<1>4. /\ BotWalletThreshold \in Nat /\ Window \in Nat /\ MaxTracked \in Nat
      /\ outcomes \in [Wallets -> Seq(BOOLEAN)] /\ \A w \in Wallets : Len(outcomes[w]) <= MaxOutcomes
  BY <1>1, WalletAssumption
<1> QED
  BY <1>1, <1>2, <1>3, <1>4 DEF Watched, IntelOK, Nothing

\* What a step does to the creators and to the threshold.
LearnStep ==
  \/ UNCHANGED <<creators, tuning>>
  \/ \E w \in Wallets : RecordLaunch(w) /\ UNCHANGED tuning
  \/ \E m \in Mints, won \in BOOLEAN, pnl \in Int :
       /\ closed' = Append(closed, won) /\ UNCHANGED <<offset, savedOffset>>
       /\ RecordResult(CreatorOf[m], pnl) \/ UNCHANGED creators
  \/ \E b \in BOOLEAN : Evaluate(b) /\ UNCHANGED creators
  \/ \E clean \in BOOLEAN : LearningRestart(clean)

\* Every step is one of them.
LEMMA StepsOfLearning == [Next]_vars => LearnStep
<1> SUFFICES ASSUME [Next]_vars PROVE LearnStep
  OBVIOUS
<1>1. CASE Link \/ Feeds \/ Take \/ Tick \/ UNCHANGED vars
  BY <1>1 DEF Link, Feeds, Take, Tick, vars, learned, LearnStep
<1>2. CASE \E m \in Mints : Decide(m)
  BY <1>2 DEF Decide, learned, LearnStep
<1>3. CASE \E k \in Tokens : PutTrade(k)
  BY <1>3 DEF PutTrade, learned, LearnStep
<1>4. ASSUME NEW k \in Tokens, Launches(k), UNCHANGED tuning PROVE LearnStep
  <2>1. CASE FromStream(k)
    <3>1. CreatorOfToken(k) \in Wallets
      BY Distinct, StreamAssumption, WalletAssumption DEF CreatorOfToken
    <3> QED
      BY <1>4, <2>1, <3>1 DEF Launches, LearnStep
  <2>2. CASE ~ FromStream(k)
    BY <1>4, <2>2 DEF Launches, LearnStep
  <2> QED
    BY <2>1, <2>2
<1>5. CASE \/ \E k \in Tokens : \E t \in Sights(k), quiet \in Quiet : Score(k, t, quiet)
           \/ \E k \in Tokens : ScoreFails(k)
  BY <1>4, <1>5 DEF Score, ScoreFails
<1>6. CASE \E k \in Tokens, b \in BOOLEAN : CheckHolders(k, b) \/ BuyEnds(k, b)
  BY <1>6 DEF CheckHolders, BuyEnds, learned, LearnStep
<1>7. CASE \E b \in BOOLEAN : TakeTrade(b) \/ SetStop(b)
  BY <1>7 DEF TakeTrade, SetStop, learned, LearnStep
<1>8. CASE \E b \in BOOLEAN : Tune(b)
  BY <1>8 DEF Tune, LearnStep
<1>9. CASE \/ \E m \in Launched : Launch(m) \/ \E x \in TradeEvents : HearTrade(m, x)
           \/ \E l \in Listings : Listed(l)
  BY <1>9 DEF Launch, HearTrade, Listed, learned, LearnStep
<1>10. CASE \E m \in Mints, how \in DOMAIN Profit, b \in BOOLEAN : Close(m, how, b)
  <2>1. PICK m \in Mints, how \in DOMAIN Profit, b \in BOOLEAN : Close(m, how, b)
    BY <1>10
  <2>2. Profit[how] \in Int /\ (how = "won") \in BOOLEAN
    BY DEF Profit
  <2>3. /\ closed' = Append(closed, how = "won") /\ UNCHANGED <<offset, savedOffset>>
        /\ RecordResult(CreatorOf[m], Profit[how]) \/ UNCHANGED creators
    BY <2>1 DEF Close
  <2> QED
    BY <2>2, <2>3 DEF LearnStep
<1>14. CASE \E m \in Mints, b \in BOOLEAN : SellLeg(m, b)
  <2>1. PICK m \in Mints, b \in BOOLEAN : SellLeg(m, b)
    BY <1>14
  <2>2. LegProfit[b] \in Int
    BY DEF LegProfit
  <2>3. /\ closed' = Append(closed, b) /\ UNCHANGED <<offset, savedOffset>>
        /\ RecordResult(CreatorOf[m], LegProfit[b]) \/ UNCHANGED creators
    BY <2>1 DEF SellLeg
  <2> QED
    BY <2>2, <2>3 DEF LearnStep
<1>11. CASE \E n \in 1..Len(pending) : BecomeDue(n)
  BY <1>11 DEF BecomeDue, LearnStep
<1>12. CASE \E a \in {"pumped", "flat", "rugged", "none"}, b \in BOOLEAN : Resolve(a, b)
  BY <1>12 DEF Resolve, LearnStep
<1>13. CASE \E saved, clean \in BOOLEAN : (clean => saved) /\ Restart(saved, clean)
  BY <1>13 DEF Restart, LearnStep
<1> QED
  BY <1>1, <1>2, <1>3, <1>5, <1>6, <1>7, <1>8, <1>9, <1>10, <1>11, <1>12, <1>13, <1>14
     DEF Next, Progress, Environment

Records == [launches : Nat, wins : Nat, losses : Nat, pnl : Int, since : Nat]

\* A creator has no more results than positions were closed.
Learnt ==
  /\ closed \in Seq(BOOLEAN) /\ creators \in [Wallets -> Records]
  /\ \A c \in Wallets : Results(c) <= Len(closed)
  /\ {offset, savedOffset} \subseteq OffsetMin..OffsetMax

\* One result more.
LEMMA ResultKept ==
  ASSUME Learnt, NEW w \in Wallets, NEW p \in Int, RecordResult(w, p), NEW b \in BOOLEAN, closed' = Append(closed, b)
  PROVE  creators' \in [Wallets -> Records] /\ \A c \in Wallets : Results(c)' <= Len(closed')
<1> DEFINE r == creators[w]  a == IF p > 0 THEN 1 ELSE 0  l == IF p > 0 THEN 0 ELSE 1
           s == [launches |-> r.launches, wins |-> r.wins + a, losses |-> r.losses + l, pnl |-> r.pnl + p, since |-> r.since]
<1>1. r \in Records /\ a \in 0..1 /\ l \in 0..1 /\ a + l = 1
  BY DEF Learnt
<1>2. creators' = [creators EXCEPT ![w] = s]
  <2>1. creators \in [Wallets -> Records]
    BY DEF Learnt
  <2>2. creators' = [creators EXCEPT ![w] = [r EXCEPT !.pnl = @ + p, !.wins = @ + a, !.losses = @ + l]]
    BY <2>1 DEF RecordResult, Records
  <2> HIDE DEF r, a, l
  <2>3. [r EXCEPT !.pnl = @ + p, !.wins = @ + a, !.losses = @ + l] = s
    <3> DEFINE x == [r EXCEPT !.pnl = @ + p]  y == [x EXCEPT !.wins = @ + a]  z == [y EXCEPT !.losses = @ + l]
    <3>1. x = [launches |-> r.launches, wins |-> r.wins, losses |-> r.losses, pnl |-> r.pnl + p, since |-> r.since]
      BY <1>1 DEF Records
    <3> HIDE DEF x
    <3>2. y = [launches |-> r.launches, wins |-> r.wins + a, losses |-> r.losses, pnl |-> r.pnl + p, since |-> r.since]
      BY <3>1
    <3> HIDE DEF y
    <3>3. z = s
      BY <3>2
    <3> QED
      BY <3>3 DEF x, y
  <2> HIDE DEF s
  <2> QED
    BY <2>2, <2>3
<1>3. s \in Records
  BY <1>1 DEF Records
<1>4. s.wins + s.losses = (r.wins + r.losses) + 1
  BY <1>1 DEF Records
<1>5. r.wins + r.losses <= Len(closed)
  BY DEF Learnt, Results
<1>6. Len(closed) \in Nat /\ Len(closed') = Len(closed) + 1
  BY DEF Learnt
<1>7. r.wins + r.losses \in Nat
  BY <1>1 DEF Records
<1> HIDE DEF r, s
<1>8. creators' \in [Wallets -> Records]
  BY <1>2, <1>3 DEF Learnt
<1>9. ASSUME NEW c \in Wallets PROVE Results(c)' <= Len(closed')
  <2>1. CASE c = w
    <3>1. creators'[c] = s
      BY <1>2, <2>1 DEF Learnt
    <3>2. Results(c)' = s.wins + s.losses
      BY <3>1 DEF Results
    <3> QED
      BY <1>4, <1>5, <1>6, <1>7, <3>2
  <2>2. CASE c # w
    <3>1. creators'[c] = creators[c]
      BY <1>2, <2>2 DEF Learnt
    <3>2. Results(c)' = Results(c)
      BY <3>1 DEF Results
    <3>3. Results(c) \in Nat /\ Results(c) <= Len(closed)
      BY DEF Results, Learnt, Records
    <3> QED
      BY <1>6, <3>2, <3>3
  <2> QED
    BY <2>1, <2>2
<1> QED
  BY <1>8, <1>9

\* Each step keeps what was learned.
LEMMA LearntKept == Learnt /\ LearnStep => Learnt'
<1> SUFFICES ASSUME Learnt, LearnStep PROVE Learnt'
  OBVIOUS
<1>0. /\ OffsetMin \in Int /\ OffsetMax \in Int /\ OffsetMin <= 0 /\ OffsetMax >= 0
      /\ {offset, savedOffset} \subseteq OffsetMin..OffsetMax
  BY LearningAssumption DEF Learnt
<1>1. CASE UNCHANGED <<creators, tuning>>
  BY <1>1 DEF tuning, Learnt, Results
<1>2. ASSUME NEW w \in Wallets, RecordLaunch(w), UNCHANGED tuning PROVE Learnt'
  <2> DEFINE r == creators[w]
             n == IF r.since > 0 THEN r.since ELSE Cardinality(Met) + 1
             s == [launches |-> r.launches + 1, wins |-> r.wins, losses |-> r.losses, pnl |-> r.pnl, since |-> n]
  <2>1. r \in Records
    BY DEF Learnt
  <2>9. n \in Nat
    <3>1. IsFiniteSet(Met)
      BY LearningAssumption, FS_Subset DEF Met
    <3>2. Cardinality(Met) \in Nat
      BY <3>1, FS_CardinalityType
    <3> QED
      BY <2>1, <3>2 DEF Records
  <2>3. creators' = [creators EXCEPT ![w] = [r EXCEPT !.launches = @ + 1, !.since = IF @ > 0 THEN @ ELSE Cardinality(Met) + 1]]
    <3>1. creators \in [Wallets -> Records]
      BY DEF Learnt
    <3> QED
      BY <1>2, <3>1 DEF RecordLaunch, AfterLaunch, Records
  <2>2. [r EXCEPT !.launches = @ + 1, !.since = IF @ > 0 THEN @ ELSE Cardinality(Met) + 1] = s
    <3> HIDE DEF r
    <3> DEFINE x == [r EXCEPT !.launches = @ + 1]
    <3>1. /\ x = [launches |-> r.launches + 1, wins |-> r.wins, losses |-> r.losses, pnl |-> r.pnl, since |-> r.since]
          /\ x.since = r.since
      BY <2>1 DEF Records
    <3> HIDE DEF x
    <3>2. [x EXCEPT !.since = IF @ > 0 THEN @ ELSE Cardinality(Met) + 1] = s
      BY <3>1
    <3> QED
      BY <3>2 DEF x
  <2> HIDE DEF n
  <2>4. s \in Records /\ s.wins = r.wins /\ s.losses = r.losses
    BY <2>1, <2>9 DEF Records
  <2> HIDE DEF s
  <2>5. creators' = [creators EXCEPT ![w] = s]
    BY <2>2, <2>3
  <2>6. creators' \in [Wallets -> Records]
    BY <2>4, <2>5 DEF Learnt
  <2>7. ASSUME NEW c \in Wallets PROVE creators'[c].wins = creators[c].wins /\ creators'[c].losses = creators[c].losses
    <3>1. CASE c = w
      BY <2>4, <2>5, <3>1 DEF Learnt
    <3>2. CASE c # w
      BY <2>5, <3>2 DEF Learnt
    <3> QED
      BY <3>1, <3>2
  <2>8. \A c \in Wallets : Results(c)' = Results(c)
    BY <2>7 DEF Results
  <2> QED
    BY <1>2, <2>6, <2>8 DEF tuning, Learnt
<1>3. ASSUME NEW m \in Mints, NEW won \in BOOLEAN, NEW pnl \in Int,
             closed' = Append(closed, won), UNCHANGED <<offset, savedOffset>>,
             RecordResult(CreatorOf[m], pnl) \/ UNCHANGED creators
      PROVE  Learnt'
  <2>1. CreatorOf[m] \in Wallets
    BY WalletAssumption
  <2>2. closed' \in Seq(BOOLEAN) /\ Len(closed') = Len(closed) + 1 /\ Len(closed) \in Nat
    BY <1>3, <2>1 DEF Learnt
  <2>3. CASE RecordResult(CreatorOf[m], pnl)
    <3>1. creators' \in [Wallets -> Records] /\ \A c \in Wallets : Results(c)' <= Len(closed')
      BY <1>3, <2>1, <2>3, ResultKept
    <3> QED
      BY <1>3, <2>2, <3>1 DEF Learnt
  <2>4. CASE UNCHANGED creators
    <3>1. \A c \in Wallets : Results(c)' = Results(c) /\ Results(c) \in Nat /\ Results(c) <= Len(closed)
      BY <2>4 DEF Results, Learnt, Records
    <3> QED
      BY <1>3, <2>2, <2>4, <3>1 DEF Learnt
  <2> QED
    BY <1>3, <2>3, <2>4
<1>4. ASSUME NEW b \in BOOLEAN, Evaluate(b), UNCHANGED creators PROVE Learnt'
  <2>1. Tuned \in OffsetMin..OffsetMax
    BY <1>0 DEF Tuned
  <2>2. offset' = Tuned /\ (savedOffset' = Tuned \/ savedOffset' = savedOffset) /\ UNCHANGED closed
    BY <1>4 DEF Evaluate
  <2> QED
    BY <1>0, <1>4, <2>1, <2>2 DEF Learnt, Results
<1>5. ASSUME NEW clean \in BOOLEAN, LearningRestart(clean) PROVE Learnt'
  BY <1>0, <1>5 DEF LearningRestart, Learnt, Results
<1> QED
  BY <1>1, <1>2, <1>3, <1>4, <1>5 DEF LearnStep

\* What the environment may still do, and the stop.
Rest == left \in [trades : 0..MaxTrades, rare : 0..MaxRare] /\ stop \in BOOLEAN

\* Each step keeps them.
LEMMA RestKept == Rest /\ [Next]_vars => Rest'
<1> SUFFICES ASSUME Rest, [Next]_vars PROVE Rest'
  OBVIOUS
<1>1. ASSUME UNCHANGED left \/ Spend("rare") \/ Spend("trades") PROVE left' \in [trades : 0..MaxTrades, rare : 0..MaxRare]
  <2>0. MaxTrades \in Nat /\ MaxRare \in Nat
    BY PipelineAssumption
  <2>1. CASE UNCHANGED left
    BY <2>1 DEF Rest
  <2>2. CASE Spend("rare")
    BY <2>0, <2>2 DEF Spend, Rest
  <2>3. CASE Spend("trades")
    BY <2>0, <2>3 DEF Spend, Rest
  <2> QED
    BY <1>1, <2>1, <2>2, <2>3
<1>2. ASSUME NEW b \in BOOLEAN, SetStop(b) PROVE Rest'
  BY <1>1, <1>2 DEF SetStop, Rest
<1>3. ASSUME UNCHANGED stop, UNCHANGED left \/ Spend("rare") \/ Spend("trades") PROVE Rest'
  BY <1>1, <1>3 DEF Rest
<1>4. CASE Link \/ Feeds \/ Take \/ Tick \/ UNCHANGED vars
  BY <1>3, <1>4 DEF Link, Feeds, Take, Tick, vars, desk
<1>5. CASE \E m \in Mints : Decide(m)
  BY <1>3, <1>5 DEF Decide, desk
<1>6. CASE \E k \in Tokens : PutTrade(k) \/ ScoreFails(k)
  BY <1>3, <1>6 DEF PutTrade, ScoreFails, desk
<1>7. CASE \E k \in Tokens : \E t \in Sights(k), quiet \in Quiet : Score(k, t, quiet)
  BY <1>3, <1>7 DEF Score, desk
<1>8. CASE \E k \in Tokens, b \in BOOLEAN : CheckHolders(k, b) \/ BuyEnds(k, b)
  BY <1>3, <1>8 DEF CheckHolders, BuyEnds, desk
<1>9. CASE \E b \in BOOLEAN : TakeTrade(b) \/ Tune(b) \/ \E m \in Mints : SellLeg(m, b)
  BY <1>3, <1>9 DEF TakeTrade, Tune, SellLeg, desk
<1>10. CASE \/ \E m \in Launched : Launch(m) \/ \E x \in TradeEvents : HearTrade(m, x)
            \/ \E l \in Listings : Listed(l)
  BY <1>3, <1>10 DEF Launch, HearTrade, Listed, desk
<1>11. ASSUME NEW e, NEW is_rug, NEW b \in BOOLEAN, Learn(e, is_rug, b) PROVE UNCHANGED left \/ Spend("rare")
  BY <1>11 DEF Learn, Writes
<1>12. CASE \E m \in Mints, how \in DOMAIN Profit, b \in BOOLEAN : Close(m, how, b)
  BY <1>3, <1>11, <1>12 DEF Close
<1>13. CASE \E n \in 1..Len(pending) : BecomeDue(n)
  BY <1>3, <1>13 DEF BecomeDue, desk
<1>14. CASE \E a \in {"pumped", "flat", "rugged", "none"}, b \in BOOLEAN : Resolve(a, b)
  BY <1>3, <1>11, <1>14 DEF Resolve, desk
<1>15. CASE \E saved, clean \in BOOLEAN : (clean => saved) /\ Restart(saved, clean)
  BY <1>3, <1>15 DEF Restart, desk
<1> QED
  BY <1>2, <1>4, <1>5, <1>6, <1>7, <1>8, <1>9, <1>10, <1>12, <1>13, <1>14, <1>15 DEF Next, Progress, Environment

\* No token waits longer than its cooldown and the wait for its bundle.
Slept == waited \in [Tokens -> 0..Cooldown + BundleWait]

\* Each step keeps it: time passes only when nobody is due.
LEMMA SleptKept == Slept /\ Timed /\ [Next]_vars => Slept'
<1> SUFFICES ASSUME Slept, Timed, [Next]_vars PROVE Slept'
  OBVIOUS
<1>0. Cooldown \in Nat /\ BundleWait \in Nat /\ waited \in [Tokens -> 0..Cooldown + BundleWait]
  BY PipelineAssumption DEF Slept
<1>1. CASE TimeStands \/ (\E m \in Launched : Launch(m)) \/ (\E m \in Mints : Decide(m))
  BY <1>1 DEF TimeStands, Launch, Decide, tasks, Slept
<1>2. CASE Take
  <2>1. waited' = [waited EXCEPT ![Head(raw)] = 0] /\ raw # <<>>
    BY <1>2 DEF Take, TakeRaw
  <2>2. Head(raw) \in Tokens
    BY <2>1 DEF Timed, Fed
  <2> QED
    BY <1>0, <2>1, <2>2 DEF Slept
<1>3. CASE Tick
  <2>1. /\ waited' = [k \in Tokens |-> IF Sleeping(k) THEN waited[k] + 1 ELSE waited[k]]
        /\ \A k \in Tokens : ~ Scorable(k)
    BY <1>3 DEF Tick, SomethingDue
  <2>2. ASSUME NEW k \in Tokens PROVE waited'[k] \in 0..Cooldown + BundleWait
    <3>1. CASE Sleeping(k)
      <4>1. waited[k] < Cooldown \/ waited[k] < Cooldown + BundleWait
        BY <1>0, <2>1, <3>1 DEF Scorable, Cooled, Sleeping, Asleep
      <4> QED
        BY <1>0, <2>1, <3>1, <4>1
    <3>2. CASE ~ Sleeping(k)
      BY <1>0, <2>1, <3>2
    <3> QED
      BY <3>1, <3>2
  <2> QED
    BY <2>1, <2>2 DEF Slept
<1>4. ASSUME NEW saved, NEW clean, Restart(saved, clean) PROVE Slept'
  BY <1>0, <1>4 DEF Restart, Slept
<1> QED
  BY <1>1, <1>2, <1>3, <1>4, StepsOfTime DEF Timed

\* TypeOK: the queues of the process keep their bounds, a token is in the trade
\* queue when its task says so, no wallet, row or score threshold outgrows
\* its limit, and no task sleeps too long.
THEOREM PipelineTyped == Spec => []TypeOK
<1> DEFINE All == /\ Remembered /\ Timed /\ Offers /\ Once /\ Queued
                  /\ Streams /\ Bounds /\ Watched /\ Learnt /\ Rest /\ Slept /\ overflowed \in BOOLEAN
<1>1. Init => All
  <2> SUFFICES ASSUME Init PROVE All
    OBVIOUS
  <2>1. /\ raw = <<>> /\ reader = NoToken /\ scanner = NoToken /\ stage = [k \in Tokens |-> "none"]
        /\ waited = [k \in Tokens |-> 0] /\ trades = <<>> /\ offers = [k \in Tokens |-> 0]
        /\ ws = "none" /\ seen = {} /\ subbed = {} /\ subTask = [m \in Mints |-> NoTask] /\ scanned = {}
        /\ creators = [w \in Wallets |-> NewCreator] /\ closed = <<>> /\ offset = 0 /\ savedOffset = 0
        /\ left = Budget /\ stop = FALSE /\ overflowed = FALSE
    BY DEF Init, StreamInit, LearningInit
  <2>2. Queued
    BY <2>1, PipelineAssumption DEF Queued
  <2>3. Once
    BY <2>1, NotEmpty DEF Once, Waits
  <2>4. Offers
    BY <2>1, Distinct DEF Offers
  <2>5. Bounds
    BY <2>1, StreamAssumption DEF Bounds, NoTask
  <2>6. Learnt
    <3>1. NewCreator \in Records /\ NewCreator.wins + NewCreator.losses = 0
      BY DEF NewCreator, Records
    <3> QED
      BY <2>1, <3>1, LearningAssumption DEF Learnt, Results
  <2>7. Rest
    <3>1. MaxTrades \in 0..MaxTrades /\ MaxRare \in 0..MaxRare
      BY PipelineAssumption
    <3>2. left \in [trades : 0..MaxTrades, rare : 0..MaxRare]
      BY <2>1, <3>1 DEF Budget
    <3> QED
      BY <2>1, <3>2 DEF Rest
  <2>8. Slept
    BY <2>1, PipelineAssumption DEF Slept
  <2> QED
    BY <2>1, <2>2, <2>3, <2>4, <2>5, <2>6, <2>7, <2>8, RememberedStart, TimedStart, StreamsStart, WatchedStart
<1>2. All /\ [Next]_vars => All'
  <2> SUFFICES ASSUME All, [Next]_vars PROVE All'
    OBVIOUS
  <2>1. Remembered' /\ Timed' /\ Offers' /\ Streams' /\ Rest' /\ Slept'
    BY RememberedKept, TimedKept, OffersKept, StepsOfStreams, StreamsKept, RestKept, SleptKept
  <2>2. Once' /\ Queued'
    BY StepsOfTokens, OnceKept, QueuedKept
  <2>3. Bounds' /\ Watched' /\ Learnt'
    BY StepsOfStreams, BoundsKept, StepsOfIntel, WatchedKept, StepsOfLearning, LearntKept DEF Timed
  <2>4. overflowed' = overflowed \/ overflowed' \in BOOLEAN
    <3>0. TokenStep
      BY StepsOfTokens
    <3>1. CASE UNCHANGED rejected \/ Flows \/ Forgets
      BY <3>1 DEF Flows, Forgets, rejected
    <3>2. CASE Books
      BY <3>2 DEF Books, TakeDue, EntryDone
    <3>3. CASE \/ \E k \in Tokens, s \in Stages : Passes(k, s)
               \/ \E k \in Tokens : Enqueues(k) \/ \E e \in Entries : Rejects(k, e)
               \/ \E s \in Stages : Dequeues(s)
      BY <3>3 DEF Passes, Enqueues, Rejects, Dequeues, Reject, rejected
    <3> QED
      BY <3>0, <3>1, <3>2, <3>3 DEF TokenStep
  <2> QED
    BY <2>1, <2>2, <2>3, <2>4
<1>3. All => TypeOK
  <2> SUFFICES ASSUME All PROVE TypeOK
    OBVIOUS
  <2>1. StreamOK
    BY Distinct DEF StreamOK, Streams, Bounds, Timed, Fed
  <2>2. LearningOK
    BY DEF LearningOK, Learnt, Remembered, Records
  <2>3. {trades[i] : i \in DOMAIN trades} = {k \in Tokens : stage[k] = "queued"}
    <3>1. DOMAIN trades = 1..Len(trades) /\ \A i \in 1..Len(trades) : trades[i] \in Tokens
      BY DEF Queued
    <3> QED
      BY <3>1 DEF Queued
  <2>4. \A what \in DOMAIN Budget : left[what] \in 0..Budget[what]
    BY DEF Budget, Rest
  <2>5. stage \in [Tokens -> Stages] /\ IntelOK /\ Len(trades) <= TradeMax /\ stop \in BOOLEAN
        /\ waited \in [Tokens -> 0..Cooldown + BundleWait]
    BY DEF Timed, Watched, Queued, Rest, Slept
  <2> QED
    BY <2>1, <2>2, <2>3, <2>4, <2>5 DEF TypeOK, Stages
<1> HIDE DEF All
<1> QED
  BY <1>1, <1>2, <1>3, PTL DEF Spec
=============================================================================
