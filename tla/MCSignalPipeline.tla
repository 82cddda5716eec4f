--------------------------- MODULE MCSignalPipeline --------------------------
(* A launch and a listing, by two creators.  Thresholds are scaled down so *)
(* that one trade makes a bundle, one rug a pattern and one closed trade a *)
(* sample.                                                                 *)
EXTENDS SignalPipeline

CONSTANTS m1, m2, w1, w2, w3

MCOffsetMin == -1

MCMints    == {m1, m2}
MCLaunched == {m1}
MCListings == {[mint |-> m2, src |-> "trending"]}
MCWallets  == {w1, w2, w3}
MCCreatorOf == (m1 :> w1) @@ (m2 :> w2)

\* w3 has bought two launches that pumped, and is smart; w2 was wrong twice.
MCKnownOutcomes == (w1 :> <<>>) @@ (w2 :> <<FALSE, FALSE>>) @@ (w3 :> <<TRUE, TRUE>>)

MCTradeEvents == {[wallet |-> w1, side |-> "buy", sol |-> 200],
                  [wallet |-> w3, side |-> "sell", sol |-> 5]}

Plain == [buy |-> 5, image |-> TRUE, named |-> TRUE, curve |-> 12, sol |-> 400, holders |-> 0,
          buys |-> 0, sells |-> 0, replies |-> 0, mentions |-> 0, chat |-> 0, live |-> FALSE,
          twitter |-> FALSE, velocity |-> 0, influencer |-> FALSE, hype |-> FALSE, fresh |-> TRUE,
          change5 |-> 0, change60 |-> 0, cap |-> 30, blacklisted |-> FALSE, ath |-> 0,
          rugRisk |-> FALSE, symbol |-> TRUE, spike |-> FALSE]

\* A launch that scores just below its effective score, and a poor one that
\* has no market cap.
Alike == [Plain EXCEPT !.curve = 32, !.buys = 7, !.sells = 3, !.image = FALSE, !.named = FALSE]
Poor  == [Plain EXCEPT !.buy = 150, !.image = FALSE, !.curve = 0, !.sol = 40, !.cap = 0]

MCFeatures == [k \in Tokens |-> IF k.src = "stream" THEN {Alike, Poor} ELSE {Alike}]

Silent == [pair |-> FALSE, overview |-> FALSE, security |-> FALSE, top10 |-> "missing",
           creatorShare |-> 0, change5 |-> 0, change60 |-> 0, buys |-> 0, sells |-> 0, holders |-> 0]

\* The services are silent, or all answer, Birdeye without the top ten.
MCAnswers == {Silent, [Silent EXCEPT !.pair = TRUE, !.buys = 7, !.sells = 3, !.security = TRUE]}

\* In its first minute the token doubled between two polls.
MCPolls == {[replies |-> 3, recent |-> 2, live |-> FALSE, twitter |-> FALSE, before |-> 30, cap |-> 60, top |-> 60, age |-> 40]}

Alive == [h |-> [i \in 0..6 |-> 100], hours |-> 6]
Dead  == [h |-> [i \in 0..6 |-> IF i = 0 THEN 10 ELSE 90 + 5 * i], hours |-> 6]

MCHistories == {Alive, Dead}

ASSUME MCRegime == RegimePauses(Dead.h, 6) /\ ~ RegimePauses(Alive.h, 6)
=============================================================================
