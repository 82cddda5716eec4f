---------------------- MODULE RiskManagerTypeProofs ----------------------
(***************************************************************************)
(* Type correctness of RiskManager.  TypeOK is not inductive: what a task  *)
(* may write depends on what its program counter says of the rest of its   *)
(* state (Shape).  Typed joins the two, and Parts says the same by variable,*)
(* so that each group of actions need only show the parts it touches.      *)
(***************************************************************************)
EXTENDS RiskManager, ArithmeticProofs, SequenceTheorems

Typed == TypeOK /\ Shape

Row == [obj : 0..MaxBuys, rec : Position]

\* The constants' assumptions in the form the leaves cite.
LEMMA ConstantFacts ==
  /\ None = 0 /\ None \in 0..MaxBuys
  /\ Monitor \in Sellers
  /\ Blank \in Position
  /\ NoRow \in Row
  /\ \A m \in Mints : m # NoMint /\ SymbolOf[m] \in Symbols
  /\ Levels \subseteq Nat \ {0}
<1>1. Blank \in Position
  BY DEF Blank, Position
<1>2. Len(TakeProfit) \in Nat
  BY LadderAssumption
<1> QED
  BY <1>1, <1>2, MintsAssumption, SymbolsAssumption, LimitsAssumption
  DEF None, Sellers, NoRow, Levels, Row

\* What a leg leaves of an amount is no more than the amount.
LEMMA KeepBounds ==
  ASSUME NEW a \in Nat, NEW l \in Levels
  PROVE  Keep(a, l) \in 0..a
<1>1. TakeProfit[l] \in 1..100
  BY LadderAssumption, ElementOfSeq DEF Levels
<1> DEFINE p == 100 - TakeProfit[l]
<1>2. p \in 0..99
  BY <1>1
<1> HIDE DEF p
<1>3. a * p >= 0 /\ a * p <= a * 100 /\ a * p \in Nat
  BY <1>2
<1>4. (a * p) \div 100 \in 0..a
  BY <1>3
<1> QED
  BY <1>4 DEF Keep, p

\* A position after a leg is a position.
LEMMA AfterLegType ==
  ASSUME NEW r \in Position, NEW l \in Levels
  PROVE  /\ AfterLeg(r, l) \in Position
         /\ AfterLeg(r, l).mint = r.mint
         /\ AfterLeg(r, l).sol <= r.sol
<1>1. Keep(r.tok, l) \in 0..r.tok /\ Keep(r.sol, l) \in 0..r.sol
  BY KeepBounds DEF Position
<1> DEFINE t == Keep(r.tok, l)
           c == Keep(r.sol, l)
<1>2. t \in Nat /\ c \in Nat /\ c <= r.sol
  BY <1>1 DEF Position
<1> HIDE DEF t, c
<1>3. /\ [r EXCEPT !.tok = t, !.sol = c, !.tp = r.tp \cup {l}] \in Position
      /\ [r EXCEPT !.tok = t, !.sol = c, !.tp = r.tp \cup {l}].mint = r.mint
      /\ [r EXCEPT !.tok = t, !.sol = c, !.tp = r.tp \cup {l}].sol <= r.sol
  BY <1>2 DEF Position
<1> QED
  BY <1>3 DEF AfterLeg, t, c

\* What a snapshot writes is a well-typed file.
LEMMA SnapshotType ==
  ASSUME NEW p \in [Mints -> 0..MaxBuys], NEW q \in [Objs -> Position]
  PROVE  Snapshot(p, q) \in [Mints -> Row]
<1> SUFFICES ASSUME NEW m \in Mints
             PROVE  (IF p[m] = None THEN NoRow ELSE [obj |-> p[m], rec |-> q[p[m]]]) \in Row
  BY DEF Snapshot
<1>1. CASE p[m] = None
  BY <1>1, ConstantFacts
<1>2. CASE p[m] # None
  <2>1. p[m] \in Objs
    BY <1>2, LimitsAssumption DEF Objs, None
  <2> QED
    BY <1>2, <2>1 DEF Row
<1> QED
  BY <1>1, <1>2

\* The cost basis of a book is a natural for each mint, and in sum.
LEMMA BasisType ==
  ASSUME NEW p \in [Mints -> 0..MaxBuys], NEW q \in [Objs -> Position]
  PROVE  /\ \A m \in Mints : Basis(p, q)[m] \in Nat
         /\ SumOver(Basis(p, q), Mints) \in Nat
<1>1. ASSUME NEW m \in Mints
      PROVE  Basis(p, q)[m] \in Nat
  <2>1. p[m] # None => p[m] \in Objs
    BY LimitsAssumption DEF Objs, None
  <2>2. p[m] # None => q[p[m]].sol \in Nat
    BY <2>1 DEF Position
  <2> QED
    BY <2>2 DEF Basis
<1> QED
  BY <1>1, MintsAssumption, SumType

\* The initial state is typed.
LEMMA TypedInit == Init => Typed
<1> SUFFICES ASSUME Init PROVE Typed
  OBVIOUS
<1> USE ConstantFacts, LimitsAssumption
<1>1. FlagTypes
  BY DEF Init, FlagTypes
<1>2. BookTypes
  BY DEF Init, BookTypes, Row
<1>3. TotalTypes
  BY DEF Init, TotalTypes
<1>4. TaskTypes
  <2>1. buy \in [pc : {"idle", "pausing", "sizing", "buying", "resolving"},
                 mint : Mints \cup {NoMint}, expo : Nat, amt : Nat]
    BY DEF Init, BuyIdle
  <2>2. mon \in [pc : {"idle", "emergency", "check", "leg"}, todo : SUBSET Mints,
                 mint : Mints \cup {NoMint}, obj : 0..MaxBuys, lvl : Nat, reach : Nat]
    BY DEF Init, MonIdle
  <2>3. sell \in [Sellers -> [pc : {"idle", "selling", "settling"},
                              mint : Mints \cup {NoMint}, obj : 0..MaxBuys]]
    BY DEF Init, SellIdle
  <2> QED
    BY <2>1, <2>2, <2>3 DEF TaskTypes
<1>5. HistoryTypes
  BY DEF Init, HistoryTypes
<1>6. Shape
  BY DEF Init, Shape, BuyIdle, MonIdle, SellIdle, Open, NoRow
<1> QED
  BY <1>1, <1>2, <1>3, <1>4, <1>5, <1>6 DEF Typed, TypeOK

SellType == [pc : {"idle", "selling", "settling"}, mint : Mints \cup {NoMint}, obj : 0..MaxBuys]

MonType == [pc : {"idle", "emergency", "check", "leg"}, todo : SUBSET Mints,
            mint : Mints \cup {NoMint}, obj : 0..MaxBuys, lvl : Nat, reach : Nat]

\* What Typed says of the slots of _force_sell and of the monitor's record.
SlotsOK(sl, n) ==
  /\ sl \in [Sellers -> SellType]
  /\ \A t \in Sellers : sl[t].pc # "idle" => sl[t].mint \in Mints /\ sl[t].obj \in 1..n

MonOK(mn, n) ==
  /\ mn \in MonType
  /\ mn.pc = "leg" => mn.mint \in Mints /\ mn.obj \in 1..n /\ mn.lvl \in Levels
                      /\ mn.reach \in Levels

\* What it says of the book, given the objects.
BookOK(p, q, n) ==
  /\ p \in [Mints -> 0..MaxBuys]
  /\ \A m \in Mints : p[m] <= n /\ (p[m] # None => q[p[m]].mint = m)

RowsOK(r, q, n) ==
  /\ r \in [Mints -> Row]
  /\ \A m \in Mints : r[m].obj # None =>
       r[m].obj \in 1..n /\ q[r[m].obj].mint = m /\ r[m].rec.mint = m

BuyOK ==
  /\ buy \in [pc : {"idle", "pausing", "sizing", "buying", "resolving"},
              mint : Mints \cup {NoMint}, expo : Nat, amt : Nat]
  /\ buy.pc # "idle" => buy.mint \in Mints /\ nobj < MaxBuys

DownOK ==
  ~up => /\ buy.pc = "idle" /\ mon.pc = "idle"
         /\ \A t \in Sellers : sell[t].pc = "idle"
         /\ \A m \in Mints : positions[m] = None

Parts ==
  /\ FlagTypes /\ TotalTypes /\ HistoryTypes
  /\ nobj \in 0..MaxBuys /\ pos \in [Objs -> Position]
  /\ BookOK(positions, pos, nobj) /\ RowsOK(rows, pos, nobj)
  /\ BuyOK /\ MonOK(mon, nobj) /\ SlotsOK(sell, nobj) /\ DownOK

\* Typed, as the conjunction of its parts.
LEMMA TypedParts == Typed <=> Parts
  BY DEF Typed, TypeOK, Shape, BookTypes, TaskTypes, Parts, BookOK, RowsOK, BuyOK, MonOK,
         SlotsOK, DownOK, Open, Row, SellType, MonType

\* The same of the next state.
LEMMA TypedPartsNext == Parts' => Typed'
  BY DEF Typed, TypeOK, Shape, BookTypes, TaskTypes, Parts, BookOK, RowsOK, BuyOK, MonOK,
         SlotsOK, DownOK, Open, Row, SellType, MonType

\* A snapshot agrees with the book on mints.
LEMMA SnapshotOK ==
  ASSUME NEW n \in 0..MaxBuys, NEW p, NEW q \in [Objs -> Position], BookOK(p, q, n)
  PROVE  RowsOK(Snapshot(p, q), q, n)
<1>1. Snapshot(p, q) \in [Mints -> Row]
  BY SnapshotType DEF BookOK
<1>2. ASSUME NEW m \in Mints, Snapshot(p, q)[m].obj # None
      PROVE  /\ Snapshot(p, q)[m].obj \in 1..n
             /\ q[Snapshot(p, q)[m].obj].mint = m
             /\ Snapshot(p, q)[m].rec.mint = m
  BY <1>2 DEF BookOK, Snapshot, None, NoRow
<1> QED
  BY <1>1, <1>2 DEF RowsOK

\* Dropping a mint keeps the book well formed.
LEMMA DropOK ==
  ASSUME NEW n \in 0..MaxBuys, NEW p, NEW q, NEW m \in Mints, BookOK(p, q, n)
  PROVE  BookOK(Drop(p, m), q, n)
  BY LimitsAssumption DEF BookOK, Drop, None

\* A seller that starts has an object and a mint.
LEMMA BeginForceSellOK ==
  ASSUME Typed, NEW t \in Sellers, NEW m \in Mints, NEW q, BeginForceSell(t, m, q)
  PROVE  /\ BookOK(positions', pos, nobj) /\ SlotsOK(sell', nobj)
         /\ positions' \in {positions, Drop(positions, m)}
<1>1. BookOK(positions, pos, nobj) /\ SlotsOK(sell, nobj) /\ nobj \in 0..MaxBuys
  BY TypedParts DEF Parts
<1>2. positions' \in {positions, Drop(positions, m)}
  BY DEF BeginForceSell
<1>3. BookOK(positions', pos, nobj)
  BY <1>1, <1>2, DropOK
<1>4. SlotsOK(sell', nobj)
  <2>1. CASE Sellable(m, q)
    <3>1. positions[m] \in 1..nobj
      BY <1>1, <2>1 DEF BookOK, Sellable, None
    <3>2. [pc |-> "selling", mint |-> m, obj |-> positions[m]] \in SellType
      BY LimitsAssumption, <1>1, <3>1 DEF SellType
    <3> QED
      BY <1>1, <2>1, <3>1, <3>2 DEF BeginForceSell, SlotsOK
  <2>2. CASE ~Sellable(m, q)
    <3>1. SellIdle \in SellType
      BY ConstantFacts DEF SellIdle, SellType
    <3> QED
      BY <1>1, <2>2, <3>1 DEF BeginForceSell, SlotsOK, SellIdle
  <2> QED
    BY <2>1, <2>2
<1> QED
  BY <1>2, <1>3, <1>4

\* The rest of a check leaves a well-formed monitor and seller.
LEMMA ContinueCheckOK ==
  ASSUME Typed, NEW m \in Mints, NEW o \in 1..nobj, NEW from \in Nat \ {0},
         NEW reach \in 0..Len(TakeProfit), NEW todo \in SUBSET Mints, NEW q,
         ContinueCheck(m, o, from, reach, todo, q)
  PROVE  /\ BookOK(positions', pos, nobj) /\ SlotsOK(sell', nobj) /\ MonOK(mon', nobj)
         /\ positions' \in {positions, Drop(positions, m)}
<1>1. BookOK(positions, pos, nobj) /\ SlotsOK(sell, nobj) /\ nobj \in 0..MaxBuys
  BY TypedParts DEF Parts
<1>2. Len(TakeProfit) \in Nat
  BY LadderAssumption
<1>3. ASSUME NEW l \in Due(q[o], from, reach),
             mon' = [pc |-> "leg", todo |-> todo, mint |-> m, obj |-> o, lvl |-> l,
                     reach |-> reach],
             UNCHANGED <<positions, sell>>
      PROVE  /\ BookOK(positions', pos, nobj) /\ SlotsOK(sell', nobj) /\ MonOK(mon', nobj)
             /\ positions' \in {positions, Drop(positions, m)}
  <2>1. l \in Levels /\ reach \in Levels
    BY <1>2, <1>3 DEF Due, Levels
  <2>2. MonOK(mon', nobj)
    BY LimitsAssumption, <1>1, <1>3, <2>1, ConstantFacts DEF MonOK, MonType
  <2> QED
    BY <1>1, <1>3, <2>2
<1>4. ASSUME mon' = [MonIdle EXCEPT !.pc = "check", !.todo = todo],
             UNCHANGED <<positions, sell>> \/ BeginForceSell(Monitor, m, q)
      PROVE  /\ BookOK(positions', pos, nobj) /\ SlotsOK(sell', nobj) /\ MonOK(mon', nobj)
             /\ positions' \in {positions, Drop(positions, m)}
  <2>1. MonOK(mon', nobj)
    BY <1>4, ConstantFacts DEF MonOK, MonType, MonIdle
  <2> QED
    BY <1>1, <1>4, <2>1, BeginForceSellOK, ConstantFacts
<1> QED
  BY <1>3, <1>4 DEF ContinueCheck

\* A size that passes sizing is an amount in range.
LEMMA SizeBounds ==
  ASSUME NEW base \in Nat, NEW expo \in Nat, NEW s \in Symbols, deployed \in [Symbols -> Nat]
  PROVE  /\ SizeOf(base, expo, s) \in Int
         /\ SizeOf(base, expo, s) <= MaxTotalExposure - expo
         /\ SizeOf(base, expo, s) > 0 => SizeOf(base, expo, s) <= SymbolCap - deployed[s]
<1>1. ASSUME NEW x \in Int
      PROVE  Max({0, x}) \in Int /\ (Max({0, x}) > 0 => Max({0, x}) = x)
  <2>1. \E y \in {0, x} : \A z \in {0, x} : y >= z
    OBVIOUS
  <2> DEFINE y == Max({0, x})
  <2>2. y \in {0, x}
    BY <2>1 DEF Max
  <2> QED
    BY <2>2
<1> DEFINE room == MaxTotalExposure - expo
           left == SymbolCap - deployed[s]
           most == Max({0, left})
           size == SizeOf(base, expo, s)
<1>3. left \in Int /\ room \in Int
  BY AmountsAssumption
<1>4. most \in Int /\ (most > 0 => most = left)
  BY <1>1, <1>3
<1>5. size = Min({base, room, most})
  BY DEF SizeOf
<1> HIDE DEF room, left, most, size
<1>6. size \in Int /\ size <= room /\ size <= most
  <2>1. \E w \in {base, room, most} : \A v \in {base, room, most} : w <= v
    BY <1>3, <1>4
  <2>2. /\ Min({base, room, most}) \in {base, room, most}
        /\ \A v \in {base, room, most} : Min({base, room, most}) <= v
    BY <2>1 DEF Min
  <2> QED
    BY <1>3, <1>4, <1>5, <2>2
<1>7. size > 0 => size <= left
  BY <1>3, <1>4, <1>6
<1> QED
  BY <1>6, <1>7 DEF room, left, size

\* The actions that change nothing but the trade loop's own state.
LEMMA BuyStepTyped ==
  ASSUME Typed, NEW m \in Mints,
         TakeToken(m) \/ AdmitBuy \/ RejectBuy \/ SubmitBuy \/ BuyFails \/ BuyNeedsResolving
         \/ ResolveFails
  PROVE  Parts'
<1> USE LimitsAssumption, AmountsAssumption
<1>1. Parts
  BY TypedParts
<1>2. BuyIdle \in [pc : {"idle", "pausing", "sizing", "buying", "resolving"},
                   mint : Mints \cup {NoMint}, expo : Nat, amt : Nat]
  BY DEF BuyIdle
<1>3. /\ UNCHANGED <<up, positions, pos, nobj, deployed, estop, fsell>>
      /\ UNCHANGED <<rows, dDeployed, dStop, dSell, mon, sell, spent, recorded, crashes>>
  BY DEF TakeToken, AdmitBuy, RejectBuy, SubmitBuy, BuyFails, BuyNeedsResolving, ResolveFails,
         memVars, flagVars, diskVars, histVars
<1>4. up
  BY DEF TakeToken, AdmitBuy, RejectBuy, SubmitBuy, BuyFails, BuyNeedsResolving, ResolveFails
<1>5. BuyOK'
  <2>1. CASE TakeToken(m)
    BY <1>1, <1>2, <1>3, <2>1, ConstantFacts DEF TakeToken, Parts, BuyOK, BuyIdle
  <2>2. CASE AdmitBuy
    <3>1. Exposure \in Nat
      BY <1>1, BasisType DEF Exposure, Parts, BookOK
    <3> QED
      BY <1>1, <1>3, <2>2, <3>1 DEF AdmitBuy, Parts, BuyOK
  <2>3. CASE RejectBuy \/ BuyFails \/ ResolveFails
    BY <1>2, <2>3 DEF RejectBuy, BuyFails, ResolveFails, BuyOK, BuyIdle
  <2>4. CASE BuyNeedsResolving
    BY <1>1, <1>3, <2>4 DEF BuyNeedsResolving, Parts, BuyOK
  <2>5. CASE SubmitBuy
    <3>1. \/ \E amt \in Nat : buy' = [buy EXCEPT !.pc = "buying", !.expo = 0, !.amt = amt]
          \/ buy' = BuyIdle
      <4>1. PICK base \in BaseSizes :
              LET size == SizeOf(base, buy.expo, SymbolOf[buy.mint]) IN
              \/ /\ size >= MinViable
                 /\ \E amt \in RoundedTo(size) :
                      buy' = [buy EXCEPT !.pc = "buying", !.expo = 0, !.amt = amt]
              \/ buy' = BuyIdle
        BY <2>5 DEF SubmitBuy
      <4>2. SizeOf(base, buy.expo, SymbolOf[buy.mint]) \in Int
        BY <1>1, <2>5, SizeBounds, ConstantFacts DEF Parts, BuyOK, TotalTypes, SubmitBuy
      <4>3. RoundedTo(SizeOf(base, buy.expo, SymbolOf[buy.mint])) \subseteq Nat
        BY <4>2 DEF RoundedTo
      <4> QED
        BY <4>1, <4>3
    <3>2. buy.pc = "sizing"
      BY <2>5 DEF SubmitBuy
    <3> QED
      BY <1>1, <1>2, <1>3, <3>1, <3>2 DEF Parts, BuyOK, BuyIdle
  <2> QED
    BY <2>1, <2>2, <2>3, <2>4, <2>5
<1>6. HistoryTypes'
  <2>1. lateBuys' \in {lateBuys, lateBuys + 1}
    BY DEF TakeToken, AdmitBuy, RejectBuy, SubmitBuy, BuyFails, BuyNeedsResolving, ResolveFails,
           histVars
  <2> QED
    BY <1>1, <1>3, <2>1 DEF Parts, HistoryTypes
<1>7. FlagTypes' /\ TotalTypes'
  BY <1>1, <1>3 DEF Parts, FlagTypes, TotalTypes
<1>8. /\ BookOK(positions, pos, nobj)' /\ RowsOK(rows, pos, nobj)'
      /\ MonOK(mon, nobj)' /\ SlotsOK(sell, nobj)'
  BY <1>1, <1>3 DEF Parts, BookOK, RowsOK, MonOK, SlotsOK
<1>9. DownOK'
  BY <1>3, <1>4 DEF DownOK
<1> QED
  BY <1>1, <1>3, <1>5, <1>6, <1>7, <1>8, <1>9 DEF Parts

\* The actions that change the monitor's record or a slot of _force_sell only.
TickStep ==
  \/ ResumeForceSell \/ NoEmergency \/ EmergencyDone \/ ChecksDone
  \/ \E m \in Mints : CheckMissing(m)
  \/ \E t \in Sellers : SellLands(t)

\* The monitor's ticks and checks keep types.
LEMMA TickStepTyped ==
  ASSUME Typed, TickStep
  PROVE  Parts'
<1>1. Parts
  BY TypedParts
<1>2. /\ UNCHANGED <<up, positions, pos, nobj, deployed, estop, fsell, rows, dDeployed>>
      /\ UNCHANGED <<dStop, dSell, buy, spent, recorded, lateBuys, crashes>>
  BY DEF TickStep, ResumeForceSell, NoEmergency, EmergencyDone, ChecksDone, CheckMissing,
         SellLands, memVars, flagVars, diskVars, histVars
<1>3. up
  BY DEF TickStep, ResumeForceSell, NoEmergency, EmergencyDone, ChecksDone, CheckMissing,
         SellLands, MonitorFree
<1>4. MonOK(mon', nobj)
  <2>1. Open \subseteq Mints /\ MonIdle \in MonType
    BY ConstantFacts DEF Open, MonIdle, MonType
  <2> QED
    BY <1>1, <2>1 DEF TickStep, ResumeForceSell, NoEmergency, EmergencyDone, ChecksDone,
       CheckMissing, SellLands, MonitorFree, Parts, MonOK, MonType, MonIdle
<1>5. SlotsOK(sell', nobj)
  BY <1>1 DEF TickStep, ResumeForceSell, NoEmergency, EmergencyDone, ChecksDone, CheckMissing,
     SellLands, Parts, SlotsOK, SellType
<1>6. FlagTypes' /\ TotalTypes' /\ HistoryTypes'
  BY <1>1, <1>2 DEF Parts, FlagTypes, TotalTypes, HistoryTypes
<1>7. BookOK(positions, pos, nobj)' /\ RowsOK(rows, pos, nobj)' /\ BuyOK' /\ DownOK'
  BY <1>1, <1>2, <1>3 DEF Parts, BookOK, RowsOK, BuyOK, DownOK
<1> QED
  BY <1>1, <1>2, <1>4, <1>5, <1>6, <1>7 DEF Parts

\* The actions that set or clear the emergency flags.
FlagStep == TripEmergency \/ WebStop \/ WebResume

\* The steps that set or clear flags keep types.
LEMMA FlagStepTyped ==
  ASSUME Typed, FlagStep
  PROVE  Parts'
<1>1. Parts
  BY TypedParts
<1>2. UNCHANGED <<up, positions, pos, nobj, deployed, rows, dDeployed, buy, sell, spent,
                  recorded, crashes>>
  BY DEF FlagStep, TripEmergency, WebStop, WebResume, memVars, taskVars
<1>3. up
  BY DEF FlagStep, TripEmergency, WebStop, WebResume, MonitorFree
<1>4. FlagTypes'
  BY <1>1, <1>2 DEF FlagStep, TripEmergency, WebStop, WebResume, Parts, FlagTypes
<1>5. lateBuys' \in {lateBuys, 0}
  BY DEF FlagStep, TripEmergency, WebStop, WebResume
<1>6. MonOK(mon', nobj)
  BY <1>1 DEF FlagStep, TripEmergency, WebStop, WebResume, taskVars, Parts, MonOK, MonType, Open
<1>7. TotalTypes' /\ HistoryTypes'
  BY <1>1, <1>2, <1>5 DEF Parts, TotalTypes, HistoryTypes
<1>8. /\ BookOK(positions, pos, nobj)' /\ RowsOK(rows, pos, nobj)' /\ BuyOK' /\ DownOK'
      /\ SlotsOK(sell, nobj)'
  BY <1>1, <1>2, <1>3 DEF Parts, BookOK, RowsOK, BuyOK, DownOK, SlotsOK
<1> QED
  BY <1>1, <1>2, <1>4, <1>6, <1>7, <1>8 DEF Parts

\* The actions that may begin a force-sell.
SellStep ==
  \/ \E m \in Mints : EmergencySell(m) \/ CheckStops(m) \/ CheckLadder(m)
  \/ LegFails
  \/ \E c \in Clicks, m \in Mints : WebForceSell(c, m)

\* What the steps inside a force-sell leave alone.
LEMMA SellStepFrame ==
  ASSUME Typed, SellStep
  PROVE  /\ UNCHANGED <<up, pos, nobj, deployed, estop, fsell, rows, dDeployed, dStop, dSell>>
         /\ UNCHANGED <<buy, spent, recorded, lateBuys, crashes>>
         /\ up
         /\ BookOK(positions', pos, nobj) /\ SlotsOK(sell', nobj) /\ MonOK(mon', nobj)
         /\ \E m \in Mints : positions' \in {positions, Drop(positions, m)}
<1>1. Parts /\ Len(TakeProfit) \in Nat
  BY TypedParts, LadderAssumption
<1>2. /\ UNCHANGED <<up, pos, nobj, deployed, estop, fsell, rows, dDeployed, dStop, dSell>>
      /\ UNCHANGED <<buy, spent, recorded, lateBuys, crashes>>
      /\ up
  BY DEF SellStep, EmergencySell, CheckStops, CheckLadder, LegFails, WebForceSell, flagVars,
         diskVars, histVars, MonitorFree
<1>3. ASSUME NEW m \in Mints, EmergencySell(m) \/ CheckStops(m)
      PROVE  /\ BookOK(positions', pos, nobj) /\ SlotsOK(sell', nobj) /\ MonOK(mon', nobj)
             /\ positions' \in {positions, Drop(positions, m)}
  <2>1. BeginForceSell(Monitor, m, pos)
    BY <1>3 DEF EmergencySell, CheckStops
  <2>2. MonOK(mon', nobj)
    BY <1>1, <1>3 DEF EmergencySell, CheckStops, MonitorFree, Parts, MonOK, MonType
  <2> QED
    BY <2>1, <2>2, BeginForceSellOK, ConstantFacts
<1>4. ASSUME NEW m \in Mints, CheckLadder(m)
      PROVE  /\ BookOK(positions', pos, nobj) /\ SlotsOK(sell', nobj) /\ MonOK(mon', nobj)
             /\ positions' \in {positions, Drop(positions, m)}
  <2>1. PICK reach \in 0..Len(TakeProfit) :
          ContinueCheck(m, positions[m], 1, reach, mon.todo \ {m}, pos)
    BY <1>4 DEF CheckLadder
  <2>2. positions[m] \in 1..nobj
    BY <1>1, <1>4 DEF CheckLadder, Parts, BookOK, None
  <2>3. mon.todo \ {m} \in SUBSET Mints
    BY <1>1 DEF Parts, MonOK, MonType
  <2> QED
    BY <2>1, <2>2, <2>3, ContinueCheckOK
<1>5. ASSUME LegFails
      PROVE  /\ BookOK(positions', pos, nobj) /\ SlotsOK(sell', nobj) /\ MonOK(mon', nobj)
             /\ mon.mint \in Mints /\ positions' \in {positions, Drop(positions, mon.mint)}
  <2>1. /\ mon.mint \in Mints /\ mon.obj \in 1..nobj /\ mon.todo \in SUBSET Mints
        /\ mon.lvl + 1 \in Nat \ {0} /\ mon.reach \in 0..Len(TakeProfit)
    BY <1>1, <1>5 DEF LegFails, Parts, MonOK, MonType, Levels
  <2>2. ContinueCheck(mon.mint, mon.obj, mon.lvl + 1, mon.reach, mon.todo, pos)
    BY <1>5 DEF LegFails
  <2> QED
    BY <2>1, <2>2, ContinueCheckOK
<1>6. ASSUME NEW c \in Clicks, NEW m \in Mints, WebForceSell(c, m)
      PROVE  /\ BookOK(positions', pos, nobj) /\ SlotsOK(sell', nobj) /\ MonOK(mon', nobj)
             /\ positions' \in {positions, Drop(positions, m)}
  <2>1. BeginForceSell(c, m, pos) /\ UNCHANGED mon /\ c \in Sellers
    BY <1>6 DEF WebForceSell, Sellers
  <2> QED
    BY <1>1, <2>1, BeginForceSellOK DEF Parts
<1> QED
  BY <1>2, <1>3, <1>4, <1>5, <1>6 DEF SellStep

\* The steps inside a force-sell keep types.
LEMMA SellStepTyped ==
  ASSUME Typed, SellStep
  PROVE  Parts'
<1>1. Parts
  BY TypedParts
<1>2. FlagTypes' /\ TotalTypes' /\ HistoryTypes'
  BY <1>1, SellStepFrame DEF Parts, FlagTypes, TotalTypes, HistoryTypes
<1>3. RowsOK(rows, pos, nobj)' /\ BuyOK' /\ DownOK'
  BY <1>1, SellStepFrame DEF Parts, RowsOK, BuyOK, DownOK
<1>4. BookOK(positions, pos, nobj)' /\ MonOK(mon, nobj)' /\ SlotsOK(sell, nobj)'
  BY SellStepFrame
<1> QED
  BY <1>1, <1>2, <1>3, <1>4, SellStepFrame DEF Parts

\* Replacing an object by one of the same mint keeps book and disk consistent.
LEMMA UpdateOK ==
  ASSUME Typed, NEW o \in 1..nobj, NEW r \in Position, r.mint = pos[o].mint,
         NEW q, q = [pos EXCEPT ![o] = r]
  PROVE  /\ q \in [Objs -> Position]
         /\ \A x \in Objs : q[x].mint = pos[x].mint
         /\ BookOK(positions, q, nobj) /\ RowsOK(rows, q, nobj)
         /\ \A m \in Mints : BookOK(Drop(positions, m), q, nobj)
<1>1. Parts
  BY TypedParts
<1>2. o \in Objs /\ 1..nobj \subseteq Objs /\ nobj \in 0..MaxBuys
  BY <1>1, LimitsAssumption DEF Parts, Objs
<1>3. q \in [Objs -> Position] /\ \A x \in Objs : q[x].mint = pos[x].mint
  BY <1>1, <1>2 DEF Parts
<1>4. BookOK(positions, q, nobj)
  <2>1. ASSUME NEW m \in Mints, positions[m] # None
        PROVE  positions[m] \in Objs
    BY <1>1, <1>2, <2>1 DEF Parts, BookOK, None
  <2> QED
    BY <1>1, <1>3, <2>1 DEF Parts, BookOK
<1>5. RowsOK(rows, q, nobj)
  BY <1>1, <1>2, <1>3 DEF Parts, RowsOK
<1>6. \A m \in Mints : BookOK(Drop(positions, m), q, nobj)
  BY <1>2, <1>4, DropOK
<1> QED
  BY <1>3, <1>4, <1>5, <1>6

\* A book with a new object is well formed.
LEMMA AddToBookOK ==
  ASSUME Typed, buy.pc # "idle", AddToBook
  PROVE  /\ nobj' = nobj + 1 /\ nobj' \in 0..MaxBuys
         /\ pos' \in [Objs -> Position]
         /\ BookOK([positions EXCEPT ![buy.mint] = nobj + 1], pos', nobj')
         /\ RowsOK(rows', pos', nobj')
         /\ spent' \in [Objs -> Nat]
<1> DEFINE o == nobj + 1
           r == [mint |-> buy.mint, sol |-> buy.amt, tok |-> BoughtTokens, tp |-> {}, att |-> 0]
           p == [positions EXCEPT ![buy.mint] = o]
<1>1. Parts
  BY TypedParts
<1>2. /\ buy.mint \in Mints /\ buy.amt \in Nat
      /\ nobj \in 0..MaxBuys /\ o \in Objs /\ o \in 0..MaxBuys /\ MaxBuys \in Nat
  BY <1>1, LimitsAssumption DEF Parts, BuyOK, Objs
<1>3. r \in Position
  BY <1>2, AmountsAssumption DEF Position
<1>4. pos' = [pos EXCEPT ![o] = r] /\ nobj' = o /\ rows' = Snapshot(p, pos')
  BY DEF AddToBook
<1>5. spent' \in [Objs -> Nat]
  BY <1>1, <1>2 DEF AddToBook, Parts, HistoryTypes
<1> HIDE DEF o, r
<1>6. pos' \in [Objs -> Position]
  BY <1>1, <1>2, <1>3, <1>4 DEF Parts
<1>7. BookOK(p, pos', o)
  <2>1. p \in [Mints -> 0..MaxBuys]
    BY <1>1, <1>2 DEF Parts, BookOK
  <2>2. ASSUME NEW m \in Mints
        PROVE  p[m] <= o /\ (p[m] # None => pos'[p[m]].mint = m)
    <3>1. CASE m = buy.mint
      <4>1. p[m] = o /\ pos'[o] = r
        BY <1>1, <1>2, <1>4, <3>1 DEF Parts, BookOK
      <4> QED
        BY <1>2, <3>1, <4>1 DEF r
    <3>2. CASE m # buy.mint
      <4>1. p[m] = positions[m] /\ positions[m] \in 0..nobj
        BY <1>1, <1>2, <3>2 DEF Parts, BookOK
      <4>2. positions[m] # None => positions[m] \in Objs /\ positions[m] # o
        BY <1>2, <4>1 DEF Objs, None, o
      <4>3. positions[m] # None => pos'[positions[m]] = pos[positions[m]]
        BY <1>1, <1>4, <4>2 DEF Parts
      <4> QED
        BY <1>1, <1>2, <4>1, <4>3 DEF Parts, BookOK, o
    <3> QED
      BY <3>1, <3>2
  <2> QED
    BY <2>1, <2>2 DEF BookOK
<1>8. RowsOK(rows', pos', o)
  BY <1>2, <1>4, <1>6, <1>7, SnapshotOK
<1> QED
  BY <1>2, <1>4, <1>5, <1>6, <1>7, <1>8 DEF o

\* The opening of a position keeps types.
LEMMA OpenStepTyped ==
  ASSUME Typed, BuyConfirmed \/ BuyResolved
  PROVE  Parts'
<1>1. Parts /\ buy.pc # "idle"
  BY TypedParts DEF BuyConfirmed, BuyResolved
<1>2. OpenPosition
  BY DEF BuyConfirmed, BuyResolved
<1>3. /\ UNCHANGED <<up, estop, fsell, dStop, dSell, mon, sell, recorded, lateBuys, crashes>>
      /\ up
  BY DEF BuyConfirmed, BuyResolved, flagVars
<1>4. /\ nobj' = nobj + 1 /\ nobj' \in 0..MaxBuys /\ pos' \in [Objs -> Position]
      /\ BookOK(positions', pos', nobj') /\ RowsOK(rows', pos', nobj')
      /\ spent' \in [Objs -> Nat]
  BY <1>1, <1>2, AddToBookOK DEF OpenPosition
<1>5. TotalTypes'
  <2>1. SymbolOf[buy.mint] \in Symbols /\ buy.amt \in Nat
    BY <1>1, ConstantFacts DEF Parts, BuyOK
  <2> QED
    BY <1>1, <1>2, <2>1 DEF OpenPosition, Parts, TotalTypes
<1>6. BuyOK'
  BY <1>2, ConstantFacts DEF OpenPosition, BuyOK, BuyIdle
<1>7. FlagTypes' /\ HistoryTypes' /\ DownOK'
  BY <1>1, <1>3, <1>4 DEF Parts, FlagTypes, HistoryTypes, DownOK
<1>8. MonOK(mon', nobj') /\ SlotsOK(sell', nobj')
  <2>1. nobj \in Nat /\ 1..nobj \subseteq 1..nobj'
    BY <1>1, <1>4, LimitsAssumption DEF Parts
  <2> QED
    BY <1>1, <1>3, <2>1 DEF Parts, MonOK, SlotsOK
<1> QED
  BY <1>4, <1>5, <1>6, <1>7, <1>8 DEF Parts

\* A book that lost a mint and its file are well formed.
LEMMA ClosePositionOK ==
  ASSUME Typed, NEW m \in Mints, NEW q \in [Objs -> Position], ClosePosition(m, q)
  PROVE  positions' = Drop(positions, m) /\ recorded' \in [Objs -> Nat]
<1>1. Parts
  BY TypedParts
<1>2. CASE positions[m] = None
  BY <1>1, <1>2 DEF ClosePosition, Parts, HistoryTypes
<1>3. CASE positions[m] # None
  <2>1. positions[m] \in Objs
    BY <1>1, <1>3 DEF Parts, BookOK, Objs, None
  <2>2. q[positions[m]].sol \in Nat
    BY <2>1 DEF Position
  <2> QED
    BY <1>1, <1>3, <2>1, <2>2 DEF ClosePosition, Parts, HistoryTypes
<1> QED
  BY <1>2, <1>3

\* A force-sell that ends: it fails or is settled.
EndStep == \E t \in Sellers : SellFails(t) \/ Settle(t)

\* The end of a force-sell keeps types.
LEMMA EndStepTyped ==
  ASSUME Typed, EndStep
  PROVE  Parts'
<1>1. Parts
  BY TypedParts
<1>2. PICK t \in Sellers : SellFails(t) \/ Settle(t)
  BY DEF EndStep
<1>3. /\ UNCHANGED <<up, nobj, deployed, estop, fsell, dDeployed, dStop, dSell, buy, mon>>
      /\ UNCHANGED <<spent, lateBuys, crashes>>
      /\ sell' = [sell EXCEPT ![t] = SellIdle]
      /\ up
  BY <1>2 DEF SellFails, Settle, flagVars, histVars
<1>4. sell[t].mint \in Mints /\ sell[t].obj \in 1..nobj
  BY <1>1, <1>2 DEF SellFails, Settle, Parts, SlotsOK
<1>5. /\ pos' \in [Objs -> Position] /\ BookOK(positions', pos', nobj)
      /\ RowsOK(rows', pos', nobj) /\ recorded' \in [Objs -> Nat]
  <2>1. CASE SellFails(t)
    <3> DEFINE o == sell[t].obj
               r == AfterFailure(pos[o])
               q == [pos EXCEPT ![o] = r]
    <3>1. q = [pos EXCEPT ![o] = r]
      OBVIOUS
    <3>2. r \in Position /\ r.mint = pos[o].mint
      <4>1. pos[o] \in Position
        BY <1>1, <1>4, LimitsAssumption DEF Parts, Objs
      <4> QED
        BY <4>1 DEF AfterFailure, Position
    <3>3. /\ pos' = q /\ rows' = Snapshot(positions', q) /\ recorded' = recorded
          /\ positions' \in {positions, Drop(positions, sell[t].mint)}
      BY <2>1 DEF SellFails, histVars
    <3> HIDE DEF q, r
    <3>4. /\ q \in [Objs -> Position] /\ BookOK(positions, q, nobj)
          /\ BookOK(Drop(positions, sell[t].mint), q, nobj)
      BY <1>4, <3>1, <3>2, UpdateOK
    <3> QED
      BY <1>1, <3>3, <3>4, SnapshotOK DEF Parts, HistoryTypes
  <2>2. CASE Settle(t)
    <3>1. /\ pos' = pos /\ ClosePosition(sell[t].mint, pos)
          /\ rows' \in {rows, Snapshot(positions', pos)}
      BY <2>2 DEF Settle
    <3>2. positions' = Drop(positions, sell[t].mint) /\ recorded' \in [Objs -> Nat]
      BY <1>1, <1>4, <3>1, ClosePositionOK DEF Parts
    <3> QED
      BY <1>1, <1>4, <3>1, <3>2, DropOK, SnapshotOK DEF Parts
  <2> QED
    BY <1>2, <2>1, <2>2
<1>6. SlotsOK(sell', nobj)
  BY <1>1, <1>3, ConstantFacts DEF Parts, SlotsOK, SellType, SellIdle
<1>7. FlagTypes' /\ TotalTypes' /\ HistoryTypes' /\ BuyOK' /\ DownOK'
  BY <1>1, <1>3, <1>5 DEF Parts, FlagTypes, TotalTypes, HistoryTypes, BuyOK, DownOK
<1> QED
  BY <1>1, <1>3, <1>5, <1>6, <1>7 DEF Parts

\* What a leg makes of the object it sells from.
LEMMA LegObject ==
  ASSUME Typed, mon.pc = "leg", NEW r, r = AfterLeg(pos[mon.obj], mon.lvl),
         NEW q, q = [pos EXCEPT ![mon.obj] = r]
  PROVE  /\ mon.mint \in Mints /\ mon.obj \in 1..nobj /\ mon.obj \in Objs
         /\ pos[mon.obj] \in Position
         /\ r \in Position /\ r.mint = pos[mon.obj].mint /\ r.sol <= pos[mon.obj].sol
         /\ q \in [Objs -> Position] /\ BookOK(positions, q, nobj) /\ RowsOK(rows, q, nobj)
         /\ \A m \in Mints : BookOK(Drop(positions, m), q, nobj)
         /\ recorded[mon.obj] + (pos[mon.obj].sol - r.sol) \in Nat
<1>1. Parts
  BY TypedParts
<1>2. mon.mint \in Mints /\ mon.obj \in 1..nobj /\ mon.obj \in Objs /\ mon.lvl \in Levels
  BY <1>1, LimitsAssumption DEF Parts, MonOK, Objs
<1>3. pos[mon.obj] \in Position
  BY <1>1, <1>2 DEF Parts
<1>4. r \in Position /\ r.mint = pos[mon.obj].mint /\ r.sol <= pos[mon.obj].sol
  BY <1>2, <1>3, AfterLegType
<1>5. recorded[mon.obj] \in Nat /\ r.sol \in Nat /\ pos[mon.obj].sol \in Nat
  BY <1>1, <1>2, <1>3, <1>4 DEF Parts, HistoryTypes, Position
<1>6. /\ q \in [Objs -> Position] /\ BookOK(positions, q, nobj) /\ RowsOK(rows, q, nobj)
      /\ \A m \in Mints : BookOK(Drop(positions, m), q, nobj)
  BY <1>2, <1>4, UpdateOK
<1>7. recorded[mon.obj] + (pos[mon.obj].sol - r.sol) \in Nat
  BY <1>4, <1>5
<1> QED
  BY <1>2, <1>3, <1>4, <1>6, <1>7

\* A leg that leaves tokens keeps types.
LEMMA PartialLegTyped ==
  ASSUME Typed, PartialLeg
  PROVE  Parts'
<1> DEFINE o == mon.obj
           r == AfterLeg(pos[o], mon.lvl)
           q == [pos EXCEPT ![o] = r]
<1>1. Parts /\ Len(TakeProfit) \in Nat
  BY TypedParts, LadderAssumption
<1>2. /\ UNCHANGED <<up, nobj, deployed, estop, fsell, dDeployed, dStop, dSell, buy>>
      /\ UNCHANGED <<spent, lateBuys, crashes>>
      /\ up /\ mon.pc = "leg"
      /\ pos' = q /\ rows' = Snapshot(positions, q)
      /\ recorded' = [recorded EXCEPT ![o] = @ + (pos[o].sol - r.sol)]
      /\ ContinueCheck(mon.mint, o, mon.lvl + 1, mon.reach, mon.todo, q)
  BY DEF PartialLeg, flagVars
<1> HIDE DEF r, q
<1>3. /\ mon.mint \in Mints /\ o \in 1..nobj /\ o \in Objs
      /\ q \in [Objs -> Position] /\ BookOK(positions, q, nobj)
      /\ BookOK(Drop(positions, mon.mint), q, nobj)
      /\ recorded[o] + (pos[o].sol - r.sol) \in Nat
  BY <1>2, LegObject DEF r, q
<1>4. /\ mon.todo \in SUBSET Mints /\ mon.lvl + 1 \in Nat \ {0}
      /\ mon.reach \in 0..Len(TakeProfit)
  BY <1>1, <1>2 DEF Parts, MonOK, MonType, Levels
<1>5. /\ SlotsOK(sell', nobj) /\ MonOK(mon', nobj)
      /\ positions' \in {positions, Drop(positions, mon.mint)}
  BY <1>2, <1>3, <1>4, ContinueCheckOK
<1>6. BookOK(positions', pos', nobj) /\ RowsOK(rows', pos', nobj)
  BY <1>1, <1>2, <1>3, <1>5, SnapshotOK DEF Parts
<1>7. recorded' \in [Objs -> Nat]
  BY <1>1, <1>2, <1>3 DEF Parts, HistoryTypes
<1>8. FlagTypes' /\ TotalTypes' /\ HistoryTypes' /\ BuyOK' /\ DownOK'
  BY <1>1, <1>2, <1>7 DEF Parts, FlagTypes, TotalTypes, HistoryTypes, BuyOK, DownOK
<1> QED
  BY <1>1, <1>2, <1>3, <1>5, <1>6, <1>8 DEF Parts

\* A leg that closes keeps types.
LEMMA FinalLegTyped ==
  ASSUME Typed, FinalLeg
  PROVE  Parts'
<1> DEFINE o == mon.obj
           r == AfterLeg(pos[o], mon.lvl)
           q == [pos EXCEPT ![o] = r]
<1>1. Parts
  BY TypedParts
<1>2. /\ UNCHANGED <<up, nobj, deployed, estop, fsell, dDeployed, dStop, dSell, buy, sell>>
      /\ UNCHANGED <<spent, lateBuys, crashes>>
      /\ up /\ mon.pc = "leg"
      /\ pos' = q /\ ClosePosition(mon.mint, q) /\ rows' = Snapshot(positions', q)
      /\ mon' = [MonIdle EXCEPT !.pc = "check", !.todo = mon.todo]
  BY DEF FinalLeg, flagVars
<1> HIDE DEF r, q
<1>3. /\ mon.mint \in Mints /\ q \in [Objs -> Position]
      /\ BookOK(Drop(positions, mon.mint), q, nobj)
  BY <1>2, LegObject DEF r, q
<1>4. positions' = Drop(positions, mon.mint) /\ recorded' \in [Objs -> Nat]
  BY <1>2, <1>3, ClosePositionOK
<1>5. BookOK(positions', pos', nobj) /\ RowsOK(rows', pos', nobj)
  BY <1>1, <1>2, <1>3, <1>4, SnapshotOK DEF Parts
<1>6. MonOK(mon', nobj)
  BY <1>1, <1>2, ConstantFacts DEF Parts, MonOK, MonType, MonIdle
<1>7. FlagTypes' /\ TotalTypes' /\ HistoryTypes' /\ BuyOK' /\ DownOK'
  BY <1>1, <1>2, <1>4 DEF Parts, FlagTypes, TotalTypes, HistoryTypes, BuyOK, DownOK
<1> QED
  BY <1>1, <1>2, <1>3, <1>5, <1>6, <1>7 DEF Parts

\* The death of the process, at any point.
CrashStep ==
  \/ Crash \/ CrashInOpen \/ CrashInPartialLeg \/ CrashInFinalLeg
  \/ \E t \in Sellers : CrashInAbandon(t) \/ CrashInClose(t)

\* What a death leaves of objects, disk and history.
CrashRemains ==
  /\ nobj' \in 0..MaxBuys /\ pos' \in [Objs -> Position] /\ RowsOK(rows', pos', nobj')
  /\ spent' \in [Objs -> Nat] /\ recorded' \in [Objs -> Nat]

\* What a death leaves on disk is well formed.
LEMMA CrashRemainsOK ==
  ASSUME Typed, CrashStep
  PROVE  CrashRemains
<1>1. Parts
  BY TypedParts
<1>2. CASE Crash
  BY <1>1, <1>2 DEF Crash, CrashRemains, Parts, HistoryTypes
<1>3. CASE CrashInOpen
  <2>1. buy.pc # "idle" /\ AddToBook /\ recorded' = recorded
    BY <1>3 DEF CrashInOpen
  <2> QED
    BY <1>1, <2>1, AddToBookOK DEF CrashRemains, Parts, HistoryTypes
<1>4. CASE CrashInPartialLeg
  <2> DEFINE o == mon.obj
             r == AfterLeg(pos[o], mon.lvl)
             q == [pos EXCEPT ![o] = r]
  <2>1. /\ mon.pc = "leg" /\ UNCHANGED <<pos, nobj, rows, spent>>
        /\ recorded' = [recorded EXCEPT ![o] = @ + (pos[o].sol - r.sol)]
    BY <1>4 DEF CrashInPartialLeg
  <2>2. o \in Objs /\ recorded[o] + (pos[o].sol - r.sol) \in Nat
    BY <2>1, LegObject
  <2> HIDE DEF r
  <2> QED
    BY <1>1, <2>1, <2>2 DEF CrashRemains, Parts, HistoryTypes
<1>5. CASE CrashInFinalLeg
  <2> DEFINE o == mon.obj
             r == AfterLeg(pos[o], mon.lvl)
             q == [pos EXCEPT ![o] = r]
  <2>1. /\ mon.pc = "leg" /\ UNCHANGED <<nobj, spent, recorded>>
        /\ pos' = q
        /\ rows' \in {Snapshot(positions, q), Snapshot(Drop(positions, mon.mint), q)}
    BY <1>5 DEF CrashInFinalLeg
  <2> HIDE DEF r, q
  <2>2. /\ mon.mint \in Mints /\ q \in [Objs -> Position]
        /\ BookOK(positions, q, nobj) /\ BookOK(Drop(positions, mon.mint), q, nobj)
    BY <2>1, LegObject DEF r, q
  <2> QED
    BY <1>1, <2>1, <2>2, SnapshotOK DEF CrashRemains, Parts, HistoryTypes
<1>6. ASSUME NEW t \in Sellers, CrashInAbandon(t)
      PROVE  CrashRemains
  <2> DEFINE o == sell[t].obj
             r == AfterFailure(pos[o])
             q == [pos EXCEPT ![o] = r]
  <2>1. /\ sell[t].pc = "selling" /\ UNCHANGED <<nobj, spent, recorded>>
        /\ pos' = q /\ rows' = Snapshot(positions, q)
    BY <1>6 DEF CrashInAbandon
  <2>2. q = [pos EXCEPT ![o] = r]
    OBVIOUS
  <2>3. o \in 1..nobj /\ r \in Position /\ r.mint = pos[o].mint
    <3>1. o \in 1..nobj /\ pos[o] \in Position
      BY <1>1, <2>1, LimitsAssumption DEF Parts, SlotsOK, Objs
    <3> QED
      BY <3>1 DEF AfterFailure, Position
  <2> HIDE DEF r, q
  <2>4. q \in [Objs -> Position] /\ BookOK(positions, q, nobj)
    BY <2>2, <2>3, UpdateOK
  <2> QED
    BY <1>1, <2>1, <2>4, SnapshotOK DEF CrashRemains, Parts, HistoryTypes
<1>7. ASSUME NEW t \in Sellers, CrashInClose(t)
      PROVE  CrashRemains
  <2>1. /\ sell[t].pc = "settling" /\ UNCHANGED <<pos, nobj, spent, recorded>>
        /\ rows' = Snapshot(Drop(positions, sell[t].mint), pos)
    BY <1>7 DEF CrashInClose
  <2>2. sell[t].mint \in Mints
    BY <1>1, <2>1 DEF Parts, SlotsOK
  <2> QED
    BY <1>1, <2>1, <2>2, DropOK, SnapshotOK DEF CrashRemains, Parts, HistoryTypes
<1> QED
  BY <1>2, <1>3, <1>4, <1>5, <1>6, <1>7 DEF CrashStep

\* A death between any two writes keeps types.
LEMMA CrashStepTyped ==
  ASSUME Typed, CrashStep
  PROVE  Parts'
<1>1. Parts
  BY TypedParts
<1>2. PICK torn : /\ Die(torn)
                  /\ positions' = [m \in Mints |-> None] /\ dDeployed' = dDeployed
  BY DEF CrashStep, Crash, CrashInOpen, CrashInPartialLeg, CrashInFinalLeg, CrashInAbandon,
         CrashInClose
<1>3. CrashRemains
  BY CrashRemainsOK
<1>4. FlagTypes'
  BY <1>1, <1>2 DEF Die, Parts, FlagTypes
<1>5. TotalTypes'
  BY <1>1, <1>2 DEF Die, Parts, TotalTypes
<1>6. HistoryTypes'
  BY <1>1, <1>2, <1>3, LimitsAssumption DEF Die, Parts, HistoryTypes, CrashRemains
<1>7. BookOK(positions', pos', nobj')
  BY <1>2, <1>3, ConstantFacts DEF BookOK, CrashRemains
<1>8. BuyOK'
  BY <1>2 DEF Die, BuyOK, BuyIdle
<1>9. MonOK(mon', nobj') /\ SlotsOK(sell', nobj')
  BY <1>2, ConstantFacts DEF Die, MonOK, SlotsOK, MonIdle, SellIdle, MonType, SellType
<1>10. DownOK'
  BY <1>2 DEF Die, DownOK, BuyIdle, MonIdle, SellIdle
<1> QED
  BY <1>3, <1>4, <1>5, <1>6, <1>7, <1>8, <1>9, <1>10 DEF CrashRemains, Parts

\* A restart rebuilds a well-formed book.
LEMMA RestartTyped ==
  ASSUME Typed, Restart
  PROVE  Parts'
<1>1. Parts
  BY TypedParts
<1>2. /\ ~up /\ up' = TRUE
      /\ UNCHANGED <<nobj, rows, dDeployed, dStop, dSell, buy, mon, sell, spent, recorded>>
      /\ UNCHANGED <<lateBuys, crashes>>
      /\ positions' = [m \in Mints |-> rows[m].obj]
      /\ deployed' = dDeployed /\ estop' = dStop /\ fsell' = dSell
  BY DEF Restart, diskVars, taskVars, histVars
<1>3. pos' \in [Objs -> Position] /\ \A o \in Objs : pos'[o].mint = pos[o].mint
  <2>1. ASSUME NEW o \in Objs
        PROVE  /\ pos'[o] \in Position
               /\ pos'[o].mint = pos[o].mint
    <3>1. CASE pos[o].mint \in Mints /\ rows[pos[o].mint].obj = o
      <4>1. pos'[o] = rows[pos[o].mint].rec
        BY <3>1 DEF Restart
      <4>2. rows[pos[o].mint] \in Row /\ rows[pos[o].mint].obj # None
        BY <1>1, <3>1 DEF Parts, RowsOK, None, Objs
      <4> QED
        BY <1>1, <3>1, <4>1, <4>2 DEF Parts, RowsOK, Row
    <3>2. CASE ~(pos[o].mint \in Mints /\ rows[pos[o].mint].obj = o)
      <4>1. pos'[o] = pos[o]
        BY <3>2 DEF Restart
      <4> QED
        BY <1>1, <4>1 DEF Parts
    <3> QED
      BY <3>1, <3>2
  <2>2. pos' = [o \in Objs |-> pos'[o]]
    BY DEF Restart
  <2> QED
    BY <2>1, <2>2
<1>4. RowsOK(rows', pos', nobj') /\ BookOK(positions', pos', nobj')
  <2>1. ASSUME NEW m \in Mints
        PROVE  /\ rows[m] \in Row /\ rows[m].obj \in 0..nobj
               /\ rows[m].obj # None =>
                    /\ rows[m].obj \in 1..nobj /\ pos'[rows[m].obj].mint = m
                    /\ rows[m].rec.mint = m
    <3>1. rows[m].obj # None => rows[m].obj \in Objs
      BY <1>1, LimitsAssumption DEF Parts, RowsOK, Objs
    <3> QED
      BY <1>1, <1>3, <3>1 DEF Parts, RowsOK, None
  <2> QED
    BY <1>1, <1>2, <2>1, LimitsAssumption DEF Parts, BookOK, RowsOK, Row
<1>5. FlagTypes'
  BY <1>1, <1>2 DEF Parts, FlagTypes
<1>6. TotalTypes' /\ HistoryTypes'
  BY <1>1, <1>2 DEF Parts, TotalTypes, HistoryTypes
<1>7. BuyOK' /\ MonOK(mon', nobj') /\ SlotsOK(sell', nobj') /\ DownOK'
  BY <1>1, <1>2 DEF Parts, BuyOK, MonOK, SlotsOK, DownOK
<1> QED
  BY <1>1, <1>2, <1>3, <1>4, <1>5, <1>6, <1>7 DEF Parts

\* A stuttering step keeps types.
LEMMA StutterTyped ==
  ASSUME Typed, UNCHANGED vars
  PROVE  Parts'
  BY TypedParts DEF vars, memVars, flagVars, diskVars, taskVars, histVars, Parts, FlagTypes,
     TotalTypes, HistoryTypes, BookOK, RowsOK, BuyOK, MonOK, SlotsOK, DownOK

\* Every step, sorted by what it may change.
LEMMA NextCases ==
  [Next]_vars =>
    \/ \E m \in Mints : TakeToken(m)
    \/ AdmitBuy \/ RejectBuy \/ SubmitBuy \/ BuyFails \/ BuyNeedsResolving \/ ResolveFails
    \/ BuyConfirmed \/ BuyResolved
    \/ TickStep \/ FlagStep \/ SellStep \/ EndStep
    \/ PartialLeg \/ FinalLeg \/ CrashStep \/ Restart
    \/ UNCHANGED vars
  BY DEF Next, TradeLoop, MonitorLoop, ForceSell, TickStep, FlagStep, SellStep, EndStep, CrashStep

\* Every step keeps Typed.
LEMMA TypedStep == Typed /\ [Next]_vars => Typed'
<1> SUFFICES ASSUME Typed, [Next]_vars
             PROVE  Parts'
  BY TypedPartsNext
<1>1. CASE AdmitBuy \/ RejectBuy \/ SubmitBuy \/ BuyFails \/ BuyNeedsResolving \/ ResolveFails
  <2>1. buy.pc # "idle"
    BY <1>1 DEF AdmitBuy, RejectBuy, SubmitBuy, BuyFails, BuyNeedsResolving, ResolveFails
  <2>2. PICK m \in Mints : TRUE
    BY <2>1, TypedParts DEF Parts, BuyOK
  <2> QED
    BY <1>1, BuyStepTyped
<1> QED
  BY <1>1, NextCases, BuyStepTyped, OpenStepTyped, TickStepTyped, FlagStepTyped, SellStepTyped,
     EndStepTyped, PartialLegTyped, FinalLegTyped, CrashStepTyped, RestartTyped, StutterTyped

\* Type correctness of the whole engine: no step of any task, and no death or
\* restart, gives a variable a value outside its type.
THEOREM TypeCorrect == Spec => []TypeOK
<1>1. Typed => TypeOK
  BY DEF Typed
<1> QED
  BY <1>1, TypedInit, TypedStep, PTL DEF Spec
=============================================================================
