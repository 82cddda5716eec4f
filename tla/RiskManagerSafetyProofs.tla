--------------------- MODULE RiskManagerSafetyProofs ---------------------
(***************************************************************************)
(* The safety invariants of RiskManager, each from a strengthening of its  *)
(* own that every step preserves, given Typed.                             *)
(***************************************************************************)
EXTENDS RiskManagerTypeProofs

---------------------------------------------------------------------------
(* The cap on open positions.  By itself it is not inductive: the count is   *)
(* taken before the buy, so a buy in flight must be known to leave room, and *)
(* a restart refills the book from disk, so the rows on disk must obey the   *)
(* cap as well.                                                              *)

Admitted == buy.pc \in {"sizing", "buying", "resolving"}

OnDisk == {m \in Mints : rows[m].obj # None}

CapInv ==
  /\ Cardinality(Open) <= MaxOpenPositions
  /\ Cardinality(OnDisk) <= MaxOpenPositions
  /\ Admitted => Cardinality(Open) < MaxOpenPositions

\* The open part of any book is finite.
LEMMA FiniteBook ==
  /\ IsFiniteSet(Open) /\ Cardinality(Open) \in Nat
  /\ IsFiniteSet(OnDisk) /\ Cardinality(OnDisk) \in Nat
<1>1. Open \in SUBSET Mints /\ OnDisk \in SUBSET Mints
  BY DEF Open, OnDisk
<1> QED
  BY <1>1, MintsAssumption, FS_Subset, FS_CardinalityType

\* The steps that put nothing into the book.
Shrinks ==
  /\ \A m \in Mints : positions'[m] # None => positions[m] # None
  /\ \/ \A m \in Mints : rows'[m].obj # None => rows[m].obj # None
     \/ \A m \in Mints : rows'[m].obj # None => positions[m] # None
  /\ Admitted' => Admitted

\* A step that does not widen the book, its file or the admission keeps the cap.
LEMMA ShrinksCap ==
  ASSUME CapInv, Shrinks
  PROVE  CapInv'
<1>1. Open' \in SUBSET Open
  BY DEF Shrinks, Open
<1>2. Cardinality(Open') <= Cardinality(Open) /\ Cardinality(Open') \in Nat
  BY <1>1, FiniteBook, FS_Subset, FS_CardinalityType
<1>3. Cardinality(OnDisk') <= MaxOpenPositions
  <2>1. CASE OnDisk' \in SUBSET OnDisk
    <3>1. Cardinality(OnDisk') <= Cardinality(OnDisk) /\ Cardinality(OnDisk') \in Nat
      BY <2>1, FiniteBook, FS_Subset, FS_CardinalityType
    <3> QED
      BY <3>1, FiniteBook, LimitsAssumption DEF CapInv
  <2>2. CASE OnDisk' \in SUBSET Open
    <3>1. Cardinality(OnDisk') <= Cardinality(Open) /\ Cardinality(OnDisk') \in Nat
      BY <2>2, FiniteBook, FS_Subset, FS_CardinalityType
    <3> QED
      BY <3>1, FiniteBook, LimitsAssumption DEF CapInv
  <2> QED
    BY <2>1, <2>2 DEF Shrinks, OnDisk, Open
<1> QED
  BY <1>2, <1>3, FiniteBook, LimitsAssumption DEF CapInv, Shrinks

\* A snapshot has a row exactly for each open position.
LEMMA SnapshotRows ==
  ASSUME NEW p, NEW q, NEW m \in Mints, Snapshot(p, q)[m].obj # None
  PROVE  p[m] # None
  BY DEF Snapshot, NoRow, None

\* Dropping a mint opens none.
LEMMA DropRows ==
  ASSUME Typed, NEW x \in Mints, NEW m \in Mints, Drop(positions, x)[m] # None
  PROVE  positions[m] # None
  BY TypedParts DEF Parts, BookOK, Drop

\* Steps that open nothing and save nothing widen nothing.
LEMMA QuietShrinks ==
  ASSUME Typed,
         TickStep \/ FlagStep \/ SellStep \/ RejectBuy \/ SubmitBuy \/ BuyFails
         \/ BuyNeedsResolving \/ ResolveFails \/ UNCHANGED vars
         \/ (\E m \in Mints : TakeToken(m))
  PROVE  Shrinks
<1>1. CASE SellStep
  BY <1>1, SellStepFrame, DropRows DEF Shrinks, Admitted
<1>2. CASE TickStep
  BY <1>2 DEF TickStep, ResumeForceSell, NoEmergency, EmergencyDone, ChecksDone, CheckMissing,
     SellLands, memVars, diskVars, Shrinks, Admitted
<1>3. CASE FlagStep
  BY <1>3 DEF FlagStep, TripEmergency, WebStop, WebResume, memVars, taskVars, Shrinks, Admitted
<1>4. CASE RejectBuy \/ SubmitBuy \/ BuyFails \/ BuyNeedsResolving \/ ResolveFails
           \/ (\E m \in Mints : TakeToken(m)) \/ UNCHANGED vars
  <2>1. UNCHANGED <<positions, rows>>
    BY <1>4 DEF RejectBuy, SubmitBuy, BuyFails, BuyNeedsResolving, ResolveFails, TakeToken, vars,
       memVars, diskVars
  <2>2. Admitted' => Admitted
    <3>1. CASE SubmitBuy \/ BuyNeedsResolving
      BY <3>1 DEF SubmitBuy, BuyNeedsResolving, Admitted
    <3>2. CASE RejectBuy \/ BuyFails \/ ResolveFails \/ (\E m \in Mints : TakeToken(m))
      <4>1. buy'.pc \in {"idle", "pausing"}
        <5>1. ASSUME NEW m \in Mints, TakeToken(m)
              PROVE  buy'.pc = "pausing"
          BY <5>1 DEF TakeToken, BuyIdle
        <5>2. CASE RejectBuy \/ BuyFails \/ ResolveFails
          BY <5>2 DEF RejectBuy, BuyFails, ResolveFails, BuyIdle
        <5> QED
          BY <3>2, <5>1, <5>2
      <4> QED
        BY <4>1 DEF Admitted
    <3>3. CASE UNCHANGED vars
      BY <3>3 DEF vars, taskVars, Admitted
    <3> QED
      BY <1>4, <3>1, <3>2, <3>3
  <2> QED
    BY <2>1, <2>2 DEF Shrinks
<1> QED
  BY <1>1, <1>2, <1>3, <1>4

\* Steps that save the book write only what it holds.
LEMMA SaveShrinks ==
  ASSUME Typed, EndStep \/ PartialLeg \/ FinalLeg
  PROVE  Shrinks
<1>1. Parts
  BY TypedParts
<1>2. CASE EndStep
  <2>1. PICK t \in Sellers : SellFails(t) \/ Settle(t)
    BY <1>2 DEF EndStep
  <2>2. sell[t].mint \in Mints
    BY <1>1, <2>1 DEF SellFails, Settle, Parts, SlotsOK
  <2>3. /\ positions' \in {positions, Drop(positions, sell[t].mint)}
        /\ rows' = rows \/ \E q : rows' = Snapshot(positions', q)
        /\ buy' = buy
    BY <2>1 DEF SellFails, Settle, ClosePosition
  <2>4. \A m \in Mints : positions'[m] # None => positions[m] # None
    BY <2>2, <2>3, DropRows
  <2>5. \/ \A m \in Mints : rows'[m].obj # None => rows[m].obj # None
        \/ \A m \in Mints : rows'[m].obj # None => positions[m] # None
    BY <2>3, <2>4, SnapshotRows
  <2> QED
    BY <2>3, <2>4, <2>5 DEF Shrinks, Admitted
<1>3. CASE PartialLeg
  <2>1. /\ mon.mint \in Mints /\ mon.obj \in 1..nobj /\ mon.todo \in SUBSET Mints
        /\ buy' = buy
        /\ \E q : rows' = Snapshot(positions, q)
    BY <1>1, <1>3 DEF PartialLeg, Parts, MonOK, MonType
  <2>2. positions' \in {positions, Drop(positions, mon.mint)}
    BY <1>3 DEF PartialLeg, ContinueCheck, BeginForceSell
  <2> QED
    BY <2>1, <2>2, DropRows, SnapshotRows DEF Shrinks, Admitted
<1>4. CASE FinalLeg
  <2>1. /\ mon.mint \in Mints /\ buy' = buy
        /\ positions' = Drop(positions, mon.mint)
        /\ \E q : rows' = Snapshot(positions', q)
    BY <1>1, <1>4 DEF FinalLeg, ClosePosition, Parts, MonOK
  <2> QED
    BY <2>1, DropRows, SnapshotRows DEF Shrinks, Admitted
<1> QED
  BY <1>2, <1>3, <1>4

\* Adding one mint to a book below the limit stays within it.
LEMMA RoomForOne ==
  ASSUME CapInv, Admitted, NEW x
  PROVE  /\ IsFiniteSet(Open \cup {x})
         /\ Cardinality(Open \cup {x}) \in Nat
         /\ Cardinality(Open \cup {x}) <= MaxOpenPositions
<1>1. Cardinality(Open) < MaxOpenPositions /\ Cardinality(Open) + 1 <= MaxOpenPositions
  BY FiniteBook, LimitsAssumption DEF CapInv
<1>2. /\ IsFiniteSet(Open \cup {x})
      /\ Cardinality(Open \cup {x}) \in {Cardinality(Open), Cardinality(Open) + 1}
  BY FiniteBook, FS_AddElement
<1> QED
  BY <1>1, <1>2, FiniteBook, LimitsAssumption

\* Every step keeps the cap's invariant.
LEMMA CapStep == Typed /\ CapInv /\ [Next]_vars => CapInv'
<1> SUFFICES ASSUME Typed, CapInv, [Next]_vars
             PROVE  CapInv'
  OBVIOUS
<1> USE LimitsAssumption
<1>1. Parts
  BY TypedParts
<1>2. CASE AdmitBuy
  BY <1>2 DEF AdmitBuy, WithinLimits, memVars, diskVars, CapInv, Open, OnDisk
<1>3. CASE BuyConfirmed \/ BuyResolved
  <2>1. /\ Admitted /\ buy.mint \in Mints
        /\ positions' = [positions EXCEPT ![buy.mint] = nobj + 1]
        /\ \E q : rows' = Snapshot(positions', q)
        /\ ~Admitted'
    BY <1>1, <1>3 DEF BuyConfirmed, BuyResolved, OpenPosition, AddToBook, Admitted, BuyIdle,
       Parts, BuyOK
  <2>2. Open' \in SUBSET (Open \cup {buy.mint}) /\ OnDisk' \in SUBSET (Open \cup {buy.mint})
    <3>1. \A m \in Mints : m # buy.mint => positions'[m] = positions[m]
      BY <1>1, <2>1 DEF Parts, BookOK
    <3>2. Open' \subseteq Open \cup {buy.mint}
      BY <3>1 DEF Open
    <3>3. OnDisk' \subseteq Open'
      BY <2>1, SnapshotRows DEF OnDisk, Open
    <3> QED
      BY <3>2, <3>3
  <2>3. /\ IsFiniteSet(Open \cup {buy.mint})
        /\ Cardinality(Open \cup {buy.mint}) \in Nat
        /\ Cardinality(Open \cup {buy.mint}) <= MaxOpenPositions
    BY <2>1, RoomForOne
  <2>4. /\ Cardinality(Open') <= Cardinality(Open \cup {buy.mint}) /\ Cardinality(Open') \in Nat
        /\ Cardinality(OnDisk') <= Cardinality(Open \cup {buy.mint})
        /\ Cardinality(OnDisk') \in Nat
    BY <2>2, <2>3, FS_Subset, FS_CardinalityType
  <2> QED
    BY <2>1, <2>3, <2>4 DEF CapInv
<1>4. CASE CrashStep
  <2>1. /\ positions' = [m \in Mints |-> None] /\ buy' = BuyIdle
    BY <1>4 DEF CrashStep, Crash, CrashInOpen, CrashInPartialLeg, CrashInFinalLeg,
       CrashInAbandon, CrashInClose, Die
  <2>2. Open' = {} /\ ~Admitted'
    BY <2>1 DEF Open, Admitted, BuyIdle
  <2>3. CASE CrashInOpen
    <3>1. /\ Admitted /\ buy.mint \in Mints
          /\ \E q : rows' = Snapshot([positions EXCEPT ![buy.mint] = nobj + 1], q)
      BY <1>1, <2>3 DEF CrashInOpen, AddToBook, Admitted, Parts, BuyOK
    <3>2. OnDisk' \in SUBSET (Open \cup {buy.mint})
      <4> DEFINE p == [positions EXCEPT ![buy.mint] = nobj + 1]
      <4>1. \A m \in Mints : m # buy.mint => p[m] = positions[m]
        BY <1>1 DEF Parts, BookOK
      <4>2. \A m \in Mints : rows'[m].obj # None => p[m] # None
        BY <3>1, SnapshotRows
      <4> QED
        BY <4>1, <4>2 DEF OnDisk, Open
    <3>3. /\ IsFiniteSet(Open \cup {buy.mint})
          /\ Cardinality(Open \cup {buy.mint}) \in Nat
          /\ Cardinality(Open \cup {buy.mint}) <= MaxOpenPositions
      BY <3>1, RoomForOne
    <3>4. /\ Cardinality(OnDisk') <= Cardinality(Open \cup {buy.mint})
          /\ Cardinality(OnDisk') \in Nat
      BY <3>2, <3>3, FS_Subset, FS_CardinalityType
    <3> QED
      BY <2>2, <3>3, <3>4, FS_EmptySet DEF CapInv
  <2>4. CASE ~CrashInOpen
    <3>1. \/ rows' = rows
          \/ \E q : rows' = Snapshot(positions, q)
          \/ \E q, x : x \in Mints /\ rows' = Snapshot(Drop(positions, x), q)
      BY <1>1, <1>4, <2>4 DEF CrashStep, Crash, CrashInPartialLeg, CrashInFinalLeg,
         CrashInAbandon, CrashInClose, Parts, MonOK, SlotsOK
    <3>2. \/ \A m \in Mints : rows'[m].obj # None => rows[m].obj # None
          \/ \A m \in Mints : rows'[m].obj # None => positions[m] # None
      BY <3>1, SnapshotRows, DropRows
    <3>3. Shrinks
      BY <2>1, <2>2, <3>2 DEF Shrinks
    <3> QED
      BY <3>3, ShrinksCap
  <2> QED
    BY <2>3, <2>4
<1>5. CASE Restart
  <2>1. /\ positions' = [m \in Mints |-> rows[m].obj] /\ rows' = rows /\ buy' = buy
        /\ buy.pc = "idle"
    BY <1>1, <1>5 DEF Restart, diskVars, taskVars, Parts, DownOK
  <2>2. Open' = OnDisk /\ OnDisk' = OnDisk /\ ~Admitted'
    BY <2>1 DEF Open, OnDisk, Admitted
  <2> QED
    BY <2>2 DEF CapInv
<1> QED
  BY <1>2, <1>3, <1>4, <1>5, NextCases, QuietShrinks, SaveShrinks, ShrinksCap

\* An empty book is within the cap.
LEMMA CapInit == Init => CapInv
<1> SUFFICES ASSUME Init PROVE CapInv
  OBVIOUS
<1>1. Open = {} /\ OnDisk = {} /\ ~Admitted
  BY DEF Init, Open, OnDisk, Admitted, NoRow, BuyIdle
<1> QED
  BY <1>1, FS_EmptySet, LimitsAssumption DEF CapInv

\* MAX_OPEN_POSITIONS is never exceeded, whatever happens between the count
\* and the end of the buy, and whenever the process dies.
THEOREM PositionsCapped == Spec => []PositionCap
<1>1. Init => CapInv
  BY CapInit
<1>2. CapInv => PositionCap
  BY DEF CapInv, PositionCap
<1> QED
  BY <1>1, <1>2, TypedInit, TypedStep, CapStep, PTL DEF Spec

---------------------------------------------------------------------------
(* The lifetime cap of a symbol.  What its positions cost is not written     *)
(* down as such: the invariant relates it to the total on disk, which misses *)
(* at most one opening per torn death, and each opening fits into the cap.   *)
(* Of a buy in flight it needs to be known that the total still has room for *)
(* it: the total grows only when the buy is over, and nothing else may use   *)
(* the room meanwhile.                                                       *)

InFlight == buy.pc \in {"buying", "resolving"}

\* The room of the openings of symbol s that deaths have torn.
Torn(s) == crashes.torn[s] * (2 * SymbolCap + Tick)

LifeInv ==
  /\ \A s \in Symbols : /\ 2 * dDeployed[s] <= 2 * SymbolCap + Tick
                        /\ 2 * (Given(s) - dDeployed[s]) <= Torn(s)
  /\ up => deployed = dDeployed
  /\ InFlight => 2 * (dDeployed[SymbolOf[buy.mint]] + buy.amt) <= 2 * SymbolCap + Tick

\* The share of one object in what a symbol was given.
Share(s) == [o \in Objs |-> IF o <= nobj /\ SymbolOf[pos[o].mint] = s THEN spent[o] ELSE 0]

LEMMA ShareType ==
  ASSUME Typed, NEW s
  PROVE  /\ IsFiniteSet(Objs) /\ Given(s) = SumOver(Share(s), Objs)
         /\ \A o \in Objs : Share(s)[o] \in Nat
         /\ Given(s) \in Nat
<1>1. spent \in [Objs -> Nat] /\ MaxBuys \in Nat
  BY TypedParts, LimitsAssumption DEF Parts, HistoryTypes
<1>2. IsFiniteSet(Objs)
  BY <1>1, FS_Interval DEF Objs
<1>3. Given(s) = SumOver(Share(s), Objs)
  BY DEF Given, Share
<1>4. \A o \in Objs : Share(s)[o] \in Nat
  BY <1>1 DEF Share
<1> QED
  BY <1>2, <1>3, <1>4, SumType

\* The objects keep their mints.
MintsKept == \A o \in 1..nobj : pos'[o].mint = pos[o].mint

\* A step that opens nothing gives nothing to any symbol.
LEMMA NothingGiven ==
  ASSUME Typed, UNCHANGED <<nobj, spent>>, MintsKept, NEW s
  PROVE  Given(s)' = Given(s)
<1>1. \A o \in Objs : Share(s)'[o] = Share(s)[o]
  <2>1. \A o \in Objs : o <= nobj => o \in 1..nobj
    BY TypedParts DEF Parts, Objs
  <2> QED
    BY <2>1 DEF Share, MintsKept
<1>2. Given(s)' = SumOver(Share(s)', Objs)
  BY DEF Given, Share
<1>3. \A o \in Objs : Share(s)[o] \in Int
  BY ShareType
<1> DEFINE f == Share(s)
           h == Share(s)'
<1> HIDE DEF f, h
<1>4. SumOver(f, Objs) = SumOver(h, Objs)
  BY <1>1, <1>3, ShareType, SumSame DEF f, h
<1> QED
  BY <1>2, <1>4, ShareType DEF f, h

\* An opening gives the admitted amount to the symbol of its mint.
LEMMA OpeningGiven ==
  ASSUME Typed, InFlight, AddToBook, NEW s
  PROVE  Given(s)' = Given(s) + (IF SymbolOf[buy.mint] = s THEN buy.amt ELSE 0)
<1>1. Parts
  BY TypedParts
<1> DEFINE k == nobj + 1
<1>2. /\ k \in Objs /\ nobj \in Nat /\ nobj' = k /\ buy.amt \in Nat
      /\ pos' = [pos EXCEPT ![k] = [mint |-> buy.mint, sol |-> buy.amt, tok |-> BoughtTokens,
                                    tp |-> {}, att |-> 0]]
      /\ spent' = [spent EXCEPT ![k] = buy.amt]
      /\ pos \in [Objs -> Position] /\ spent \in [Objs -> Nat]
  BY <1>1, LimitsAssumption DEF AddToBook, Parts, BuyOK, InFlight, Objs, HistoryTypes
<1>3. Share(s)[k] = 0
  BY <1>2 DEF Share
<1>4. Share(s)'[k] = IF SymbolOf[buy.mint] = s THEN buy.amt ELSE 0
  BY <1>2 DEF Share
<1>5. \A o \in Objs : o # k => Share(s)'[o] = Share(s)[o]
  <2>1. \A o \in Objs : o # k => (o <= k <=> o <= nobj)
    BY <1>2 DEF Objs
  <2> QED
    BY <1>2, <2>1 DEF Share
<1>6. \A o \in Objs : Share(s)[o] \in Int /\ Share(s)'[o] \in Int
  BY <1>2, <1>4, <1>5, ShareType
<1>7. Given(s)' = SumOver(Share(s)', Objs)
  BY DEF Given, Share
<1> DEFINE f == Share(s)
           h == Share(s)'
<1> HIDE DEF f, h, k
<1>8. SumOver(h, Objs) = SumOver(f, Objs) + h[k] - f[k]
  BY <1>2, <1>5, <1>6, ShareType, SumChange DEF f, h
<1>9. SumOver(f, Objs) \in Int /\ h[k] \in Int
  BY <1>2, <1>6, ShareType DEF f, h
<1> QED
  BY <1>3, <1>4, <1>7, <1>8, <1>9, ShareType DEF f, h

\* Steps that touch neither totals nor the buy keep the totals' invariant.
LEMMA LifeFrame ==
  ASSUME Typed, LifeInv, UNCHANGED <<up, deployed, dDeployed, nobj, spent, crashes>>, MintsKept,
         \/ buy'.pc \notin {"buying", "resolving"}
         \/ InFlight /\ buy'.mint = buy.mint /\ buy'.amt = buy.amt
  PROVE  LifeInv'
<1>1. \A s \in Symbols : Given(s)' = Given(s) /\ Torn(s)' = Torn(s)
  BY NothingGiven DEF Torn
<1> QED
  BY <1>1 DEF LifeInv, InFlight

\* No step changes the mint of an object.
LEMMA ObjectsKeepMints ==
  ASSUME Typed, EndStep \/ PartialLeg \/ FinalLeg \/ CrashStep \/ Restart
  PROVE  MintsKept
<1>1. Parts /\ \A o \in 1..nobj : o \in Objs /\ o # nobj + 1
  BY TypedParts, LimitsAssumption DEF Parts, Objs
<1>2. ASSUME NEW o \in Objs, NEW r, r.mint = pos[o].mint, pos' = [pos EXCEPT ![o] = r]
      PROVE  MintsKept
  BY <1>1, <1>2 DEF MintsKept, Parts
<1>3. ASSUME NEW t \in Sellers, SellFails(t) \/ CrashInAbandon(t)
      PROVE  MintsKept
  <2> DEFINE o == sell[t].obj
             r == AfterFailure(pos[o])
  <2>1. sell[t].pc = "selling" /\ pos' = [pos EXCEPT ![o] = r]
    BY <1>3 DEF SellFails, CrashInAbandon
  <2>2. o \in Objs /\ pos[o] \in Position
    BY <1>1, <2>1 DEF Parts, SlotsOK
  <2>3. r.mint = pos[o].mint
    BY <2>2 DEF AfterFailure, Position
  <2> HIDE DEF o, r
  <2> QED
    BY <1>2, <2>1, <2>2, <2>3
<1>4. CASE PartialLeg \/ FinalLeg \/ CrashInFinalLeg
  <2> DEFINE o == mon.obj
             r == AfterLeg(pos[o], mon.lvl)
  <2>1. mon.pc = "leg" /\ pos' = [pos EXCEPT ![o] = r]
    BY <1>4 DEF PartialLeg, FinalLeg, CrashInFinalLeg
  <2>2. o \in Objs /\ r.mint = pos[o].mint
    BY <2>1, LegObject
  <2> HIDE DEF o, r
  <2> QED
    BY <1>2, <2>1, <2>2
<1>5. CASE CrashInOpen
  <2>1. \A o \in 1..nobj : pos'[o] = pos[o]
    BY <1>1, <1>5 DEF CrashInOpen, AddToBook, Parts
  <2> QED
    BY <2>1 DEF MintsKept
<1>6. CASE Restart
  <2>1. ASSUME NEW o \in 1..nobj
        PROVE  pos'[o].mint = pos[o].mint
    <3> DEFINE m == pos[o].mint
    <3>1. pos'[o] = IF m \in Mints /\ rows[m].obj = o THEN rows[m].rec ELSE pos[o]
      BY <1>1, <1>6 DEF Restart
    <3>2. m \in Mints /\ rows[m].obj = o => rows[m].rec.mint = m
      BY <1>1 DEF Parts, RowsOK, None
    <3> QED
      BY <3>1, <3>2
  <2> QED
    BY <2>1 DEF MintsKept
<1>7. ASSUME pos' = pos
      PROVE  MintsKept
  BY <1>7 DEF MintsKept
<1>8. \/ \E t \in Sellers : SellFails(t) \/ CrashInAbandon(t)
      \/ PartialLeg \/ FinalLeg \/ CrashInFinalLeg \/ CrashInOpen \/ Restart
      \/ pos' = pos
  BY DEF EndStep, Settle, CrashStep, Crash, CrashInPartialLeg, CrashInClose
<1> QED
  BY <1>3, <1>4, <1>5, <1>6, <1>7, <1>8

\* An admitted amount fits into its symbol's room up to half a Tick.
LEMMA SubmitLife ==
  ASSUME Typed, LifeInv, SubmitBuy
  PROVE  LifeInv'
<1> DEFINE s == SymbolOf[buy.mint]
<1>1. Parts
  BY TypedParts
<1>2. /\ up /\ UNCHANGED <<up, deployed, dDeployed, pos, nobj, spent, crashes>>
      /\ buy.pc = "sizing" /\ buy.mint \in Mints /\ s \in Symbols /\ buy.expo \in Nat
      /\ deployed \in [Symbols -> Nat] /\ deployed = dDeployed
  BY <1>1, ConstantFacts DEF SubmitBuy, memVars, diskVars, Parts, BuyOK, TotalTypes, LifeInv
<1>3. MintsKept
  BY <1>2 DEF MintsKept
<1>4. PICK base \in BaseSizes :
        LET size == SizeOf(base, buy.expo, s) IN
        \/ /\ size >= MinViable
           /\ \E amt \in RoundedTo(size) :
                buy' = [buy EXCEPT !.pc = "buying", !.expo = 0, !.amt = amt]
        \/ buy' = BuyIdle
  BY DEF SubmitBuy
<1> DEFINE size == SizeOf(base, buy.expo, s)
<1>5. size \in Int /\ (size > 0 => size <= SymbolCap - deployed[s])
  BY <1>2, SizeBounds, AmountsAssumption
<1>6. CASE buy' = BuyIdle
  <2>1. buy'.pc = "idle"
    BY <1>6 DEF BuyIdle
  <2> QED
    BY <1>2, <1>3, <2>1, LifeFrame
<1>7. ASSUME size >= MinViable, NEW amt \in RoundedTo(size),
             buy' = [buy EXCEPT !.pc = "buying", !.expo = 0, !.amt = amt]
      PROVE  LifeInv'
  <2>1. buy'.mint = buy.mint /\ buy'.amt = amt
    BY <1>1, <1>7 DEF Parts, BuyOK
  <2> HIDE DEF size
  <2>2. size <= SymbolCap - deployed[s] /\ 2 * (amt - size) <= Tick /\ amt \in Int
    BY <1>5, <1>7, AmountsAssumption DEF RoundedTo
  <2>3. 2 * (dDeployed[s] + amt) <= 2 * SymbolCap + Tick
    BY <1>2, <1>5, <2>2, AmountsAssumption
  <2>4. \A x \in Symbols : Given(x)' = Given(x) /\ Torn(x)' = Torn(x)
    BY <1>2, <1>3, NothingGiven DEF Torn
  <2> HIDE DEF s
  <2> QED
    BY <1>2, <2>1, <2>3, <2>4 DEF LifeInv, s
<1> QED
  BY <1>4, <1>6, <1>7

\* An opening moves the admitted amount into its symbol's total.
LEMMA OpenLife ==
  ASSUME Typed, LifeInv, BuyConfirmed \/ BuyResolved
  PROVE  LifeInv'
<1> DEFINE s == SymbolOf[buy.mint]
<1>1. Parts
  BY TypedParts
<1>2. InFlight /\ OpenPosition /\ up /\ UNCHANGED <<up, crashes>>
  BY DEF BuyConfirmed, BuyResolved, InFlight
<1>3. /\ buy.mint \in Mints /\ s \in Symbols /\ buy.amt \in Nat
      /\ deployed \in [Symbols -> Nat] /\ deployed = dDeployed
  BY <1>1, <1>2, ConstantFacts DEF Parts, BuyOK, TotalTypes, InFlight, LifeInv
<1>4. /\ deployed' = [deployed EXCEPT ![s] = deployed[s] + buy.amt] /\ dDeployed' = deployed'
      /\ buy' = BuyIdle /\ AddToBook
  BY <1>2 DEF OpenPosition
<1>5. 2 * (dDeployed[s] + buy.amt) <= 2 * SymbolCap + Tick
  BY <1>2 DEF LifeInv
<1>6. ~InFlight'
  BY <1>4 DEF InFlight, BuyIdle
<1>7. ASSUME NEW x \in Symbols
      PROVE  /\ 2 * dDeployed'[x] <= 2 * SymbolCap + Tick
             /\ 2 * (Given(x)' - dDeployed'[x]) <= Torn(x)'
  <2>1. 2 * dDeployed'[x] <= 2 * SymbolCap + Tick
    BY <1>3, <1>4, <1>5 DEF LifeInv
  <2>2. Given(x)' = Given(x) + (IF s = x THEN buy.amt ELSE 0) /\ Given(x) \in Nat
    BY <1>2, <1>4, OpeningGiven, ShareType
  <2>3. dDeployed'[x] = dDeployed[x] + (IF s = x THEN buy.amt ELSE 0) /\ dDeployed[x] \in Nat
    BY <1>3, <1>4
  <2>4. Given(x)' - dDeployed'[x] = Given(x) - dDeployed[x]
    BY <1>3, <2>2, <2>3
  <2>5. Torn(x)' = Torn(x)
    BY <1>2 DEF Torn
  <2> QED
    BY <2>1, <2>4, <2>5 DEF LifeInv
<1> QED
  BY <1>4, <1>6, <1>7 DEF LifeInv

\* A torn opening gives a symbol, once, what the total on disk misses.
LEMMA CrashLife ==
  ASSUME Typed, LifeInv, CrashStep
  PROVE  LifeInv'
<1>1. Parts
  BY TypedParts
<1>2. PICK torn : Die(torn) /\ dDeployed' = dDeployed
  BY DEF CrashStep, Crash, CrashInOpen, CrashInPartialLeg, CrashInFinalLeg, CrashInAbandon,
     CrashInClose
<1>3. ~up' /\ ~InFlight'
  BY <1>2 DEF Die, InFlight, BuyIdle
<1>4. SymbolCap \in Nat /\ Tick \in Nat /\ 0 <= 2 * SymbolCap + Tick
  BY AmountsAssumption
<1>5. CASE ~CrashInOpen
  <2>1. UNCHANGED <<nobj, spent>> /\ MintsKept /\ Die({})
    BY <1>5, ObjectsKeepMints DEF CrashStep, Crash, CrashInPartialLeg, CrashInFinalLeg,
       CrashInAbandon, CrashInClose
  <2>2. \A s \in Symbols : Given(s)' = Given(s) /\ Torn(s)' = Torn(s)
    BY <2>1, NothingGiven DEF Die, Torn
  <2> QED
    BY <1>2, <1>3, <2>2 DEF LifeInv
<1>6. CASE CrashInOpen
  <2> DEFINE y == SymbolOf[buy.mint]
  <2>1. InFlight /\ AddToBook /\ Die({y}) /\ buy.mint \in Mints /\ buy.amt \in Nat
    BY <1>1, <1>6 DEF CrashInOpen, InFlight, Parts, BuyOK
  <2>2. y \in Symbols /\ dDeployed \in [Symbols -> Nat]
    BY <1>1, <2>1, ConstantFacts DEF Parts, TotalTypes
  <2>3. 2 * buy.amt <= 2 * SymbolCap + Tick
    <3>1. 2 * (dDeployed[y] + buy.amt) <= 2 * SymbolCap + Tick /\ dDeployed[y] \in Nat
      BY <2>1, <2>2 DEF LifeInv
    <3> QED
      BY <1>4, <2>1, <3>1
  <2>4. ASSUME NEW s \in Symbols
        PROVE  2 * (Given(s)' - dDeployed'[s]) <= Torn(s)'
    <3> DEFINE extra == IF y = s THEN buy.amt ELSE 0
               n == crashes.torn[s]
               K == 2 * SymbolCap + Tick
    <3>1. Given(s)' = Given(s) + extra /\ Given(s) \in Nat
      BY <2>1, OpeningGiven, ShareType
    <3>2. n \in Nat /\ dDeployed[s] \in Nat /\ K \in Nat
      BY <1>1, <1>4, <2>2 DEF Parts, HistoryTypes
    <3>3. crashes'.torn[s] = IF s = y THEN n + 1 ELSE n
      BY <2>1 DEF Die
    <3>4. Torn(s) = n * K /\ Torn(s)' = crashes'.torn[s] * K
      BY DEF Torn
    <3>5. 2 * (Given(s) - dDeployed[s]) <= n * K
      BY <3>4 DEF LifeInv
    <3>6. CASE s = y
      <4>1. 2 * extra <= K /\ extra \in Nat
        BY <2>1, <2>3, <3>6
      <4> HIDE DEF extra, n, K
      <4>2. n * K \in Nat /\ (n + 1) * K = n * K + K
        BY <3>2
      <4> QED
        BY <1>2, <3>1, <3>2, <3>3, <3>4, <3>5, <3>6, <4>1, <4>2
    <3>7. CASE s # y
      BY <1>2, <3>1, <3>3, <3>4, <3>5, <3>7
    <3> QED
      BY <3>6, <3>7
  <2> QED
    BY <1>2, <1>3, <2>4 DEF LifeInv
<1> QED
  BY <1>5, <1>6

\* Every step keeps the totals' invariant.
LEMMA LifeStep == Typed /\ LifeInv /\ [Next]_vars => LifeInv'
<1> SUFFICES ASSUME Typed, LifeInv, [Next]_vars
             PROVE  LifeInv'
  OBVIOUS
<1>1. Parts
  BY TypedParts
<1>2. ASSUME UNCHANGED <<up, memVars, diskVars, histVars, crashes>>,
             \/ buy'.pc \notin {"buying", "resolving"}
             \/ InFlight /\ buy'.mint = buy.mint /\ buy'.amt = buy.amt
      PROVE  LifeInv'
  BY <1>2, LifeFrame DEF memVars, diskVars, histVars, MintsKept
<1>3. ASSUME NEW m \in Mints, TakeToken(m)
      PROVE  LifeInv'
  <2>1. buy'.pc = "pausing" /\ UNCHANGED <<up, memVars, diskVars, histVars, crashes>>
    BY <1>3 DEF TakeToken, BuyIdle
  <2> QED
    BY <1>2, <2>1
<1>4. CASE AdmitBuy
  <2>1. buy'.pc = "sizing" /\ UNCHANGED <<up, memVars, diskVars, histVars, crashes>>
    BY <1>1, <1>4 DEF AdmitBuy, Parts, BuyOK
  <2> QED
    BY <1>2, <2>1
<1>5. CASE RejectBuy \/ BuyFails \/ ResolveFails
  <2>1. buy'.pc = "idle" /\ UNCHANGED <<up, memVars, diskVars, histVars, crashes>>
    BY <1>5 DEF RejectBuy, BuyFails, ResolveFails, BuyIdle
  <2> QED
    BY <1>2, <2>1
<1>6. CASE BuyNeedsResolving
  <2>1. /\ InFlight /\ buy'.mint = buy.mint /\ buy'.amt = buy.amt
        /\ UNCHANGED <<up, memVars, diskVars, histVars, crashes>>
    BY <1>1, <1>6 DEF BuyNeedsResolving, Parts, BuyOK, InFlight
  <2> QED
    BY <1>2, <2>1
<1>7. CASE TickStep \/ FlagStep \/ SellStep \/ EndStep \/ PartialLeg \/ FinalLeg \/ UNCHANGED vars
  <2>1. UNCHANGED <<up, deployed, dDeployed, nobj, spent, crashes, buy>> /\ MintsKept
    <3>1. CASE SellStep
      BY <3>1, SellStepFrame DEF MintsKept
    <3>2. CASE TickStep \/ FlagStep
      BY <3>2 DEF TickStep, ResumeForceSell, NoEmergency, EmergencyDone, ChecksDone,
         CheckMissing, SellLands, FlagStep, TripEmergency, WebStop, WebResume, memVars, diskVars,
         taskVars, histVars, MintsKept
    <3>3. CASE EndStep \/ PartialLeg \/ FinalLeg
      BY <3>3, ObjectsKeepMints DEF EndStep, SellFails, Settle, PartialLeg, FinalLeg, histVars
    <3>4. CASE UNCHANGED vars
      BY <3>4 DEF vars, memVars, diskVars, taskVars, histVars, MintsKept
    <3> QED
      BY <1>7, <3>1, <3>2, <3>3, <3>4
  <2>2. \/ buy'.pc \notin {"buying", "resolving"}
        \/ InFlight /\ buy'.mint = buy.mint /\ buy'.amt = buy.amt
    BY <2>1 DEF InFlight
  <2> QED
    BY <2>1, <2>2, LifeFrame
<1>8. CASE Restart
  <2>1. /\ deployed' = dDeployed /\ dDeployed' = dDeployed /\ ~InFlight'
        /\ UNCHANGED <<nobj, spent, crashes>> /\ MintsKept
    BY <1>1, <1>8, ObjectsKeepMints DEF Restart, diskVars, taskVars, histVars, Parts, DownOK,
       InFlight
  <2>2. \A s \in Symbols : Given(s)' = Given(s) /\ Torn(s)' = Torn(s)
    BY <2>1, NothingGiven DEF Torn
  <2> QED
    BY <2>1, <2>2 DEF LifeInv
<1> QED
  BY <1>3, <1>4, <1>5, <1>6, <1>7, <1>8, NextCases, SubmitLife, OpenLife, CrashLife

\* Nothing has been given yet.
LEMMA LifeInit == Init => LifeInv
<1> SUFFICES ASSUME Init PROVE LifeInv
  OBVIOUS
<1>1. /\ \A s \in Symbols : deployed[s] = 0 /\ dDeployed[s] = 0 /\ crashes.torn[s] = 0
      /\ deployed = dDeployed /\ ~InFlight
  BY DEF Init, InFlight, BuyIdle
<1>2. ASSUME NEW s \in Symbols
      PROVE  Given(s) = 0
  <2>1. \A o \in Objs : Share(s)[o] = 0
    BY DEF Init, Share
  <2>2. Given(s) = SumOver(Share(s), Objs) /\ IsFiniteSet(Objs)
    BY TypedInit, ShareType
  <2> HIDE DEF Share
  <2> QED
    BY <2>1, <2>2, SumOfZeros
<1>3. \A s \in Symbols : Torn(s) = 0
  BY <1>1, AmountsAssumption DEF Torn
<1> QED
  BY <1>1, <1>2, <1>3, AmountsAssumption DEF LifeInv

\* Over all lives of the process the positions of a symbol cost no more than
\* its share of the starting capital, up to half a rounding step, and as much
\* again for each death between the book's file and the totals' file.
THEOREM LifetimeCapped == Spec => []LifetimeCap
<1>1. Init => LifeInv
  BY LifeInit
<1>2. Typed /\ LifeInv => LifetimeCap
  <2> SUFFICES ASSUME Typed, LifeInv, NEW s \in Symbols
               PROVE  2 * Given(s) <= (crashes.torn[s] + 1) * (2 * SymbolCap + Tick)
    BY DEF LifetimeCap
  <2> DEFINE n == crashes.torn[s]
             K == 2 * SymbolCap + Tick
  <2>1. n \in Nat /\ K \in Nat /\ dDeployed[s] \in Nat /\ Given(s) \in Nat
    BY TypedParts, ShareType, AmountsAssumption DEF Parts, HistoryTypes, TotalTypes
  <2>2. 2 * dDeployed[s] <= K /\ 2 * (Given(s) - dDeployed[s]) <= n * K
    BY DEF LifeInv, Torn
  <2> HIDE DEF n, K
  <2>3. n * K \in Nat /\ (n + 1) * K = n * K + K
    BY <2>1
  <2>4. 2 * Given(s) <= (n + 1) * K
    BY <2>1, <2>2, <2>3
  <2> QED
    BY <2>4 DEF n, K
<1> QED
  BY <1>1, <1>2, TypedInit, TypedStep, LifeStep, PTL DEF Spec

---------------------------------------------------------------------------
(* The emergency stop: what it lets through, and what a restart finds of it *)

\* While the stop is set, a buy that is not submitted yet means that none has
\* been submitted since: there is one trade loop and it takes no new token.
LateInv ==
  /\ lateBuys \in {0, 1}
  /\ estop /\ buy.pc \in {"pausing", "sizing"} => lateBuys = 0

\* Every step keeps the count of late buys in line with the loop's pc.
LEMMA LateStep == Typed /\ LateInv /\ [Next]_vars => LateInv'
<1> SUFFICES ASSUME Typed, LateInv, [Next]_vars
             PROVE  LateInv'
  OBVIOUS
<1>1. Parts
  BY TypedParts
<1>2. ASSUME NEW m \in Mints, TakeToken(m)
      PROVE  LateInv'
  BY <1>2 DEF TakeToken, flagVars, histVars, LateInv
<1>3. CASE AdmitBuy
  BY <1>3 DEF AdmitBuy, flagVars, histVars, LateInv
<1>4. CASE RejectBuy \/ BuyFails \/ ResolveFails
  <2>1. buy'.pc = "idle" /\ lateBuys' = lateBuys
    BY <1>4 DEF RejectBuy, BuyFails, ResolveFails, BuyIdle, histVars
  <2> QED
    BY <2>1 DEF LateInv
<1>5. CASE BuyNeedsResolving
  <2>1. buy'.pc = "resolving" /\ lateBuys' = lateBuys
    BY <1>1, <1>5 DEF BuyNeedsResolving, histVars, Parts, BuyOK
  <2> QED
    BY <2>1 DEF LateInv
<1>6. CASE SubmitBuy
  <2>1. buy.pc = "sizing" /\ estop' = estop
    BY <1>6 DEF SubmitBuy, flagVars
  <2>2. /\ buy'.pc \in {"buying", "idle"}
        /\ lateBuys' = lateBuys \/ lateBuys' = IF estop THEN lateBuys + 1 ELSE lateBuys
    <3>1. \/ buy' = BuyIdle
          \/ \E amt : buy' = [buy EXCEPT !.pc = "buying", !.expo = 0, !.amt = amt]
      BY <1>6 DEF SubmitBuy
    <3>2. buy'.pc \in {"buying", "idle"}
      <4>1. ASSUME NEW amt, buy' = [buy EXCEPT !.pc = "buying", !.expo = 0, !.amt = amt]
            PROVE  buy'.pc = "buying"
        <5>1. DOMAIN buy = {"pc", "mint", "expo", "amt"}
          BY <1>1 DEF Parts, BuyOK
        <5> QED
          BY <4>1, <5>1
      <4>2. BuyIdle.pc = "idle"
        BY DEF BuyIdle
      <4> QED
        BY <3>1, <4>1, <4>2
    <3>3. lateBuys' = lateBuys \/ lateBuys' = IF estop THEN lateBuys + 1 ELSE lateBuys
      BY <1>6 DEF SubmitBuy
    <3> QED
      BY <3>2, <3>3
  <2>3. lateBuys' \in {0, 1}
    BY <2>1, <2>2 DEF LateInv
  <2> QED
    BY <2>2, <2>3 DEF LateInv
<1>7. CASE BuyConfirmed \/ BuyResolved
  <2>1. buy'.pc = "idle" /\ lateBuys' = lateBuys
    BY <1>7 DEF BuyConfirmed, BuyResolved, OpenPosition, BuyIdle
  <2> QED
    BY <2>1 DEF LateInv
<1>8. CASE FlagStep
  <2>1. lateBuys' = 0 \/ (estop /\ lateBuys' = lateBuys /\ buy' = buy)
    BY <1>8 DEF FlagStep, TripEmergency, WebStop, WebResume
  <2> QED
    BY <2>1 DEF LateInv
<1>9. CASE TickStep \/ SellStep \/ EndStep \/ PartialLeg \/ FinalLeg \/ UNCHANGED vars
  <2>1. UNCHANGED <<estop, buy, lateBuys>>
    <3>1. CASE SellStep
      BY <3>1, SellStepFrame
    <3>2. CASE TickStep
      BY <3>2 DEF TickStep, ResumeForceSell, NoEmergency, EmergencyDone, ChecksDone,
         CheckMissing, SellLands, flagVars, histVars
    <3>3. CASE EndStep \/ PartialLeg \/ FinalLeg \/ UNCHANGED vars
      BY <3>3 DEF EndStep, SellFails, Settle, PartialLeg, FinalLeg, vars, flagVars, taskVars,
         histVars
    <3> QED
      BY <1>9, <3>1, <3>2, <3>3
  <2> QED
    BY <2>1 DEF LateInv
<1>10. CASE CrashStep
  <2>1. PICK torn : Die(torn)
    BY <1>10 DEF CrashStep, Crash, CrashInOpen, CrashInPartialLeg, CrashInFinalLeg,
       CrashInAbandon, CrashInClose
  <2> QED
    BY <2>1 DEF Die, BuyIdle, LateInv
<1>11. CASE Restart
  <2>1. buy'.pc = "idle" /\ lateBuys' = lateBuys
    BY <1>1, <1>11 DEF Restart, taskVars, histVars, Parts, DownOK
  <2> QED
    BY <2>1 DEF LateInv
<1> QED
  BY <1>2, <1>3, <1>4, <1>5, <1>6, <1>7, <1>8, <1>9, <1>10, <1>11, NextCases

\* However the stop races the trade loop's awaits, at most one buy is submitted
\* while it is set.
THEOREM LateBuysBounded == Spec => []AtMostOneLateBuy
<1>1. Init => LateInv
  BY DEF Init, LateInv
<1>2. LateInv => AtMostOneLateBuy
  BY DEF LateInv, AtMostOneLateBuy
<1> QED
  BY <1>1, <1>2, TypedInit, TypedStep, LateStep, PTL DEF Spec

\* Forced selling implies the stop on disk as well, where a restart finds it.
StopInv == EmergencyDurable /\ (dSell => dStop)

\* Every change of an emergency flag is saved with it.
LEMMA StopStep == Typed /\ StopInv /\ [Next]_vars => StopInv'
<1> SUFFICES ASSUME Typed, StopInv, [Next]_vars
             PROVE  StopInv'
  OBVIOUS
<1>1. CASE FlagStep
  BY <1>1, TypedParts, ZenonT(30) DEF FlagStep, TripEmergency, WebStop, WebResume, MonitorFree,
     StopInv, EmergencyDurable
<1>2. CASE CrashStep
  <2>1. PICK torn : Die(torn)
    BY <1>2 DEF CrashStep, Crash, CrashInOpen, CrashInPartialLeg, CrashInFinalLeg,
       CrashInAbandon, CrashInClose
  <2> QED
    BY <2>1 DEF Die, StopInv, EmergencyDurable
<1>3. CASE Restart
  BY <1>3 DEF Restart, diskVars, StopInv, EmergencyDurable
<1>4. CASE ~(FlagStep \/ CrashStep \/ Restart)
  <2>1. UNCHANGED <<up, estop, fsell, dStop, dSell>>
    <3>1. CASE SellStep
      BY <3>1, SellStepFrame
    <3>2. CASE TickStep
      BY <3>2 DEF TickStep, ResumeForceSell, NoEmergency, EmergencyDone, ChecksDone,
         CheckMissing, SellLands, flagVars, diskVars
    <3>3. CASE EndStep \/ PartialLeg \/ FinalLeg \/ UNCHANGED vars
      BY <3>3 DEF EndStep, SellFails, Settle, PartialLeg, FinalLeg, vars, flagVars, diskVars
    <3>4. CASE (\E m \in Mints : TakeToken(m)) \/ AdmitBuy \/ RejectBuy \/ SubmitBuy \/ BuyFails
               \/ BuyNeedsResolving \/ ResolveFails \/ BuyConfirmed \/ BuyResolved
      BY <3>4 DEF TakeToken, AdmitBuy, RejectBuy, SubmitBuy, BuyFails, BuyNeedsResolving,
         ResolveFails, BuyConfirmed, BuyResolved, flagVars, diskVars
    <3> QED
      BY <1>4, <3>1, <3>2, <3>3, <3>4, NextCases
  <2> QED
    BY <2>1 DEF StopInv, EmergencyDurable
<1> QED
  BY <1>1, <1>2, <1>3, <1>4

\* A restart resumes in the emergency the process died in.
THEOREM EmergencySurvives == Spec => []EmergencyDurable
<1>1. Init => StopInv
  BY DEF Init, StopInv, EmergencyDurable
<1>2. StopInv => EmergencyDurable
  BY DEF StopInv
<1> QED
  BY <1>1, <1>2, TypedInit, TypedStep, StopStep, PTL DEF Spec

---------------------------------------------------------------------------
(* The book and its image on disk                                           *)

\* Writing the book makes it durable.
LEMMA SnapshotDurable ==
  ASSUME NEW p, NEW q, NEW m \in Mints, p[m] # None
  PROVE  Snapshot(p, q)[m] = [obj |-> p[m], rec |-> q[p[m]]]
  BY DEF Snapshot

\* Dropping a position from memory alone loses nothing.
LEMMA DropKeeps ==
  ASSUME Typed, NEW x \in Mints, NEW m \in Mints, Drop(positions, x)[m] # None
  PROVE  Drop(positions, x)[m] = positions[m]
  BY TypedParts DEF Parts, BookOK, Drop

\* A step that ends by writing the book makes it durable.
LEMMA DurableSaved ==
  ASSUME NEW p, rows' = Snapshot(p, pos'),
         \A m \in Mints : positions'[m] # None => p[m] = positions'[m]
  PROVE  BookDurable'
<1> SUFFICES ASSUME NEW m \in Mints, positions'[m] # None
             PROVE  rows'[m] = [obj |-> positions'[m], rec |-> pos'[positions'[m]]]
  BY DEF BookDurable, Open
<1> QED
  BY SnapshotDurable

\* A step that touches neither book nor objects in it nor file keeps it durable.
LEMMA DurableKept ==
  ASSUME BookDurable, UNCHANGED <<up, pos, rows>>,
         \A m \in Mints : positions'[m] # None => positions[m] = positions'[m]
  PROVE  BookDurable'
  BY DEF BookDurable, Open

\* Every step leaves the book durable.
LEMMA DurableStep == Typed /\ BookDurable /\ [Next]_vars => BookDurable'
<1> SUFFICES ASSUME Typed, BookDurable, [Next]_vars
             PROVE  BookDurable'
  OBVIOUS
<1>1. Parts
  BY TypedParts
<1>2. CASE SellStep
  BY <1>2, SellStepFrame, DropKeeps, DurableKept
<1>3. CASE BuyConfirmed \/ BuyResolved
  <2>1. positions' = [positions EXCEPT ![buy.mint] = nobj + 1] /\ rows' = Snapshot(positions', pos')
    BY <1>3 DEF BuyConfirmed, BuyResolved, OpenPosition, AddToBook
  <2> QED
    BY <2>1, DurableSaved
<1>4. ASSUME NEW t \in Sellers, SellFails(t)
      PROVE  BookDurable'
  <2>1. rows' = Snapshot(positions', pos')
    BY <1>4 DEF SellFails
  <2> QED
    BY <2>1, DurableSaved
<1>5. ASSUME NEW t \in Sellers, Settle(t)
      PROVE  BookDurable'
  <2>1. /\ UNCHANGED <<up, pos>> /\ sell[t].mint \in Mints
        /\ positions' = Drop(positions, sell[t].mint)
        /\ rows' = rows \/ rows' = Snapshot(positions', pos')
    BY <1>1, <1>5 DEF Settle, ClosePosition, Parts, SlotsOK
  <2>2. CASE rows' = rows
    BY <2>1, <2>2, DropKeeps, DurableKept
  <2>3. CASE rows' = Snapshot(positions', pos')
    BY <2>3, DurableSaved
  <2> QED
    BY <2>1, <2>2, <2>3
<1>6. CASE PartialLeg
  <2>1. /\ mon.mint \in Mints /\ rows' = Snapshot(positions, pos')
        /\ positions' \in {positions, Drop(positions, mon.mint)}
    BY <1>1, <1>6 DEF PartialLeg, ContinueCheck, BeginForceSell, Parts, MonOK
  <2> QED
    BY <2>1, DropKeeps, DurableSaved
<1>7. CASE FinalLeg
  <2>1. rows' = Snapshot(positions', pos')
    BY <1>7 DEF FinalLeg
  <2> QED
    BY <2>1, DurableSaved
<1>8. CASE CrashStep
  <2>1. up' = FALSE
    BY <1>8 DEF CrashStep, Crash, CrashInOpen, CrashInPartialLeg, CrashInFinalLeg,
       CrashInAbandon, CrashInClose, Die
  <2> QED
    BY <2>1 DEF BookDurable
<1>9. CASE Restart
  <2> SUFFICES ASSUME NEW m \in Mints, positions'[m] # None
               PROVE  rows'[m] = [obj |-> positions'[m], rec |-> pos'[positions'[m]]]
    BY DEF BookDurable, Open
  <2> DEFINE o == rows[m].obj
  <2>1. positions'[m] = o /\ rows' = rows /\ o # None
    BY <1>9 DEF Restart, diskVars
  <2>2. o \in Objs /\ pos[o].mint = m
    BY <1>1, <2>1, LimitsAssumption DEF Parts, RowsOK, Objs
  <2>3. pos'[o] = rows[m].rec
    BY <1>9, <2>2 DEF Restart
  <2>4. rows[m] \in Row
    BY <1>1 DEF Parts, RowsOK
  <2>5. rows[m] = [obj |-> o, rec |-> rows[m].rec]
    BY <2>4 DEF Row
  <2> QED
    BY <2>1, <2>3, <2>5
<1>10. CASE \/ TickStep \/ FlagStep \/ UNCHANGED vars
            \/ (\E m \in Mints : TakeToken(m)) \/ AdmitBuy \/ RejectBuy \/ SubmitBuy \/ BuyFails
            \/ BuyNeedsResolving \/ ResolveFails
  <2>1. UNCHANGED <<up, pos, rows, positions>>
    <3>1. CASE TickStep \/ FlagStep \/ UNCHANGED vars
      BY <3>1 DEF TickStep, ResumeForceSell, NoEmergency, EmergencyDone, ChecksDone,
         CheckMissing, SellLands, FlagStep, TripEmergency, WebStop, WebResume, vars, memVars,
         diskVars
    <3>2. CASE (\E m \in Mints : TakeToken(m)) \/ AdmitBuy \/ RejectBuy \/ SubmitBuy \/ BuyFails
               \/ BuyNeedsResolving \/ ResolveFails
      BY <3>2 DEF TakeToken, AdmitBuy, RejectBuy, SubmitBuy, BuyFails, BuyNeedsResolving,
         ResolveFails, memVars, diskVars
    <3> QED
      BY <1>10, <3>1, <3>2
  <2> QED
    BY <2>1, DurableKept
<1> QED
  BY <1>2, <1>3, <1>4, <1>5, <1>6, <1>7, <1>8, <1>9, <1>10, NextCases DEF EndStep

\* A crash at any moment loses no open position, nor the tokens, cost basis,
\* take-profit levels or attempts it had.
THEOREM BookSurvives == Spec => []BookDurable
<1>1. Init => BookDurable
  BY DEF Init, BookDurable, Open
<1> QED
  BY <1>1, TypedInit, TypedStep, DurableStep, PTL DEF Spec
=============================================================================
