---------------------- MODULE GraduationSniperProofs ----------------------
(***************************************************************************)
(* Proofs about GraduationSniper.  The invariant Sound carries the slots,  *)
(* the fees and the agreement of orders, book and file together: a slot is *)
(* free when a buy fills because the book says so, a close removes what is *)
(* held because the order says so, and a restart loads what the file says. *)
(***************************************************************************)
EXTENDS GraduationSniper, FiniteSetTheorems, TLAPS

-----------------------------------------------------------------------------
(* Books and what the operations make of them                              *)

\* A book within the slots whose fees were charged.
Book(s) ==
  /\ s \in State
  /\ Cardinality(Held(s)) <= MaxConcurrent
  /\ s.debits + Cardinality(Held(s)) <= s.fees

\* What is held is a finite set of mints.
LEMMA HeldFinite ==
  ASSUME NEW s
  PROVE  /\ Held(s) \subseteq Mints /\ IsFiniteSet(Held(s))
         /\ Cardinality(Held(s)) \in Nat
<1>1. Held(s) \subseteq Mints
  BY DEF Held
<1> QED
  BY <1>1, MintsAssumption, FS_Subset, FS_CardinalityType

\* The numeric constants.
LEMMA Limits ==
  /\ MaxConcurrent \in Nat /\ MaxTracked \in Nat /\ MaxOrders \in Nat /\ MaxCrashes \in Nat
  /\ None = 0 /\ EntryMin = 160 /\ EntryMax = 162 /\ Exit = 167
  /\ \A l \in Levels : l \in Nat /\ l # None
  BY BoundsAssumption, LevelsAssumption
     DEF None, EntryMin, EntryMax, Exit, MinRunway

\* The empty book is a book.
LEMMA BookFresh == Book(Fresh) /\ Held(Fresh) = {}
<1>1. Held(Fresh) = {}
  BY DEF Held, Fresh
<1>2. Fresh \in State
  BY DEF Fresh, State
<1> QED
  <2>1. Fresh.fees = 0 /\ Fresh.debits = 0
    BY DEF Fresh
  <2>2. Cardinality(Held(Fresh)) = 0
    BY <1>1, FS_EmptySet
  <2> QED
    BY <1>1, <1>2, <2>1, <2>2, Limits DEF Book

\* A charge, alone or taken off the balance.
LEMMA BookCharged ==
  ASSUME NEW s, Book(s)
  PROVE  /\ Book(Charged(s)) /\ Held(Charged(s)) = Held(s)
         /\ Book(Reverted(s)) /\ Held(Reverted(s)) = Held(s)
         /\ Charged(s).positions = s.positions /\ Reverted(s).positions = s.positions
         /\ Charged(s).fees = s.fees + 1 /\ Charged(s).debits = s.debits
         /\ Charged(s).stops = s.stops /\ Reverted(s).stops = s.stops
<1>1. /\ Charged(s) \in State /\ Reverted(s) \in State
      /\ Charged(s).positions = s.positions /\ Reverted(s).positions = s.positions
      /\ Charged(s).fees = s.fees + 1 /\ Reverted(s).fees = s.fees + 1
      /\ Charged(s).debits = s.debits /\ Reverted(s).debits = s.debits + 1
  <2>1. /\ s \in [positions : [Mints -> Levels \cup {None}],
                   fees : Nat, debits : Nat, stops : SUBSET Mints]
    BY DEF Book, State
  <2>2. Charged(s) \in State
    BY <2>1 DEF State, Charged
  <2>3. Reverted(s) \in State
    <3>1. Charged(s).debits + 1 \in Nat
      BY <2>1 DEF Charged
    <3> QED
      BY <2>2, <3>1 DEF State, Reverted
  <2>4. /\ Charged(s).positions = s.positions /\ Charged(s).fees = s.fees + 1
        /\ Charged(s).debits = s.debits
    BY <2>1 DEF Charged
  <2>5. /\ Reverted(s).positions = s.positions /\ Reverted(s).fees = s.fees + 1
        /\ Reverted(s).debits = s.debits + 1
    BY <2>2, <2>4 DEF Reverted, State
  <2> QED
    BY <2>2, <2>3, <2>4, <2>5
<1>5. Charged(s).stops = s.stops /\ Reverted(s).stops = s.stops
  <2>1. s \in [positions : [Mints -> Levels \cup {None}],
               fees : Nat, debits : Nat, stops : SUBSET Mints]
    BY DEF Book, State
  <2>2. Charged(s).stops = s.stops
    BY <2>1 DEF Charged
  <2> QED
    BY <1>1, <2>2 DEF Reverted, State
<1>2. Held(Charged(s)) = Held(s) /\ Held(Reverted(s)) = Held(s)
  BY <1>1 DEF Held
<1>3. s.fees \in Nat /\ s.debits \in Nat /\ Cardinality(Held(s)) \in Nat
  BY HeldFinite DEF Book, State
<1>4. Book(Charged(s)) /\ Book(Reverted(s))
  BY <1>1, <1>2, <1>3 DEF Book
<1> QED
  BY <1>1, <1>2, <1>4, <1>5

\* A fill takes one free slot.
LEMMA BookOpened ==
  ASSUME NEW s, Book(s), NEW m \in Mints, NEW v \in Levels, m \notin Held(s), ~Full(s)
  PROVE  LET t == [Charged(s) EXCEPT !.positions[m] = v]
         IN  Book(t) /\ Held(t) = Held(s) \cup {m}
<1> DEFINE t == [Charged(s) EXCEPT !.positions[m] = v]
<1>1. /\ t \in State /\ t.fees = s.fees + 1 /\ t.debits = s.debits
      /\ t.positions = [s.positions EXCEPT ![m] = v]
  <2>1. /\ Charged(s) \in [positions : [Mints -> Levels \cup {None}],
                            fees : Nat, debits : Nat, stops : SUBSET Mints]
        /\ Charged(s).fees = s.fees + 1 /\ Charged(s).debits = s.debits
        /\ Charged(s).positions = s.positions
    BY BookCharged DEF Book, State
  <2>2. t \in State
    BY <2>1 DEF State
  <2>3. /\ t.fees = Charged(s).fees /\ t.debits = Charged(s).debits
        /\ t.positions = [Charged(s).positions EXCEPT ![m] = v]
    BY <2>1
  <2> QED
    BY <2>1, <2>2, <2>3
<1>2. Held(t) = Held(s) \cup {m}
  <2>1. s.positions \in [Mints -> Levels \cup {None}]
    BY DEF Book, State
  <2>2. v # None
    BY Limits
  <2> QED
    BY <1>1, <2>1, <2>2 DEF Held
<1>3. s.fees \in Nat /\ s.debits \in Nat /\ Cardinality(Held(s)) \in Nat
  BY HeldFinite DEF Book, State
<1>4. Cardinality(Held(t)) = Cardinality(Held(s)) + 1
  BY <1>2, HeldFinite, FS_AddElement
<1>5. Cardinality(Held(s)) < MaxConcurrent
  BY <1>3, Limits DEF Full
<1> HIDE DEF t
<1>6. Book(t)
  BY <1>1, <1>3, <1>4, <1>5, Limits DEF Book
<1> QED
  BY <1>2, <1>6 DEF t

\* A close frees the slots of what it closes, and brings to the balance the
\* fees of the buys and of the sells.
LEMMA BookClosed ==
  ASSUME NEW s, Book(s), NEW S \in SUBSET Held(s), NEW T \in SUBSET Mints
  PROVE  LET t == Closed(s, S, T)
         IN  Book(t) /\ Held(t) = Held(s) \ S
<1> DEFINE t == Closed(s, S, T)
<1>1. IsFiniteSet(S) /\ Cardinality(S) \in Nat
  BY HeldFinite, FS_Subset, FS_CardinalityType
<1>2. /\ t \in State
      /\ t.fees = s.fees + Cardinality(S) /\ t.debits = s.debits + 2 * Cardinality(S)
      /\ t.positions = [m \in Mints |-> IF m \in S THEN None ELSE s.positions[m]]
  <2> DEFINE q == [m \in Mints |-> IF m \in S THEN None ELSE s.positions[m]]
  <2>1. t = [positions |-> q, fees |-> s.fees + Cardinality(S),
             debits |-> s.debits + 2 * Cardinality(S), stops |-> s.stops \cup T]
    BY DEF Closed
  <2>2. /\ s.positions \in [Mints -> Levels \cup {None}] /\ s.fees \in Nat
        /\ s.debits \in Nat /\ s.stops \subseteq Mints
    BY DEF Book, State
  <2>3. q \in [Mints -> Levels \cup {None}]
    BY <2>2
  <2>4. s.stops \cup T \in SUBSET Mints
    BY <2>2
  <2>5. s.fees + Cardinality(S) \in Nat /\ s.debits + 2 * Cardinality(S) \in Nat
    BY <1>1, <2>2
  <2> HIDE DEF q, t
  <2>6. t \in State
    BY <2>1, <2>3, <2>4, <2>5 DEF State
  <2> QED
    BY <2>1, <2>6 DEF q
<1>3. Held(t) = Held(s) \ S
  <2> HIDE DEF t
  <2> QED
    BY <1>2 DEF Held
<1>4. Cardinality(Held(t)) = Cardinality(Held(s)) - Cardinality(S)
  <2>1. Held(s) = Held(t) \cup S /\ Held(t) \cap S = {}
    BY <1>3
  <2>2. Cardinality(Held(s)) = Cardinality(Held(t)) + Cardinality(S) - Cardinality({})
    <3>1. IsFiniteSet(Held(t))
      BY HeldFinite
    <3> HIDE DEF t
    <3> QED
      BY <2>1, <3>1, <1>1, FS_Union
  <2> HIDE DEF t
  <2> QED
    BY <2>2, FS_EmptySet, HeldFinite, <1>1
<1>5. s.fees \in Nat /\ s.debits \in Nat /\ Cardinality(Held(s)) \in Nat
  BY HeldFinite DEF Book, State
<1> HIDE DEF t
<1>6. Book(t)
  BY <1>1, <1>2, <1>4, <1>5, Limits DEF Book
<1> QED
  BY <1>3, <1>6 DEF t

\* Forgetting stops touches neither slots nor fees.
LEMMA BookForgets ==
  ASSUME NEW s, Book(s), NEW T
  PROVE  LET t == [s EXCEPT !.stops = s.stops \ T]
         IN  Book(t) /\ Held(t) = Held(s)
<1> DEFINE t == [s EXCEPT !.stops = s.stops \ T]
<1>1. /\ t \in State /\ t.fees = s.fees /\ t.debits = s.debits /\ t.positions = s.positions
  BY DEF Book, State
<1>2. Held(t) = Held(s)
  <2> HIDE DEF t
  <2> QED
    BY <1>1 DEF Held
<1> HIDE DEF t
<1>3. Book(t)
  BY <1>1, <1>2 DEF Book
<1> QED
  BY <1>2, <1>3 DEF t

\* What each kind of order is.
LEMMA OrderKinds ==
  /\ NoOrder \in Orders /\ NoOrder.type = "none"
  /\ \A l \in Levels : Buy(l) \in Orders /\ Buy(l).type = "buy" /\ Buy(l).level = l
  /\ \A r \in Reasons : Sell(r) \in Orders /\ Sell(r).type = "sell"
  /\ \A o \in Orders : /\ o.type = "buy" => \E l \in Levels : o = Buy(l)
                       /\ o.type \in {"none", "buy", "sell"}
                       /\ o.type = "none" => o = NoOrder
<1>1. /\ NoOrder \in Orders /\ NoOrder.type = "none"
      /\ \A l \in Levels : Buy(l) \in Orders /\ Buy(l).type = "buy" /\ Buy(l).level = l
      /\ \A r \in Reasons : Sell(r) \in Orders /\ Sell(r).type = "sell"
  BY DEF Orders, NoOrder, Buy, Sell
<1>2. ASSUME NEW o \in Orders
      PROVE  /\ o.type = "buy" => \E l \in Levels : o = Buy(l)
             /\ o.type \in {"none", "buy", "sell"}
             /\ o.type = "none" => o = NoOrder
  <2>1. CASE o = NoOrder
    BY <2>1 DEF NoOrder
  <2>2. CASE \E l \in Levels : o = Buy(l)
    BY <2>2 DEF Buy
  <2>3. CASE \E r \in Reasons : o = Sell(r)
    BY <2>3 DEF Sell
  <2> QED
    BY <2>1, <2>2, <2>3 DEF Orders
<1> QED
  BY <1>1, <1>2

-----------------------------------------------------------------------------
(* The invariant, in parts                                                 *)

BookPart == Durable /\ Book(state) /\ Book(disk)

\* A pending buy was decided inside the entry band.
OrderPart ==
  /\ pending \in [Mints -> Orders]
  /\ OrdersMatch
  /\ overdue \subseteq {m \in Mints : pending[m].type = "sell"}
  /\ \A m \in Mints : pending[m].type = "buy"
       => EntryMin <= pending[m].level /\ pending[m].level < EntryMax

TrackPart ==
  /\ trackers \in [Mints -> Levels \cup {None}]
  /\ poll \in [Mints -> {"idle", "live", "stale"}]
  /\ quiet \subseteq Tracked

RestPart ==
  /\ up \in BOOLEAN /\ kill \in BOOLEAN
  /\ aged \subseteq Held(state)
  /\ orders \in 0..MaxOrders /\ crashes \in 0..MaxCrashes

Sound == BookPart /\ OrderPart /\ TrackPart /\ RestPart

\* The parts say what the checked invariants say.
LEMMA SoundImplies ==
  Sound => TypeOK /\ SlotLimit /\ OrdersMatch /\ NoPhantomFee /\ Durable
<1> SUFFICES ASSUME Sound
             PROVE  TypeOK /\ SlotLimit /\ OrdersMatch /\ NoPhantomFee /\ Durable
  OBVIOUS
<1>1. TypeOK
  BY DEF Sound, BookPart, OrderPart, TrackPart, RestPart, Book, TypeOK
<1>2. SlotLimit /\ NoPhantomFee /\ Durable
  BY DEF Sound, BookPart, Book, SlotLimit, NoPhantomFee
<1>3. OrdersMatch
  BY DEF Sound, OrderPart
<1> QED
  BY <1>1, <1>2, <1>3

\* At the start.
LEMMA SoundInit == Init => Sound
<1> SUFFICES ASSUME Init PROVE Sound
  OBVIOUS
<1>1. BookPart
  BY BookFresh DEF Init, BookPart, Durable, Fresh
<1>2. OrderPart
  BY OrderKinds DEF Init, OrderPart, OrdersMatch
<1>3. TrackPart
  BY DEF Init, TrackPart
<1>4. RestPart
  <2>1. up \in BOOLEAN /\ kill \in BOOLEAN /\ aged \subseteq Held(state)
    BY DEF Init
  <2>2. orders \in 0..MaxOrders /\ crashes \in 0..MaxCrashes
    BY Limits DEF Init
  <2> QED
    BY <2>1, <2>2 DEF RestPart
<1> QED
  BY <1>1, <1>2, <1>3, <1>4 DEF Sound

-----------------------------------------------------------------------------
(* The book                                                                *)

\* A step that saves a book.
LEMMA BookSaved ==
  ASSUME NEW s, Book(s), state' = s, disk' = s
  PROVE  BookPart'
<1>1. s.fees \in Nat
  BY DEF Book, State
<1> QED
  BY <1>1 DEF BookPart, Durable

\* A step that leaves memory and file alone.
LEMMA BookKept ==
  ASSUME BookPart, UNCHANGED <<state, disk>>
  PROVE  BookPart' /\ Held(state') = Held(state)
  BY DEF BookPart, Durable

\* After an answered poll: only the mint itself may have entered or left.
LEMMA PollBook ==
  ASSUME Sound, NEW m \in Mints, NEW v \in Levels, PollAnswers(m, v)
  PROVE  /\ BookPart'
         /\ \/ /\ pending[m].type # "sell"
               /\ Held(state') = Held(state) /\ aged' = aged
            \/ /\ pending[m].type = "buy" /\ ~Full(state)
               /\ ~Slipped(pending[m].level, v)
               /\ Held(state') = Held(state) \cup {m} /\ aged' = aged
            \/ /\ pending[m].type = "sell"
               /\ Held(state') = Held(state) \ {m} /\ aged' = aged \ {m}
<1>1. Book(state) /\ Book(disk) /\ BookPart
  BY DEF Sound, BookPart
<1>2. CASE BuyLands(m, v) /\ Full(state)
  <2>1. /\ state' = Charged(state) /\ disk' = disk /\ aged' = aged
        /\ pending[m].type = "buy"
    BY <1>2 DEF BuyLands
  <2>2. /\ Book(Charged(state)) /\ Held(Charged(state)) = Held(state)
        /\ Charged(state).positions = state.positions
        /\ Charged(state).fees = state.fees + 1
        /\ Charged(state).debits = state.debits /\ Charged(state).stops = state.stops
    BY <1>1, BookCharged
  <2>3. state.fees \in Nat /\ disk.fees \in Nat
    BY <1>1 DEF Book, State
  <2> QED
    BY <1>1, <2>1, <2>2, <2>3 DEF BookPart, Durable
<1>3. CASE BuyLands(m, v) /\ ~Full(state) /\ Slipped(pending[m].level, v)
  <2>1. /\ state' = Reverted(state) /\ disk' = Reverted(state) /\ aged' = aged
        /\ pending[m].type = "buy"
    BY <1>3 DEF BuyLands
  <2>2. Book(Reverted(state)) /\ Held(Reverted(state)) = Held(state)
    BY <1>1, BookCharged
  <2> QED
    BY <2>1, <2>2, BookSaved
<1>4. CASE BuyLands(m, v) /\ ~Full(state) /\ ~Slipped(pending[m].level, v)
  <2> DEFINE t == [Charged(state) EXCEPT !.positions[m] = v]
  <2>1. state' = t /\ disk' = t /\ aged' = aged /\ pending[m].type = "buy"
    BY <1>4 DEF BuyLands
  <2>2. m \notin Held(state)
    BY <2>1 DEF Sound, OrderPart, OrdersMatch
  <2>3. Book(t) /\ Held(t) = Held(state) \cup {m}
    BY <1>1, <1>4, <2>2, BookOpened
  <2> HIDE DEF t
  <2> QED
    BY <1>4, <2>1, <2>3, BookSaved
<1>5. CASE SellLands(m)
  <2>1. m \in Held(state) /\ pending[m].type = "sell"
    BY <1>5 DEF SellLands, Sound, OrderPart, OrdersMatch
  <2> DEFINE t == Closed(state, {m} \cap Held(state), StopsOf({m}) \cap Held(state))
  <2>2. state' = t /\ disk' = t /\ aged' = aged \ {m}
    BY <1>5, <2>1 DEF SellLands
  <2>3. Book(t) /\ Held(t) = Held(state) \ ({m} \cap Held(state))
    <3>1. StopsOf({m}) \cap Held(state) \in SUBSET Mints
      BY HeldFinite
    <3> QED
      BY <1>1, <3>1, BookClosed
  <2>4. Held(t) = Held(state) \ {m}
    BY <2>1, <2>3
  <2> HIDE DEF t
  <2> QED
    BY <2>1, <2>2, <2>3, <2>4, BookSaved
<1>6. CASE NothingPending(m)
  BY <1>1, <1>6, BookKept, OrderKinds DEF NothingPending
<1> QED
  BY <1>2, <1>3, <1>4, <1>5, <1>6 DEF PollAnswers

\* A buy that found a free slot and left its mint unheld was reverted.
LEMMA PollFills ==
  ASSUME Sound, NEW m \in Mints, NEW v \in Levels, BuyLands(m, v), ~Full(state),
         m \notin Held(state')
  PROVE  Slipped(pending[m].level, v)
<1> SUFFICES ASSUME ~Slipped(pending[m].level, v)
             PROVE  FALSE
  OBVIOUS
<1> DEFINE t == [Charged(state) EXCEPT !.positions[m] = v]
<1>1. state' = t
  BY DEF BuyLands
<1>2. pending[m].type = "buy"
  BY DEF BuyLands
<1>3. Held(t) = Held(state) \cup {m}
  BY <1>2, BookOpened DEF Sound, BookPart, OrderPart, OrdersMatch
<1> HIDE DEF t
<1> QED
  BY <1>1, <1>3

\* Inside the entry band no price moves beyond the slippage bound.
LEMMA BandWithinSlippage ==
  ASSUME NEW d \in 160..161, NEW v \in 160..161
  PROVE  ~Slipped(d, v)
<1>1. d = 160 \/ d = 161
  OBVIOUS
<1>2. v = 160 \/ v = 161
  OBVIOUS
<1> QED
  BY <1>1, <1>2 DEF Slipped, VirtualSol, SlippagePct

\* The state a migration leaves before it forgets the stop.
LEMMA AfterMigrationBook ==
  ASSUME Sound, NEW m \in Mints
  PROVE  Book(AfterMigration(m)) /\ Held(AfterMigration(m)) = Held(state) \ {m}
<1> DEFINE s == IF pending[m].type = "buy" THEN Reverted(state) ELSE state
<1>1. Book(s) /\ Held(s) = Held(state)
  BY BookCharged DEF Sound, BookPart
<1>2. AfterMigration(m) = Closed(s, {m} \cap Held(s), {})
  BY DEF AfterMigration
<1> HIDE DEF s
<1>3. /\ Book(Closed(s, {m} \cap Held(s), {}))
      /\ Held(Closed(s, {m} \cap Held(s), {})) = Held(s) \ ({m} \cap Held(s))
  BY <1>1, BookClosed
<1> QED
  BY <1>1, <1>2, <1>3

\* A mint that graduated is not held any more.
LEMMA MigrationBook ==
  ASSUME Sound, NEW m \in Mints, OnMigration(m)
  PROVE  BookPart' /\ Held(state') = Held(state) \ {m}
<1> DEFINE a == AfterMigration(m)
           t == [a EXCEPT !.stops = a.stops \ {m}]
<1>1. Book(a) /\ Held(a) = Held(state) \ {m}
  BY AfterMigrationBook
<1>2. state' = t
  BY DEF OnMigration
<1> HIDE DEF a
<1>3. Book(t) /\ Held(t) = Held(a)
  BY <1>1, BookForgets
<1> HIDE DEF t
<1>4. disk' = t \/ (disk' = disk /\ state' = state)
  BY <1>2 DEF OnMigration
<1>5. BookPart'
  BY <1>2, <1>3, <1>4, BookSaved, BookKept DEF Sound
<1> QED
  BY <1>1, <1>2, <1>3, <1>5

\* A tick closes the orphans.
LEMMA TickBook ==
  ASSUME Sound, ManageTick
  PROVE  BookPart' /\ Held(state') = Held(state) \ Orphans
<1> DEFINE s == Closed(state, Orphans, StopsOf(Orphans))
<1>1. Orphans \in SUBSET Held(state) /\ StopsOf(Orphans) \in SUBSET Mints
  BY HeldFinite DEF Orphans, StopsOf
<1>2. Book(s) /\ Held(s) = Held(state) \ Orphans
  BY <1>1, BookClosed DEF Sound, BookPart
<1>3. PICK expired : /\ state' = [s EXCEPT !.stops = s.stops \ expired]
                     /\ disk' = IF state' # state THEN state' ELSE disk
  BY DEF ManageTick
<1> HIDE DEF s
<1> DEFINE t == [s EXCEPT !.stops = s.stops \ expired]
<1>4. Book(t) /\ Held(t) = Held(s)
  BY <1>2, BookForgets
<1>5. state' = t /\ (disk' = t \/ (disk' = disk /\ state' = state))
  BY <1>3
<1> HIDE DEF t
<1>6. BookPart'
  BY <1>4, <1>5, BookSaved, BookKept DEF Sound
<1> QED
  BY <1>2, <1>4, <1>5, <1>6

Deaths == KillTick \/ Crash \/ CrashInTick \/ \E m \in Mints : CrashInMigration(m)

\* A death leaves a book of what was held before it, or less.
LEMMA DeathBook ==
  ASSUME Sound, Deaths
  PROVE  \E d : /\ Die(d) /\ Book(d) /\ Held(d) \subseteq Held(state) /\ BookPart'
                /\ crashes' \in 0..MaxCrashes
<1>1. Book(state) /\ Book(disk) /\ Held(disk) = Held(state)
  BY DEF Sound, BookPart, Durable, Held
<1>2. crashes \in 0..MaxCrashes /\ MaxCrashes \in Nat
  BY Limits DEF Sound, RestPart
<1>3. ASSUME NEW S \in SUBSET Held(state), NEW T \in SUBSET Mints
      PROVE  /\ Book(Closed(state, S, T))
             /\ Held(Closed(state, S, T)) \subseteq Held(state)
  BY <1>1, <1>3, BookClosed
<1>4. ASSUME NEW d, Die(d), Book(d)
      PROVE  BookPart'
  BY <1>4, BookSaved DEF Die
<1>5. CASE KillTick
  <2>1. Die(Closed(state, Held(state), {})) /\ crashes' = crashes
    BY <1>5 DEF KillTick
  <2> QED
    BY <1>2, <1>3, <1>4, <2>1
<1>6. CASE Crash
  <2>1. Die(disk) /\ crashes' \in 0..MaxCrashes
    BY <1>2, <1>6 DEF Crash, Crashing
  <2> QED
    BY <1>1, <1>4, <2>1
<1>7. CASE CrashInTick
  <2>1. crashes' \in 0..MaxCrashes
    BY <1>2, <1>7 DEF CrashInTick, Crashing
  <2>2. PICK S \in SUBSET (IF kill THEN Held(state) ELSE Orphans) :
             Die(Closed(state, S, IF kill THEN {} ELSE StopsOf(S)))
    BY <1>7 DEF CrashInTick
  <2> DEFINE T == IF kill THEN {} ELSE StopsOf(S)
  <2>3. S \in SUBSET Held(state)
    BY DEF Orphans
  <2>4. T \in SUBSET Mints
    BY <2>3, HeldFinite DEF StopsOf
  <2>5. Die(Closed(state, S, T))
    BY <2>2
  <2> HIDE DEF T
  <2> QED
    BY <1>3, <1>4, <2>1, <2>3, <2>4, <2>5
<1>8. CASE \E m \in Mints : CrashInMigration(m)
  <2>1. PICK m \in Mints : CrashInMigration(m)
    BY <1>8
  <2>2. crashes' \in 0..MaxCrashes /\ Die(AfterMigration(m))
    BY <1>2, <2>1 DEF CrashInMigration, Crashing
  <2>3. Book(AfterMigration(m)) /\ Held(AfterMigration(m)) \subseteq Held(state)
    BY AfterMigrationBook
  <2> QED
    BY <1>4, <2>2, <2>3
<1> QED
  BY <1>5, <1>6, <1>7, <1>8 DEF Deaths

-----------------------------------------------------------------------------
(* The orders, the trackers and the rest                                   *)

\* The steps that touch neither the book nor its file.
Quietly ==
  \/ \E m \in Mints, v \in Levels : Discover(m, v) \/ Evict(m, v)
  \/ PollRound \/ (\E m \in Mints : PollFails(m))
  \/ Restart \/ Operator
  \/ \E m \in Mints : Age(m) \/ Delay(m) \/ Quiet(m)
  \/ UNCHANGED vars

\* A step is quiet, a save of the tail holder, an answer, a migration, a tick
\* or a death.
LEMMA Steps ==
  ASSUME [Next]_vars
  PROVE  \/ Quietly
         \/ TailSaves
         \/ \E m \in Mints, v \in Levels : PollAnswers(m, v)
         \/ \E m \in Mints : PollMigrated(m) \/ WebsocketMigrated(m)
         \/ ManageTick
         \/ Deaths
  BY DEF Next, Quietly, Deaths

\* Quiet steps keep orders; a sell may become overdue, a restart has none.
LEMMA QuietOrders ==
  ASSUME Sound, Quietly
  PROVE  OrderPart' /\ UNCHANGED <<state, disk, pending, orders, crashes>>
<1>1. UNCHANGED <<state, disk, pending, orders, crashes>>
  BY DEF Quietly, Discover, Evict, PollRound, PollFails, Restart, Operator, Age,
         Delay, Quiet, vars
<1>2. overdue' = overdue
        \/ \E m \in Mints : pending[m].type = "sell" /\ overdue' = overdue \cup {m}
  BY DEF Quietly, Discover, Evict, PollRound, PollFails, Restart, Operator, Age,
         Delay, Quiet, vars
<1>3. Held(state') = Held(state)
  BY <1>1
<1>4. OrderPart
  BY DEF Sound
<1>5. overdue' \subseteq {m \in Mints : pending[m].type = "sell"}
  BY <1>2, <1>4 DEF OrderPart
<1> QED
  BY <1>1, <1>3, <1>4, <1>5 DEF OrderPart, OrdersMatch

\* An order popped and another decided.
LEMMA PollOrders ==
  ASSUME Sound, NEW m \in Mints, NEW v \in Levels, PollAnswers(m, v)
  PROVE  OrderPart' /\ \A x \in Mints : x # m => pending'[x] = pending[x]
<1>1. OrderPart
  BY DEF Sound
<1>2. /\ m \in Held(state') <=> state'.positions[m] # None
      /\ \A x \in Mints : x # m => (x \in Held(state') <=> x \in Held(state))
  BY PollBook DEF Held
<1>3. Decide(m, v) /\ overdue' = overdue \ {m}
  BY DEF PollAnswers
<1>4. ASSUME NEW o \in Orders, pending' = [pending EXCEPT ![m] = o]
      PROVE  /\ pending' \in [Mints -> Orders] /\ pending'[m] = o
             /\ \A x \in Mints : x # m => pending'[x] = pending[x]
  <2>1. pending \in [Mints -> Orders]
    BY <1>1 DEF OrderPart
  <2> QED
    BY <2>1, <1>4
<1>5. /\ pending' \in [Mints -> Orders]
      /\ \A x \in Mints : x # m => pending'[x] = pending[x]
      /\ \/ pending'[m].type = "none"
         \/ pending'[m].type = "sell" /\ m \in Held(state')
         \/ /\ pending'[m].type = "buy" /\ m \notin Held(state')
            /\ EntryMin <= pending'[m].level /\ pending'[m].level < EntryMax
  <2>1. CASE state'.positions[m] # None /\ v >= Exit
    <3>1. Sell("pre_grad_exit") \in Orders /\ Sell("pre_grad_exit").type = "sell"
      BY OrderKinds DEF Reasons
    <3>2. pending' = [pending EXCEPT ![m] = Sell("pre_grad_exit")]
      BY <1>3, <2>1 DEF Decide, MayEnter
    <3>3. pending'[m] = Sell("pre_grad_exit")
      BY <1>4, <3>1, <3>2
    <3> QED
      BY <1>2, <1>4, <2>1, <3>1, <3>2, <3>3
  <2>2. CASE pending' = [pending EXCEPT ![m] = NoOrder]
    <3>1. pending'[m] = NoOrder
      BY <1>4, <2>2, OrderKinds
    <3> QED
      BY <1>4, <2>2, <3>1, OrderKinds
  <2>3. CASE MayEnter(m, v) /\ pending' = [pending EXCEPT ![m] = Buy(v)]
    <3>1. /\ Buy(v) \in Orders /\ Buy(v).type = "buy" /\ Buy(v).level = v
      BY OrderKinds
    <3>2. m \notin Held(state') /\ EntryMin <= v /\ v < EntryMax
      BY <1>2, <2>3 DEF MayEnter
    <3>3. pending'[m] = Buy(v)
      BY <1>4, <2>3, <3>1
    <3> QED
      BY <1>4, <2>3, <3>1, <3>2, <3>3
  <2> QED
    BY <1>3, <2>1, <2>2, <2>3 DEF Decide
<1>6. overdue' \subseteq {x \in Mints : pending'[x].type = "sell"}
  BY <1>1, <1>3, <1>5 DEF OrderPart
<1>7. OrdersMatch'
  <2> SUFFICES ASSUME NEW x \in Mints
               PROVE  /\ pending'[x].type = "buy" => x \notin Held(state')
                      /\ pending'[x].type = "sell" => x \in Held(state')
    BY DEF OrdersMatch
  <2>1. CASE x = m
    BY <1>5, <2>1
  <2>2. CASE x # m
    BY <1>1, <1>2, <1>5, <2>2 DEF OrderPart, OrdersMatch
  <2> QED
    BY <2>1, <2>2
<1>8. ASSUME NEW x \in Mints, pending'[x].type = "buy"
      PROVE  EntryMin <= pending'[x].level /\ pending'[x].level < EntryMax
  <2>1. CASE x = m
    BY <1>5, <1>8, <2>1
  <2>2. CASE x # m
    BY <1>1, <1>5, <1>8, <2>2 DEF OrderPart
  <2> QED
    BY <2>1, <2>2
<1> QED
  BY <1>5, <1>6, <1>7, <1>8 DEF OrderPart, EntryMin, EntryMax

\* A migration pops the order of what it closes.
LEMMA MigrationOrders ==
  ASSUME Sound, NEW m \in Mints, OnMigration(m)
  PROVE  OrderPart'
<1>1. OrderPart
  BY DEF Sound
<1>2. Held(state') = Held(state) \ {m}
  BY MigrationBook
<1>3. pending' = [pending EXCEPT ![m] = NoOrder] /\ overdue' = overdue \ {m}
  BY DEF OnMigration
<1>4. /\ pending' \in [Mints -> Orders] /\ pending'[m].type = "none"
      /\ \A x \in Mints : x # m => pending'[x] = pending[x]
  BY <1>1, <1>3, OrderKinds DEF OrderPart
<1>5. overdue' \subseteq {x \in Mints : pending'[x].type = "sell"}
  BY <1>1, <1>3, <1>4 DEF OrderPart
<1>6. OrdersMatch'
  BY <1>1, <1>2, <1>4 DEF OrderPart, OrdersMatch
<1>7. \A x \in Mints : pending'[x].type = "buy"
        => EntryMin <= pending'[x].level /\ pending'[x].level < EntryMax
  BY <1>1, <1>4 DEF OrderPart
<1> QED
  BY <1>4, <1>5, <1>6, <1>7 DEF OrderPart, EntryMin, EntryMax

\* Sells are placed for what is held, and popped with what is closed.
LEMMA TickOrders ==
  ASSUME Sound, ManageTick
  PROVE  OrderPart'
<1>1. OrderPart
  BY DEF Sound
<1>2. Held(state') = Held(state) \ Orphans
  BY TickBook
<1>3. \A x \in Mints : /\ Placed[x] \in Orders
                       /\ Placed[x] = pending[x]
                            \/ (x \in Held(state) /\ Placed[x].type = "sell")
                       /\ pending[x].type = "sell" => Placed[x] = pending[x]
  <2> SUFFICES ASSUME NEW x \in Mints
               PROVE  /\ Placed[x] \in Orders
                      /\ Placed[x] = pending[x]
                           \/ (x \in Held(state) /\ Placed[x].type = "sell")
                      /\ pending[x].type = "sell" => Placed[x] = pending[x]
    OBVIOUS
  <2> DEFINE due == x \in Held(state) /\ pending[x].type # "sell" /\ (Dropped(x) \/ x \in aged)
             r == IF Dropped(x) THEN "disaster_stop" ELSE "timeout"
  <2>1. Placed[x] = IF due THEN Sell(r) ELSE pending[x]
    BY DEF Placed
  <2>2. Sell(r) \in Orders /\ Sell(r).type = "sell"
    BY OrderKinds DEF Reasons
  <2>3. pending[x] \in Orders
    BY <1>1 DEF OrderPart
  <2> QED
    BY <2>1, <2>2, <2>3
<1>4. \A x \in Mints : pending'[x] = Placed[x] \/ pending'[x] = NoOrder
  BY DEF ManageTick
<1>5. pending' \in [Mints -> Orders]
  <2>1. pending' = [x \in Mints |-> pending'[x]]
    BY DEF ManageTick
  <2> QED
    BY <1>3, <1>4, <2>1, OrderKinds
<1>6. \A x \in Orphans : pending'[x] = NoOrder
  <2>1. Orphans \subseteq Mints
    BY HeldFinite DEF Orphans
  <2> QED
    BY <2>1 DEF ManageTick
<1>7. \A x \in Mints \ Orphans :
        pending[x].type = "sell" => pending'[x] = pending[x]
  BY <1>3 DEF ManageTick
<1>8. overdue' \subseteq {x \in Mints : pending'[x].type = "sell"}
  BY <1>1, <1>7 DEF OrderPart, ManageTick
<1>9. OrdersMatch'
  <2> SUFFICES ASSUME NEW x \in Mints
               PROVE  /\ pending'[x].type = "buy" => x \notin Held(state')
                      /\ pending'[x].type = "sell" => x \in Held(state')
    BY DEF OrdersMatch
  <2>1. pending[x].type = "buy" => x \notin Held(state)
    BY <1>1 DEF OrderPart, OrdersMatch
  <2>2. pending[x].type = "sell" => x \in Held(state)
    BY <1>1 DEF OrderPart, OrdersMatch
  <2>3. x \in Orphans => pending'[x].type = "none"
    BY <1>6, OrderKinds
  <2> QED
    BY <1>2, <1>3, <1>4, <2>1, <2>2, <2>3, OrderKinds
<1>10. \A x \in Mints : pending'[x].type = "buy"
        => EntryMin <= pending'[x].level /\ pending'[x].level < EntryMax
  BY <1>1, <1>3, <1>4, OrderKinds DEF OrderPart
<1> QED
  BY <1>5, <1>8, <1>9, <1>10 DEF OrderPart, EntryMin, EntryMax

\* Every step keeps the book and the orders.
LEMMA BookOrderStep ==
  ASSUME Sound, [Next]_vars
  PROVE  BookPart' /\ OrderPart'
<1>1. CASE Quietly
  BY <1>1, QuietOrders, BookKept DEF Sound
<1>2. CASE TailSaves
  <2>1. Book(state) /\ OrderPart
    BY DEF Sound, BookPart
  <2>2. state' = state /\ disk' = state /\ UNCHANGED <<pending, overdue>>
    BY <1>2 DEF TailSaves
  <2>3. BookPart'
    BY <2>1, <2>2, BookSaved
  <2> QED
    BY <2>1, <2>2, <2>3 DEF OrderPart, OrdersMatch
<1>3. ASSUME NEW m \in Mints, NEW v \in Levels, PollAnswers(m, v)
      PROVE  BookPart' /\ OrderPart'
  BY <1>3, PollBook, PollOrders
<1>4. ASSUME NEW m \in Mints, PollMigrated(m) \/ WebsocketMigrated(m)
      PROVE  BookPart' /\ OrderPart'
  BY <1>4, MigrationBook, MigrationOrders DEF PollMigrated, WebsocketMigrated
<1>5. CASE ManageTick
  BY <1>5, TickBook, TickOrders
<1>6. CASE Deaths
  <2>1. PICK d : Die(d) /\ BookPart'
    BY <1>6, DeathBook
  <2>2. pending' = [m \in Mints |-> NoOrder] /\ overdue' = {}
    BY <2>1 DEF Die
  <2>3. OrderPart'
    BY <2>2, OrderKinds DEF OrderPart, OrdersMatch
  <2> QED
    BY <2>1, <2>3
<1> QED
  BY <1>1, <1>2, <1>3, <1>4, <1>5, <1>6, Steps

\* A request in flight keeps its kind, or its tracker is gone.
LEMMA DropTrackerType ==
  ASSUME TrackPart, NEW D
  PROVE  DropTracker(D) \in [Mints -> {"idle", "live", "stale"}]
  BY DEF TrackPart, DropTracker

\* Times of quiet trackers are dropped with them.
LEMMA TrackStep ==
  ASSUME Sound, [Next]_vars
  PROVE  TrackPart'
<1>1. TrackPart
  BY DEF Sound
<1>2. CASE Quietly
  <2>1. CASE \E m \in Mints, v \in Levels : Discover(m, v)
    BY <1>1, <2>1, Limits DEF Discover, TrackPart, Tracked
  <2>2. CASE \E m \in Mints, v \in Levels : Evict(m, v)
    <3>1. PICK m \in Mints, v \in Levels : Evict(m, v)
      BY <2>2
    <3>2. trackers[m] = None
      BY <3>1 DEF Evict, HotNewcomer
    <3>3. PICK c \in Tracked : /\ trackers' = [trackers EXCEPT ![c] = None, ![m] = v]
                              /\ poll' = DropTracker({c}) /\ quiet' = quiet \ {c}
      BY <3>1 DEF Evict
    <3>4. c \in Mints /\ c # m
      BY <3>2, <3>3 DEF Tracked
    <3>5. /\ trackers' \in [Mints -> Levels \cup {None}]
          /\ \A x \in Mints \ {c} : trackers[x] # None => trackers'[x] # None
      BY <1>1, <3>3, <3>4, Limits DEF TrackPart
    <3>6. quiet' \subseteq {x \in Mints : trackers'[x] # None}
      BY <1>1, <3>3, <3>5 DEF TrackPart, Tracked
    <3> QED
      BY <1>1, <3>3, <3>5, <3>6, DropTrackerType DEF TrackPart, Tracked
  <2>3. CASE PollRound
    BY <1>1, <2>3 DEF PollRound, TrackPart, Tracked
  <2>4. CASE \E m \in Mints : PollFails(m)
    BY <1>1, <2>4 DEF PollFails, TrackPart, Tracked
  <2>5. CASE \E m \in Mints : Quiet(m)
    BY <1>1, <2>5 DEF Quiet, TrackPart, Tracked
  <2>6. CASE UNCHANGED <<trackers, poll, quiet>>
    BY <1>1, <2>6 DEF TrackPart, Tracked
  <2> QED
    BY <1>2, <2>1, <2>2, <2>3, <2>4, <2>5, <2>6
       DEF Quietly, Restart, Operator, Age, Delay, vars
<1>3. CASE TailSaves
  BY <1>1, <1>3 DEF TailSaves, TrackPart, Tracked
<1>4. ASSUME NEW m \in Mints, NEW v \in Levels, PollAnswers(m, v)
      PROVE  TrackPart'
  <2>1. poll' \in [Mints -> {"idle", "live", "stale"}]
    BY <1>1, <1>4 DEF PollAnswers, TrackPart
  <2>2. /\ trackers' \in [Mints -> Levels \cup {None}]
        /\ \A x \in Mints : trackers[x] # None => trackers'[x] # None
    BY <1>1, <1>4, Limits DEF PollAnswers, TrackPart
  <2>3. quiet' \subseteq quiet
    BY <1>4 DEF PollAnswers
  <2> QED
    BY <1>1, <2>1, <2>2, <2>3 DEF TrackPart, Tracked
<1>5. ASSUME NEW m \in Mints, PollMigrated(m) \/ WebsocketMigrated(m)
      PROVE  TrackPart'
  <2>1. trackers' = [trackers EXCEPT ![m] = None] /\ quiet' = quiet \ {m}
    BY <1>5 DEF PollMigrated, WebsocketMigrated, OnMigration
  <2>2. /\ trackers' \in [Mints -> Levels \cup {None}]
        /\ \A x \in Mints \ {m} : trackers'[x] = trackers[x]
    BY <1>1, <2>1 DEF TrackPart
  <2>3. poll' \in [Mints -> {"idle", "live", "stale"}]
    <3>1. CASE PollMigrated(m)
      BY <1>1, <3>1 DEF PollMigrated, TrackPart
    <3>2. CASE WebsocketMigrated(m)
      BY <1>1, <3>2, DropTrackerType DEF WebsocketMigrated
    <3> QED
      BY <1>5, <3>1, <3>2
  <2> QED
    BY <1>1, <2>1, <2>2, <2>3 DEF TrackPart, Tracked
<1>6. CASE ManageTick
  <2>1. /\ trackers' = [x \in Mints |-> IF Droppable(x, state') THEN None ELSE trackers[x]]
        /\ poll' = DropTracker({x \in Mints : trackers'[x] = None})
        /\ quiet' = {x \in quiet : trackers'[x] # None}
    BY <1>6 DEF ManageTick
  <2>2. trackers' \in [Mints -> Levels \cup {None}]
    BY <1>1, <2>1 DEF TrackPart
  <2>3. poll' \in [Mints -> {"idle", "live", "stale"}]
    BY <1>1, <2>1, DropTrackerType
  <2> QED
    BY <1>1, <2>1, <2>2, <2>3 DEF TrackPart, Tracked
<1>7. CASE Deaths
  <2>1. PICK d : Die(d)
    BY <1>7, DeathBook
  <2> QED
    BY <2>1 DEF Die, TrackPart, Tracked
<1> QED
  BY <1>2, <1>3, <1>4, <1>5, <1>6, <1>7, Steps

\* Ages are kept of what is held, and the counters within their bounds.
LEMMA RestStep ==
  ASSUME Sound, [Next]_vars
  PROVE  RestPart'
<1>1. RestPart
  BY DEF Sound
<1>2. MaxOrders \in Nat /\ MaxCrashes \in Nat
  BY Limits
<1>3. CASE Quietly
  <2>1. Held(state') = Held(state) /\ UNCHANGED <<orders, crashes>>
    BY <1>3, QuietOrders
  <2>2. aged' = aged \/ \E m \in Held(state) : aged' = aged \cup {m}
    BY <1>3 DEF Quietly, Discover, Evict, PollRound, PollFails, Restart, Operator,
                Age, Delay, Quiet, vars
  <2>3. up' \in BOOLEAN /\ kill' \in BOOLEAN
    BY <1>1, <1>3, Zenon DEF RestPart, Quietly, Discover, Evict, PollRound, PollFails, Restart,
                      Operator, Age, Delay, Quiet, vars
  <2> QED
    BY <1>1, <2>1, <2>2, <2>3 DEF RestPart
<1>4. CASE TailSaves
  BY <1>1, <1>4 DEF TailSaves, RestPart
<1>5. ASSUME NEW m \in Mints, NEW v \in Levels, PollAnswers(m, v)
      PROVE  RestPart'
  <2>1. UNCHANGED <<up, kill, crashes>>
    BY <1>5 DEF PollAnswers
  <2>2. orders' \in 0..MaxOrders
    <3>1. orders' = orders \/ (orders < MaxOrders /\ orders' = orders + 1)
      BY <1>5 DEF PollAnswers, Decide, MayEnter
    <3> QED
      BY <1>1, <1>2, <3>1 DEF RestPart
  <2>3. aged' \subseteq Held(state')
    BY <1>1, <1>5, PollBook DEF RestPart
  <2> QED
    BY <1>1, <2>1, <2>2, <2>3 DEF RestPart
<1>6. ASSUME NEW m \in Mints, OnMigration(m)
      PROVE  RestPart'
  <2>1. Held(state') = Held(state) \ {m}
    BY <1>6, MigrationBook
  <2>2. aged' = aged \ {m} /\ UNCHANGED <<up, kill, orders, crashes>>
    BY <1>6 DEF OnMigration
  <2> QED
    BY <1>1, <2>1, <2>2 DEF RestPart
<1>7. CASE ManageTick
  <2>1. Held(state') = Held(state) \ Orphans
    BY <1>7, TickBook
  <2>2. aged' = aged \ Orphans /\ UNCHANGED <<up, kill, orders, crashes>>
    BY <1>7 DEF ManageTick
  <2> QED
    BY <1>1, <2>1, <2>2 DEF RestPart
<1>8. CASE Deaths
  <2>1. PICK d : Die(d) /\ crashes' \in 0..MaxCrashes
    BY <1>8, DeathBook
  <2>2. /\ up' = FALSE /\ kill' = kill /\ orders' = orders
        /\ state' = d /\ aged' = aged \cap Held(d)
    BY <2>1 DEF Die
  <2>3. aged' \subseteq Held(state')
    BY <2>2
  <2> QED
    BY <1>1, <2>1, <2>2, <2>3 DEF RestPart
<1> QED
  BY <1>3, <1>4, <1>5, <1>6, <1>7, <1>8, Steps DEF PollMigrated, WebsocketMigrated

-----------------------------------------------------------------------------
(* The theorems                                                            *)

\* Sound is inductive.
LEMMA SoundAlways == Spec => []Sound
<1>1. Sound /\ [Next]_vars => Sound'
  BY BookOrderStep, TrackStep, RestStep DEF Sound
<1> QED
  BY <1>1, SoundInit, PTL DEF Spec

\* Every variable keeps its type, the times in memory those of what exists.
THEOREM SniperTyped == Spec => []TypeOK
  BY SoundAlways, SoundImplies, PTL

\* However many buys are in flight when a slot opens, the book never holds more
\* than MAX_CONCURRENT positions, in memory or in the file.
THEOREM SlotsHold == Spec => []SlotLimit
  BY SoundAlways, SoundImplies, PTL

\* No buy is pending of what is held, no sell of what is not.
THEOREM OrdersAgree == Spec => []OrdersMatch
  BY SoundAlways, SoundImplies, PTL

\* No position is opened or closed on a fee that was not charged.
THEOREM FeesCharged == Spec => []NoPhantomFee
  BY SoundAlways, SoundImplies, PTL

\* At every await the file is the memory, but for fees of refused buys.
THEOREM FileIsMemory == Spec => []Durable
  BY SoundAlways, SoundImplies, PTL

\* A buy that is reverted or finds no slot is not decided again in the same poll:
\* what moved beyond the slippage bound has left the entry band, which is
\* narrower, and a full book refuses the decision as it refused the fill.
THEOREM RetriesWait == Spec => NoInstantRetry
<1> DEFINE Waits == orders' > orders
                      => \E m \in Mints : pending[m].type # "buy" /\ pending'[m].type = "buy"
<1>1. ASSUME Sound, [Next]_vars
      PROVE  Waits
  <2>0. orders \in Nat
    BY <1>1, Limits DEF Sound, RestPart
  <2>1. ASSUME NEW m \in Mints, NEW v \in Levels, PollAnswers(m, v), orders' # orders
        PROVE  pending[m].type # "buy" /\ pending'[m].type = "buy"
    <3>1. MayEnter(m, v) /\ pending' = [pending EXCEPT ![m] = Buy(v)]
      BY <2>1 DEF PollAnswers, Decide
    <3>2. pending'[m] = Buy(v)
      <4>1. pending \in [Mints -> Orders]
        BY <1>1 DEF Sound, OrderPart
      <4> QED
        BY <3>1, <4>1
    <3>3. pending'[m].type = "buy"
      BY <3>2, OrderKinds
    <3>4. ASSUME pending[m].type = "buy"
          PROVE  FALSE
      <4>1. state'.positions[m] = None /\ Cardinality(Held(state')) < MaxConcurrent
        BY <3>1 DEF MayEnter
      <4>2. m \notin Held(state')
        BY <4>1 DEF Held
      <4>3. Held(state') = Held(state)
        BY <1>1, <2>1, <3>4, <4>2, PollBook
      <4>4. ~Full(state)
        BY <4>1, <4>3, HeldFinite, Limits DEF Full
      <4>5. BuyLands(m, v)
        BY <2>1, <3>4, OrderKinds DEF PollAnswers, SellLands, NothingPending
      <4>6. Slipped(pending[m].level, v)
        BY <1>1, <2>1, <3>4, <4>2, <4>3, <4>4, <4>5, PollFills
      <4>7. pending[m].level \in 160..161 /\ v \in 160..161
        <5>1. pending[m].level \in Nat
          <6>1. PICK l \in Levels : pending[m] = Buy(l)
            BY <1>1, <3>4, OrderKinds DEF Sound, OrderPart
          <6> QED
            BY <6>1, OrderKinds, Limits
        <5>2. EntryMin <= pending[m].level /\ pending[m].level < EntryMax
          BY <1>1, <3>4 DEF Sound, OrderPart
        <5>3. v \in Nat /\ EntryMin <= v /\ v < EntryMax
          BY <3>1, Limits DEF MayEnter
        <5> QED
          BY <5>1, <5>2, <5>3, Limits
      <4> QED
        BY <4>6, <4>7, BandWithinSlippage
    <3> QED
      BY <3>3, <3>4
  <2>2. CASE Quietly
    BY <1>1, <2>0, <2>2, QuietOrders
  <2>3. CASE TailSaves \/ ManageTick \/ Deaths
                 \/ \E m \in Mints : PollMigrated(m) \/ WebsocketMigrated(m)
    <3>1. Deaths => orders' = orders
      BY <1>1, DeathBook DEF Die
    <3>2. orders' = orders
      BY <2>3, <3>1 DEF TailSaves, ManageTick, PollMigrated, WebsocketMigrated, OnMigration
    <3> QED
      BY <2>0, <3>2
  <2>4. ASSUME NEW m \in Mints, NEW v \in Levels, PollAnswers(m, v)
        PROVE  Waits
    BY <2>0, <2>1, <2>4
  <2> QED
    BY <1>1, <2>2, <2>3, <2>4, Steps
<1>2. Sound /\ [Next]_vars => [Waits]_vars
  BY <1>1
<1> QED
  BY <1>2, SoundAlways, PTL DEF Spec, NoInstantRetry

-----------------------------------------------------------------------------
(* GraduationSniper implements OrderLifecycle: what is held is what the    *)
(* lifecycle calls owned, and each kind of step takes every mint where the *)
(* lifecycle allows.                                                       *)

\* The stage of a mint, from the book and its order.
LEMMA StageOf ==
  /\ stage \in [Mints -> Lifecycle!Stages]
  /\ \A x \in Mints :
       stage[x] = IF x \in Held(state)
                    THEN IF pending[x].type = "sell" THEN "selling" ELSE "held"
                    ELSE IF pending[x].type = "buy" THEN "buying" ELSE "idle"
  /\ Lifecycle!Owned(stage) = Held(state)
<1>1. \A x \in Mints :
        stage[x] = IF x \in Held(state)
                     THEN IF pending[x].type = "sell" THEN "selling" ELSE "held"
                     ELSE IF pending[x].type = "buy" THEN "buying" ELSE "idle"
  BY DEF stage
<1>2. stage \in [Mints -> Lifecycle!Stages]
  BY DEF stage, Lifecycle!Stages
<1>3. Lifecycle!Owned(stage) = Held(state)
  BY <1>1, HeldFinite DEF Lifecycle!Owned
<1> QED
  BY <1>1, <1>2, <1>3

\* The same, after a step.
LEMMA StageNext ==
  /\ stage' \in [Mints -> Lifecycle!Stages]
  /\ \A x \in Mints :
       stage'[x] = IF x \in Held(state')
                     THEN IF pending'[x].type = "sell" THEN "selling" ELSE "held"
                     ELSE IF pending'[x].type = "buy" THEN "buying" ELSE "idle"
  /\ Lifecycle!Owned(stage') = Held(state')
<1>1. \A x \in Mints :
        stage'[x] = IF x \in Held(state')
                      THEN IF pending'[x].type = "sell" THEN "selling" ELSE "held"
                      ELSE IF pending'[x].type = "buy" THEN "buying" ELSE "idle"
  BY DEF stage
<1>2. stage' \in [Mints -> Lifecycle!Stages]
  BY DEF stage, Lifecycle!Stages
<1>3. Lifecycle!Owned(stage') = Held(state')
  BY <1>1, HeldFinite DEF Lifecycle!Owned
<1> QED
  BY <1>1, <1>2, <1>3

\* The lifecycle counts as the sniper does.
LEMMA SameCardinality == \A S : Lifecycle!Cardinality(S) = Cardinality(S)
  BY DEF Cardinality, Lifecycle!Cardinality, IsFiniteSet, Lifecycle!IsFiniteSet

\* The slots bound what is owned.
LEMMA SlotsNext ==
  ASSUME BookPart'
  PROVE  Lifecycle!Cardinality(Lifecycle!Owned(stage')) <= MaxConcurrent
<1>1. Cardinality(Held(state')) <= MaxConcurrent
  BY DEF BookPart, Book
<1> QED
  BY <1>1, StageNext, SameCardinality

\* A mint whose holding and order a step leaves alone keeps its stage.
LEMMA StageKept ==
  ASSUME NEW x \in Mints, x \in Held(state') <=> x \in Held(state),
         pending'[x] = pending[x]
  PROVE  stage'[x] \in Lifecycle!Successors(stage[x])
<1>1. stage'[x] = stage[x]
  BY StageOf, StageNext
<1> QED
  BY <1>1, StageOf DEF Lifecycle!Successors

\* A live step follows the lifecycle if its mints do.
LEMMA TradeNext ==
  ASSUME BookPart',
         \A x \in Mints : stage'[x] \in Lifecycle!Successors(stage[x])
  PROVE  Lifecycle!Next
<1>1. Lifecycle!Cardinality(Lifecycle!Owned(stage')) <= MaxConcurrent
  BY SlotsNext
<1> QED
  BY <1>1, StageNext DEF Lifecycle!Next, Lifecycle!Trade

\* An answered poll fills or refuses an order, and may decide another.
LEMMA PollTrades ==
  ASSUME Sound, NEW m \in Mints, NEW v \in Levels, PollAnswers(m, v)
  PROVE  \A x \in Mints : stage'[x] \in Lifecycle!Successors(stage[x])
<1> SUFFICES ASSUME NEW x \in Mints
             PROVE  stage'[x] \in Lifecycle!Successors(stage[x])
  OBVIOUS
<1>1. CASE x # m
  BY <1>1, PollBook, PollOrders, StageKept
<1>2. CASE x = m
  <2>1. /\ pending'[m].type = "buy" => m \notin Held(state')
        /\ pending'[m].type = "sell" => m \in Held(state')
    BY PollOrders DEF OrderPart, OrdersMatch
  <2>2. /\ pending[m].type = "buy" => m \notin Held(state)
        /\ pending[m].type = "sell" => m \in Held(state)
    BY DEF Sound, OrderPart, OrdersMatch
  <2>3. CASE pending[m].type = "sell"
    <3>1. m \notin Held(state')
      BY <2>3, PollBook
    <3>2. stage[m] = "selling" /\ stage'[m] \in {"idle", "buying"}
      BY <2>2, <2>3, <3>1, StageOf, StageNext
    <3> QED
      BY <1>2, <3>2 DEF Lifecycle!Successors
  <2>4. CASE pending[m].type = "buy"
    <3>1. stage[m] = "buying"
      BY <2>2, <2>4, StageOf
    <3>2. stage'[m] \in Lifecycle!Stages
      BY StageNext
    <3> QED
      BY <1>2, <3>1, <3>2 DEF Lifecycle!Successors, Lifecycle!Stages
  <2>5. CASE pending[m].type \notin {"sell", "buy"}
    <3>1. m \in Held(state') <=> m \in Held(state)
      BY <2>5, PollBook
    <3>2. CASE m \in Held(state)
      <4>1. stage[m] = "held" /\ stage'[m] \in {"held", "selling"}
        BY <2>5, <3>1, <3>2, StageOf, StageNext
      <4> QED
        BY <1>2, <4>1 DEF Lifecycle!Successors
    <3>3. CASE m \notin Held(state)
      <4>1. stage[m] = "idle" /\ stage'[m] \in {"idle", "buying"}
        BY <2>5, <3>1, <3>3, StageOf, StageNext
      <4> QED
        BY <1>2, <4>1 DEF Lifecycle!Successors
    <3> QED
      BY <3>2, <3>3
  <2> QED
    BY <2>3, <2>4, <2>5
<1> QED
  BY <1>1, <1>2

\* A graduation closes what is held and drops the order.
LEMMA MigrationTrades ==
  ASSUME Sound, NEW m \in Mints, OnMigration(m)
  PROVE  \A x \in Mints : stage'[x] \in Lifecycle!Successors(stage[x])
<1>1. Held(state') = Held(state) \ {m}
  BY MigrationBook
<1>2. /\ pending'[m] = NoOrder
      /\ \A x \in Mints : x # m => pending'[x] = pending[x]
  BY DEF OnMigration, Sound, OrderPart
<1>3. ASSUME NEW x \in Mints
      PROVE  stage'[x] \in Lifecycle!Successors(stage[x])
  <2>1. CASE x # m
    BY <1>1, <1>2, <2>1, StageKept
  <2>2. CASE x = m
    <3>1. stage'[m] = "idle"
      BY <1>1, <1>2, StageNext, OrderKinds
    <3>2. stage[m] \in Lifecycle!Stages
      BY StageOf
    <3> QED
      BY <2>2, <3>1, <3>2 DEF Lifecycle!Successors, Lifecycle!Stages
  <2> QED
    BY <2>1, <2>2
<1> QED
  BY <1>3

\* A tick closes overdue sells, places sells and prunes buys.
LEMMA TickTrades ==
  ASSUME Sound, ManageTick
  PROVE  \A x \in Mints : stage'[x] \in Lifecycle!Successors(stage[x])
<1> SUFFICES ASSUME NEW x \in Mints
             PROVE  stage'[x] \in Lifecycle!Successors(stage[x])
  OBVIOUS
<1>1. Held(state') = Held(state) \ Orphans
  BY TickBook
<1>2. /\ pending[x].type = "buy" => x \notin Held(state)
      /\ pending[x].type = "sell" => x \in Held(state)
  BY DEF Sound, OrderPart, OrdersMatch
<1>3. pending'[x] = IF x \in Orphans \/ (Placed[x].type = "buy" /\ trackers'[x] = None)
                      THEN NoOrder ELSE Placed[x]
  BY DEF ManageTick
<1>4. CASE x \in Orphans
  <2>1. stage[x] = "selling"
    BY <1>4, StageOf DEF Orphans
  <2>2. stage'[x] = "idle"
    BY <1>1, <1>3, <1>4, StageNext, OrderKinds
  <2> QED
    BY <2>1, <2>2 DEF Lifecycle!Successors
<1>5. CASE x \in Held(state) \ Orphans
  <2>1. x \in Held(state')
    BY <1>1, <1>5
  <2>2. CASE pending[x].type = "sell"
    <3>1. Placed[x] = pending[x]
      BY <2>2 DEF Placed
    <3>2. pending'[x] = pending[x]
      BY <1>3, <1>5, <2>2, <3>1
    <3> QED
      BY <1>5, <2>1, <3>2, StageKept
  <2>3. CASE pending[x].type # "sell"
    <3>1. stage[x] = "held" /\ stage'[x] \in {"held", "selling"}
      BY <1>5, <2>1, <2>3, StageOf, StageNext
    <3> QED
      BY <3>1 DEF Lifecycle!Successors
  <2> QED
    BY <2>2, <2>3
<1>6. CASE x \notin Held(state)
  <2>1. x \notin Held(state')
    BY <1>1, <1>6
  <2>2. Placed[x] = pending[x]
    BY <1>6 DEF Placed
  <2>3. pending'[x] = pending[x] \/ pending'[x] = NoOrder
    BY <1>3, <2>2
  <2>4. CASE pending'[x] = pending[x]
    BY <1>6, <2>1, <2>4, StageKept
  <2>5. CASE pending'[x] = NoOrder
    <3>1. stage'[x] = "idle" /\ stage[x] \in {"idle", "buying"}
      BY <1>6, <2>1, <2>5, StageOf, StageNext, OrderKinds
    <3> QED
      BY <3>1 DEF Lifecycle!Successors
  <2> QED
    BY <2>3, <2>4, <2>5
<1> QED
  BY <1>4, <1>5, <1>6 DEF Orphans

\* A death forgets the orders and opens nothing.
LEMMA DeathDies ==
  ASSUME Sound, Deaths
  PROVE  Lifecycle!Next
<1>1. PICK d : Die(d) /\ Held(d) \subseteq Held(state) /\ BookPart'
  BY DeathBook
<1>2. state' = d /\ pending' = [x \in Mints |-> NoOrder]
  BY <1>1 DEF Die
<1>3. \A x \in Mints : stage'[x] = IF x \in Held(d) THEN "held" ELSE "idle"
  BY <1>2, StageNext, OrderKinds
<1>4. Lifecycle!Die
  BY <1>1, <1>3, StageOf DEF Lifecycle!Die
<1> QED
  BY <1>1, <1>4, StageNext, SlotsNext DEF Lifecycle!Next

\* Every step of the sniper is a step of the lifecycle, or leaves it alone.
LEMMA LifecycleStep ==
  ASSUME Sound, [Next]_vars
  PROVE  Lifecycle!Next \/ UNCHANGED stage
<1>1. CASE Quietly \/ TailSaves
  <2>1. UNCHANGED <<state, pending>>
    BY <1>1, QuietOrders DEF TailSaves
  <2> QED
    BY <2>1 DEF stage
<1>2. ASSUME NEW m \in Mints, NEW v \in Levels, PollAnswers(m, v)
      PROVE  Lifecycle!Next
  BY <1>2, PollTrades, PollBook, TradeNext
<1>3. ASSUME NEW m \in Mints, PollMigrated(m) \/ WebsocketMigrated(m)
      PROVE  Lifecycle!Next
  <2>1. OnMigration(m)
    BY <1>3 DEF PollMigrated, WebsocketMigrated
  <2> QED
    BY <2>1, MigrationTrades, MigrationBook, TradeNext
<1>4. CASE ManageTick
  BY <1>4, TickTrades, TickBook, TradeNext
<1>5. CASE Deaths
  BY <1>5, DeathDies
<1> QED
  BY <1>1, <1>2, <1>3, <1>4, <1>5, Steps

\* Each mint goes through the life of an order: bought in an earlier step than
\* it is filled, owned until it is closed, never more of them than slots, and
\* through a death with its position or closed just before.
THEOREM SniperImplementsLifecycle == Spec => LifecycleSpec
<1>1. Init => Lifecycle!Init
  <2> SUFFICES ASSUME Init PROVE stage = [x \in Mints |-> "idle"]
    BY DEF Lifecycle!Init
  <2>1. Held(state) = {} /\ \A x \in Mints : pending[x].type # "buy"
    BY BookFresh, OrderKinds DEF Init
  <2> QED
    BY <2>1 DEF stage
<1>2. Sound /\ [Next]_vars => [Lifecycle!Next]_stage
  BY LifecycleStep
<1> QED
  BY <1>1, <1>2, SoundAlways, PTL DEF Spec, LifecycleSpec, Lifecycle!Spec
=============================================================================
