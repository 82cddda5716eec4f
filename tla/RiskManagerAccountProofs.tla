--------------------- MODULE RiskManagerAccountProofs --------------------
(***************************************************************************)
(* The accounts of RiskManager.  First, single accounting, without         *)
(* dashboard sells and crashes (RecordedOnce): the invariant says of every *)
(* object somebody may still sell from (it is in the book, or a take-profit*)
(* leg holds it) that what is recorded and what it still carries fit into  *)
(* what it cost, and that a leg's object is not inside _force_sell at the  *)
(* same time.  Then the capital in open positions, with everything         *)
(* (ExposureCap): the sums it is made of only shrink, but for the one buy  *)
(* in flight.  Last, that the engine implements AtomicBook                 *)
(* (ImplementsAtomicBook).                                                 *)
(***************************************************************************)
EXTENDS RiskManagerSafetyProofs

Fits(o) == recorded[o] + pos[o].sol <= spent[o]

Bounded(o) == recorded[o] <= spent[o] /\ (o > nobj => recorded[o] = 0)

AccountInv ==
  crashes.count = 0 =>
    /\ up
    /\ \A o \in Objs : Bounded(o)
    /\ \A m \in Mints : positions[m] # None => Fits(positions[m])
    /\ mon.pc = "leg" => Fits(mon.obj) /\ sell[Monitor].pc = "idle"

\* The monitor's leg, if it has one, works on an accounted object.
LegFits == mon.pc = "leg" => Fits(mon.obj) /\ sell[Monitor].pc = "idle"

\* Numbers the account is made of.
LEMMA AccountTypes ==
  ASSUME Typed
  PROVE  /\ \A o \in Objs : pos[o].sol \in Nat /\ recorded[o] \in Nat /\ spent[o] \in Nat
         /\ \A m \in Mints : positions[m] # None => positions[m] \in Objs /\ positions[m] <= nobj
         /\ mon.pc = "leg" => mon.obj \in Objs /\ mon.obj <= nobj
         /\ nobj \in Nat
<1>1. Parts
  BY TypedParts
<1>2. \A o \in Objs : pos[o].sol \in Nat
  BY <1>1 DEF Parts, Position
<1>3. \A o \in Objs : recorded[o] \in Nat /\ spent[o] \in Nat
  BY <1>1 DEF Parts, HistoryTypes
<1>4. nobj \in 0..MaxBuys
  BY <1>1 DEF Parts
<1>5. \A m \in Mints : positions[m] # None => positions[m] \in Objs /\ positions[m] <= nobj
  BY <1>1, <1>4, LimitsAssumption DEF Parts, BookOK, Objs, None
<1>6. mon.pc = "leg" => mon.obj \in Objs /\ mon.obj <= nobj
  BY <1>1, <1>4, LimitsAssumption DEF Parts, MonOK, Objs
<1> QED
  BY <1>2, <1>3, <1>4, <1>5, <1>6, LimitsAssumption

\* A step that leaves the accounts and the cost basis of every object alone
\* and adds nothing to the book.
LEMMA AccountKept ==
  ASSUME AccountInv, UNCHANGED <<up, nobj, spent, recorded, crashes>>, Typed,
         \A o \in Objs : pos'[o].sol = pos[o].sol,
         \A m \in Mints : positions'[m] # None => positions'[m] = positions[m],
         crashes.count = 0 => LegFits'
  PROVE  AccountInv'
<1> SUFFICES ASSUME crashes.count = 0
             PROVE  /\ up'
                    /\ \A o \in Objs : Bounded(o)'
                    /\ \A m \in Mints : positions'[m] # None => Fits(positions[m])'
                    /\ LegFits'
  <2>1. \A m \in Mints : positions'[m] # None => positions'[m] = positions[m]
    OBVIOUS
  <2> QED
    BY <2>1 DEF AccountInv, LegFits, Fits
<1>1. up' /\ \A o \in Objs : Bounded(o)'
  BY DEF AccountInv, Bounded
<1>2. ASSUME NEW m \in Mints, positions'[m] # None
      PROVE  recorded'[positions[m]] + pos'[positions[m]].sol <= spent'[positions[m]]
  <2>1. positions[m] \in Objs /\ positions[m] # None
    BY <1>2, AccountTypes
  <2> QED
    BY <2>1 DEF AccountInv, Fits
<1> QED
  BY <1>1, <1>2 DEF Fits

\* The rest of a check either sells a leg of the object it was given or ends.
LEMMA NextLeg ==
  ASSUME NEW m, NEW o, NEW from, NEW reach, NEW todo, NEW q,
         ContinueCheck(m, o, from, reach, todo, q), mon'.pc = "leg"
  PROVE  mon'.obj = o /\ sell' = sell
<1>1. CASE mon' = [MonIdle EXCEPT !.pc = "check", !.todo = todo]
  <2>1. mon'.pc = "check"
    BY <1>1 DEF MonIdle
  <2> QED
    BY <2>1
<1>2. ASSUME NEW l, mon' = [pc |-> "leg", todo |-> todo, mint |-> m, obj |-> o,
                            lvl |-> l, reach |-> reach]
      PROVE  mon'.obj = o
  BY <1>2
<1> QED
  BY <1>1, <1>2 DEF ContinueCheck

\* The steps of the loops that sell: the monitor's next leg is on an object of
\* the book, or on the one its last leg was on.
LEMMA CheckAccount ==
  ASSUME AccountInv, Typed, Clicks = {}, SellStep
  PROVE  AccountInv'
<1>1. /\ UNCHANGED <<up, pos, nobj, spent, recorded, crashes>>
      /\ \A m \in Mints : positions'[m] # None => positions'[m] = positions[m]
  <2>1. UNCHANGED <<up, pos, nobj, spent, recorded, crashes>>
    BY SellStepFrame
  <2>2. PICK m \in Mints : positions' \in {positions, Drop(positions, m)}
    BY SellStepFrame
  <2>3. positions \in [Mints -> 0..MaxBuys]
    BY TypedParts DEF Parts, BookOK
  <2> QED
    BY <2>1, <2>2, <2>3 DEF Drop, None
<1>2. ASSUME crashes.count = 0
      PROVE  LegFits'
  <2>1. ASSUME NEW m \in Mints, EmergencySell(m) \/ CheckStops(m)
        PROVE  mon'.pc # "leg"
    <3>1. mon' = [mon EXCEPT !.todo = @ \ {m}] /\ mon.pc # "leg"
      BY <2>1 DEF EmergencySell, CheckStops, MonitorFree
    <3>2. mon \in MonType
      BY TypedParts DEF Parts, MonOK
    <3> QED
      BY <3>1, <3>2 DEF MonType
  <2>2. ASSUME NEW m \in Mints, CheckLadder(m), mon'.pc = "leg"
        PROVE  /\ mon'.obj = positions[m] /\ positions[m] # None
               /\ sell' = sell /\ sell[Monitor].pc = "idle"
    BY <2>2, NextLeg DEF CheckLadder, MonitorFree
  <2>3. ASSUME LegFails, mon'.pc = "leg"
        PROVE  mon'.obj = mon.obj /\ mon.pc = "leg" /\ sell' = sell
    BY <2>3, NextLeg DEF LegFails
  <2>4. CASE \E m \in Mints : EmergencySell(m) \/ CheckStops(m)
    BY <2>1, <2>4 DEF LegFits
  <2>5. CASE \E m \in Mints : CheckLadder(m)
    BY <1>1, <1>2, <2>2, <2>5 DEF LegFits, AccountInv, Fits
  <2>6. CASE LegFails
    BY <1>1, <1>2, <2>3, <2>6 DEF LegFits, AccountInv, Fits
  <2> QED
    BY <2>4, <2>5, <2>6 DEF SellStep
<1> QED
  BY <1>1, <1>2, AccountKept

\* A step after which object o has left the book for good: its remaining basis
\* is recorded, nobody holds it any more.
LEMMA AccountClosed ==
  ASSUME AccountInv, Typed, UNCHANGED <<up, nobj, spent, crashes>>,
         NEW m \in Mints, NEW q \in [Objs -> Position], ClosePosition(m, q), pos' = q,
         \A o \in Objs : q[o].sol <= pos[o].sol /\ q[o].mint = pos[o].mint,
         mon'.pc # "leg"
  PROVE  AccountInv'
<1> SUFFICES ASSUME crashes.count = 0
             PROVE  /\ \A o \in Objs : Bounded(o)'
                    /\ \A n \in Mints : positions'[n] # None => Fits(positions[n])'
  BY DEF AccountInv
<1> DEFINE c == positions[m]
<1>1. positions \in [Mints -> 0..MaxBuys] /\ recorded \in [Objs -> Nat]
  BY TypedParts DEF Parts, BookOK, HistoryTypes
<1>2. \A o \in Objs : q[o].sol \in Nat /\ pos[o].sol \in Nat /\ spent[o] \in Nat
  BY AccountTypes DEF Position
<1>3. /\ positions'[m] = None
      /\ \A n \in Mints \ {m} : positions'[n] = positions[n]
  BY <1>1 DEF ClosePosition, Drop
<1>4. ASSUME c # None
      PROVE  /\ c \in Objs /\ c <= nobj /\ Fits(c)
             /\ recorded'[c] = recorded[c] + q[c].sol
             /\ \A o \in Objs \ {c} : recorded'[o] = recorded[o]
             /\ \A n \in Mints \ {m} : positions[n] # None => positions[n] # c
  <2>1. c \in Objs /\ c <= nobj /\ Fits(c)
    BY <1>4, AccountTypes DEF AccountInv
  <2>2. /\ recorded'[c] = recorded[c] + q[c].sol
        /\ \A o \in Objs \ {c} : recorded'[o] = recorded[o]
    BY <1>1, <1>4, <2>1 DEF ClosePosition
  <2>3. \A n \in Mints : positions[n] # None => pos[positions[n]].mint = n
    BY TypedParts DEF Parts, BookOK
  <2> QED
    BY <1>4, <2>1, <2>2, <2>3
<1>5. ASSUME c = None
      PROVE  recorded' = recorded
  BY <1>5 DEF ClosePosition
<1>6. ASSUME NEW o \in Objs
      PROVE  Bounded(o)'
  <2>1. Bounded(o) /\ o \in Nat
    BY <1>6, LimitsAssumption DEF AccountInv, Objs
  <2>2. CASE c = None
    BY <1>5, <2>1, <2>2 DEF Bounded
  <2>3. CASE c # None /\ o # c
    BY <1>4, <2>1, <2>3 DEF Bounded
  <2>4. CASE c # None /\ o = c
    <3>1. recorded[o] + q[o].sol <= spent[o] /\ recorded[o] \in Nat
      BY <1>1, <1>2, <1>4, <2>4 DEF Fits
    <3> QED
      BY <1>4, <2>1, <2>4, <3>1, AccountTypes DEF Bounded
  <2> QED
    BY <2>2, <2>3, <2>4
<1>7. ASSUME NEW n \in Mints, positions'[n] # None
      PROVE  Fits(positions[n])'
  <2> DEFINE o == positions[n]
  <2>1. n # m /\ positions'[n] = o /\ o # None
    BY <1>3, <1>7
  <2>2. o \in Objs /\ Fits(o)
    BY <2>1, AccountTypes DEF AccountInv
  <2>3. recorded'[o] = recorded[o]
    BY <1>4, <1>5, <2>1, <2>2
  <2>4. recorded[o] \in Nat /\ q[o].sol \in Nat /\ pos[o].sol \in Nat /\ spent[o] \in Nat
    BY <1>1, <1>2, <2>2
  <2>5. recorded[o] + q[o].sol <= spent[o]
    BY <2>2, <2>4 DEF Fits
  <2> QED
    BY <2>1, <2>3, <2>5 DEF Fits
<1> QED
  BY <1>6, <1>7

\* A leg that leaves tokens moves its share from the object to the record.
LEMMA PartialLegAccount ==
  ASSUME AccountInv, Typed, PartialLeg
  PROVE  AccountInv'
<1> DEFINE o == mon.obj
           r == AfterLeg(pos[o], mon.lvl)
           q == [pos EXCEPT ![o] = r]
<1>1. /\ UNCHANGED <<up, nobj, spent, crashes>>
      /\ mon.pc = "leg" /\ pos' = q
      /\ recorded' = [recorded EXCEPT ![o] = @ + (pos[o].sol - r.sol)]
      /\ ContinueCheck(mon.mint, o, mon.lvl + 1, mon.reach, mon.todo, q)
  BY DEF PartialLeg
<1> SUFFICES ASSUME crashes.count = 0
             PROVE  AccountInv'
  BY <1>1 DEF AccountInv
<1>2. o \in Objs /\ o <= nobj /\ pos[o] \in Position /\ r \in Position /\ r.sol <= pos[o].sol
  BY <1>1, LegObject, AccountTypes
<1> HIDE DEF r, q
<1>3. /\ recorded \in [Objs -> Nat] /\ pos \in [Objs -> Position]
      /\ \A x \in Objs : pos[x].sol \in Nat /\ spent[x] \in Nat
  BY TypedParts, AccountTypes DEF Parts, HistoryTypes
<1>4. pos[o].sol \in Nat /\ r.sol \in Nat /\ recorded[o] \in Nat /\ spent[o] \in Nat
  BY <1>2, <1>3 DEF Position
<1>5. recorded'[o] = recorded[o] + (pos[o].sol - r.sol) /\ pos'[o] = r
  BY <1>1, <1>2, <1>3 DEF q
<1>6. \A x \in Objs \ {o} : recorded'[x] = recorded[x] /\ pos'[x] = pos[x]
  BY <1>1, <1>3 DEF q
<1>7. Fits(o)
  BY <1>1 DEF AccountInv
<1>8. recorded'[o] + pos'[o].sol <= spent[o] /\ recorded'[o] <= spent[o]
  BY <1>2, <1>4, <1>5, <1>7 DEF Fits
<1>9. \A x \in Objs : Bounded(x)'
  <2> SUFFICES ASSUME NEW x \in Objs
               PROVE  recorded'[x] <= spent'[x] /\ (x > nobj' => recorded'[x] = 0)
    BY DEF Bounded
  <2>1. Bounded(x)
    BY DEF AccountInv
  <2>2. x \in Nat /\ nobj \in Nat
    BY AccountTypes, LimitsAssumption DEF Objs
  <2> QED
    BY <1>1, <1>2, <1>6, <1>8, <2>1, <2>2 DEF Bounded
<1>10. ASSUME NEW x \in Objs, Fits(x)
       PROVE  recorded'[x] + pos'[x].sol <= spent'[x]
  BY <1>1, <1>6, <1>8, <1>10 DEF Fits
<1>11. \A m \in Mints : positions'[m] # None => positions'[m] = positions[m]
  <2>1. positions \in [Mints -> 0..MaxBuys]
    BY TypedParts DEF Parts, BookOK
  <2> QED
    BY <1>1, <2>1 DEF ContinueCheck, BeginForceSell, Drop, None
<1>12. ASSUME NEW m \in Mints, positions'[m] # None
       PROVE  Fits(positions[m])'
  <2>1. positions'[m] = positions[m] /\ positions[m] \in Objs /\ Fits(positions[m])
    BY <1>11, <1>12, AccountTypes DEF AccountInv
  <2> QED
    BY <1>10, <2>1 DEF Fits
<1>13. mon'.pc = "leg" => Fits(mon.obj)' /\ (sell[Monitor].pc = "idle")'
  <2> SUFFICES ASSUME mon'.pc = "leg"
               PROVE  Fits(mon.obj)' /\ (sell[Monitor].pc = "idle")'
    OBVIOUS
  <2>1. mon'.obj = o /\ sell' = sell
    BY <1>1, NextLeg
  <2>2. sell[Monitor].pc = "idle"
    BY <1>1 DEF AccountInv
  <2> QED
    BY <1>2, <1>7, <1>10, <2>1, <2>2 DEF Fits
<1>14. up'
  BY <1>1 DEF AccountInv
<1> QED
  BY <1>9, <1>12, <1>13, <1>14 DEF AccountInv

\* The last leg closes the position from the shrunk object.
LEMMA FinalLegAccount ==
  ASSUME AccountInv, Typed, FinalLeg
  PROVE  AccountInv'
<1> DEFINE r == AfterLeg(pos[mon.obj], mon.lvl)
           q == [pos EXCEPT ![mon.obj] = r]
<1>1. /\ UNCHANGED <<up, nobj, spent, crashes>>
      /\ mon.pc = "leg" /\ pos' = q /\ ClosePosition(mon.mint, q)
      /\ mon' = [MonIdle EXCEPT !.pc = "check", !.todo = mon.todo]
  BY DEF FinalLeg
<1>2. /\ mon.mint \in Mints /\ mon.obj \in Objs /\ q \in [Objs -> Position]
      /\ r.mint = pos[mon.obj].mint /\ r.sol <= pos[mon.obj].sol
  BY <1>1, LegObject
<1>3. pos \in [Objs -> Position]
  BY TypedParts DEF Parts
<1> HIDE DEF r
<1>4. ASSUME NEW o \in Objs
      PROVE  q[o].sol <= pos[o].sol /\ q[o].mint = pos[o].mint
  <2>1. pos[o].sol \in Nat
    BY <1>3 DEF Position
  <2>2. CASE o = mon.obj
    BY <1>2, <1>3, <2>2
  <2>3. CASE o # mon.obj
    BY <1>3, <2>1, <2>3
  <2> QED
    BY <2>2, <2>3
<1>5. mon'.pc # "leg"
  BY <1>1 DEF MonIdle
<1> HIDE DEF q
<1> QED
  BY <1>1, <1>2, <1>4, <1>5, AccountClosed

\* A new object starts with nothing recorded and all of its cost to record.
LEMMA OpenAccount ==
  ASSUME AccountInv, Typed, BuyConfirmed \/ BuyResolved
  PROVE  AccountInv'
<1> DEFINE n == nobj + 1
           new == [mint |-> buy.mint, sol |-> buy.amt, tok |-> BoughtTokens,
                   tp |-> {}, att |-> 0]
<1>1. /\ UNCHANGED <<up, recorded, crashes, mon, sell>>
      /\ buy.pc # "idle"
      /\ nobj' = n /\ pos' = [pos EXCEPT ![n] = new] /\ spent' = [spent EXCEPT ![n] = buy.amt]
      /\ positions' = [positions EXCEPT ![buy.mint] = n]
  BY DEF BuyConfirmed, BuyResolved, OpenPosition, AddToBook
<1> SUFFICES ASSUME crashes.count = 0
             PROVE  AccountInv'
  BY <1>1 DEF AccountInv
<1>2. /\ buy.mint \in Mints /\ buy.amt \in Nat /\ nobj \in Nat /\ n \in Objs
      /\ pos \in [Objs -> Position] /\ positions \in [Mints -> 0..MaxBuys]
      /\ spent \in [Objs -> Nat] /\ recorded \in [Objs -> Nat]
  <2>1. buy.mint \in Mints /\ buy.amt \in Nat /\ nobj \in Nat /\ n \in Objs
    BY <1>1, TypedParts, LimitsAssumption DEF Parts, BuyOK, Objs
  <2>2. pos \in [Objs -> Position] /\ positions \in [Mints -> 0..MaxBuys]
    BY TypedParts DEF Parts, BookOK
  <2>3. spent \in [Objs -> Nat] /\ recorded \in [Objs -> Nat]
    BY TypedParts DEF Parts, HistoryTypes
  <2> QED
    BY <2>1, <2>2, <2>3
<1>3. pos'[n].sol = buy.amt /\ spent'[n] = buy.amt /\ recorded'[n] = 0
  <2>1. recorded[n] = 0
    BY <1>2 DEF AccountInv, Bounded
  <2> QED
    BY <1>1, <1>2, <2>1
<1>4. \A o \in Objs : o <= nobj => pos'[o] = pos[o] /\ spent'[o] = spent[o]
  BY <1>1, <1>2
<1>5. ASSUME NEW o \in Objs
      PROVE  Bounded(o)'
  <2>1. Bounded(o) /\ o \in Nat
    BY LimitsAssumption DEF AccountInv, Objs
  <2>2. CASE o = n
    BY <1>1, <1>2, <1>3, <2>2 DEF Bounded
  <2>3. CASE o # n
    BY <1>1, <1>2, <2>1, <2>3 DEF Bounded
  <2> QED
    BY <2>2, <2>3
<1>6. ASSUME NEW o \in Objs, o <= nobj, Fits(o)
      PROVE  recorded'[o] + pos'[o].sol <= spent'[o]
  BY <1>1, <1>4, <1>6 DEF Fits
<1>7. ASSUME NEW m \in Mints, positions'[m] # None
      PROVE  Fits(positions[m])'
  <2>1. CASE m = buy.mint
    <3>1. positions'[m] = n
      BY <1>1, <1>2, <2>1
    <3> QED
      BY <1>2, <1>3, <3>1 DEF Fits
  <2>2. CASE m # buy.mint
    <3>1. positions'[m] = positions[m]
      BY <1>1, <1>2, <2>2
    <3>2. positions[m] \in Objs /\ positions[m] <= nobj /\ Fits(positions[m])
      BY <1>7, <3>1, AccountTypes DEF AccountInv
    <3> QED
      BY <1>6, <3>1, <3>2 DEF Fits
  <2> QED
    BY <2>1, <2>2
<1>8. mon'.pc = "leg" => Fits(mon.obj)' /\ (sell[Monitor].pc = "idle")'
  <2> SUFFICES ASSUME mon.pc = "leg"
               PROVE  Fits(mon.obj)' /\ sell[Monitor].pc = "idle"
    BY <1>1
  <2>1. mon.obj \in Objs /\ mon.obj <= nobj /\ Fits(mon.obj) /\ sell[Monitor].pc = "idle"
    BY AccountTypes DEF AccountInv
  <2> QED
    BY <1>1, <1>6, <2>1 DEF Fits
<1> QED
  BY <1>1, <1>5, <1>7, <1>8 DEF AccountInv

\* A force-sell of the monitor that ends.
LEMMA EndAccount ==
  ASSUME AccountInv, Typed, Clicks = {}, EndStep
  PROVE  AccountInv'
<1>1. PICK t \in Sellers : SellFails(t) \/ Settle(t)
  BY DEF EndStep
<1>2. t = Monitor /\ sell[t].pc # "idle" /\ UNCHANGED <<up, nobj, spent, crashes, mon>>
  BY <1>1 DEF SellFails, Settle, Sellers, histVars
<1> SUFFICES ASSUME crashes.count = 0
             PROVE  AccountInv'
  BY <1>2 DEF AccountInv
<1>3. mon.pc # "leg"
  BY <1>2 DEF AccountInv
<1>4. CASE SellFails(t)
  <2> DEFINE x == sell[t].obj
             q == [pos EXCEPT ![x] = AfterFailure(pos[x])]
  <2>1. /\ recorded' = recorded /\ pos' = q
        /\ positions' \in {positions, Drop(positions, sell[t].mint)}
    BY <1>4 DEF SellFails, histVars
  <2>2. pos \in [Objs -> Position] /\ positions \in [Mints -> 0..MaxBuys]
    BY TypedParts DEF Parts, BookOK
  <2>3. ASSUME NEW o \in Objs
        PROVE  pos'[o].sol = pos[o].sol
    <3>1. pos[o] \in Position
      BY <2>2
    <3>2. AfterFailure(pos[o]).sol = pos[o].sol
      BY <3>1 DEF AfterFailure, Position
    <3>3. pos'[o] = pos[o] \/ (o = x /\ pos'[o] = AfterFailure(pos[o]))
      BY <2>1, <2>2
    <3> QED
      BY <3>2, <3>3
  <2>4. \A m \in Mints : positions'[m] # None => positions'[m] = positions[m]
    BY <2>1, <2>2 DEF Drop, None
  <2>5. LegFits'
    BY <1>2, <1>3 DEF LegFits
  <2> QED
    BY <1>2, <2>1, <2>3, <2>4, <2>5, AccountKept
<1>5. CASE Settle(t)
  <2>1. ClosePosition(sell[t].mint, pos) /\ pos' = pos
    BY <1>5 DEF Settle
  <2>2. sell[t].mint \in Mints /\ pos \in [Objs -> Position]
    BY <1>2, TypedParts DEF Parts, SlotsOK
  <2>3. \A o \in Objs : pos[o].sol <= pos[o].sol /\ pos[o].mint = pos[o].mint
    BY AccountTypes
  <2> QED
    BY <1>2, <1>3, <2>1, <2>2, <2>3, AccountClosed
<1> QED
  BY <1>1, <1>4, <1>5

\* Steps that touch neither objects nor book nor accounts.
LEMMA OtherAccount ==
  ASSUME AccountInv, Typed,
         \/ \E m \in Mints : TakeToken(m)
         \/ AdmitBuy \/ RejectBuy \/ SubmitBuy \/ BuyFails \/ BuyNeedsResolving \/ ResolveFails
         \/ TickStep \/ FlagStep \/ UNCHANGED vars
  PROVE  AccountInv'
<1>1. UNCHANGED <<up, positions, pos, nobj, spent, recorded, crashes>>
  <2>1. CASE TickStep
    BY <2>1 DEF TickStep, ResumeForceSell, NoEmergency, EmergencyDone, ChecksDone, CheckMissing,
       SellLands, memVars, histVars
  <2>2. CASE FlagStep
    BY <2>2 DEF FlagStep, TripEmergency, WebStop, WebResume, memVars
  <2>3. CASE UNCHANGED vars
    BY <2>3 DEF vars, memVars, histVars
  <2>4. CASE \/ \E m \in Mints : TakeToken(m)
             \/ AdmitBuy \/ RejectBuy \/ SubmitBuy \/ BuyFails \/ BuyNeedsResolving
             \/ ResolveFails
    BY <2>4 DEF TakeToken, AdmitBuy, RejectBuy, SubmitBuy, BuyFails, BuyNeedsResolving,
       ResolveFails, memVars, histVars
  <2> QED
    BY <2>1, <2>2, <2>3, <2>4
<1>2. ASSUME crashes.count = 0, mon'.pc = "leg"
      PROVE  mon' = mon /\ sell'[Monitor].pc = sell[Monitor].pc
  <2>0. mon \in MonType /\ sell \in [Sellers -> SellType] /\ Monitor \in Sellers
    BY TypedParts, ConstantFacts DEF Parts, MonOK, SlotsOK
  <2>1. CASE FlagStep
    <3>1. TripEmergency => mon'.pc = "emergency" /\ sell' = sell
      BY <2>0 DEF TripEmergency, MonType
    <3>2. WebStop \/ WebResume => mon' = mon /\ sell' = sell
      BY DEF WebStop, WebResume, taskVars
    <3> QED
      BY <1>2, <2>1, <3>1, <3>2 DEF FlagStep
  <2>2. CASE UNCHANGED vars
    BY <2>2 DEF vars, taskVars
  <2>3. CASE \/ \E m \in Mints : TakeToken(m)
             \/ AdmitBuy \/ RejectBuy \/ SubmitBuy \/ BuyFails \/ BuyNeedsResolving
             \/ ResolveFails
    BY <2>3 DEF TakeToken, AdmitBuy, RejectBuy, SubmitBuy, BuyFails, BuyNeedsResolving,
       ResolveFails
  <2>4. CASE ResumeForceSell \/ NoEmergency \/ EmergencyDone \/ ChecksDone
             \/ \E m \in Mints : CheckMissing(m)
    <3>1. ASSUME ResumeForceSell \/ NoEmergency
          PROVE  mon'.pc # "leg"
      BY <2>0, <3>1 DEF ResumeForceSell, NoEmergency, MonType
    <3>2. ASSUME EmergencyDone \/ ChecksDone
          PROVE  mon'.pc # "leg"
      <4>1. EmergencyDone => mon'.pc = "check"
        BY <2>0 DEF EmergencyDone, MonType
      <4>2. ChecksDone => mon'.pc = "idle"
        BY DEF ChecksDone, MonIdle
      <4> QED
        BY <3>2, <4>1, <4>2
    <3>3. ASSUME NEW m \in Mints, CheckMissing(m)
          PROVE  mon'.pc # "leg"
      BY <2>0, <3>3 DEF CheckMissing, MonitorFree, MonType
    <3> QED
      BY <1>2, <2>4, <3>1, <3>2, <3>3
  <2>5. CASE \E t \in Sellers : SellLands(t)
    <3>1. PICK t \in Sellers : SellLands(t)
      BY <2>5
    <3>2. /\ mon' = mon /\ sell[t].pc = "selling"
          /\ sell' = [sell EXCEPT ![t].pc = "settling"]
      BY <3>1 DEF SellLands
    <3>3. t # Monitor
      BY <1>2, <3>2 DEF AccountInv
    <3> QED
      BY <2>0, <3>2, <3>3
  <2> QED
    BY <2>1, <2>2, <2>3, <2>4, <2>5 DEF TickStep
<1>3. crashes.count = 0 => LegFits'
  BY <1>1, <1>2 DEF AccountInv, LegFits, Fits
<1> QED
  BY <1>1, <1>3, AccountKept

\* Every step keeps AccountInv.
LEMMA AccountStep ==
  ASSUME Clicks = {}
  PROVE  Typed /\ AccountInv /\ [Next]_vars => AccountInv'
<1> SUFFICES ASSUME Typed, AccountInv, [Next]_vars
             PROVE  AccountInv'
  OBVIOUS
<1>1. CASE CrashStep
  <2>1. PICK torn : Die(torn)
    BY <1>1 DEF CrashStep, Crash, CrashInOpen, CrashInPartialLeg, CrashInFinalLeg,
       CrashInAbandon, CrashInClose
  <2>2. crashes'.count = crashes.count + 1
    BY <2>1 DEF Die
  <2>3. crashes.count \in Nat
    BY TypedParts, LimitsAssumption DEF Parts, HistoryTypes
  <2> QED
    BY <2>2, <2>3 DEF AccountInv
<1>2. CASE Restart
  BY <1>2 DEF Restart, AccountInv
<1> QED
  BY <1>1, <1>2, CheckAccount, EndAccount, PartialLegAccount, FinalLegAccount, OpenAccount,
     OtherAccount, NextCases

\* Without force-sells from the dashboard, and until a crash, the cost basis
\* recorded for a position never exceeds what it cost.
THEOREM SingleAccount ==
  ASSUME Clicks = {}
  PROVE  Spec => []RecordedOnce
<1>1. Init => AccountInv
  BY LimitsAssumption DEF Init, AccountInv, Bounded, MonIdle, Objs
<1>2. AccountInv => RecordedOnce
  BY DEF AccountInv, Bounded, RecordedOnce
<1>3. Typed /\ AccountInv /\ [Next]_vars => AccountInv'
  BY AccountStep
<1> QED
  BY <1>1, <1>2, <1>3, TypedInit, TypedStep, PTL DEF Spec

---------------------------------------------------------------------------
(* The capital in open positions.  The exposure is summed before the         *)
(* balance is fetched and the buy runs, so a buy in flight must be known to  *)
(* fit on top of what the book holds now, not of what it held then; and the  *)
(* file must carry no more than the limit, because a restart believes it.    *)

CapitalLimit == 2 * MaxTotalExposure + Tick

Written == [m \in Mints |-> rows[m].rec.sol]

CapitalInv ==
  /\ ExposureCap
  /\ 2 * SumOver(Written, Mints) <= CapitalLimit
  /\ buy.pc = "sizing" => Exposure <= buy.expo
  /\ buy.pc \in {"buying", "resolving"} => 2 * (Exposure + buy.amt) <= CapitalLimit

\* The sums are naturals, before a step and after it.
LEMMA CapitalTypes ==
  ASSUME Typed
  PROVE  /\ \A m \in Mints : Basis(positions, pos)[m] \in Nat /\ Written[m] \in Nat
         /\ Exposure \in Nat /\ SumOver(Written, Mints) \in Nat
         /\ CapitalLimit \in Nat /\ buy.expo \in Nat /\ buy.amt \in Nat
<1>1. Parts
  BY TypedParts
<1>2. \A m \in Mints : Written[m] \in Nat
  BY <1>1 DEF Parts, RowsOK, Row, Position, Written
<1>3. SumOver(Written, Mints) \in Nat
  BY <1>2, MintsAssumption, SumType
<1>4. (\A m \in Mints : Basis(positions, pos)[m] \in Nat) /\ Exposure \in Nat
  BY <1>1, BasisType DEF Parts, BookOK, Exposure
<1> QED
  BY <1>1, <1>2, <1>3, <1>4, AmountsAssumption DEF Parts, BuyOK, CapitalLimit

\* A book that lost mints or whose objects lost cost basis weighs less.
Lighter(p, q) ==
  \A m \in Mints : Basis(p, q)[m] \in Nat /\ Basis(p, q)[m] <= Basis(positions, pos)[m]

LEMMA FewerIsLighter ==
  ASSUME Typed, NEW p \in [Mints -> 0..MaxBuys], NEW q \in [Objs -> Position],
         \A m \in Mints : p[m] # None => p[m] = positions[m],
         \A o \in Objs : q[o].sol <= pos[o].sol
  PROVE  Lighter(p, q)
<1> SUFFICES ASSUME NEW m \in Mints
             PROVE  Basis(p, q)[m] <= Basis(positions, pos)[m]
  BY BasisType DEF Lighter
<1>1. CASE p[m] = None
  <2>1. Basis(p, q)[m] = 0
    BY <1>1 DEF Basis
  <2> QED
    BY <2>1, CapitalTypes
<1>2. CASE p[m] # None
  <2>1. p[m] = positions[m] /\ p[m] \in Objs
    BY <1>2, LimitsAssumption DEF Objs, None
  <2> QED
    BY <1>2, <2>1 DEF Basis
<1> QED
  BY <1>1, <1>2

\* The weight of a book does not change when it is written.
LEMMA SnapshotBasis ==
  ASSUME NEW p, NEW q, NEW m \in Mints
  PROVE  Snapshot(p, q)[m].rec.sol = Basis(p, q)[m]
  BY DEF Snapshot, Basis, NoRow, Blank

\* What a step that adds nothing to book or file does to the two.
Sheds ==
  /\ Lighter(positions', pos')
  /\ rows' = rows \/ \E p, q : rows' = Snapshot(p, q) /\ Lighter(p, q)

\* Such a step keeps the limit, for the buy in flight as well.
LEMMA ShedsCapital ==
  ASSUME Typed, CapitalInv, Sheds,
         buy' = buy \/ buy'.pc \notin {"sizing", "buying", "resolving"}
  PROVE  CapitalInv'
<1>1. Exposure' <= Exposure /\ Exposure' \in Nat
  <2>1. Exposure' = SumOver(Basis(positions', pos'), Mints)
    BY DEF Exposure
  <2>2. \A m \in Mints : /\ Basis(positions', pos')[m] \in Nat
                         /\ Basis(positions, pos)[m] \in Nat
                         /\ Basis(positions', pos')[m] <= Basis(positions, pos)[m]
    BY CapitalTypes DEF Sheds, Lighter
  <2>3. SumOver(Basis(positions', pos'), Mints) <= SumOver(Basis(positions, pos), Mints)
    BY <2>2, MintsAssumption, SumMonotone
  <2>4. SumOver(Basis(positions', pos'), Mints) \in Nat
    BY <2>2, MintsAssumption, SumType
  <2> QED
    BY <2>1, <2>3, <2>4 DEF Exposure
<1>2. 2 * SumOver(Written', Mints) <= CapitalLimit
  <2>1. CASE rows' = rows
    BY <2>1 DEF CapitalInv, Written
  <2>2. ASSUME NEW p, NEW q, rows' = Snapshot(p, q), Lighter(p, q)
        PROVE  2 * SumOver(Written', Mints) <= CapitalLimit
    <3>1. Written' = [m \in Mints |-> rows'[m].rec.sol]
      BY DEF Written
    <3>2. \A m \in Mints : /\ Written'[m] \in Nat /\ Basis(positions, pos)[m] \in Nat
                           /\ Written'[m] <= Basis(positions, pos)[m]
      BY <2>2, <3>1, SnapshotBasis, CapitalTypes DEF Lighter
    <3>3. /\ SumOver(Written', Mints) <= Exposure
          /\ SumOver(Written', Mints) \in Nat
      BY <3>2, MintsAssumption, SumMonotone, SumType DEF Exposure
    <3> QED
      BY <3>3, CapitalTypes DEF CapitalInv, ExposureCap, CapitalLimit
  <2> QED
    BY <2>1, <2>2 DEF Sheds
<1>3. ExposureCap'
  <2>1. 2 * Exposure <= CapitalLimit
    BY DEF CapitalInv, ExposureCap, CapitalLimit
  <2>2. 2 * Exposure' <= CapitalLimit
    BY <1>1, <2>1, CapitalTypes
  <2> QED
    BY <2>2 DEF ExposureCap, CapitalLimit
<1>4. buy' = buy => /\ buy.pc = "sizing" => Exposure' <= buy.expo
                    /\ buy.pc \in {"buying", "resolving"} =>
                         2 * (Exposure' + buy.amt) <= CapitalLimit
  BY <1>1, CapitalTypes DEF CapitalInv
<1> QED
  BY <1>2, <1>3, <1>4 DEF CapitalInv, CapitalLimit

\* Steps that leave book, objects and file alone, and those that only drop
\* mints from the book in memory, shed.
LEMMA QuietSheds ==
  ASSUME Typed,
         UNCHANGED <<pos, rows>>,
         positions' = positions \/ \E m \in Mints : positions' = Drop(positions, m)
  PROVE  Sheds
<1>1. /\ pos \in [Objs -> Position] /\ positions' \in [Mints -> 0..MaxBuys]
      /\ \A m \in Mints : positions'[m] # None => positions'[m] = positions[m]
  BY TypedParts, LimitsAssumption DEF Parts, BookOK, Drop, None
<1>2. \A o \in Objs : pos[o].sol <= pos[o].sol
  BY <1>1 DEF Position
<1>3. Lighter(positions', pos)
  BY <1>1, <1>2, FewerIsLighter
<1> QED
  BY <1>3 DEF Sheds

\* A file written of a book with fewer mints and lighter objects sheds.
LEMMA SavedSheds ==
  ASSUME Typed, NEW q \in [Objs -> Position], \A o \in Objs : q[o].sol <= pos[o].sol,
         NEW m \in Mints
  PROVE  Lighter(positions, q) /\ Lighter(Drop(positions, m), q)
<1>1. /\ positions \in [Mints -> 0..MaxBuys] /\ Drop(positions, m) \in [Mints -> 0..MaxBuys]
      /\ \A x \in Mints : Drop(positions, m)[x] # None => Drop(positions, m)[x] = positions[x]
  BY TypedParts, LimitsAssumption DEF Parts, BookOK, Drop, None
<1> QED
  BY <1>1, FewerIsLighter

\* The objects after a failed attempt or a leg.
LEMMA UpdatedObjects ==
  ASSUME Typed, NEW o \in Objs, NEW r \in Position, r.sol <= pos[o].sol,
         NEW q, q = [pos EXCEPT ![o] = r]
  PROVE  q \in [Objs -> Position] /\ \A x \in Objs : q[x].sol <= pos[x].sol
<1>1. pos \in [Objs -> Position]
  BY TypedParts DEF Parts
<1>2. ASSUME NEW x \in Objs
      PROVE  q[x].sol <= pos[x].sol
  <2>1. pos[x].sol \in Nat
    BY <1>1 DEF Position
  <2> QED
    BY <1>1, <2>1
<1> QED
  BY <1>1, <1>2

\* A failed attempt changes the count of attempts only.
LEMMA FailedObject ==
  ASSUME Typed, NEW t \in Sellers, sell[t].pc = "selling",
         NEW q, q = [pos EXCEPT ![sell[t].obj] = AfterFailure(@)]
  PROVE  /\ sell[t].mint \in Mints
         /\ q \in [Objs -> Position] /\ \A x \in Objs : q[x].sol <= pos[x].sol
<1> DEFINE o == sell[t].obj
           r == AfterFailure(pos[o])
<1>1. sell[t].mint \in Mints /\ o \in Objs /\ pos[o] \in Position
  BY TypedParts, LimitsAssumption DEF Parts, SlotsOK, Objs
<1>2. r \in Position /\ r.sol <= pos[o].sol
  BY <1>1 DEF AfterFailure, Position
<1>3. q = [pos EXCEPT ![o] = r]
  OBVIOUS
<1> HIDE DEF r, o
<1>4. q \in [Objs -> Position] /\ \A x \in Objs : q[x].sol <= pos[x].sol
  BY <1>1, <1>2, <1>3, UpdatedObjects
<1> QED
  BY <1>1, <1>4

\* A leg takes tokens and cost basis away.
LEMMA LegObjects ==
  ASSUME Typed, mon.pc = "leg",
         NEW q, q = [pos EXCEPT ![mon.obj] = AfterLeg(pos[mon.obj], mon.lvl)]
  PROVE  /\ mon.mint \in Mints
         /\ q \in [Objs -> Position] /\ \A x \in Objs : q[x].sol <= pos[x].sol
<1> DEFINE r == AfterLeg(pos[mon.obj], mon.lvl)
<1>1. mon.mint \in Mints /\ mon.obj \in Objs /\ r \in Position /\ r.sol <= pos[mon.obj].sol
  BY LegObject
<1>2. q = [pos EXCEPT ![mon.obj] = r]
  OBVIOUS
<1> HIDE DEF r
<1>3. q \in [Objs -> Position] /\ \A x \in Objs : q[x].sol <= pos[x].sol
  BY <1>1, <1>2, UpdatedObjects
<1> QED
  BY <1>1, <1>3

\* The end of a force-sell and a leg shed.
LEMMA SaveSheds ==
  ASSUME Typed, EndStep \/ PartialLeg \/ FinalLeg
  PROVE  Sheds
<1>1. Parts
  BY TypedParts
<1>2. pos \in [Objs -> Position] /\ \A o \in Objs : pos[o].sol <= pos[o].sol
  BY <1>1 DEF Parts, Position
<1>3. ASSUME NEW t \in Sellers, SellFails(t)
      PROVE  Sheds
  <2> DEFINE q == [pos EXCEPT ![sell[t].obj] = AfterFailure(@)]
  <2>1. /\ sell[t].pc = "selling" /\ pos' = q /\ rows' = Snapshot(positions', q)
        /\ positions' \in {positions, Drop(positions, sell[t].mint)}
    BY <1>3 DEF SellFails
  <2>2. /\ sell[t].mint \in Mints
        /\ q \in [Objs -> Position] /\ \A x \in Objs : q[x].sol <= pos[x].sol
    BY <2>1, FailedObject
  <2> HIDE DEF q
  <2>3. Lighter(positions, q) /\ Lighter(Drop(positions, sell[t].mint), q)
    BY <2>2, SavedSheds
  <2> QED
    BY <2>1, <2>3 DEF Sheds
<1>4. ASSUME NEW t \in Sellers, Settle(t)
      PROVE  Sheds
  <2>1. /\ sell[t].mint \in Mints /\ pos' = pos
        /\ positions' = Drop(positions, sell[t].mint)
        /\ rows' = rows \/ rows' = Snapshot(positions', pos)
    BY <1>1, <1>4 DEF Settle, ClosePosition, Parts, SlotsOK
  <2>2. Lighter(Drop(positions, sell[t].mint), pos)
    BY <1>2, <2>1, SavedSheds
  <2> QED
    BY <2>1, <2>2 DEF Sheds
<1> DEFINE q == [pos EXCEPT ![mon.obj] = AfterLeg(pos[mon.obj], mon.lvl)]
<1>5. CASE PartialLeg
  <2>1. /\ mon.pc = "leg" /\ pos' = q /\ rows' = Snapshot(positions, q)
        /\ positions' \in {positions, Drop(positions, mon.mint)}
    BY <1>5 DEF PartialLeg, ContinueCheck, BeginForceSell
  <2>2. /\ mon.mint \in Mints
        /\ q \in [Objs -> Position] /\ \A x \in Objs : q[x].sol <= pos[x].sol
    BY <2>1, LegObjects
  <2> HIDE DEF q
  <2>3. Lighter(positions, q) /\ Lighter(Drop(positions, mon.mint), q)
    BY <2>2, SavedSheds
  <2> QED
    BY <2>1, <2>3 DEF Sheds
<1>6. CASE FinalLeg
  <2>1. /\ mon.pc = "leg" /\ pos' = q /\ rows' = Snapshot(positions', q)
        /\ positions' = Drop(positions, mon.mint)
    BY <1>6 DEF FinalLeg, ClosePosition
  <2>2. /\ mon.mint \in Mints
        /\ q \in [Objs -> Position] /\ \A x \in Objs : q[x].sol <= pos[x].sol
    BY <2>1, LegObjects
  <2> HIDE DEF q
  <2>3. Lighter(Drop(positions, mon.mint), q)
    BY <2>2, SavedSheds
  <2> QED
    BY <2>1, <2>3 DEF Sheds
<1> QED
  BY <1>3, <1>4, <1>5, <1>6 DEF EndStep

\* Adding the bought amount for a mint adds at most that amount.
LEMMA AddedCapital ==
  ASSUME Typed, CapitalInv, buy.pc \in {"buying", "resolving"}, AddToBook,
         NEW p, p = [positions EXCEPT ![buy.mint] = nobj + 1]
  PROVE  /\ \A m \in Mints : Basis(p, pos')[m] \in Nat
         /\ 2 * SumOver(Basis(p, pos'), Mints) <= CapitalLimit
         /\ rows' = Snapshot(p, pos')
<1> DEFINE k == buy.mint
           n == nobj + 1
           old == Basis(positions, pos)
           new == Basis(p, pos')
<1>1. Parts
  BY TypedParts
<1>2. /\ k \in Mints /\ n \in Objs /\ n # None /\ pos \in [Objs -> Position]
      /\ positions \in [Mints -> 0..MaxBuys]
      /\ \A m \in Mints : positions[m] # n
  BY <1>1, LimitsAssumption DEF Parts, BuyOK, BookOK, Objs, None
<1>3. pos'[n].sol = buy.amt /\ \A o \in Objs : o # n => pos'[o] = pos[o]
  BY <1>2 DEF AddToBook
<1>4. new[k] = buy.amt
  BY <1>2, <1>3 DEF Basis
<1>5. ASSUME NEW m \in Mints, m # k
      PROVE  new[m] = old[m]
  <2>1. p[m] = positions[m] /\ (p[m] # None => p[m] \in Objs /\ p[m] # n)
    BY <1>2, <1>5, LimitsAssumption DEF Objs, None
  <2> QED
    BY <1>3, <2>1 DEF Basis
<1>6. (\A m \in Mints : old[m] \in Nat) /\ buy.amt \in Nat
  BY CapitalTypes
<1>7. \A m \in Mints : new[m] \in Nat
  BY <1>4, <1>5, <1>6
<1> HIDE DEF old, new
<1>8. SumOver(new, Mints) = SumOver(old, Mints) + new[k] - old[k]
  <2>1. \A m \in Mints : old[m] \in Int /\ new[m] \in Int /\ (m # k => new[m] = old[m])
    BY <1>5, <1>6, <1>7
  <2> QED
    BY <1>2, <2>1, MintsAssumption, SumChange
<1>9. 2 * (SumOver(old, Mints) + buy.amt) <= CapitalLimit /\ SumOver(old, Mints) \in Nat
  BY CapitalTypes DEF CapitalInv, Exposure, old
<1>10. 2 * SumOver(new, Mints) <= CapitalLimit
  BY <1>2, <1>4, <1>6, <1>8, <1>9, CapitalTypes
<1> QED
  BY <1>7, <1>10 DEF AddToBook, new

\* Steps of the trade loop that touch neither book nor file.
LEMMA LoopCapital ==
  ASSUME Typed, CapitalInv, NEW m \in Mints,
         TakeToken(m) \/ AdmitBuy \/ RejectBuy \/ BuyFails \/ BuyNeedsResolving \/ ResolveFails
  PROVE  CapitalInv'
<1>1. UNCHANGED <<positions, pos, rows>>
  BY DEF TakeToken, AdmitBuy, RejectBuy, BuyFails, BuyNeedsResolving, ResolveFails, memVars,
         diskVars
<1>2. Exposure' = Exposure /\ Written' = Written
  BY <1>1 DEF Exposure, Written
<1>3. CASE TakeToken(m) \/ RejectBuy \/ BuyFails \/ ResolveFails
  <2>1. buy'.pc \in {"idle", "pausing"}
    <3>1. TakeToken(m) => buy'.pc = "pausing"
      BY DEF TakeToken, BuyIdle
    <3>2. RejectBuy \/ BuyFails \/ ResolveFails => buy'.pc = "idle"
      BY DEF RejectBuy, BuyFails, ResolveFails, BuyIdle
    <3> QED
      BY <1>3, <3>1, <3>2
  <2> QED
    BY <1>2, <2>1 DEF CapitalInv, ExposureCap
<1>4. CASE AdmitBuy
  <2>1. buy'.pc = "sizing" /\ buy'.expo = Exposure
    BY <1>4, TypedParts DEF AdmitBuy, Parts, BuyOK
  <2> QED
    BY <1>2, <2>1, CapitalTypes DEF CapitalInv, ExposureCap
<1>5. CASE BuyNeedsResolving
  <2>1. buy'.pc = "resolving" /\ buy'.amt = buy.amt /\ buy.pc = "buying"
    BY <1>5, TypedParts DEF BuyNeedsResolving, Parts, BuyOK
  <2> QED
    BY <1>2, <2>1 DEF CapitalInv, ExposureCap
<1> QED
  BY <1>3, <1>4, <1>5

\* The submitted amount fits on top of what the book holds by now.
LEMMA SubmitCapital ==
  ASSUME Typed, CapitalInv, SubmitBuy
  PROVE  CapitalInv'
<1>1. /\ UNCHANGED <<positions, pos, rows>> /\ buy.pc = "sizing"
      /\ buy.expo \in Nat /\ SymbolOf[buy.mint] \in Symbols /\ deployed \in [Symbols -> Nat]
  BY TypedParts, ConstantFacts DEF SubmitBuy, memVars, diskVars, Parts, BuyOK, TotalTypes
<1>2. Exposure' = Exposure /\ Written' = Written /\ Exposure <= buy.expo
  BY <1>1 DEF Exposure, Written, CapitalInv
<1>3. PICK base \in BaseSizes :
        LET size == SizeOf(base, buy.expo, SymbolOf[buy.mint]) IN
        \/ \E amt \in RoundedTo(size) :
             buy' = [buy EXCEPT !.pc = "buying", !.expo = 0, !.amt = amt]
        \/ buy' = BuyIdle
  BY DEF SubmitBuy
<1> DEFINE size == SizeOf(base, buy.expo, SymbolOf[buy.mint])
<1>4. size \in Int /\ size <= MaxTotalExposure - buy.expo
  BY <1>1, SizeBounds, AmountsAssumption
<1>5. CASE buy' = BuyIdle
  <2>1. buy'.pc = "idle"
    BY <1>5 DEF BuyIdle
  <2> QED
    BY <1>2, <2>1 DEF CapitalInv, ExposureCap
<1>6. ASSUME NEW amt \in RoundedTo(size),
             buy' = [buy EXCEPT !.pc = "buying", !.expo = 0, !.amt = amt]
      PROVE  CapitalInv'
  <2>1. buy'.pc = "buying" /\ buy'.amt = amt
    BY <1>6, TypedParts DEF Parts, BuyOK
  <2> HIDE DEF size
  <2>2. 2 * (amt - size) <= Tick /\ amt \in Int
    BY <1>4, <1>6, AmountsAssumption DEF RoundedTo
  <2>3. 2 * (Exposure + amt) <= CapitalLimit
    BY <1>1, <1>2, <1>4, <2>2, CapitalTypes, AmountsAssumption DEF CapitalLimit
  <2> QED
    BY <1>2, <2>1, <2>3 DEF CapitalInv, ExposureCap
<1> QED
  BY <1>3, <1>5, <1>6

\* An opening puts the admitted amount into the book and the file.
LEMMA OpenCapital ==
  ASSUME Typed, CapitalInv, BuyConfirmed \/ BuyResolved
  PROVE  CapitalInv'
<1>1. /\ buy.pc \in {"buying", "resolving"} /\ AddToBook
      /\ positions' = [positions EXCEPT ![buy.mint] = nobj + 1] /\ buy'.pc = "idle"
  BY DEF BuyConfirmed, BuyResolved, OpenPosition, BuyIdle
<1>2. /\ 2 * SumOver(Basis(positions', pos'), Mints) <= CapitalLimit
      /\ \A m \in Mints : Basis(positions', pos')[m] \in Nat
      /\ rows' = Snapshot(positions', pos')
  BY <1>1, AddedCapital
<1>3. 2 * Exposure' <= CapitalLimit
  BY <1>2 DEF Exposure
<1>4. 2 * SumOver(Written', Mints) <= CapitalLimit
  <2>1. \A m \in Mints : Basis(positions', pos')[m] \in Int
                         /\ Written'[m] = Basis(positions', pos')[m]
    BY <1>2, SnapshotBasis DEF Written
  <2>2. SumOver(Basis(positions', pos'), Mints) = SumOver(Written', Mints)
    BY <2>1, MintsAssumption, SumSame
  <2> QED
    BY <1>2, <2>2
<1> QED
  BY <1>1, <1>3, <1>4 DEF CapitalInv, ExposureCap, CapitalLimit

\* A death leaves no more on disk than the limit, wherever it falls.
LEMMA CrashCapital ==
  ASSUME Typed, CapitalInv, CrashStep
  PROVE  CapitalInv'
<1>1. Parts
  BY TypedParts
<1>2. /\ positions' = [m \in Mints |-> None] /\ buy'.pc = "idle"
  <2>1. positions' = [m \in Mints |-> None] /\ buy' = BuyIdle
    BY DEF CrashStep, Crash, CrashInOpen, CrashInPartialLeg, CrashInFinalLeg, CrashInAbandon,
           CrashInClose, Die
  <2> QED
    BY <2>1 DEF BuyIdle
<1>3. Lighter(positions', pos')
  BY <1>2, CapitalTypes DEF Lighter, Basis
<1>4. pos \in [Objs -> Position] /\ \A o \in Objs : pos[o].sol <= pos[o].sol
  BY <1>1 DEF Parts, Position
<1> DEFINE q == [pos EXCEPT ![mon.obj] = AfterLeg(pos[mon.obj], mon.lvl)]
<1>5. CASE Crash \/ CrashInPartialLeg
  <2>1. rows' = rows
    BY <1>5 DEF Crash, CrashInPartialLeg
  <2> QED
    BY <1>2, <1>3, <2>1, ShedsCapital DEF Sheds
<1>6. CASE CrashInFinalLeg
  <2>1. /\ mon.pc = "leg"
        /\ rows' = Snapshot(positions, q) \/ rows' = Snapshot(Drop(positions, mon.mint), q)
    BY <1>6 DEF CrashInFinalLeg
  <2>2. /\ mon.mint \in Mints
        /\ q \in [Objs -> Position] /\ \A x \in Objs : q[x].sol <= pos[x].sol
    BY <2>1, LegObjects
  <2> HIDE DEF q
  <2>3. Lighter(positions, q) /\ Lighter(Drop(positions, mon.mint), q)
    BY <2>2, SavedSheds
  <2> QED
    BY <1>2, <1>3, <2>1, <2>3, ShedsCapital DEF Sheds
<1>7. ASSUME NEW t \in Sellers, CrashInAbandon(t)
      PROVE  CapitalInv'
  <2> DEFINE r == [pos EXCEPT ![sell[t].obj] = AfterFailure(@)]
  <2>1. sell[t].pc = "selling" /\ rows' = Snapshot(positions, r)
    BY <1>7 DEF CrashInAbandon
  <2>2. /\ sell[t].mint \in Mints
        /\ r \in [Objs -> Position] /\ \A x \in Objs : r[x].sol <= pos[x].sol
    BY <2>1, FailedObject
  <2> HIDE DEF r
  <2>3. Lighter(positions, r)
    BY <2>2, SavedSheds
  <2> QED
    BY <1>2, <1>3, <2>1, <2>3, ShedsCapital DEF Sheds
<1>8. ASSUME NEW t \in Sellers, CrashInClose(t)
      PROVE  CapitalInv'
  <2>1. sell[t].mint \in Mints /\ rows' = Snapshot(Drop(positions, sell[t].mint), pos)
    BY <1>1, <1>8 DEF CrashInClose, Parts, SlotsOK
  <2>2. Lighter(Drop(positions, sell[t].mint), pos)
    BY <1>4, <2>1, SavedSheds
  <2> QED
    BY <1>2, <1>3, <2>1, <2>2, ShedsCapital DEF Sheds
<1>9. CASE CrashInOpen
  <2> DEFINE p == [positions EXCEPT ![buy.mint] = nobj + 1]
  <2>1. buy.pc \in {"buying", "resolving"} /\ AddToBook
    BY <1>9 DEF CrashInOpen
  <2>2. /\ 2 * SumOver(Basis(p, pos'), Mints) <= CapitalLimit
        /\ \A m \in Mints : Basis(p, pos')[m] \in Nat
        /\ rows' = Snapshot(p, pos')
    BY <2>1, AddedCapital
  <2> HIDE DEF p
  <2>3. \A m \in Mints : Basis(p, pos')[m] \in Int /\ Written'[m] = Basis(p, pos')[m]
    BY <2>2, SnapshotBasis DEF Written
  <2>4. SumOver(Basis(p, pos'), Mints) = SumOver(Written', Mints)
    BY <2>3, MintsAssumption, SumSame
  <2>5. 2 * Exposure' <= CapitalLimit
    <3>1. \A m \in Mints : Basis(positions', pos')[m] = 0
      BY <1>2 DEF Basis
    <3>2. /\ SumOver(Basis(positions', pos'), Mints) <= SumOver(Basis(positions, pos), Mints)
          /\ SumOver(Basis(positions', pos'), Mints) \in Nat
      BY <3>1, CapitalTypes, MintsAssumption, SumMonotone, SumType
    <3>3. Exposure' <= Exposure /\ Exposure' \in Nat
      BY <3>2 DEF Exposure
    <3> QED
      BY <3>3, CapitalTypes DEF CapitalInv, ExposureCap, CapitalLimit
  <2> QED
    BY <1>2, <2>2, <2>4, <2>5 DEF CapitalInv, ExposureCap, CapitalLimit
<1> QED
  BY <1>5, <1>6, <1>7, <1>8, <1>9 DEF CrashStep

\* A restart takes over what the file holds.
LEMMA RestartCapital ==
  ASSUME Typed, CapitalInv, Restart
  PROVE  CapitalInv'
<1>1. Parts
  BY TypedParts
<1>2. /\ rows' = rows /\ buy' = buy /\ buy.pc = "idle"
      /\ positions' = [m \in Mints |-> rows[m].obj]
  BY <1>1 DEF Restart, diskVars, taskVars, Parts, DownOK
<1>3. ASSUME NEW m \in Mints
      PROVE  /\ Basis(positions', pos')[m] \in Nat /\ Written[m] \in Nat
             /\ Basis(positions', pos')[m] <= Written[m]
  <2> DEFINE o == rows[m].obj
  <2>1. Written[m] = rows[m].rec.sol /\ Written[m] \in Nat
    BY CapitalTypes DEF Written
  <2>2. ASSUME o # None
        PROVE  pos'[o] = rows[m].rec
    <3>1. o \in Objs /\ pos[o].mint = m
      BY <1>1, <2>2, LimitsAssumption DEF Parts, RowsOK, Objs
    <3> QED
      BY <3>1 DEF Restart
  <2> QED
    BY <1>2, <2>1, <2>2 DEF Basis
<1>4. Exposure' <= SumOver(Written, Mints) /\ Exposure' \in Nat
  <2>1. /\ SumOver(Basis(positions', pos'), Mints) <= SumOver(Written, Mints)
        /\ SumOver(Basis(positions', pos'), Mints) \in Nat
    BY <1>3, MintsAssumption, SumMonotone, SumType
  <2> QED
    BY <2>1 DEF Exposure
<1>5. 2 * Exposure' <= CapitalLimit
  BY <1>4, CapitalTypes DEF CapitalInv
<1>6. Written' = Written
  BY <1>2 DEF Written
<1> QED
  BY <1>2, <1>5, <1>6 DEF CapitalInv, ExposureCap, CapitalLimit

\* Every step keeps the capital within the limit.
LEMMA CapitalStep == Typed /\ CapitalInv /\ [Next]_vars => CapitalInv'
<1> SUFFICES ASSUME Typed, CapitalInv, [Next]_vars
             PROVE  CapitalInv'
  OBVIOUS
<1>1. CASE AdmitBuy \/ RejectBuy \/ BuyFails \/ BuyNeedsResolving \/ ResolveFails
  <2>1. PICK m \in Mints : TRUE
    BY <1>1, TypedParts DEF AdmitBuy, RejectBuy, BuyFails, BuyNeedsResolving, ResolveFails, Parts,
       BuyOK
  <2> QED
    BY <1>1, LoopCapital
<1>2. CASE TickStep \/ FlagStep \/ UNCHANGED vars
  <2>1. UNCHANGED <<positions, pos, rows, buy>>
    BY <1>2 DEF TickStep, ResumeForceSell, NoEmergency, EmergencyDone, ChecksDone, CheckMissing,
       SellLands, FlagStep, TripEmergency, WebStop, WebResume, vars, memVars, diskVars, taskVars
  <2> QED
    BY <2>1, QuietSheds, ShedsCapital
<1>3. CASE SellStep
  <2>1. /\ UNCHANGED <<pos, rows, buy>>
        /\ positions' = positions \/ \E m \in Mints : positions' = Drop(positions, m)
    BY <1>3, SellStepFrame
  <2> QED
    BY <2>1, QuietSheds, ShedsCapital
<1>4. CASE EndStep \/ PartialLeg \/ FinalLeg
  <2>1. buy' = buy
    BY <1>4 DEF EndStep, SellFails, Settle, PartialLeg, FinalLeg
  <2> QED
    BY <1>4, <2>1, SaveSheds, ShedsCapital
<1> QED
  BY <1>1, <1>2, <1>3, <1>4, LoopCapital, SubmitCapital, OpenCapital, CrashCapital,
     RestartCapital, NextCases

\* An empty book is within the limit.
LEMMA CapitalInit == Init => CapitalInv
<1> SUFFICES ASSUME Init PROVE CapitalInv
  OBVIOUS
<1>1. \A m \in Mints : /\ Basis(positions, pos)[m] = 0 /\ Written[m] = 0
  BY DEF Init, Basis, Written, NoRow, Blank
<1> DEFINE zero == [m \in Mints |-> 0]
<1>2. Basis(positions, pos) = zero /\ Written = zero
  BY <1>1 DEF Basis, Written
<1>3. SumOver(zero, Mints) = 0
  BY MintsAssumption, SumOfZeros
<1>4. buy.pc = "idle"
  BY DEF Init, BuyIdle
<1> QED
  BY <1>2, <1>3, <1>4, AmountsAssumption DEF CapitalInv, ExposureCap, Exposure, CapitalLimit

\* The capital in open positions never exceeds MAX_TOTAL_EXPOSURE_SOL by more
\* than half a rounding step: not when the exposure was summed an await ago,
\* nor when a restart refills the book from what a death left on disk.
THEOREM CapitalCapped == Spec => []ExposureCap
<1>1. Init => CapitalInv
  BY CapitalInit
<1>2. CapitalInv => ExposureCap
  BY DEF CapitalInv
<1> QED
  BY <1>1, <1>2, TypedInit, TypedStep, CapitalStep, PTL DEF Spec

---------------------------------------------------------------------------
(* RiskManager implements AtomicBook.  A buy lands an opening that was      *)
(* checked awaits ago, so the step needs what the three caps' invariants    *)
(* say of a buy in flight: it still fits.  Every other step must be seen to *)
(* take from the book only, and to write what the book then holds.          *)

\* A row of no object says nothing else.
RowsClean == \A m \in Mints : rows[m].obj = None => rows[m] = NoRow

\* Every step writes a snapshot or nothing.
LEMMA RowsCleanStep == RowsClean /\ [Next]_vars => RowsClean'
<1> SUFFICES ASSUME RowsClean, [Next]_vars
             PROVE  RowsClean'
  OBVIOUS
<1>1. ASSUME rows' = rows
      PROVE  RowsClean'
  BY <1>1 DEF RowsClean
<1>2. ASSUME NEW p, NEW q, rows' = Snapshot(p, q)
      PROVE  RowsClean'
  BY <1>2 DEF RowsClean, Snapshot, NoRow
<1>3. CASE \/ TickStep \/ FlagStep \/ SellStep \/ UNCHANGED vars
           \/ (\E m \in Mints : TakeToken(m)) \/ AdmitBuy \/ RejectBuy \/ SubmitBuy \/ BuyFails
           \/ BuyNeedsResolving \/ ResolveFails \/ Restart
  <2>1. rows' = rows
    <3>1. CASE TickStep \/ FlagStep \/ SellStep \/ UNCHANGED vars
      BY <3>1 DEF TickStep, ResumeForceSell, NoEmergency, EmergencyDone, ChecksDone,
         CheckMissing, SellLands, FlagStep, TripEmergency, WebStop, WebResume, SellStep,
         EmergencySell, CheckStops, CheckLadder, LegFails, WebForceSell, vars, diskVars
    <3>2. CASE (\E m \in Mints : TakeToken(m)) \/ AdmitBuy \/ RejectBuy \/ SubmitBuy \/ BuyFails
               \/ BuyNeedsResolving \/ ResolveFails \/ Restart
      BY <3>2 DEF TakeToken, AdmitBuy, RejectBuy, SubmitBuy, BuyFails, BuyNeedsResolving,
         ResolveFails, Restart, diskVars
    <3> QED
      BY <1>3, <3>1, <3>2
  <2> QED
    BY <1>1, <2>1
<1>4. CASE BuyConfirmed \/ BuyResolved \/ EndStep \/ PartialLeg \/ FinalLeg \/ CrashStep
  <2>1. rows' = rows \/ \E p, q : rows' = Snapshot(p, q)
    BY <1>4 DEF BuyConfirmed, BuyResolved, OpenPosition, AddToBook, EndStep, SellFails, Settle,
       PartialLeg, FinalLeg, CrashStep, Crash, CrashInOpen, CrashInPartialLeg, CrashInFinalLeg,
       CrashInAbandon, CrashInClose
  <2> QED
    BY <1>1, <1>2, <2>1
<1> QED
  BY <1>3, <1>4, NextCases

\* The entry a snapshot gives a mint.
LEMMA EntryOf ==
  ASSUME NEW p, NEW q, NEW m \in Mints
  PROVE  Entries(Snapshot(p, q))[m] =
           IF p[m] = None THEN Atomic!NoEntry
           ELSE [id |-> p[m], cost |-> q[p[m]].sol, tokens |-> q[p[m]].tok]
  BY DEF Entries, Snapshot, NoRow, Blank, Atomic!NoEntry, None

\* A snapshot holds the mints of the book, at their cost basis.
LEMMA EntriesOf ==
  ASSUME NEW p, NEW q
  PROVE  /\ Atomic!Held(Entries(Snapshot(p, q))) = {m \in Mints : p[m] # None}
         /\ Atomic!Cost(Entries(Snapshot(p, q))) = SumOver(Basis(p, q), Mints)
<1> DEFINE b == Entries(Snapshot(p, q))
<1>1. ASSUME NEW m \in Mints
      PROVE  /\ (b[m] # Atomic!NoEntry) <=> (p[m] # None)
             /\ b[m].cost = IF p[m] = None THEN 0 ELSE q[p[m]].sol
  <2>1. b[m] = IF p[m] = None THEN Atomic!NoEntry
               ELSE [id |-> p[m], cost |-> q[p[m]].sol, tokens |-> q[p[m]].tok]
    BY EntryOf
  <2> HIDE DEF b
  <2>2. CASE p[m] = None
    BY <2>1, <2>2 DEF Atomic!NoEntry
  <2>3. CASE p[m] # None
    <3>1. b[m].id = p[m] /\ b[m].cost = q[p[m]].sol /\ Atomic!NoEntry.id = None
      BY <2>1, <2>3 DEF Atomic!NoEntry, None
    <3> QED
      BY <2>3, <3>1
  <2> QED
    BY <2>2, <2>3
<1> HIDE DEF b
<1>2. [m \in Mints |-> b[m].cost] = Basis(p, q)
  BY <1>1 DEF Basis
<1>3. \A f, S : Atomic!SumOver(f, S) = SumOver(f, S)
  BY DEF Atomic!SumOver, SumOver
<1>4. Atomic!Held(b) = {m \in Mints : p[m] # None}
  BY <1>1 DEF Atomic!Held
<1>5. Atomic!Cost(b) = SumOver(Basis(p, q), Mints)
  BY <1>2, <1>3 DEF Atomic!Cost
<1> QED
  BY <1>4, <1>5 DEF b

\* Counting is the same on both sides.
LEMMA SameCount == \A S : Atomic!Cardinality(S) = Cardinality(S)
  BY DEF Cardinality, Atomic!Cardinality, IsFiniteSet, Atomic!IsFiniteSet

RefInv == CapInv /\ LifeInv /\ CapitalInv /\ RowsClean

\* When the tokens of a buy arrive, the book with its position in it is within
\* every limit.
LEMMA BuyFits ==
  ASSUME Typed, RefInv, buy.pc \in {"buying", "resolving"}, AddToBook,
         NEW p, p = [positions EXCEPT ![buy.mint] = nobj + 1]
  PROVE  /\ buy.mint \in Mints /\ buy.amt \in 0..(MaxTotalExposure + Tick)
         /\ nobj' = nobj + 1 /\ rows' = Snapshot(p, pos')
         /\ Entries(Snapshot(p, pos')) = Atomic!With(buy.mint, buy.amt)
         /\ Atomic!Affordable(buy.mint, buy.amt)
<1> DEFINE k == buy.mint
           n == nobj + 1
           e == Entries(Snapshot(p, pos'))
           w == Atomic!With(k, buy.amt)
<1>1. Parts
  BY TypedParts
<1>2. /\ k \in Mints /\ n \in Objs /\ n # None /\ pos \in [Objs -> Position]
      /\ positions \in [Mints -> 0..MaxBuys]
      /\ \A m \in Mints : positions[m] # n
  BY <1>1, LimitsAssumption DEF Parts, BuyOK, BookOK, Objs, None
<1>3. /\ nobj' = n
      /\ pos'[n].sol = buy.amt /\ pos'[n].tok = BoughtTokens
      /\ \A o \in Objs : o # n => pos'[o] = pos[o]
  BY <1>2 DEF AddToBook
<1>4. ASSUME NEW m \in Mints
      PROVE  e[m] = w[m]
  <2>1. /\ w[k] = [id |-> n, cost |-> buy.amt, tokens |-> BoughtTokens]
        /\ m # k => w[m] = book[m]
    <3>1. DOMAIN book = Mints
      BY DEF book, Entries
    <3> QED
      BY <1>2, <3>1 DEF Atomic!With
  <2>2. e[m] = IF p[m] = None THEN Atomic!NoEntry
               ELSE [id |-> p[m], cost |-> pos'[p[m]].sol, tokens |-> pos'[p[m]].tok]
    BY ONLY EntryOf, m \in Mints
  <2>3. book[m] = IF positions[m] = None THEN Atomic!NoEntry
                  ELSE [id |-> positions[m], cost |-> pos[positions[m]].sol,
                        tokens |-> pos[positions[m]].tok]
    BY EntryOf DEF book
  <2> HIDE DEF e, w
  <2>4. CASE m = k
    BY <1>2, <1>3, <2>1, <2>2, <2>4
  <2>5. CASE m # k
    <3>1. p[m] = positions[m] /\ (p[m] # None => p[m] \in Objs /\ p[m] # n)
      BY <1>2, <2>5, LimitsAssumption DEF Objs, None
    <3> QED
      BY <1>3, <2>1, <2>2, <2>3, <2>5, <3>1
  <2> QED
    BY <2>4, <2>5
<1>5. e = w
  <2>1. e = [m \in Mints |-> e[m]] /\ w = [m \in Mints |-> w[m]]
    BY DEF Entries, Atomic!With, book
  <2> HIDE DEF e, w
  <2> QED
    BY <1>4, <2>1
<1>6. /\ 2 * SumOver(Basis(p, pos'), Mints) <= CapitalLimit
      /\ rows' = Snapshot(p, pos')
  BY AddedCapital DEF RefInv
<1>7. Cardinality({m \in Mints : p[m] # None}) <= MaxOpenPositions
  <2>1. {m \in Mints : p[m] # None} \in SUBSET (Open \cup {k})
    BY <1>2 DEF Open
  <2>2. /\ IsFiniteSet(Open \cup {k}) /\ Cardinality(Open \cup {k}) \in Nat
        /\ Cardinality(Open \cup {k}) <= MaxOpenPositions
    BY RoomForOne DEF RefInv, Admitted
  <2>3. /\ Cardinality({m \in Mints : p[m] # None}) <= Cardinality(Open \cup {k})
        /\ Cardinality({m \in Mints : p[m] # None}) \in Nat
    BY <2>1, <2>2, FS_Subset, FS_CardinalityType
  <2> QED
    BY <2>2, <2>3, LimitsAssumption
<1>8. 2 * (deployed[SymbolOf[k]] + buy.amt) <= 2 * SymbolCap + Tick
  <2>1. up
    BY <1>1 DEF Parts, DownOK
  <2> QED
    BY <2>1 DEF RefInv, LifeInv, InFlight
<1> HIDE DEF e
<1>9. Atomic!Affordable(k, buy.amt)
  <2>1. /\ Atomic!Held(e) = {m \in Mints : p[m] # None}
        /\ Atomic!Cost(e) = SumOver(Basis(p, pos'), Mints)
    BY EntriesOf DEF e
  <2>2. Atomic!Cardinality(Atomic!Held(w)) <= MaxOpenPositions
    BY <1>5, <1>7, <2>1, SameCount
  <2>3. 2 * Atomic!Cost(w) <= 2 * MaxTotalExposure + Tick
    BY <1>5, <1>6, <2>1 DEF CapitalLimit
  <2> QED
    BY <1>8, <2>2, <2>3 DEF Atomic!Affordable
<1>10. buy.amt \in 0..(MaxTotalExposure + Tick)
  <2>1. 2 * (Exposure + buy.amt) <= 2 * MaxTotalExposure + Tick
    BY DEF RefInv, CapitalInv, CapitalLimit
  <2>2. Exposure \in Nat /\ buy.amt \in Nat
    BY CapitalTypes
  <2> QED
    BY <2>1, <2>2, AmountsAssumption
<1> QED
  BY <1>2, <1>3, <1>5, <1>6, <1>9, <1>10 DEF e

\* The tokens arrive: an atomic opening.
LEMMA OpenImplements ==
  ASSUME Typed, RefInv, BuyConfirmed \/ BuyResolved
  PROVE  Atomic!Next
<1>1. /\ buy.pc \in {"buying", "resolving"} /\ AddToBook /\ up /\ up' = up
      /\ positions' = [positions EXCEPT ![buy.mint] = nobj + 1]
      /\ deployed' = [deployed EXCEPT ![SymbolOf[buy.mint]] = @ + buy.amt]
      /\ dDeployed' = deployed'
  BY DEF BuyConfirmed, BuyResolved, OpenPosition
<1>2. /\ buy.mint \in Mints /\ buy.amt \in 0..(MaxTotalExposure + Tick)
      /\ nobj' = nobj + 1 /\ rows' = Snapshot(positions', pos')
      /\ Entries(Snapshot(positions', pos')) = Atomic!With(buy.mint, buy.amt)
      /\ Atomic!Affordable(buy.mint, buy.amt)
  BY <1>1, BuyFits
<1>3. book' = Atomic!With(buy.mint, buy.amt) /\ file' = book'
  BY <1>2 DEF book, file
<1>4. Atomic!Open(buy.mint, buy.amt)
  BY <1>1, <1>2, <1>3 DEF Atomic!Open
<1> QED
  BY <1>2, <1>4 DEF Atomic!Next

\* Objects q have no more cost basis or tokens than the engine's.
Lesser(q) ==
  /\ q \in [Objs -> Position]
  /\ \A o \in Objs : q[o].sol <= pos[o].sol /\ q[o].tok <= pos[o].tok

\* What is written of a book that lost mints, or whose objects lost tokens or
\* cost basis, has nothing that the book has not.
LEMMA LesserWithin ==
  ASSUME Typed, NEW q, Lesser(q), NEW p \in [Mints -> 0..MaxBuys],
         \A m \in Mints : p[m] # None => p[m] = positions[m]
  PROVE  Atomic!Within(Entries(Snapshot(p, q)), book)
<1> DEFINE b == Entries(Snapshot(p, q))
<1> SUFFICES ASSUME NEW m \in Mints, p[m] # None
             PROVE  /\ b[m].id = book[m].id /\ b[m].cost <= book[m].cost
                    /\ b[m].tokens <= book[m].tokens
  <2>1. \A m \in Mints : p[m] = None => b[m] = Atomic!NoEntry
    BY EntryOf
  <2> QED
    BY <2>1 DEF Atomic!Within
<1>1. p[m] = positions[m] /\ p[m] \in Objs
  BY LimitsAssumption DEF Objs, None
<1>2. b[m] = [id |-> p[m], cost |-> q[p[m]].sol, tokens |-> q[p[m]].tok]
  BY EntryOf
<1>3. book[m] = [id |-> p[m], cost |-> pos[p[m]].sol, tokens |-> pos[p[m]].tok]
  BY <1>1, EntryOf DEF book
<1> HIDE DEF b
<1> QED
  BY <1>1, <1>2, <1>3 DEF Lesser

\* Such a write, followed at most by dropping mints without tokens from the
\* book in memory, is a reduction.
LEMMA ReduceImplements ==
  ASSUME Typed, up, UNCHANGED <<up, deployed, dDeployed, nobj>>,
         Lesser(pos'), NEW p \in [Mints -> 0..MaxBuys],
         \A m \in Mints : p[m] # None => p[m] = positions[m],
         rows' = Snapshot(p, pos'),
         \A m \in Mints : \/ positions'[m] = p[m]
                          \/ positions'[m] = None /\ pos'[p[m]].tok = 0
  PROVE  Atomic!Next
<1>1. Atomic!Within(file', book)
  BY LesserWithin DEF file
<1>2. ASSUME NEW m \in Mints
      PROVE  book'[m] = file'[m] \/ (book'[m] = Atomic!NoEntry /\ file'[m].tokens = 0)
  <2>1. file'[m] = IF p[m] = None THEN Atomic!NoEntry
                   ELSE [id |-> p[m], cost |-> pos'[p[m]].sol, tokens |-> pos'[p[m]].tok]
    BY EntryOf DEF file
  <2>2. book'[m] = IF positions'[m] = None THEN Atomic!NoEntry
                   ELSE [id |-> positions'[m], cost |-> pos'[positions'[m]].sol,
                         tokens |-> pos'[positions'[m]].tok]
    BY EntryOf DEF book
  <2>3. Atomic!NoEntry.tokens = 0
    BY DEF Atomic!NoEntry
  <2>4. CASE positions'[m] = p[m]
    BY <2>1, <2>2, <2>4
  <2>5. CASE positions'[m] = None /\ pos'[p[m]].tok = 0
    BY <2>1, <2>2, <2>3, <2>5
  <2> QED
    BY <2>4, <2>5
<1>3. Atomic!Agrees(book', file')
  BY <1>2 DEF Atomic!Agrees
<1> QED
  BY <1>1, <1>3 DEF Atomic!Next, Atomic!Reduce

\* Changing one object to one with no more in it.
LEMMA UpdatedLesser ==
  ASSUME Typed, NEW o \in Objs, NEW r \in Position, r.sol <= pos[o].sol, r.tok <= pos[o].tok,
         NEW q, q = [pos EXCEPT ![o] = r]
  PROVE  Lesser(q)
<1>1. pos \in [Objs -> Position]
  BY TypedParts DEF Parts
<1>2. ASSUME NEW x \in Objs
      PROVE  q[x].sol <= pos[x].sol /\ q[x].tok <= pos[x].tok
  <2>1. pos[x].sol \in Nat /\ pos[x].tok \in Nat
    BY <1>1 DEF Position
  <2> QED
    BY <1>1, <2>1
<1> QED
  BY <1>1, <1>2 DEF Lesser

\* The objects as they are.
LEMMA KeptLesser ==
  ASSUME Typed
  PROVE  Lesser(pos)
<1>1. pos \in [Objs -> Position]
  BY TypedParts DEF Parts
<1>2. \A o \in Objs : pos[o].sol \in Nat /\ pos[o].tok \in Nat
  BY <1>1 DEF Position
<1> QED
  BY <1>1, <1>2 DEF Lesser

\* The objects after a failed attempt.
LEMMA FailedLesser ==
  ASSUME Typed, NEW t \in Sellers, sell[t].pc = "selling",
         NEW q, q = [pos EXCEPT ![sell[t].obj] = AfterFailure(@)]
  PROVE  sell[t].mint \in Mints /\ Lesser(q)
<1> DEFINE o == sell[t].obj
           r == AfterFailure(pos[o])
<1>1. sell[t].mint \in Mints /\ o \in Objs /\ pos[o] \in Position
  BY TypedParts, LimitsAssumption DEF Parts, SlotsOK, Objs
<1>2. r \in Position /\ r.sol <= pos[o].sol /\ r.tok <= pos[o].tok
  BY <1>1 DEF AfterFailure, Position
<1>3. q = [pos EXCEPT ![o] = r]
  OBVIOUS
<1> HIDE DEF r, o
<1> QED
  BY <1>1, <1>2, <1>3, UpdatedLesser

\* The objects after a leg.
LEMMA LegLesser ==
  ASSUME Typed, mon.pc = "leg",
         NEW q, q = [pos EXCEPT ![mon.obj] = AfterLeg(pos[mon.obj], mon.lvl)]
  PROVE  mon.mint \in Mints /\ Lesser(q)
<1> DEFINE r == AfterLeg(pos[mon.obj], mon.lvl)
<1>1. /\ mon.mint \in Mints /\ mon.obj \in Objs /\ pos[mon.obj] \in Position
      /\ r \in Position /\ r.sol <= pos[mon.obj].sol
  BY LegObject
<1>2. r.tok <= pos[mon.obj].tok
  <2>1. mon.lvl \in Levels
    BY TypedParts DEF Parts, MonOK
  <2>2. Keep(pos[mon.obj].tok, mon.lvl) \in 0..pos[mon.obj].tok
    BY <1>1, <2>1, KeepBounds DEF Position
  <2>3. r.tok = Keep(pos[mon.obj].tok, mon.lvl)
    BY <1>1 DEF AfterLeg, Position
  <2>4. pos[mon.obj].tok \in Nat
    BY <1>1 DEF Position
  <2> HIDE DEF r
  <2> QED
    BY <2>2, <2>3, <2>4
<1>3. q = [pos EXCEPT ![mon.obj] = r]
  OBVIOUS
<1> HIDE DEF r
<1> QED
  BY <1>1, <1>2, <1>3, UpdatedLesser

\* The book and the book without a mint.
LEMMA DropFacts ==
  ASSUME Typed, NEW m \in Mints
  PROVE  /\ positions \in [Mints -> 0..MaxBuys] /\ Drop(positions, m) \in [Mints -> 0..MaxBuys]
         /\ Drop(positions, m)[m] = None
         /\ \A x \in Mints : x # m => Drop(positions, m)[x] = positions[x]
         /\ \A x \in Mints : Drop(positions, m)[x] # None => Drop(positions, m)[x] = positions[x]
  BY TypedParts, LimitsAssumption DEF Parts, BookOK, Drop, None

\* Two states that agree on book, objects, file, totals and ids are the same
\* to AtomicBook.
LEMMA StutterImplements ==
  ASSUME UNCHANGED <<up, positions, pos, nobj, rows, deployed, dDeployed>>
  PROVE  UNCHANGED Atomic!vars
  BY DEF Atomic!vars, book, file

\* A step inside a force-sell drops a position without tokens, or nothing.
LEMMA SellImplements ==
  ASSUME Typed, SellStep
  PROVE  Atomic!Next \/ UNCHANGED Atomic!vars
<1>1. UNCHANGED <<up, pos, nobj, deployed, rows, dDeployed>> /\ up
  BY SellStepFrame
<1>2. \/ positions' = positions
      \/ \E m \in Mints : positions' = Drop(positions, m) /\ ~Sellable(m, pos)
  <2>1. mon.pc = "leg" => mon.mint \in Mints
    BY TypedParts DEF Parts, MonOK
  <2> QED
    BY <2>1 DEF SellStep, EmergencySell, CheckStops, CheckLadder, LegFails, WebForceSell,
       ContinueCheck, BeginForceSell
<1>3. CASE positions' = positions
  BY <1>1, <1>3, StutterImplements
<1>4. ASSUME NEW m \in Mints, positions' = Drop(positions, m), ~Sellable(m, pos)
      PROVE  Atomic!Forget(m)
  <2>1. book[m].tokens = 0
    <3>1. positions[m] # None => positions[m] \in Objs
      BY DropFacts, LimitsAssumption DEF Objs, None
    <3>2. positions[m] # None => pos[positions[m]].tok = 0
      BY <1>4, <3>1, TypedParts DEF Sellable, Parts, Position
    <3>3. book[m] = IF positions[m] = None THEN Atomic!NoEntry
                    ELSE [id |-> positions[m], cost |-> pos[positions[m]].sol,
                          tokens |-> pos[positions[m]].tok]
      BY EntryOf DEF book
    <3> QED
      BY <3>2, <3>3 DEF Atomic!NoEntry
  <2>2. book' = [book EXCEPT ![m] = Atomic!NoEntry]
    <3> DEFINE old == book
               new == book'
    <3>1. old = [x \in Mints |-> old[x]] /\ new = [x \in Mints |-> new[x]]
      BY DEF book, Entries
    <3>2. ASSUME NEW x \in Mints
          PROVE  new[x] = IF x = m THEN Atomic!NoEntry ELSE old[x]
      <4>1. new[x] = IF positions'[x] = None THEN Atomic!NoEntry
                     ELSE [id |-> positions'[x], cost |-> pos'[positions'[x]].sol,
                           tokens |-> pos'[positions'[x]].tok]
        BY EntryOf DEF book
      <4>2. old[x] = IF positions[x] = None THEN Atomic!NoEntry
                     ELSE [id |-> positions[x], cost |-> pos[positions[x]].sol,
                           tokens |-> pos[positions[x]].tok]
        BY EntryOf DEF book
      <4>3. positions'[x] = IF x = m THEN None ELSE positions[x]
        BY <1>4, DropFacts
      <4> HIDE DEF old, new
      <4> QED
        BY <1>1, <4>1, <4>2, <4>3
    <3> HIDE DEF old, new
    <3>3. new = [old EXCEPT ![m] = Atomic!NoEntry]
      BY <3>1, <3>2
    <3> QED
      BY <3>3 DEF old, new
  <2>3. UNCHANGED file
    BY <1>1 DEF file
  <2> QED
    BY <1>1, <2>1, <2>2, <2>3 DEF Atomic!Forget
<1> QED
  BY <1>2, <1>3, <1>4 DEF Atomic!Next

\* The end of a force-sell and a leg are reductions, or change nothing.
LEMMA SaveImplements ==
  ASSUME Typed, EndStep \/ PartialLeg \/ FinalLeg
  PROVE  Atomic!Next \/ UNCHANGED Atomic!vars
<1>1. UNCHANGED <<up, deployed, dDeployed, nobj>> /\ up
  BY DEF EndStep, SellFails, Settle, PartialLeg, FinalLeg
<1>2. Parts
  BY TypedParts
<1>3. ASSUME NEW t \in Sellers, SellFails(t)
      PROVE  Atomic!Next
  <2> DEFINE q == [pos EXCEPT ![sell[t].obj] = AfterFailure(@)]
  <2>1. /\ sell[t].pc = "selling" /\ pos' = q /\ rows' = Snapshot(positions', pos')
        /\ positions' \in {positions, Drop(positions, sell[t].mint)}
    BY <1>3 DEF SellFails
  <2>2. sell[t].mint \in Mints /\ Lesser(pos')
    BY <2>1, FailedLesser
  <2>3. /\ positions' \in [Mints -> 0..MaxBuys]
        /\ \A x \in Mints : positions'[x] # None => positions'[x] = positions[x]
    BY <2>1, <2>2, DropFacts
  <2> HIDE DEF q
  <2> QED
    BY <1>1, <2>1, <2>2, <2>3, ReduceImplements
<1>4. ASSUME NEW t \in Sellers, Settle(t)
      PROVE  Atomic!Next \/ UNCHANGED Atomic!vars
  <2>1. /\ sell[t].mint \in Mints /\ pos' = pos
        /\ positions' = Drop(positions, sell[t].mint)
        /\ rows' = IF positions[sell[t].mint] = None THEN rows ELSE Snapshot(positions', pos')
    BY <1>2, <1>4 DEF Settle, ClosePosition, Parts, SlotsOK
  <2>2. CASE positions[sell[t].mint] = None
    <3>1. positions' = positions
      BY <1>2, <2>1, <2>2 DEF Drop, Parts, BookOK
    <3> QED
      BY <1>1, <2>1, <2>2, <3>1, StutterImplements
  <2>3. CASE positions[sell[t].mint] # None
    <3>1. /\ positions' \in [Mints -> 0..MaxBuys]
          /\ \A x \in Mints : positions'[x] # None => positions'[x] = positions[x]
      BY <2>1, DropFacts
    <3>2. Lesser(pos')
      BY <2>1, KeptLesser
    <3> QED
      BY <1>1, <2>1, <2>3, <3>1, <3>2, ReduceImplements
  <2> QED
    BY <2>2, <2>3
<1> DEFINE q == [pos EXCEPT ![mon.obj] = AfterLeg(pos[mon.obj], mon.lvl)]
<1>5. CASE PartialLeg
  <2>1. /\ mon.pc = "leg" /\ pos' = q /\ rows' = Snapshot(positions, pos')
        /\ \/ positions' = positions
           \/ positions' = Drop(positions, mon.mint) /\ ~Sellable(mon.mint, pos')
    BY <1>5 DEF PartialLeg, ContinueCheck, BeginForceSell
  <2>2. mon.mint \in Mints /\ Lesser(pos')
    BY <2>1, LegLesser
  <2> HIDE DEF q
  <2>3. ASSUME NEW x \in Mints
        PROVE  \/ positions'[x] = positions[x]
               \/ positions'[x] = None /\ pos'[positions[x]].tok = 0
    <3>1. CASE positions' = positions \/ x # mon.mint \/ positions[x] = None
      BY <2>1, <2>2, <3>1, DropFacts
    <3>2. CASE /\ positions' = Drop(positions, mon.mint) /\ ~Sellable(mon.mint, pos')
               /\ x = mon.mint /\ positions[x] # None
      <4>1. positions[x] \in Objs
        BY <3>2, DropFacts, LimitsAssumption DEF Objs, None
      <4>2. pos'[positions[x]] \in Position
        BY <2>2, <4>1 DEF Lesser
      <4>3. pos'[positions[x]].tok = 0
        BY <3>2, <4>2 DEF Sellable, Position
      <4> QED
        BY <2>2, <3>2, <4>3, DropFacts
    <3> QED
      BY <2>1, <3>1, <3>2
  <2>4. positions \in [Mints -> 0..MaxBuys]
    BY <1>2 DEF Parts, BookOK
  <2> QED
    BY <1>1, <2>1, <2>2, <2>3, <2>4, ReduceImplements
<1>6. CASE FinalLeg
  <2>1. /\ mon.pc = "leg" /\ pos' = q /\ rows' = Snapshot(positions', pos')
        /\ positions' = Drop(positions, mon.mint)
    BY <1>6 DEF FinalLeg, ClosePosition
  <2>2. mon.mint \in Mints /\ Lesser(pos')
    BY <2>1, LegLesser
  <2> HIDE DEF q
  <2>3. /\ positions' \in [Mints -> 0..MaxBuys]
        /\ \A x \in Mints : positions'[x] # None => positions'[x] = positions[x]
    BY <2>1, <2>2, DropFacts
  <2> QED
    BY <1>1, <2>1, <2>2, <2>3, ReduceImplements
<1> QED
  BY <1>3, <1>4, <1>5, <1>6 DEF EndStep

\* A death loses the memory, and of the file no more than a save under way.
LEMMA CrashImplements ==
  ASSUME Typed, RefInv, CrashStep
  PROVE  Atomic!Next
<1>1. PICK torn : /\ Die(torn)
                  /\ positions' = [m \in Mints |-> None] /\ dDeployed' = dDeployed
  BY DEF CrashStep, Crash, CrashInOpen, CrashInPartialLeg, CrashInFinalLeg, CrashInAbandon,
         CrashInClose
<1>2. up /\ up' = FALSE /\ deployed' = [s \in Symbols |-> 0]
  BY <1>1 DEF Die
<1>3. book' = Atomic!Empty
  <2>1. \A m \in Mints : positions'[m] = None
    BY <1>1
  <2>2. \A m \in Mints : Entries(Snapshot(positions', pos'))[m] = Atomic!NoEntry
    BY <2>1, EntryOf
  <2>3. book' = [m \in Mints |-> book'[m]]
    BY DEF book, Entries
  <2>4. \A m \in Mints : book'[m] = Atomic!NoEntry
    BY <2>2 DEF book
  <2> QED
    BY <2>3, <2>4 DEF Atomic!Empty
<1> SUFFICES \/ UNCHANGED <<file, nobj>>
             \/ Atomic!Within(file', book) /\ UNCHANGED nobj
             \/ /\ nobj' = nobj + 1
                /\ \E m \in Mints, c \in 0..(MaxTotalExposure + Tick) :
                     Atomic!Affordable(m, c) /\ file' = Atomic!With(m, c)
  BY <1>1, <1>2, <1>3 DEF Atomic!Next, Atomic!Die
<1>4. CASE Crash \/ CrashInPartialLeg
  BY <1>4 DEF Crash, CrashInPartialLeg, file
<1>5. CASE CrashInFinalLeg
  <2> DEFINE q == [pos EXCEPT ![mon.obj] = AfterLeg(pos[mon.obj], mon.lvl)]
  <2>1. /\ mon.pc = "leg" /\ UNCHANGED nobj
        /\ rows' = Snapshot(positions, q) \/ rows' = Snapshot(Drop(positions, mon.mint), q)
    BY <1>5 DEF CrashInFinalLeg
  <2>2. mon.mint \in Mints /\ Lesser(q)
    BY <2>1, LegLesser
  <2> HIDE DEF q
  <2>3. /\ Atomic!Within(Entries(Snapshot(positions, q)), book)
        /\ Atomic!Within(Entries(Snapshot(Drop(positions, mon.mint), q)), book)
    BY <2>2, DropFacts, LesserWithin
  <2> QED
    BY <2>1, <2>3 DEF file
<1>6. ASSUME NEW t \in Sellers, CrashInAbandon(t)
      PROVE  Atomic!Within(file', book) /\ UNCHANGED nobj
  <2> DEFINE q == [pos EXCEPT ![sell[t].obj] = AfterFailure(@)]
  <2>1. sell[t].pc = "selling" /\ UNCHANGED nobj /\ rows' = Snapshot(positions, q)
    BY <1>6 DEF CrashInAbandon
  <2>2. sell[t].mint \in Mints /\ Lesser(q)
    BY <2>1, FailedLesser
  <2> HIDE DEF q
  <2>3. Atomic!Within(Entries(Snapshot(positions, q)), book)
    BY <2>2, DropFacts, LesserWithin
  <2> QED
    BY <2>1, <2>3 DEF file
<1>7. ASSUME NEW t \in Sellers, CrashInClose(t)
      PROVE  Atomic!Within(file', book) /\ UNCHANGED nobj
  <2>1. /\ sell[t].mint \in Mints /\ UNCHANGED nobj
        /\ rows' = Snapshot(Drop(positions, sell[t].mint), pos)
    BY <1>7, TypedParts DEF CrashInClose, Parts, SlotsOK
  <2>2. Atomic!Within(Entries(Snapshot(Drop(positions, sell[t].mint), pos)), book)
    BY <2>1, DropFacts, KeptLesser, LesserWithin
  <2> QED
    BY <2>1, <2>2 DEF file
<1>8. CASE CrashInOpen
  <2> DEFINE p == [positions EXCEPT ![buy.mint] = nobj + 1]
  <2>1. buy.pc \in {"buying", "resolving"} /\ AddToBook
    BY <1>8 DEF CrashInOpen
  <2>2. /\ buy.mint \in Mints /\ buy.amt \in 0..(MaxTotalExposure + Tick)
        /\ nobj' = nobj + 1 /\ rows' = Snapshot(p, pos')
        /\ Entries(Snapshot(p, pos')) = Atomic!With(buy.mint, buy.amt)
        /\ Atomic!Affordable(buy.mint, buy.amt)
    BY <2>1, BuyFits
  <2>3. file' = Atomic!With(buy.mint, buy.amt)
    BY <2>2 DEF file
  <2> QED
    BY <2>2, <2>3
<1> QED
  BY <1>4, <1>5, <1>6, <1>7, <1>8 DEF CrashStep

\* A restart takes over the file and the totals.
LEMMA RestartImplements ==
  ASSUME Typed, RefInv, Restart
  PROVE  Atomic!Next
<1>1. /\ ~up /\ up' = TRUE /\ UNCHANGED <<nobj, rows, dDeployed>> /\ deployed' = dDeployed
      /\ positions' = [m \in Mints |-> rows[m].obj]
  BY DEF Restart, diskVars
<1>2. ASSUME NEW m \in Mints
      PROVE  book'[m] = file[m]
  <2> DEFINE o == rows[m].obj
  <2>1. book'[m] = IF o = None THEN Atomic!NoEntry
                   ELSE [id |-> o, cost |-> pos'[o].sol, tokens |-> pos'[o].tok]
    <3>1. positions'[m] = o
      BY <1>1
    <3>2. book'[m] = IF positions'[m] = None THEN Atomic!NoEntry
                     ELSE [id |-> positions'[m], cost |-> pos'[positions'[m]].sol,
                           tokens |-> pos'[positions'[m]].tok]
      BY EntryOf DEF book
    <3> QED
      BY <3>1, <3>2
  <2>2. file[m] = [id |-> o, cost |-> rows[m].rec.sol, tokens |-> rows[m].rec.tok]
    BY DEF file, Entries
  <2>3. CASE o = None
    <3>1. rows[m] = NoRow
      BY <2>3 DEF RefInv, RowsClean
    <3> QED
      BY <2>1, <2>2, <2>3, <3>1 DEF NoRow, Blank, Atomic!NoEntry, None
  <2>4. CASE o # None
    <3>1. o \in Objs /\ pos[o].mint = m
      BY <2>4, TypedParts, LimitsAssumption DEF Parts, RowsOK, Objs
    <3>2. pos'[o] = rows[m].rec
      BY <3>1 DEF Restart
    <3> QED
      BY <2>1, <2>2, <2>4, <3>2
  <2> QED
    BY <2>3, <2>4
<1>3. book' = file /\ file' = file
  <2>1. book' = [m \in Mints |-> book'[m]] /\ file = [m \in Mints |-> file[m]]
    BY DEF book, file, Entries
  <2>2. file' = file
    BY <1>1 DEF file
  <2> QED
    BY <1>2, <2>1, <2>2
<1> QED
  BY <1>1, <1>3 DEF Atomic!Next, Atomic!Restart

\* Every step of the engine is a step of the atomic book, or none.
LEMMA BookStep == Typed /\ RefInv /\ [Next]_vars => [Atomic!Next]_(Atomic!vars)
<1> SUFFICES ASSUME Typed, RefInv, [Next]_vars
             PROVE  Atomic!Next \/ UNCHANGED Atomic!vars
  OBVIOUS
<1>1. CASE \/ TickStep \/ FlagStep \/ UNCHANGED vars
           \/ (\E m \in Mints : TakeToken(m)) \/ AdmitBuy \/ RejectBuy \/ SubmitBuy \/ BuyFails
           \/ BuyNeedsResolving \/ ResolveFails
  <2>1. UNCHANGED <<up, positions, pos, nobj, rows, deployed, dDeployed>>
    <3>1. CASE TickStep \/ FlagStep \/ UNCHANGED vars
      BY <3>1 DEF TickStep, ResumeForceSell, NoEmergency, EmergencyDone, ChecksDone,
         CheckMissing, SellLands, FlagStep, TripEmergency, WebStop, WebResume, vars, memVars,
         diskVars
    <3>2. CASE (\E m \in Mints : TakeToken(m)) \/ AdmitBuy \/ RejectBuy \/ SubmitBuy \/ BuyFails
               \/ BuyNeedsResolving \/ ResolveFails
      BY <3>2 DEF TakeToken, AdmitBuy, RejectBuy, SubmitBuy, BuyFails, BuyNeedsResolving,
         ResolveFails, memVars, diskVars
    <3> QED
      BY <1>1, <3>1, <3>2
  <2> QED
    BY <2>1, StutterImplements
<1> QED
  BY <1>1, NextCases, OpenImplements, SellImplements, SaveImplements, CrashImplements,
     RestartImplements

\* The engine starts as the atomic book does.
LEMMA BookInit == Init => Atomic!Init
<1> SUFFICES ASSUME Init PROVE Atomic!Init
  OBVIOUS
<1>1. \A m \in Mints : positions[m] = None /\ rows[m] = NoRow
  BY DEF Init
<1>2. \A m \in Mints : book[m] = Atomic!NoEntry
  <2>1. \A m \in Mints : Entries(Snapshot(positions, pos))[m] = Atomic!NoEntry
    BY <1>1, EntryOf
  <2> QED
    BY <2>1 DEF book
<1>3. \A m \in Mints : file[m] = Atomic!NoEntry
  BY <1>1 DEF file, Entries, NoRow, Blank, None, Atomic!NoEntry
<1>4. book = Atomic!Empty /\ file = Atomic!Empty
  <2>1. book = [m \in Mints |-> book[m]] /\ file = [m \in Mints |-> file[m]]
    BY DEF book, file, Entries
  <2> QED
    BY <1>2, <1>3, <2>1 DEF Atomic!Empty
<1> QED
  BY <1>4 DEF Init, Atomic!Init

\* It holds initially.
LEMMA RefInit == Init => RefInv
<1> SUFFICES ASSUME Init PROVE RefInv
  OBVIOUS
<1> QED
  BY CapInit, LifeInit, CapitalInit DEF RefInv, Init, RowsClean

\* Every step keeps it.
LEMMA RefStep == Typed /\ RefInv /\ [Next]_vars => RefInv'
  BY CapStep, LifeStep, CapitalStep, RowsCleanStep DEF RefInv

\* Admitting a buy on limits looked at two awaits and a buy ago, saving the
\* book in pieces, dying between any two of them and starting again from what
\* is on disk does to the positions what checking, opening and saving in one
\* step does.
THEOREM BookImplemented == Spec => ImplementsAtomicBook
<1>1. Init => Atomic!Init
  BY BookInit
<1>2. Typed /\ RefInv /\ [Next]_vars => [Atomic!Next]_(Atomic!vars)
  BY BookStep
<1> QED
  BY <1>1, <1>2, TypedInit, TypedStep, RefInit, RefStep, PTL
  DEF Spec, ImplementsAtomicBook, Atomic!Spec

\* A running engine's book is what its file says, but for positions without
\* tokens: a restart brings back every position, with what is left of it, and
\* none that was sold or given up.
THEOREM NothingComesBack == Spec => []Atomic!Durable
<1>1. Atomic!Init => Atomic!Durable
  BY DEF Atomic!Init, Atomic!Durable, Atomic!Agrees
<1>2. Atomic!Durable /\ [Atomic!Next]_(Atomic!vars) => Atomic!Durable'
  <2> SUFFICES ASSUME Atomic!Durable, [Atomic!Next]_(Atomic!vars), up'
               PROVE  Atomic!Agrees(book', file')
    BY DEF Atomic!Durable
  <2>1. CASE Atomic!Reduce
    BY <2>1 DEF Atomic!Reduce
  <2>2. ASSUME NEW m \in Mints, NEW c, Atomic!Open(m, c)
        PROVE  Atomic!Agrees(book', file')
    BY <2>2 DEF Atomic!Open, Atomic!Agrees
  <2>3. ASSUME NEW m \in Mints, Atomic!Forget(m)
        PROVE  Atomic!Agrees(book', file')
    <3>1. /\ up /\ book[m].tokens = 0 /\ file' = file
          /\ book' = [book EXCEPT ![m] = Atomic!NoEntry]
      BY <2>3 DEF Atomic!Forget
    <3>2. \A x \in Mints : book'[x] = IF x = m THEN Atomic!NoEntry ELSE book[x]
      <4>1. DOMAIN book = Mints
        BY DEF book, Entries
      <4> QED
        BY <3>1, <4>1
    <3>3. \A x \in Mints : \/ book[x] = file[x]
                           \/ book[x] = Atomic!NoEntry /\ file[x].tokens = 0
      BY <3>1 DEF Atomic!Durable, Atomic!Agrees
    <3> QED
      BY <3>1, <3>2, <3>3 DEF Atomic!Agrees
  <2>4. CASE Atomic!Restart
    BY <2>4 DEF Atomic!Restart, Atomic!Agrees
  <2>5. CASE Atomic!Die
    BY <2>5 DEF Atomic!Die
  <2>6. CASE UNCHANGED Atomic!vars
    BY <2>6 DEF Atomic!vars, Atomic!Durable, Atomic!Agrees
  <2> QED
    BY <2>1, <2>2, <2>3, <2>4, <2>5, <2>6 DEF Atomic!Next
<1> QED
  BY <1>1, <1>2, BookImplemented, PTL DEF ImplementsAtomicBook, Atomic!Spec
=============================================================================
