------------------------- MODULE LiveCustodyProofs -------------------------
(***************************************************************************)
(* Proofs about live trading of one mint: the types, that no buy is given  *)
(* up in silence (BuyTraced), and, while every buy of the mint starts when *)
(* what came before is over (BuysApart), as the one buy of a mint that is  *)
(* bought once does, that the book claims no tokens the wallet has not got *)
(* but by what a quote promised (BookBacked), and that a close leaves none *)
(* behind (ExitSellsAll).                                                  *)
(* Retries, lost answers, restarts, a rug fall anywhere.                   *)
(***************************************************************************)
EXTENDS LiveCustody, ArithmeticProofs

(* Transactions, and lists of them that have moved on: what was signed is  *)
(* decided, what executed stays executed.                                  *)
Signed == [side : {"buy", "sell"}, amount : Nat \ {0}, venue : {"jupiter", "pumpportal"},
           age : 0..Life, status : {"built", "sent", "landed", "failed"}, booked : BOOLEAN]

Follows(T, U) ==
    /\ U \in Seq(Signed) /\ DOMAIN T \subseteq DOMAIN U
    /\ \A i \in DOMAIN T :
         U[i].side = T[i].side /\ U[i].amount = T[i].amount /\ U[i].venue = T[i].venue

(* A sale in the list T.                                                   *)
Sale(i, T) == i \in DOMAIN T /\ T[i].side = "sell"
Buy(i, T)  == i \in DOMAIN T /\ T[i].side = "buy"

Position ==
    [id : Ids \cup {NoTx}, tokens : Nat, bytes : Ids \cup {NoTx}, stale : 0..Fresh,
     attempts : 0..(MaxAttempts - 1), leg : BOOLEAN]

(* The position, the two loops and the tasks refer to what was signed.     *)
BookOf(b, T) ==
    b \in Position /\ (b.id # NoTx => Buy(b.id, T)) /\ (b.bytes # NoTx => Sale(b.bytes, T))

TradeOf(o, T) ==
    \/ o = Idle
    \/ /\ o \in [pc : {"send", "confirm", "resolve"}, tx : Ids, wait : 0..ConfirmWait]
       /\ Buy(o.tx, T)

MonitorOf(o, T) ==
    \/ o = Resting
    \/ /\ o \in [pc : {"send", "confirm", "receipt"}, kind : {"leg", "exit"}, id : Ids, tx : Ids,
                 wait : 0..ConfirmWait, before : Nat, try : 1..MaxAttempts]
       /\ Sale(o.tx, T)

Task == [id : Ids, tx : Ids \cup {NoTx}]

TasksOf(tasks, T) == \A w \in tasks : w \in Task /\ (w.tx # NoTx => Sale(w.tx, T))

(* A buy brings one of the fills there may be.                             *)
TxsOf(T) ==
    /\ T \in Seq(Signed) /\ Len(T) <= MaxTxs
    /\ \A i \in DOMAIN T : T[i].side = "buy" => T[i].amount \in Fills

Typed ==
    /\ wallet \in [tokens : Nat, sol : Nat] /\ pool \in BOOLEAN
    /\ TxsOf(txs)
    /\ known \in Nat /\ buySize \in {0, Lot}
    /\ left \in [buys : Nat, faults : Nat, crashes : 0..MaxCrashes]
    /\ BookOf(book, txs) /\ disk = Row(book)
    /\ TradeOf(trade, txs) /\ MonitorOf(monitor, txs) /\ TasksOf(waiting, txs)

LEMMA Numbers ==
    /\ Lot \in Nat /\ Lot > 0 /\ MaxAttempts \in Nat /\ MaxAttempts > 0
    /\ ConfirmWait \in Nat /\ ConfirmWait > 0 /\ LegPct \in 1..99
    /\ {MaxTxs, MaxBuys, MaxFaults, MaxCrashes, Fresh, Life} \subseteq Nat
    /\ Fresh > 0 /\ Life > 0 /\ Fills \subseteq Nat \ {0}
BY CustodyAssumption

-----------------------------------------------------------------------------
(* Transactions                                                            *)

(* The ids of a list.                                                      *)
LEMMA IdsOf ==
    ASSUME NEW T, TxsOf(T)
    PROVE  /\ Len(T) \in Nat /\ DOMAIN T = 1..Len(T) /\ DOMAIN T \subseteq Ids
           /\ NoTx \notin DOMAIN T
           /\ \A i \in DOMAIN T : T[i] \in Signed
<1>1. T \in Seq(Signed) /\ Len(T) <= MaxTxs /\ MaxTxs \in Nat
    BY Numbers DEF TxsOf
<1>2. Len(T) \in Nat /\ DOMAIN T = 1..Len(T) /\ \A i \in DOMAIN T : T[i] \in Signed
    BY <1>1
<1> QED
    BY <1>1, <1>2 DEF Ids, NoTx

(* What was signed goes to the end of the list.                            *)
LEMMA SignedLast ==
    ASSUME Typed, NEW side \in {"buy", "sell"}, NEW n \in Nat \ {0},
           NEW venue \in {"jupiter", "pumpportal"},
           Sign(side, n, venue), side = "buy" => n \in Fills
    PROVE  /\ TxsOf(txs') /\ Follows(txs, txs')
           /\ Newest \in Ids /\ Newest \in DOMAIN txs' /\ Newest \notin DOMAIN txs
           /\ txs'[Newest] = Tx(side, n, venue) /\ Len(txs') = Len(txs) + 1
           /\ \A i \in DOMAIN txs : txs'[i] = txs[i]
           /\ DOMAIN txs' = DOMAIN txs \cup {Newest}
<1>1. txs \in Seq(Signed) /\ Len(txs) < MaxTxs /\ MaxTxs \in Nat
      /\ txs' = Append(txs, Tx(side, n, venue))
    BY Numbers DEF Typed, TxsOf, Sign
<1>2. Tx(side, n, venue) \in Signed /\ Tx(side, n, venue).side = side
      /\ Tx(side, n, venue).amount = n
    BY Numbers DEF Tx, Signed
<1> DEFINE t == Tx(side, n, venue)
<1> HIDE DEF t
<1>3. /\ txs' \in Seq(Signed) /\ Len(txs') = Len(txs) + 1 /\ txs'[Len(txs) + 1] = t
      /\ \A i \in DOMAIN txs : i \in DOMAIN txs' /\ txs'[i] = txs[i]
      /\ DOMAIN txs' = DOMAIN txs \cup {Len(txs) + 1} /\ Len(txs) + 1 \notin DOMAIN txs
      /\ Len(txs) + 1 \in DOMAIN txs' /\ Len(txs) \in Nat
    BY <1>1, <1>2 DEF t
<1>4. Newest \in Ids
    BY <1>1, <1>3 DEF Newest, Ids
<1>5. \A i \in DOMAIN txs' : txs'[i].side = "buy" => txs'[i].amount \in Fills
    BY <1>2, <1>3 DEF t, Typed, TxsOf
<1>6. TxsOf(txs')
    BY <1>1, <1>3, <1>5 DEF TxsOf
<1>7. Follows(txs, txs')
    BY <1>3 DEF Follows
<1> QED
    BY <1>3, <1>4, <1>6, <1>7 DEF Newest, t

(* One transaction of the list moves on.                                   *)
LEMMA OneMoves ==
    ASSUME NEW T, TxsOf(T), NEW i \in DOMAIN T, NEW r \in Signed, r.side = T[i].side,
           r.amount = T[i].amount, r.venue = T[i].venue
    PROVE  LET U == [T EXCEPT ![i] = r] IN
           /\ TxsOf(U) /\ Follows(T, U) /\ DOMAIN U = DOMAIN T /\ Len(U) = Len(T) /\ U[i] = r
           /\ \A j \in DOMAIN T : j # i => U[j] = T[j]
<1> DEFINE U == [T EXCEPT ![i] = r]
<1>1. T \in Seq(Signed) /\ Len(T) <= MaxTxs
    BY DEF TxsOf
<1>2. U \in Seq(Signed) /\ Len(U) = Len(T) /\ DOMAIN U = DOMAIN T /\ U[i] = r
      /\ \A j \in DOMAIN T : j # i => U[j] = T[j]
    BY <1>1
<1>3. \A j \in DOMAIN T : U[j].side = T[j].side /\ U[j].amount = T[j].amount
      /\ U[j].venue = T[j].venue
    BY <1>2
<1>4. TxsOf(U)
    BY <1>1, <1>2, <1>3 DEF TxsOf
<1> QED
    BY <1>2, <1>3, <1>4 DEF Follows

(* A transaction that is sent.                                             *)
LEMMA SentMoves ==
    ASSUME Typed, NEW i \in DOMAIN txs, NEW a, Send(i, a)
    PROVE  /\ TxsOf(txs') /\ Follows(txs, txs') /\ DOMAIN txs' = DOMAIN txs /\ Len(txs') = Len(txs)
           /\ \A j \in DOMAIN txs :
                /\ txs'[j].booked = txs[j].booked
                /\ txs'[j].status = "landed" <=> txs[j].status = "landed"
<1> DEFINE s == IF txs[i].status = "built" /\ Taken(a) THEN "sent" ELSE txs[i].status
           r == [txs[i] EXCEPT !.status = s]
<1>1. TxsOf(txs) /\ txs[i] \in Signed
    BY IdsOf DEF Typed
<1>2. txs' = [txs EXCEPT ![i] = r]
    BY DEF Send
<1>3. s \in {"built", "sent", "landed", "failed"} /\ (s = "landed" <=> txs[i].status = "landed")
    BY <1>1 DEF Signed
<1> HIDE DEF s
<1>4. r \in Signed /\ r.side = txs[i].side /\ r.amount = txs[i].amount
      /\ r.venue = txs[i].venue /\ r.booked = txs[i].booked
      /\ r.status = s
    BY <1>1, <1>3 DEF Signed
<1> HIDE DEF r
<1>5. /\ TxsOf(txs') /\ Follows(txs, txs') /\ DOMAIN txs' = DOMAIN txs /\ Len(txs') = Len(txs)
      /\ txs'[i] = r /\ \A j \in DOMAIN txs : j # i => txs'[j] = txs[j]
  <2> DEFINE U == [txs EXCEPT ![i] = r]
  <2>1. /\ TxsOf(U) /\ Follows(txs, U) /\ DOMAIN U = DOMAIN txs /\ Len(U) = Len(txs) /\ U[i] = r
        /\ \A j \in DOMAIN txs : j # i => U[j] = txs[j]
      BY <1>1, <1>4, OneMoves
  <2>2. txs' = U
      BY <1>2
  <2> HIDE DEF U
  <2> QED
      BY <2>1, <2>2
<1> QED
    BY <1>3, <1>4, <1>5

(* A transaction that executes or fails.                                   *)
LEMMA DecidedMoves ==
    ASSUME Typed, NEW i \in DOMAIN txs, NEW s \in {"landed", "failed"},
           txs' = [txs EXCEPT ![i].status = s, ![i].age = 0]
    PROVE  /\ TxsOf(txs') /\ Follows(txs, txs') /\ DOMAIN txs' = DOMAIN txs /\ Len(txs') = Len(txs)
           /\ \A j \in DOMAIN txs : txs'[j].booked = txs[j].booked
           /\ txs'[i].status = s /\ \A j \in DOMAIN txs : j # i => txs'[j] = txs[j]
<1> DEFINE r == [txs[i] EXCEPT !.status = s, !.age = 0]
<1>1. TxsOf(txs) /\ txs[i] \in Signed
    BY IdsOf DEF Typed
<1>2. txs' = [txs EXCEPT ![i] = r]
    BY <1>1
<1>3. 0 \in 0..Life
    BY Numbers
<1>4. r \in Signed /\ r.side = txs[i].side /\ r.amount = txs[i].amount
      /\ r.venue = txs[i].venue /\ r.booked = txs[i].booked
      /\ r.status = s
    BY <1>1, <1>3 DEF Signed
<1> HIDE DEF r
<1>5. /\ TxsOf(txs') /\ Follows(txs, txs') /\ DOMAIN txs' = DOMAIN txs /\ Len(txs') = Len(txs)
      /\ txs'[i] = r /\ \A j \in DOMAIN txs : j # i => txs'[j] = txs[j]
  <2> DEFINE U == [txs EXCEPT ![i] = r]
  <2>1. /\ TxsOf(U) /\ Follows(txs, U) /\ DOMAIN U = DOMAIN txs /\ Len(U) = Len(txs) /\ U[i] = r
        /\ \A j \in DOMAIN txs : j # i => U[j] = txs[j]
      BY <1>1, <1>4, OneMoves
  <2>2. txs' = U
      BY <1>2
  <2> HIDE DEF U
  <2> QED
      BY <2>1, <2>2
<1> QED
    BY <1>4, <1>5

(* A transaction that is booked.                                           *)
LEMMA BookedMoves ==
    ASSUME Typed, NEW i \in DOMAIN txs, txs' = [txs EXCEPT ![i].booked = TRUE]
    PROVE  /\ TxsOf(txs') /\ Follows(txs, txs') /\ DOMAIN txs' = DOMAIN txs /\ Len(txs') = Len(txs)
           /\ \A j \in DOMAIN txs : txs'[j].status = txs[j].status
           /\ txs'[i].booked /\ \A j \in DOMAIN txs : j # i => txs'[j] = txs[j]
<1> DEFINE r == [txs[i] EXCEPT !.booked = TRUE]
<1>1. TxsOf(txs) /\ txs[i] \in Signed
    BY IdsOf DEF Typed
<1>2. txs' = [txs EXCEPT ![i] = r]
    BY <1>1
<1>4. r \in Signed /\ r.side = txs[i].side /\ r.amount = txs[i].amount
      /\ r.venue = txs[i].venue /\ r.booked
      /\ r.status = txs[i].status
    BY <1>1 DEF Signed
<1> HIDE DEF r
<1>5. /\ TxsOf(txs') /\ Follows(txs, txs') /\ DOMAIN txs' = DOMAIN txs /\ Len(txs') = Len(txs)
      /\ txs'[i] = r /\ \A j \in DOMAIN txs : j # i => txs'[j] = txs[j]
  <2> DEFINE U == [txs EXCEPT ![i] = r]
  <2>1. /\ TxsOf(U) /\ Follows(txs, U) /\ DOMAIN U = DOMAIN txs /\ Len(U) = Len(txs) /\ U[i] = r
        /\ \A j \in DOMAIN txs : j # i => U[j] = txs[j]
      BY <1>1, <1>4, OneMoves
  <2>2. txs' = U
      BY <1>2
  <2> HIDE DEF U
  <2> QED
      BY <2>1, <2>2
<1> QED
    BY <1>4, <1>5

(* Transactions that grow older.                                           *)
LEMMA AgedMove ==
    ASSUME Typed, txs' = Aged
    PROVE  /\ TxsOf(txs') /\ Follows(txs, txs') /\ DOMAIN txs' = DOMAIN txs /\ Len(txs') = Len(txs)
           /\ \A j \in DOMAIN txs : txs'[j].status = txs[j].status /\ txs'[j].booked = txs[j].booked
<1>1. TxsOf(txs) /\ \A i \in DOMAIN txs : txs[i] \in Signed
    BY IdsOf DEF Typed
<1>2. ASSUME NEW t \in Signed
      PROVE  Older(t) \in Signed /\ Older(t).side = t.side /\ Older(t).amount = t.amount
             /\ Older(t).venue = t.venue
             /\ Older(t).status = t.status /\ Older(t).booked = t.booked
  <2>1. t.age \in 0..Life /\ (t.age < Life => t.age + 1 \in 0..Life)
      BY Numbers DEF Signed
  <2> DEFINE n == t.age + 1  s == [t EXCEPT !.age = n]
  <2>2. ASSUME n \in 0..Life
        PROVE  s \in Signed /\ s.side = t.side /\ s.amount = t.amount /\ s.venue = t.venue
               /\ s.status = t.status
               /\ s.booked = t.booked
    <3> HIDE DEF n
    <3> QED
      BY <2>2 DEF Signed
  <2>3. Older(t) = IF t.status \in {"built", "sent"} /\ t.age < Life THEN s ELSE t
      BY DEF Older
  <2> HIDE DEF s
  <2> QED
      BY <2>1, <2>2, <2>3
<1>3. txs' \in Seq(Signed) /\ Len(txs') = Len(txs) /\ DOMAIN txs' = DOMAIN txs
      /\ \A i \in DOMAIN txs : txs'[i] = Older(txs[i])
  <2>1. txs \in Seq(Signed)
      BY DEF Typed, TxsOf
  <2>2. \A i \in DOMAIN txs : Older(txs[i]) \in Signed
      BY <1>1, <1>2
  <2>3. txs' = [i \in DOMAIN txs |-> Older(txs[i])]
      BY DEF Aged
  <2> HIDE DEF Older
  <2> QED
      BY <2>1, <2>2, <2>3
<1>4. \A j \in DOMAIN txs :
        /\ txs'[j].side = txs[j].side /\ txs'[j].amount = txs[j].amount
        /\ txs'[j].venue = txs[j].venue
        /\ txs'[j].status = txs[j].status /\ txs'[j].booked = txs[j].booked
    BY <1>1, <1>2, <1>3
<1>5. TxsOf(txs')
    BY <1>1, <1>3, <1>4 DEF TxsOf
<1> QED
    BY <1>3, <1>4, <1>5 DEF Follows
-----------------------------------------------------------------------------
(* Types                                                                   *)

(* What referred to a transaction still does.                              *)
LEMMA CarriedOn ==
    ASSUME Typed, Follows(txs, txs')
    PROVE  BookOf(book, txs') /\ TradeOf(trade, txs') /\ MonitorOf(monitor, txs')
           /\ TasksOf(waiting, txs')
<1>1. \A i : (Sale(i, txs) => Sale(i, txs')) /\ (Buy(i, txs) => Buy(i, txs'))
    BY DEF Follows, Sale, Buy
<1>2. BookOf(book, txs')
    BY <1>1 DEF Typed, BookOf
<1>3. TradeOf(trade, txs')
    BY <1>1 DEF Typed, TradeOf
<1>4. MonitorOf(monitor, txs')
    BY <1>1 DEF Typed, MonitorOf
<1>5. TasksOf(waiting, txs')
    BY <1>1 DEF Typed, TasksOf
<1> QED
    BY <1>2, <1>3, <1>4, <1>5

(* A step that signs and moves nothing.                                    *)
LEMMA TxsStand ==
    ASSUME Typed, txs' = txs
    PROVE  Follows(txs, txs') /\ TxsOf(txs')
BY DEF Typed, TxsOf, Follows

(* The bound on faults.                                                    *)
Bounds == [buys : Nat, faults : Nat, crashes : 0..MaxCrashes]

LEMMA FaultType ==
    ASSUME Typed, Fault \/ left' = left
    PROVE  left' \in Bounds /\ left'.crashes = left.crashes /\ left'.buys = left.buys
<1>1. left \in Bounds
    BY DEF Typed, Bounds
<1>2. CASE Fault
  <2> DEFINE n == left.faults - 1
  <2>1. n \in Nat
      BY <1>1, <1>2 DEF Fault, Bounds
  <2>2. left' = [left EXCEPT !.faults = n]
      BY <1>2 DEF Fault
  <2> HIDE DEF n
  <2> QED
      BY <1>1, <2>1, <2>2 DEF Bounds
<1> QED
    BY <1>1, <1>2

(* A row of the file, and the row of a row.                                *)
LEMMA RowOf ==
    ASSUME NEW b \in Position
    PROVE  /\ Row(b) \in Position /\ Row(Row(b)) = Row(b)
           /\ Row(b).id = b.id /\ Row(b).tokens = b.tokens /\ Row(b).bytes = NoTx
           /\ Row(b).leg = b.leg
           /\ Row(b) = [id |-> b.id, tokens |-> b.tokens, bytes |-> NoTx, stale |-> 0,
                        attempts |-> b.attempts, leg |-> b.leg]
<1>1. 0 \in 0..Fresh
    BY Numbers
<1> DEFINE r == Row(b)
<1>2. r = [id |-> b.id, tokens |-> b.tokens, bytes |-> NoTx, stale |-> 0,
           attempts |-> b.attempts, leg |-> b.leg]
  <2>1. b = [id |-> b.id, tokens |-> b.tokens, bytes |-> b.bytes, stale |-> b.stale,
             attempts |-> b.attempts, leg |-> b.leg]
      BY DEF Position
  <2>2. r = [b EXCEPT !.bytes = NoTx, !.stale = 0]
      BY DEF Row
  <2> HIDE DEF r
  <2> QED
      BY <2>1, <2>2
<1> HIDE DEF r
<1>3. r \in Position /\ r.bytes = NoTx /\ r.stale = 0
    BY <1>1, <1>2 DEF Position
<1>4. [r EXCEPT !.bytes = NoTx, !.stale = 0] = r
  <2> DEFINE s == [r EXCEPT !.bytes = NoTx, !.stale = 0]
  <2>1. s = [r EXCEPT !.bytes = NoTx, !.stale = 0]
      OBVIOUS
  <2> HIDE DEF s
  <2>2. s = [id |-> b.id, tokens |-> b.tokens, bytes |-> NoTx, stale |-> 0,
             attempts |-> b.attempts, leg |-> b.leg]
      BY <1>2, <2>1
  <2>3. s = r
      BY <1>2, <2>2
  <2> QED
      BY <2>3 DEF s
<1>5. Row(r) = r
    BY <1>4 DEF Row
<1>6. r.id = b.id /\ r.tokens = b.tokens /\ r.leg = b.leg
    BY <1>2
<1> QED
    BY <1>2, <1>3, <1>5, <1>6 DEF r

LEMMA NoPositionType == NoPosition \in Position /\ Row(NoPosition) = NoPosition
                        /\ NoPosition.bytes = NoTx
                        /\ NoPosition.tokens = 0 /\ NoPosition.id = NoTx
<1>1. 0 \in 0..Fresh /\ 0 \in 0..(MaxAttempts - 1) /\ 0 \in Nat
    BY Numbers
<1>2. NoPosition \in Position
    BY <1>1 DEF Position, NoPosition
<1>3. Row(NoPosition) = NoPosition
  <2> DEFINE r == Row(NoPosition)
  <2>1. r = [NoPosition EXCEPT !.bytes = NoTx, !.stale = 0]
      BY DEF Row
  <2> HIDE DEF r
  <2>2. r = [id |-> NoTx, tokens |-> 0, bytes |-> NoTx, stale |-> 0, attempts |-> 0, leg |-> FALSE]
      BY <2>1 DEF NoPosition
  <2> QED
      BY <2>2 DEF r, NoPosition
<1> QED
    BY <1>2, <1>3 DEF NoPosition

(* The call a loop has started.                                            *)
LEMMA TradeType ==
    ASSUME NEW i \in Ids, NEW T, Buy(i, T)
    PROVE  TradeOf([pc |-> "send", tx |-> i, wait |-> 0], T)
BY Numbers DEF TradeOf

LEMMA MonitorType ==
    ASSUME NEW kind \in {"leg", "exit"}, NEW i \in Ids, NEW b \in Nat, Typed, Held, NEW T,
           Sale(i, T)
    PROVE  /\ MonitorOf(Selling(kind, i, b), T) /\ Selling(kind, i, b).tx = i
           /\ Selling(kind, i, b).kind = kind /\ Selling(kind, i, b).pc = "send"
           /\ Selling(kind, i, b).id = book.id /\ Selling(kind, i, b).before = b
<1>1. book.id \in Ids /\ book.attempts + 1 \in 1..MaxAttempts
    BY Numbers DEF Typed, BookOf, Position, Held
<1> DEFINE try == book.attempts + 1  k == book.id  s == Selling(kind, i, b)
<1>2. s = [Resting EXCEPT !.pc = "send", !.kind = kind, !.id = k, !.tx = i, !.before = b,
                  !.try = try]
    BY DEF Selling
<1>3. k \in Ids /\ try \in 1..MaxAttempts
    BY <1>1
<1> HIDE DEF s, try, k
<1>4. s = [pc |-> "send", kind |-> kind, id |-> k, tx |-> i, wait |-> 0, before |-> b, try |-> try]
    BY <1>2 DEF Resting
<1>5. MonitorOf(s, T) /\ s.tx = i /\ s.kind = kind /\ s.pc = "send" /\ s.id = k /\ s.before = b
    BY <1>3, <1>4, Numbers DEF MonitorOf
<1> QED
    BY <1>5 DEF s, k

(* The sale and the buy under way.                                         *)
LEMMA SaleUnderWay ==
    ASSUME Typed, monitor.pc # "idle"
    PROVE  /\ Sale(monitor.tx, txs) /\ monitor.tx \in Ids /\ monitor.id \in Ids
           /\ monitor.try \in 1..MaxAttempts
           /\ monitor.kind \in {"leg", "exit"} /\ monitor.wait \in 0..ConfirmWait
              /\ monitor.before \in Nat
           /\ txs[monitor.tx] \in Signed /\ txs[monitor.tx].amount \in Nat \ {0}
           /\ monitor = [pc |-> monitor.pc, kind |-> monitor.kind, id |-> monitor.id, tx |-> monitor.tx,
                         wait |-> monitor.wait, before |-> monitor.before, try |-> monitor.try]
<1>1. /\ Sale(monitor.tx, txs)
      /\ monitor \in [pc : {"send", "confirm", "receipt"}, kind : {"leg", "exit"}, id : Ids, tx : Ids,
                      wait : 0..ConfirmWait, before : Nat, try : 1..MaxAttempts]
    BY DEF Typed, MonitorOf, Resting
<1>2. txs[monitor.tx] \in Signed
    BY <1>1, IdsOf DEF Typed, Sale
<1>3. txs[monitor.tx].amount \in Nat \ {0}
    BY <1>2 DEF Signed
<1> QED
    BY <1>1, <1>2, <1>3

LEMMA BuyUnderWay ==
    ASSUME Typed, trade.pc # "idle"
    PROVE  /\ Buy(trade.tx, txs) /\ trade.tx \in Ids
           /\ txs[trade.tx].amount \in Fills /\ txs[trade.tx].amount \in Nat \ {0}
           /\ trade \in [pc : {"send", "confirm", "resolve"}, tx : Ids, wait : 0..ConfirmWait]
<1>1. /\ Buy(trade.tx, txs)
      /\ trade \in [pc : {"send", "confirm", "resolve"}, tx : Ids, wait : 0..ConfirmWait]
    BY DEF Typed, TradeOf, Idle
<1>2. txs[trade.tx].amount \in Fills /\ txs[trade.tx].amount \in Nat \ {0}
    BY <1>1, Numbers DEF Typed, TxsOf, Buy
<1> QED
    BY <1>1, <1>2

(* A call that goes on at another stage.                                   *)
LEMMA MonitorOn ==
    ASSUME Typed, monitor.pc # "idle", NEW pc \in {"send", "confirm", "receipt"},
           NEW w \in 0..ConfirmWait,
           NEW T, Sale(monitor.tx, T), NEW s,
           s = [pc |-> pc, kind |-> monitor.kind, id |-> monitor.id, tx |-> monitor.tx,
                wait |-> w, before |-> monitor.before, try |-> monitor.try]
    PROVE  /\ MonitorOf(s, T) /\ s.tx = monitor.tx /\ s.kind = monitor.kind /\ s.id = monitor.id
           /\ s.pc = pc
BY SaleUnderWay DEF MonitorOf

LEMMA TradeOn ==
    ASSUME Typed, trade.pc # "idle", NEW pc \in {"send", "confirm", "resolve"},
           NEW w \in 0..ConfirmWait,
           NEW T, Buy(trade.tx, T), NEW s,
           s = [pc |-> pc, tx |-> trade.tx, wait |-> w]
    PROVE  TradeOf(s, T) /\ s.tx = trade.tx /\ s.pc = pc
BY BuyUnderWay DEF TradeOf

(* A sale fails: its position is kept with one attempt more, or dropped.   *)
LEMMA FailedType ==
    ASSUME Typed, NEW id \in Ids, NEW try \in 1..MaxAttempts, AttemptFails(id, try), NEW T,
           BookOf(book, T)
    PROVE  /\ BookOf(book', T) /\ disk' = Row(book') /\ monitor' = Resting
           /\ book' = NoPosition \/ (/\ book'.id = book.id /\ book'.tokens = book.tokens
                                     /\ book'.leg = book.leg /\ book'.bytes = book.bytes)
<1>1. book \in Position
    BY DEF BookOf
<1>2. CASE book' = NoPosition
    BY <1>2, NoPositionType DEF BookOf, AttemptFails
<1>3. CASE book' = book
    BY <1>3 DEF AttemptFails
<1>4. CASE ~ GivenUp(try) /\ book' = [book EXCEPT !.attempts = try]
  <2>1. try \in 0..(MaxAttempts - 1)
      BY <1>4, Numbers DEF GivenUp
  <2>2. book' \in Position /\ book'.bytes = book.bytes /\ book'.id = book.id
        /\ book'.tokens = book.tokens /\ book'.leg = book.leg
      BY <1>1, <1>4, <2>1 DEF Position
  <2> QED
      BY <2>2 DEF AttemptFails, BookOf
<1> QED
    BY <1>2, <1>3, <1>4 DEF AttemptFails

(* A position that is opened.                                              *)
LEMMA OpenType ==
    ASSUME Typed, trade.pc # "idle", NEW n \in Nat, OpenPosition(n)
    PROVE  /\ TxsOf(txs') /\ Follows(txs, txs') /\ BookOf(book', txs') /\ disk' = Row(book')
           /\ trade' = Idle /\ TasksOf(waiting', txs')
           /\ book'.tokens = n /\ book'.bytes = NoTx /\ book'.leg = FALSE /\ book'.id = trade.tx
           /\ waiting' = waiting \cup {[id |-> trade.tx, tx |-> NoTx]}
           /\ DOMAIN txs' = DOMAIN txs /\ Len(txs') = Len(txs)
           /\ \A j \in DOMAIN txs : txs'[j].status = txs[j].status
           /\ txs'[trade.tx].booked /\ \A j \in DOMAIN txs : j # trade.tx => txs'[j] = txs[j]
<1> DEFINE k == trade.tx
<1>1. k \in DOMAIN txs /\ k \in Ids
    BY BuyUnderWay DEF Buy
<1>2. /\ book' = [NoPosition EXCEPT !.id = k, !.tokens = n] /\ disk' = Row(book')
      /\ txs' = [txs EXCEPT ![k].booked = TRUE] /\ trade' = Idle
      /\ waiting' = waiting \cup {[id |-> k, tx |-> NoTx]}
    BY DEF OpenPosition
<1> HIDE DEF k
<1>3. /\ TxsOf(txs') /\ Follows(txs, txs') /\ DOMAIN txs' = DOMAIN txs /\ Len(txs') = Len(txs)
      /\ \A j \in DOMAIN txs : txs'[j].status = txs[j].status
      /\ txs'[k].booked /\ \A j \in DOMAIN txs : j # k => txs'[j] = txs[j]
    BY <1>1, <1>2, BookedMoves
<1>4. book' \in Position /\ book'.tokens = n /\ book'.bytes = NoTx /\ book'.leg = FALSE
      /\ book'.id = k
    BY <1>1, <1>2, NoPositionType, Numbers DEF Position, NoPosition
<1>5. TasksOf(waiting, txs')
    BY <1>3, CarriedOn
<1>6. TasksOf(waiting', txs')
  <2> DEFINE w == [id |-> k, tx |-> NoTx]
  <2>1. w \in Task /\ w.tx = NoTx
      BY <1>1 DEF Task
  <2>2. waiting' = waiting \cup {w}
      BY <1>2
  <2> HIDE DEF w
  <2> QED
      BY <1>5, <2>1, <2>2 DEF TasksOf
<1>7. Buy(k, txs')
    BY <1>3, BuyUnderWay DEF Buy, Follows, k
<1>8. BookOf(book', txs')
    BY <1>4, <1>7 DEF BookOf
<1> QED
    BY <1>2, <1>3, <1>4, <1>6, <1>8 DEF k

(* What is there to show of the state a step leads to.                     *)
LEMMA Retyped ==
    ASSUME wallet' \in [tokens : Nat, sol : Nat], pool' \in BOOLEAN, TxsOf(txs'),
           known' \in Nat, buySize' \in {0, Lot}, left' \in Bounds,
           BookOf(book', txs'), disk' = Row(book'),
           TradeOf(trade', txs'), MonitorOf(monitor', txs'), TasksOf(waiting', txs')
    PROVE  Typed'
BY DEF Typed, Bounds

(* The state when nothing but the list of transactions and one part moves. *)
LEMMA Parts ==
    ASSUME Typed
    PROVE  /\ wallet \in [tokens : Nat, sol : Nat] /\ pool \in BOOLEAN /\ TxsOf(txs)
           /\ wallet.tokens \in Nat /\ wallet.sol \in Nat
           /\ known \in Nat /\ buySize \in {0, Lot} /\ left \in Bounds
           /\ BookOf(book, txs) /\ disk = Row(book) /\ book \in Position
           /\ TradeOf(trade, txs) /\ MonitorOf(monitor, txs) /\ TasksOf(waiting, txs)
BY DEF Typed, Bounds, BookOf

(* What the wallet has after a transaction executes.                       *)
LEMMA WalletAfter ==
    ASSUME Typed, NEW i \in DOMAIN txs, Executable(txs[i])
    PROVE  /\ After(txs[i]) \in [tokens : Nat, sol : Nat]
           /\ txs[i].side = "buy" => After(txs[i]).tokens = wallet.tokens + txs[i].amount
           /\ txs[i].side = "sell" => After(txs[i]).tokens = wallet.tokens - txs[i].amount
                                      /\ wallet.tokens >= txs[i].amount
<1>1. txs[i] \in Signed
    BY IdsOf DEF Typed
<1>2. txs[i].amount \in Nat /\ wallet.tokens \in Nat /\ wallet.sol \in Nat
      /\ txs[i].side \in {"buy", "sell"}
    BY <1>1, Parts DEF Signed
<1> DEFINE n == txs[i].amount  a == wallet.tokens  b == wallet.sol
<1>3. ASSUME txs[i].side = "buy"
      PROVE  After(txs[i]) \in [tokens : Nat, sol : Nat] /\ After(txs[i]).tokens = a + n
  <2>1. b >= Lot
      BY <1>3 DEF Executable, Pays, Owns
  <2>2. a + n \in Nat /\ b - Lot \in Nat
      BY <1>2, <2>1, Numbers
  <2>3. After(txs[i]) = [tokens |-> a + n, sol |-> b - Lot]
      BY <1>3 DEF After
  <2> QED
      BY <2>2, <2>3
<1>4. ASSUME txs[i].side = "sell"
      PROVE  After(txs[i]) \in [tokens : Nat, sol : Nat]
             /\ After(txs[i]).tokens = wallet.tokens - txs[i].amount
             /\ wallet.tokens >= txs[i].amount
  <2>1. a >= n
      BY <1>4 DEF Executable, Pays, Owns
  <2>2. a - n \in Nat /\ b + n \in Nat
      BY <1>2, <2>1
  <2>3. After(txs[i]) = [tokens |-> a - n, sol |-> b + n]
      BY <1>4 DEF After
  <2> QED
      BY <2>1, <2>2, <2>3
<1> QED
    BY <1>2, <1>3, <1>4

LEMMA TypedByChain ==
    ASSUME Typed, (\E i \in Ids : Land(i) \/ Revert(i)) \/ Rug \/ UNCHANGED vars
    PROVE  Typed'
<1> USE Parts
<1>1. ASSUME NEW i \in Ids, Land(i) PROVE Typed'
  <2>1. /\ i \in DOMAIN txs /\ Executable(txs[i]) /\ wallet' = After(txs[i])
        /\ txs' = [txs EXCEPT ![i].status = "landed", ![i].age = 0]
        /\ UNCHANGED <<pool, client, left, files, trade, monitor, waiting>>
      BY <1>1 DEF Land, Executes, Pending
  <2>2. TxsOf(txs') /\ Follows(txs, txs')
      BY <2>1, DecidedMoves
  <2>3. wallet' \in [tokens : Nat, sol : Nat]
      BY <2>1, WalletAfter
  <2>4. BookOf(book, txs') /\ TradeOf(trade, txs') /\ MonitorOf(monitor, txs')
        /\ TasksOf(waiting, txs')
      BY <2>2, CarriedOn
  <2> QED
      BY <2>1, <2>2, <2>3, <2>4, Retyped DEF client, files
<1>2. ASSUME NEW i \in Ids, Revert(i) PROVE Typed'
  <2>1. /\ i \in DOMAIN txs /\ txs' = [txs EXCEPT ![i].status = "failed", ![i].age = 0]
        /\ Fault \/ left' = left
        /\ UNCHANGED <<chain, client, files, trade, monitor, waiting>>
      BY <1>2 DEF Revert, Fails, Pending
  <2>2. TxsOf(txs') /\ Follows(txs, txs')
      BY <2>1, DecidedMoves
  <2>3. left' \in Bounds
      BY <2>1, FaultType
  <2>4. BookOf(book, txs') /\ TradeOf(trade, txs') /\ MonitorOf(monitor, txs')
        /\ TasksOf(waiting, txs')
      BY <2>2, CarriedOn
  <2> QED
      BY <2>1, <2>2, <2>3, <2>4, Retyped DEF client, files, chain
<1>3. ASSUME Rug PROVE Typed'
  <2>1. /\ pool' \in BOOLEAN
        /\ UNCHANGED <<wallet, txs, client, left, files, trade, monitor, waiting>>
      BY <1>3 DEF Rug, Rugged
  <2> QED
      BY <2>1, Retyped DEF client, files
<1>4. ASSUME UNCHANGED vars PROVE Typed'
    BY <1>4, Retyped DEF vars, chain, client, files
<1> QED
    BY <1>1, <1>2, <1>3, <1>4

LEMMA TypedByBuying ==
    ASSUME Typed, Buying
    PROVE  Typed'
<1> USE Parts
<1>1. ASSUME NEW venue \in {"jupiter", "pumpportal"}, StartBuy(venue) PROVE Typed'
  <2>1. PICK fill \in Fills :
           /\ Sign("buy", fill, venue) /\ trade' = [pc |-> "send", tx |-> Newest, wait |-> 0]
           /\ left' = [left EXCEPT !.buys = left.buys - 1] /\ left.buys > 0
           /\ UNCHANGED <<chain, client, files, monitor, waiting>>
      BY <1>1 DEF StartBuy
  <2>2. /\ TxsOf(txs') /\ Follows(txs, txs') /\ Newest \in Ids /\ Newest \in DOMAIN txs'
        /\ txs'[Newest] = Tx("buy", fill, venue)
      BY <2>1, SignedLast, Numbers
  <2>3. TradeOf(trade', txs')
    <3>1. Buy(Newest, txs')
        BY <2>2 DEF Buy, Tx
    <3> QED
        BY <2>1, <2>2, <3>1, TradeType
  <2>4. left' \in Bounds
    <3> DEFINE n == left.buys - 1
    <3>1. n \in Nat
        BY <2>1 DEF Bounds
    <3>2. left' = [left EXCEPT !.buys = n]
        BY <2>1
    <3> HIDE DEF n
    <3> QED
        BY <3>1, <3>2 DEF Bounds
  <2>5. BookOf(book, txs') /\ MonitorOf(monitor, txs') /\ TasksOf(waiting, txs')
      BY <2>2, CarriedOn
  <2> QED
      BY <2>1, <2>2, <2>3, <2>4, <2>5, Retyped DEF client, files, chain
<1>2. ASSUME SendBuy PROVE Typed'
  <2>1. PICK a \in Answers :
           /\ Send(trade.tx, a)
           /\ trade' = [trade EXCEPT !.pc = "confirm"] \/ trade' = Idle
      BY <1>2 DEF SendBuy, SendFailed, Reject
  <2>2. /\ trade.pc # "idle" /\ (Fault \/ left' = left)
        /\ UNCHANGED <<chain, client, files, monitor, waiting>>
      BY <1>2, <2>1 DEF SendBuy, Send
  <2>3. Buy(trade.tx, txs)
      BY <2>2, BuyUnderWay
  <2>4. TxsOf(txs') /\ Follows(txs, txs')
      BY <2>1, <2>3, SentMoves DEF Buy
  <2>5. TradeOf(trade', txs')
    <3>1. Buy(trade.tx, txs')
        BY <2>3, <2>4 DEF Buy, Follows
    <3>2. CASE trade' = [trade EXCEPT !.pc = "confirm"]
        BY <2>2, <3>1, <3>2, BuyUnderWay DEF TradeOf
    <3> QED
        BY <2>1, <3>2 DEF TradeOf
  <2>6. left' \in Bounds
      BY <2>2, FaultType
  <2>7. BookOf(book, txs') /\ MonitorOf(monitor, txs') /\ TasksOf(waiting, txs')
      BY <2>4, CarriedOn
  <2> QED
      BY <2>2, <2>4, <2>5, <2>6, <2>7, Retyped DEF client, files, chain
<1>3. ASSUME BuyUnconfirmed PROVE Typed'
  <2>1. trade' = Idle /\ UNCHANGED <<chain, txs, client, left, files, monitor, waiting>>
      BY <1>3 DEF BuyUnconfirmed, Reject
  <2> QED
      BY <2>1, Retyped DEF client, files, chain, TradeOf
<1>4. ASSUME BuyConfirmed PROVE Typed'
  <2>1. /\ trade.pc # "idle" /\ UNCHANGED <<chain, known, left, monitor>>
      BY <1>4 DEF BuyConfirmed
  <2>2. Lot \in Nat
      BY Numbers
  <2>3. CASE OpenPosition(Lot) /\ UNCHANGED buySize
    <3>1. /\ TxsOf(txs') /\ Follows(txs, txs') /\ BookOf(book', txs') /\ disk' = Row(book')
          /\ trade' = Idle /\ TasksOf(waiting', txs')
        BY <2>1, <2>2, <2>3, OpenType
    <3>2. MonitorOf(monitor, txs')
        BY <3>1, CarriedOn
    <3> QED
        BY <2>1, <2>3, <3>1, <3>2, Retyped DEF chain, TradeOf
  <2>4. CASE /\ buySize' = Lot /\ trade' = [trade EXCEPT !.pc = "resolve"]
             /\ UNCHANGED <<txs, files, waiting>>
    <3>1. TradeOf(trade', txs)
        BY <2>1, <2>4, BuyUnderWay DEF TradeOf
    <3> QED
        BY <2>1, <2>2, <2>4, <3>1, Retyped DEF chain, files
  <2> QED
      BY <1>4, <2>3, <2>4 DEF BuyConfirmed
<1>5. ASSUME NEW n \in Nat, trade.pc # "idle", OpenPosition(n), Fault \/ left' = left,
             UNCHANGED <<chain, client, monitor>>
      PROVE  Typed'
  <2>1. /\ TxsOf(txs') /\ Follows(txs, txs') /\ BookOf(book', txs') /\ disk' = Row(book')
        /\ trade' = Idle /\ TasksOf(waiting', txs')
      BY <1>5, OpenType
  <2>2. MonitorOf(monitor, txs') /\ left' \in Bounds
      BY <1>5, <2>1, CarriedOn, FaultType
  <2> QED
      BY <1>5, <2>1, <2>2, Retyped DEF chain, client, TradeOf
<1>6. ASSUME ResolveByReceipt PROVE Typed'
  <2>1. trade.pc # "idle" /\ OpenPosition(txs[trade.tx].amount)
        /\ UNCHANGED <<chain, client, left, monitor>>
      BY <1>6 DEF ResolveByReceipt
  <2>2. txs[trade.tx].amount \in Nat
      BY <2>1, BuyUnderWay, Numbers
  <2> QED
      BY <2>1, <2>2, <1>5
<1>7. ASSUME ResolveByBalance PROVE Typed'
  <2>1. trade.pc # "idle" /\ Fault /\ UNCHANGED <<chain, client, monitor>>
      BY <1>7 DEF ResolveByBalance
  <2>2. CASE OpenPosition(wallet.tokens)
      BY <2>1, <2>2, <1>5
  <2>3. CASE trade' = Idle /\ UNCHANGED <<txs, files, waiting>>
    <3>1. left' \in Bounds
        BY <2>1, FaultType
    <3> QED
        BY <2>1, <2>3, <3>1, Retyped DEF chain, client, files, TradeOf
  <2> QED
      BY <1>7, <2>2, <2>3 DEF ResolveByBalance, Reject
<1> QED
    BY <1>1, <1>2, <1>3, <1>4, <1>6, <1>7 DEF Buying

LEMMA TypedByPrebuilding ==
    ASSUME Typed, Prebuilding
    PROVE  Typed'
<1> USE Parts
<1>1. PICK w \in waiting : PrebuildSigned(w) \/ PrebuildArrives(w) \/ PrebuildFails(w)
    BY DEF Prebuilding
<1>2. w \in Task /\ (w.tx # NoTx => Sale(w.tx, txs))
    BY <1>1 DEF TasksOf
<1>3. ASSUME PrebuildSigned(w) PROVE Typed'
  <2>1. /\ wallet.tokens > 0 /\ Sign("sell", wallet.tokens, "pumpportal")
        /\ waiting' = (waiting \ {w}) \cup {[w EXCEPT !.tx = Newest]}
        /\ UNCHANGED <<chain, client, left, files, trade, monitor>>
      BY <1>3 DEF PrebuildSigned
  <2>2. wallet.tokens \in Nat \ {0}
      BY <2>1
  <2>3. /\ TxsOf(txs') /\ Follows(txs, txs') /\ Newest \in Ids /\ Newest \in DOMAIN txs'
        /\ txs'[Newest] = Tx("sell", wallet.tokens, "pumpportal")
      BY <2>1, <2>2, SignedLast
  <2>4. BookOf(book, txs') /\ TradeOf(trade, txs') /\ MonitorOf(monitor, txs')
        /\ TasksOf(waiting, txs')
      BY <2>3, CarriedOn
  <2>5. TasksOf(waiting', txs')
    <3>1. Sale(Newest, txs')
        BY <2>3 DEF Sale, Tx
    <3> DEFINE n == Newest  v == [w EXCEPT !.tx = n]
    <3>2. n \in Ids
        BY <2>3
    <3> HIDE DEF n
    <3>3. v \in Task /\ v.tx = n
        BY <1>2, <3>2 DEF Task
    <3>4. waiting' = (waiting \ {w}) \cup {v}
        BY <2>1 DEF n
    <3> HIDE DEF v
    <3> QED
        BY <2>4, <3>1, <3>3, <3>4 DEF TasksOf, n
  <2> QED
      BY <2>1, <2>3, <2>4, <2>5, Retyped DEF client, files, chain
<1>4. ASSUME PrebuildArrives(w) PROVE Typed'
  <2>1. /\ w.tx # NoTx /\ waiting' = waiting \ {w}
        /\ book' = IF Held THEN [book EXCEPT !.bytes = w.tx, !.stale = 0] ELSE book
        /\ UNCHANGED <<chain, txs, client, left, disk, trade, monitor>>
      BY <1>4 DEF PrebuildArrives
  <2>2. TasksOf(waiting', txs)
      BY <2>1 DEF TasksOf
  <2>3. BookOf(book', txs) /\ disk' = Row(book')
    <3>1. w.tx \in Ids \cup {NoTx} /\ 0 \in 0..Fresh /\ Sale(w.tx, txs)
        BY <1>2, <2>1, Numbers DEF Task
    <3>2. CASE book' = [book EXCEPT !.bytes = w.tx, !.stale = 0]
      <4>1. book' \in Position /\ book'.bytes = w.tx
          BY <3>1, <3>2 DEF Position
      <4>2. book'.id = book.id /\ book'.tokens = book.tokens /\ book'.attempts = book.attempts
            /\ book'.leg = book.leg
          BY <3>2 DEF Position
      <4>3. Row(book') = Row(book)
          BY <4>1, <4>2, RowOf
      <4> QED
          BY <2>1, <3>1, <4>1, <4>3 DEF BookOf
    <3> QED
        BY <2>1, <3>2
  <2> QED
      BY <2>1, <2>2, <2>3, Retyped DEF client, chain
<1>5. ASSUME PrebuildFails(w) PROVE Typed'
  <2>1. /\ waiting' = waiting \ {w} /\ (Fault \/ left' = left)
        /\ UNCHANGED <<chain, txs, client, files, trade, monitor>>
      BY <1>5 DEF PrebuildFails
  <2>2. left' \in Bounds /\ TasksOf(waiting', txs)
      BY <2>1, FaultType DEF TasksOf
  <2> QED
      BY <2>1, <2>2, Retyped DEF client, files, chain
<1> QED
    BY <1>1, <1>3, <1>4, <1>5

(* The share a take-profit leg sells.                                      *)
LEMMA LegNumbers ==
    ASSUME NEW n \in Nat
    PROVE  /\ (n * LegPct) \div 100 \in Nat /\ 100 * ((n * LegPct) \div 100) <= n * LegPct
           /\ RestOf(n) \in Nat /\ 100 * RestOf(n) <= n * (100 - LegPct)
<1>1. LegPct \in Nat /\ 100 - LegPct \in Nat
    BY Numbers
<1>2. n * LegPct \in Nat /\ n * (100 - LegPct) \in Nat
    BY <1>1, MulNat
<1> QED
    BY <1>2, DivFloor DEF RestOf

(* What the failure of the sale under way does.                            *)
LEMMA SaleFailed ==
    ASSUME Typed, monitor.pc # "idle", SaleFails, NEW T, BookOf(book, T)
    PROVE  /\ BookOf(book', T) /\ disk' = Row(book') /\ monitor' = Resting
           /\ book' = NoPosition \/ (/\ book'.id = book.id /\ book'.tokens = book.tokens
                                     /\ book'.leg = book.leg /\ book'.bytes = book.bytes)
<1>1. monitor.id \in Ids /\ monitor.try \in 1..MaxAttempts
    BY SaleUnderWay
<1>2. CASE AttemptFails(monitor.id, monitor.try)
    BY <1>1, <1>2, FailedType
<1>3. CASE monitor' = Resting /\ UNCHANGED <<files, said>>
    BY <1>3 DEF files, Typed
<1> QED
    BY <1>2, <1>3 DEF SaleFails

LEMMA TypedByMonitor ==
    ASSUME Typed, MonitorStep
    PROVE  Typed'
<1> USE Parts
<1>1. ASSUME StartLeg PROVE Typed'
  <2>1. /\ Held /\ Leg > 0 /\ Sign("sell", Leg, "pumpportal")
        /\ monitor' = Selling("leg", Newest, book.tokens)
        /\ UNCHANGED <<chain, client, left, files, trade, waiting>>
      BY <1>1 DEF StartLeg
  <2>2. Leg \in Nat \ {0}
      BY <2>1, LegNumbers DEF Leg
  <2>3. /\ TxsOf(txs') /\ Follows(txs, txs') /\ Newest \in Ids /\ Newest \in DOMAIN txs'
        /\ txs'[Newest] = Tx("sell", Leg, "pumpportal")
      BY <2>1, <2>2, SignedLast
  <2>4. Sale(Newest, txs')
      BY <2>3 DEF Sale, Tx
  <2>5. MonitorOf(monitor', txs')
    <3>1. book.tokens \in Nat
        BY DEF Position
    <3> QED
        BY <2>1, <2>3, <2>4, <3>1, MonitorType
  <2>6. BookOf(book, txs') /\ TradeOf(trade, txs') /\ TasksOf(waiting, txs')
      BY <2>3, CarriedOn
  <2> QED
      BY <2>1, <2>3, <2>5, <2>6, Retyped DEF client, files, chain
<1>2. ASSUME StartExit PROVE Typed'
  <2>1. PICK b \in {wallet.sol, known} :
           /\ ReadBalance(b)
           /\ IF FreshBytes THEN monitor' = Selling("exit", book.bytes, b) /\ UNCHANGED txs
              ELSE /\ wallet.tokens > 0 /\ Sign("sell", wallet.tokens, "pumpportal")
                   /\ monitor' = Selling("exit", Newest, b)
      BY <1>2 DEF StartExit
  <2>2. Held /\ UNCHANGED <<chain, buySize, files, trade, waiting>>
      BY <1>2 DEF StartExit
  <2>3. b \in Nat /\ known' \in Nat /\ left' \in Bounds
      BY <2>1, FaultType DEF ReadBalance
  <2>4. CASE FreshBytes /\ monitor' = Selling("exit", book.bytes, b) /\ UNCHANGED txs
    <3>1. Sale(book.bytes, txs) /\ book.bytes \in Ids
        BY <2>4 DEF BookOf, Position, FreshBytes
    <3>2. MonitorOf(monitor', txs)
        BY <2>2, <2>3, <2>4, <3>1, MonitorType
    <3> QED
        BY <2>2, <2>3, <2>4, <3>2, Retyped DEF chain, files
  <2>5. CASE wallet.tokens > 0 /\ Sign("sell", wallet.tokens, "pumpportal")
        /\ monitor' = Selling("exit", Newest, b)
    <3>1. wallet.tokens \in Nat \ {0}
        BY <2>5
    <3>2. /\ TxsOf(txs') /\ Follows(txs, txs') /\ Newest \in Ids /\ Newest \in DOMAIN txs'
          /\ txs'[Newest] = Tx("sell", wallet.tokens, "pumpportal")
        BY <2>5, <3>1, SignedLast
    <3>3. Sale(Newest, txs')
        BY <3>2 DEF Sale, Tx
    <3>4. MonitorOf(monitor', txs')
        BY <2>2, <2>3, <2>5, <3>2, <3>3, MonitorType
    <3>5. BookOf(book, txs') /\ TradeOf(trade, txs') /\ TasksOf(waiting, txs')
        BY <3>2, CarriedOn
    <3> QED
        BY <2>2, <2>3, <3>2, <3>4, <3>5, Retyped DEF chain, files
  <2> QED
      BY <2>1, <2>4, <2>5
<1>3. ASSUME ExitUnbuilt PROVE Typed'
  <2>1. /\ Held /\ (Fault \/ left' = left) /\ known' = wallet.sol
        /\ AttemptFails(book.id, book.attempts + 1)
        /\ UNCHANGED <<chain, txs, buySize, trade, waiting>>
      BY <1>3 DEF ExitUnbuilt
  <2>2. book.id \in Ids /\ book.attempts + 1 \in 1..MaxAttempts
      BY <2>1, Numbers DEF Position, Held
  <2>3. BookOf(book', txs) /\ disk' = Row(book') /\ monitor' = Resting
      BY <2>1, <2>2, FailedType
  <2>4. left' \in Bounds
      BY <2>1, FaultType
  <2> QED
      BY <2>1, <2>3, <2>4, Retyped DEF chain, MonitorOf
<1>4. ASSUME SendSale PROVE Typed'
  <2>1. PICK a \in Answers :
           /\ Send(monitor.tx, a)
           /\ IF Answered(a) THEN monitor' = [monitor EXCEPT !.pc = "confirm"] /\ UNCHANGED <<files, said>>
              ELSE SaleFails
      BY <1>4 DEF SendSale
  <2>2. /\ monitor.pc # "idle" /\ (Fault \/ left' = left)
        /\ UNCHANGED <<chain, client, trade, waiting>>
      BY <1>4, <2>1 DEF SendSale, Send
  <2>3. Sale(monitor.tx, txs)
      BY <2>2, SaleUnderWay
  <2>4. TxsOf(txs') /\ Follows(txs, txs')
      BY <2>1, <2>3, SentMoves DEF Sale
  <2>5. /\ BookOf(book, txs') /\ TradeOf(trade, txs') /\ MonitorOf(monitor, txs')
        /\ TasksOf(waiting, txs')
        /\ left' \in Bounds
      BY <2>2, <2>4, CarriedOn, FaultType
  <2>6. CASE monitor' = [monitor EXCEPT !.pc = "confirm"] /\ UNCHANGED <<files, said>>
    <3>1. Sale(monitor.tx, txs')
        BY <2>3, <2>4 DEF Sale, Follows
    <3>2. monitor' = [pc |-> "confirm", kind |-> monitor.kind, id |-> monitor.id, tx |-> monitor.tx,
                      wait |-> monitor.wait, before |-> monitor.before, try |-> monitor.try]
        BY <2>2, <2>6, SaleUnderWay
    <3>3. MonitorOf(monitor', txs')
        BY <2>2, <3>1, <3>2, MonitorOn, SaleUnderWay
    <3> QED
        BY <2>2, <2>4, <2>5, <2>6, <3>3, Retyped DEF chain, client, files
  <2>7. CASE SaleFails
    <3>1. BookOf(book', txs') /\ disk' = Row(book') /\ monitor' = Resting
        BY <2>2, <2>5, <2>7, SaleFailed
    <3> QED
        BY <2>2, <2>4, <2>5, <3>1, Retyped DEF chain, client, MonitorOf
  <2> QED
      BY <2>1, <2>6, <2>7
<1>5. ASSUME SaleUnconfirmed PROVE Typed'
  <2>1. /\ monitor.pc # "idle" /\ SaleFails
        /\ UNCHANGED <<chain, txs, client, left, trade, waiting>>
      BY <1>5 DEF SaleUnconfirmed
  <2>2. BookOf(book', txs) /\ disk' = Row(book') /\ monitor' = Resting
      BY <2>1, SaleFailed
  <2> QED
      BY <2>1, <2>2, Retyped DEF chain, client, MonitorOf
<1>6. ASSUME SaleConfirmed PROVE Typed'
  <2>1. /\ monitor.pc # "idle" /\ monitor' = [monitor EXCEPT !.pc = "receipt"]
        /\ buySize' \in {0, Lot} /\ UNCHANGED <<chain, txs, known, left, files, trade, waiting>>
      BY <1>6 DEF SaleConfirmed
  <2>2. monitor' = [pc |-> "receipt", kind |-> monitor.kind, id |-> monitor.id, tx |-> monitor.tx,
                    wait |-> monitor.wait, before |-> monitor.before, try |-> monitor.try]
      BY <2>1, SaleUnderWay
  <2>3. MonitorOf(monitor', txs)
      BY <2>1, <2>2, MonitorOn, SaleUnderWay
  <2> QED
      BY <2>1, <2>3, Retyped DEF chain, files
<1>7. ASSUME monitor.pc # "idle", Booked, monitor' = Resting, known' \in Nat, left' \in Bounds,
             BookOf(book', txs), disk' = Row(book'), UNCHANGED <<chain, buySize, trade, waiting>>
      PROVE  Typed'
  <2>1. Sale(monitor.tx, txs) /\ txs' = [txs EXCEPT ![monitor.tx].booked = TRUE]
      BY <1>7, SaleUnderWay DEF Booked
  <2>2. TxsOf(txs') /\ Follows(txs, txs')
      BY <2>1, BookedMoves DEF Sale
  <2>3. TradeOf(trade, txs') /\ TasksOf(waiting, txs')
      BY <2>2, CarriedOn
  <2>4. BookOf(book', txs')
      BY <1>7, <2>2 DEF BookOf, Sale, Buy, Follows
  <2> QED
      BY <1>7, <2>2, <2>3, <2>4, Retyped DEF chain, MonitorOf
<1>8. ASSUME BookLeg PROVE Typed'
  <2>1. /\ monitor.pc # "idle" /\ Booked /\ monitor' = Resting /\ (Fault \/ left' = left)
        /\ disk' = Row(book') /\ UNCHANGED <<chain, client, trade, waiting>>
        /\ book' = IF book.id = monitor.id
                   THEN [book EXCEPT !.tokens = Rest, !.leg = TRUE] ELSE book
      BY <1>8 DEF BookLeg, ReadReceipt
  <2>2. BookOf(book', txs)
    <3> DEFINE n == Rest
    <3>1. n \in Nat
        BY <2>1, LegNumbers, SaleUnderWay DEF Rest
    <3> HIDE DEF n
    <3>2. CASE book' = [book EXCEPT !.tokens = n, !.leg = TRUE]
        BY <3>1, <3>2 DEF Position, BookOf
    <3> QED
        BY <2>1, <3>2 DEF n
  <2>3. left' \in Bounds
      BY <2>1, FaultType
  <2> QED
      BY <1>7, <2>1, <2>2, <2>3 DEF client
<1>9. ASSUME BookFinalLeg \/ CloseByReceipt \/ CloseByBalance PROVE Typed'
  <2>1. /\ monitor.pc # "idle" /\ Booked /\ monitor' = Resting
        /\ book' = NoPosition /\ disk' = NoPosition /\ UNCHANGED <<chain, buySize, trade, waiting>>
        /\ known' \in {known, wallet.sol} /\ (Fault \/ left' = left)
      BY <1>9 DEF BookFinalLeg, CloseByReceipt, CloseByBalance, Close, Fault, ReadReceipt
  <2>2. BookOf(book', txs) /\ disk' = Row(book')
      BY <2>1, NoPositionType DEF BookOf
  <2>3. left' \in Bounds
      BY <2>1, FaultType
  <2> QED
      BY <1>7, <2>1, <2>2, <2>3
<1> QED
    BY <1>1, <1>2, <1>3, <1>4, <1>5, <1>6, <1>8, <1>9 DEF MonitorStep

(* A tick: what waits, waits longer.                                       *)
LEMMA Ticked ==
    ASSUME Typed, Tick
    PROVE  /\ TxsOf(txs') /\ Follows(txs, txs') /\ DOMAIN txs' = DOMAIN txs /\ Len(txs') = Len(txs)
           /\ \A j \in DOMAIN txs : txs'[j].status = txs[j].status /\ txs'[j].booked = txs[j].booked
           /\ book' \in Position /\ book'.id = book.id /\ book'.tokens = book.tokens
           /\ book'.bytes = book.bytes /\ book'.attempts = book.attempts /\ book'.leg = book.leg
           /\ TradeOf(trade', txs') /\ trade'.tx = trade.tx /\ trade'.pc = trade.pc
           /\ MonitorOf(monitor', txs') /\ monitor'.tx = monitor.tx /\ monitor'.kind = monitor.kind
           /\ monitor'.pc = monitor.pc /\ monitor'.id = monitor.id
           /\ monitor'.before = monitor.before
<1> USE Parts
<1>1. /\ txs' = Aged /\ trade' = Waits(trade) /\ monitor' = Waits(monitor)
      /\ book' = IF book.bytes # NoTx
                 THEN [book EXCEPT !.stale = OneOlder(book.stale, Fresh)] ELSE book
    BY DEF Tick
<1>2. /\ TxsOf(txs') /\ Follows(txs, txs') /\ DOMAIN txs' = DOMAIN txs /\ Len(txs') = Len(txs)
      /\ \A j \in DOMAIN txs : txs'[j].status = txs[j].status /\ txs'[j].booked = txs[j].booked
    BY <1>1, AgedMove
<1>3. ASSUME NEW m \in Nat, NEW n \in 0..m PROVE OneOlder(n, m) \in 0..m
    BY <1>3 DEF OneOlder
<1>4. /\ book' \in Position /\ book'.id = book.id /\ book'.tokens = book.tokens
      /\ book'.bytes = book.bytes /\ book'.attempts = book.attempts /\ book'.leg = book.leg
  <2> DEFINE n == OneOlder(book.stale, Fresh)
  <2>1. n \in 0..Fresh
      BY <1>3, Numbers DEF Position
  <2> HIDE DEF n
  <2>2. CASE book' = [book EXCEPT !.stale = n]
      BY <2>1, <2>2 DEF Position
  <2> QED
      BY <1>1, <2>2 DEF n
<1>5. TradeOf(trade', txs') /\ trade'.tx = trade.tx /\ trade'.pc = trade.pc
  <2>1. TradeOf(trade, txs')
      BY <1>2, CarriedOn
  <2>2. CASE trade' = trade
      BY <2>1, <2>2
  <2>3. CASE trade.pc = "confirm"
        /\ trade' = [trade EXCEPT !.wait = OneOlder(trade.wait, ConfirmWait)]
    <3> DEFINE n == OneOlder(trade.wait, ConfirmWait)
    <3>1. /\ trade \in [pc : {"send", "confirm", "resolve"}, tx : Ids, wait : 0..ConfirmWait]
          /\ Buy(trade.tx, txs')
        BY <2>1, <2>3, BuyUnderWay DEF TradeOf, Idle
    <3>2. n \in 0..ConfirmWait
        BY <1>3, <3>1, Numbers
    <3> HIDE DEF n
    <3>3. trade' = [trade EXCEPT !.wait = n]
        BY <2>3 DEF n
    <3>4. trade' \in [pc : {"send", "confirm", "resolve"}, tx : Ids, wait : 0..ConfirmWait]
          /\ trade'.tx = trade.tx /\ trade'.pc = trade.pc
        BY <3>1, <3>2, <3>3
    <3> QED
        BY <3>1, <3>4 DEF TradeOf
  <2> QED
      BY <1>1, <2>2, <2>3 DEF Waits
<1>6. /\ MonitorOf(monitor', txs') /\ monitor'.tx = monitor.tx /\ monitor'.kind = monitor.kind
      /\ monitor'.pc = monitor.pc /\ monitor'.id = monitor.id /\ monitor'.before = monitor.before
  <2>1. MonitorOf(monitor, txs')
      BY <1>2, CarriedOn
  <2>2. CASE monitor' = monitor
      BY <2>1, <2>2
  <2>3. CASE monitor.pc = "confirm"
        /\ monitor' = [monitor EXCEPT !.wait = OneOlder(monitor.wait, ConfirmWait)]
    <3> DEFINE n == OneOlder(monitor.wait, ConfirmWait)
    <3>1. Sale(monitor.tx, txs')
        BY <1>2, <2>3, SaleUnderWay DEF Sale, Follows
    <3>2. n \in 0..ConfirmWait
        BY <1>3, <2>3, SaleUnderWay, Numbers
    <3> HIDE DEF n
    <3>3. monitor' = [monitor EXCEPT !.wait = n]
        BY <2>3 DEF n
    <3>4. monitor' = [pc |-> "confirm", kind |-> monitor.kind, id |-> monitor.id, tx |-> monitor.tx,
                      wait |-> n, before |-> monitor.before, try |-> monitor.try]
        BY <2>3, <3>3, SaleUnderWay
    <3> QED
        BY <2>3, <3>1, <3>2, <3>4, MonitorOn
  <2> QED
      BY <1>1, <2>2, <2>3 DEF Waits
<1> QED
    BY <1>2, <1>4, <1>5, <1>6

(* A restart: what is read back is the row of the file.                    *)
LEMMA Restarted ==
    ASSUME Typed, Restart
    PROVE  /\ txs' = txs /\ wallet' = wallet /\ trade' = Idle /\ monitor' = Resting /\ waiting' = {}
           /\ book' = Row(book) /\ disk' = Row(book) /\ book' \in Position /\ Row(book') = book'
           /\ book'.id = book.id /\ book'.tokens = book.tokens /\ book'.bytes = NoTx
           /\ book'.leg = book.leg
           /\ left' \in Bounds /\ left'.crashes < MaxCrashes /\ left'.buys = left.buys
<1>1. /\ txs' = txs /\ wallet' = wallet /\ trade' = Idle /\ monitor' = Resting /\ waiting' = {}
      /\ book' = Row(book) /\ disk' = Row(book)
    BY DEF Restart, chain, Typed
<1>2. /\ book' \in Position /\ Row(book') = book'
      /\ book'.id = book.id /\ book'.tokens = book.tokens /\ book'.bytes = NoTx
      /\ book'.leg = book.leg
    BY <1>1, RowOf, Parts
<1>3. left' \in Bounds /\ left'.crashes < MaxCrashes /\ left'.buys = left.buys
  <2> DEFINE n == left.crashes - 1
  <2>1. left.crashes \in 0..MaxCrashes /\ left.crashes > 0 /\ MaxCrashes \in Nat
      BY Parts, Numbers DEF Restart, Bounds
  <2>2. n \in 0..MaxCrashes /\ n < MaxCrashes
      BY <2>1
  <2>3. left' = [left EXCEPT !.crashes = n]
      BY DEF Restart
  <2> HIDE DEF n
  <2> QED
      BY <2>2, <2>3, Parts DEF Bounds
<1> QED
    BY <1>1, <1>2, <1>3

LEMMA TypedByTime ==
    ASSUME Typed, Tick \/ Restart
    PROVE  Typed'
<1> USE Parts
<1>1. ASSUME Tick PROVE Typed'
  <2>1. UNCHANGED <<chain, client, left, disk, waiting>>
      BY <1>1 DEF Tick
  <2>2. /\ TxsOf(txs') /\ Follows(txs, txs') /\ TradeOf(trade', txs') /\ MonitorOf(monitor', txs')
        /\ book' \in Position /\ book'.id = book.id /\ book'.tokens = book.tokens
        /\ book'.bytes = book.bytes /\ book'.attempts = book.attempts /\ book'.leg = book.leg
      BY <1>1, Ticked
  <2>3. Row(book') = Row(book)
      BY <2>2, RowOf
  <2>4. BookOf(book', txs') /\ TasksOf(waiting, txs')
      BY <2>2, CarriedOn DEF BookOf
  <2> QED
      BY <2>1, <2>2, <2>3, <2>4, Retyped DEF chain, client
<1>2. ASSUME Restart PROVE Typed'
  <2>1. known' = wallet.sol /\ buySize' = 0 /\ pool' = pool
      BY <1>2 DEF Restart, chain
  <2>2. /\ txs' = txs /\ wallet' = wallet /\ trade' = Idle /\ monitor' = Resting /\ waiting' = {}
        /\ book' = Row(book) /\ disk' = Row(book) /\ book' \in Position /\ Row(book') = book'
        /\ book'.id = book.id /\ book'.bytes = NoTx /\ left' \in Bounds
      BY <1>2, Restarted
  <2> QED
      BY <2>1, <2>2, Retyped DEF TradeOf, MonitorOf, TasksOf, BookOf
<1> QED
    BY <1>1, <1>2

LEMMA TypedKept == Typed /\ [Next]_vars => Typed'
<1> SUFFICES ASSUME Typed, [Next]_vars PROVE Typed'
    OBVIOUS
<1> QED
    BY TypedByChain, TypedByBuying, TypedByPrebuilding, TypedByMonitor, TypedByTime DEF Next

LEMMA TypedStart == Init => Typed
<1> SUFFICES ASSUME Init PROVE Typed
    OBVIOUS
<1>1. MaxBuys * Lot \in Nat /\ 0 \in Nat /\ MaxCrashes \in 0..MaxCrashes /\ MaxBuys \in Nat
      /\ MaxFaults \in Nat
    BY Numbers, MulNat
<1>2. wallet \in [tokens : Nat, sol : Nat] /\ wallet.sol \in Nat /\ pool \in BOOLEAN
    BY <1>1 DEF Init
<1>3. TxsOf(txs)
    BY Numbers DEF Init, TxsOf
<1>4. left \in [buys : Nat, faults : Nat, crashes : 0..MaxCrashes]
    BY <1>1 DEF Init
<1>5. BookOf(book, txs) /\ disk = Row(book)
    BY NoPositionType DEF Init, BookOf
<1>6. TradeOf(trade, txs) /\ MonitorOf(monitor, txs) /\ TasksOf(waiting, txs)
    BY DEF Init, TradeOf, MonitorOf, TasksOf
<1>7. known \in Nat /\ buySize \in {0, Lot}
    BY <1>2 DEF Init
<1> QED
    BY <1>2, <1>3, <1>4, <1>5, <1>6, <1>7 DEF Typed

LEMMA TypedAlways == Spec => []Typed
    BY TypedStart, TypedKept, PTL DEF Spec

(* The types of the wallet, the transactions, the position and the calls   *)
(* under way; the file always holds the row of the position.               *)
THEOREM CustodyTyped == Spec => []TypeOK
<1>1. Typed => TypeOK
  <2> SUFFICES ASSUME Typed PROVE TypeOK
      OBVIOUS
  <2>1. \A i \in DOMAIN txs :
           txs[i] \in [side : {"buy", "sell"}, amount : Nat \ {0},
                       venue : {"jupiter", "pumpportal"}, age : 0..Life,
                       status : {"built", "sent", "landed", "failed"}, booked : BOOLEAN]
      BY IdsOf DEF Typed, Signed
  <2>2. book \in Position /\ disk \in Position
      BY Parts, RowOf
  <2>3. trade.tx \in DOMAIN txs \cup {NoTx}
      BY BuyUnderWay DEF Typed, TradeOf, Idle, Buy
  <2>4. monitor.tx \in DOMAIN txs \cup {NoTx}
      BY SaleUnderWay DEF Typed, MonitorOf, Resting, Sale
  <2> QED
      BY <2>1, <2>2, <2>3, <2>4 DEF TypeOK, Typed, Position
<1> QED
    BY <1>1, TypedAlways, PTL

-----------------------------------------------------------------------------
(* No buy is given up in silence                                           *)

(* In the first life of the process every buy it signed has made a         *)
(* position, is still being waited for, or was reported.  (The invariant   *)
(* is about buys whatever became of them: one that has not executed yet    *)
(* may do so after it was given up.)                                       *)
Traced ==
    \A i \in DOMAIN txs : txs[i].side = "buy" /\ ~ txs[i].booked
                          => i = trade.tx \/ i \in said \/ left.crashes < MaxCrashes

(* U has no unbooked buy that T has not.                                   *)
NoBuyMore(T, U) ==
    \A i \in DOMAIN U : U[i].side = "buy" /\ ~ U[i].booked
                        => i \in DOMAIN T /\ T[i].side = "buy" /\ ~ T[i].booked

LEMMA SameBuys ==
    ASSUME NEW T, NEW U, Follows(T, U), DOMAIN U = DOMAIN T,
           \A j \in DOMAIN T : T[j].booked => U[j].booked
    PROVE  NoBuyMore(T, U)
BY DEF Follows, NoBuyMore

LEMMA SaleSigned ==
    ASSUME Typed, NEW n \in Nat \ {0}, Sign("sell", n, "pumpportal")
    PROVE  NoBuyMore(txs, txs')
<1>1. /\ txs'[Newest] = Tx("sell", n, "pumpportal") /\ \A i \in DOMAIN txs : txs'[i] = txs[i]
      /\ DOMAIN txs' = DOMAIN txs \cup {Newest}
    BY SignedLast
<1> QED
    BY <1>1 DEF NoBuyMore, Tx

(* A step that signs no buy and leaves none.                               *)
LEMMA TracedOn ==
    ASSUME Typed, Traced, NoBuyMore(txs, txs'), said \subseteq said',
           left.crashes < MaxCrashes => left'.crashes < MaxCrashes,
           \/ trade'.tx = trade.tx \/ trade.tx \in said'
           \/ trade.tx \in DOMAIN txs' /\ txs'[trade.tx].booked
           \/ left'.crashes < MaxCrashes
    PROVE  Traced'
<1> SUFFICES ASSUME NEW i \in DOMAIN txs', txs'[i].side = "buy", ~ txs'[i].booked
             PROVE  i = trade'.tx \/ i \in said' \/ left'.crashes < MaxCrashes
    BY DEF Traced
<1>1. i \in DOMAIN txs /\ txs[i].side = "buy" /\ ~ txs[i].booked
    BY DEF NoBuyMore
<1>2. i = trade.tx \/ i \in said \/ left.crashes < MaxCrashes
    BY <1>1 DEF Traced
<1> QED
    BY <1>2

LEMMA TracedByChain ==
    ASSUME Typed, Traced,
           (\E i \in Ids : Land(i) \/ Revert(i)) \/ Rug \/ Tick \/ Restart \/ UNCHANGED vars
    PROVE  Traced'
<1>1. ASSUME NEW i \in Ids, Land(i) \/ Revert(i) PROVE Traced'
  <2>1. /\ i \in DOMAIN txs /\ UNCHANGED <<trade, said>> /\ (Fault \/ left' = left)
        /\ \E s \in {"landed", "failed"} : txs' = [txs EXCEPT ![i].status = s, ![i].age = 0]
      BY <1>1 DEF Land, Revert, Executes, Fails, Pending
  <2>2. Follows(txs, txs') /\ DOMAIN txs' = DOMAIN txs
        /\ \A j \in DOMAIN txs : txs'[j].booked = txs[j].booked
      BY <2>1, DecidedMoves
  <2>3. NoBuyMore(txs, txs')
      BY <2>2, SameBuys
  <2>4. left'.crashes = left.crashes
      BY <2>1, FaultType
  <2> QED
      BY <2>1, <2>3, <2>4, TracedOn
<1>2. ASSUME Tick PROVE Traced'
  <2>1. UNCHANGED <<left, said>>
      BY <1>2 DEF Tick
  <2>2. /\ Follows(txs, txs') /\ DOMAIN txs' = DOMAIN txs /\ trade'.tx = trade.tx
        /\ \A j \in DOMAIN txs : txs'[j].booked = txs[j].booked
      BY <1>2, Ticked
  <2>3. NoBuyMore(txs, txs')
      BY <2>2, SameBuys
  <2> QED
      BY <2>1, <2>2, <2>3, TracedOn
<1>3. ASSUME Restart PROVE Traced'
  <2>1. left'.crashes < MaxCrashes
      BY <1>3, Restarted
  <2> QED
      BY <2>1 DEF Traced
<1>4. ASSUME Rug \/ UNCHANGED vars PROVE Traced'
  <2>1. UNCHANGED <<txs, left, trade, said>>
      BY <1>4 DEF Rug, vars, chain
  <2> QED
      BY <2>1 DEF Traced
<1> QED
    BY <1>1, <1>2, <1>3, <1>4

LEMMA TracedByBuying ==
    ASSUME Typed, Traced, Buying
    PROVE  Traced'
<1>1. ASSUME NEW venue \in {"jupiter", "pumpportal"}, StartBuy(venue) PROVE Traced'
  <2>1. PICK n \in Fills :
           /\ trade.pc = "idle" /\ Sign("buy", n, venue)
           /\ left' = [left EXCEPT !.buys = left.buys - 1]
           /\ trade' = [pc |-> "send", tx |-> Newest, wait |-> 0] /\ said' = said
      BY <1>1 DEF StartBuy
  <2>2. /\ \A i \in DOMAIN txs : txs'[i] = txs[i]
        /\ DOMAIN txs' = DOMAIN txs \cup {Newest}
    <3>1. n \in Nat \ {0}
        BY Numbers
    <3> QED
        BY <2>1, <3>1, SignedLast
  <2>3. trade.tx \notin DOMAIN txs
      BY <2>1, IdsOf DEF Typed, TradeOf, Idle
  <2>4. left'.crashes = left.crashes /\ trade'.tx = Newest
      BY <2>1, Parts DEF Bounds
  <2> QED
      BY <2>1, <2>2, <2>3, <2>4 DEF Traced
<1>2. ASSUME NEW n \in Nat, trade.pc # "idle", OpenPosition(n), said' = said, Fault \/ left' = left
      PROVE  Traced'
  <2>1. /\ Follows(txs, txs') /\ DOMAIN txs' = DOMAIN txs
        /\ txs'[trade.tx].booked /\ \A j \in DOMAIN txs : j # trade.tx => txs'[j] = txs[j]
      BY <1>2, OpenType
  <2>2. NoBuyMore(txs, txs')
      BY <2>1, SameBuys
  <2>3. left'.crashes = left.crashes /\ trade.tx \in DOMAIN txs
      BY <1>2, FaultType, BuyUnderWay DEF Buy
  <2> QED
      BY <1>2, <2>1, <2>2, <2>3, TracedOn
<1>3. ASSUME Reject, Fault \/ left' = left, NoBuyMore(txs, txs') PROVE Traced'
  <2>1. said \subseteq said' /\ trade.tx \in said' /\ left'.crashes = left.crashes
      BY <1>3, FaultType DEF Reject
  <2> QED
      BY <1>3, <2>1, TracedOn
<1>4. NoBuyMore(txs, txs)
    BY DEF NoBuyMore
<1>5. ASSUME SendBuy PROVE Traced'
  <2>1. PICK a \in Answers :
           /\ Send(trade.tx, a)
           /\ (trade' = [trade EXCEPT !.pc = "confirm"] /\ UNCHANGED said) \/ Reject
      BY <1>5 DEF SendBuy, SendFailed
  <2>2. trade.pc # "idle" /\ (Fault \/ left' = left)
      BY <1>5, <2>1 DEF SendBuy, Send
  <2>3. trade.tx \in DOMAIN txs
      BY <2>2, BuyUnderWay DEF Buy
  <2>4. /\ Follows(txs, txs') /\ DOMAIN txs' = DOMAIN txs
        /\ \A j \in DOMAIN txs : txs'[j].booked = txs[j].booked
      BY <2>1, <2>3, SentMoves
  <2>5. NoBuyMore(txs, txs')
      BY <2>4, SameBuys
  <2>6. CASE trade' = [trade EXCEPT !.pc = "confirm"] /\ UNCHANGED said
    <3>1. trade'.tx = trade.tx /\ left'.crashes = left.crashes
        BY <2>2, <2>6, FaultType, BuyUnderWay
    <3> QED
        BY <2>5, <2>6, <3>1, TracedOn
  <2> QED
      BY <1>3, <2>1, <2>2, <2>5, <2>6
<1>6. ASSUME BuyUnconfirmed PROVE Traced'
    BY <1>3, <1>4, <1>6 DEF BuyUnconfirmed
<1>7. ASSUME BuyConfirmed PROVE Traced'
  <2>1. trade.pc # "idle" /\ left' = left /\ said' = said
      BY <1>7 DEF BuyConfirmed
  <2>2. Lot \in Nat
      BY Numbers
  <2>3. CASE OpenPosition(Lot)
      BY <1>2, <2>1, <2>2, <2>3
  <2>4. CASE trade' = [trade EXCEPT !.pc = "resolve"] /\ txs' = txs
    <3>1. trade'.tx = trade.tx
        BY <2>1, <2>4, BuyUnderWay
    <3> QED
        BY <1>4, <2>1, <2>4, <3>1, TracedOn
  <2> QED
      BY <1>7, <2>3, <2>4 DEF BuyConfirmed
<1>8. ASSUME ResolveByReceipt PROVE Traced'
  <2>1. trade.pc # "idle" /\ OpenPosition(txs[trade.tx].amount) /\ left' = left /\ said' = said
      BY <1>8 DEF ResolveByReceipt
  <2>2. txs[trade.tx].amount \in Nat
      BY <2>1, BuyUnderWay, Numbers
  <2> QED
      BY <1>2, <2>1, <2>2
<1>9. ASSUME ResolveByBalance PROVE Traced'
  <2>1. /\ trade.pc # "idle" /\ Fault
        /\ (OpenPosition(wallet.tokens) /\ said' = said) \/ (Reject /\ txs' = txs)
      BY <1>9 DEF ResolveByBalance
  <2> QED
      BY <1>2, <1>3, <1>4, <2>1, Parts
<1> QED
    BY <1>1, <1>5, <1>6, <1>7, <1>8, <1>9 DEF Buying

LEMMA TracedByPrebuilding ==
    ASSUME Typed, Traced, Prebuilding
    PROVE  Traced'
<1>1. PICK w \in waiting : PrebuildSigned(w) \/ PrebuildArrives(w) \/ PrebuildFails(w)
    BY DEF Prebuilding
<1>2. UNCHANGED <<trade, said>> /\ (Fault \/ left' = left)
    BY <1>1 DEF PrebuildSigned, PrebuildArrives, PrebuildFails
<1>3. (wallet.tokens > 0 /\ Sign("sell", wallet.tokens, "pumpportal")) \/ txs' = txs
    BY <1>1 DEF PrebuildSigned, PrebuildArrives, PrebuildFails
<1>4. NoBuyMore(txs, txs')
  <2>1. wallet.tokens > 0 => wallet.tokens \in Nat \ {0}
      BY Parts
  <2>2. CASE txs' = txs
      BY <2>2 DEF NoBuyMore
  <2> QED
      BY <1>3, <2>1, <2>2, SaleSigned
<1>5. left'.crashes = left.crashes
    BY <1>2, FaultType
<1> QED
    BY <1>2, <1>4, <1>5, TracedOn

LEMMA TracedByMonitor ==
    ASSUME Typed, Traced, MonitorStep
    PROVE  Traced'
<1>1. ASSUME NoBuyMore(txs, txs'), trade' = trade, said \subseteq said', Fault \/ left' = left
      PROVE  Traced'
  <2>1. left'.crashes = left.crashes
      BY <1>1, FaultType
  <2> QED
      BY <1>1, <2>1, TracedOn
<1>2. ASSUME txs' = txs PROVE NoBuyMore(txs, txs')
    BY <1>2 DEF NoBuyMore
<1>3. trade' = trade
    BY DEF MonitorStep, StartLeg, StartExit, ExitUnbuilt, SendSale, SaleUnconfirmed, SaleConfirmed,
           BookLeg, BookFinalLeg, CloseByReceipt, CloseByBalance, Close
<1>4. SaleFails => said \subseteq said'
    BY DEF SaleFails, AttemptFails
<1>5. ASSUME StartLeg PROVE Traced'
  <2>1. Leg > 0 /\ Sign("sell", Leg, "pumpportal") /\ said' = said /\ left' = left
      BY <1>5 DEF StartLeg
  <2>2. Leg \in Nat \ {0}
      BY <2>1, LegNumbers, Parts DEF Leg
  <2> QED
      BY <1>1, <1>3, <2>1, <2>2, SaleSigned
<1>6. ASSUME StartExit PROVE Traced'
  <2>1. /\ (wallet.tokens > 0 /\ Sign("sell", wallet.tokens, "pumpportal")) \/ txs' = txs
        /\ said' = said /\ (Fault \/ left' = left)
      BY <1>6 DEF StartExit, ReadBalance
  <2>2. wallet.tokens > 0 => wallet.tokens \in Nat \ {0}
      BY Parts
  <2> QED
      BY <1>1, <1>2, <1>3, <2>1, <2>2, SaleSigned
<1>7. ASSUME ExitUnbuilt PROVE Traced'
  <2>1. txs' = txs /\ said \subseteq said' /\ (Fault \/ left' = left)
      BY <1>7 DEF ExitUnbuilt, AttemptFails
  <2> QED
      BY <1>1, <1>2, <1>3, <2>1
<1>8. ASSUME SendSale PROVE Traced'
  <2>1. PICK a \in Answers : Send(monitor.tx, a) /\ (UNCHANGED said \/ SaleFails)
      BY <1>8 DEF SendSale
  <2>2. monitor.pc # "idle" /\ (Fault \/ left' = left)
      BY <1>8, <2>1 DEF SendSale, Send
  <2>3. monitor.tx \in DOMAIN txs
      BY <2>2, SaleUnderWay DEF Sale
  <2>4. /\ Follows(txs, txs') /\ DOMAIN txs' = DOMAIN txs
        /\ \A j \in DOMAIN txs : txs'[j].booked = txs[j].booked
      BY <2>1, <2>3, SentMoves
  <2> QED
      BY <1>1, <1>3, <1>4, <2>1, <2>2, <2>4, SameBuys
<1>9. ASSUME SaleUnconfirmed PROVE Traced'
  <2>1. txs' = txs /\ said \subseteq said' /\ left' = left
      BY <1>4, <1>9 DEF SaleUnconfirmed
  <2> QED
      BY <1>1, <1>2, <1>3, <2>1
<1>10. ASSUME SaleConfirmed PROVE Traced'
  <2>1. txs' = txs /\ said' = said /\ left' = left
      BY <1>10 DEF SaleConfirmed
  <2> QED
      BY <1>1, <1>2, <1>3, <2>1
<1>11. ASSUME BookLeg \/ BookFinalLeg \/ CloseByReceipt \/ CloseByBalance PROVE Traced'
  <2>1. /\ monitor.pc # "idle" /\ Booked /\ said' = said /\ (Fault \/ left' = left)
      BY <1>11 DEF BookLeg, BookFinalLeg, CloseByReceipt, CloseByBalance, Close, ReadReceipt, Fault
  <2>2. monitor.tx \in DOMAIN txs /\ txs' = [txs EXCEPT ![monitor.tx].booked = TRUE]
      BY <2>1, SaleUnderWay DEF Sale, Booked
  <2>3. /\ Follows(txs, txs') /\ DOMAIN txs' = DOMAIN txs
        /\ txs'[monitor.tx].booked /\ \A j \in DOMAIN txs : j # monitor.tx => txs'[j] = txs[j]
      BY <2>2, BookedMoves
  <2>4. NoBuyMore(txs, txs')
      BY <2>3, SameBuys
  <2> QED
      BY <1>1, <1>3, <2>1, <2>4
<1> QED
    BY <1>5, <1>6, <1>7, <1>8, <1>9, <1>10, <1>11 DEF MonitorStep

(* In one life of the process every buy that executed has a position or a  *)
(* report, however it was sent, confirmed or resolved.                     *)
THEOREM BuysTraced == Spec => []BuyTraced
<1>1. Init => Traced
    BY DEF Init, Traced
<1>2. Typed /\ Traced /\ [Next]_vars => Traced'
    BY TracedByChain, TracedByBuying, TracedByPrebuilding, TracedByMonitor DEF Next
<1>3. Traced => BuyTraced
  <2> SUFFICES ASSUME Traced, left.crashes = MaxCrashes, NEW i \in Unbooked("buy")
               PROVE  i = trade.tx \/ i \in said
      BY DEF BuyTraced
  <2>1. ~ (left.crashes < MaxCrashes)
      BY Numbers
  <2> QED
      BY <2>1 DEF Traced, Unbooked, Landed
<1> QED
    BY <1>1, <1>2, <1>3, TypedAlways, PTL DEF Spec

-----------------------------------------------------------------------------
(* Buys of the mint that keep apart                                        *)

(* Nothing is left of the trading so far: no position, no task, no tokens, *)
(* no transaction that may still execute.                                  *)
Clear ==
    /\ book = NoPosition /\ monitor = Resting /\ waiting = {} /\ wallet.tokens = 0
    /\ \A i \in DOMAIN txs : ~ Pending(i)

(* Each buy of the mint starts when what came before is over.              *)
BuysApart == [][left'.buys # left.buys => Clear]_vars

(* Transactions the book, the monitor and the prebuild tasks may send.     *)
Handed == {book.bytes, monitor.tx} \cup {w.tx : w \in waiting}

Bought(b) == b \in DOMAIN txs /\ txs[b].status = "landed"

(* Nothing has followed buy b yet.                                         *)
Quiet(b) == book = NoPosition /\ monitor = Resting /\ waiting = {} /\ Len(txs) <= b

(* Transaction b is the latest buy, or b is 0: what was signed before it is*)
(* done with, and while it is under way, or before it executes, nothing    *)
(* else happens.                                                           *)
LatestBuy(b) ==
    /\ b \in DOMAIN txs => txs[b].side = "buy"
    /\ \A i \in DOMAIN txs : /\ txs[i].side = "buy" => i <= b
                             /\ i < b => ~ Pending(i) /\ i \notin Handed
    /\ trade.pc # "idle" => trade.tx = b /\ Quiet(b)
    /\ ~ Bought(b) => Quiet(b) /\ wallet.tokens = 0
    /\ Bought(b) /\ Len(txs) = b => wallet.tokens = txs[b].amount
    /\ trade.pc = "resolve" => Bought(b)

(* A sale i of everything: when it executes n tokens go, or it cannot.     *)
Full(i, T, n) == IF T[i].status = "landed" THEN n = 0 ELSE n <= T[i].amount

(* Every sale that would close the position is one of everything.          *)
AllFull ==
    /\ book.bytes # NoTx => Full(book.bytes, txs, wallet.tokens)
    /\ \A w \in waiting : w.tx # NoTx => Full(w.tx, txs, wallet.tokens)
    /\ monitor.kind = "exit" => Full(monitor.tx, txs, wallet.tokens)

(* Only what executed is booked.                                           *)
Honest(T) == \A i \in DOMAIN T : T[i].side = "sell" /\ T[i].booked => T[i].status = "landed"

Owed == Amount(Unbooked("sell"))

(* What the buy of the position brought.                                   *)
Fill == txs[book.id].amount

(* A leg is sold once, of what the buy brought, while all of it is still   *)
(* in the wallet or owed; the position claims more only by what the buy    *)
(* fell short of.                                                          *)
LegDue ==
    /\ Held /\ ~ book.leg => /\ wallet.tokens <= Fill /\ Fill <= wallet.tokens + Owed
                             /\ book.tokens <= Fill + Short
    /\ monitor.kind = "leg" => /\ Held /\ ~ book.leg /\ monitor.id = book.id
                               /\ monitor.before = book.tokens
                               /\ txs[monitor.tx].amount * 100 <= Fill * LegPct
    /\ monitor.pc = "receipt" => txs[monitor.tx].status = "landed"
    /\ Honest(txs)

(* The position is of the same buy: what that brought stands.              *)
LEMMA FillStands ==
    ASSUME Typed, Follows(txs, txs'), book'.id = book.id
    PROVE  /\ Short' = Short
           /\ Held => Fill' = Fill /\ Fill \in Nat
<1>1. ASSUME Held PROVE txs'[book.id].venue = txs[book.id].venue /\ Fill' = Fill /\ Fill \in Nat
  <2>1. book.id \in DOMAIN txs
      BY <1>1, Parts DEF BookOf, Buy, Held
  <2>2. txs[book.id] \in Signed
      BY <2>1, IdsOf, Parts
  <2> QED
      BY <2>1, <2>2 DEF Follows, Fill, Signed
<1> QED
    BY <1>1 DEF Short, Held, Fill

LEMMA ShortType ==
    /\ Typed => Short \in Nat
    /\ Typed' => Short' \in Nat
<1>1. ASSUME NEW b, NEW T, BookOf(b, T), TxsOf(T), b.id # NoTx PROVE T[b.id].amount \in Nat
  <2>1. T[b.id] \in Signed
      BY <1>1, IdsOf DEF BookOf, Buy
  <2> QED
      BY <2>1 DEF Signed
<1>2. ASSUME Typed PROVE Short \in Nat
  <2>1. Held => txs[book.id].amount \in Nat
      BY <1>1, <1>2, Parts DEF Held
  <2> QED
      BY <2>1, Numbers DEF Short
<1>3. ASSUME Typed' PROVE Short' \in Nat
  <2>1. Held' => txs'[book'.id].amount \in Nat
      BY <1>1, <1>3 DEF Held, Typed
  <2> QED
      BY <2>1, Numbers DEF Short
<1> QED
    BY <1>2, <1>3

(* What transaction i of the list T adds to what is owed.                  *)
Part(T) ==
    [i \in Ids |-> IF /\ i \in DOMAIN T /\ T[i].side = "sell"
                      /\ T[i].status = "landed" /\ ~ T[i].booked
                   THEN T[i].amount ELSE 0]

LEMMA OwedIs == Owed = SumOver(Part(txs), Ids) /\ Owed' = SumOver(Part(txs'), Ids)
<1>1. [i \in Ids |-> IF i \in Unbooked("sell") THEN txs[i].amount ELSE 0] = Part(txs)
    BY DEF Part, Unbooked, Landed
<1>2. [i \in Ids |-> IF i \in Unbooked("sell")' THEN txs'[i].amount ELSE 0] = Part(txs')
    BY DEF Part, Unbooked, Landed
<1> QED
    BY <1>1, <1>2 DEF Owed, Amount

LEMMA IdsFinite == IsFiniteSet(Ids)
BY Numbers, FS_Interval DEF Ids

LEMMA PartType ==
    ASSUME NEW T, TxsOf(T)
    PROVE  (\A i \in Ids : Part(T)[i] \in Nat) /\ SumOver(Part(T), Ids) \in Nat
<1>1. ASSUME NEW i \in DOMAIN T PROVE T[i].amount \in Nat
    BY IdsOf DEF Signed
<1>2. \A i \in Ids : Part(T)[i] \in Nat
    BY <1>1 DEF Part
<1> QED
    BY <1>2, SumType, IdsFinite

(* A step that neither executes nor books a transaction.                   *)
Calm ==
    /\ TxsOf(txs') /\ Follows(txs, txs') /\ wallet' = wallet
    /\ \A j \in DOMAIN txs : /\ txs'[j].status = "landed" <=> txs[j].status = "landed"
                             /\ txs'[j].booked = txs[j].booked
    /\ \A j \in DOMAIN txs' \ DOMAIN txs : ~ txs'[j].booked /\ txs'[j].status = "built"

LEMMA CalmKeeps ==
    ASSUME Typed, Calm
    PROVE  /\ Owed' = Owed
           /\ Honest(txs) => Honest(txs')
           /\ \A i \in DOMAIN txs : Full(i, txs, wallet.tokens) => Full(i, txs', wallet'.tokens)
<1>1. ASSUME NEW i \in Ids PROVE Part(txs')[i] = Part(txs)[i]
    BY DEF Calm, Follows, Part
<1>2. Owed' = Owed
  <2>1. \A i \in Ids : Part(txs)[i] \in Int /\ Part(txs')[i] = Part(txs)[i]
      BY <1>1, PartType, Parts
  <2>2. SumOver(Part(txs), Ids) = SumOver(Part(txs'), Ids)
      BY <2>1, IdsFinite, SumSame
  <2> QED
      BY <2>2, OwedIs
<1>3. Honest(txs) => Honest(txs')
    BY DEF Honest, Calm, Follows
<1>4. \A i \in DOMAIN txs : Full(i, txs, wallet.tokens) => Full(i, txs', wallet'.tokens)
    BY DEF Full, Calm, Follows
<1> QED
    BY <1>2, <1>3, <1>4

(* The ways a step is calm.                                                *)
LEMMA CalmWays ==
    ASSUME Typed, wallet' = wallet,
           \/ txs' = txs
           \/ txs' = Aged
           \/ \E i \in DOMAIN txs, a \in Answers : Send(i, a)
           \/ \E i \in DOMAIN txs : txs[i].status = "sent"
              /\ txs' = [txs EXCEPT ![i].status = "failed", ![i].age = 0]
           \/ \E n \in Nat \ {0} : Sign("sell", n, "pumpportal")
    PROVE  Calm /\ NoBuyMore(txs, txs')
<1>1. CASE txs' = txs
    BY <1>1, TxsStand DEF Calm, NoBuyMore
<1>2. CASE txs' = Aged
    BY <1>2, AgedMove, SameBuys DEF Calm
<1>3. ASSUME NEW i \in DOMAIN txs, NEW a \in Answers, Send(i, a)
      PROVE  Calm /\ NoBuyMore(txs, txs')
    BY <1>3, SentMoves, SameBuys DEF Calm
<1>4. ASSUME NEW i \in DOMAIN txs, txs[i].status = "sent",
      txs' = [txs EXCEPT ![i].status = "failed", ![i].age = 0]
      PROVE  Calm /\ NoBuyMore(txs, txs')
    BY <1>4, DecidedMoves, SameBuys DEF Calm
<1>5. ASSUME NEW n \in Nat \ {0}, Sign("sell", n, "pumpportal")
      PROVE  Calm /\ NoBuyMore(txs, txs')
  <2>1. /\ TxsOf(txs') /\ Follows(txs, txs') /\ txs'[Newest] = Tx("sell", n, "pumpportal")
        /\ \A i \in DOMAIN txs : txs'[i] = txs[i]
        /\ DOMAIN txs' = DOMAIN txs \cup {Newest}
      BY <1>5, SignedLast
  <2>2. \A j \in DOMAIN txs' \ DOMAIN txs : ~ txs'[j].booked /\ txs'[j].status = "built"
    <3>1. ~ Tx("sell", n, "pumpportal").booked /\ Tx("sell", n, "pumpportal").status = "built"
        BY DEF Tx
    <3> QED
        BY <2>1, <3>1
  <2> QED
      BY <1>5, <2>1, <2>2, SaleSigned DEF Calm
<1> QED
    BY <1>1, <1>2, <1>3, <1>4, <1>5

(* A step that sends no transaction, and one that sends transaction i.     *)
LEMMA PendingStays ==
    ASSUME Typed,
           \/ txs' = txs
           \/ txs' = Aged
           \/ \E i \in DOMAIN txs, s \in {"landed", "failed"} :
                txs' = [txs EXCEPT ![i].status = s, ![i].age = 0]
           \/ \E i \in DOMAIN txs : txs' = [txs EXCEPT ![i].booked = TRUE]
    PROVE  \A j \in DOMAIN txs : Pending(j)' => Pending(j)
<1> SUFFICES ASSUME NEW j \in DOMAIN txs, txs'[j].status = "sent", txs'[j].age < Life
             PROVE  txs[j].status = "sent" /\ txs[j].age < Life
    BY DEF Pending
<1> DEFINE t == txs[j]
<1>1. t \in Signed /\ t.age \in Nat /\ Life \in Nat
    BY IdsOf, Parts, Numbers DEF Signed
<1>2. CASE txs' = Aged
  <2>1. txs'[j] = Older(t)
      BY <1>2 DEF Aged
  <2>2. Older(t) = t \/ (t.age < Life /\ Older(t) = [t EXCEPT !.age = @ + 1])
      BY DEF Older
  <2>3. Older(t).status = t.status
      BY <1>1, <2>2 DEF Signed
  <2>4. t.age < Life
      BY <2>1, <2>2
  <2> QED
      BY <2>1, <2>3, <2>4
<1>3. ASSUME NEW i \in DOMAIN txs, NEW s \in {"landed", "failed"},
             txs' = [txs EXCEPT ![i].status = s, ![i].age = 0]
      PROVE  t.status = "sent" /\ t.age < Life
    BY <1>3, DecidedMoves
<1>4. ASSUME NEW i \in DOMAIN txs, txs' = [txs EXCEPT ![i].booked = TRUE]
      PROVE  t.status = "sent" /\ t.age < Life
  <2>1. CASE j # i
      BY <1>4, <2>1, BookedMoves
  <2>2. CASE j = i
    <3>1. txs'[j] = [t EXCEPT !.booked = TRUE]
        BY <1>4, <2>2
    <3>2. txs'[j].status = t.status /\ txs'[j].age = t.age
        BY <1>1, <3>1 DEF Signed
    <3> QED
        BY <3>2
  <2> QED
      BY <2>1, <2>2
<1> QED
    BY <1>2, <1>3, <1>4

LEMMA PendingSent ==
    ASSUME Typed, NEW i \in DOMAIN txs, NEW a, Send(i, a)
    PROVE  \A j \in DOMAIN txs : Pending(j)' => Pending(j) \/ j = i
<1>1. \A j \in DOMAIN txs : j # i => txs'[j] = txs[j]
    BY DEF Send
<1> QED
    BY <1>1 DEF Pending

(* A step after which what is pending was, or was sent by who had it.      *)
Carried ==
    \A j \in DOMAIN txs : Pending(j)' => Pending(j) \/ j \in Handed \/ (trade.pc # "idle"
      /\ j = trade.tx)

(* Once anything has followed the buy, it is over.                         *)
LEMMA BuyOver ==
    ASSUME Typed, NEW b \in Nat, LatestBuy(b), ~ Quiet(b)
    PROVE  Bought(b) /\ trade.pc = "idle" /\ trade = Idle
<1>1. Bought(b) /\ trade.pc = "idle"
    BY DEF LatestBuy
<1> QED
    BY <1>1, Parts DEF TradeOf

(* The buy under way is the latest transaction, and nothing has followed.  *)
LEMMA BuyFirst ==
    ASSUME Typed, NEW b \in Nat, LatestBuy(b), trade.pc # "idle"
    PROVE  trade.tx = b /\ b \in DOMAIN txs /\ Quiet(b) /\ Len(txs) = b
<1>1. Buy(trade.tx, txs) /\ trade.tx = b /\ Quiet(b)
    BY BuyUnderWay DEF LatestBuy
<1>2. Len(txs) \in Nat /\ DOMAIN txs = 1..Len(txs)
    BY IdsOf, Parts
<1>3. b \in DOMAIN txs /\ Len(txs) <= b
    BY <1>1 DEF Quiet, Buy
<1>4. b \in 1..Len(txs)
    BY <1>2, <1>3
<1>5. Len(txs) = b
  <2> DEFINE n == Len(txs)
  <2>1. n \in Nat /\ b \in 1..n /\ n <= b
      BY <1>2, <1>3, <1>4
  <2> HIDE DEF n
  <2>2. n = b
      BY <2>1
  <2> QED
      BY <2>2 DEF n
<1> QED
    BY <1>1, <1>3, <1>5

(* A step that signs nothing and executes nothing.                         *)
LEMMA LatestStill ==
    ASSUME Typed, Typed', NEW b \in Nat, LatestBuy(b), Follows(txs, txs'), Len(txs') = Len(txs),
           wallet' = wallet,
           Carried, Handed' \subseteq Handed \cup {NoTx},
           \A j \in DOMAIN txs : txs'[j].status = "landed" <=> txs[j].status = "landed",
           Quiet(b) => Quiet(b)' \/ (trade'.pc = "idle" /\ Bought(b)),
           trade'.pc # "idle" => trade.pc # "idle" /\ trade'.tx = trade.tx,
           trade'.pc = "resolve" => trade.pc = "resolve" \/ Bought(b)
    PROVE  LatestBuy(b)'
<1>1. DOMAIN txs' = DOMAIN txs /\ NoTx \notin DOMAIN txs /\ \A i \in DOMAIN txs : i \in Nat
    BY IdsOf, Parts DEF Typed
<1>2. Bought(b)' <=> Bought(b)
    BY <1>1 DEF Bought
<1>3. b \in DOMAIN txs' => txs'[b].side = "buy"
    BY <1>1 DEF LatestBuy, Follows
<1>4. ASSUME NEW i \in DOMAIN txs'
      PROVE  (txs'[i].side = "buy" => i <= b) /\ (i < b => ~ Pending(i)' /\ i \notin Handed')
  <2>1. i \in DOMAIN txs /\ i # NoTx /\ txs'[i].side = txs[i].side /\ i \in Nat
      BY <1>1 DEF Follows
  <2>2. i < b => ~ Pending(i) /\ i \notin Handed /\ ~ (trade.pc # "idle" /\ i = trade.tx)
      BY <2>1 DEF LatestBuy
  <2> QED
      BY <2>1, <2>2 DEF LatestBuy, Carried
<1>5. trade'.pc # "idle" => trade'.tx = b /\ Quiet(b)'
    BY DEF LatestBuy
<1>6. ~ Bought(b)' => Quiet(b)' /\ wallet'.tokens = 0
    BY <1>2 DEF LatestBuy
<1>7. /\ Bought(b)' /\ Len(txs') = b => wallet'.tokens = txs'[b].amount
      /\ trade'.pc = "resolve" => Bought(b)'
    BY <1>2 DEF LatestBuy, Bought, Follows
<1> QED
    BY <1>3, <1>4, <1>5, <1>6, <1>7 DEF LatestBuy

(* A step that signs a sale.                                               *)
LEMMA LatestSells ==
    ASSUME Typed, Typed', NEW b \in Nat, LatestBuy(b), ~ Quiet(b), NEW n \in Nat \ {0},
           Sign("sell", n, "pumpportal"),
           wallet' = wallet, trade' = trade, Handed' \subseteq Handed \cup {NoTx, Newest}
    PROVE  LatestBuy(b)'
<1>1. /\ txs'[Newest] = Tx("sell", n, "pumpportal") /\ \A i \in DOMAIN txs : txs'[i] = txs[i]
      /\ DOMAIN txs' = DOMAIN txs \cup {Newest} /\ Newest \notin DOMAIN txs
      /\ Len(txs') = Len(txs) + 1
    BY SignedLast
<1>2. Bought(b) /\ trade.pc = "idle"
    BY BuyOver
<1>3. Len(txs) \in Nat /\ DOMAIN txs = 1..Len(txs) /\ NoTx \notin DOMAIN txs
    BY IdsOf, Parts
<1>4. b \in DOMAIN txs /\ b <= Len(txs) /\ Newest > b /\ Len(txs') # b
    BY <1>1, <1>2, <1>3 DEF Bought, Newest
<1>5. Bought(b)' /\ txs'[b].side = "buy"
    BY <1>1, <1>2, <1>4 DEF Bought, LatestBuy
<1>6. ASSUME NEW i \in DOMAIN txs'
      PROVE  (txs'[i].side = "buy" => i <= b) /\ (i < b => ~ Pending(i)' /\ i \notin Handed')
  <2>1. CASE i = Newest
    <3>1. Tx("sell", n, "pumpportal").side # "buy"
        BY DEF Tx
    <3> QED
        BY <1>1, <1>3, <1>4, <2>1, <3>1 DEF Newest
  <2>2. CASE i # Newest
    <3>1. i \in DOMAIN txs /\ txs'[i] = txs[i] /\ i # NoTx
        BY <1>1, <1>3, <2>2
    <3>2. (txs[i].side = "buy" => i <= b) /\ (i < b => ~ Pending(i) /\ i \notin Handed)
        BY <3>1 DEF LatestBuy
    <3> QED
        BY <2>2, <3>1, <3>2 DEF Pending
  <2> QED
      BY <2>1, <2>2
<1> QED
    BY <1>2, <1>4, <1>5, <1>6 DEF LatestBuy

(* The buy executes, or a sale does.                                       *)
LEMMA Landing ==
    ASSUME Typed, NEW b \in Nat, LatestBuy(b), NEW i \in Ids, Land(i)
    PROVE  /\ i \in DOMAIN txs /\ txs[i].status = "sent" /\ Executable(txs[i])
           /\ wallet' = After(txs[i])
           /\ UNCHANGED <<left, book, trade, monitor, waiting>>
           /\ Follows(txs, txs') /\ DOMAIN txs' = DOMAIN txs /\ Len(txs') = Len(txs)
           /\ \A j \in DOMAIN txs : txs'[j].booked = txs[j].booked
           /\ txs'[i].status = "landed" /\ \A j \in DOMAIN txs : j # i => txs'[j] = txs[j]
           /\ i = b => Quiet(b) /\ ~ Bought(b) /\ wallet.tokens = 0
              /\ wallet'.tokens = txs[b].amount
           /\ i # b => /\ ~ Quiet(b) /\ txs[i].side = "sell"
              /\ wallet'.tokens = wallet.tokens - txs[i].amount
                       /\ wallet.tokens >= txs[i].amount
<1>1. /\ i \in DOMAIN txs /\ txs[i].status = "sent" /\ Executable(txs[i]) /\ wallet' = After(txs[i])
      /\ txs' = [txs EXCEPT ![i].status = "landed", ![i].age = 0] /\ Pending(i)
      /\ UNCHANGED <<left, book, trade, monitor, waiting>>
    BY DEF Land, Executes, Pending, files
<1>2. /\ Follows(txs, txs') /\ DOMAIN txs' = DOMAIN txs /\ Len(txs') = Len(txs)
      /\ \A j \in DOMAIN txs : txs'[j].booked = txs[j].booked
      /\ txs'[i].status = "landed" /\ \A j \in DOMAIN txs : j # i => txs'[j] = txs[j]
    BY <1>1, DecidedMoves
<1>3. ASSUME i = b
      PROVE  Quiet(b) /\ ~ Bought(b) /\ wallet.tokens = 0 /\ wallet'.tokens = txs[b].amount
  <2>1. ~ Bought(b) /\ txs[i].side = "buy"
      BY <1>1, <1>3 DEF Bought, LatestBuy
  <2>2. Quiet(b) /\ wallet.tokens = 0
      BY <2>1 DEF LatestBuy
  <2>3. After(txs[i]).tokens = wallet.tokens + txs[i].amount /\ txs[i].amount \in Nat
      BY <1>1, <2>1, WalletAfter, IdsOf, Parts DEF Signed
  <2> QED
      BY <1>1, <1>3, <2>1, <2>2, <2>3
<1>4. ASSUME i # b
      PROVE  /\ ~ Quiet(b) /\ txs[i].side = "sell" /\ wallet'.tokens = wallet.tokens - txs[i].amount
             /\ wallet.tokens >= txs[i].amount
  <2>1. txs[i] \in Signed /\ Len(txs) \in Nat /\ DOMAIN txs = 1..Len(txs)
      BY <1>1, IdsOf, Parts
  <2>2. ~ (i < b) /\ i > b
      BY <1>1, <1>4, <2>1 DEF LatestBuy
  <2>3. txs[i].side = "sell"
      BY <1>1, <2>1, <2>2 DEF LatestBuy, Signed
  <2>4. ~ Quiet(b)
      BY <1>1, <2>1, <2>2 DEF Quiet
  <2> QED
      BY <1>1, <2>3, <2>4, WalletAfter
<1> QED
    BY <1>1, <1>2, <1>3, <1>4

LEMMA LatestLands ==
    ASSUME Typed, Typed', NEW b \in Nat, LatestBuy(b), NEW i \in Ids, Land(i)
    PROVE  LatestBuy(b)'
<1>1. /\ UNCHANGED <<left, book, trade, monitor, waiting>> /\ i \in DOMAIN txs
      /\ Follows(txs, txs') /\ DOMAIN txs' = DOMAIN txs /\ Len(txs') = Len(txs)
      /\ txs'[i].status = "landed" /\ \A j \in DOMAIN txs : j # i => txs'[j] = txs[j]
    BY Landing
<1>2. b \in DOMAIN txs' => txs'[b].side = "buy"
    BY <1>1 DEF LatestBuy, Follows
<1>3. ASSUME NEW j \in DOMAIN txs'
      PROVE  (txs'[j].side = "buy" => j <= b) /\ (j < b => ~ Pending(j)' /\ j \notin Handed')
  <2>1. Handed' = Handed /\ txs'[j].side = txs[j].side
      BY <1>1 DEF Handed, Follows
  <2>2. Pending(j)' => Pending(j)
      BY <1>1 DEF Pending
  <2> QED
      BY <1>1, <2>1, <2>2 DEF LatestBuy
<1>4. trade'.pc # "idle" => trade'.tx = b /\ Quiet(b)'
    BY <1>1 DEF LatestBuy, Quiet
<1>5. Bought(b)'
  <2>1. CASE i = b
      BY <1>1, <2>1 DEF Bought
  <2>2. CASE i # b
    <3>1. Bought(b)
        BY <2>2, Landing DEF LatestBuy
    <3> QED
        BY <1>1, <2>2, <3>1 DEF Bought
  <2> QED
      BY <2>1, <2>2
<1>6. Len(txs') = b => wallet'.tokens = txs'[b].amount
  <2>1. CASE i = b
      BY <1>1, <2>1, Landing DEF Follows
  <2>2. CASE i # b
    <3>1. txs[i].status = "sent" /\ Len(txs) \in Nat /\ DOMAIN txs = 1..Len(txs) /\ Pending(i)
        BY Landing, IdsOf, Parts DEF Land, Executes
    <3>2. ~ (i < b) /\ i \in 1..Len(txs)
        BY <1>1, <3>1 DEF LatestBuy
    <3> DEFINE n == Len(txs)
    <3>3. n \in Nat /\ ~ (i < b) /\ i \in 1..n
        BY <3>1, <3>2
    <3> HIDE DEF n
    <3>4. n # b
        BY <2>2, <3>3
    <3> QED
        BY <1>1, <3>4 DEF n
  <2> QED
      BY <2>1, <2>2
<1> QED
    BY <1>2, <1>3, <1>4, <1>5, <1>6 DEF LatestBuy

(* What a session whose buys keep apart keeps to.                          *)
Sound(b) == b \in Nat /\ LatestBuy(b) /\ AllFull /\ LegDue /\ BookBacked

LEMMA Backing ==
    /\ BookBacked <=> book.tokens <= wallet.tokens + Owed + Short
    /\ BookBacked' <=> book'.tokens <= wallet'.tokens + Owed' + Short'
BY DEF BookBacked, Owed

LEMMA OwedType ==
    /\ Typed => Owed \in Nat
    /\ Typed' => Owed' \in Nat
<1>1. Typed => Owed \in Nat
    BY OwedIs, PartType DEF Typed
<1>2. Typed' => Owed' \in Nat
    BY OwedIs, PartType DEF Typed
<1> QED
    BY <1>1, <1>2

(* While nothing has followed the buy there is nothing to claim.           *)
LEMMA SoundWhenQuiet ==
    ASSUME Typed', NEW b \in Nat, Quiet(b)', Honest(txs')
    PROVE  AllFull' /\ LegDue' /\ BookBacked'
<1>1. book' = NoPosition /\ monitor' = Resting /\ waiting' = {}
    BY DEF Quiet
<1>2. AllFull'
    BY <1>1, NoPositionType DEF AllFull, Resting
<1>3. LegDue'
    BY <1>1, NoPositionType DEF LegDue, Held, Resting
<1>4. BookBacked'
  <2>1. wallet'.tokens \in Nat /\ Owed' \in Nat /\ Short' \in Nat
      BY OwedType, ShortType DEF Typed
  <2>2. book'.tokens = 0
      BY <1>1, NoPositionType
  <2> QED
      BY <2>1, <2>2, Backing
<1> QED
    BY <1>2, <1>3, <1>4

(* The sales of everything after a calm step.                              *)
LEMMA FullStill ==
    ASSUME Typed, AllFull, Calm
    PROVE  /\ book.bytes # NoTx => Full(book.bytes, txs', wallet'.tokens)
           /\ \A w \in waiting : w.tx # NoTx => Full(w.tx, txs', wallet'.tokens)
           /\ monitor.kind = "exit" => Full(monitor.tx, txs', wallet'.tokens)
<1>1. book.bytes # NoTx => book.bytes \in DOMAIN txs
    BY Parts DEF BookOf, Sale
<1>2. \A w \in waiting : w.tx # NoTx => w.tx \in DOMAIN txs
    BY Parts DEF TasksOf, Sale
<1>3. monitor.kind = "exit" => monitor.tx \in DOMAIN txs
    BY Parts DEF MonitorOf, Sale, Resting
<1> QED
    BY <1>1, <1>2, <1>3, CalmKeeps DEF AllFull

(* A calm step: what there is to show of the parts it changes.             *)
LEMMA SoundOn ==
    ASSUME Typed, Typed', NEW b \in Nat, Sound(b), Calm,
           \/ book' = NoPosition
           \/ book'.id = book.id /\ book'.tokens = book.tokens /\ book'.leg = book.leg,
           book'.bytes # NoTx => Full(book'.bytes, txs', wallet'.tokens),
           \A w \in waiting' : w.tx # NoTx => Full(w.tx, txs', wallet'.tokens),
           monitor'.kind = "exit" => Full(monitor'.tx, txs', wallet'.tokens),
           monitor'.kind = "leg" =>
             /\ book' # NoPosition /\ Held /\ ~ book.leg /\ monitor'.id = book.id
             /\ monitor'.before = book.tokens
             /\ txs'[monitor'.tx].amount * 100 <= Fill * LegPct,
           monitor'.pc = "receipt" => txs'[monitor'.tx].status = "landed"
    PROVE  AllFull' /\ LegDue' /\ BookBacked'
<1>1. AllFull'
    BY DEF AllFull
<1>2. Owed' = Owed /\ Honest(txs') /\ wallet' = wallet
    BY CalmKeeps DEF Sound, LegDue, Calm
<1>3. book'.id # NoTx => book'.id = book.id /\ book'.tokens = book.tokens /\ book'.leg = book.leg
    BY NoPositionType
<1>4. book'.id = book.id => Short' = Short /\ (Held => Fill' = Fill)
    BY FillStands DEF Calm
<1>5. LegDue'
  <2>1. Held' /\ ~ book'.leg => /\ wallet'.tokens <= Fill' /\ Fill' <= wallet'.tokens + Owed'
                                /\ book'.tokens <= Fill' + Short'
      BY <1>2, <1>3, <1>4 DEF Sound, LegDue, Held
  <2>2. monitor'.kind = "leg" => /\ Held' /\ ~ book'.leg /\ monitor'.id = book'.id
                                 /\ monitor'.before = book'.tokens
                                 /\ txs'[monitor'.tx].amount * 100 <= Fill' * LegPct
      BY <1>4 DEF Held
  <2> QED
      BY <1>2, <2>1, <2>2 DEF LegDue
<1>6. BookBacked'
  <2>1. /\ wallet.tokens \in Nat /\ Owed \in Nat /\ Short' \in Nat
        /\ book.tokens <= wallet.tokens + Owed + Short
      BY OwedType, ShortType, Parts, Backing DEF Sound
  <2>2. CASE book' = NoPosition
      BY <1>2, <2>1, <2>2, NoPositionType, Backing
  <2>3. CASE book'.id = book.id /\ book'.tokens = book.tokens
      BY <1>2, <1>4, <2>1, <2>3, Backing
  <2> QED
      BY <2>2, <2>3
<1> QED
    BY <1>1, <1>5, <1>6

(* A sale executes: what is left, no other sale of everything can take.    *)
LEMMA SoundByLanding ==
    ASSUME Typed, Typed', NEW b \in Nat, LatestBuy(b)', Sound(b), NEW i \in Ids, Land(i)
    PROVE  AllFull' /\ LegDue' /\ BookBacked'
<1> USE DEF Sound
<1>1. /\ i \in DOMAIN txs /\ txs[i].status = "sent"
      /\ UNCHANGED <<left, book, trade, monitor, waiting>>
      /\ Follows(txs, txs') /\ DOMAIN txs' = DOMAIN txs /\ Len(txs') = Len(txs)
      /\ \A j \in DOMAIN txs : txs'[j].booked = txs[j].booked
      /\ txs'[i].status = "landed" /\ \A j \in DOMAIN txs : j # i => txs'[j] = txs[j]
    BY Landing
<1>2. ASSUME i = b PROVE AllFull' /\ LegDue' /\ BookBacked'
  <2>1. Quiet(b)'
      BY <1>1, <1>2, Landing DEF Quiet
  <2>2. Honest(txs')
      BY <1>1 DEF LegDue, Honest, Follows
  <2> QED
      BY <2>1, <2>2, SoundWhenQuiet
<1>3. ASSUME i # b PROVE AllFull' /\ LegDue' /\ BookBacked'
  <2> DEFINE m == wallet.tokens  n == txs[i].amount
  <2>1. /\ txs[i].side = "sell" /\ wallet'.tokens = m - n /\ m >= n /\ m \in Nat /\ n \in Nat \ {0}
        /\ txs'[i].amount = n
    <3>1. txs[i] \in Signed
        BY <1>1, IdsOf, Parts
    <3> QED
        BY <1>1, <1>3, <3>1, Landing, Parts DEF Signed, Follows
  <2>2. ASSUME NEW j \in DOMAIN txs, Full(j, txs, m) PROVE Full(j, txs', wallet'.tokens)
    <3>1. txs[j].amount \in Nat
        BY <2>2, IdsOf, Parts DEF Signed
    <3>2. CASE j = i
        BY <1>1, <2>1, <2>2, <3>2 DEF Full
    <3>3. CASE j # i
        BY <1>1, <2>1, <2>2, <3>1, <3>3 DEF Full
    <3> QED
        BY <3>2, <3>3
  <2>3. AllFull'
    <3>1. book.bytes # NoTx => book.bytes \in DOMAIN txs
        BY Parts DEF BookOf, Sale
    <3>2. \A w \in waiting : w.tx # NoTx => w.tx \in DOMAIN txs
        BY Parts DEF TasksOf, Sale
    <3>3. monitor.kind = "exit" => monitor.tx \in DOMAIN txs
        BY Parts DEF MonitorOf, Sale, Resting
    <3> QED
        BY <1>1, <2>2, <3>1, <3>2, <3>3 DEF AllFull
  <2>4. Owed' = Owed + n
    <3>1. ~ txs[i].booked
        BY <1>1, <2>1 DEF LegDue, Honest
    <3>2. Part(txs')[i] = n /\ Part(txs)[i] = 0
        BY <1>1, <2>1, <3>1 DEF Part, Follows
    <3>3. \A j \in Ids : /\ Part(txs)[j] \in Int /\ Part(txs')[j] \in Int
                         /\ (j # i => Part(txs')[j] = Part(txs)[j])
      <4>1. \A j \in Ids : Part(txs)[j] \in Nat /\ Part(txs')[j] \in Nat
          BY PartType DEF Typed
      <4>2. \A j \in Ids : j # i => Part(txs')[j] = Part(txs)[j]
          BY <1>1 DEF Part
      <4> QED
          BY <4>1, <4>2
    <3>4. SumOver(Part(txs'), Ids) = SumOver(Part(txs), Ids) + Part(txs')[i] - Part(txs)[i]
        BY <3>3, IdsFinite, SumChange
    <3>5. SumOver(Part(txs), Ids) \in Nat
        BY PartType, Parts
    <3> QED
        BY <2>1, <3>2, <3>4, <3>5, OwedIs
  <2>5. Short' = Short /\ (Held => Fill' = Fill /\ Fill \in Nat)
      BY <1>1, FillStands
  <2>6. LegDue'
    <3>1. Held' /\ ~ book'.leg => /\ wallet'.tokens <= Fill' /\ Fill' <= wallet'.tokens + Owed'
                                  /\ book'.tokens <= Fill' + Short'
      <4>1. Owed \in Nat /\ (Held /\ ~ book.leg => m <= Fill /\ Fill <= m + Owed)
          BY OwedType DEF LegDue
      <4>2. Held /\ ~ book.leg => book.tokens <= Fill + Short
          BY DEF LegDue
      <4> QED
          BY <1>1, <2>1, <2>4, <2>5, <4>1, <4>2 DEF Held
    <3>2. monitor.kind = "leg" \/ monitor.pc = "receipt" => monitor.tx \in DOMAIN txs
        BY Parts DEF MonitorOf, Sale, Resting
    <3>3. monitor'.kind = "leg" => /\ Held' /\ ~ book'.leg /\ monitor'.id = book'.id
                                   /\ monitor'.before = book'.tokens
                                   /\ txs'[monitor'.tx].amount * 100 <= Fill' * LegPct
        BY <1>1, <2>5, <3>2 DEF LegDue, Held, Follows
    <3>4. monitor'.pc = "receipt" => txs'[monitor'.tx].status = "landed"
        BY <1>1, <3>2 DEF LegDue
    <3>5. Honest(txs')
        BY <1>1 DEF LegDue, Honest, Follows
    <3> QED
        BY <3>1, <3>3, <3>4, <3>5 DEF LegDue
  <2>7. BookBacked'
    <3>1. book'.tokens = book.tokens /\ Owed \in Nat /\ book.tokens <= m + Owed + Short
        BY <1>1, OwedType, Backing
    <3> QED
        BY <2>1, <2>4, <2>5, <3>1, Backing
  <2> QED
      BY <2>3, <2>6, <2>7
<1> QED
    BY <1>2, <1>3

(* Booking a sale takes no more than its tokens from what is owed.         *)
LEMMA OwedBooked ==
    ASSUME Typed, Typed', NEW k, Sale(k, txs), txs' = [txs EXCEPT ![k].booked = TRUE]
    PROVE  Owed <= Owed' + txs[k].amount
<1> DEFINE n == txs[k].amount  f == Part(txs)  h == Part(txs')
<1>1. /\ k \in DOMAIN txs /\ Follows(txs, txs') /\ DOMAIN txs' = DOMAIN txs
      /\ txs'[k].booked /\ \A j \in DOMAIN txs : j # k => txs'[j] = txs[j]
    BY BookedMoves DEF Sale
<1>2. k \in Ids /\ n \in Nat
    BY <1>1, IdsOf, Parts DEF Signed
<1>3. h[k] = 0 /\ f[k] \in {0, n}
    BY <1>1, <1>2 DEF Part
<1>4. \A j \in Ids : f[j] \in Int /\ h[j] \in Int /\ (j # k => h[j] = f[j])
  <2>1. \A j \in Ids : f[j] \in Nat /\ h[j] \in Nat
      BY PartType DEF Typed
  <2>2. \A j \in Ids : j # k => h[j] = f[j]
      BY <1>1 DEF Part
  <2> HIDE DEF f, h
  <2> QED
      BY <2>1, <2>2
<1> HIDE DEF f, h, n
<1>5. SumOver(h, Ids) = SumOver(f, Ids) + h[k] - f[k]
    BY <1>2, <1>4, IdsFinite, SumChange
<1>6. SumOver(f, Ids) = Owed /\ SumOver(h, Ids) = Owed' /\ Owed \in Nat /\ Owed' \in Nat
    BY OwedIs, OwedType DEF f, h
<1>7. Owed <= Owed' + n
    BY <1>2, <1>3, <1>5, <1>6
<1> QED
    BY <1>7 DEF n

(* What a leg leaves and what it sells are no more than the buy brought    *)
(* and fell short of.                                                      *)
LEMMA RestBounded ==
    ASSUME NEW t \in Nat, NEW r \in Nat, NEW c \in Nat, NEW d \in Nat, NEW n \in Nat,
           100 * r <= t * (100 - LegPct), t <= c + d, n * 100 <= c * LegPct
    PROVE  r + n <= c + d
<1> DEFINE p == LegPct  q == 100 - LegPct
<1>1. p \in Nat /\ q \in Nat /\ p + q = 100 /\ c + d \in Nat
    BY Numbers
<1> HIDE DEF p, q
<1>2. q * t <= q * (c + d)
    BY <1>1, MulMono
<1>3. d * q <= d * 100
  <2>1. q <= 100
      BY <1>1
  <2> QED
      BY <1>1, <2>1, MulMono
<1>4. q * t = t * q /\ q * (c + d) = c * q + d * q /\ c * p + c * q = c * 100
    BY <1>1, Z3
<1> DEFINE u == t * q  v == c * q  w == d * q  x == c * p  y == q * t  z == q * (c + d)
<1>5. u \in Nat /\ v \in Nat /\ w \in Nat /\ x \in Nat
    BY <1>1, MulNat
<1>6. 100 * r <= u /\ n * 100 <= x
    BY DEF p, q
<1>7. y <= z /\ w <= d * 100 /\ y = u /\ z = v + w /\ x + v = c * 100
    BY <1>2, <1>3, <1>4
<1> HIDE DEF u, v, w, x, y, z
<1> QED
    BY <1>5, <1>6, <1>7

LEMMA SoundByBooking ==
    ASSUME Typed, Typed', NEW b \in Nat, Sound(b),
           BookLeg \/ BookFinalLeg \/ CloseByReceipt \/ CloseByBalance
    PROVE  LatestBuy(b)' /\ AllFull' /\ LegDue' /\ BookBacked'
<1> USE DEF Sound
<1> DEFINE k == monitor.tx  n == txs[k].amount  m == wallet.tokens
<1>1. /\ monitor.pc = "receipt" /\ txs' = [txs EXCEPT ![k].booked = TRUE] /\ monitor' = Resting
      /\ UNCHANGED <<wallet, trade, waiting>> /\ (Fault \/ left' = left)
    BY DEF BookLeg, BookFinalLeg, CloseByReceipt, CloseByBalance, Close, Booked, Fault,
      ReadReceipt, chain
<1>2. /\ Sale(k, txs) /\ n \in Nat /\ txs[k].status = "landed" /\ ~ Quiet(b)
      /\ monitor.kind \in {"leg", "exit"}
    BY <1>1, SaleUnderWay DEF LegDue, Quiet, Resting
<1>3. /\ Follows(txs, txs') /\ DOMAIN txs' = DOMAIN txs /\ Len(txs') = Len(txs)
      /\ \A j \in DOMAIN txs : txs'[j].status = txs[j].status
      /\ txs'[k].booked /\ \A j \in DOMAIN txs : j # k => txs'[j] = txs[j]
    BY <1>1, <1>2, BookedMoves DEF Sale
<1>4. LatestBuy(b)'
  <2>1. book'.bytes \in {book.bytes, NoTx}
      BY NoPositionType, Parts DEF BookLeg, BookFinalLeg, CloseByReceipt, CloseByBalance, Close,
      Position
  <2>2. Handed' \subseteq Handed \cup {NoTx}
      BY <1>1, <2>1 DEF Handed, Resting
  <2>3. Carried
      BY <1>1, <1>2, PendingStays DEF Carried, Sale
  <2> QED
      BY <1>1, <1>2, <1>3, <2>2, <2>3, LatestStill
<1>5. ASSUME NEW j \in DOMAIN txs, Full(j, txs, m) PROVE Full(j, txs', wallet'.tokens)
    BY <1>1, <1>3, <1>5 DEF Full, Follows
<1>6. \A w \in waiting' : w.tx # NoTx => Full(w.tx, txs', wallet'.tokens)
    BY <1>1, <1>5, Parts DEF AllFull, TasksOf, Sale
<1>7. Honest(txs')
    BY <1>2, <1>3 DEF LegDue, Honest, Follows
<1>8. Owed <= Owed' + n /\ Owed \in Nat /\ Owed' \in Nat /\ m \in Nat
    BY <1>1, <1>2, OwedBooked, OwedType, Parts
<1>9. ASSUME BookLeg PROVE AllFull' /\ LegDue' /\ BookBacked'
  <2> DEFINE t == book.tokens  r == Rest  c == Fill  d == Short
  <2>1. /\ Held /\ ~ book.leg /\ monitor.id = book.id /\ n * 100 <= c * LegPct
        /\ r = RestOf(t) /\ c <= m + Owed /\ t <= c + d
        /\ book' = [book EXCEPT !.tokens = r, !.leg = TRUE]
      BY <1>9 DEF BookLeg, LegDue, Rest
  <2>2. t \in Nat /\ r \in Nat /\ 100 * r <= t * (100 - LegPct)
      BY <2>1, LegNumbers, Parts DEF Position
  <2> HIDE DEF r
  <2>3. book'.tokens = r /\ book'.leg /\ book'.bytes = book.bytes /\ book'.id = book.id
      BY <2>1, Parts DEF Position
  <2>4. AllFull'
    <3>1. book.bytes # NoTx => book.bytes \in DOMAIN txs
        BY Parts DEF BookOf, Sale
    <3> QED
        BY <1>1, <1>5, <1>6, <2>3, <3>1 DEF AllFull, Resting
  <2>5. LegDue'
      BY <1>1, <1>7, <2>3 DEF LegDue, Resting
  <2>6. Short' = d /\ c \in Nat /\ d \in Nat
      BY <1>3, <2>1, <2>3, FillStands, ShortType
  <2>7. r + n <= c + d
      BY <1>2, <2>1, <2>2, <2>6, RestBounded
  <2>8. BookBacked'
    <3> HIDE DEF n, t, c, d
    <3> QED
        BY <1>1, <1>2, <1>8, <2>1, <2>2, <2>3, <2>6, <2>7, Backing
  <2> QED
      BY <2>4, <2>5, <2>8
<1>10. ASSUME BookFinalLeg \/ CloseByReceipt \/ CloseByBalance
       PROVE  AllFull' /\ LegDue' /\ BookBacked'
  <2>1. book' = NoPosition
      BY <1>10 DEF BookFinalLeg, CloseByReceipt, CloseByBalance, Close
  <2>2. AllFull'
      BY <1>1, <1>6, <2>1, NoPositionType DEF AllFull, Resting
  <2>3. LegDue'
      BY <1>1, <1>7, <2>1, NoPositionType DEF LegDue, Held, Resting
  <2>4. BookBacked'
      BY <1>1, <1>8, <2>1, NoPositionType, ShortType, Backing
  <2> QED
      BY <2>2, <2>3, <2>4
<1> QED
    BY <1>4, <1>9, <1>10

(* The trade loop: the position it opens claims what the wallet has.       *)
LEMMA BuyingWays ==
    ASSUME Typed, NEW b \in Nat, LatestBuy(b), Buying
    PROVE  \/ /\ \E n \in Fills, v \in {"jupiter", "pumpportal"} : Sign("buy", n, v)
              /\ left'.buys # left.buys
              /\ trade'.pc = "send" /\ trade'.tx = Newest
              /\ UNCHANGED <<wallet, book, monitor, waiting>>
           \/ /\ Calm /\ Carried /\ Len(txs') = Len(txs) /\ UNCHANGED <<book, monitor, waiting>>
              /\ trade.pc # "idle" /\ (trade'.pc # "idle" => trade'.tx = trade.tx)
              /\ trade'.pc = "resolve" => trade.pc = "resolve" \/ Bought(b)
           \/ \E n \in Nat :
                /\ trade.pc # "idle" /\ Bought(b) /\ OpenPosition(n)
                /\ n = wallet.tokens \/ (n = Lot /\ txs[trade.tx].venue = "jupiter")
                /\ UNCHANGED <<wallet, monitor>>
<1>1. ASSUME NEW venue \in {"jupiter", "pumpportal"}, StartBuy(venue)
      PROVE  /\ \E n \in Fills, v \in {"jupiter", "pumpportal"} : Sign("buy", n, v)
             /\ left'.buys # left.buys
             /\ trade'.pc = "send" /\ trade'.tx = Newest
             /\ UNCHANGED <<wallet, book, monitor, waiting>>
  <2>1. left \in Bounds /\ left' = [left EXCEPT !.buys = left.buys - 1]
      BY <1>1, Parts DEF StartBuy
  <2>2. left'.buys # left.buys
      BY <2>1 DEF Bounds
  <2> QED
      BY <1>1, <2>2 DEF StartBuy, chain, files
<1>2. ASSUME SendBuy
      PROVE  /\ Calm /\ Carried /\ Len(txs') = Len(txs) /\ UNCHANGED <<book, monitor, waiting>>
             /\ trade.pc # "idle" /\ (trade'.pc # "idle" => trade'.tx = trade.tx)
             /\ trade'.pc = "resolve" => trade.pc = "resolve" \/ Bought(b)
  <2>1. PICK a \in Answers :
           /\ Send(trade.tx, a)
           /\ trade' = [trade EXCEPT !.pc = "confirm"] \/ trade' = Idle
      BY <1>2 DEF SendBuy, SendFailed, Reject
  <2>2. trade.pc # "idle" /\ UNCHANGED <<wallet, book, monitor, waiting>>
      BY <1>2, <2>1 DEF SendBuy, chain, files
  <2>3. /\ trade.tx \in DOMAIN txs /\ trade'.pc # "resolve"
        /\ trade'.pc # "idle" => trade'.tx = trade.tx
      BY <2>1, <2>2, BuyUnderWay DEF Buy, Idle
  <2>4. Calm /\ Len(txs') = Len(txs)
      BY <2>1, <2>2, <2>3, CalmWays, SentMoves
  <2>5. Carried
      BY <2>1, <2>2, <2>3, PendingSent DEF Carried
  <2> QED
      BY <2>2, <2>3, <2>4, <2>5
<1>3. ASSUME trade.pc # "idle", txs' = txs, wallet' = wallet, UNCHANGED <<book, monitor, waiting>>,
             trade'.pc # "idle" => trade'.tx = trade.tx,
             trade'.pc = "resolve" => trade.pc = "resolve" \/ Bought(b)
      PROVE  /\ Calm /\ Carried /\ Len(txs') = Len(txs) /\ UNCHANGED <<book, monitor, waiting>>
             /\ trade.pc # "idle" /\ (trade'.pc # "idle" => trade'.tx = trade.tx)
             /\ trade'.pc = "resolve" => trade.pc = "resolve" \/ Bought(b)
    BY <1>3, CalmWays, PendingStays DEF Carried
<1>4. ASSUME Bought(b), trade.pc # "idle" PROVE txs[trade.tx].amount = wallet.tokens
    BY <1>4, BuyFirst, BuyUnderWay DEF LatestBuy
<1>5. ASSUME BuyUnconfirmed
      PROVE  /\ trade.pc # "idle" /\ trade' = Idle
             /\ UNCHANGED <<wallet, txs, book, monitor, waiting>>
    BY <1>5 DEF BuyUnconfirmed, Reject, chain, files
<1>6. ASSUME BuyConfirmed
      PROVE  /\ trade.pc # "idle" /\ Bought(b) /\ UNCHANGED <<wallet, monitor>>
             /\ \/ OpenPosition(Lot) /\ txs[trade.tx].venue = "jupiter"
                \/ trade'.tx = trade.tx /\ UNCHANGED <<txs, book, waiting>>
  <2>1. /\ trade.pc # "idle" /\ txs[trade.tx].status = "landed" /\ UNCHANGED <<wallet, monitor>>
      BY <1>6 DEF BuyConfirmed, Confirmed, chain
  <2>2. Bought(b) /\ [trade EXCEPT !.pc = "resolve"].tx = trade.tx
      BY <2>1, BuyFirst, BuyUnderWay DEF Bought
  <2> QED
      BY <1>6, <2>1, <2>2 DEF BuyConfirmed, files
<1>7. ASSUME ResolveByReceipt \/ ResolveByBalance
      PROVE  /\ trade.pc # "idle" /\ Bought(b) /\ UNCHANGED <<wallet, monitor>>
             /\ \/ OpenPosition(txs[trade.tx].amount) \/ OpenPosition(wallet.tokens)
                \/ trade' = Idle /\ UNCHANGED <<txs, book, waiting>>
    BY <1>7 DEF ResolveByReceipt, ResolveByBalance, Reject, LatestBuy, chain, files
<1>8. Idle.pc = "idle"
    BY DEF Idle
<1>9. wallet.tokens \in Nat /\ Lot \in Nat
    BY Parts, Numbers
<1>10. CASE \E venue \in {"jupiter", "pumpportal"} : StartBuy(venue)
    BY <1>1, <1>10
<1>11. CASE SendBuy
    BY <1>2, <1>11
<1>12. CASE BuyUnconfirmed
    BY <1>3, <1>5, <1>8, <1>12
<1>13. CASE BuyConfirmed
    BY <1>3, <1>6, <1>9, <1>13
<1>14. CASE ResolveByReceipt \/ ResolveByBalance
    BY <1>3, <1>4, <1>7, <1>8, <1>9, <1>14
<1> QED
    BY <1>10, <1>11, <1>12, <1>13, <1>14 DEF Buying

LEMMA SoundByBuying ==
    ASSUME Typed, Typed', NEW b \in Nat, Sound(b), Buying, left'.buys # left.buys => Clear
    PROVE  \E c \in Nat : Sound(c)'
<1> USE DEF Sound
<1>1. ASSUME NEW n \in Fills, NEW v \in {"jupiter", "pumpportal"}, Sign("buy", n, v),
             left'.buys # left.buys, trade'.pc = "send", trade'.tx = Newest,
             UNCHANGED <<wallet, book, monitor, waiting>>
      PROVE  \E c \in Nat : Sound(c)'
  <2>1. Clear /\ Len(txs) \in Nat /\ DOMAIN txs = 1..Len(txs)
      BY <1>1, IdsOf, Parts
  <2>2. PICK c \in Nat : c = Newest
      BY <2>1 DEF Newest
  <2>3. /\ txs'[c] = Tx("buy", n, v) /\ Len(txs') = c
        /\ \A i \in DOMAIN txs : txs'[i] = txs[i]
        /\ DOMAIN txs' = DOMAIN txs \cup {c}
    <3>1. n \in Nat \ {0}
        BY Numbers
    <3> QED
        BY <1>1, <2>2, <3>1, SignedLast DEF Newest
  <2>4. txs'[c].side = "buy" /\ txs'[c].status = "built"
      BY <2>3 DEF Tx
  <2>5. book' = NoPosition /\ monitor' = Resting /\ waiting' = {} /\ wallet'.tokens = 0
      BY <1>1, <2>1 DEF Clear
  <2>6. ASSUME NEW i \in DOMAIN txs'
        PROVE  i <= c /\ (i < c => ~ Pending(i)' /\ i \notin Handed')
    <3>1. i <= c /\ i # NoTx
        BY <2>1, <2>2, <2>3 DEF Newest, NoTx
    <3>2. i < c => i \in DOMAIN txs /\ txs'[i] = txs[i]
        BY <2>3
    <3>3. i < c => ~ Pending(i)'
        BY <2>1, <3>2 DEF Clear, Pending
    <3>4. Handed' = {NoTx}
        BY <2>5, NoPositionType DEF Handed, Resting
    <3> QED
        BY <3>1, <3>3, <3>4
  <2>7. Quiet(c)' /\ ~ Bought(c)' /\ trade'.tx = c
      BY <1>1, <2>2, <2>3, <2>4, <2>5 DEF Quiet, Bought
  <2>8. LatestBuy(c)'
      BY <1>1, <2>4, <2>5, <2>6, <2>7 DEF LatestBuy
  <2>9. Honest(txs')
      BY <2>3, <2>4 DEF LegDue, Honest
  <2> QED
      BY <2>7, <2>8, <2>9, SoundWhenQuiet
<1>2. ASSUME Calm, Carried, Len(txs') = Len(txs), UNCHANGED <<book, monitor, waiting>>,
             trade.pc # "idle", trade'.pc # "idle" => trade'.tx = trade.tx,
             trade'.pc = "resolve" => trade.pc = "resolve" \/ Bought(b)
      PROVE  Sound(b)'
  <2>1. Quiet(b)'
      BY <1>2, BuyFirst DEF Quiet
  <2>2. Handed' = Handed
      BY <1>2 DEF Handed
  <2>3. LatestBuy(b)'
      BY <1>2, <2>1, <2>2, LatestStill DEF Calm
  <2>4. Honest(txs')
      BY <1>2, CalmKeeps DEF LegDue
  <2> QED
      BY <2>1, <2>3, <2>4, SoundWhenQuiet
<1>3. ASSUME NEW n \in Nat, trade.pc # "idle", Bought(b), OpenPosition(n),
             UNCHANGED <<wallet, monitor>>,
             n = wallet.tokens \/ (n = Lot /\ txs[trade.tx].venue = "jupiter")
      PROVE  Sound(b)'
  <2>1. /\ Quiet(b) /\ Len(txs) = b /\ wallet.tokens \in Nat /\ trade.tx \in DOMAIN txs
        /\ trade.tx = b /\ wallet.tokens = txs[b].amount
      BY <1>3, BuyFirst, Parts DEF LatestBuy
  <2>2. /\ Follows(txs, txs') /\ trade' = Idle
        /\ book'.tokens = n /\ book'.bytes = NoTx /\ book'.leg = FALSE /\ book'.id = trade.tx
        /\ waiting' = waiting \cup {[id |-> trade.tx, tx |-> NoTx]}
        /\ DOMAIN txs' = DOMAIN txs /\ Len(txs') = Len(txs)
        /\ \A j \in DOMAIN txs : txs'[j].status = txs[j].status
        /\ \A j \in DOMAIN txs : j # trade.tx => txs'[j] = txs[j]
      BY <1>3, OpenType
  <2>3. \A w \in waiting' : w.tx = NoTx
      BY <2>1, <2>2 DEF Quiet
  <2>4. monitor' = Resting
      BY <1>3, <2>1 DEF Quiet
  <2>5. Handed' \subseteq {NoTx}
      BY <2>2, <2>3, <2>4 DEF Handed, Resting
  <2>6. Carried
      BY <1>3, <2>1, PendingStays DEF Carried, OpenPosition
  <2>7. LatestBuy(b)'
      BY <1>3, <2>2, <2>5, <2>6, LatestStill DEF Idle
  <2>8. AllFull'
      BY <2>2, <2>3, <2>4 DEF AllFull, Resting
  <2>9. Honest(txs')
    <3>1. txs[trade.tx].side = "buy"
        BY <1>3, BuyUnderWay DEF Buy
    <3> QED
        BY <2>2, <3>1 DEF LegDue, Honest, Follows
  <2>10. Fill' = wallet'.tokens /\ Owed' \in Nat /\ book'.tokens <= Fill' + Short'
    <3>1. Fill' = wallet.tokens /\ txs'[book'.id].venue = txs[trade.tx].venue
        BY <2>1, <2>2 DEF Fill, Follows
    <3>2. book'.id # NoTx
        BY <2>1, <2>2, IdsOf, Parts
    <3> DEFINE f == Fill'  d == Short'  k == book'.tokens
    <3>3. f \in Nat /\ d \in Nat /\ k = n /\ n \in Nat /\ Lot \in Nat
        BY <2>1, <2>2, <3>1, ShortType, Numbers
    <3>4. txs[trade.tx].venue = "jupiter" => d = IF f < Lot THEN Lot - f ELSE 0
        BY <3>1, <3>2 DEF Short, Held, Fill
    <3>5. f = wallet'.tokens /\ (n = f \/ (n = Lot /\ txs[trade.tx].venue = "jupiter"))
        BY <1>3, <3>1
    <3> HIDE DEF f, d, k
    <3>6. k <= f + d
        BY <3>3, <3>4, <3>5
    <3> QED
        BY <3>5, <3>6, OwedType DEF f, d, k
  <2>11. LegDue'
      BY <2>1, <2>4, <2>9, <2>10, <1>3 DEF LegDue, Resting
  <2>12. BookBacked'
      BY <1>3, <2>1, <2>2, <2>10, ShortType, Backing
  <2> QED
      BY <2>7, <2>8, <2>11, <2>12
<1>4. Newest \in Nat
    BY IdsOf, Parts DEF Newest
<1> QED
    BY BuyingWays, <1>1, <1>2, <1>3, <1>4

LEMMA SoundByPrebuilding ==
    ASSUME Typed, Typed', NEW b \in Nat, Sound(b), Prebuilding
    PROVE  LatestBuy(b)' /\ AllFull' /\ LegDue' /\ BookBacked'
<1> USE DEF Sound
<1>1. PICK w \in waiting : PrebuildSigned(w) \/ PrebuildArrives(w) \/ PrebuildFails(w)
    BY DEF Prebuilding
<1>2. ~ Quiet(b) /\ w \in Task /\ (w.tx # NoTx => Sale(w.tx, txs))
    BY <1>1, Parts DEF Quiet, TasksOf
<1>3. monitor.kind = "leg" \/ monitor.pc = "receipt" => monitor.tx \in DOMAIN txs
    BY Parts DEF MonitorOf, Sale, Resting
<1>4. ASSUME PrebuildSigned(w) PROVE LatestBuy(b)' /\ AllFull' /\ LegDue' /\ BookBacked'
  <2> DEFINE n == wallet.tokens
  <2>1. /\ n \in Nat \ {0} /\ Sign("sell", n, "pumpportal")
        /\ UNCHANGED <<wallet, left, book, trade, monitor>>
        /\ waiting' = (waiting \ {w}) \cup {[w EXCEPT !.tx = Newest]}
      BY <1>4, Parts DEF PrebuildSigned, chain, files
  <2>2. Calm
      BY <2>1, CalmWays
  <2>3. LatestBuy(b)'
    <3>1. [w EXCEPT !.tx = Newest].tx = Newest
        BY <1>2 DEF Task
    <3>2. Handed' \subseteq Handed \cup {NoTx, Newest}
        BY <2>1, <3>1 DEF Handed
    <3> QED
        BY <1>2, <2>1, <3>2, LatestSells
  <2>4. /\ txs'[Newest] = Tx("sell", n, "pumpportal") /\ \A i \in DOMAIN txs : txs'[i] = txs[i]
      BY <2>1, SignedLast
  <2>5. Full(Newest, txs', wallet'.tokens)
    <3>1. Tx("sell", n, "pumpportal").status # "landed" /\ Tx("sell", n, "pumpportal").amount = n
        BY DEF Tx
    <3> QED
        BY <2>1, <2>4, <3>1 DEF Full
  <2>6. \A v \in waiting' : v.tx # NoTx => Full(v.tx, txs', wallet'.tokens)
    <3> DEFINE u == [w EXCEPT !.tx = Newest]
    <3>1. u.tx = Newest
        BY <1>2 DEF Task
    <3>2. waiting' = (waiting \ {w}) \cup {u}
        BY <2>1
    <3> HIDE DEF u
    <3> QED
        BY <2>2, <2>5, <3>1, <3>2, FullStill
  <2>7. monitor.kind = "leg" \/ monitor.pc = "receipt" => txs'[monitor.tx] = txs[monitor.tx]
      BY <1>3, <2>4
  <2>8. AllFull' /\ LegDue' /\ BookBacked'
      BY <2>1, <2>2, <2>6, <2>7, FullStill, SoundOn, NoPositionType DEF LegDue, Held
  <2> QED
      BY <2>3, <2>8
<1>5. ASSUME PrebuildArrives(w) PROVE LatestBuy(b)' /\ AllFull' /\ LegDue' /\ BookBacked'
  <2>1. /\ w.tx # NoTx /\ waiting' = waiting \ {w}
        /\ UNCHANGED <<wallet, txs, left, trade, monitor>>
        /\ book' = IF Held THEN [book EXCEPT !.bytes = w.tx, !.stale = 0] ELSE book
      BY <1>5 DEF PrebuildArrives, chain
  <2>2. /\ book'.id = book.id /\ book'.tokens = book.tokens /\ book'.leg = book.leg
        /\ book'.bytes \in {book.bytes, w.tx}
      BY <2>1, Parts DEF Position
  <2>3. Calm /\ Follows(txs, txs')
      BY <2>1, CalmWays DEF Calm
  <2>4. LatestBuy(b)'
    <3>1. Handed' \subseteq Handed \cup {NoTx}
        BY <1>1, <2>1, <2>2 DEF Handed
    <3>2. Carried
        BY <2>1, PendingStays DEF Carried
    <3> QED
        BY <1>2, <2>1, <2>3, <3>1, <3>2, LatestStill
  <2>5. AllFull' /\ LegDue' /\ BookBacked'
      BY <1>1, <2>1, <2>2, <2>3, FullStill, SoundOn, NoPositionType DEF LegDue, Held
  <2> QED
      BY <2>4, <2>5
<1>6. ASSUME PrebuildFails(w) PROVE LatestBuy(b)' /\ AllFull' /\ LegDue' /\ BookBacked'
  <2>1. /\ waiting' = waiting \ {w} /\ UNCHANGED <<wallet, txs, book, trade, monitor>>
      BY <1>6 DEF PrebuildFails, chain, files
  <2>2. Carried /\ Handed' \subseteq Handed \cup {NoTx}
      BY <2>1, PendingStays DEF Carried, Handed
  <2>3. Calm /\ Follows(txs, txs')
      BY <2>1, CalmWays DEF Calm
  <2>4. LatestBuy(b)'
      BY <1>2, <2>1, <2>2, <2>3, LatestStill
  <2>5. AllFull' /\ LegDue' /\ BookBacked'
      BY <2>1, <2>3, FullStill, SoundOn, NoPositionType DEF LegDue, Held
  <2> QED
      BY <2>4, <2>5
<1> QED
    BY <1>1, <1>4, <1>5, <1>6

LEMMA SoundByMonitor ==
    ASSUME Typed, Typed', NEW b \in Nat, Sound(b), MonitorStep
    PROVE  LatestBuy(b)' /\ AllFull' /\ LegDue' /\ BookBacked'
<1> USE DEF Sound
<1>1. ASSUME StartLeg PROVE LatestBuy(b)' /\ AllFull' /\ LegDue' /\ BookBacked'
  <2> DEFINE n == Leg
  <2>1. /\ Held /\ ~ book.leg /\ Sign("sell", n, "pumpportal")
        /\ monitor' = Selling("leg", Newest, book.tokens)
        /\ n > 0 /\ UNCHANGED <<wallet, left, book, trade, waiting>>
      BY <1>1 DEF StartLeg, chain, files
  <2>2. n \in Nat \ {0} /\ 100 * n <= wallet.tokens * LegPct
      BY <2>1, LegNumbers, Parts DEF Leg
  <2> HIDE DEF n
  <2>3. Calm
      BY <2>1, <2>2, CalmWays
  <2>4. ~ Quiet(b)
      BY <2>1, NoPositionType DEF Quiet, Held
  <2>5. LatestBuy(b)'
    <3>1. Selling("leg", Newest, book.tokens).tx = Newest
        BY DEF Selling, Resting
    <3>2. Handed' \subseteq Handed \cup {NoTx, Newest}
        BY <2>1, <3>1 DEF Handed
    <3> QED
        BY <2>1, <2>2, <2>4, <3>2, LatestSells
  <2>6. Newest \in Ids /\ Newest \in DOMAIN txs' /\ txs'[Newest] = Tx("sell", n, "pumpportal")
      BY <2>1, <2>2, SignedLast
  <2>7. txs'[Newest].amount = n /\ Sale(Newest, txs')
      BY <2>6 DEF Tx, Sale
  <2>8. /\ monitor'.kind = "leg" /\ monitor'.pc = "send" /\ monitor'.id = book.id
        /\ monitor'.tx = Newest /\ monitor'.before = book.tokens
    <3>1. book.tokens \in Nat
        BY Parts DEF Position
    <3> QED
        BY <2>1, <2>6, <2>7, <3>1, MonitorType
  <2>9. txs'[monitor'.tx].amount * 100 <= Fill * LegPct
    <3>1. wallet.tokens <= Fill /\ wallet.tokens \in Nat /\ Fill \in Nat
      <4>1. Follows(txs, txs') /\ book'.id = book.id
          BY <2>1, <2>3 DEF Calm
      <4> QED
          BY <2>1, <4>1, FillStands, Parts DEF LegDue
    <3>2. LegPct \in Nat
        BY Numbers
    <3>3. LegPct * wallet.tokens <= LegPct * Fill
        BY <3>1, <3>2, MulMono
    <3> DEFINE x == wallet.tokens * LegPct  y == Fill * LegPct
    <3>4. x <= y /\ x \in Nat /\ y \in Nat
        BY <3>1, <3>2, <3>3, MulNat, Z3
    <3>5. 100 * n <= x
        BY <2>2
    <3> HIDE DEF x, y
    <3>6. n * 100 <= y
        BY <2>2, <3>4, <3>5
    <3> QED
        BY <2>7, <2>8, <3>6 DEF y
  <2>10. book' # NoPosition
      BY <2>1, NoPositionType DEF Held
  <2> QED
      BY <2>1, <2>3, <2>5, <2>8, <2>9, <2>10, FullStill, SoundOn
<1>2. ASSUME StartExit PROVE LatestBuy(b)' /\ AllFull' /\ LegDue' /\ BookBacked'
  <2>1. PICK v \in {wallet.sol, known} :
           /\ ReadBalance(v)
           /\ IF FreshBytes THEN monitor' = Selling("exit", book.bytes, v) /\ UNCHANGED txs
              ELSE /\ wallet.tokens > 0 /\ Sign("sell", wallet.tokens, "pumpportal")
                   /\ monitor' = Selling("exit", Newest, v)
      BY <1>2 DEF StartExit
  <2>2. Held /\ UNCHANGED <<wallet, book, trade, waiting>> /\ v \in Nat
      BY <1>2, <2>1, Parts DEF StartExit, ReadBalance, chain, files
  <2>3. ~ Quiet(b)
      BY <2>2, NoPositionType DEF Quiet, Held
  <2>4. CASE FreshBytes /\ monitor' = Selling("exit", book.bytes, v) /\ UNCHANGED txs
    <3>1. Sale(book.bytes, txs) /\ book.bytes \in Ids /\ book.bytes # NoTx
        BY <2>4, Parts DEF BookOf, Position, FreshBytes
    <3>2. monitor'.tx = book.bytes /\ monitor'.kind = "exit" /\ monitor'.pc = "send"
        BY <2>2, <2>4, <3>1, MonitorType
    <3>3. Calm /\ Follows(txs, txs')
        BY <2>2, <2>4, CalmWays DEF Calm
    <3>4. LatestBuy(b)'
      <4>1. Handed' \subseteq Handed \cup {NoTx}
          BY <2>2, <3>2 DEF Handed
      <4>2. Carried
          BY <2>4, PendingStays DEF Carried
      <4> QED
          BY <2>2, <2>3, <2>4, <3>3, <4>1, <4>2, LatestStill
    <3>5. Full(monitor'.tx, txs', wallet'.tokens)
        BY <3>1, <3>2, <3>3, FullStill
    <3> QED
        BY <2>2, <3>2, <3>3, <3>4, <3>5, FullStill, SoundOn
  <2>5. CASE wallet.tokens > 0 /\ Sign("sell", wallet.tokens, "pumpportal")
        /\ monitor' = Selling("exit", Newest, v)
    <3> DEFINE n == wallet.tokens
    <3>1. n \in Nat \ {0}
        BY <2>5, Parts
    <3>2. Newest \in Ids /\ Newest \in DOMAIN txs' /\ txs'[Newest] = Tx("sell", n, "pumpportal")
        BY <2>5, <3>1, SignedLast
    <3>3. txs'[Newest].amount = n /\ txs'[Newest].status # "landed" /\ Sale(Newest, txs')
        BY <3>2 DEF Tx, Sale
    <3>4. monitor'.tx = Newest /\ monitor'.kind = "exit" /\ monitor'.pc = "send"
        BY <2>2, <2>5, <3>2, <3>3, MonitorType
    <3>5. Calm
        BY <2>2, <2>5, <3>1, CalmWays
    <3>6. LatestBuy(b)'
      <4>1. Handed' \subseteq Handed \cup {NoTx, Newest}
          BY <2>2, <3>4 DEF Handed
      <4> QED
          BY <2>2, <2>3, <2>5, <3>1, <4>1, LatestSells
    <3>7. Full(monitor'.tx, txs', wallet'.tokens)
        BY <2>2, <3>1, <3>3, <3>4 DEF Full
    <3> QED
        BY <2>2, <3>4, <3>5, <3>6, <3>7, FullStill, SoundOn
  <2> QED
      BY <2>1, <2>4, <2>5
<1>3. ASSUME Calm, Carried, Len(txs') = Len(txs), ~ Quiet(b), UNCHANGED <<trade, waiting>>,
             monitor' = Resting,
             \/ book' = NoPosition
             \/ book'.id = book.id /\ book'.tokens = book.tokens /\ book'.leg = book.leg
                /\ book'.bytes = book.bytes
      PROVE  LatestBuy(b)' /\ AllFull' /\ LegDue' /\ BookBacked'
  <2>1. Handed' \subseteq Handed \cup {NoTx}
      BY <1>3, NoPositionType DEF Handed, Resting
  <2>2. LatestBuy(b)'
      BY <1>3, <2>1, LatestStill DEF Calm
  <2>3. book'.bytes # NoTx => book'.bytes = book.bytes
      BY <1>3, NoPositionType
  <2> QED
      BY <1>3, <2>2, <2>3, FullStill, SoundOn DEF Resting
<1>4. ASSUME Calm, Carried, Len(txs') = Len(txs), ~ Quiet(b), UNCHANGED <<book, trade, waiting>>,
             monitor'.tx = monitor.tx, monitor'.kind = monitor.kind, monitor'.id = monitor.id,
             monitor'.before = monitor.before,
             monitor'.pc = "receipt" => txs'[monitor.tx].status = "landed",
             monitor.pc # "idle"
      PROVE  LatestBuy(b)' /\ AllFull' /\ LegDue' /\ BookBacked'
  <2>1. Handed' \subseteq Handed \cup {NoTx}
      BY <1>4 DEF Handed
  <2>2. LatestBuy(b)'
      BY <1>4, <2>1, LatestStill DEF Calm
  <2>3. txs'[monitor.tx].amount = txs[monitor.tx].amount
      BY <1>4, SaleUnderWay DEF Calm, Follows, Sale
  <2> QED
      BY <1>4, <2>2, <2>3, FullStill, SoundOn, NoPositionType DEF LegDue, Held
<1>5. ASSUME ExitUnbuilt PROVE LatestBuy(b)' /\ AllFull' /\ LegDue' /\ BookBacked'
  <2>1. /\ Held
        /\ AttemptFails(book.id, book.attempts + 1) /\ UNCHANGED <<wallet, txs, trade, waiting>>
      BY <1>5 DEF ExitUnbuilt, chain
  <2>2. book.id \in Ids /\ book.attempts + 1 \in 1..MaxAttempts
      BY <2>1, Parts, Numbers DEF Position, Held
  <2>3. /\ monitor' = Resting
        /\ book' = NoPosition \/ (/\ book'.id = book.id /\ book'.tokens = book.tokens
                                  /\ book'.leg = book.leg /\ book'.bytes = book.bytes)
      BY <2>1, <2>2, FailedType, Parts
  <2>4. Calm /\ Carried /\ ~ Quiet(b)
      BY <2>1, CalmWays, PendingStays, NoPositionType DEF Carried, Quiet, Held
  <2> QED
      BY <1>3, <2>1, <2>3, <2>4
<1>6. ASSUME SendSale PROVE LatestBuy(b)' /\ AllFull' /\ LegDue' /\ BookBacked'
  <2>1. PICK a \in Answers :
           /\ Send(monitor.tx, a)
           /\ IF Answered(a) THEN monitor' = [monitor EXCEPT !.pc = "confirm"] /\ UNCHANGED <<files, said>>
              ELSE SaleFails
      BY <1>6 DEF SendSale
  <2>2. monitor.pc # "idle" /\ UNCHANGED <<wallet, trade, waiting>>
      BY <1>6, <2>1 DEF SendSale, chain
  <2>3. monitor.tx \in DOMAIN txs /\ ~ Quiet(b)
      BY <2>2, SaleUnderWay DEF Sale, Quiet, Resting
  <2>4. Calm /\ Carried /\ Len(txs') = Len(txs)
    <3>1. Carried
        BY <2>1, <2>3, PendingSent DEF Carried, Handed
    <3> QED
        BY <2>1, <2>2, <2>3, <3>1, SentMoves, CalmWays
  <2>5. CASE monitor' = [monitor EXCEPT !.pc = "confirm"] /\ UNCHANGED <<files, said>>
    <3>1. monitor' = [pc |-> "confirm", kind |-> monitor.kind, id |-> monitor.id, tx |-> monitor.tx,
                      wait |-> monitor.wait, before |-> monitor.before, try |-> monitor.try]
        BY <2>2, <2>5, SaleUnderWay
    <3>2. /\ monitor'.tx = monitor.tx /\ monitor'.kind = monitor.kind /\ monitor'.id = monitor.id
          /\ monitor'.pc = "confirm" /\ monitor'.before = monitor.before
        BY <3>1
    <3> QED
        BY <1>4, <2>2, <2>3, <2>4, <2>5, <3>2 DEF files
  <2>6. CASE SaleFails
      BY <1>3, <2>2, <2>3, <2>4, <2>6, SaleFailed, Parts
  <2> QED
      BY <2>1, <2>5, <2>6
<1>7. ASSUME SaleUnconfirmed PROVE LatestBuy(b)' /\ AllFull' /\ LegDue' /\ BookBacked'
  <2>1. /\ monitor.pc # "idle" /\ SaleFails /\ UNCHANGED <<wallet, txs, left, trade, waiting>>
      BY <1>7 DEF SaleUnconfirmed, chain
  <2>2. Calm /\ Carried /\ ~ Quiet(b)
      BY <2>1, CalmWays, PendingStays DEF Carried, Quiet, Resting
  <2> QED
      BY <1>3, <2>1, <2>2, SaleFailed, Parts
<1>8. ASSUME SaleConfirmed PROVE LatestBuy(b)' /\ AllFull' /\ LegDue' /\ BookBacked'
  <2>1. /\ monitor.pc # "idle" /\ monitor' = [monitor EXCEPT !.pc = "receipt"]
        /\ txs[monitor.tx].status = "landed"
        /\ UNCHANGED <<wallet, txs, left, book, trade, waiting>>
      BY <1>8 DEF SaleConfirmed, Confirmed, chain, files
  <2>2. Calm /\ Carried /\ ~ Quiet(b)
      BY <2>1, CalmWays, PendingStays DEF Carried, Quiet, Resting
  <2>3. monitor' = [pc |-> "receipt", kind |-> monitor.kind, id |-> monitor.id, tx |-> monitor.tx,
                    wait |-> monitor.wait, before |-> monitor.before, try |-> monitor.try]
      BY <2>1, SaleUnderWay
  <2>4. /\ monitor'.tx = monitor.tx /\ monitor'.kind = monitor.kind /\ monitor'.id = monitor.id
        /\ monitor'.before = monitor.before
      BY <2>3
  <2> QED
      BY <1>4, <2>1, <2>2, <2>4
<1>9. ASSUME BookLeg \/ BookFinalLeg \/ CloseByReceipt \/ CloseByBalance
      PROVE  LatestBuy(b)' /\ AllFull' /\ LegDue' /\ BookBacked'
    BY <1>9, SoundByBooking
<1> QED
    BY <1>1, <1>2, <1>5, <1>6, <1>7, <1>8, <1>9 DEF MonitorStep

LEMMA SoundByTime ==
    ASSUME Typed, Typed', NEW b \in Nat, Sound(b),
           (\E i \in Ids : Land(i) \/ Revert(i)) \/ Rug \/ Tick \/ Restart \/ UNCHANGED vars
    PROVE  LatestBuy(b)' /\ AllFull' /\ LegDue' /\ BookBacked'
<1> USE DEF Sound
<1>1. monitor.kind = "leg" \/ monitor.pc = "receipt" => monitor.tx \in DOMAIN txs
    BY Parts DEF MonitorOf, Sale, Resting
<1>2. ASSUME Calm, Carried, Len(txs') = Len(txs), waiting' = waiting,
             trade'.pc = trade.pc, trade'.tx = trade.tx,
             book'.id = book.id, book'.tokens = book.tokens, book'.leg = book.leg,
             book'.bytes = book.bytes, Quiet(b) => Quiet(b)',
             monitor'.tx = monitor.tx, monitor'.kind = monitor.kind, monitor'.id = monitor.id,
             monitor'.before = monitor.before,
             monitor'.pc = monitor.pc
      PROVE  LatestBuy(b)' /\ AllFull' /\ LegDue' /\ BookBacked'
  <2>1. LatestBuy(b)'
    <3>1. Handed' = Handed
        BY <1>2 DEF Handed
    <3> QED
        BY <1>2, <3>1, LatestStill DEF Calm
  <2>2. /\ monitor.kind = "leg" => txs'[monitor.tx].amount = txs[monitor.tx].amount
        /\ monitor.pc = "receipt" => txs'[monitor.tx].status = "landed"
      BY <1>1, <1>2 DEF Calm, Follows, LegDue
  <2>3. Held => book' # NoPosition
      BY <1>2, NoPositionType DEF Held
  <2> QED
      BY <1>2, <2>1, <2>2, <2>3, FullStill, SoundOn DEF LegDue
<1>3. ASSUME NEW i \in Ids, Land(i) PROVE LatestBuy(b)' /\ AllFull' /\ LegDue' /\ BookBacked'
    BY <1>3, LatestLands, SoundByLanding
<1>4. ASSUME NEW i \in Ids, Revert(i) PROVE LatestBuy(b)' /\ AllFull' /\ LegDue' /\ BookBacked'
  <2>1. /\ i \in DOMAIN txs /\ txs[i].status = "sent"
        /\ txs' = [txs EXCEPT ![i].status = "failed", ![i].age = 0]
        /\ UNCHANGED <<wallet, book, trade, monitor, waiting>>
      BY <1>4 DEF Revert, Fails, Pending, chain, files
  <2>2. Calm /\ Len(txs') = Len(txs)
      BY <2>1, CalmWays, DecidedMoves
  <2>3. Carried
      BY <2>1, PendingStays DEF Carried
  <2>4. Quiet(b) => Quiet(b)'
      BY <2>1, <2>2 DEF Quiet
  <2> QED
      BY <1>2, <2>1, <2>2, <2>3, <2>4
<1>5. ASSUME Rug \/ UNCHANGED vars PROVE LatestBuy(b)' /\ AllFull' /\ LegDue' /\ BookBacked'
  <2>1. UNCHANGED <<wallet, txs, left, book, trade, monitor, waiting>>
      BY <1>5 DEF Rug, vars, chain, files
  <2>2. Calm /\ Carried /\ (Quiet(b) => Quiet(b)')
      BY <2>1, CalmWays, PendingStays DEF Carried, Quiet
  <2> QED
      BY <1>2, <2>1, <2>2
<1>6. ASSUME Tick PROVE LatestBuy(b)' /\ AllFull' /\ LegDue' /\ BookBacked'
  <2>1. UNCHANGED <<wallet, left, waiting>> /\ txs' = Aged
      BY <1>6 DEF Tick, chain
  <2>2. Calm /\ Carried
      BY <2>1, CalmWays, PendingStays DEF Carried
  <2>3. Quiet(b) => Quiet(b)'
    <3>1. book = NoPosition => book' = NoPosition
        BY <1>6, NoPositionType DEF Tick
    <3>2. monitor = Resting => monitor' = Resting
        BY <1>6 DEF Tick, Waits, Resting
    <3> QED
        BY <1>6, <2>1, <3>1, <3>2, Ticked DEF Quiet
  <2> QED
      BY <1>2, <1>6, <2>1, <2>2, <2>3, Ticked
<1>7. ASSUME Restart PROVE LatestBuy(b)' /\ AllFull' /\ LegDue' /\ BookBacked'
  <2>1. /\ txs' = txs /\ wallet' = wallet /\ trade' = Idle /\ monitor' = Resting /\ waiting' = {}
        /\ book' = Row(book) /\ book'.id = book.id /\ book'.tokens = book.tokens
        /\ book'.bytes = NoTx /\ book'.leg = book.leg
      BY <1>7, Restarted
  <2>2. Calm /\ Follows(txs, txs') /\ Carried /\ Handed' \subseteq {NoTx}
      BY <2>1, CalmWays, PendingStays DEF Calm, Carried, Handed, Resting
  <2>3. Quiet(b) => Quiet(b)'
      BY <2>1, NoPositionType DEF Quiet
  <2>4. LatestBuy(b)'
      BY <2>1, <2>2, <2>3, LatestStill DEF Idle
  <2> QED
      BY <2>1, <2>2, <2>4, SoundOn DEF Resting
<1> QED
    BY <1>3, <1>4, <1>5, <1>6, <1>7

LEMMA SoundKept ==
    ASSUME Typed, Typed', \E b \in Nat : Sound(b), [Next]_vars,
           [left'.buys # left.buys => Clear]_vars
    PROVE  \E b \in Nat : Sound(b)'
<1>1. PICK b \in Nat : Sound(b)
    OBVIOUS
<1>2. CASE Buying
  <2>1. left'.buys # left.buys => Clear
      BY DEF vars
  <2> QED
      BY <1>1, <1>2, <2>1, SoundByBuying
<1>3. CASE ~ Buying
  <2>1. LatestBuy(b)' /\ AllFull' /\ LegDue' /\ BookBacked'
      BY <1>1, <1>3, SoundByTime, SoundByPrebuilding, SoundByMonitor DEF Next
  <2> QED
      BY <2>1 DEF Sound
<1> QED
    BY <1>2, <1>3

LEMMA SoundStart ==
    ASSUME Init
    PROVE  Sound(0)
<1>1. /\ txs = <<>> /\ wallet.tokens = 0 /\ book = NoPosition /\ monitor = Resting
      /\ trade = Idle /\ waiting = {}
    BY DEF Init
<1>2. Len(txs) = 0 /\ DOMAIN txs = {}
    BY <1>1
<1>3. ~ Bought(0) /\ Quiet(0)
    BY <1>1, <1>2 DEF Bought, Quiet
<1>4. LatestBuy(0)
    BY <1>1, <1>2, <1>3 DEF LatestBuy, Idle
<1>5. AllFull
    BY <1>1, NoPositionType DEF AllFull, Resting
<1>6. LegDue
    BY <1>1, <1>2, NoPositionType DEF LegDue, Held, Resting, Honest
<1>7. BookBacked
  <2>1. Owed \in Nat /\ Short \in Nat /\ book.tokens = 0
      BY <1>1, TypedStart, OwedType, ShortType, NoPositionType
  <2> QED
      BY <1>1, <2>1, Backing
<1> QED
    BY <1>4, <1>5, <1>6, <1>7 DEF Sound

LEMMA SoundAlways == Spec /\ BuysApart => []Typed /\ [](\E b \in Nat : Sound(b))
<1> DEFINE S == \E b \in Nat : Sound(b)
<1>1. Init => S
    BY SoundStart
<1>2. Typed /\ Typed' /\ S /\ [Next]_vars /\ [left'.buys # left.buys => Clear]_vars => S'
    BY SoundKept
<1> QED
    BY <1>1, <1>2, TypedAlways, PTL DEF Spec, BuysApart

(* When the buys of a mint keep apart: whatever is lost, repeated or       *)
(* restarted, the position claims no tokens the wallet has not got, but for*)
(* those of sales that executed behind the back of the process and those   *)
(* its buy through Jupiter was quoted and did not bring.                   *)
THEOREM BookBackedApart == Spec /\ BuysApart => []BookBacked
<1>1. (\E b \in Nat : Sound(b)) => BookBacked
    BY DEF Sound
<1> QED
    BY <1>1, SoundAlways, PTL

(* When the buys of a mint keep apart: the sale of everything that closes  *)
(* the position has left nothing of the mint in the wallet, whatever the   *)
(* buy brought and however old the sale.                                   *)
THEOREM ExitsSellAllApart == Spec /\ BuysApart => ExitSellsAll
<1> DEFINE Empty == monitor.pc = "receipt" /\ monitor.kind = "exit" => wallet.tokens = 0
<1>1. (\E b \in Nat : Sound(b)) => Empty
    BY DEF Sound, AllFull, LegDue, Full
<1>2. Empty => (Held /\ ~ Held' /\ monitor.pc = "receipt"
      /\ monitor.kind = "exit" => wallet.tokens = 0)
    OBVIOUS
<1> QED
    BY <1>1, <1>2, SoundAlways, PTL DEF ExitSellsAll

-----------------------------------------------------------------------------
(* A mint bought once                                                      *)

(* Before the first buy there is nothing.                                  *)
Untouched ==
    /\ left.buys \in 0..MaxBuys
    /\ left.buys = MaxBuys => txs = <<>> /\ Clear /\ trade = Idle

(* Only a buy counts as one.                                               *)
LEMMA BuysCounted ==
    ASSUME Typed, [Next]_vars
    PROVE  \/ left'.buys = left.buys
           \/ left.buys > 0 /\ left'.buys = left.buys - 1 /\ Buying
<1>1. ASSUME NEW venue \in {"jupiter", "pumpportal"}, StartBuy(venue)
      PROVE  left.buys > 0 /\ left'.buys = left.buys - 1 /\ Buying
  <2>1. left \in Bounds /\ left.buys > 0 /\ left' = [left EXCEPT !.buys = left.buys - 1]
      BY <1>1, Parts DEF StartBuy
  <2> QED
      BY <1>1, <2>1 DEF Bounds, Buying
<1>2. ASSUME Restart PROVE left'.buys = left.buys
    BY <1>2, Restarted
<1>3. ASSUME Fault \/ left' = left PROVE left'.buys = left.buys
    BY <1>3, FaultType
<1>4. ASSUME (\E i \in Ids : Land(i) \/ Revert(i)) \/ Rug \/ Tick \/ UNCHANGED vars PROVE Fault \/ left' = left
    BY <1>4 DEF Land, Revert, Rug, Tick, vars
<1>5. ASSUME SendBuy \/ BuyUnconfirmed \/ BuyConfirmed \/ ResolveByReceipt \/ ResolveByBalance
      PROVE  Fault \/ left' = left
    BY <1>5 DEF SendBuy, Send, BuyUnconfirmed, BuyConfirmed, ResolveByReceipt, ResolveByBalance
<1>6. ASSUME Prebuilding PROVE Fault \/ left' = left
    BY <1>6 DEF Prebuilding, PrebuildSigned, PrebuildArrives, PrebuildFails
<1>7. ASSUME MonitorStep PROVE Fault \/ left' = left
  <2>1. ASSUME StartLeg \/ StartExit \/ ExitUnbuilt PROVE Fault \/ left' = left
      BY <2>1 DEF StartLeg, StartExit, ExitUnbuilt, ReadBalance
  <2>2. ASSUME SendSale \/ SaleUnconfirmed \/ SaleConfirmed PROVE Fault \/ left' = left
      BY <2>2 DEF SendSale, Send, SaleUnconfirmed, SaleConfirmed
  <2>3. ASSUME BookLeg \/ BookFinalLeg \/ CloseByReceipt \/ CloseByBalance PROVE Fault \/ left' = left
      BY <2>3 DEF BookLeg, BookFinalLeg, ReadReceipt, CloseByReceipt, CloseByBalance, Fault
  <2> QED
      BY <1>7, <2>1, <2>2, <2>3 DEF MonitorStep
<1> QED
    BY <1>1, <1>2, <1>3, <1>4, <1>5, <1>6, <1>7 DEF Next, Buying

LEMMA UntouchedKept == Typed /\ Typed' /\ Untouched /\ [Next]_vars => Untouched'
<1> SUFFICES ASSUME Typed, Typed', Untouched, [Next]_vars PROVE Untouched'
    OBVIOUS
<1>1. left.buys \in 0..MaxBuys /\ MaxBuys \in Nat
    BY Numbers DEF Untouched
<1>2. CASE left'.buys # left.buys
    BY <1>1, <1>2, BuysCounted DEF Untouched
<1>3. CASE left'.buys = left.buys /\ left.buys # MaxBuys
    BY <1>3 DEF Untouched
<1>4. CASE left'.buys = left.buys /\ left.buys = MaxBuys
  <2>1. /\ txs = <<>> /\ book = NoPosition /\ monitor = Resting /\ waiting = {} /\ wallet.tokens = 0
        /\ trade = Idle
      BY <1>4 DEF Untouched, Clear
  <2>2. /\ DOMAIN txs = {} /\ Len(txs) = 0 /\ book.id = NoTx /\ book.bytes = NoTx
        /\ disk = NoPosition
        /\ trade.pc = "idle" /\ monitor.pc = "idle"
      BY <2>1, NoPositionType, Parts DEF Idle, Resting
  <2>3. ~ Buying
    <3>1. ASSUME NEW venue \in {"jupiter", "pumpportal"}, StartBuy(venue) PROVE FALSE
      <4>1. left \in Bounds /\ left' = [left EXCEPT !.buys = left.buys - 1]
          BY <3>1, Parts DEF StartBuy
      <4> QED
          BY <1>1, <1>4, <4>1 DEF Bounds
    <3> QED
        BY <2>2, <3>1 DEF Buying, SendBuy, BuyUnconfirmed, BuyConfirmed, ResolveByReceipt,
        ResolveByBalance
  <2>4. ~ Prebuilding
      BY <2>1 DEF Prebuilding
  <2>5. ~ MonitorStep
      BY <2>2 DEF MonitorStep, StartLeg, StartExit, ExitUnbuilt, SendSale, SaleUnconfirmed,
      SaleConfirmed,
                  BookLeg, BookFinalLeg, CloseByReceipt, CloseByBalance, Held
  <2>6. ~ \E i \in Ids : Land(i) \/ Revert(i)
      BY <2>2 DEF Land, Revert, Executes, Fails, Pending
  <2>7. ASSUME Rug \/ UNCHANGED vars
        PROVE  UNCHANGED <<txs, wallet, book, monitor, waiting, trade>>
      BY <2>7 DEF Rug, vars, chain, files
  <2>8. ASSUME Tick PROVE UNCHANGED <<txs, wallet, book, monitor, waiting, trade>>
    <3>1. UNCHANGED <<wallet, waiting, book, trade, monitor>>
        BY <2>1, <2>2, <2>8 DEF Tick, Waits, chain
    <3>2. TxsOf(txs') /\ Len(txs') = 0
        BY <2>2, <2>8, Ticked
    <3>3. txs' = <<>>
        BY <3>2 DEF TxsOf
    <3> QED
        BY <2>1, <3>1, <3>3
  <2>9. ASSUME Restart PROVE UNCHANGED <<txs, wallet, book, monitor, waiting, trade>>
      BY <2>1, <2>2, <2>9, Restarted DEF Restart
  <2>10. UNCHANGED <<txs, wallet, book, monitor, waiting, trade>>
      BY <2>3, <2>4, <2>5, <2>6, <2>7, <2>8, <2>9 DEF Next
  <2>11. Clear'
      BY <2>1, <2>2, <2>10 DEF Clear, Pending
  <2> QED
      BY <1>1, <1>4, <2>1, <2>10, <2>11 DEF Untouched
<1> QED
    BY <1>2, <1>3, <1>4

(* A mint that is bought once: its one buy keeps apart.                    *)
LEMMA OneBuyApart == ASSUME MaxBuys = 1 PROVE Spec => BuysApart
<1>1. Init => Untouched
  <2> SUFFICES ASSUME Init PROVE Untouched
      OBVIOUS
  <2>1. txs = <<>> /\ left.buys = MaxBuys /\ wallet.tokens = 0
      BY DEF Init
  <2> QED
      BY <2>1, Numbers DEF Init, Untouched, Clear
<1>2. Typed /\ Untouched /\ [Next]_vars => [left'.buys # left.buys => Clear]_vars
  <2> SUFFICES ASSUME Typed, Untouched, [Next]_vars, left'.buys # left.buys PROVE Clear
      OBVIOUS
  <2>1. left.buys > 0 /\ left.buys \in 0..1
      BY BuysCounted DEF Untouched
  <2> QED
      BY <2>1 DEF Untouched
<1> QED
    BY <1>1, <1>2, TypedAlways, UntouchedKept, PTL DEF Spec, BuysApart

(* For a mint that is bought once: the position claims no tokens the wallet*)
(* has not got, but for those of sales that executed behind the back of the*)
(* process and those its buy through Jupiter was quoted and did not bring. *)
THEOREM BookAlwaysBacked == ASSUME MaxBuys = 1 PROVE Spec => []BookBacked
BY BookBackedApart, OneBuyApart, PTL

(* For a mint that is bought once: when the sale of everything closes the  *)
(* position, the wallet is empty of the mint.                              *)
THEOREM ExitsSellAll == ASSUME MaxBuys = 1 PROVE Spec => ExitSellsAll
BY ExitsSellAllApart, OneBuyApart, PTL
=============================================================================
