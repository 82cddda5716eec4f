------------------------- MODULE PaperSessionProofs --------------------------
(***************************************************************************)
(* Proofs about a paper session, whatever the prices, sizes and breakers   *)
(* do and wherever the process dies: a lot is closed in the logs once      *)
(* (Filed follows it from the book and its file through the sale in        *)
(* progress into the two logs), the types (Typed), the venue covers the    *)
(* book (Covered), a buy is paid in full, and the breakers hold over days  *)
(* (Bands) and over losing runs (Streaks).                                 *)
(***************************************************************************)
EXTENDS PaperSession, SequenceTheorems, ArithmeticProofs, TLAPS

(* The rows of a book: what most of their fields hold does not matter.     *)
Rows(b) ==
    /\ b = [m \in Mints |-> b[m]]
    /\ \A m \in Mints :
          b[m] = [lot |-> b[m].lot, cost |-> b[m].cost, tokens |-> b[m].tokens,
                  entry |-> b[m].entry, cur |-> b[m].cur, hit |-> b[m].hit, seen |-> b[m].seen,
                  updated |-> b[m].updated]

(* A file d has the lots of the book b, each once, all below n; a position *)
(* dropped empty stays in the file until the next save.                    *)
BookFiled(b, d, n) ==
    /\ n \in Nat
    /\ Rows(b) /\ Rows(d)
    /\ \A m \in Mints : b[m].lot \in {0, d[m].lot} /\ d[m].lot \in 0..n
    /\ \A m, k \in Mints : d[m].lot = d[k].lot /\ m # k => d[m].lot = 0

Trade == [lot : Nat, final : BOOLEAN, won : BOOLEAN, at : Nat]

(* A lot was closed in a log; a lot has a row in the file.                 *)
Logged(log, lot) == \E i \in DOMAIN log : log[i].final /\ log[i].lot = lot
OnDisk(d, lot)   == \E m \in Mints : d[m].lot = lot

(* A log closes no lot twice, and none that is still on the disk.          *)
LogFiled(log, d, n) ==
    /\ log \in Seq(Trade) /\ \A i \in DOMAIN log : log[i].lot <= n
    /\ \A i, j \in DOMAIN log :
          log[i].final /\ log[j].final /\ log[i].lot = log[j].lot /\ log[i].lot > 0 => i = j
    /\ \A i \in DOMAIN log : log[i].final /\ log[i].lot > 0 => ~ OnDisk(d, log[i].lot)

(* A sale in progress: before its trade is written, a close is taken off   *)
(* the disk, and it is in no log it has not reached.                       *)
SaleFiled(o, b, d, n, j, r) ==
    /\ o = [kind |-> "sell", mint |-> o.mint, level |-> o.level, at |-> o.at, record |-> o.record]
    /\ o.mint \in Mints /\ o.at \in {"sold", "emptied", "dropped", "jsonl", "rows"}
    /\ o.record \in Trade /\ o.record.lot \in 1..n
    /\ o.at \in {"sold", "emptied"} =>
          b[o.mint].lot = o.record.lot /\ d[o.mint].lot = o.record.lot
    /\ o.at \in {"emptied", "dropped"} => o.record.final
    /\ o.at = "rows" => ~ o.record.final
    /\ o.record.final /\ o.at \in {"dropped", "jsonl"} =>
          /\ ~ OnDisk(d, o.record.lot) /\ ~ Logged(r, o.record.lot)
          /\ o.at = "dropped" => ~ Logged(j, o.record.lot)

(* A buy in progress.                                                      *)
BuyFiled(o) == o.kind = "buy" /\ o.mint \in Mints

Filed ==
    /\ now \in Nat
    /\ BookFiled(book, disk, lots) /\ LogFiled(jsonl, disk, lots) /\ LogFiled(rows, disk, lots)
    /\ op = Idle \/ BuyFiled(op) \/ SaleFiled(op, book, disk, lots, jsonl, rows)

-----------------------------------------------------------------------------
(* Logs                                                                    *)

(* An entry of a log.                                                      *)
LEMMA EntryOf ==
    ASSUME NEW S, NEW log \in Seq(S), NEW i \in DOMAIN log
    PROVE  log[i] \in S
OBVIOUS

(* The end of a log that grows by a trade.                                 *)
LEMMA Grows ==
    ASSUME NEW log \in Seq(Trade), NEW t \in Trade
    PROVE  /\ Append(log, t) \in Seq(Trade)
           /\ DOMAIN Append(log, t) = DOMAIN log \cup {Len(log) + 1}
           /\ Append(log, t)[Len(log) + 1] = t /\ Len(log) + 1 \notin DOMAIN log
           /\ \A i \in DOMAIN log : Append(log, t)[i] = log[i]
OBVIOUS

(* Writing a trade keeps a log in order, if its lot was not closed there.  *)
LEMMA LogKept ==
    ASSUME NEW log, NEW d, NEW n, LogFiled(log, d, n), NEW t \in Trade, t.lot <= n,
           t.final => ~ Logged(log, t.lot) /\ ~ OnDisk(d, t.lot)
    PROVE  LogFiled(Append(log, t), d, n)
<1> DEFINE end == Len(log) + 1  new == Append(log, t)
<1>1. /\ new \in Seq(Trade) /\ DOMAIN new = DOMAIN log \cup {end} /\ new[end] = t
      /\ end \notin DOMAIN log /\ \A i \in DOMAIN log : new[i] = log[i]
    BY Grows DEF LogFiled
<1> HIDE DEF end, new
<1>2. \A i \in DOMAIN new : new[i].lot <= n
    BY <1>1 DEF LogFiled
<1>3. \A i, j \in DOMAIN new :
        new[i].final /\ new[j].final /\ new[i].lot = new[j].lot /\ new[i].lot > 0 => i = j
    BY <1>1 DEF LogFiled, Logged
<1>4. \A i \in DOMAIN new : new[i].final /\ new[i].lot > 0 => ~ OnDisk(d, new[i].lot)
    BY <1>1 DEF LogFiled
<1> QED
    BY <1>1, <1>2, <1>3, <1>4 DEF LogFiled, new

(* A log stays in order while no lot that was numbered before comes back   *)
(* to the disk.                                                            *)
LEMMA LogUndisturbed ==
    ASSUME NEW log, NEW d, NEW n \in Nat, NEW e, NEW k \in Nat, LogFiled(log, d, n), n <= k,
           \A m \in Mints : e[m].lot \in {0, n + 1} \/ e[m].lot = d[m].lot
    PROVE  LogFiled(log, e, k)
<1>1. \A i \in DOMAIN log : log[i].lot \in Nat /\ log[i].lot <= n
  <2>1. \A i \in DOMAIN log : log[i] \in Trade
    BY EntryOf DEF LogFiled
  <2> QED
    BY <2>1 DEF LogFiled, Trade
<1>2. \A i \in DOMAIN log : log[i].final /\ log[i].lot > 0 => ~ OnDisk(e, log[i].lot)
    BY <1>1 DEF LogFiled, OnDisk
<1> QED
    BY <1>1, <1>2 DEF LogFiled

-----------------------------------------------------------------------------
(* Rows                                                                    *)

IsRow(r) ==
    r = [lot |-> r.lot, cost |-> r.cost, tokens |-> r.tokens, entry |-> r.entry,
         cur |-> r.cur, hit |-> r.hit, seen |-> r.seen, updated |-> r.updated]

(* A row after a restart.                                                  *)
LEMMA ReadRow ==
    ASSUME NEW r, IsRow(r), NEW s, s = [r EXCEPT !.seen = {}]
    PROVE  IsRow(s) /\ s.lot = r.lot
<1>1. s = [lot |-> r.lot, cost |-> r.cost, tokens |-> r.tokens, entry |-> r.entry, cur |-> r.cur,
           hit |-> r.hit, seen |-> {}, updated |-> r.updated]
    BY DEF IsRow
<1> QED
    BY <1>1 DEF IsRow

(* A book in which one row was replaced.                                   *)
LEMMA RowsReplaced ==
    ASSUME NEW b, Rows(b), NEW k \in Mints, NEW r, IsRow(r),
           NEW c, c = [b EXCEPT ![k] = r]
    PROVE  Rows(c) /\ c[k] = r /\ \A m \in Mints : m # k => c[m] = b[m]
BY DEF Rows, IsRow

(* A book without new lots that is saved.                                  *)
LEMMA SavedBook ==
    ASSUME NEW b, NEW d, NEW n, BookFiled(b, d, n), NEW c, Rows(c),
           \A m \in Mints : c[m].lot \in {0, b[m].lot}
    PROVE  BookFiled(c, c, n)
<1>1. \A m \in Mints : c[m].lot \in {0, d[m].lot} /\ d[m].lot \in 0..n
    BY DEF BookFiled
<1>2. n \in Nat /\ \A m, k \in Mints : d[m].lot = d[k].lot /\ m # k => d[m].lot = 0
    BY DEF BookFiled
<1>3. \A m \in Mints : c[m].lot \in 0..n
    BY <1>1, <1>2
<1>4. \A m, k \in Mints : c[m].lot = c[k].lot /\ m # k => c[m].lot = 0
    BY <1>1, <1>2
<1> QED
    BY <1>2, <1>3, <1>4 DEF BookFiled

-----------------------------------------------------------------------------
(* Steps                                                                   *)

(* A step that writes nothing, whose book has no lot that is not filed.    *)
Aside ==
    /\ UNCHANGED <<lots, disk, jsonl, rows>> /\ now' \in Nat
    /\ Rows(book') /\ \A m \in Mints : book'[m].lot \in {0, book[m].lot, disk[m].lot}

(* Such a step keeps the books in order.                                   *)
LEMMA AsideKept ==
    ASSUME Filed, Aside
    PROVE  BookFiled(book', disk', lots') /\ LogFiled(jsonl', disk', lots') /\ LogFiled(rows', disk', lots')
BY DEF Filed, Aside, BookFiled

(* Each step keeps the invariant.                                          *)
LEMMA FiledKept == Filed /\ [Next]_vars => Filed'
<1> SUFFICES ASSUME Filed, [Next]_vars PROVE Filed'
    OBVIOUS
<1>0. now \in Nat /\ lots \in Nat /\ Rows(book) /\ Rows(disk)
    BY DEF Filed, BookFiled
<1>1. ASSUME Aside, op' = Idle \/ BuyFiled(op') PROVE Filed'
    BY <1>1, AsideKept DEF Filed, Aside
<1>2. CASE RejectToken \/ Tick
    BY <1>0, <1>1, <1>2 DEF RejectToken, Tick, Aside, trades, session
<1>17. CASE UNCHANGED vars
    BY <1>17 DEF Filed, vars, trades, session
<1>3. ASSUME NEW m \in Mints, BuyFails(m) PROVE Filed'
    BY <1>0, <1>1, <1>3 DEF BuyFails, Buy, Aside, trades
<1>4. ASSUME NEW m \in Mints, NEW p \in SpotPrices, BuyFills(m, p) PROVE Filed'
  <2>1. op' = op \/ op' = [kind |-> "buy", mint |-> m, sol |-> SizeOf, at |-> "filled"]
    BY <1>4 DEF BuyFills
  <2>2. op' = Idle \/ BuyFiled(op')
    BY <1>4, <2>1 DEF BuyFiled, BuyFills, Buy
  <2>3. Aside
    BY <1>0, <1>4 DEF BuyFills, Buy, Aside, trades
  <2> QED
    BY <1>1, <2>2, <2>3
<1>5. CASE OpenPosition
  <2> DEFINE k == op.mint
             new == [NoRow EXCEPT !.lot = lots + 1, !.cost = op.sol, !.tokens = held[k],
                        !.entry = (op.sol * 100) \div held[k], !.cur = (op.sol * 100) \div held[k]]
  <2>1. /\ book' = [book EXCEPT ![k] = new] /\ disk' = book' /\ lots' = lots + 1 /\ op' = Idle
        /\ UNCHANGED <<now, jsonl, rows>>
    BY <1>5 DEF OpenPosition, trades
  <2>2. k \in Mints
    <3>1. op.kind = "buy"
      BY <1>5 DEF OpenPosition
    <3> QED
      BY <3>1 DEF Filed, BuyFiled, SaleFiled, Idle
  <2>3. IsRow(new) /\ new.lot = lots + 1
    <3> DEFINE n == lots + 1  c == op.sol  h == held[k]  e == (op.sol * 100) \div held[k]
    <3>1. new = [NoRow EXCEPT !.lot = n, !.cost = c, !.tokens = h, !.entry = e, !.cur = e]
      OBVIOUS
    <3> HIDE DEF new, n, c, h, e
    <3>2. new = [lot |-> n, cost |-> c, tokens |-> h, entry |-> e, cur |-> e,
                 hit |-> {}, seen |-> {}, updated |-> FALSE]
      BY <3>1 DEF NoRow
    <3>3. IsRow(new) /\ new.lot = n
      BY <3>2 DEF IsRow
    <3> QED
      BY <3>3 DEF n
  <2> HIDE DEF new, k
  <2>4. Rows(book') /\ book'[k].lot = lots + 1 /\ \A m \in Mints : m # k => book'[m].lot = book[m].lot
    <3>1. Rows(book') /\ book'[k] = new /\ \A m \in Mints : m # k => book'[m] = book[m]
      BY <1>0, <2>1, <2>2, <2>3 DEF Rows, IsRow
    <3> QED
      BY <2>3, <3>1
  <2>5. BookFiled(book', disk', lots')
    BY <1>0, <2>1, <2>2, <2>4 DEF Filed, BookFiled
  <2>6. \A m \in Mints : disk'[m].lot \in {0, lots + 1} \/ disk'[m].lot = disk[m].lot
    BY <2>1, <2>4 DEF Filed, BookFiled
  <2>7. LogFiled(jsonl', disk', lots') /\ LogFiled(rows', disk', lots')
    <3>1. LogFiled(jsonl, disk, lots) /\ LogFiled(rows, disk, lots) /\ lots' \in Nat /\ lots <= lots'
      BY <1>0, <2>1 DEF Filed
    <3>2. jsonl' = jsonl /\ rows' = rows
      BY <2>1
    <3> QED
      BY <1>0, <2>6, <3>1, <3>2, LogUndisturbed
  <2> QED
    BY <1>0, <2>1, <2>5, <2>7 DEF Filed
<1>6. ASSUME NEW m \in Mints, NEW level, SellFails(m, level) PROVE Filed'
    BY <1>0, <1>1, <1>6 DEF SellFails, MaySell, Aside, trades
<1>7. ASSUME NEW m \in Mints, NEW level, NEW stampede, SellFills(m, level, stampede) PROVE Filed'
  <2>1. /\ UNCHANGED <<now, book, disk, lots, jsonl, rows>> /\ book[m].lot # 0
        /\ \E got : op' = [kind |-> "sell", mint |-> m, level |-> level, at |-> "sold",
                           record |-> [lot |-> book[m].lot, final |-> Empties(m, level),
                                       won |-> got > Basis(m, level), at |-> now]]
    BY <1>7 DEF SellFills, MaySell, trades
  <2>2. PICK got : op' = [kind |-> "sell", mint |-> m, level |-> level, at |-> "sold",
                          record |-> [lot |-> book[m].lot, final |-> Empties(m, level),
                                      won |-> got > Basis(m, level), at |-> now]]
    BY <2>1
  <2>3. Empties(m, level) \in BOOLEAN /\ (got > Basis(m, level)) \in BOOLEAN
    BY DEF Empties
  <2>4. book[m].lot \in 1..lots /\ disk[m].lot = book[m].lot
    BY <2>1 DEF Filed, BookFiled
  <2>5. op'.record \in Trade
    BY <1>0, <2>2, <2>3, <2>4 DEF Trade
  <2>6. SaleFiled(op', book', disk', lots', jsonl', rows')
    BY <2>1, <2>2, <2>4, <2>5 DEF SaleFiled
  <2> QED
    BY <1>0, <2>1, <2>6 DEF Filed
<1>8. ASSUME op.kind = "sell" PROVE SaleFiled(op, book, disk, lots, jsonl, rows)
    BY <1>8 DEF Filed, BuyFiled, Idle
<1>9. CASE DropFromBook
  <2> DEFINE k == op.mint
  <2>1. /\ op.kind = "sell" /\ op.at \in {"sold", "emptied"} /\ op.record.final
        /\ book' = [book EXCEPT ![k] = NoRow] /\ disk' = book'
        /\ op' = [op EXCEPT !.at = "dropped"] /\ UNCHANGED <<now, lots, jsonl, rows>>
    BY <1>9 DEF DropFromBook, Closing, trades
  <2>2. k \in Mints /\ op.record \in Trade /\ op.record.lot \in 1..lots /\ disk[k].lot = op.record.lot
    BY <1>8, <2>1 DEF SaleFiled
  <2>3. op' = [kind |-> "sell", mint |-> k, level |-> op.level, at |-> "dropped", record |-> op.record]
    <3>1. op = [kind |-> "sell", mint |-> k, level |-> op.level, at |-> op.at, record |-> op.record]
      BY <1>8, <2>1 DEF SaleFiled
    <3> QED
      BY <2>1, <3>1
  <2> HIDE DEF k
  <2>4. Rows(book') /\ book'[k].lot = 0 /\ \A m \in Mints : m # k => book'[m].lot = book[m].lot
    BY <1>0, <2>1, <2>2 DEF Rows, NoRow
  <2>5. BookFiled(book', disk', lots')
    BY <1>0, <2>1, <2>2, <2>4 DEF Filed, BookFiled
  <2>6. \A m \in Mints : disk'[m].lot \in {0, lots + 1} \/ disk'[m].lot = disk[m].lot
    BY <2>1, <2>4 DEF Filed, BookFiled
  <2>7. LogFiled(jsonl', disk', lots') /\ LogFiled(rows', disk', lots')
    <3>1. LogFiled(jsonl, disk, lots) /\ LogFiled(rows, disk, lots) /\ lots' \in Nat /\ lots <= lots'
      BY <1>0, <2>1 DEF Filed
    <3>2. jsonl' = jsonl /\ rows' = rows
      BY <2>1
    <3> QED
      BY <1>0, <2>6, <3>1, <3>2, LogUndisturbed
  <2>8. ~ OnDisk(disk', op.record.lot)
    BY <2>1, <2>2, <2>4 DEF Filed, BookFiled, OnDisk
  <2>9. ~ Logged(jsonl, op.record.lot) /\ ~ Logged(rows, op.record.lot)
    BY <2>2 DEF Filed, LogFiled, OnDisk, Logged
  <2>10. SaleFiled(op', book', disk', lots', jsonl', rows')
    <3>1. /\ op'.kind = "sell" /\ op'.mint = k /\ op'.level = op.level /\ op'.at = "dropped"
          /\ op'.record = op.record
      BY <2>3
    <3>2. lots' = lots /\ jsonl' = jsonl /\ rows' = rows
      BY <2>1
    <3> HIDE <2>3
    <3> QED
      BY <2>1, <2>2, <2>3, <2>8, <2>9, <3>1, <3>2 DEF SaleFiled
  <2> QED
    BY <1>0, <2>1, <2>5, <2>7, <2>10 DEF Filed
<1>10. CASE LogJsonl
  <2>1. /\ op.kind = "sell" /\ op.at \in {"sold", "dropped"} /\ (op.record.final <=> op.at = "dropped")
        /\ jsonl' = jsonl \/ jsonl' = Append(jsonl, op.record)
        /\ op' = [op EXCEPT !.at = "jsonl"] /\ UNCHANGED <<now, lots, rows, book, disk>>
    BY <1>10 DEF LogJsonl, AppendJsonl
  <2>2. SaleFiled(op, book, disk, lots, jsonl, rows)
    BY <1>8, <2>1
  <2>3. op' = [kind |-> "sell", mint |-> op.mint, level |-> op.level, at |-> "jsonl", record |-> op.record]
    <3>1. op = [kind |-> "sell", mint |-> op.mint, level |-> op.level, at |-> op.at, record |-> op.record]
      BY <2>2 DEF SaleFiled
    <3> QED
      BY <2>1, <3>1
  <2>4. LogFiled(jsonl', disk, lots)
    <3>1. LogFiled(Append(jsonl, op.record), disk, lots)
      <4>1. LogFiled(jsonl, disk, lots) /\ op.record \in Trade /\ op.record.lot <= lots
        BY <1>0, <2>2 DEF Filed, SaleFiled
      <4>2. op.record.final => ~ Logged(jsonl, op.record.lot) /\ ~ OnDisk(disk, op.record.lot)
        BY <2>1, <2>2 DEF SaleFiled
      <4> QED
        BY <4>1, <4>2, LogKept
    <3> QED
      BY <2>1, <3>1 DEF Filed
  <2>5. SaleFiled(op', book', disk', lots', jsonl', rows')
    BY <2>1, <2>2, <2>3 DEF SaleFiled
  <2> QED
    BY <1>0, <2>1, <2>4, <2>5 DEF Filed
<1>11. CASE LogRow
  <2>1. /\ op.kind = "sell" /\ op.at = "jsonl"
        /\ rows' = rows \/ rows' = Append(rows, op.record)
        /\ UNCHANGED <<now, lots, jsonl, book, disk>>
        /\ op' = Idle \/ (~ op.record.final /\ op' = [op EXCEPT !.at = "rows"])
    BY <1>11 DEF LogRow, Selling, InsertRow, CountClose
  <2>2. SaleFiled(op, book, disk, lots, jsonl, rows)
    BY <1>8, <2>1
  <2>3. LogFiled(rows', disk, lots)
    <3>1. LogFiled(Append(rows, op.record), disk, lots)
      BY <2>1, <2>2, LogKept DEF Filed, SaleFiled
    <3> QED
      BY <2>1, <3>1 DEF Filed
  <2>4. CASE ~ op.record.final /\ op' = [op EXCEPT !.at = "rows"]
    <3>1. op = [kind |-> "sell", mint |-> op.mint, level |-> op.level, at |-> op.at, record |-> op.record]
      BY <2>2 DEF SaleFiled
    <3>2. op' = [kind |-> "sell", mint |-> op.mint, level |-> op.level, at |-> "rows", record |-> op.record]
      BY <2>4, <3>1
    <3>3. SaleFiled(op', book', disk', lots', jsonl', rows')
      BY <2>1, <2>2, <2>4, <3>2 DEF SaleFiled
    <3> QED
      BY <1>0, <2>1, <2>3, <3>3 DEF Filed
  <2> QED
    BY <1>0, <2>1, <2>3, <2>4 DEF Filed
<1>12. CASE BookLeg
  <2> DEFINE k == op.mint
  <2>1. /\ book' = [book EXCEPT ![k].tokens = Left(op.level, @), ![k].cost = Left(op.level, @),
                                ![k].hit = @ \cup {op.level}]
        /\ disk' = book' /\ op' = Idle /\ UNCHANGED <<now, lots, jsonl, rows>>
        /\ op.kind = "sell"
    BY <1>12 DEF BookLeg, Selling, trades
  <2>2. k \in Mints
    BY <1>8, <2>1 DEF SaleFiled
  <2> HIDE DEF k
  <2>3. Rows(book') /\ \A m \in Mints : book'[m].lot = book[m].lot
    <3> DEFINE q == book[k]  x == Left(op.level, q.tokens)  y == Left(op.level, q.cost)
               z == q.hit \cup {op.level}  r == [q EXCEPT !.tokens = x, !.cost = y, !.hit = z]
    <3>1. IsRow(q)
      BY <1>0, <2>2 DEF Rows, IsRow
    <3>2. book' = [book EXCEPT ![k] = r]
      BY <2>1
    <3> HIDE DEF q, x, y, z
    <3>4. r = [q EXCEPT !.tokens = x, !.cost = y, !.hit = z]
      OBVIOUS
    <3> HIDE DEF r
    <3>3. IsRow(r) /\ r.lot = q.lot
      <4>1. r = [lot |-> q.lot, cost |-> y, tokens |-> x, entry |-> q.entry, cur |-> q.cur,
                 hit |-> z, seen |-> q.seen, updated |-> q.updated]
        BY <3>1, <3>4 DEF IsRow
      <4> QED
        BY <4>1 DEF IsRow
    <3>5. Rows(book') /\ book'[k] = r /\ \A m \in Mints : m # k => book'[m] = book[m]
      BY <1>0, <2>2, <3>2, <3>3, SMT DEF Rows, IsRow
    <3> QED
      BY <3>3, <3>5 DEF q
  <2>4. BookFiled(book', disk', lots')
    <3>1. BookFiled(book', book', lots)
      BY <2>3, SavedBook DEF Filed
    <3> QED
      BY <2>1, <3>1
  <2>5. \A m \in Mints : disk'[m].lot \in {0, lots + 1} \/ disk'[m].lot = disk[m].lot
    BY <2>1, <2>3 DEF Filed, BookFiled
  <2>6. LogFiled(jsonl', disk', lots') /\ LogFiled(rows', disk', lots')
    <3>1. LogFiled(jsonl, disk, lots) /\ LogFiled(rows, disk, lots) /\ lots' = lots
      BY <2>1 DEF Filed
    <3>2. jsonl' = jsonl /\ rows' = rows
      BY <2>1
    <3> QED
      BY <1>0, <2>5, <3>1, <3>2, LogUndisturbed
  <2> QED
    BY <1>0, <2>1, <2>4, <2>6 DEF Filed
<1>13. ASSUME NEW m \in Mints, NEW p \in Quotes, UpdatePrice(m, p) PROVE Filed'
  <2>1. /\ book' = book \/ book' = [book EXCEPT ![m].cur = p, ![m].seen = @ \cup {p}, ![m].updated = TRUE]
        /\ op' = Idle /\ UNCHANGED <<now, disk, lots, jsonl, rows>>
    BY <1>13 DEF UpdatePrice, AcceptPrice, trades
  <2>2. Rows(book') /\ \A n \in Mints : book'[n].lot = book[n].lot
    <3> DEFINE r == [book[m] EXCEPT !.cur = p, !.seen = @ \cup {p}, !.updated = TRUE]
    <3>1. IsRow(book[m])
      BY <1>0 DEF Rows, IsRow
    <3> DEFINE q == book[m]  y == q.seen \cup {p}
    <3>4. r = [q EXCEPT !.cur = p, !.seen = y, !.updated = TRUE]
      BY <3>1 DEF IsRow
    <3>2. IsRow(r) /\ r.lot = book[m].lot
      <4> HIDE DEF q, r, y
      <4>1. IsRow(q)
        BY <3>1 DEF q
      <4>2. r = [lot |-> q.lot, cost |-> q.cost, tokens |-> q.tokens, entry |-> q.entry,
                 cur |-> p, hit |-> q.hit, seen |-> y, updated |-> TRUE]
        BY <3>4, <4>1 DEF IsRow
      <4>3. IsRow(r) /\ r.lot = q.lot
        BY <4>2 DEF IsRow
      <4> QED
        BY <4>3 DEF q
    <3>3. book' = book \/ book' = [book EXCEPT ![m] = r]
      BY <2>1
    <3> HIDE DEF r
    <3> QED
      BY <1>0, <3>2, <3>3, RowsReplaced
  <2> QED
    BY <1>0, <1>1, <2>1, <2>2 DEF Aside
<1>14. CASE Crash
  <2>1. /\ book' = [m \in Mints |-> [disk[m] EXCEPT !.seen = {}]] /\ op' = Idle
        /\ UNCHANGED <<now, disk, lots, jsonl, rows>>
    BY <1>14 DEF Crash, LogRestart
  <2>2. \A m \in Mints : IsRow(book'[m]) /\ book'[m].lot = disk[m].lot
    <3> TAKE m \in Mints
    <3>1. IsRow(disk[m])
      BY <1>0 DEF Rows, IsRow
    <3>2. book'[m] = [disk[m] EXCEPT !.seen = {}]
      BY <2>1
    <3> QED
      BY <3>1, <3>2, ReadRow
  <2>4. Rows(book')
    <3>1. book' = [m \in Mints |-> book'[m]]
      BY <2>1
    <3> QED
      BY <2>2, <3>1 DEF Rows, IsRow
  <2>3. \A m \in Mints : book'[m].lot = disk[m].lot
    BY <2>2
  <2> QED
    BY <1>0, <1>1, <2>1, <2>3, <2>4 DEF Aside
<1>15. CASE EmptyByLeg
  <2> DEFINE k == op.mint  q == book[k]  y == Left(op.level, q.cost)  z == q.hit \cup {op.level}
             r == [q EXCEPT !.tokens = 0, !.cost = y, !.hit = z]
  <2>1. /\ book' = [book EXCEPT ![k].tokens = 0, ![k].cost = Left(op.level, @),
                                ![k].hit = @ \cup {op.level}]
        /\ disk' = book' /\ op' = [op EXCEPT !.at = "emptied"] /\ UNCHANGED <<now, lots, jsonl, rows>>
        /\ op.kind = "sell" /\ op.at = "sold" /\ op.record.final
    BY <1>15 DEF EmptyByLeg, Selling, trades
  <2>2. k \in Mints /\ SaleFiled(op, book, disk, lots, jsonl, rows)
    BY <1>8, <2>1 DEF SaleFiled
  <2>3. op' = [kind |-> "sell", mint |-> k, level |-> op.level, at |-> "emptied", record |-> op.record]
    <3>1. op = [kind |-> "sell", mint |-> k, level |-> op.level, at |-> op.at, record |-> op.record]
      BY <2>2 DEF SaleFiled
    <3> QED
      BY <2>1, <3>1
  <2>12. book[k].lot = op.record.lot
    BY <2>1, <2>2 DEF SaleFiled
  <2>4. book' = [book EXCEPT ![k] = r]
    BY <2>1
  <2>5. IsRow(q)
    BY <1>0, <2>2 DEF Rows, IsRow
  <2> HIDE DEF k, q, y, z
  <2>13. r = [q EXCEPT !.tokens = 0, !.cost = y, !.hit = z]
    OBVIOUS
  <2> HIDE DEF r
  <2>10. IsRow(r) /\ r.lot = q.lot
    <3>1. r = [lot |-> q.lot, cost |-> y, tokens |-> 0, entry |-> q.entry, cur |-> q.cur,
               hit |-> z, seen |-> q.seen, updated |-> q.updated]
      BY <2>5, <2>13 DEF IsRow
    <3> QED
      BY <3>1 DEF IsRow
  <2>14. Rows(book') /\ book'[k] = r /\ \A m \in Mints : m # k => book'[m] = book[m]
    BY <1>0, <2>2, <2>4, <2>10, SMT DEF Rows, IsRow
  <2>11. Rows(book') /\ \A m \in Mints : book'[m].lot = book[m].lot
    BY <2>10, <2>14 DEF q
  <2>6. BookFiled(book', disk', lots')
    <3>1. BookFiled(book', book', lots)
      BY <2>11, SavedBook DEF Filed
    <3> QED
      BY <2>1, <3>1
  <2>7. \A m \in Mints : disk'[m].lot \in {0, lots + 1} \/ disk'[m].lot = disk[m].lot
    BY <2>1, <2>11 DEF Filed, BookFiled
  <2>8. LogFiled(jsonl', disk', lots') /\ LogFiled(rows', disk', lots')
    <3>1. LogFiled(jsonl, disk, lots) /\ LogFiled(rows, disk, lots) /\ lots' = lots
      BY <2>1 DEF Filed
    <3>2. jsonl' = jsonl /\ rows' = rows
      BY <2>1
    <3> QED
      BY <1>0, <2>7, <3>1, <3>2, LogUndisturbed
  <2>9. SaleFiled(op', book', disk', lots', jsonl', rows')
    <3>1. book'[k].lot = op.record.lot
      BY <2>2, <2>11, <2>12
    <3> QED
      <4>1. op' = [kind |-> "sell", mint |-> op'.mint, level |-> op'.level, at |-> op'.at,
                   record |-> op'.record]
        BY <2>3
      <4>2. op'.mint = k /\ op'.at = "emptied" /\ op'.record = op.record
        BY <2>3
      <4>3. /\ op.record \in Trade /\ op.record.lot \in 1..lots /\ op.record.final
            /\ lots' = lots /\ disk'[k].lot = op.record.lot
        BY <2>1, <2>2, <3>1 DEF SaleFiled
      <4> HIDE <2>3
      <4> QED
        BY <2>2, <3>1, <4>1, <4>2, <4>3 DEF SaleFiled
  <2> QED
    BY <1>0, <2>1, <2>6, <2>8, <2>9 DEF Filed
<1>16. ASSUME NEW m \in Mints, DropEmpty(m) PROVE Filed'
  <2>1. book' = [book EXCEPT ![m] = NoRow] /\ op' = Idle /\ UNCHANGED <<now, disk, lots, jsonl, rows>>
    BY <1>16 DEF DropEmpty, trades
  <2>2. Rows(book') /\ book'[m].lot = 0 /\ \A k \in Mints : k # m => book'[k].lot = book[k].lot
    BY <1>0, <2>1 DEF Rows, NoRow
  <2> QED
    BY <1>0, <1>1, <2>1, <2>2 DEF Aside
<1> QED
    BY <1>2, <1>3, <1>4, <1>5, <1>6, <1>7, <1>9, <1>10, <1>11, <1>12, <1>13, <1>14, <1>15,
       <1>16, <1>17
       DEF Next

(* At the start there are no lots, and the history has none.               *)
LEMMA FiledStart == Init => Filed
<1> SUFFICES ASSUME Init PROVE Filed
    OBVIOUS
<1>1. /\ now = 0 /\ lots = 0 /\ op = Idle /\ jsonl \in Histories /\ rows = jsonl
      /\ book = [m \in Mints |-> NoRow] /\ disk = book
    BY DEF Init, BreakerInit, LogInit
<1>2. BookFiled(book, disk, lots)
    BY <1>1 DEF BookFiled, Rows, NoRow
<1>3. jsonl \in Seq([lot : {0}, final : BOOLEAN, won : BOOLEAN, at : Nat])
    BY <1>1, HistoryAssumption
<1>4. jsonl \in Seq(Trade) /\ \A i \in DOMAIN jsonl : jsonl[i].lot = 0
  <2> DEFINE Old == [lot : {0}, final : BOOLEAN, won : BOOLEAN, at : Nat]
  <2>1. Old \subseteq Trade /\ \A t \in Old : t.lot = 0
    BY DEF Trade
  <2> HIDE DEF Old
  <2>2. jsonl \in Seq(Old)
    BY <1>3 DEF Old
  <2>3. \A i \in DOMAIN jsonl : jsonl[i] \in Old
    BY <2>2, EntryOf
  <2>4. jsonl \in Seq(Trade)
    BY <2>1, <2>2
  <2> QED
    BY <2>1, <2>3, <2>4
<1>5. LogFiled(jsonl, disk, lots)
    BY <1>1, <1>4 DEF LogFiled
<1> QED
    BY <1>1, <1>2, <1>5 DEF Filed

(* A log in order closes a lot once.                                       *)
LEMMA FiledOnce == Filed => LotClosedOnce
<1> SUFFICES ASSUME Filed, NEW log \in {jsonl, rows}, NEW i \in DOMAIN log,
                    log[i].final, log[i].lot > 0
             PROVE  FinalsOf(log, log[i].lot) = {i} /\ \A m \in Mints : disk[m].lot # log[i].lot
    BY DEF LotClosedOnce
<1>1. LogFiled(log, disk, lots)
    BY DEF Filed
<1>2. \A j \in FinalsOf(log, log[i].lot) : j = i
    BY <1>1 DEF LogFiled, FinalsOf
<1>3. i \in FinalsOf(log, log[i].lot)
    BY DEF FinalsOf
<1>4. \A m \in Mints : disk[m].lot # log[i].lot
    BY <1>1 DEF LogFiled, OnDisk
<1> QED
    BY <1>2, <1>3, <1>4

(* LotClosedOnce: close_position takes a row off the disk before it writes *)
(* the trade, so a lot is closed once in the file and in the table,        *)
(* wherever a crash cuts the close, for any ladder, prices and limits.     *)
THEOREM LotsClosedOnce == Spec => []LotClosedOnce
    BY FiledStart, FiledKept, FiledOnce, PTL DEF Spec
-----------------------------------------------------------------------------
(* Amounts                                                                 *)

(* The constants that are numbers.                                         *)
LEMMA Numbers ==
    /\ {MaxSolPerTrade, MaxPositionPct, MaxExposure, MinTrade, HardCapMult, MaxLots} \subseteq Nat
    /\ HotMult \in Nat /\ ColdMult \in Nat /\ ColdMult <= 100 /\ 100 <= HotMult
    /\ {StartBalance, BuyFeeCap, SellFeeCap, StampedeMult} \subseteq Nat
    /\ CurveSol \in Nat /\ CurveSol > 0 /\ MaxPositionPct * HotMult <= 9000
    /\ Prices \cup SpotPrices \subseteq Nat /\ IsFiniteSet(Mints)
    /\ DailyLossPct \in 0..100 /\ ProfitLockPct \in Nat
    /\ LossStreakLimit \in Nat /\ LossStreakLimit > 0 /\ StreakPause \in Nat
    /\ DayLength \in Nat /\ DayLength > 0
BY SessionAssumption, PaperExecutorAssumption, BreakerAssumption

(* Fees.                                                                   *)
LEMMA FeeType ==
    ASSUME NEW a \in Nat
    PROVE  BuyFee(a) \in Nat /\ SellFee(a) \in Nat
<1>1. (a * 5) \div 100 \in Nat
    BY DivFloor
<1> HIDE DEF BuyFee
<1>2. BuyFee(a) \in Nat
    BY <1>1, Numbers DEF BuyFee, LeastOf, MostOf
<1>3. SellFee(a) \in Nat
    BY <1>1, Numbers DEF SellFee, LeastOf
<1> QED
    BY <1>2, <1>3

(* Slippage and sandwich tax.                                              *)
LEMMA DragType ==
    ASSUME NEW a \in Nat
    PROVE  Slippage(a) \in Nat /\ MevTax(a) \in Nat
<1> DEFINE part == LeastOf(a, CurveSol)
<1>1. part \in Nat
    BY Numbers DEF LeastOf
<1> HIDE DEF part
<1>2. (600 * part) \div CurveSol \in Nat /\ (400 * part) \div CurveSol \in Nat
    BY <1>1, Numbers, DivFloor
<1> QED
    BY <1>2 DEF Slippage, MevTax, part

(* What an amount buys.                                                    *)
LEMMA TokensType ==
    ASSUME NEW a \in Nat, NEW p \in Nat, p > 0
    PROVE  TokensFor(a, p) \in Nat /\ (TokensFor(a, p) > 0 => a > 0)
<1> DEFINE d == 1000 + Slippage(a) + MevTax(a)
<1>1. d \in Nat /\ d > 0
    BY DragType
<1> HIDE DEF d
<1>2. p * d \in Nat /\ p * d > 0
    BY <1>1, MulNat, Z3
<1> DEFINE e == p * d
<1> HIDE DEF e
<1>3. e \in Nat /\ e > 0
    BY <1>2 DEF e
<1>4. (a * 100000) \div e \in Nat /\ (a = 0 => (a * 100000) \div e = 0)
  <2>1. (a * 100000) \div e \in Nat /\ e * ((a * 100000) \div e) <= a * 100000
      BY <1>3, DivFloor
  <2>2. ASSUME NEW q \in Nat, e * q <= 0 PROVE q = 0
      BY <1>3, <2>2, Z3
  <2> QED
      BY <2>1, <2>2
<1>5. TokensFor(a, p) = (a * 100000) \div e
    BY DEF TokensFor, d, e
<1> QED
    BY <1>4, <1>5

(* What tokens are worth.                                                  *)
LEMMA ValueType ==
    ASSUME NEW a \in Nat, NEW p \in Nat
    PROVE  Value(a, p) \in Nat
BY MulNat, DivFloor DEF Value

(* What a sale yields.                                                     *)
LEMMA ProceedsType ==
    ASSUME NEW a \in Nat, NEW p \in Nat, NEW mult \in Nat
    PROVE  Proceeds(a, p, mult) \in Nat
<1> DEFINE gross == Value(a, p)
           drag == LeastOf(Slippage(gross) * mult + MevTax(gross), 950)
<1>1. gross \in Nat
    BY ValueType
<1> HIDE DEF gross
<1>2. Slippage(gross) \in Nat /\ MevTax(gross) \in Nat
    BY <1>1, DragType
<1>3. Slippage(gross) * mult \in Nat
    BY <1>2, MulNat
<1>4. 1000 - drag \in Nat
    BY <1>2, <1>3 DEF LeastOf
<1> HIDE DEF drag
<1>5. gross * (1000 - drag) \in Nat
    BY <1>1, <1>4, MulNat
<1>6. (gross * (1000 - drag)) \div 1000 \in Nat
    BY <1>5, DivFloor
<1> QED
    BY <1>6 DEF Proceeds, gross, drag

(* What a leg leaves.                                                      *)
LEMMA LeftType ==
    ASSUME NEW i \in Levels, NEW a \in Nat
    PROVE  Left(i, a) \in Nat
<1>1. 100 - TakeProfit[i].sell \in Nat
    BY SessionAssumption DEF Levels
<1>2. a * (100 - TakeProfit[i].sell) \in Nat
    BY <1>1, MulNat
<1> QED
    BY <1>2, DivFloor DEF Left

(* A venue that held what the book believed still holds what a leg leaves, *)
(* although each rounds its own part down.                                 *)
LEMMA LegCovered ==
    ASSUME NEW h \in Nat, NEW a \in Nat, a <= h, NEW i \in Levels
    PROVE  Left(i, a) <= MostOf(h - (h * TakeProfit[i].sell) \div 100, 0)
<1> DEFINE s == TakeProfit[i].sell
<1>1. s \in 1..99
    BY SessionAssumption DEF Levels
<1> HIDE DEF s
<1> DEFINE x == h * s  y == a * (100 - s)
<1>2. x \in Nat /\ y \in Nat /\ y <= 100 * h - x
  <2>1. a * (100 - s) <= h * (100 - s)
      BY <1>1, Z3
  <2>2. h * (100 - s) = 100 * h - h * s
      BY <1>1, Z3
  <2>3. x \in Nat /\ y \in Nat
      BY <1>1, MulNat
  <2> QED
      BY <2>1, <2>2, <2>3
<1> HIDE DEF x, y
<1>3. y \div 100 <= h - x \div 100
  <2>1. 100 * (x \div 100) <= x /\ 100 * (y \div 100) <= y /\ x \div 100 \in Nat /\ y \div 100 \in Nat
      BY <1>2, DivFloor
  <2> DEFINE u == x \div 100  v == y \div 100
  <2>2. ASSUME NEW c \in Nat, NEW d \in Nat, 100 * c <= x, 100 * d <= y PROVE d <= h - c
      BY <1>2, <2>2
  <2> QED
      BY <2>1, <2>2
<1>4. y \div 100 <= MostOf(h - x \div 100, 0)
  <2>1. x \div 100 \in Nat /\ y \div 100 \in Nat
      BY <1>2, DivFloor
  <2> QED
      BY <1>3, <2>1 DEF MostOf
<1> QED
    BY <1>4 DEF Left, s, x, y
-----------------------------------------------------------------------------
(* Types                                                                   *)

(* A row of the book, and the calls that can be in progress.               *)
Row == [lot : Nat, cost : Nat, tokens : Nat, entry : Nat, cur : Nat,
        hit : SUBSET Levels, seen : SUBSET Nat, updated : BOOLEAN]

BuyCall  == [kind : {"buy"}, mint : Mints, sol : Nat, at : {"filled"}]
SellCall == [kind : {"sell"}, mint : Mints, level : Levels \cup {Everything},
             at : {"sold", "emptied", "dropped", "jsonl", "rows"}, record : Trade]

(* A buy in progress got tokens for its money; a leg is of the ladder.     *)
CallTyped ==
    \/ op = Idle
    \/ op \in BuyCall /\ held[op.mint] > 0 /\ lots < MaxLots
    \/ op \in SellCall /\ (~ op.record.final => op.level \in Levels)
                       /\ (op.at = "rows" => ~ op.record.final)

BooksTyped == book \in [Mints -> Row] /\ disk \in [Mints -> Row] /\ lots \in 0..MaxLots

Typed ==
    /\ VenueTypeOK /\ BreakerTypeOK /\ BooksTyped /\ CallTyped
    /\ lastBase \in Nat /\ crashes \in Nat

(* Equity and exposure are numbers, and the balance is part of the equity. *)
LEMMA EquityType ==
    ASSUME Typed
    PROVE  Equity \in Nat /\ bal \in Nat /\ bal <= Equity /\ Exposure \in Nat
<1> DEFINE worth == [m \in Mints |-> Value(book[m].tokens, book[m].cur)]
           cost == [m \in Mints |-> book[m].cost]
<1>1. \A m \in Mints : book[m].tokens \in Nat /\ book[m].cur \in Nat /\ book[m].cost \in Nat
    BY DEF Typed, BooksTyped, Row
<1>2. \A m \in Mints : worth[m] \in Nat /\ cost[m] \in Nat
    BY <1>1, ValueType
<1>3. Equity = bal + SumOver(worth, Mints) /\ Exposure = SumOver(cost, Mints)
    BY DEF Equity, Exposure
<1> HIDE DEF worth, cost
<1>4. SumOver(worth, Mints) \in Nat /\ SumOver(cost, Mints) \in Nat
    BY <1>2, Numbers, SumType
<1>5. bal \in Nat
    BY DEF Typed, VenueTypeOK
<1> QED
    BY <1>3, <1>4, <1>5

(* The size of an admitted buy is positive only up to nine tenths of the   *)
(* balance, whatever the streak of wins.                                   *)
LEMMA SizeFits ==
    ASSUME Typed, Admits
    PROVE  SizeOf \in Nat /\ SizeOf * 10000 <= bal * 9000
<1> DEFINE share == (bal * MaxPositionPct) \div 100
           base == LeastOf(MaxSolPerTrade, share)
           hard == (MaxSolPerTrade * HardCapMult) \div 100
           mult == (base * Multiplier) \div 100
           grown == LeastOf(mult, hard)
           room == MaxExposure - Exposure
<1>1. bal \in Nat /\ Exposure \in Nat /\ room \in Int /\ room > 0
    BY EquityType, Numbers DEF Admits
<1>2. Multiplier \in Nat /\ Multiplier <= HotMult
  <2>1. Multiplier \in {HotMult, ColdMult, 100}
    <3> HIDE DEF Temper
    <3> QED
      BY DEF Multiplier
  <2> QED
    BY <2>1, Numbers
<1>3. SizeOf = LeastOf(grown, room)
    BY DEF SizeOf
<1> HIDE DEF room, Multiplier
<1>4. share \in Nat /\ 100 * share <= bal * MaxPositionPct
  <2>1. bal * MaxPositionPct \in Nat
      BY <1>1, Numbers, MulNat
  <2> QED
      BY <2>1, DivFloor
<1> HIDE DEF share
<1>5. base \in Nat /\ base <= share
    BY <1>4, Numbers DEF LeastOf
<1> HIDE DEF base
<1>6. mult \in Nat /\ 100 * mult <= base * Multiplier /\ base * Multiplier \in Nat
  <2>1. base * Multiplier \in Nat
      BY <1>2, <1>5, MulNat
  <2> QED
      BY <2>1, DivFloor
<1>7. hard \in Nat
  <2>1. MaxSolPerTrade * HardCapMult \in Nat
      BY Numbers, MulNat
  <2> QED
      BY <2>1, DivFloor
<1> HIDE DEF mult, hard
<1>8. grown \in Nat /\ grown <= mult
    BY <1>6, <1>7 DEF LeastOf
<1>9. mult * 10000 <= bal * 9000
  <2>1. base * Multiplier <= share * HotMult /\ share * HotMult \in Nat
    <3>1. base * Multiplier <= base * HotMult
        BY <1>2, <1>5, Numbers, MulMono
    <3>2. HotMult * base <= HotMult * share /\ share * HotMult \in Nat /\ base * HotMult \in Nat
        BY <1>4, <1>5, Numbers, MulMono, MulNat
    <3>3. HotMult * base = base * HotMult /\ HotMult * share = share * HotMult
        BY <1>4, <1>5, Numbers
    <3> QED
        BY <1>6, <3>1, <3>2, <3>3
  <2>2. 100 * (share * HotMult) <= bal * 9000
    <3>1. HotMult * (100 * share) <= HotMult * (bal * MaxPositionPct)
        BY <1>1, <1>4, Numbers, MulMono, MulNat
    <3>2. bal * (MaxPositionPct * HotMult) <= bal * 9000
        BY <1>1, Numbers, MulMono, MulNat
    <3>3. HotMult * (bal * MaxPositionPct) = bal * (MaxPositionPct * HotMult)
        BY <1>1, Numbers, Z3
    <3>4. HotMult * (100 * share) = 100 * (share * HotMult)
        BY <1>4, Numbers, Z3
    <3>5. bal * (MaxPositionPct * HotMult) \in Nat /\ bal * 9000 \in Nat /\ 100 * (share * HotMult) \in Nat
        BY <1>1, <2>1, Numbers, MulNat
    <3> QED
        BY <3>1, <3>2, <3>3, <3>4, <3>5
  <2> DEFINE x == base * Multiplier  y == share * HotMult  z == bal * 9000
  <2>3. x \in Nat /\ y \in Nat /\ z \in Nat
      BY <1>1, <1>6, <2>1, MulNat
  <2>4. 100 * mult <= x /\ x <= y /\ 100 * y <= z
      BY <1>6, <2>1, <2>2
  <2> HIDE DEF x, y, z
  <2>5. mult * 10000 <= z
      BY <1>6, <2>3, <2>4
  <2> QED
      BY <2>5 DEF z
<1>10. SizeOf \in Int /\ SizeOf <= grown
    BY <1>1, <1>3, <1>8 DEF LeastOf
<1>11. SizeOf \in Nat
    BY <1>1, <1>3, <1>8 DEF LeastOf
<1> QED
    BY <1>1, <1>6, <1>8, <1>9, <1>10, <1>11

(* A buy of at most nine tenths of the balance leaves room for its fee.    *)
LEMMA FeeFits ==
    ASSUME NEW a \in Nat, NEW b \in Nat, a > 0, a * 10000 <= b * 9000
    PROVE  After(After(b, BuyFee(a)), a) = b - BuyFee(a) - a
<1> DEFINE part == (a * 5) \div 100  fee == BuyFee(a)
<1>1. part \in Nat /\ 100 * part <= a * 5
    BY DivFloor
<1> HIDE DEF part
<1>2. fee \in Nat /\ fee <= MostOf(part, 1)
    BY <1>1, FeeType, Numbers DEF BuyFee, LeastOf, MostOf, part
<1> HIDE DEF fee
<1>3. b - fee - a >= 0
    BY <1>1, <1>2 DEF MostOf
<1> QED
    BY <1>2, <1>3 DEF After, MostOf, fee

(* A look at the breakers leaves a number for a baseline.                  *)
LEMMA LookType ==
    ASSUME Typed, LookAtBreakers, now' = now
    PROVE  BreakerTypeOK' /\ lastBase' \in Nat
<1>1. Equity \in Nat
    BY EquityType
<1>2. Today \in Nat
    BY Numbers, DivFloor DEF Typed, BreakerTypeOK, Today
<1> HIDE DEF Equity, Today
<1>3. dayBase' \in Nat
    BY <1>1 DEF Typed, BreakerTypeOK, LookAtBreakers, Look, BaseAt
<1>4. dayDate' \in Nat \cup {-1}
    BY <1>2 DEF Typed, BreakerTypeOK, LookAtBreakers, Look
<1>5. now' \in Nat /\ streak' \in 0..(LossStreakLimit - 1) /\ pauseUntil' \in Nat
    BY DEF Typed, BreakerTypeOK, LookAtBreakers, Look
<1>6. lastBase' \in Nat
    BY DEF Typed, BreakerTypeOK, LookAtBreakers
<1> QED
    BY <1>3, <1>4, <1>5, <1>6 DEF BreakerTypeOK

(* A quote of the feeds is a price.                                        *)
LEMMA QuoteType == Quotes \subseteq Nat
<1> SUFFICES ASSUME NEW answers \in [Feeds -> Prices \cup {0}] PROVE FirstQuote(answers) \in Nat
    BY DEF Quotes
<1>1. \A i \in Feeds : answers[i] \in Nat
    BY Numbers
<1>2. CASE \A i \in Feeds : answers[i] = 0
    BY <1>2 DEF FirstQuote
<1>3. CASE \E i \in Feeds : answers[i] # 0
  <2> DEFINE IsFirst(i) == answers[i] > 0 /\ \A j \in 1..(i - 1) : answers[j] = 0
  <2>1. \E i \in Feeds : IsFirst(i)
    <3>1. CASE answers[1] > 0
        BY <3>1 DEF Feeds
    <3>2. CASE answers[1] = 0 /\ answers[2] > 0
        BY <3>2 DEF Feeds
    <3>3. CASE answers[1] = 0 /\ answers[2] = 0 /\ answers[3] > 0
        BY <3>3 DEF Feeds
    <3> QED
        BY <1>1, <1>3, <3>1, <3>2, <3>3 DEF Feeds
  <2>2. FirstQuote(answers) = answers[CHOOSE i \in Feeds : IsFirst(i)]
      BY <1>3 DEF FirstQuote
  <2>3. (CHOOSE i \in Feeds : IsFirst(i)) \in Feeds
      BY <2>1
  <2> HIDE DEF IsFirst
  <2> QED
      BY <1>1, <2>2, <2>3
<1> QED
    BY <1>2, <1>3

(* A fill gets tokens only for money.                                      *)
LEMMA FillType ==
    ASSUME Typed, NEW m \in Mints, NEW p \in SpotPrices, BuyFills(m, p)
    PROVE  VenueTypeOK' /\ CallTyped'
<1>1. SizeOf \in Nat /\ bal \in Nat /\ p \in Nat /\ p > 0
    BY SizeFits, EquityType, SessionAssumption DEF BuyFills, Buy
<1>2. BuyFee(SizeOf) \in Nat /\ TokensFor(SizeOf, p) \in Nat
    BY <1>1, FeeType, TokensType
<1> DEFINE size == SizeOf  fee == BuyFee(SizeOf)  got == TokensFor(SizeOf, p)
<1>3. lots < MaxLots /\ lots' = lots
    BY DEF BuyFills, Buy
<1>4. \/ /\ got > 0
         /\ quote' = [quote EXCEPT ![m] = p] /\ held' = [held EXCEPT ![m] = got]
         /\ bal' = After(After(bal, fee), size)
         /\ op' = [kind |-> "buy", mint |-> m, sol |-> size, at |-> "filled"]
      \/ bal' = After(bal, fee) + fee /\ quote' = quote /\ held' = held /\ op' = op
    BY DEF BuyFills, FillBuy
<1>5. op = Idle
    BY DEF BuyFills, Buy
<1> HIDE DEF size, fee, got
<1>6. size \in Nat /\ fee \in Nat /\ got \in Nat
    BY <1>1, <1>2 DEF size, fee, got
<1>7. After(After(bal, fee), size) \in Nat /\ After(bal, fee) + fee \in Nat
    BY <1>1, <1>6 DEF After, MostOf
<1>8. bal' \in Nat
    BY <1>4, <1>7
<1>9. quote' \in [Mints -> Nat] /\ held' \in [Mints -> Nat]
    BY <1>1, <1>4, <1>6 DEF Typed, VenueTypeOK
<1>10. ASSUME op' = [kind |-> "buy", mint |-> m, sol |-> size, at |-> "filled"],
              held' = [held EXCEPT ![m] = got], got > 0
       PROVE  CallTyped'
  <2>1. op' \in BuyCall /\ op'.mint = m
      BY <1>6, <1>10 DEF BuyCall
  <2>2. held'[m] = got
      BY <1>10 DEF Typed, VenueTypeOK
  <2>3. held'[op'.mint] > 0 /\ lots' < MaxLots
      BY <1>3, <1>10, <2>1, <2>2
  <2> HIDE <1>10
  <2> QED
      BY <2>1, <2>3 DEF CallTyped
<1>11. ASSUME op' = op PROVE CallTyped'
  <2>1. op' = Idle
      BY <1>5, <1>11
  <2> QED
      BY <2>1 DEF CallTyped
<1> QED
    BY <1>4, <1>8, <1>9, <1>10, <1>11 DEF VenueTypeOK

(* What a sale sells is a number, and so is what it pays and gets.         *)
LEMMA SaleType ==
    ASSUME Typed, NEW m \in Mints, NEW level \in Levels \cup {Everything}
    PROVE  /\ Resolve(m, Pct(level)) \in Nat /\ FeeOfSale(m, level) \in Nat
           /\ \A stampede \in BOOLEAN : FillPrices(m, stampede, book[m].seen) \subseteq Nat
<1>1. held[m] \in Nat /\ quote[m] \in Nat /\ book[m].seen \subseteq Nat
    BY DEF Typed, VenueTypeOK, BooksTyped, Row
<1>2. Pct(level) \in Nat
    BY SessionAssumption DEF Pct, Levels
<1>3. Resolve(m, Pct(level)) \in Nat
  <2>1. held[m] * Pct(level) \in Nat
      BY <1>1, <1>2, MulNat
  <2> QED
      BY <2>1, DivFloor DEF Resolve
<1>4. FeeOfSale(m, level) \in Nat
    BY <1>1, <1>3, ValueType, FeeType DEF FeeOfSale
<1>5. \A stampede \in BOOLEAN : FillPrices(m, stampede, book[m].seen) \subseteq Nat
    BY <1>1 DEF FillPrices, LeastOf
<1> QED
    BY <1>3, <1>4, <1>5

(* A sale keeps the venue in order and names what it will write.           *)
LEMMA SellType ==
    ASSUME Typed, NEW m \in Mints, NEW level \in Levels \cup {Everything}, NEW stampede \in BOOLEAN,
           SellFills(m, level, stampede)
    PROVE  VenueTypeOK' /\ CallTyped'
<1> DEFINE tokens == Resolve(m, Pct(level))  fee == FeeOfSale(m, level)
           mult == IF stampede THEN StampedeMult ELSE 1
           Got(p) == IF quote[m] <= 0 \/ tokens <= 0 THEN 0 ELSE Proceeds(tokens, p, mult)
<1>1. PICK p \in FillPrices(m, stampede, book[m].seen) :
        /\ FillSell(m, tokens, fee, Got(p))
        /\ op' = [kind |-> "sell", mint |-> m, level |-> level, at |-> "sold",
                  record |-> [lot |-> book[m].lot, final |-> Empties(m, level),
                              won |-> Got(p) > Basis(m, level), at |-> now]]
    BY DEF SellFills
<1>2. tokens \in Nat /\ fee \in Nat /\ p \in Nat
    BY <1>1, SaleType
<1>3. mult \in Nat
    BY Numbers
<1> HIDE DEF tokens, fee, mult
<1>4. Got(p) \in Nat
    BY <1>2, <1>3, ProceedsType
<1> DEFINE got == Got(p)  final == Empties(m, level)  won == got > Basis(m, level)
<1>5. got \in Nat /\ final \in BOOLEAN /\ won \in BOOLEAN /\ (~ final => level \in Levels)
    BY <1>4 DEF Empties
<1>6. /\ bal' = After(bal, fee) + got /\ quote' = quote
      /\ held' = [held EXCEPT ![m] = MostOf(held[m] - tokens, 0)]
      /\ op' = [kind |-> "sell", mint |-> m, level |-> level, at |-> "sold",
                record |-> [lot |-> book[m].lot, final |-> final, won |-> won, at |-> now]]
    BY <1>1 DEF FillSell
<1> HIDE DEF got, final, won
<1>7. bal \in Nat /\ held[m] \in Nat /\ book[m].lot \in Nat /\ now \in Nat
    BY DEF Typed, VenueTypeOK, BooksTyped, BreakerTypeOK, Row
<1>8. bal' \in Nat /\ MostOf(held[m] - tokens, 0) \in Nat
    BY <1>2, <1>5, <1>6, <1>7 DEF After, MostOf
<1>9. VenueTypeOK'
    BY <1>6, <1>8 DEF Typed, VenueTypeOK
<1>10. op' \in SellCall /\ op'.record.final = final /\ op'.level = level /\ op'.at = "sold"
    BY <1>5, <1>6, <1>7 DEF SellCall, Trade
<1> QED
    BY <1>5, <1>9, <1>10 DEF CallTyped

(* A call that goes on writes the same trade.                              *)
LEMMA GoesOn ==
    ASSUME NEW a \in {"sold", "emptied", "dropped", "jsonl", "rows"}, NEW o \in SellCall,
           NEW s, s = [o EXCEPT !.at = a]
    PROVE  s \in SellCall /\ s.record = o.record /\ s.level = o.level /\ s.mint = o.mint /\ s.at = a
BY DEF SellCall

(* The sale in progress.                                                   *)
LEMMA SaleInProgress ==
    ASSUME Typed, op.kind = "sell"
    PROVE  op \in SellCall /\ op.mint \in Mints /\ op.record \in Trade
           /\ (~ op.record.final => op.level \in Levels)
           /\ (op.at = "rows" => ~ op.record.final)
<1>1. op \in SellCall
    BY DEF Typed, CallTyped, Idle, BuyCall
<1> QED
    BY <1>1 DEF Typed, CallTyped, Idle, BuyCall, SellCall

(* A step that leaves the venue, the books and the call alone.             *)
LEMMA OnlyLooks ==
    ASSUME Typed, LookAtBreakers, UNCHANGED <<now, book, disk, lots, crashes>>, VenueTypeOK', CallTyped'
    PROVE  Typed'
<1>1. BooksTyped' /\ crashes' \in Nat
    BY DEF Typed, BooksTyped
<1> QED
    BY <1>1, LookType DEF Typed

(* Each step keeps the types.                                              *)
LEMMA TypedKept == Typed /\ [Next]_vars => Typed'
<1> SUFFICES ASSUME Typed, [Next]_vars PROVE Typed'
    OBVIOUS
<1> USE DEF trades
<1>0. /\ bal \in Nat /\ quote \in [Mints -> Nat] /\ held \in [Mints -> Nat]
      /\ book \in [Mints -> Row] /\ disk \in [Mints -> Row] /\ lots \in 0..MaxLots
    BY DEF Typed, VenueTypeOK, BooksTyped
<1>1. CASE RejectToken
  <2>1. VenueTypeOK' /\ CallTyped' /\ LookAtBreakers /\ UNCHANGED <<now, book, disk, lots, crashes>>
    BY <1>1 DEF RejectToken, Typed, VenueTypeOK, CallTyped, venue
  <2> QED
    BY <2>1, OnlyLooks
<1>2. ASSUME NEW m \in Mints, BuyFails(m) PROVE Typed'
  <2>1. LookAtBreakers /\ UNCHANGED <<now, book, disk, lots, crashes, op, quote, held>>
        /\ bal' = After(bal, BuyFee(SizeOf))
    BY <1>2 DEF BuyFails, Buy, ChargeFee
  <2>2. BuyFee(SizeOf) \in Nat
    BY <1>2, SizeFits, FeeType DEF BuyFails, Buy
  <2>3. bal' \in Nat
    BY <1>0, <2>1, <2>2 DEF After, MostOf
  <2>4. VenueTypeOK' /\ CallTyped'
    BY <2>1, <2>3 DEF Typed, VenueTypeOK, CallTyped
  <2> QED
    BY <2>1, <2>4, OnlyLooks
<1>3. ASSUME NEW m \in Mints, NEW p \in SpotPrices, BuyFills(m, p) PROVE Typed'
  <2>1. LookAtBreakers /\ UNCHANGED <<now, book, disk, lots, crashes>>
    BY <1>3 DEF BuyFills, Buy
  <2> QED
    BY <1>3, <2>1, FillType, OnlyLooks
<1>4. CASE OpenPosition
  <2> DEFINE k == op.mint  sol == op.sol  got == held[k]  entry == (sol * 100) \div got
  <2>1. /\ op.kind = "buy" /\ lots' = lots + 1 /\ op' = Idle /\ disk' = book'
        /\ book' = [book EXCEPT ![k] = [NoRow EXCEPT !.lot = lots + 1, !.cost = sol, !.tokens = got,
                                          !.entry = entry, !.cur = entry]]
        /\ UNCHANGED <<venue, now, breakers, lastBase, crashes>>
    BY <1>4 DEF OpenPosition
  <2>2. op \in BuyCall /\ held[op.mint] > 0 /\ lots < MaxLots
    BY <2>1 DEF Typed, CallTyped, Idle, SellCall
  <2>3. k \in Mints /\ sol \in Nat
    BY <2>2 DEF BuyCall
  <2>4. got \in Nat /\ got > 0
    BY <1>0, <2>2, <2>3
  <2> HIDE DEF k, sol, got
  <2>5. entry \in Nat
    BY <2>3, <2>4, DivFloor
  <2> HIDE DEF entry
  <2> DEFINE new == [NoRow EXCEPT !.lot = lots + 1, !.cost = sol, !.tokens = got,
                                  !.entry = entry, !.cur = entry]
  <2>6. new = [lot |-> lots + 1, cost |-> sol, tokens |-> got, entry |-> entry, cur |-> entry,
               hit |-> {}, seen |-> {}, updated |-> FALSE]
    <3> DEFINE n == lots + 1
    <3>1. new = [NoRow EXCEPT !.lot = n, !.cost = sol, !.tokens = got, !.entry = entry, !.cur = entry]
      OBVIOUS
    <3> HIDE DEF new, n
    <3>2. new = [lot |-> n, cost |-> sol, tokens |-> got, entry |-> entry, cur |-> entry,
                 hit |-> {}, seen |-> {}, updated |-> FALSE]
      BY <3>1 DEF NoRow
    <3> QED
      BY <3>2 DEF n
  <2>7. lots + 1 \in Nat /\ lots' \in 0..MaxLots
    BY <1>0, <2>1, <2>2, Numbers
  <2>8. book' = [book EXCEPT ![k] = new]
    BY <2>1
  <2> HIDE DEF new
  <2>9. new \in Row
    BY <2>3, <2>4, <2>5, <2>6, <2>7 DEF Row
  <2>10. BooksTyped'
    <3>1. book' \in [Mints -> Row]
      BY <1>0, <2>8, <2>9
    <3> QED
      BY <2>1, <2>7, <3>1 DEF BooksTyped
  <2>11. VenueTypeOK' /\ BreakerTypeOK' /\ CallTyped' /\ lastBase' \in Nat /\ crashes' \in Nat
    BY <2>1 DEF Typed, VenueTypeOK, BreakerTypeOK, CallTyped, venue, breakers
  <2> QED
    BY <2>10, <2>11 DEF Typed
<1>5. ASSUME NEW m \in Mints, NEW level \in Levels \cup {Everything}, SellFails(m, level) PROVE Typed'
  <2>1. /\ UNCHANGED <<now, breakers, book, disk, op, lots, lastBase, crashes, quote, held>>
        /\ bal' = After(bal, FeeOfSale(m, level))
    BY <1>5 DEF SellFails, ChargeFee
  <2>2. FeeOfSale(m, level) \in Nat
    BY SaleType
  <2>3. bal' \in Nat
    BY <1>0, <2>1, <2>2 DEF After, MostOf
  <2> QED
    BY <2>1, <2>3 DEF Typed, VenueTypeOK, BreakerTypeOK, BooksTyped, CallTyped, breakers
<1>6. ASSUME NEW m \in Mints, NEW level \in Levels \cup {Everything}, NEW stampede \in BOOLEAN,
             SellFills(m, level, stampede)
      PROVE  Typed'
  <2>1. UNCHANGED <<now, breakers, book, disk, lots, lastBase, crashes>>
    BY <1>6 DEF SellFills
  <2> QED
    BY <1>6, <2>1, SellType DEF Typed, BreakerTypeOK, BooksTyped, breakers
<1>7. CASE DropFromBook
  <2>1. /\ op.kind = "sell" /\ op' = [op EXCEPT !.at = "dropped"] /\ op.record.final
        /\ book' = [book EXCEPT ![op.mint] = NoRow] /\ disk' = book'
        /\ UNCHANGED <<venue, now, breakers, lots, lastBase, crashes>>
    BY <1>7 DEF DropFromBook, Closing
  <2>2. NoRow \in Row
    BY DEF NoRow, Row
  <2>3. BooksTyped'
    BY <1>0, <2>1, <2>2 DEF BooksTyped
  <2>4. CallTyped'
    <3>1. op \in SellCall
      BY <2>1, SaleInProgress
    <3>2. op' \in SellCall /\ op'.record = op.record /\ op'.at = "dropped"
      BY <2>1, <3>1, GoesOn
    <3> QED
      BY <2>1, <3>2 DEF CallTyped
  <2> QED
    BY <2>1, <2>3, <2>4 DEF Typed, VenueTypeOK, BreakerTypeOK, venue, breakers
<1>8. CASE LogJsonl
  <2>1. /\ op.kind = "sell" /\ op' = [op EXCEPT !.at = "jsonl"]
        /\ UNCHANGED <<venue, now, breakers, book, disk, lots, lastBase, crashes>>
    BY <1>8 DEF LogJsonl
  <2>2. CallTyped'
    <3>1. op \in SellCall /\ (~ op.record.final => op.level \in Levels)
      BY <2>1, SaleInProgress
    <3>2. op' \in SellCall /\ op'.record = op.record /\ op'.at = "jsonl" /\ op'.level = op.level
      BY <2>1, <3>1, GoesOn
    <3> QED
      BY <3>1, <3>2 DEF CallTyped
  <2> QED
    BY <2>1, <2>2 DEF Typed, VenueTypeOK, BreakerTypeOK, BooksTyped, venue, breakers
<1>9. CASE LogRow
  <2>1. /\ op.kind = "sell" /\ UNCHANGED <<venue, now, book, disk, lots, lastBase, crashes>>
        /\ \/ op.record.final /\ CountClose(op.record.won) /\ op' = Idle
           \/ ~ op.record.final /\ UNCHANGED breakers /\ op' = [op EXCEPT !.at = "rows"]
    BY <1>9 DEF LogRow, Selling
  <2>2. CallTyped'
    <3>1. op \in SellCall /\ (~ op.record.final => op.level \in Levels)
      BY <2>1, SaleInProgress
    <3>2. CASE ~ op.record.final /\ op' = [op EXCEPT !.at = "rows"]
      <4>1. op' \in SellCall /\ op'.record = op.record /\ op'.at = "rows" /\ op'.level = op.level
        BY <3>1, <3>2, GoesOn
      <4> QED
        BY <3>1, <3>2, <4>1 DEF CallTyped
    <3> QED
      BY <2>1, <3>2 DEF CallTyped
  <2>3. BreakerTypeOK'
    <3>1. now \in Nat /\ streak \in 0..(LossStreakLimit - 1) /\ pauseUntil \in Nat
          /\ dayBase \in Nat /\ dayDate \in Nat \cup {-1}
      BY DEF Typed, BreakerTypeOK
    <3>2. CASE UNCHANGED breakers
      BY <2>1, <3>1, <3>2 DEF BreakerTypeOK, breakers
    <3>3. CASE CountClose(op.record.won)
      <4>1. dayBase' = dayBase /\ dayDate' = dayDate /\ now' = now
        BY <2>1, <3>3 DEF CountClose
      <4>2. /\ streak' = 0 \/ (streak' = streak + 1 /\ ~ (streak + 1 >= LossStreakLimit))
            /\ pauseUntil' = pauseUntil \/ pauseUntil' = now + StreakPause
        BY <3>3 DEF CountClose
      <4>3. streak' \in 0..(LossStreakLimit - 1) /\ pauseUntil' \in Nat
        BY <3>1, <4>2, Numbers
      <4> QED
        BY <3>1, <4>1, <4>3 DEF BreakerTypeOK
    <3> QED
      BY <2>1, <3>2, <3>3
  <2> QED
    BY <2>1, <2>2, <2>3 DEF Typed, VenueTypeOK, BooksTyped, venue
<1>10. CASE BookLeg
  <2> DEFINE k == op.mint  q == book[k]  x == Left(op.level, q.tokens)  y == Left(op.level, q.cost)
             z == q.hit \cup {op.level}
  <2>1. /\ book' = [book EXCEPT ![k].tokens = Left(op.level, @), ![k].cost = Left(op.level, @),
                                ![k].hit = @ \cup {op.level}]
        /\ disk' = book' /\ op' = Idle /\ op.kind = "sell" /\ op.at = "rows"
        /\ UNCHANGED <<venue, now, breakers, lots, lastBase, crashes>>
    BY <1>10 DEF BookLeg, Selling
  <2>2. k \in Mints /\ op.level \in Levels
    BY <2>1, SaleInProgress
  <2>3. q \in Row
    BY <1>0, <2>2
  <2>4. x \in Nat /\ y \in Nat /\ z \in SUBSET Levels
    BY <2>2, <2>3, LeftType DEF Row
  <2> DEFINE r == [q EXCEPT !.tokens = x, !.cost = y, !.hit = z]
  <2>5. book' = [book EXCEPT ![k] = r]
    BY <1>0, <2>1, <2>2
  <2> HIDE DEF k, q, x, y, z
  <2>6. r \in Row
    BY <2>3, <2>4 DEF Row
  <2> HIDE DEF r
  <2>7. BooksTyped'
    BY <1>0, <2>1, <2>5, <2>6 DEF BooksTyped
  <2> QED
    BY <2>1, <2>7 DEF Typed, VenueTypeOK, BreakerTypeOK, CallTyped, venue, breakers
<1>11. ASSUME NEW m \in Mints, NEW p \in Quotes, UpdatePrice(m, p) PROVE Typed'
  <2>1. /\ book' = book \/ book' = [book EXCEPT ![m].cur = p, ![m].seen = @ \cup {p}, ![m].updated = TRUE]
        /\ quote' = [quote EXCEPT ![m] = p]
        /\ UNCHANGED <<bal, held, now, breakers, disk, op, lots, lastBase, crashes>>
    BY <1>11 DEF UpdatePrice, AcceptPrice, Quote
  <2>2. p \in Nat
    BY QuoteType
  <2>3. [book[m] EXCEPT !.cur = p, !.seen = @ \cup {p}, !.updated = TRUE] \in Row
    <3> DEFINE q == book[m]  y == q.seen \cup {p}  r == [q EXCEPT !.cur = p, !.seen = y, !.updated = TRUE]
    <3>1. q \in Row
      BY <1>0
    <3>2. y \in SUBSET Nat
      BY <2>2, <3>1 DEF Row
    <3> HIDE DEF q, y
    <3>3. r \in Row
      BY <2>2, <3>1, <3>2 DEF Row
    <3> QED
      BY <3>3 DEF q, y
  <2>4. book' \in [Mints -> Row]
    BY <1>0, <2>1, <2>3
  <2>5. quote' \in [Mints -> Nat]
    BY <1>0, <2>1, <2>2
  <2> QED
    BY <2>1, <2>4, <2>5 DEF Typed, VenueTypeOK, BreakerTypeOK, BooksTyped, CallTyped, breakers
<1>12. CASE Tick
  <2>1. now' \in Nat
    BY <1>12 DEF Tick, Typed, BreakerTypeOK
  <2> QED
    BY <1>12, <2>1 DEF Tick, Typed, VenueTypeOK, BreakerTypeOK, BooksTyped, CallTyped, venue, breakers, session
<1>13. CASE Crash
  <2>1. /\ bal' \in Nat /\ quote' = [m \in Mints |-> 0] /\ held' = [m \in Mints |-> 0]
        /\ streak' = 0 /\ pauseUntil' = 0 /\ dayBase' = 0 /\ dayDate' = -1
        /\ book' = [m \in Mints |-> [disk[m] EXCEPT !.seen = {}]] /\ op' = Idle /\ lastBase' = 0
        /\ crashes' = crashes + 1 /\ UNCHANGED <<now, disk, lots>>
    <3>1. /\ quote' = [m \in Mints |-> 0] /\ held' = [m \in Mints |-> 0]
          /\ streak' = 0 /\ pauseUntil' = 0 /\ dayBase' = 0 /\ dayDate' = -1
          /\ book' = [m \in Mints |-> [disk[m] EXCEPT !.seen = {}]] /\ op' = Idle /\ lastBase' = 0
          /\ crashes' = crashes + 1 /\ UNCHANGED <<now, disk, lots>>
      BY <1>13 DEF Crash, VenueRestart, BreakerRestart
    <3>2. \E fee \in CutFees : bal' \in {After(bal, fee), StartBalance}
      BY <1>13 DEF Crash, VenueRestart
    <3>3. CutFees \subseteq Nat
      BY Numbers DEF CutFees, MostOf
    <3>4. bal' \in Nat
      BY <1>0, <3>2, <3>3, Numbers DEF After, MostOf
    <3> QED
      BY <3>1, <3>4
  <2>2. VenueTypeOK'
    BY <1>0, <2>1, Numbers DEF VenueTypeOK
  <2>3. BreakerTypeOK'
    BY <2>1, Numbers DEF Typed, BreakerTypeOK
  <2>4. \A m \in Mints : [disk[m] EXCEPT !.seen = {}] \in Row
    BY <1>0 DEF Row
  <2>5. BooksTyped'
    BY <1>0, <2>1, <2>4 DEF BooksTyped
  <2> QED
    BY <2>1, <2>2, <2>3, <2>5 DEF Typed, CallTyped
<1>14. CASE UNCHANGED vars
    BY <1>14 DEF Typed, VenueTypeOK, BreakerTypeOK, BooksTyped, CallTyped, vars, venue, breakers, session
<1>15. CASE EmptyByLeg
  <2> DEFINE k == op.mint  q == book[k]  y == Left(op.level, q.cost)  z == q.hit \cup {op.level}
             r == [q EXCEPT !.tokens = 0, !.cost = y, !.hit = z]
  <2>1. /\ book' = [book EXCEPT ![k].tokens = 0, ![k].cost = Left(op.level, @),
                                ![k].hit = @ \cup {op.level}]
        /\ disk' = book' /\ op' = [op EXCEPT !.at = "emptied"] /\ op.kind = "sell"
        /\ op.level \in Levels /\ op.record.final
        /\ UNCHANGED <<venue, now, breakers, lots, lastBase, crashes>>
    BY <1>15 DEF EmptyByLeg, Selling
  <2>2. op \in SellCall /\ k \in Mints
    BY <2>1, SaleInProgress
  <2>3. q \in Row
    BY <1>0, <2>2
  <2>4. y \in Nat /\ z \in SUBSET Levels
    BY <2>1, <2>3, LeftType DEF Row
  <2>5. book' = [book EXCEPT ![k] = r]
    BY <1>0, <2>1, <2>2
  <2>6. CallTyped'
    <3>1. op' \in SellCall /\ op'.record = op.record /\ op'.at = "emptied" /\ op'.level = op.level
      BY <2>1, <2>2, GoesOn
    <3> QED
      BY <2>1, <3>1 DEF CallTyped
  <2> HIDE DEF k, q, y, z
  <2>7. r \in Row
    BY <2>3, <2>4 DEF Row
  <2> HIDE DEF r
  <2>8. BooksTyped'
    BY <1>0, <2>1, <2>5, <2>7 DEF BooksTyped
  <2> QED
    BY <2>1, <2>6, <2>8 DEF Typed, VenueTypeOK, BreakerTypeOK, venue, breakers
<1>16. ASSUME NEW m \in Mints, DropEmpty(m) PROVE Typed'
  <2>1. /\ book' = [book EXCEPT ![m] = NoRow]
        /\ UNCHANGED <<venue, now, breakers, disk, op, lots, lastBase, crashes>>
    BY <1>16 DEF DropEmpty
  <2>2. NoRow \in Row
    BY DEF NoRow, Row
  <2>3. BooksTyped'
    BY <1>0, <2>1, <2>2 DEF BooksTyped
  <2> QED
    BY <2>1, <2>3 DEF Typed, VenueTypeOK, BreakerTypeOK, CallTyped, venue, breakers
<1> QED
    BY <1>1, <1>2, <1>3, <1>4, <1>5, <1>6, <1>7, <1>8, <1>9, <1>10, <1>11, <1>12, <1>13, <1>14,
       <1>15, <1>16
       DEF Next

LEMMA TypedStart == Init => Typed
<1> SUFFICES ASSUME Init PROVE Typed
    OBVIOUS
<1>1. NoRow \in Row
    BY DEF NoRow, Row
<1>2. VenueTypeOK
    BY Numbers DEF Init, VenueInit, VenueTypeOK
<1>3. BreakerTypeOK
    BY Numbers DEF Init, BreakerInit, BreakerTypeOK
<1>4. BooksTyped
    BY <1>1, Numbers DEF Init, BooksTyped
<1> QED
    BY <1>2, <1>3, <1>4 DEF Init, Typed, CallTyped

(* TypeOK: balance, quotes, holdings, sizes and baselines are numbers from *)
(* zero up, in every session and whatever the ladder: no deduction,        *)
(* fee or rounding of a leg leaves a debt or a negative holding.           *)
THEOREM SessionTyped == Spec => []TypeOK
<1>1. Typed => TypeOK
  <2> SUFFICES ASSUME Typed PROVE TypeOK
      OBVIOUS
  <2>1. \A m \in Mints : book[m].cost \in Nat /\ book[m].tokens \in Nat
      BY DEF Typed, BooksTyped, Row
  <2> QED
      BY <2>1 DEF Typed, BooksTyped, TypeOK
<1> QED
    BY <1>1, TypedStart, TypedKept, PTL DEF Spec

-----------------------------------------------------------------------------
(* Holdings                                                                *)

(* A holding h is behind n tokens, or a restart has forgotten it.          *)
Backed(h, n, restarts) == (h = 0 /\ restarts > 0) \/ h >= n

Waits(m) == op # Idle /\ m = op.mint

(* A sale that empties its position is on its way out of the book; a leg   *)
(* has left what the book will know of when it is booked.                  *)
SaleCovered ==
    IF op.record.final THEN op.at \notin {"sold", "emptied"} => book[op.mint].lot = 0
    ELSE Backed(held[op.mint], Left(op.level, book[op.mint].tokens), crashes)

Covered ==
    /\ \A m \in Mints : book[m].lot # 0 /\ ~ Waits(m) => Backed(held[m], book[m].tokens, crashes)
    /\ op.kind = "sell" => SaleCovered

(* A step that touches neither holdings nor amounts nor the call.          *)
LEMMA CoveredStands ==
    ASSUME Covered, UNCHANGED <<held, op, crashes>>,
           \A m \in Mints : book'[m].lot = book[m].lot /\ book'[m].tokens = book[m].tokens,
           op.kind = "sell" => op.mint \in Mints
    PROVE  Covered'
<1>1. \A m \in Mints : book'[m].lot # 0 /\ ~ Waits(m)' => Backed(held[m], book[m].tokens, crashes)'
    BY DEF Covered, Waits, Backed
<1>2. ASSUME op'.kind = "sell" PROVE SaleCovered'
  <2>1. op' = op /\ op.mint \in Mints /\ SaleCovered
      BY <1>2 DEF Covered
  <2>2. book'[op.mint].lot = book[op.mint].lot /\ book'[op.mint].tokens = book[op.mint].tokens
      BY <2>1
  <2>3. Left(op.level, book[op.mint].tokens)' = Left(op.level, book[op.mint].tokens)
      BY <2>1, <2>2 DEF Left
  <2> QED
      BY <2>1, <2>2, <2>3 DEF SaleCovered, Backed
<1> QED
    BY <1>1, <1>2 DEF Covered

(* Each step keeps the holdings behind the book.                           *)
LEMMA CoveredKept == Typed /\ Covered /\ [Next]_vars => Covered'
<1> SUFFICES ASSUME Typed, Covered, [Next]_vars PROVE Covered'
    OBVIOUS
<1>0. /\ quote \in [Mints -> Nat] /\ held \in [Mints -> Nat] /\ book \in [Mints -> Row]
      /\ disk \in [Mints -> Row] /\ crashes \in Nat
    BY DEF Typed, VenueTypeOK, BooksTyped
<1>1. op.kind = "sell" => op.mint \in Mints
    BY SaleInProgress
<1>2. ASSUME op = Idle PROVE \A m \in Mints : book[m].lot # 0 => Backed(held[m], book[m].tokens, crashes)
    BY <1>2 DEF Covered, Waits
<1>3. CASE RejectToken \/ Tick \/ UNCHANGED vars
    BY <1>1, <1>3, CoveredStands DEF RejectToken, Tick, vars, venue, session
<1>4. ASSUME NEW m \in Mints, BuyFails(m) PROVE Covered'
    BY <1>1, <1>4, CoveredStands DEF BuyFails, Buy, ChargeFee
<1>5. ASSUME NEW m \in Mints, NEW p \in SpotPrices, BuyFills(m, p) PROVE Covered'
  <2>1. /\ op = Idle /\ UNCHANGED <<book, crashes>>
        /\ \/ held' = held /\ op' = op
           \/ /\ held' = [held EXCEPT ![m] = TokensFor(SizeOf, p)]
              /\ op' = [kind |-> "buy", mint |-> m, sol |-> SizeOf, at |-> "filled"]
    BY <1>5 DEF BuyFills, Buy, FillBuy
  <2>2. CASE held' = held /\ op' = op
    BY <1>1, <2>1, <2>2, CoveredStands
  <2>3. CASE /\ held' = [held EXCEPT ![m] = TokensFor(SizeOf, p)]
             /\ op' = [kind |-> "buy", mint |-> m, sol |-> SizeOf, at |-> "filled"]
    <3>1. op'.kind = "buy" /\ op'.mint = m /\ op' # Idle
      BY <2>3 DEF Idle
    <3>2. \A k \in Mints : k # m => held'[k] = held[k]
      BY <1>0, <2>3
    <3>3. \A k \in Mints : Waits(k)' <=> k = m
      BY <3>1 DEF Waits
    <3>4. \A k \in Mints : book'[k].lot # 0 /\ ~ Waits(k)' => Backed(held'[k], book'[k].tokens, crashes')
      BY <1>2, <2>1, <3>2, <3>3
    <3> QED
      BY <3>1, <3>4 DEF Covered
  <2> QED
    BY <2>1, <2>2, <2>3
<1>6. CASE OpenPosition
  <2> DEFINE k == op.mint
             new == [NoRow EXCEPT !.lot = lots + 1, !.cost = op.sol, !.tokens = held[k],
                        !.entry = (op.sol * 100) \div held[k], !.cur = (op.sol * 100) \div held[k]]
  <2>1. /\ op.kind = "buy" /\ op' = Idle /\ UNCHANGED <<held, crashes>>
        /\ book' = [book EXCEPT ![k] = new]
    BY <1>6 DEF OpenPosition, venue
  <2>2. k \in Mints
    BY <2>1 DEF Typed, CallTyped, Idle, BuyCall, SellCall
  <2>3. new.tokens = held[k]
    <3> DEFINE n == lots + 1  c == op.sol  e == (op.sol * 100) \div held[k]
    <3>1. new = [NoRow EXCEPT !.lot = n, !.cost = c, !.tokens = held[k], !.entry = e, !.cur = e]
      OBVIOUS
    <3> HIDE DEF new, n, c, e
    <3> QED
      BY <3>1 DEF NoRow
  <2> HIDE DEF new, k
  <2>4. \A m \in Mints : book'[m].lot # 0 => Backed(held'[m], book'[m].tokens, crashes')
    <3> TAKE m \in Mints
    <3>1. CASE m = k
      <4>1. book'[m].tokens = held[k] /\ held[k] \in Nat
        BY <1>0, <2>1, <2>2, <2>3, <3>1
      <4> QED
        BY <2>1, <3>1, <4>1 DEF Backed
    <3>2. CASE m # k
      <4>1. book'[m] = book[m] /\ ~ Waits(m)
        BY <1>0, <2>1, <3>2 DEF Waits, k
      <4> QED
        BY <2>1, <4>1 DEF Covered
    <3> QED
      BY <3>1, <3>2
  <2>5. op'.kind # "sell"
    BY <2>1 DEF Idle
  <2> QED
    BY <2>4, <2>5 DEF Covered
<1>7. ASSUME NEW m \in Mints, NEW level \in Levels \cup {Everything}, SellFails(m, level) PROVE Covered'
    BY <1>1, <1>7, CoveredStands DEF SellFails, ChargeFee
<1>8. ASSUME NEW m \in Mints, NEW level \in Levels \cup {Everything}, NEW stampede \in BOOLEAN,
             SellFills(m, level, stampede)
      PROVE  Covered'
  <2> DEFINE sold == Resolve(m, Pct(level))
  <2>1. /\ op = Idle /\ book[m].lot # 0 /\ UNCHANGED <<book, crashes>>
        /\ held' = [held EXCEPT ![m] = MostOf(held[m] - sold, 0)]
    BY <1>8 DEF SellFills, MaySell, FillSell
  <2>2. /\ op'.kind = "sell" /\ op'.mint = m /\ op'.level = level /\ op'.at = "sold"
        /\ op'.record.final = Empties(m, level) /\ op' # Idle
    BY <1>8 DEF SellFills, Idle
  <2>3. \A k \in Mints : book'[k].lot # 0 /\ ~ Waits(k)' => Backed(held'[k], book'[k].tokens, crashes')
    BY <1>0, <1>2, <2>1, <2>2 DEF Waits
  <2>4. ASSUME ~ Empties(m, level)
        PROVE  Backed(held'[m], Left(level, book[m].tokens), crashes)
    <3>1. level \in Levels /\ Pct(level) = TakeProfit[level].sell
      BY <2>4 DEF Empties, Pct
    <3>2. held[m] \in Nat /\ book[m].tokens \in Nat /\ sold \in Nat
      BY <1>0, SaleType DEF Row
    <3>3. held'[m] = MostOf(held[m] - sold, 0)
      BY <1>0, <2>1
    <3>4. CASE held[m] = 0 /\ crashes > 0
      BY <3>2, <3>3, <3>4 DEF MostOf, Backed
    <3>5. CASE held[m] >= book[m].tokens
      <4>1. Left(level, book[m].tokens) <= MostOf(held[m] - (held[m] * TakeProfit[level].sell) \div 100, 0)
        BY <3>1, <3>2, <3>5, LegCovered
      <4>2. sold = (held[m] * TakeProfit[level].sell) \div 100
        BY <3>1 DEF Resolve
      <4>3. MostOf(held[m] - sold, 0) \in Nat /\ Left(level, book[m].tokens) \in Nat
        BY <3>1, <3>2, LeftType DEF MostOf
      <4> QED
        BY <3>3, <4>1, <4>2, <4>3 DEF Backed
    <3> QED
      BY <1>2, <2>1, <3>4, <3>5 DEF Backed
  <2>5. SaleCovered'
    BY <2>1, <2>2, <2>4 DEF SaleCovered, Left
  <2> QED
    BY <2>3, <2>5 DEF Covered
<1>9. CASE DropFromBook
  <2>1. /\ op.kind = "sell" /\ op' = [op EXCEPT !.at = "dropped"] /\ op.record.final
        /\ book' = [book EXCEPT ![op.mint] = NoRow] /\ UNCHANGED <<held, crashes>>
    BY <1>9 DEF DropFromBook, Closing, venue
  <2>2. op \in SellCall /\ op.mint \in Mints
    BY <2>1, SaleInProgress
  <2>3. op' \in SellCall /\ op'.record = op.record /\ op'.mint = op.mint
    BY <2>1, <2>2, GoesOn
  <2>4. book'[op.mint].lot = 0 /\ \A m \in Mints : m # op.mint => book'[m] = book[m]
    BY <1>0, <2>1, <2>2 DEF NoRow
  <2>5. op # Idle
    BY <2>1 DEF Idle
  <2>6. \A m \in Mints : book'[m].lot # 0 /\ ~ Waits(m)' => Backed(held'[m], book'[m].tokens, crashes')
    BY <2>1, <2>3, <2>4, <2>5 DEF Covered, Waits
  <2>7. SaleCovered'
    BY <2>1, <2>3, <2>4 DEF SaleCovered
  <2> QED
    BY <2>6, <2>7 DEF Covered
<1>10. CASE LogJsonl
  <2>1. /\ op.kind = "sell" /\ op' = [op EXCEPT !.at = "jsonl"] /\ (op.record.final <=> op.at = "dropped")
        /\ UNCHANGED <<held, book, crashes>>
    BY <1>10 DEF LogJsonl, venue
  <2>2. op \in SellCall /\ op.mint \in Mints
    BY <2>1, SaleInProgress
  <2>3. op' \in SellCall /\ op'.record = op.record /\ op'.mint = op.mint /\ op'.level = op.level
    BY <2>1, <2>2, GoesOn
  <2>4. op # Idle /\ op' # Idle
    BY <2>1, <2>3 DEF Idle, SellCall
  <2>5. \A m \in Mints : book'[m].lot # 0 /\ ~ Waits(m)' => Backed(held'[m], book'[m].tokens, crashes')
    BY <2>1, <2>3, <2>4 DEF Covered, Waits
  <2>6. SaleCovered'
    BY <2>1, <2>3 DEF Covered, SaleCovered, Left
  <2> QED
    BY <2>5, <2>6 DEF Covered
<1>11. CASE LogRow
  <2>1. /\ op.kind = "sell" /\ op.at = "jsonl" /\ UNCHANGED <<held, book, crashes>>
        /\ \/ op.record.final /\ op' = Idle
           \/ ~ op.record.final /\ op' = [op EXCEPT !.at = "rows"]
    BY <1>11 DEF LogRow, Selling, venue
  <2>2. op \in SellCall /\ op.mint \in Mints /\ SaleCovered
    BY <2>1, SaleInProgress DEF Covered
  <2>3. CASE op.record.final /\ op' = Idle
    <3>1. book[op.mint].lot = 0
      BY <2>1, <2>2, <2>3 DEF SaleCovered
    <3>2. op'.kind # "sell"
      BY <2>3 DEF Idle
    <3>3. \A m \in Mints : book'[m].lot # 0 /\ ~ Waits(m)' => Backed(held'[m], book'[m].tokens, crashes')
      BY <2>1, <3>1 DEF Covered, Waits
    <3> QED
      BY <3>2, <3>3 DEF Covered
  <2>4. CASE ~ op.record.final /\ op' = [op EXCEPT !.at = "rows"]
    <3>1. op' \in SellCall /\ op'.record = op.record /\ op'.mint = op.mint /\ op'.level = op.level
      BY <2>2, <2>4, GoesOn
    <3>2. op # Idle /\ op' # Idle
      BY <2>1, <3>1 DEF Idle, SellCall
    <3>3. \A m \in Mints : book'[m].lot # 0 /\ ~ Waits(m)' => Backed(held'[m], book'[m].tokens, crashes')
      BY <2>1, <3>1, <3>2 DEF Covered, Waits
    <3>4. SaleCovered'
      BY <2>1, <2>2, <2>4, <3>1 DEF SaleCovered, Left
    <3> QED
      BY <3>3, <3>4 DEF Covered
  <2> QED
    BY <2>1, <2>3, <2>4
<1>12. CASE BookLeg
  <2> DEFINE k == op.mint  q == book[k]  x == Left(op.level, q.tokens)  y == Left(op.level, q.cost)
             z == q.hit \cup {op.level}
             r == [q EXCEPT !.tokens = x, !.cost = y, !.hit = z]
  <2>1. /\ book' = [book EXCEPT ![k].tokens = Left(op.level, @), ![k].cost = Left(op.level, @),
                                ![k].hit = @ \cup {op.level}]
        /\ op' = Idle /\ op.kind = "sell" /\ op.at = "rows" /\ UNCHANGED <<held, crashes>>
    BY <1>12 DEF BookLeg, Selling, venue
  <2>2. k \in Mints /\ ~ op.record.final
    BY <2>1, SaleInProgress
  <2>3. Backed(held[k], x, crashes)
    BY <2>1, <2>2 DEF Covered, SaleCovered
  <2>4. book' = [book EXCEPT ![k] = r]
    BY <1>0, <2>1, <2>2
  <2>5. q \in Row
    BY <1>0, <2>2
  <2> HIDE DEF k, q, x, y, z
  <2>6. r.tokens = x
    BY <2>5 DEF Row
  <2> HIDE DEF r
  <2>7. book'[k].tokens = x /\ \A m \in Mints : m # k => book'[m] = book[m]
    BY <1>0, <2>2, <2>4, <2>6
  <2>8. \A m \in Mints : m # k => ~ Waits(m)
    BY DEF Waits, k
  <2>9. \A m \in Mints : book'[m].lot # 0 => Backed(held'[m], book'[m].tokens, crashes')
    BY <2>1, <2>3, <2>7, <2>8 DEF Covered
  <2>10. op'.kind # "sell"
    BY <2>1 DEF Idle
  <2> QED
    BY <2>9, <2>10 DEF Covered
<1>13. ASSUME NEW m \in Mints, NEW p \in Quotes, UpdatePrice(m, p) PROVE Covered'
  <2>1. /\ book' = book \/ book' = [book EXCEPT ![m].cur = p, ![m].seen = @ \cup {p}, ![m].updated = TRUE]
        /\ UNCHANGED <<held, op, crashes>>
    BY <1>13 DEF UpdatePrice, AcceptPrice, Quote
  <2>2. \A k \in Mints : book'[k].lot = book[k].lot /\ book'[k].tokens = book[k].tokens
    <3> DEFINE q == book[m]  y == q.seen \cup {p}  r == [q EXCEPT !.cur = p, !.seen = y, !.updated = TRUE]
    <3>1. q \in Row
      BY <1>0
    <3>2. book' = book \/ book' = [book EXCEPT ![m] = r]
      BY <1>0, <2>1
    <3> HIDE DEF q, y
    <3>3. r.lot = q.lot /\ r.tokens = q.tokens
      BY <3>1 DEF Row
    <3> HIDE DEF r
    <3> QED
      BY <1>0, <3>2, <3>3 DEF q
  <2> QED
    BY <1>1, <2>1, <2>2, CoveredStands
<1>14. CASE Crash
  <2>1. held' = [m \in Mints |-> 0] /\ crashes' = crashes + 1 /\ op' = Idle
    BY <1>14 DEF Crash, VenueRestart
  <2>2. \A m \in Mints : held'[m] = 0 /\ crashes' > 0
    BY <1>0, <2>1
  <2>3. op'.kind # "sell"
    BY <2>1 DEF Idle
  <2> QED
    BY <2>2, <2>3 DEF Covered, Backed
<1>15. CASE EmptyByLeg
  <2>1. /\ op.kind = "sell" /\ op' = [op EXCEPT !.at = "emptied"] /\ op.record.final
        /\ book' = [book EXCEPT ![op.mint] = book'[op.mint]] /\ UNCHANGED <<held, crashes>>
    BY <1>0, <1>1, <1>15 DEF EmptyByLeg, Selling, venue
  <2>2. op \in SellCall /\ op.mint \in Mints
    BY <2>1, SaleInProgress
  <2>3. op' \in SellCall /\ op'.record = op.record /\ op'.mint = op.mint /\ op'.at = "emptied"
    BY <2>1, <2>2, GoesOn
  <2>4. op # Idle /\ op' # Idle
    BY <2>1, <2>3 DEF Idle, SellCall
  <2>5. \A m \in Mints : m # op.mint => book'[m] = book[m]
    BY <1>0, <2>1
  <2>6. \A m \in Mints : book'[m].lot # 0 /\ ~ Waits(m)' => Backed(held'[m], book'[m].tokens, crashes')
    BY <2>1, <2>3, <2>4, <2>5 DEF Covered, Waits
  <2>7. SaleCovered'
    BY <2>1, <2>3 DEF SaleCovered
  <2> QED
    BY <2>6, <2>7 DEF Covered
<1>16. ASSUME NEW m \in Mints, DropEmpty(m) PROVE Covered'
  <2>1. op = Idle /\ book' = [book EXCEPT ![m] = NoRow] /\ UNCHANGED <<held, op, crashes>>
    BY <1>16 DEF DropEmpty, venue
  <2>2. \A k \in Mints : book'[k].lot # 0 => book'[k] = book[k]
    BY <1>0, <2>1 DEF NoRow
  <2>3. \A k \in Mints : book'[k].lot # 0 => Backed(held'[k], book'[k].tokens, crashes')
    BY <1>2, <2>1, <2>2
  <2>4. op'.kind # "sell"
    BY <2>1 DEF Idle
  <2> QED
    BY <2>3, <2>4 DEF Covered
<1> QED
    BY <1>3, <1>4, <1>5, <1>6, <1>7, <1>8, <1>9, <1>10, <1>11, <1>12, <1>13, <1>14, <1>15, <1>16 DEF Next

(* HeldCoversBook: the executor and the book round every leg down on their *)
(* own (_resolve_token_amount and _check_position), for any ladder, size   *)
(* and price, and the executor is never left with less than the book       *)
(* believes; only a restart, which forgets the holdings, breaks the pair.  *)
THEOREM HoldingsCovered == Spec => []HeldCoversBook
<1>1. Init => Covered
  <2> SUFFICES ASSUME Init PROVE Covered
      OBVIOUS
  <2>1. \A m \in Mints : book[m].lot = 0
      BY DEF Init, NoRow
  <2>2. op.kind # "sell"
      BY DEF Init, Idle
  <2> QED
      BY <2>1, <2>2 DEF Covered
<1>2. Covered => HeldCoversBook
    BY DEF Covered, HeldCoversBook, Open, Waits, Backed
<1> QED
    BY <1>1, <1>2, TypedStart, TypedKept, CoveredKept, PTL DEF Spec
-----------------------------------------------------------------------------
(* Buys                                                                    *)

(* A call that becomes a buy is a fill that was admitted and got tokens.   *)
LEMMA BuyIsFill ==
    ASSUME Typed, [Next]_vars, op = Idle, op'.kind = "buy"
    PROVE  \E m \in Mints, p \in SpotPrices :
              /\ BuyFills(m, p) /\ TokensFor(SizeOf, p) > 0
              /\ op'.sol = SizeOf /\ bal' = After(After(bal, BuyFee(SizeOf)), SizeOf)
<1>1. op.kind # "sell" /\ op.kind # "buy" /\ op' # op
    BY DEF Idle
<1>2. ~ (OpenPosition \/ EmptyByLeg \/ DropFromBook \/ LogJsonl \/ LogRow \/ BookLeg)
    BY <1>1 DEF OpenPosition, EmptyByLeg, DropFromBook, Closing, LogJsonl, LogRow, BookLeg, Selling
<1>3. ~ (RejectToken \/ Tick \/ UNCHANGED vars)
    BY <1>1 DEF RejectToken, Tick, vars, session
<1>4. ~ Crash
    BY <1>1 DEF Crash
<1>5. \A m \in Mints : ~ BuyFails(m)
    BY <1>1 DEF BuyFails
<1>6. \A m, level : ~ SellFails(m, level)
    BY <1>1 DEF SellFails
<1>7. \A m, level, stampede : ~ SellFills(m, level, stampede)
    BY DEF SellFills
<1>8. \A m, p : ~ DropEmpty(m) /\ ~ UpdatePrice(m, p)
    BY <1>1 DEF DropEmpty, UpdatePrice
<1>9. PICK m \in Mints, p \in SpotPrices : BuyFills(m, p)
    BY <1>2, <1>3, <1>4, <1>5, <1>6, <1>7, <1>8 DEF Next
<1>10. /\ TokensFor(SizeOf, p) > 0 /\ op' = [kind |-> "buy", mint |-> m, sol |-> SizeOf, at |-> "filled"]
       /\ FillBuy(m, SizeOf, p)
    BY <1>1, <1>9 DEF BuyFills
<1>11. op'.sol = SizeOf
    BY <1>10
<1> QED
    BY <1>9, <1>10, <1>11 DEF FillBuy

(* Such a fill was of something, and an admitted one.                      *)
LEMMA FillSize ==
    ASSUME Typed, NEW m \in Mints, NEW p \in SpotPrices, BuyFills(m, p), TokensFor(SizeOf, p) > 0
    PROVE  /\ Admits /\ LookAtBreakers
           /\ SizeOf \in Nat /\ SizeOf > 0 /\ SizeOf * 10000 <= bal * 9000 /\ bal \in Nat /\ bal > 0
<1>1. Admits /\ LookAtBreakers
    BY DEF BuyFills, Buy
<1>2. SizeOf \in Nat /\ SizeOf * 10000 <= bal * 9000 /\ bal \in Nat
    BY <1>1, SizeFits, EquityType
<1>3. p \in Nat /\ p > 0
    BY SessionAssumption
<1> DEFINE size == SizeOf
<1>4. size > 0
    BY <1>2, <1>3, TokensType
<1>5. size \in Nat /\ size * 10000 <= bal * 9000
    BY <1>2
<1> HIDE DEF size
<1>6. bal > 0
    BY <1>2, <1>4, <1>5
<1> QED
    BY <1>1, <1>2, <1>4, <1>6 DEF size

(* BuyPaidInFull: PaperWallet.deduct stops at zero, but the sizer and the  *)
(* fee never let a buy reach that stop, for any balance, streak, win rate  *)
(* and size limits: what a buy costs is always there.                      *)
THEOREM BuysPaidInFull == Spec => BuyPaidInFull
<1>1. ASSUME Typed, [Next]_vars
      PROVE  [op = Idle /\ op'.kind = "buy" => bal' = bal - BuyFee(op'.sol) - op'.sol]_op
  <2> SUFFICES ASSUME op = Idle, op'.kind = "buy"
               PROVE  bal' = bal - BuyFee(op'.sol) - op'.sol
      OBVIOUS
  <2>1. PICK m \in Mints, p \in SpotPrices :
          /\ BuyFills(m, p) /\ TokensFor(SizeOf, p) > 0
          /\ op'.sol = SizeOf /\ bal' = After(After(bal, BuyFee(SizeOf)), SizeOf)
      BY <1>1, BuyIsFill
  <2> DEFINE size == SizeOf
  <2>2. size \in Nat /\ size > 0 /\ size * 10000 <= bal * 9000 /\ bal \in Nat
      BY <1>1, <2>1, FillSize
  <2>3. op'.sol = size /\ bal' = After(After(bal, BuyFee(size)), size)
      BY <2>1
  <2> HIDE DEF size
  <2>4. After(After(bal, BuyFee(size)), size) = bal - BuyFee(size) - size
      BY <2>2, FeeFits
  <2> QED
      BY <2>3, <2>4
<1> QED
    BY <1>1, TypedStart, TypedKept, PTL DEF Spec, BuyPaidInFull

(* The baseline of a day is at least 80 % of the one before.               *)
Bands == dayBase * 100 >= lastBase * 80

(* What a look at the breakers makes of the two baselines.                 *)
LEMMA BandsLook ==
    ASSUME Typed, Bands, LookAtBreakers
    PROVE  /\ Bands'
           /\ ~ StreakPaused =>
                \/ dayBase' = Equity /\ lastBase' = dayBase /\ (dayBase = 0 \/ Equity * 100 >= dayBase * 80)
                \/ dayBase' = dayBase /\ lastBase' \in {dayBase, lastBase}
<1> DEFINE e == Equity
<1>1. e \in Nat /\ dayBase \in Nat /\ lastBase \in Nat
    BY EquityType DEF Typed, BreakerTypeOK
<1>2. /\ dayBase' = IF StreakPaused THEN dayBase ELSE BaseAt(e)
      /\ dayDate' = IF StreakPaused THEN dayDate ELSE Today
      /\ lastBase' = IF dayDate' # dayDate THEN dayBase ELSE lastBase
    BY DEF LookAtBreakers, Look
<1> HIDE DEF e, Today, StreakPaused
<1>3. CASE StreakPaused
    BY <1>1, <1>2, <1>3 DEF Bands
<1>4. CASE ~ StreakPaused /\ Rollover /\ ~ KeepsBaseline(e)
  <2>1. dayBase' = e /\ lastBase' = dayBase
      BY <1>2, <1>4 DEF BaseAt, Rollover
  <2>2. dayBase = 0 \/ e * 100 >= dayBase * 80
      BY <1>1, <1>4 DEF KeepsBaseline
  <2>3. e * 100 >= dayBase * 80
      BY <1>1, <2>2
  <2>4. Bands'
      BY <2>1, <2>3 DEF Bands
  <2> QED
      BY <2>1, <2>2, <2>4 DEF e
<1>5. CASE ~ StreakPaused /\ ~ (Rollover /\ ~ KeepsBaseline(e))
  <2>1. dayBase' = dayBase
      BY <1>2, <1>5 DEF BaseAt
  <2>2. lastBase' \in {dayBase, lastBase}
      BY <1>2
  <2>3. dayBase * 100 >= dayBase * 80 /\ dayBase * 100 >= lastBase * 80
      BY <1>1 DEF Bands
  <2>4. Bands'
      BY <2>1, <2>2, <2>3 DEF Bands
  <2> QED
      BY <2>1, <2>2, <2>4
<1> QED
    BY <1>3, <1>4, <1>5

(* Each step keeps the baselines in proportion.                            *)
LEMMA BandsKept == Typed /\ Bands /\ [Next]_vars => Bands'
<1> SUFFICES ASSUME Typed, Bands, [Next]_vars PROVE Bands'
    OBVIOUS
<1>1. CASE LookAtBreakers
    BY <1>1, BandsLook
<1>2. CASE UNCHANGED <<dayBase, lastBase>>
    BY <1>2 DEF Bands
<1>3. CASE Crash
  <2>1. dayBase' = 0 /\ lastBase' = 0
      BY <1>3 DEF Crash, BreakerRestart
  <2> QED
      BY <2>1 DEF Bands
<1>4. CASE RejectToken \/ \E m \in Mints : BuyFails(m) \/ (\E p \in SpotPrices : BuyFills(m, p))
    BY <1>1, <1>4 DEF RejectToken, BuyFails, BuyFills, Buy
<1>5. CASE LogRow
    BY <1>2, <1>5 DEF LogRow, CountClose, breakers
<1>6. CASE OpenPosition \/ EmptyByLeg \/ DropFromBook \/ LogJsonl \/ BookLeg
    BY <1>2, <1>6 DEF OpenPosition, EmptyByLeg, DropFromBook, LogJsonl, BookLeg, breakers
<1>7. CASE \E m \in Mints, level \in Levels \cup {Everything} :
              SellFails(m, level) \/ (\E stampede \in BOOLEAN : SellFills(m, level, stampede))
    BY <1>2, <1>7 DEF SellFails, SellFills, breakers
<1>8. CASE \E m \in Mints : DropEmpty(m) \/ \E p \in Quotes : UpdatePrice(m, p)
    BY <1>2, <1>8 DEF DropEmpty, UpdatePrice, breakers
<1>9. CASE Tick \/ UNCHANGED vars
    BY <1>2, <1>9 DEF Tick, vars, breakers, session
<1> QED
    BY <1>3, <1>4, <1>5, <1>6, <1>7, <1>8, <1>9 DEF Next

(* An equity above the loss band of a baseline.                            *)
LEMMA AboveBand ==
    ASSUME NEW e \in Nat, NEW base \in Nat, base > 0, NEW d \in 0..100,
           ~ ((e - base) * 100 <= -d * base)
    PROVE  e * 100 > base * (100 - d) /\ base * (100 - d) \in Nat
<1>1. base * (100 - d) = base * 100 - d * base
    BY Z3
<1>2. base * (100 - d) \in Nat /\ d * base \in Nat
    BY MulNat
<1>3. -d * base = -(d * base)
    BY Z3
<1> QED
    BY <1>1, <1>2, <1>3

(* NoCleanSlate: _is_paused keeps the old baseline over midnight when the  *)
(* equity has fallen below 80 % of it, so a process that still buys is     *)
(* above both days' loss bands in a row, for any limit, prices and clock.  *)
THEOREM NoFreshStart == Spec => NoCleanSlate
<1>1. ASSUME Typed, Bands, [Next]_vars
      PROVE  [op = Idle /\ op'.kind = "buy"
                => Equity * 10000 > lastBase' * 80 * (100 - DailyLossPct)]_vars
  <2> SUFFICES ASSUME op = Idle, op'.kind = "buy"
               PROVE  Equity * 10000 > lastBase' * 80 * (100 - DailyLossPct)
      OBVIOUS
  <2>1. PICK m \in Mints, p \in SpotPrices : BuyFills(m, p) /\ TokensFor(SizeOf, p) > 0
      BY <1>1, BuyIsFill
  <2>2. Admits /\ LookAtBreakers /\ bal \in Nat /\ bal > 0
      BY <1>1, <2>1, FillSize
  <2> DEFINE e == Equity  k == 100 - DailyLossPct
  <2>3. e \in Nat /\ e > 0 /\ dayBase \in Nat /\ lastBase \in Nat /\ k \in Nat /\ k <= 100
      BY <1>1, <2>2, EquityType, Numbers DEF Typed, BreakerTypeOK
  <2>4. dayBase' = BaseAt(e) /\ ~ StreakPaused /\ ~ OutsideBands(e)
      BY <2>2 DEF Admits, Paused, LookAtBreakers, Look
  <2>5. /\ Bands'
        /\ \/ dayBase' = e /\ lastBase' = dayBase /\ (dayBase = 0 \/ e * 100 >= dayBase * 80)
           \/ dayBase' = dayBase /\ lastBase' \in {dayBase, lastBase}
      BY <1>1, <2>2, <2>4, BandsLook
  <2> HIDE DEF e
  <2> DEFINE base == dayBase'  last == lastBase'
  <2>6. base \in Nat /\ last \in Nat /\ base * 100 >= last * 80
      BY <2>3, <2>5 DEF Bands
  <2>7. base > 0 => e * 100 > base * k /\ base * k \in Nat
    <3> SUFFICES ASSUME base > 0 PROVE e * 100 > base * k /\ base * k \in Nat
        OBVIOUS
    <3>1. ~ ((e - base) * 100 <= -DailyLossPct * base)
        BY <2>4 DEF OutsideBands
    <3> HIDE DEF base
    <3> QED
        BY <2>3, <2>6, <3>1, Numbers, AboveBand
  <2>8. e * 10000 > last * 80 * k
    <3>1. CASE base = 0
      <4>1. last = 0
        <5> HIDE DEF base, last
        <5> QED
          BY <2>6, <3>1
      <4>2. last * 80 * k = 0
          BY <2>3, <4>1
      <4> QED
          BY <2>3, <4>2
    <3>2. CASE base > 0
      <4> HIDE DEF base, last, k
      <4>1. k * (last * 80) <= k * (base * 100) /\ k * (last * 80) \in Nat
          BY <2>3, <2>6, MulMono, MulNat
      <4>2. k * (last * 80) = last * 80 * k /\ k * (base * 100) = (base * k) * 100
          BY <2>3, <2>6, Z3
      <4> DEFINE x == base * k  y == last * 80 * k
      <4>3. x \in Nat /\ e * 100 > x
          BY <2>7, <3>2
      <4>4. y \in Nat /\ y <= x * 100
          BY <4>1, <4>2
      <4> HIDE DEF x, y
      <4>5. e * 10000 > y
          BY <2>3, <4>3, <4>4
      <4> QED
          BY <4>5 DEF y
    <3> QED
        BY <2>6, <3>1, <3>2
  <2> QED
      BY <2>8 DEF e
<1>2. Init => Bands
    BY DEF Init, BreakerInit, Bands
<1> QED
    BY <1>1, <1>2, TypedStart, TypedKept, BandsKept, PTL DEF Spec, NoCleanSlate
-----------------------------------------------------------------------------
(* Losing runs                                                             *)

(* The closes in a list from a place on, and the ones after a place.       *)
Closes(log, from) == {i \in (from + 1)..Len(log) : log[i].final}
Beyond(C, i) == {j \in C : j > i}

(* A trade that ended a losing run: it won, or its pause ends by `until`.  *)
Relief(t, until) == t.won \/ t.at + StreakPause <= until

(* At most s of the closes C followed the last relief.                     *)
Relieved(C, log, s, until) ==
    \/ Cardinality(C) <= s
    \/ \E i \in C : Cardinality(Beyond(C, i)) <= s /\ Relief(log[i], until)

(* A close is in the list a moment before it is counted.                   *)
Uncounted == op.kind = "sell" /\ op.record.final /\ op.at = "jsonl"

Counted == OwnCloses \ (IF Uncounted THEN {Len(closed)} ELSE {})

ClosesTyped ==
    /\ closed \in Seq(Trade) /\ loaded \in Nat /\ loaded <= Len(closed)
    /\ op.kind = "sell" => op.record.at = now
    /\ Uncounted => loaded < Len(closed) /\ closed[Len(closed)] = op.record

Streaks == ClosesTyped /\ Relieved(Counted, closed, streak, pauseUntil)

(* The closes in a list are finitely many places.                          *)
LEMMA ClosesType ==
    ASSUME NEW log \in Seq(Trade), NEW from \in Nat
    PROVE  Closes(log, from) \subseteq 1..Len(log) /\ IsFiniteSet(Closes(log, from))
<1>1. Closes(log, from) \subseteq 1..Len(log)
    BY DEF Closes
<1>2. IsFiniteSet(1..Len(log))
    BY FS_Interval
<1> QED
    BY <1>1, <1>2, FS_Subset

(* A trade at the end of a list is a close of its own, if it is one.       *)
LEMMA ClosesGrow ==
    ASSUME NEW log \in Seq(Trade), NEW from \in Nat, from <= Len(log), NEW t \in Trade
    PROVE  /\ t.final => Closes(Append(log, t), from) = Closes(log, from) \cup {Len(log) + 1}
           /\ ~ t.final => Closes(Append(log, t), from) = Closes(log, from)
           /\ Len(log) + 1 \notin Closes(log, from)
<1> DEFINE new == Append(log, t)  n == Len(log)
<1>1. /\ Len(new) = n + 1 /\ n \in Nat /\ new[n + 1] = t
      /\ \A i \in 1..n : new[i] = log[i]
    OBVIOUS
<1> HIDE DEF new, n
<1>2. \A i \in (from + 1)..(n + 1) : i = n + 1 \/ i \in (from + 1)..n
    BY <1>1
<1>3. from <= n /\ Closes(log, from) = {i \in (from + 1)..n : log[i].final}
      /\ Closes(new, from) = {i \in (from + 1)..(n + 1) : new[i].final}
    BY <1>1 DEF Closes, n
<1>4. n + 1 \notin Closes(log, from)
    BY <1>1, <1>3
<1>5. \A i \in (from + 1)..n : new[i] = log[i] /\ i \in (from + 1)..(n + 1)
    BY <1>1
<1>6. n + 1 \in (from + 1)..(n + 1)
    BY <1>1, <1>3
<1>7. t.final => Closes(new, from) = Closes(log, from) \cup {n + 1}
    BY <1>1, <1>2, <1>3, <1>5, <1>6
<1>8. ~ t.final => Closes(new, from) = Closes(log, from)
    BY <1>1, <1>2, <1>3, <1>5
<1> QED
    BY <1>4, <1>7, <1>8 DEF new, n

(* The closes keep their trades when the list grows.                       *)
LEMMA RelievedStands ==
    ASSUME NEW C, NEW log, NEW new, NEW s, NEW until, Relieved(C, log, s, until),
           \A i \in C : new[i] = log[i]
    PROVE  Relieved(C, new, s, until)
BY DEF Relieved

(* One more loss.                                                          *)
LEMMA OneMoreLoss ==
    ASSUME NEW n \in Nat, NEW C \in SUBSET (1..n), NEW log, NEW s \in Nat, NEW until,
           Relieved(C, log, s, until)
    PROVE  Relieved(C \cup {n + 1}, log, s + 1, until)
<1> DEFINE D == C \cup {n + 1}
<1>1. IsFiniteSet(1..n)
    BY FS_Interval
<1>2. IsFiniteSet(C) /\ n + 1 \notin C
  <2>1. IsFiniteSet(C)
      BY <1>1, FS_Subset
  <2>2. n + 1 \notin 1..n
      OBVIOUS
  <2> QED
      BY <2>1, <2>2
<1>3. CASE Cardinality(C) <= s
  <2>1. Cardinality(C) \in Nat /\ Cardinality(D) = Cardinality(C) + 1
      BY <1>2, FS_AddElement, FS_CardinalityType
  <2> QED
      BY <1>3, <2>1 DEF Relieved
<1>4. ASSUME NEW i \in C, Cardinality(Beyond(C, i)) <= s, Relief(log[i], until)
      PROVE  Relieved(D, log, s + 1, until)
  <2>1. IsFiniteSet(Beyond(C, i)) /\ n + 1 \notin Beyond(C, i)
      BY <1>2, FS_Subset DEF Beyond
  <2>2. Beyond(D, i) = Beyond(C, i) \cup {n + 1}
      BY DEF Beyond
  <2>3. Cardinality(Beyond(C, i)) \in Nat /\ Cardinality(Beyond(D, i)) = Cardinality(Beyond(C, i)) + 1
      BY <2>1, <2>2, FS_AddElement, FS_CardinalityType
  <2>4. Cardinality(Beyond(D, i)) <= s + 1
      BY <1>4, <2>3
  <2> HIDE DEF D
  <2>5. i \in D
      BY DEF D
  <2> QED
      BY <1>4, <2>4, <2>5 DEF Relieved
<1> QED
    BY <1>3, <1>4 DEF Relieved

(* The last close is a relief.                                             *)
LEMMA LastRelieves ==
    ASSUME NEW n \in Nat, NEW C \in SUBSET (1..n), NEW log, NEW s \in Nat, NEW until,
           Relief(log[n + 1], until)
    PROVE  Relieved(C \cup {n + 1}, log, s, until)
<1> DEFINE D == C \cup {n + 1}
<1>1. Beyond(D, n + 1) = {}
  <2>1. \A j \in D : ~ (j > n + 1)
      OBVIOUS
  <2> QED
      BY <2>1 DEF Beyond
<1>2. Cardinality(Beyond(D, n + 1)) = 0
    BY <1>1, FS_EmptySet
<1> HIDE DEF D
<1>3. n + 1 \in D
    BY DEF D
<1>4. Cardinality(Beyond(D, n + 1)) <= s
    BY <1>2
<1>5. Relieved(D, log, s, until)
    BY <1>3, <1>4 DEF Relieved
<1> QED
    BY <1>5 DEF D

(* A step that closes nothing.                                             *)
LEMMA StreaksStand ==
    ASSUME Streaks, ~ Uncounted, UNCHANGED <<closed, loaded, streak, pauseUntil>>,
           ~ Uncounted', op'.kind = "sell" => op'.record.at = now'
    PROVE  Streaks'
<1>1. ClosesTyped'
    BY DEF Streaks, ClosesTyped
<1>2. Counted = OwnCloses /\ Counted' = OwnCloses'
    BY DEF Counted
<1>3. OwnCloses' = OwnCloses
    BY DEF OwnCloses
<1>4. Relieved(Counted, closed, streak, pauseUntil)'
    BY <1>2, <1>3 DEF Streaks, Relieved, Relief, Beyond
<1> QED
    BY <1>1, <1>4 DEF Streaks

(* Each step keeps the streak.                                             *)
LEMMA StreaksKept == Filed /\ Typed /\ Streaks /\ [Next]_vars => Streaks'
<1> SUFFICES ASSUME Filed, Typed, Streaks, [Next]_vars PROVE Streaks'
    OBVIOUS
<1> USE DEF trades
<1>0. /\ closed \in Seq(Trade) /\ loaded \in Nat /\ loaded <= Len(closed)
      /\ now \in Nat /\ streak \in Nat /\ pauseUntil \in Nat
      /\ OwnCloses = Closes(closed, loaded)
    BY DEF Streaks, ClosesTyped, Typed, BreakerTypeOK, OwnCloses, Closes
<1>1. op = Idle => ~ Uncounted
    BY DEF Uncounted, Idle
<1>2. ASSUME UNCHANGED <<closed, loaded, streak, pauseUntil, op>>, now' = now \/ op = Idle PROVE Streaks'
  <2>1. CASE Uncounted
    <3>1. op' = op /\ now' = now
      BY <1>1, <1>2, <2>1
    <3>2. ClosesTyped'
      BY <1>2, <3>1 DEF Streaks, ClosesTyped, Uncounted
    <3>3. Counted' = Counted
      BY <1>2, <3>1 DEF Counted, OwnCloses, Uncounted
    <3> QED
      BY <1>2, <3>2, <3>3 DEF Streaks, Relieved, Relief, Beyond
  <2>2. CASE ~ Uncounted
    <3>1. ~ Uncounted'
      BY <1>2, <2>2 DEF Uncounted
    <3>2. op'.kind = "sell" => op'.record.at = now'
      BY <1>2 DEF Streaks, ClosesTyped, Idle
    <3> QED
      BY <1>2, <2>2, <3>1, <3>2, StreaksStand
  <2> QED
    BY <2>1, <2>2
<1>3. CASE RejectToken
  <2>1. UNCHANGED <<closed, loaded, streak, pauseUntil, op, now>>
    BY <1>3 DEF RejectToken, LookAtBreakers, Look
  <2> QED
    BY <1>2, <2>1
<1>4. ASSUME NEW m \in Mints, BuyFails(m) PROVE Streaks'
  <2>1. UNCHANGED <<closed, loaded, streak, pauseUntil, op, now>>
    BY <1>4 DEF BuyFails, Buy, LookAtBreakers, Look
  <2> QED
    BY <1>2, <2>1
<1>5. ASSUME NEW m \in Mints, NEW p \in SpotPrices, BuyFills(m, p) PROVE Streaks'
  <2>1. /\ UNCHANGED <<closed, loaded, streak, pauseUntil, now>> /\ op = Idle
        /\ op' = op \/ op' = [kind |-> "buy", mint |-> m, sol |-> SizeOf, at |-> "filled"]
    BY <1>5 DEF BuyFills, Buy, LookAtBreakers, Look
  <2>2. op'.kind # "sell"
    BY <2>1 DEF Idle
  <2> QED
    BY <1>1, <2>1, <2>2, StreaksStand DEF Uncounted
<1>6. CASE OpenPosition
  <2>1. UNCHANGED <<closed, loaded, streak, pauseUntil>> /\ op.kind = "buy" /\ op' = Idle
    BY <1>6 DEF OpenPosition, breakers
  <2>2. op'.kind # "sell" /\ ~ Uncounted
    BY <2>1 DEF Idle, Uncounted
  <2> QED
    BY <2>1, <2>2, StreaksStand DEF Uncounted
<1>7. ASSUME NEW m \in Mints, NEW level, SellFails(m, level) PROVE Streaks'
  <2>1. UNCHANGED <<closed, loaded, streak, pauseUntil, op, now>>
    BY <1>7 DEF SellFails, breakers
  <2> QED
    BY <1>2, <2>1
<1>8. ASSUME NEW m \in Mints, NEW level, NEW stampede, SellFills(m, level, stampede) PROVE Streaks'
  <2>1. /\ UNCHANGED <<closed, loaded, streak, pauseUntil, now>> /\ op = Idle
        /\ op'.at = "sold" /\ op'.record.at = now
    BY <1>8 DEF SellFills, MaySell, breakers
  <2>2. ~ Uncounted'
    BY <2>1 DEF Uncounted
  <2> QED
    BY <1>1, <2>1, <2>2, StreaksStand
<1>9. CASE DropFromBook
  <2>1. /\ UNCHANGED <<closed, loaded, streak, pauseUntil, now>> /\ op.kind = "sell" /\ op.at # "jsonl"
        /\ op' = [op EXCEPT !.at = "dropped"]
    BY <1>9 DEF DropFromBook, Closing, breakers
  <2>2. op'.record = op.record /\ op'.at = "dropped"
    BY <2>1, SaleInProgress, GoesOn
  <2>3. ~ Uncounted /\ ~ Uncounted' /\ op'.record.at = now'
    BY <2>1, <2>2 DEF Uncounted, Streaks, ClosesTyped
  <2> QED
    BY <2>1, <2>3, StreaksStand
<1>10. CASE LogJsonl
  <2> DEFINE n == Len(closed)  t == op.record
  <2>1. /\ op.kind = "sell" /\ op.at \in {"sold", "dropped"} /\ closed' = Append(closed, t)
        /\ op' = [op EXCEPT !.at = "jsonl"] /\ UNCHANGED <<loaded, streak, pauseUntil, now>>
    BY <1>10 DEF LogJsonl, breakers
  <2>2. op'.record = t /\ op'.at = "jsonl" /\ op'.kind = "sell" /\ t \in Trade
    BY <2>1, SaleInProgress, GoesOn DEF SellCall
  <2>3. closed' \in Seq(Trade) /\ Len(closed') = n + 1 /\ n \in Nat /\ closed'[n + 1] = t
        /\ \A i \in 1..n : closed'[i] = closed[i]
    BY <1>0, <2>1, <2>2
  <2>4. ~ Uncounted /\ (Uncounted' <=> t.final) /\ t.at = now
    BY <2>1, <2>2 DEF Uncounted, Streaks, ClosesTyped
  <2>5. ClosesTyped'
    <3>1. loaded' \in Nat /\ loaded' < Len(closed')
      BY <1>0, <2>1, <2>3
    <3>2. closed'[Len(closed')] = op'.record /\ op'.record.at = now'
      BY <2>1, <2>2, <2>3, <2>4
    <3>3. loaded' <= Len(closed')
      BY <1>0, <2>1, <2>3
    <3> QED
      BY <2>3, <3>1, <3>2, <3>3 DEF ClosesTyped
  <2>6. Counted' = Counted
    <3>1. /\ t.final => OwnCloses' = OwnCloses \cup {n + 1}
          /\ ~ t.final => OwnCloses' = OwnCloses
          /\ n + 1 \notin OwnCloses
      <4>1. OwnCloses' = Closes(closed', loaded)
        BY <2>1 DEF OwnCloses, Closes
      <4> QED
        BY <1>0, <2>1, <2>2, <4>1, ClosesGrow
    <3>2. Counted = OwnCloses
      BY <2>4 DEF Counted
    <3>3. Counted' = OwnCloses' \ (IF t.final THEN {n + 1} ELSE {})
      BY <2>3, <2>4 DEF Counted
    <3> HIDE DEF n, t
    <3> QED
      BY <3>1, <3>2, <3>3
  <2>7. Counted \subseteq 1..n
    BY <1>0, ClosesType DEF Counted
  <2>8. Relieved(Counted, closed', streak, pauseUntil)
    <3>1. Relieved(Counted, closed, streak, pauseUntil)
      BY DEF Streaks
    <3>2. \A i \in Counted : closed'[i] = closed[i]
      BY <2>3, <2>7
    <3> QED
      BY <3>1, <3>2, RelievedStands
  <2>9. Relieved(Counted, closed, streak, pauseUntil)'
    BY <2>1, <2>6, <2>8
  <2> QED
    BY <2>5, <2>9 DEF Streaks
<1>11. CASE LogRow
  <2> DEFINE t == op.record
  <2>1. /\ op.kind = "sell" /\ op.at = "jsonl" /\ UNCHANGED <<closed, loaded, now>>
        /\ \/ t.final /\ CountClose(t.won) /\ op' = Idle
           \/ ~ t.final /\ UNCHANGED breakers /\ op' = [op EXCEPT !.at = "rows"]
    BY <1>11 DEF LogRow, Selling
  <2>2. CASE ~ t.final /\ UNCHANGED breakers /\ op' = [op EXCEPT !.at = "rows"]
    <3>1. op'.record = t /\ op'.at = "rows"
      BY <2>1, <2>2, SaleInProgress, GoesOn
    <3>2. ~ Uncounted /\ ~ Uncounted' /\ op'.record.at = now'
      BY <2>1, <2>2, <3>1 DEF Uncounted, Streaks, ClosesTyped
    <3> QED
      BY <2>1, <2>2, <3>2, StreaksStand DEF breakers
  <2>3. CASE t.final /\ CountClose(t.won) /\ op' = Idle
    <3>1. Uncounted /\ t.at = now /\ closed[Len(closed)] = t /\ loaded < Len(closed)
      BY <2>1, <2>3 DEF Uncounted, Streaks, ClosesTyped
    <3>2. op'.kind # "sell" /\ ~ Uncounted'
      BY <2>3 DEF Idle, Uncounted
    <3>3. ClosesTyped'
      BY <1>0, <2>1, <3>2 DEF ClosesTyped
    <3> DEFINE n == Len(closed) - 1
    <3>4. n \in Nat /\ n + 1 = Len(closed)
      BY <1>0, <3>1
    <3> HIDE DEF n, t
    <3>5. n + 1 \in OwnCloses
      BY <1>0, <2>3, <3>1, <3>4 DEF Closes
    <3>6. Counted = OwnCloses \ {n + 1}
      BY <3>1, <3>4 DEF Counted
    <3>7. Counted \in SUBSET (1..n)
      <4>1. OwnCloses \subseteq 1..(n + 1)
        BY <1>0, <3>4, ClosesType
      <4> QED
        BY <3>4, <3>6, <4>1
    <3>8. Counted' = Counted \cup {n + 1}
      <4>1. Counted' = OwnCloses'
        BY <3>2 DEF Counted
      <4>2. OwnCloses' = OwnCloses
        BY <2>1 DEF OwnCloses
      <4> QED
        BY <3>5, <3>6, <4>1, <4>2
    <3>9. Relieved(Counted, closed, streak, pauseUntil)
      BY DEF Streaks
    <3>10. /\ t.won => streak' = 0 /\ pauseUntil' = pauseUntil
           /\ ~ t.won => \/ streak' = 0 /\ pauseUntil' = now + StreakPause
                         \/ streak' = streak + 1 /\ pauseUntil' = pauseUntil
      BY <2>3 DEF CountClose
    <3>11. closed[n + 1] = t
      BY <3>1, <3>4
    <3>12. CASE t.won
      <4>1. Relief(closed[n + 1], pauseUntil')
        BY <3>11, <3>12 DEF Relief
      <4> QED
        BY <2>1, <3>3, <3>4, <3>7, <3>8, <3>10, <3>12, <4>1, LastRelieves DEF Streaks
    <3>13. CASE streak' = 0 /\ pauseUntil' = now + StreakPause
      <4>1. now + StreakPause <= now + StreakPause
        BY <1>0, Numbers
      <4>2. Relief(closed[n + 1], pauseUntil')
        BY <3>1, <3>11, <3>13, <4>1 DEF Relief
      <4> QED
        BY <2>1, <3>3, <3>4, <3>7, <3>8, <3>13, <4>2, LastRelieves DEF Streaks
    <3>14. CASE streak' = streak + 1 /\ pauseUntil' = pauseUntil
      <4>1. Relieved(Counted \cup {n + 1}, closed, streak + 1, pauseUntil)
        BY <1>0, <3>4, <3>7, <3>9, OneMoreLoss
      <4>2. Relieved(Counted, closed, streak, pauseUntil)'
        BY <2>1, <3>8, <3>14, <4>1
      <4> QED
        BY <3>3, <4>2 DEF Streaks
    <3> QED
      BY <3>10, <3>12, <3>13, <3>14
  <2> QED
    BY <2>1, <2>2, <2>3
<1>12. CASE BookLeg
  <2>1. UNCHANGED <<closed, loaded, streak, pauseUntil>> /\ op.at = "rows" /\ op' = Idle
    BY <1>12 DEF BookLeg, Selling, breakers
  <2>2. op'.kind # "sell" /\ ~ Uncounted /\ ~ Uncounted'
    BY <2>1 DEF Idle, Uncounted
  <2> QED
    BY <2>1, <2>2, StreaksStand
<1>13. ASSUME NEW m \in Mints, NEW p \in Quotes, UpdatePrice(m, p) PROVE Streaks'
  <2>1. UNCHANGED <<closed, loaded, streak, pauseUntil, op, now>>
    BY <1>13 DEF UpdatePrice, breakers
  <2> QED
    BY <1>2, <2>1
<1>14. CASE Tick \/ UNCHANGED vars
  <2>1. UNCHANGED <<closed, loaded, streak, pauseUntil, op>> /\ (now' = now \/ op = Idle)
    BY <1>14 DEF Tick, vars, breakers, session
  <2> QED
    BY <1>2, <2>1
<1>15. CASE Crash
  <2>1. /\ closed' = Stored /\ loaded' = Len(Stored) /\ streak' = 0 /\ op' = Idle
    BY <1>15 DEF Crash, LogRestart, BreakerRestart
  <2>2. Stored \in Seq(Trade)
    BY DEF Filed, LogFiled, Stored
  <2>3. op'.kind # "sell" /\ ~ Uncounted'
    BY <2>1 DEF Idle, Uncounted
  <2>4. ClosesTyped'
    <3>1. loaded' \in Nat /\ loaded' <= Len(closed')
      BY <2>1, <2>2
    <3> QED
      BY <2>1, <2>2, <2>3, <3>1 DEF ClosesTyped
  <2>5. Counted' = {}
    <3>1. OwnCloses' = {}
      BY <2>1, <2>2 DEF OwnCloses
    <3> QED
      BY <3>1 DEF Counted
  <2>6. Relieved(Counted, closed, streak, pauseUntil)'
    <3>1. Cardinality(Counted') <= streak'
      BY <2>1, <2>5, FS_EmptySet
    <3> QED
      BY <3>1 DEF Relieved
  <2> QED
    BY <2>4, <2>6 DEF Streaks
<1>16. CASE EmptyByLeg
  <2>1. /\ UNCHANGED <<closed, loaded, streak, pauseUntil, now>> /\ op.kind = "sell" /\ op.at = "sold"
        /\ op' = [op EXCEPT !.at = "emptied"]
    BY <1>16 DEF EmptyByLeg, Selling, breakers
  <2>2. op'.record = op.record /\ op'.at = "emptied"
    BY <2>1, SaleInProgress, GoesOn
  <2>3. ~ Uncounted /\ ~ Uncounted' /\ op'.record.at = now'
    BY <2>1, <2>2 DEF Uncounted, Streaks, ClosesTyped
  <2> QED
    BY <2>1, <2>3, StreaksStand
<1>17. ASSUME NEW m \in Mints, DropEmpty(m) PROVE Streaks'
  <2>1. UNCHANGED <<closed, loaded, streak, pauseUntil, op, now>>
    BY <1>17 DEF DropEmpty, breakers
  <2> QED
    BY <1>2, <2>1
<1> QED
    BY <1>3, <1>4, <1>5, <1>6, <1>7, <1>8, <1>9, <1>10, <1>11, <1>12, <1>13, <1>14, <1>15, <1>16, <1>17
       DEF Next

LEMMA StreaksStart == Init => Streaks
<1> SUFFICES ASSUME Init PROVE Streaks
    OBVIOUS
<1>1. closed = jsonl /\ loaded = Len(closed) /\ op = Idle /\ streak = 0
    BY DEF Init, LogInit, BreakerInit
<1>2. closed \in Seq(Trade)
    BY <1>1, FiledStart DEF Filed, LogFiled
<1>3. op.kind # "sell" /\ ~ Uncounted
    BY <1>1 DEF Idle, Uncounted
<1>4. ClosesTyped
    BY <1>1, <1>2, <1>3 DEF ClosesTyped
<1>5. Counted = {}
    BY <1>1, <1>2 DEF Counted, OwnCloses
<1> QED
    BY <1>1, <1>4, <1>5, FS_EmptySet DEF Streaks, Relieved

(* NoBuyAfterLosingRun: a buy is never made while all the last             *)
(* LOSS_STREAK_LIMIT closes of the process lost and the pause they started *)
(* (close_position, _is_paused) lasts, for any limit, pause and ladder,    *)
(* and wherever faults and crashes fall.                                   *)
THEOREM NoBuyInLosingRun == Spec => NoBuyAfterLosingRun
<1>1. ASSUME Typed, Streaks, [Next]_vars
      PROVE  [op = Idle /\ op'.kind = "buy" /\ Cardinality(OwnCloses) >= LossStreakLimit
                => \E i \in LastCloses(LossStreakLimit) :
                      closed[i].won \/ closed[i].at + StreakPause <= now]_vars
  <2> SUFFICES ASSUME op = Idle, op'.kind = "buy", Cardinality(OwnCloses) >= LossStreakLimit
               PROVE  \E i \in LastCloses(LossStreakLimit) :
                         closed[i].won \/ closed[i].at + StreakPause <= now
      OBVIOUS
  <2>1. PICK m \in Mints, p \in SpotPrices : BuyFills(m, p) /\ TokensFor(SizeOf, p) > 0
      BY <1>1, BuyIsFill
  <2>2. Admits
      BY <2>1 DEF BuyFills, Buy
  <2>3. now \in Nat /\ pauseUntil \in Nat /\ pauseUntil <= now
        /\ streak \in Nat /\ streak < LossStreakLimit
      BY <1>1, <2>2, Numbers DEF Admits, Paused, StreakPaused, Typed, BreakerTypeOK
  <2>4. Relieved(OwnCloses, closed, streak, pauseUntil)
    <3>1. Counted = OwnCloses
        BY DEF Counted, Uncounted, Idle
    <3> QED
        BY <1>1, <3>1 DEF Streaks
  <2>5. closed \in Seq(Trade) /\ OwnCloses = Closes(closed, loaded) /\ loaded \in Nat
      BY <1>1 DEF Streaks, ClosesTyped, OwnCloses, Closes
  <2>6. IsFiniteSet(OwnCloses) /\ OwnCloses \subseteq 1..Len(closed)
      BY <2>5, ClosesType
  <2>7. Cardinality(OwnCloses) \in Nat
      BY <2>6, FS_CardinalityType
  <2>8. PICK i \in OwnCloses : Cardinality(Beyond(OwnCloses, i)) <= streak /\ Relief(closed[i], pauseUntil)
    <3>1. ~ (Cardinality(OwnCloses) <= streak)
        BY <2>3, <2>7, Numbers
    <3> QED
        BY <2>4, <3>1 DEF Relieved
  <2>9. i \in LastCloses(LossStreakLimit)
    <3>1. ClosedAfter(i) = Beyond(OwnCloses, i)
        BY DEF ClosedAfter, Beyond
    <3>2. Cardinality(Beyond(OwnCloses, i)) \in Nat
        BY <2>6, FS_Subset, FS_CardinalityType DEF Beyond
    <3>3. Cardinality(ClosedAfter(i)) < LossStreakLimit
        BY <2>3, <2>8, <3>1, <3>2, Numbers
    <3> QED
        BY <3>3 DEF LastCloses
  <2>10. closed[i].won \/ closed[i].at + StreakPause <= now
    <3>1. closed[i].at \in Nat
      <4>1. closed[i] \in Trade
          BY <2>5, <2>6
      <4> QED
          BY <4>1 DEF Trade
    <3> DEFINE t == closed[i]
    <3>2. t.won \/ t.at + StreakPause <= pauseUntil
        BY <2>8 DEF Relief
    <3> HIDE DEF t
    <3>3. CASE t.won
        BY <3>3 DEF t
    <3>4. CASE t.at + StreakPause <= pauseUntil
      <4>1. t.at \in Nat
          BY <3>1 DEF t
      <4>2. t.at + StreakPause <= now
          BY <2>3, <3>4, <4>1, Numbers
      <4> QED
          BY <4>2 DEF t
    <3> QED
        BY <3>2, <3>3, <3>4
  <2> QED
      BY <2>9, <2>10
<1> QED
    BY <1>1, FiledStart, FiledKept, TypedStart, TypedKept, StreaksStart, StreaksKept, PTL
       DEF Spec, NoBuyAfterLosingRun
=============================================================================
