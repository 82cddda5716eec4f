---------------------------- MODULE AtomicBook ----------------------------
(***************************************************************************)
(* What the risk engine promises of its positions, as a book that is       *)
(* checked, changed and saved in one step: a position is opened only if    *)
(* the limits hold with it in the book; it only ever loses tokens and cost *)
(* basis after that, under the same id; the file has every position of the *)
(* book; and a death loses no more than the save it interrupts.            *)
(***************************************************************************)
EXTENDS Integers, FiniteSets, Sums

CONSTANTS
  Mints, Symbols, SymbolOf,
  MaxOpenPositions, MaxTotalExposure, SymbolCap,
  Tick,         \* amounts are exact to half of it
  BoughtTokens

VARIABLES
  up,       \* the engine is running
  book,     \* mint -> entry
  file,     \* the entries a restart finds
  given,    \* SOL each symbol has been given
  written,  \* the totals a restart finds
  last      \* the id of the newest position

vars == <<up, book, file, given, written, last>>

NoEntry == [id |-> 0, cost |-> 0, tokens |-> 0]

Empty == [m \in Mints |-> NoEntry]

Held(b) == {m \in Mints : b[m] # NoEntry}

Cost(b) == SumOver([m \in Mints |-> b[m].cost], Mints)

Init ==
  /\ up = TRUE
  /\ book = Empty /\ file = Empty
  /\ given = [s \in Symbols |-> 0] /\ written = given
  /\ last = 0

\* The book with a new position for mint m.
With(m, c) == [book EXCEPT ![m] = [id |-> last + 1, cost |-> c, tokens |-> BoughtTokens]]

\* It is within every limit.
Affordable(m, c) ==
  /\ Cardinality(Held(With(m, c))) <= MaxOpenPositions
  /\ 2 * Cost(With(m, c)) <= 2 * MaxTotalExposure + Tick
  /\ 2 * (given[SymbolOf[m]] + c) <= 2 * SymbolCap + Tick

Open(m, c) ==
  /\ up /\ last' = last + 1
  /\ Affordable(m, c)
  /\ book' = With(m, c) /\ file' = book'
  /\ given' = [given EXCEPT ![SymbolOf[m]] = @ + c] /\ written' = given'
  /\ UNCHANGED up

\* Book b has no entry that book a does not have with as much in it.
Within(b, a) ==
  \A m \in Mints : \/ b[m] = NoEntry
                   \/ b[m].id = a[m].id /\ b[m].cost <= a[m].cost /\ b[m].tokens <= a[m].tokens

\* Book b is what file f says, but for entries without tokens.
Agrees(b, f) ==
  \A m \in Mints : b[m] = f[m] \/ (b[m] = NoEntry /\ f[m].tokens = 0)

\* Positions are sold from, closed or given up, and the book is saved.
Reduce ==
  /\ up
  /\ Within(file', book) /\ Agrees(book', file')
  /\ UNCHANGED <<up, given, written, last>>

\* A position without tokens leaves the book, unsaved.
Forget(m) ==
  /\ up /\ book[m].tokens = 0
  /\ book' = [book EXCEPT ![m] = NoEntry]
  /\ UNCHANGED <<up, file, given, written, last>>

\* The engine dies: between two steps, in the save of a Reduce, or in the
\* saves of an Open, after the file and before the symbol's total.
Die ==
  /\ up /\ up' = FALSE
  /\ book' = Empty /\ given' = [s \in Symbols |-> 0]
  /\ \/ UNCHANGED <<file, last>>
     \/ Within(file', book) /\ UNCHANGED last
     \/ /\ last' = last + 1
        /\ \E m \in Mints, c \in 0..(MaxTotalExposure + Tick) :
             Affordable(m, c) /\ file' = With(m, c)
  /\ UNCHANGED written

Restart ==
  /\ ~up /\ up' = TRUE
  /\ book' = file /\ given' = written
  /\ UNCHANGED <<file, written, last>>

Next ==
  \/ \E m \in Mints, c \in 0..(MaxTotalExposure + Tick) : Open(m, c)
  \/ \E m \in Mints : Forget(m)
  \/ Reduce \/ Die \/ Restart

Spec == Init /\ [][Next]_vars

\* A running engine's book is what the file says, so a restart brings back
\* every position with what is left of it, and none that was sold.
Durable == up => Agrees(book, file)
=============================================================================
