------------------------------- MODULE BookFeed -------------------------------
(***************************************************************************)
(* What the market data of one connection promises the core.               *)
(*                                                                         *)
(* The feed takes the states of the exchange's books one by one, in the    *)
(* order in which they were published.  What it gives the core of a market *)
(* is always the view of the state it has taken last: never a mixture of   *)
(* two states, never an older state again.  It may fail to deliver, and    *)
(* the end of what was published may be lost with the connection.  The     *)
(* promise ends when the connection does.                                  *)
(***************************************************************************)
EXTENDS Integers, Sequences

CONSTANTS Markets, \* the markets of the feed
          Books,   \* the states the book of a market may have
          View     \* [Books -> Books]: what the core is given of a book

VARIABLES book,    \* the exchange's book of each market
          pending, \* states published and not yet taken, oldest first
          taken,   \* the state of each market taken last
          core,    \* what the core holds of each market
          live     \* the connection lasts

vars == <<book, pending, taken, core, live>>

Published(m, b) == Append(pending, [market |-> m, book |-> b])

\* A book of the exchange changes, published or not.
Change(m, b) ==
  /\ book' = [book EXCEPT ![m] = b]
  /\ pending' \in {pending, Published(m, b)}
  /\ UNCHANGED <<taken, core, live>>

\* The present state of a book is published anew.
Republish(m) ==
  /\ pending' = Published(m, book[m])
  /\ UNCHANGED <<book, taken, core, live>>

\* The oldest state is taken, and some markets are delivered; what else is pending is
\* kept, or lost.
Take(delivered) ==
  /\ pending # <<>>
  /\ taken' = [taken EXCEPT ![Head(pending).market] = Head(pending).book]
  /\ core' = [m \in Markets |-> IF m \in delivered THEN View[taken'[m]] ELSE core[m]]
  /\ pending' \in {Tail(pending), <<>>}
  /\ UNCHANGED <<book, live>>

\* The last states published are lost.
Lose ==
  /\ \E k \in 0..Len(pending) : pending' = SubSeq(pending, 1, k)
  /\ UNCHANGED <<book, taken, core, live>>

\* The connection ends; no promise is made of what follows.
Over == live' = FALSE

Init ==
  /\ pending = <<>>
  /\ book \in [Markets -> Books]
  /\ taken \in [Markets -> Books]
  /\ core \in [Markets -> Books]
  /\ live = TRUE

Next ==
  \/ \E m \in Markets : Republish(m) \/ \E b \in Books : Change(m, b)
  \/ \E delivered \in SUBSET Markets : Take(delivered)
  \/ Lose
  \/ Over

Spec == Init /\ [][Next]_vars
=============================================================================
