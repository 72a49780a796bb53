---------------------------- MODULE OrderReports ----------------------------
(***************************************************************************)
(* What the core is promised about the life of its orders.                 *)
(*                                                                         *)
(* The states an order goes through at the exchange are numbered from 1.   *)
(* The core is told of them one by one, none twice and none before an      *)
(* earlier one; a state is skipped only for an order one of whose updates  *)
(* has been lost.  Nothing is said of the commands that move the orders,   *)
(* nor of the connections that carry the news.                             *)
(***************************************************************************)
EXTENDS Naturals

CONSTANT Orders

VARIABLES states, \* the number of states each order has gone through, 0 before it exists
          heard,  \* the number of the state of each order the core was told of last
          gaps    \* orders of which an update has been lost

vars == <<states, heard, gaps>>

Init ==
  /\ states = [o \in Orders |-> 0]
  /\ heard = [o \in Orders |-> 0]
  /\ gaps = {}

\* Some orders reach their next states; the news of some of them is lost at once.
Move(moved) ==
  /\ states' = [o \in Orders |-> IF o \in moved THEN states[o] + 1 ELSE states[o]]
  /\ \E lost \in SUBSET moved : gaps' = gaps \cup lost
  /\ UNCHANGED heard

\* The core is told of the n-th state of an order.
Tell(o, n) ==
  /\ heard[o] < n /\ n <= states[o]
  /\ n = heard[o] + 1 \/ o \in gaps
  /\ heard' = [heard EXCEPT ![o] = n]
  /\ UNCHANGED <<states, gaps>>

\* News on its way is lost.
Lose(lost) ==
  /\ gaps' = gaps \cup lost
  /\ UNCHANGED <<states, heard>>

Next ==
  \/ \E moved \in SUBSET Orders : Move(moved) \/ Lose(moved)
  \/ \E o \in Orders : \E n \in 1..states[o] : Tell(o, n)

Spec == Init /\ [][Next]_vars
=============================================================================
