---------------------------- MODULE OrdersProofs ----------------------------
(***************************************************************************)
(* Proofs about Orders, for any messages of the core, any number of them,  *)
(* of orders and of breaks of the private socket, and any markets.         *)
(***************************************************************************)
EXTENDS Orders, SequenceFacts, FiniteSetTheorems

\* A session, with what it may carry (see OwnFieldsWin).
IsSession(s) ==
  /\ s = [kind |-> s.kind, args |-> s.args, own |-> s.own, since |-> s.since,
          stage |-> s.stage, ok |-> s.ok, order |-> s.order, at |-> s.at]
  /\ s.kind \in Kinds /\ s.stage \in Stages /\ DOMAIN s.args = Fields

Faithful(s) ==
  \A f \in Readable(s.own) :
    \/ s.kind = "create" /\ s.args["type"] = "market" /\ f \in {"type", "price"}
    \/ s.args[f] = s.own[f]

\* A successful answer names a state that its order has gone through.
SessionsInv ==
  /\ IsSequence(sessions)
  /\ \A i \in 1..Len(sessions) :
       /\ IsSession(sessions[i]) /\ Faithful(sessions[i])
       /\ sessions[i].stage = "answered" /\ sessions[i].ok =>
            /\ sessions[i].order \in 1..Len(orders)
            /\ sessions[i].at \in 1..Len(orders[sessions[i].order])
  /\ logged \subseteq 1..Len(sessions)

\* An order is what its session asked for, and that session has been answered.
MetaInv ==
  /\ IsSequence(meta) /\ Len(meta) <= MaxOrders
  /\ \A o \in 1..Len(meta) :
       /\ meta[o].session \in 1..Len(sessions)
       /\ LET s == sessions[meta[o].session]
          IN /\ s.kind = "create" /\ s.stage # "requested"
             /\ meta[o].type = s.args["type"] /\ meta[o].price = s.args["price"]
  /\ \A o, p \in 1..Len(meta) : o # p => meta[o].session # meta[p].session

OrdersInv ==
  /\ IsSequence(orders) /\ Len(orders) = Len(meta)
  /\ \A o \in 1..Len(orders) : orders[o] \in Seq(OrderState) /\ orders[o] # <<>>

UpdatesInv ==
  /\ IsSequence(updates)
  /\ \A i \in 1..Len(updates) : /\ updates[i].order \in 1..Len(orders)
                                /\ updates[i].at \in 1..Len(orders[updates[i].order])
  /\ dropped \subseteq OrderIds

\* A message that may be told of state s.
Honest(message, s) ==
  message = "Order was canceled" => s = [status |-> "closed", filled |-> "none"]

\* What was told is true, and carries the price of a limit order.
TrueOf(o, t) ==
  /\ o \in 1..Len(orders) /\ t.at \in 1..Len(orders[o])
  /\ Honest(t.message, orders[o][t.at])
  /\ meta[o].type = "limit" => t.price = meta[o].price

ToldInv ==
  /\ DOMAIN told = OrderIds
  /\ \A o \in OrderIds : /\ IsSequence(told[o])
                         /\ \A i \in 1..Len(told[o]) : TrueOf(o, told[o][i])

\* There is a last thing updates told of an order, if they told anything.
LastTold ==
  \A o \in OrderIds : Via(o) # {} => \E i \in Via(o) : \A j \in Via(o) : j <= i

\* A request the exchange has not seen was not seen at any earlier cancel_all_orders.
SweptInv ==
  /\ \A w \in swept : /\ w.upto \in 0..Len(sessions)
                      /\ \A i \in 1..Len(sessions) :
                           sessions[i].stage = "requested" => i > w.upto \/ i \in w.unseen
  /\ CancelAllSparesOnlyInFlight

BoundsInv ==
  /\ script \in Seq(Commands) /\ inbox \in Seq(Commands)
  /\ link \in {"open", "broken"} /\ breaks \in 0..MaxBreaks

\* ReportsComplete needs the types of what is in flight and told; one order per request
\* needs that a session with an order is not waiting for the exchange any more; and what
\* cancel_all_orders spares, that no session waits for it again.
IInv ==
  /\ BoundsInv /\ SessionsInv /\ MetaInv /\ OrdersInv /\ UpdatesInv /\ ToldInv
  /\ LastTold /\ ReportsComplete /\ SweptInv

-----------------------------------------------------------------------------
(* How sessions, orders and updates may move *)

\* Sessions keep what they were started with, and none waits again for the exchange.
SessionsGoOn ==
  /\ IsSequence(sessions') /\ Len(sessions) <= Len(sessions')
  /\ \A i \in 1..Len(sessions) :
       /\ sessions'[i].kind = sessions[i].kind /\ sessions'[i].args = sessions[i].args
       /\ sessions'[i].own = sessions[i].own /\ sessions'[i].since = sessions[i].since
       /\ sessions'[i].stage = "requested" => sessions[i].stage = "requested"

\* The orders in "changed" have one more state, the others stay as they are.
OrdersMove(changed) ==
  /\ IsSequence(orders') /\ Len(orders) <= Len(orders') /\ Len(orders') = Len(meta')
  /\ IsSequence(meta') /\ Len(meta') <= MaxOrders
  /\ changed \subseteq 1..Len(orders')
  /\ \A o \in 1..Len(orders') :
       /\ orders'[o] \in Seq(OrderState)
       /\ o > Len(orders) => o \in changed /\ Len(orders'[o]) = 1
       /\ o <= Len(orders) =>
            /\ o \in changed => Len(orders'[o]) = Len(orders[o]) + 1
            /\ o \notin changed => Len(orders'[o]) = Len(orders[o])
            /\ \A n \in 1..Len(orders[o]) : orders'[o][n] = orders[o][n]
            /\ meta'[o] = meta[o]

\* The private socket is told of the newest states of the orders in "changed", of each
\* once and in any order, or they are lost.
Tells(changed) ==
  \/ /\ link = "open" /\ dropped' = dropped
     /\ IsSequence(updates') /\ Len(updates) <= Len(updates')
     /\ \A i \in 1..Len(updates) : updates'[i] = updates[i]
     /\ \A i \in (Len(updates) + 1)..Len(updates') :
          /\ updates'[i].order \in changed
          /\ updates'[i].at = Len(orders'[updates'[i].order])
     /\ \A i, j \in (Len(updates) + 1)..Len(updates') :
          i # j => updates'[i].order # updates'[j].order
     /\ \A o \in changed :
          \E i \in (Len(updates) + 1)..Len(updates') : updates'[i].order = o
  \/ updates' = updates /\ dropped' = dropped \cup changed

LEMMA TellSocketTells ==
  ASSUME IsSequence(updates), NEW changed, IsFiniteSet(changed), TellSocket(orders', changed)
  PROVE  Tells(changed)
<1>1. CASE link = "open"
  <2> DEFINE n == Cardinality(changed)
             told_(perm) == [i \in DOMAIN perm |-> [order |-> perm[i], at |-> Len(orders'[perm[i]])]]
  <2>1. n \in Nat
    BY FS_CardinalityType
  <2>2. PICK perm \in [1..n -> changed] :
          /\ \A i, j \in DOMAIN perm : i # j => perm[i] # perm[j]
          /\ updates' = updates \o told_(perm)
    BY <1>1 DEF TellSocket
  <2>3. dropped' = dropped
    BY <1>1 DEF TellSocket
  <2>4. IsSequence(told_(perm)) /\ Len(told_(perm)) = n
    BY <2>1, <2>2 DEF IsSequence
  <2>5. \A i \in 1..n : told_(perm)[i] = [order |-> perm[i], at |-> Len(orders'[perm[i]])]
    BY <2>2
  <2>6. \A o \in changed : \E i \in 1..n : perm[i] = o
    <3>1. IsFiniteSet(1..n) /\ Cardinality(1..n) = n
      BY <2>1, FS_Interval
    <3>2. perm \in Injection(1..n, changed)
      BY <2>2 DEF Injection, IsInjective
    <3>3. perm \in Surjection(1..n, changed)
      BY <3>1, <3>2, FS_Injection
    <3> QED
      BY <3>3 DEF Surjection
  <2> HIDE DEF told_, n
  <2>7. /\ IsSequence(updates') /\ Len(updates') = Len(updates) + n
        /\ \A i \in 1..Len(updates) : updates'[i] = updates[i]
        /\ \A i \in (Len(updates) + 1)..(Len(updates) + n) :
             updates'[i] = told_(perm)[i - Len(updates)]
    BY <2>2, <2>4, ConcatSequence
  <2>8. Len(updates) \in Nat
    BY DEF IsSequence
  <2>9. \A i \in (Len(updates) + 1)..Len(updates') :
          /\ i - Len(updates) \in 1..n
          /\ updates'[i].order = perm[i - Len(updates)]
          /\ updates'[i].order \in changed
          /\ updates'[i].at = Len(orders'[updates'[i].order])
    <3> TAKE i \in (Len(updates) + 1)..Len(updates')
    <3>1. i - Len(updates) \in 1..n
      BY <2>1, <2>7, <2>8
    <3>2. updates'[i] = [order |-> perm[i - Len(updates)],
                         at |-> Len(orders'[perm[i - Len(updates)]])]
      BY <2>5, <2>7, <3>1
    <3>3. perm[i - Len(updates)] \in changed
      BY <2>2, <3>1
    <3> QED
      BY <3>1, <3>2, <3>3
  <2>10. \A o \in changed : \E i \in (Len(updates) + 1)..Len(updates') : updates'[i].order = o
    <3> TAKE o \in changed
    <3>1. PICK i \in 1..n : perm[i] = o
      BY <2>6
    <3>2. i + Len(updates) \in (Len(updates) + 1)..Len(updates')
      BY <2>1, <2>7, <2>8
    <3>3. updates'[i + Len(updates)].order = perm[(i + Len(updates)) - Len(updates)]
      BY <2>9, <3>2
    <3> QED
      BY <2>8, <3>1, <3>2, <3>3
  <2>11. Len(updates) <= Len(updates')
    BY <2>1, <2>7, <2>8
  <2>12. \A i, j \in (Len(updates) + 1)..Len(updates') :
           i # j => updates'[i].order # updates'[j].order
    <3> TAKE i, j \in (Len(updates) + 1)..Len(updates')
    <3>1. i # j => i - Len(updates) # j - Len(updates)
      BY <2>1, <2>7, <2>8
    <3>2. DOMAIN perm = 1..n
      BY <2>2
    <3> QED
      BY <2>2, <2>9, <3>1, <3>2
  <2> QED
    BY <1>1, <2>2, <2>3, <2>7, <2>9, <2>10, <2>11, <2>12 DEF Tells
<1>2. CASE link # "open"
  BY <1>2 DEF TellSocket, Tells
<1> QED
  BY <1>1, <1>2

LEMMA MoveAt ==
  ASSUME IInv, NEW changed, OrdersMove(changed), NEW o \in 1..Len(orders)
  PROVE  /\ o \in 1..Len(orders') /\ Len(orders') \in Nat /\ Len(orders) \in Nat
         /\ Len(orders[o]) \in Nat \ {0}
         /\ o \in changed => Len(orders'[o]) = Len(orders[o]) + 1
         /\ o \notin changed => Len(orders'[o]) = Len(orders[o])
         /\ \A n \in 1..Len(orders[o]) : orders'[o][n] = orders[o][n]
         /\ meta'[o] = meta[o]
<1>1. Len(orders) \in Nat /\ orders[o] \in Seq(OrderState) /\ orders[o] # <<>>
  BY DEF IInv, OrdersInv, IsSequence
<1>2. Len(orders') \in Nat /\ Len(orders) <= Len(orders')
  BY DEF OrdersMove, IsSequence
<1>3. o \in 1..Len(orders') /\ o <= Len(orders)
  BY <1>1, <1>2
<1>4. Len(orders[o]) \in Nat \ {0}
  BY <1>1, EmptySeq
<1> QED
  BY <1>1, <1>2, <1>3, <1>4, Zenon DEF OrdersMove

LEMMA MoveNew ==
  ASSUME IInv, NEW changed, OrdersMove(changed), NEW o \in 1..Len(orders'), o \notin 1..Len(orders)
  PROVE  o > Len(orders) /\ o \in changed /\ Len(orders'[o]) = 1
<1>1. Len(orders) \in Nat /\ Len(orders') \in Nat
  BY DEF IInv, OrdersInv, OrdersMove, IsSequence
<1>2. o > Len(orders)
  BY <1>1
<1> QED
  BY <1>2, Zenon DEF OrdersMove

\* What was told stays true when orders move.
LEMMA MovesKeepTold ==
  ASSUME IInv, NEW changed, OrdersMove(changed), told' = told
  PROVE  OrdersInv' /\ ToldInv' /\ LastTold'
<1>1. /\ Len(orders) \in Nat /\ Len(orders') \in Nat
      /\ \A o \in 1..Len(orders) : orders[o] \in Seq(OrderState) /\ orders[o] # <<>>
  BY DEF IInv, OrdersInv, OrdersMove, IsSequence
<1>3. ASSUME NEW o \in 1..Len(orders')
      PROVE  orders'[o] \in Seq(OrderState) /\ orders'[o] # <<>>
  <2>1. orders'[o] \in Seq(OrderState)
    BY DEF OrdersMove
  <2>2. Len(orders'[o]) # 0
    <3>1. CASE o \in 1..Len(orders)
      BY <3>1, MoveAt
    <3>2. CASE o \notin 1..Len(orders)
      <4>1. Len(orders'[o]) = 1
        BY <3>2, MoveNew, Zenon
      <4> QED
        BY <4>1
    <3> QED
      BY <3>1, <3>2
  <2> QED
    BY <2>1, <2>2
<1>4. OrdersInv'
  BY <1>3 DEF OrdersInv, OrdersMove
<1>5. ASSUME NEW o \in OrderIds, NEW i \in 1..Len(told[o])
      PROVE  TrueOf(o, told[o][i])'
  <2>1. TrueOf(o, told[o][i])
    BY DEF IInv, ToldInv
  <2>2. /\ o \in 1..Len(orders')
        /\ Len(orders[o]) \in Nat /\ Len(orders[o]) <= Len(orders'[o]) /\ Len(orders'[o]) \in Nat
        /\ \A n \in 1..Len(orders[o]) : orders'[o][n] = orders[o][n]
        /\ meta'[o] = meta[o]
    <3>1. o \in 1..Len(orders)
      BY <2>1 DEF TrueOf
    <3> QED
      BY <3>1, MoveAt
  <2>3. told[o][i].at \in 1..Len(orders[o])
    BY <2>1 DEF TrueOf
  <2>4. told[o][i].at \in 1..Len(orders'[o])
    BY <2>2, <2>3
  <2> QED
    BY <2>1, <2>2, <2>3, <2>4 DEF TrueOf
<1>6. ToldInv'
  BY <1>5 DEF IInv, ToldInv
<1>7. LastTold'
  BY DEF IInv, LastTold, Via
<1> QED
  BY <1>4, <1>6, <1>7

\* The states an order had before.
Before(o) == IF o <= Len(orders) THEN Len(orders[o]) ELSE 0

LEMMA BeforeFacts ==
  ASSUME IInv, NEW changed, OrdersMove(changed), NEW o \in 1..Len(orders')
  PROVE  /\ o \in OrderIds /\ Before(o) \in Nat /\ Len(orders') \in Nat /\ Len(orders) \in Nat
         /\ o \in changed => Len(orders'[o]) = Before(o) + 1
         /\ o \notin changed => Len(orders'[o]) = Before(o)
         /\ \A i \in Via(o) : told[o][i].at \in 1..Before(o)
         /\ \A i \in InFlight(o) : updates[i].at \in 1..Before(o)
<1>1. /\ Len(orders') \in Nat /\ Len(orders) \in Nat /\ o \in Nat /\ MaxOrders \in Nat
      /\ Len(orders') <= MaxOrders
  BY CommandsAssumption DEF OrdersMove, IInv, OrdersInv, IsSequence
<1>2. o \in OrderIds
  BY <1>1 DEF OrderIds
<1>3. o <= Len(orders) => o \in 1..Len(orders) /\ Len(orders[o]) \in Nat
  BY <1>1 DEF IInv, OrdersInv
<1>4. Before(o) \in Nat
  BY <1>3 DEF Before
<1>5. /\ o \in changed => Len(orders'[o]) = Before(o) + 1
      /\ o \notin changed => Len(orders'[o]) = Before(o)
  <2>1. CASE o \in 1..Len(orders)
    BY <1>1, <2>1, MoveAt DEF Before
  <2>2. CASE o \notin 1..Len(orders)
    <3>1. o > Len(orders) /\ o \in changed /\ Len(orders'[o]) = 1
      BY <2>2, MoveNew, Zenon
    <3> QED
      BY <1>1, <3>1 DEF Before
  <2> QED
    BY <2>1, <2>2
<1>6. ASSUME NEW i \in Via(o)
      PROVE  told[o][i].at \in 1..Before(o)
  <2>1. TrueOf(o, told[o][i])
    BY <1>2 DEF IInv, ToldInv, Via
  <2>2. o \in 1..Len(orders) /\ told[o][i].at \in 1..Len(orders[o])
    BY <2>1 DEF TrueOf
  <2>3. Before(o) = Len(orders[o])
    BY <1>1, <2>2 DEF Before
  <2> QED
    BY <2>2, <2>3
<1>7. \A i \in InFlight(o) : updates[i].at \in 1..Before(o)
  BY <1>1 DEF IInv, UpdatesInv, InFlight, Before
<1> QED
  BY <1>1, <1>2, <1>4, <1>5, <1>6, <1>7

\* What is in flight after the private socket has been told.
LEMMA TellsFlight ==
  ASSUME IInv, NEW changed, OrdersMove(changed), Tells(changed), NEW o \in 1..Len(orders')
  PROVE  /\ \A i \in InFlight(o)' :
              \/ i \in InFlight(o) /\ updates'[i].at = updates[i].at
              \/ /\ i > Len(updates) /\ i \in Nat /\ o \in changed
                 /\ updates'[i].at = Before(o) + 1 /\ link = "open"
         /\ \A i \in InFlight(o) : i \in InFlight(o)' /\ updates'[i].at = updates[i].at
         /\ \A i, j \in InFlight(o)' : i > Len(updates) /\ j > Len(updates) => i = j
         /\ o \notin dropped' => o \notin dropped
         /\ o \in changed /\ o \notin dropped' =>
              \E i \in InFlight(o)' : updates'[i].at = Before(o) + 1
<1>1. Len(updates) \in Nat /\ Len(updates') \in Nat
  BY DEF IInv, UpdatesInv, IsSequence, Tells
<1>2. o \in changed => Len(orders'[o]) = Before(o) + 1
  BY BeforeFacts
<1>3. CASE /\ link = "open" /\ dropped' = dropped
           /\ IsSequence(updates') /\ Len(updates) <= Len(updates')
           /\ \A i \in 1..Len(updates) : updates'[i] = updates[i]
           /\ \A i \in (Len(updates) + 1)..Len(updates') :
                /\ updates'[i].order \in changed
                /\ updates'[i].at = Len(orders'[updates'[i].order])
           /\ \A i, j \in (Len(updates) + 1)..Len(updates') :
                i # j => updates'[i].order # updates'[j].order
           /\ \A p \in changed :
                \E i \in (Len(updates) + 1)..Len(updates') : updates'[i].order = p
  <2>1. \A i \in 1..Len(updates') : i \in 1..Len(updates) \/ i \in (Len(updates) + 1)..Len(updates')
    BY <1>1
  <2>2. \A i \in (Len(updates) + 1)..Len(updates') : i > Len(updates) /\ i \in 1..Len(updates') /\ i \in Nat
    BY <1>1
  <2>3. \A i \in 1..Len(updates) : i \in 1..Len(updates') /\ ~(i > Len(updates))
    BY <1>1, <1>3
  <2>4. ASSUME NEW i \in InFlight(o)'
        PROVE  \/ i \in InFlight(o) /\ updates'[i].at = updates[i].at
               \/ /\ i > Len(updates) /\ i \in Nat /\ o \in changed
                  /\ updates'[i].at = Before(o) + 1 /\ link = "open"
    <3>1. i \in 1..Len(updates') /\ updates'[i].order = o
      BY DEF InFlight
    <3>2. CASE i \in 1..Len(updates)
      BY <1>3, <3>1, <3>2 DEF InFlight
    <3>3. CASE i \in (Len(updates) + 1)..Len(updates')
      BY <1>2, <1>3, <2>2, <3>1, <3>3
    <3> QED
      BY <2>1, <3>1, <3>2, <3>3
  <2>5. \A i \in InFlight(o) : i \in InFlight(o)' /\ updates'[i].at = updates[i].at
    BY <1>3, <2>3 DEF InFlight
  <2>6. \A i, j \in InFlight(o)' : i > Len(updates) /\ j > Len(updates) => i = j
    BY <1>1, <1>3, <2>1, <2>3 DEF InFlight
  <2>7. o \in changed => \E i \in InFlight(o)' : updates'[i].at = Before(o) + 1
    <3> HAVE o \in changed
    <3>1. PICK i \in (Len(updates) + 1)..Len(updates') : updates'[i].order = o
      BY <1>3
    <3>2. i \in InFlight(o)' /\ updates'[i].at = Len(orders'[o])
      BY <1>3, <2>2, <3>1 DEF InFlight
    <3> QED
      BY <1>2, <3>2
  <2> QED
    BY <1>3, <2>4, <2>5, <2>6, <2>7
<1>4. CASE updates' = updates /\ dropped' = dropped \cup changed
  BY <1>1, <1>4 DEF InFlight
<1> QED
  BY <1>3, <1>4 DEF Tells

LEMMA MovesKeepNews ==
  ASSUME IInv, NEW changed, OrdersMove(changed), Tells(changed), told' = told
  PROVE  UpdatesInv' /\ ReportsComplete'
<1>1. \A o \in 1..Len(orders') : o \in OrderIds
  BY BeforeFacts
<1>2. UpdatesInv'
  <2>1. changed \subseteq OrderIds
    BY <1>1 DEF OrdersMove
  <2>2. IsSequence(updates') /\ dropped' \subseteq OrderIds
    BY <2>1 DEF IInv, UpdatesInv, Tells
  <2>3. ASSUME NEW i \in 1..Len(updates')
        PROVE  updates'[i].order \in 1..Len(orders') /\ updates'[i].at \in 1..Len(orders'[updates'[i].order])
    <3>1. \/ i \in 1..Len(updates) /\ updates'[i] = updates[i]
          \/ updates'[i].order \in changed /\ updates'[i].at = Len(orders'[updates'[i].order])
      BY DEF IInv, UpdatesInv, Tells, IsSequence
    <3>2. CASE i \in 1..Len(updates) /\ updates'[i] = updates[i]
      <4>1. updates[i].order \in 1..Len(orders) /\ updates[i].at \in 1..Len(orders[updates[i].order])
        BY <3>2 DEF IInv, UpdatesInv
      <4>2. Len(orders) <= Len(orders') /\ Len(orders) \in Nat /\ Len(orders') \in Nat
        BY DEF IInv, OrdersInv, OrdersMove, IsSequence
      <4>3. updates[i].order \in 1..Len(orders')
        BY <4>1, <4>2
      <4>4. updates[i].at \in 1..Before(updates[i].order)
        BY <4>1, <4>2 DEF Before
      <4>5. /\ Before(updates[i].order) \in Nat
            /\ \/ Len(orders'[updates[i].order]) = Before(updates[i].order) + 1
               \/ Len(orders'[updates[i].order]) = Before(updates[i].order)
        BY <4>3, BeforeFacts
      <4> QED
        BY <3>2, <4>3, <4>4, <4>5
    <3>3. CASE updates'[i].order \in changed /\ updates'[i].at = Len(orders'[updates'[i].order])
      <4>1. updates'[i].order \in 1..Len(orders')
        BY <3>3 DEF OrdersMove
      <4>2. Len(orders'[updates'[i].order]) \in Nat \ {0}
        BY <3>3, <4>1, BeforeFacts
      <4> QED
        BY <3>3, <4>1, <4>2
    <3> QED
      BY <3>1, <3>2, <3>3
  <2> QED
    BY <2>2, <2>3 DEF UpdatesInv
<1>3. ASSUME NEW o \in 1..Len(orders')
      PROVE  /\ InOrder(o)'
             /\ o \notin dropped' =>
                  1..Len(orders'[o]) \subseteq {told'[o][i].at : i \in Via(o)'}
                                                 \cup {updates'[i].at : i \in InFlight(o)'}
  <2>1. /\ Before(o) \in Nat /\ Len(orders) \in Nat
        /\ o \in changed => Len(orders'[o]) = Before(o) + 1
        /\ o \notin changed => Len(orders'[o]) = Before(o)
        /\ \A i \in Via(o) : told[o][i].at \in 1..Before(o)
        /\ \A i \in InFlight(o) : updates[i].at \in 1..Before(o)
    BY BeforeFacts
  <2>2. /\ InOrder(o)
        /\ o \notin dropped => 1..Before(o) \subseteq {told[o][i].at : i \in Via(o)}
                                                       \cup {updates[i].at : i \in InFlight(o)}
    <3>1. CASE o \in 1..Len(orders)
      <4>1. DOMAIN orders = 1..Len(orders) /\ Before(o) = Len(orders[o])
        BY <2>1, <3>1, SequenceOfElements DEF IInv, OrdersInv, Before
      <4> QED
        BY <3>1, <4>1 DEF IInv, ReportsComplete
    <3>2. CASE o \notin 1..Len(orders)
      <4>1. Before(o) = 0
        BY <2>1, <3>2 DEF Before
      <4>2. Via(o) = {} /\ InFlight(o) = {}
        BY <2>1, <4>1
      <4> QED
        BY <4>1, <4>2 DEF InOrder
    <3> QED
      BY <3>1, <3>2
  <2>3. Via(o)' = Via(o)
    BY DEF Via
  <2>4. /\ \A i \in InFlight(o)' :
              \/ i \in InFlight(o) /\ updates'[i].at = updates[i].at
              \/ /\ i > Len(updates) /\ i \in Nat /\ o \in changed
                 /\ updates'[i].at = Before(o) + 1
        /\ \A i \in InFlight(o) : i \in InFlight(o)' /\ updates'[i].at = updates[i].at
        /\ \A i, j \in InFlight(o)' : i > Len(updates) /\ j > Len(updates) => i = j
        /\ o \notin dropped' => o \notin dropped
        /\ o \in changed /\ o \notin dropped' =>
             \E i \in InFlight(o)' : updates'[i].at = Before(o) + 1
    BY TellsFlight
  <2>5. \A i \in InFlight(o) : i \in 1..Len(updates) /\ Len(updates) \in Nat
    BY DEF InFlight, IInv, UpdatesInv, IsSequence
  <2>6. \A i, j \in InFlight(o)' : i < j => updates'[i].at < updates'[j].at
    <3> SUFFICES ASSUME NEW i \in InFlight(o)', NEW j \in InFlight(o)', i < j
                 PROVE  updates'[i].at < updates'[j].at
      OBVIOUS
    <3>1. CASE i \in InFlight(o) /\ j \in InFlight(o)
      BY <2>2, <2>4, <3>1 DEF InOrder
    <3>2. CASE i \in InFlight(o) /\ j \notin InFlight(o)
      <4>1. updates'[i].at = updates[i].at /\ updates'[j].at = Before(o) + 1
        BY <2>4, <3>2
      <4> QED
        BY <2>1, <3>2, <4>1
    <3>3. CASE i \notin InFlight(o)
      <4>1. i > Len(updates) /\ i \in Nat
        BY <2>4, <3>3
      <4>2. j \notin InFlight(o)
        BY <2>5, <4>1
      <4>3. j > Len(updates)
        BY <2>4, <4>2
      <4> QED
        BY <2>4, <4>1, <4>3
    <3> QED
      BY <3>1, <3>2, <3>3
  <2>7. \A i \in Via(o), j \in InFlight(o)' : told[o][i].at < updates'[j].at
    BY <2>1, <2>2, <2>4 DEF InOrder
  <2>8. InOrder(o)'
    BY <2>2, <2>3, <2>6, <2>7 DEF InOrder
  <2>9. ASSUME o \notin dropped', NEW n \in 1..Len(orders'[o])
        PROVE  n \in {told'[o][i].at : i \in Via(o)'} \cup {updates'[i].at : i \in InFlight(o)'}
    <3>1. n \in 1..Before(o) \/ (o \in changed /\ n = Before(o) + 1)
      BY <2>1
    <3>2. CASE n \in 1..Before(o)
      BY <2>2, <2>3, <2>4, <2>9, <3>2
    <3>3. CASE o \in changed /\ n = Before(o) + 1
      BY <2>4, <2>9, <3>3
    <3> QED
      BY <3>1, <3>2, <3>3
  <2> QED
    BY <2>8, <2>9
<1>4. ReportsComplete'
  <2>1. DOMAIN orders' = 1..Len(orders')
    BY SequenceOfElements DEF OrdersMove
  <2> QED
    BY <1>3, <2>1 DEF ReportsComplete
<1> QED
  BY <1>2, <1>4

-----------------------------------------------------------------------------
(* What a message starts *)

\* A field that its own element gives is the local's value.
LEMMA OwnFieldRead ==
  ASSUME NEW data, NEW n \in Nat \ {0}, NEW f \in Fields, f \in Readable(data[n])
  PROVE  LocalsAt(data, n)[f] = data[n][f]
<1>1. n \in 1..n /\ (n + 1)..n = {}
  OBVIOUS
<1>2. n \in Giver(data, n, f)
  BY <1>1 DEF Giver
<1>3. \A k \in Giver(data, n, f) : k = n
  <2> SUFFICES ASSUME NEW k \in Giver(data, n, f), k # n
               PROVE  FALSE
    OBVIOUS
  <2>1. k \in 1..n /\ \A j \in (k + 1)..n : f \notin Readable(data[j])
    BY DEF Giver
  <2>2. n \in (k + 1)..n
    BY <2>1
  <2> QED
    BY <2>1, <2>2
<1>4. (CHOOSE k \in Giver(data, n, f) : TRUE) = n
  BY <1>2, <1>3
<1> QED
  BY <1>2, <1>4 DEF LocalsAt

LEMMA StartedSession ==
  ASSUME NEW c \in Commands, NEW n \in Starting(c.action, c.data)
  PROVE  LET s == Session(c.action, c.data, n)
         IN IsSession(s) /\ Faithful(s) /\ s.stage = "requested"
<1> DEFINE data == c.data
           kind == KindOf(c.action)
           args == LocalsAt(data, n)
           since == [o \in OrderIds |-> IF kind = "status" THEN Count(o) ELSE 0]
           s    == Session(c.action, data, n)
<1>1. /\ Len(data) \in Nat /\ n \in 1..Len(data) /\ n \in Nat \ {0}
      /\ kind # "none" /\ DOMAIN data[n] \subseteq Fields
  <2>1. Len(data) \in Nat /\ \A k \in 1..Len(data) : DOMAIN data[k] \subseteq Fields
    BY CommandsAssumption
  <2>2. n \in Reached(data) /\ kind # "none"
    BY DEF Starting, Asks
  <2>3. n \in 1..Len(data)
    BY <2>2 DEF Reached
  <2> QED
    BY <2>1, <2>2, <2>3
<1>2. kind \in Kinds
  BY <1>1 DEF KindOf, Kinds
<1>3. DOMAIN args = Fields
  BY DEF LocalsAt
<1>4. DOMAIN Body(kind, args) = Fields
  BY <1>3 DEF Body
<1>5. s = [kind |-> kind, args |-> Body(kind, args), own |-> data[n], since |-> since,
           stage |-> "requested", ok |-> FALSE, order |-> 0, at |-> 0]
  BY DEF Session
<1> HIDE DEF s, kind, args, since
<1>6. /\ s.kind = kind /\ s.args = Body(kind, args) /\ s.own = data[n] /\ s.since = since
      /\ s.stage = "requested" /\ s.ok = FALSE /\ s.order = 0 /\ s.at = 0
  BY <1>5
<1>7. IsSession(s)
  BY <1>2, <1>4, <1>5, <1>6 DEF IsSession, Stages
<1>8. ASSUME NEW f \in Readable(data[n])
      PROVE  \/ kind = "create" /\ Body(kind, args)["type"] = "market" /\ f \in {"type", "price"}
             \/ Body(kind, args)[f] = data[n][f]
  <2>1. f \in Fields
    BY <1>1 DEF Readable
  <2>2. args[f] = data[n][f]
    BY <1>1, <2>1, OwnFieldRead DEF args
  <2>3. CASE kind # "create" \/ args["type"] = "limit"
    BY <2>2, <2>3 DEF Body
  <2>4. CASE ~(kind # "create" \/ args["type"] = "limit")
    <3>1. Body(kind, args) = [args EXCEPT !["type"] = "market", !["price"] = "0"]
      BY <2>4 DEF Body
    <3>2. Body(kind, args)["type"] = "market"
      BY <1>3, <3>1 DEF Fields
    <3>3. f \notin {"type", "price"} => Body(kind, args)[f] = args[f]
      BY <1>3, <2>1, <3>1
    <3> QED
      BY <2>2, <2>4, <3>2, <3>3
  <2> QED
    BY <2>3, <2>4
<1>9. Faithful(s)
  BY <1>6, <1>8 DEF Faithful
<1> QED
  BY <1>6, <1>7, <1>9 DEF s

-----------------------------------------------------------------------------
(* What an action that goes on with some sessions keeps *)

LEMMA SessionsKeep ==
  ASSUME IInv, SessionsGoOn, logged' \subseteq 1..Len(sessions'),
         \A o \in 1..Len(orders) : /\ o \in 1..Len(orders')
                                   /\ 1..Len(orders[o]) \subseteq 1..Len(orders'[o]),
         \A i \in 1..Len(sessions') :
           \/ i \in 1..Len(sessions) /\ sessions'[i] = sessions[i]
           \/ /\ IsSession(sessions'[i])
              /\ \/ Faithful(sessions'[i]) /\ sessions'[i].stage = "requested"
                 \/ i \in 1..Len(sessions) /\ sessions'[i].stage = "done"
                 \/ /\ i \in 1..Len(sessions)
                    /\ sessions'[i].ok => /\ sessions'[i].order \in 1..Len(orders')
                                          /\ sessions'[i].at \in 1..Len(orders'[sessions'[i].order])
  PROVE  SessionsInv'
<1>1. IsSequence(sessions')
  BY DEF SessionsGoOn
<1>2. ASSUME NEW i \in 1..Len(sessions')
      PROVE  /\ IsSession(sessions'[i]) /\ Faithful(sessions'[i])
             /\ sessions'[i].stage = "answered" /\ sessions'[i].ok =>
                  /\ sessions'[i].order \in 1..Len(orders')
                  /\ sessions'[i].at \in 1..Len(orders'[sessions'[i].order])
  <2>1. i \in 1..Len(sessions) => Faithful(sessions'[i])
    <3> HAVE i \in 1..Len(sessions)
    <3>1. Faithful(sessions[i])
      BY DEF IInv, SessionsInv
    <3>2. /\ sessions'[i].kind = sessions[i].kind /\ sessions'[i].args = sessions[i].args
          /\ sessions'[i].own = sessions[i].own
      BY DEF SessionsGoOn
    <3> QED
      BY <3>1, <3>2 DEF Faithful
  <2>2. CASE i \in 1..Len(sessions) /\ sessions'[i] = sessions[i]
    BY <2>1, <2>2 DEF IInv, SessionsInv
  <2>3. CASE ~(i \in 1..Len(sessions) /\ sessions'[i] = sessions[i])
    BY <2>1, <2>3
  <2> QED
    BY <2>2, <2>3
<1> QED
  BY <1>1, <1>2 DEF SessionsInv

LEMMA MetaKeep ==
  ASSUME IInv, SessionsGoOn, meta' = meta
  PROVE  MetaInv'
<1>1. Len(sessions) \in Nat /\ Len(sessions') \in Nat /\ Len(sessions) <= Len(sessions')
  BY DEF IInv, SessionsInv, SessionsGoOn, IsSequence
<1>2. ASSUME NEW o \in 1..Len(meta)
      PROVE  /\ meta[o].session \in 1..Len(sessions')
             /\ LET s == sessions'[meta[o].session]
                IN /\ s.kind = "create" /\ s.stage # "requested"
                   /\ meta[o].type = s.args["type"] /\ meta[o].price = s.args["price"]
  <2>1. /\ meta[o].session \in 1..Len(sessions)
        /\ LET s == sessions[meta[o].session]
           IN /\ s.kind = "create" /\ s.stage # "requested"
              /\ meta[o].type = s.args["type"] /\ meta[o].price = s.args["price"]
    BY DEF IInv, MetaInv
  <2> QED
    BY <1>1, <2>1 DEF SessionsGoOn
<1> QED
  BY <1>2 DEF IInv, MetaInv

\* An order that lives after a step lived before, or its session was waiting.
LEMMA SweptKeep ==
  ASSUME IInv, SessionsGoOn, swept' = swept, IsSequence(orders'),
         \A i \in (Len(sessions) + 1)..Len(sessions') : i > Len(sessions),
         \A o \in 1..Len(orders') : Live(o)' =>
           \/ o \in 1..Len(orders) /\ Live(o) /\ meta'[o] = meta[o]
           \/ /\ meta'[o].session \in 1..Len(sessions)
              /\ sessions[meta'[o].session].stage = "requested"
  PROVE  SweptInv'
<1>1. Len(sessions) \in Nat /\ Len(sessions') \in Nat /\ Len(sessions) <= Len(sessions')
  BY DEF IInv, SessionsInv, SessionsGoOn, IsSequence
<1>2. DOMAIN orders' = 1..Len(orders') /\ DOMAIN orders = 1..Len(orders)
  BY SequenceOfElements DEF IInv, OrdersInv
<1>3. ASSUME NEW w \in swept
      PROVE  /\ w.upto \in 0..Len(sessions')
             /\ \A i \in 1..Len(sessions') :
                  sessions'[i].stage = "requested" => i > w.upto \/ i \in w.unseen
  <2>1. w.upto \in 0..Len(sessions)
    BY DEF IInv, SweptInv
  <2>2. \A i \in 1..Len(sessions) :
          sessions'[i].stage = "requested" => i > w.upto \/ i \in w.unseen
    BY DEF IInv, SweptInv, SessionsGoOn
  <2>3. \A i \in 1..Len(sessions') : i \in 1..Len(sessions) \/ i > w.upto
    BY <1>1, <2>1
  <2> QED
    BY <1>1, <2>1, <2>2, <2>3
<1>4. ASSUME NEW w \in swept, NEW o \in 1..Len(orders'), Live(o)'
      PROVE  \/ meta'[o].session > w.upto \/ meta'[o].session \in w.unseen
             \/ meta'[o].market \in w.failed \/ meta'[o].market \notin Configured
  <2>1. CASE o \in 1..Len(orders) /\ Live(o) /\ meta'[o] = meta[o]
    BY <1>2, <2>1 DEF IInv, SweptInv, CancelAllSparesOnlyInFlight
  <2>2. CASE /\ meta'[o].session \in 1..Len(sessions)
             /\ sessions[meta'[o].session].stage = "requested"
    BY <2>2 DEF IInv, SweptInv
  <2> QED
    BY <1>4, <2>1, <2>2
<1> QED
  BY <1>2, <1>3, <1>4 DEF SweptInv, CancelAllSparesOnlyInFlight

LEMMA NewsKeep ==
  ASSUME IInv, UNCHANGED <<orders, meta, updates, told, dropped>>
  PROVE  OrdersInv' /\ UpdatesInv' /\ ToldInv' /\ LastTold' /\ ReportsComplete'
<1>1. OrdersInv' /\ UpdatesInv'
  BY DEF IInv, OrdersInv, UpdatesInv
<1>2. ToldInv'
  BY DEF IInv, ToldInv, TrueOf
<1>3. LastTold' /\ ReportsComplete'
  BY DEF IInv, LastTold, ReportsComplete, InOrder, Via, InFlight
<1> QED
  BY <1>1, <1>2, <1>3

\* Sessions that are not touched.
LEMMA SessionsStay ==
  ASSUME IInv, sessions' = sessions
  PROVE  SessionsGoOn
BY DEF IInv, SessionsInv, SessionsGoOn, IsSequence

\* One session that is answered, or done.
LEMMA SessionMoves ==
  ASSUME IInv, NEW i \in DOMAIN sessions, NEW e,
         e = [kind |-> e.kind, args |-> e.args, own |-> e.own, since |-> e.since,
              stage |-> e.stage, ok |-> e.ok, order |-> e.order, at |-> e.at],
         e.kind = sessions[i].kind, e.args = sessions[i].args,
         e.own = sessions[i].own, e.since = sessions[i].since,
         e.stage \in Stages \ {"requested"},
         sessions' = [sessions EXCEPT ![i] = e]
  PROVE  /\ SessionsGoOn /\ i \in 1..Len(sessions) /\ Len(sessions') = Len(sessions)
         /\ sessions'[i] = e /\ IsSession(e)
         /\ \A j \in 1..Len(sessions) : j # i => sessions'[j] = sessions[j]
<1>1. IsSequence(sessions)
  BY DEF IInv, SessionsInv
<1>2. i \in 1..Len(sessions) /\ Len(sessions) \in Nat /\ DOMAIN sessions = 1..Len(sessions)
  BY <1>1, SequenceOfElements DEF IsSequence
<1>3. /\ IsSequence(sessions') /\ Len(sessions') = Len(sessions) /\ sessions'[i] = e
      /\ \A j \in 1..Len(sessions) : j # i => sessions'[j] = sessions[j]
  <2>1. sessions' = [j \in 1..Len(sessions) |-> sessions'[j]]
    BY <1>2
  <2>2. Len(sessions') = Len(sessions)
    BY <1>2, <2>1
  <2> QED
    BY <1>2, <2>1, <2>2 DEF IsSequence
<1>6. IsSession(sessions[i])
  BY <1>2 DEF IInv, SessionsInv
<1>7. IsSession(e)
  BY <1>6 DEF IsSession
<1>8. SessionsGoOn
  BY <1>2, <1>3 DEF SessionsGoOn
<1> QED
  BY <1>2, <1>3, <1>7, <1>8

\* Session i is done.
Ended(i) == sessions' = [sessions EXCEPT ![i].stage = "done"]

LEMMA SessionEnds ==
  ASSUME IInv, NEW i \in DOMAIN sessions, Ended(i)
  PROVE  /\ SessionsGoOn /\ i \in 1..Len(sessions) /\ Len(sessions') = Len(sessions)
         /\ IsSession(sessions'[i]) /\ sessions'[i].stage = "done"
         /\ \A j \in 1..Len(sessions) : j # i => sessions'[j] = sessions[j]
<1>1. PICK s : s = sessions[i]
  OBVIOUS
<1>2. IsSession(s)
  BY <1>1, SequenceOfElements DEF IInv, SessionsInv
<1>3. s = [kind |-> s.kind, args |-> s.args, own |-> s.own, since |-> s.since,
           stage |-> s.stage, ok |-> s.ok, order |-> s.order, at |-> s.at]
  BY <1>2 DEF IsSession
<1>4. PICK e : e = [kind |-> s.kind, args |-> s.args, own |-> s.own, since |-> s.since,
                    stage |-> "done", ok |-> s.ok, order |-> s.order, at |-> s.at]
  OBVIOUS
<1>5. e = [s EXCEPT !.stage = "done"]
  BY <1>3, <1>4
<1>6. sessions' = [sessions EXCEPT ![i] = e]
  BY <1>1, <1>5 DEF Ended
<1>7. /\ e.kind = s.kind /\ e.args = s.args /\ e.own = s.own /\ e.since = s.since /\ e.stage = "done"
      /\ e = [kind |-> e.kind, args |-> e.args, own |-> e.own, since |-> e.since,
              stage |-> e.stage, ok |-> e.ok, order |-> e.order, at |-> e.at]
  BY <1>4
<1>8. "done" \in Stages \ {"requested"}
  BY DEF Stages
<1>9. /\ SessionsGoOn /\ i \in 1..Len(sessions) /\ Len(sessions') = Len(sessions)
      /\ sessions'[i] = e /\ IsSession(e)
      /\ \A j \in 1..Len(sessions) : j # i => sessions'[j] = sessions[j]
  BY <1>1, <1>6, <1>7, <1>8, SessionMoves
<1> QED
  BY <1>7, <1>9

LEMMA SessionAnswered ==
  ASSUME IInv, NEW i \in DOMAIN sessions, NEW ok \in BOOLEAN, NEW o, NEW at,
         Answered(i, ok, o, at)
  PROVE  /\ SessionsGoOn /\ i \in 1..Len(sessions) /\ Len(sessions') = Len(sessions)
         /\ IsSession(sessions'[i]) /\ sessions'[i].stage = "answered"
         /\ sessions'[i].ok = ok /\ sessions'[i].order = o /\ sessions'[i].at = at
         /\ \A j \in 1..Len(sessions) : j # i => sessions'[j] = sessions[j]
<1>1. PICK s : s = sessions[i]
  OBVIOUS
<1>2. IsSession(s)
  BY <1>1, SequenceOfElements DEF IInv, SessionsInv
<1>3. s = [kind |-> s.kind, args |-> s.args, own |-> s.own, since |-> s.since,
           stage |-> s.stage, ok |-> s.ok, order |-> s.order, at |-> s.at]
  BY <1>2 DEF IsSession
<1>4. PICK e : e = [s EXCEPT !.stage = "answered", !.ok = ok, !.order = o, !.at = at]
  OBVIOUS
<1>5. e = [kind |-> s.kind, args |-> s.args, own |-> s.own, since |-> s.since,
           stage |-> "answered", ok |-> ok, order |-> o, at |-> at]
  BY <1>3, <1>4
<1>6. sessions' = [sessions EXCEPT ![i] = e]
  BY <1>1, <1>4 DEF Answered
<1>7. /\ e.kind = s.kind /\ e.args = s.args /\ e.own = s.own /\ e.since = s.since
      /\ e.stage = "answered" /\ e.ok = ok /\ e.order = o /\ e.at = at
      /\ e = [kind |-> e.kind, args |-> e.args, own |-> e.own, since |-> e.since,
              stage |-> e.stage, ok |-> e.ok, order |-> e.order, at |-> e.at]
  BY <1>5
<1>8. "answered" \in Stages \ {"requested"}
  BY DEF Stages
<1>9. /\ SessionsGoOn /\ i \in 1..Len(sessions) /\ Len(sessions') = Len(sessions)
      /\ sessions'[i] = e /\ IsSession(e)
      /\ \A j \in 1..Len(sessions) : j # i => sessions'[j] = sessions[j]
  BY <1>1, <1>6, <1>7, <1>8, SessionMoves
<1> QED
  BY <1>7, <1>9

-----------------------------------------------------------------------------
(* The steps that leave the orders and what is told of them alone *)

LEMMA InvInit == Init => IInv
<1> SUFFICES ASSUME Init
             PROVE  IInv
  OBVIOUS
<1>1. BoundsInv /\ SessionsInv /\ MetaInv /\ OrdersInv /\ UpdatesInv
  BY CommandsAssumption
     DEF Init, BoundsInv, SessionsInv, MetaInv, OrdersInv, UpdatesInv, IsSequence
<1>2. ToldInv /\ LastTold /\ ReportsComplete /\ SweptInv
  BY DEF Init, ToldInv, LastTold, ReportsComplete, SweptInv, CancelAllSparesOnlyInFlight, Via,
         IsSequence
<1> QED
  BY <1>1, <1>2 DEF IInv

\* A step that tells the core nothing: orders move and the private socket is told of it,
\* or no order moves.
Reported ==
  \/ UNCHANGED <<orders, told, dropped>>
  \/ /\ told' = told
     /\ \E changed \in SUBSET OrderIds : OrdersMove(changed) /\ Tells(changed)

LEMMA QuietStep ==
  ASSUME IInv, BoundsInv', SessionsInv', SessionsGoOn,
         UNCHANGED <<orders, meta, updates, told, dropped, swept>>
  PROVE  IInv' /\ Reported
<1>1. MetaInv'
  BY MetaKeep
<1>2. OrdersInv' /\ UpdatesInv' /\ ToldInv' /\ LastTold' /\ ReportsComplete'
  BY NewsKeep
<1>3. SweptInv'
  <2>1. IsSequence(orders')
    BY DEF IInv, OrdersInv
  <2>2. \A i \in (Len(sessions) + 1)..Len(sessions') : i > Len(sessions)
    BY DEF IInv, SessionsInv, IsSequence
  <2>3. \A o \in 1..Len(orders') : Live(o)' => o \in 1..Len(orders) /\ Live(o) /\ meta'[o] = meta[o]
    BY DEF Live, Now
  <2> QED
    BY <2>1, <2>2, <2>3, SweptKeep
<1> QED
  BY <1>1, <1>2, <1>3 DEF IInv, Reported

\* No session is touched.
LEMMA QuieterStep ==
  ASSUME IInv, BoundsInv',
         UNCHANGED <<sessions, orders, meta, updates, told, dropped, logged, swept>>
  PROVE  IInv' /\ Reported
<1>1. SessionsInv'
  BY DEF IInv, SessionsInv
<1> QED
  BY <1>1, SessionsStay, QuietStep

LEMMA SendKeepsInv ==
  ASSUME IInv, send_command
  PROVE  IInv' /\ Reported
<1>1. BoundsInv'
  BY HeadTailProperties, AppendProperties DEF IInv, BoundsInv, send_command
<1> QED
  BY <1>1, QuieterStep DEF send_command

LEMMA NoArrayKeepsInv ==
  ASSUME IInv, aeron_handler_no_array
  PROVE  IInv' /\ Reported
<1>1. BoundsInv'
  BY HeadTailProperties DEF IInv, BoundsInv, aeron_handler_no_array
<1> QED
  BY <1>1, QuieterStep DEF aeron_handler_no_array

LEMMA RestartKeepsInv ==
  ASSUME IInv, restart_private_ws
  PROVE  IInv' /\ Reported
<1>1. BoundsInv'
  BY DEF IInv, BoundsInv, restart_private_ws
<1> QED
  BY <1>1, QuieterStep DEF restart_private_ws

LEMMA StutterKeepsInv ==
  ASSUME IInv, UNCHANGED vars
  PROVE  IInv' /\ Reported
<1>1. BoundsInv'
  BY DEF IInv, BoundsInv, vars
<1> QED
  BY <1>1, QuieterStep DEF vars

LEMMA ArrayKeepsInv ==
  ASSUME IInv, aeron_handler_array
  PROVE  IInv' /\ Reported
<1>1. Head(inbox) \in Commands
  BY HeadTailProperties DEF IInv, BoundsInv, aeron_handler_array
<1>2. PICK c \in Commands : c = Head(inbox)
  BY <1>1
<1> DEFINE S == Starting(c.action, c.data)
<1>3. PICK e \in Ascending(S) :
        sessions' = sessions \o [j \in DOMAIN e |-> Session(c.action, c.data, e[j])]
  BY <1>2 DEF aeron_handler_array
<1> DEFINE t == [j \in DOMAIN e |-> Session(c.action, c.data, e[j])]
<1>4. Cardinality(S) \in Nat
  <2>1. Len(c.data) \in Nat
    BY CommandsAssumption
  <2>2. IsFiniteSet(1..Len(c.data))
    BY <2>1, FS_Interval
  <2>3. S \subseteq 1..Len(c.data)
    BY DEF Starting, Reached
  <2> QED
    BY <2>2, <2>3, FS_Subset, FS_CardinalityType
<1> HIDE DEF S
<1>5. DOMAIN e = 1..Cardinality(S) /\ \A j \in 1..Cardinality(S) : e[j] \in S
  BY DEF Ascending
<1>6. IsSequence(t)
  BY <1>4, <1>5 DEF IsSequence
<1>7. Len(t) \in Nat /\ \A j \in 1..Len(t) :
        IsSession(t[j]) /\ Faithful(t[j]) /\ t[j].stage = "requested"
  <2>1. Len(t) = Cardinality(S)
    BY <1>4, <1>5
  <2> SUFFICES ASSUME NEW j \in 1..Cardinality(S)
               PROVE  IsSession(t[j]) /\ Faithful(t[j]) /\ t[j].stage = "requested"
    BY <1>4, <2>1
  <2>2. t[j] = Session(c.action, c.data, e[j])
    BY <1>5
  <2>3. e[j] \in Starting(c.action, c.data)
    BY <1>5 DEF S
  <2> QED
    BY <2>2, <2>3, StartedSession
<1> HIDE DEF t
<1>8. IsSequence(sessions) /\ Len(sessions) \in Nat
  BY DEF IInv, SessionsInv, IsSequence
<1>9. /\ IsSequence(sessions') /\ Len(sessions') = Len(sessions) + Len(t)
      /\ \A i \in 1..Len(sessions) : sessions'[i] = sessions[i]
      /\ \A i \in (Len(sessions) + 1)..(Len(sessions) + Len(t)) :
           sessions'[i] = t[i - Len(sessions)]
  BY <1>3, <1>6, <1>8, ConcatSequence DEF t
<1>10. \A i \in 1..Len(sessions') :
         \/ i \in 1..Len(sessions) /\ sessions'[i] = sessions[i]
         \/ /\ IsSession(sessions'[i]) /\ Faithful(sessions'[i])
            /\ sessions'[i].stage = "requested"
  <2> TAKE i \in 1..Len(sessions')
  <2>1. \/ i \in 1..Len(sessions)
        \/ i \in (Len(sessions) + 1)..(Len(sessions) + Len(t)) /\ i - Len(sessions) \in 1..Len(t)
    BY <1>7, <1>8, <1>9
  <2> QED
    BY <1>7, <1>9, <2>1
<1>11. SessionsGoOn
  BY <1>7, <1>8, <1>9 DEF SessionsGoOn
<1>12. logged' \subseteq 1..Len(sessions')
  BY <1>7, <1>8, <1>9 DEF IInv, SessionsInv, aeron_handler_array
<1>13. SessionsInv'
  BY <1>10, <1>11, <1>12, SessionsKeep DEF aeron_handler_array
<1>14. BoundsInv'
  BY HeadTailProperties DEF IInv, BoundsInv, aeron_handler_array
<1> QED
  BY <1>11, <1>13, <1>14, QuietStep DEF aeron_handler_array

LEMMA ReportsKeepsInv ==
  ASSUME IInv, NEW i \in DOMAIN sessions, exchange_reports(i)
  PROVE  IInv' /\ Reported
<1>1. PICK ok \in BOOLEAN, o \in Nat, at \in Nat :
        /\ Answered(i, ok, o, at)
        /\ ok => o \in 1..Len(orders) /\ at \in 1..Len(orders[o])
  <2>1. CASE Target(sessions[i]) = {} /\ Answered(i, FALSE, 0, 0)
    BY <2>1
  <2>2. CASE \E o \in Target(sessions[i]) : Answered(i, TRUE, o, Len(orders[o]))
    <3>1. PICK o \in Target(sessions[i]) : Answered(i, TRUE, o, Len(orders[o]))
      BY <2>2
    <3>2. o \in 1..Len(orders)
      BY SequenceOfElements DEF Target, IInv, OrdersInv
    <3>3. orders[o] \in Seq(OrderState) /\ orders[o] # <<>>
      BY <3>2 DEF IInv, OrdersInv
    <3>4. Len(orders[o]) \in Nat \ {0}
      BY <3>3, EmptySeq
    <3>5. Len(orders[o]) \in 1..Len(orders[o]) /\ o \in Nat
      BY <3>2, <3>4 DEF IInv, OrdersInv, IsSequence
    <3> QED
      BY <3>1, <3>2, <3>4, <3>5
  <2> QED
    BY <2>1, <2>2 DEF exchange_reports
<1>2. /\ SessionsGoOn /\ i \in 1..Len(sessions) /\ Len(sessions') = Len(sessions)
      /\ IsSession(sessions'[i]) /\ sessions'[i].stage = "answered"
      /\ sessions'[i].ok = ok /\ sessions'[i].order = o /\ sessions'[i].at = at
      /\ \A j \in 1..Len(sessions) : j # i => sessions'[j] = sessions[j]
  BY <1>1, SessionAnswered
<1>3. SessionsInv'
  <2>1. orders' = orders /\ logged' \subseteq 1..Len(sessions')
    BY <1>2 DEF IInv, SessionsInv, exchange_reports
  <2> QED
    BY <1>1, <1>2, <2>1, SessionsKeep
<1>4. BoundsInv'
  BY DEF IInv, BoundsInv, exchange_reports
<1> QED
  BY <1>2, <1>3, <1>4, QuietStep DEF exchange_reports

\* A session that ends, whatever else is done.
LEMMA EndKeepsSessions ==
  ASSUME IInv, NEW i \in DOMAIN sessions, Ended(i), orders' = orders,
         logged' \subseteq logged \cup {i}
  PROVE  SessionsGoOn /\ SessionsInv'
<1>1. /\ SessionsGoOn /\ i \in 1..Len(sessions) /\ Len(sessions') = Len(sessions)
      /\ IsSession(sessions'[i]) /\ sessions'[i].stage = "done"
      /\ \A j \in 1..Len(sessions) : j # i => sessions'[j] = sessions[j]
  BY SessionEnds
<1>2. logged' \subseteq 1..Len(sessions')
  BY <1>1 DEF IInv, SessionsInv
<1> QED
  BY <1>1, <1>2, SessionsKeep

LEMMA FailsKeepsInv ==
  ASSUME IInv, NEW i \in DOMAIN sessions, session_fails(i)
  PROVE  IInv' /\ Reported
<1>1. Ended(i) /\ orders' = orders /\ logged' \subseteq logged \cup {i}
  BY DEF session_fails, Ended
<1>2. BoundsInv'
  BY DEF IInv, BoundsInv, session_fails
<1> QED
  BY <1>1, <1>2, EndKeepsSessions, QuietStep DEF session_fails

LEMMA PlacedKeepsInv ==
  ASSUME IInv, NEW i \in DOMAIN sessions, NEW ok \in BOOLEAN, place_order_handler(i, ok)
  PROVE  IInv' /\ Reported
<1>1. Ended(i) /\ orders' = orders /\ logged' \subseteq logged \cup {i}
  BY DEF place_order_handler, Ended
<1>2. BoundsInv'
  BY DEF IInv, BoundsInv, place_order_handler
<1> QED
  BY <1>1, <1>2, EndKeepsSessions, QuietStep DEF place_order_handler

-----------------------------------------------------------------------------
(* What the core is told *)

\* The core is told of state "at" of order o, as the last thing.
Told(o, at, via, since, message) ==
  \E price \in PriceRead(o) :
    told' = [told EXCEPT ![o] = Append(@, [at |-> at, via |-> via, since |-> since, price |-> price,
                                           message |-> message])]

LEMMA ToldAppends ==
  ASSUME IInv, NEW o \in OrderIds, NEW at, NEW via, NEW since, NEW message, Told(o, at, via, since, message)
  PROVE  /\ DOMAIN told' = OrderIds
         /\ \A p \in OrderIds : p # o => told'[p] = told[p]
         /\ IsSequence(told'[o]) /\ Len(told[o]) \in Nat /\ Len(told'[o]) = Len(told[o]) + 1
         /\ \A i \in 1..Len(told[o]) : told'[o][i] = told[o][i]
         /\ LET t == told'[o][Len(told[o]) + 1]
            IN /\ t.at = at /\ t.via = via /\ t.since = since /\ t.message = message
               /\ meta[o].type = "limit" => t.price = meta[o].price
<1>1. PICK price \in PriceRead(o) :
        told' = [told EXCEPT ![o] = Append(@, [at |-> at, via |-> via, since |-> since, price |-> price,
                                               message |-> message])]
  BY DEF Told
<1>2. DOMAIN told = OrderIds /\ IsSequence(told[o])
  BY DEF IInv, ToldInv
<1>3. PICK t : t = [at |-> at, via |-> via, since |-> since, price |-> price,
                    message |-> message]
  OBVIOUS
<1>4. told'[o] = Append(told[o], t)
  BY <1>1, <1>2, <1>3
<1>5. /\ IsSequence(Append(told[o], t)) /\ Len(Append(told[o], t)) = Len(told[o]) + 1
      /\ \A i \in 1..Len(told[o]) : Append(told[o], t)[i] = told[o][i]
      /\ Append(told[o], t)[Len(told[o]) + 1] = t
  BY <1>2, AppendSequence
<1>6. meta[o].type = "limit" => price = meta[o].price
  BY <1>1 DEF PriceRead
<1>7. Len(told[o]) \in Nat
  BY <1>2 DEF IsSequence
<1>8. DOMAIN told' = OrderIds /\ \A p \in OrderIds : p # o => told'[p] = told[p]
  BY <1>1, <1>2
<1> QED
  BY <1>3, <1>4, <1>5, <1>6, <1>7, <1>8

\* What is told of a state the order has gone through is true, when the message is.
LEMMA ToldStaysTrue ==
  ASSUME IInv, NEW o \in OrderIds, NEW at, NEW via, NEW since, NEW message, Told(o, at, via, since, message),
         UNCHANGED <<orders, meta>>,
         o \in 1..Len(orders), at \in 1..Len(orders[o]),
         Honest(message, orders[o][at])
  PROVE  OrdersInv' /\ ToldInv'
<1>1. OrdersInv'
  BY DEF IInv, OrdersInv
<1>2. /\ DOMAIN told' = OrderIds
      /\ \A p \in OrderIds : p # o => told'[p] = told[p]
      /\ IsSequence(told'[o]) /\ Len(told[o]) \in Nat /\ Len(told'[o]) = Len(told[o]) + 1
      /\ \A i \in 1..Len(told[o]) : told'[o][i] = told[o][i]
      /\ LET t == told'[o][Len(told[o]) + 1]
         IN /\ t.at = at /\ t.via = via /\ t.since = since /\ t.message = message
            /\ meta[o].type = "limit" => t.price = meta[o].price
  BY ToldAppends
<1>3. ASSUME NEW p \in OrderIds, NEW i \in 1..Len(told'[p])
      PROVE  TrueOf(p, told'[p][i])
  <2>1. CASE p # o \/ i # Len(told[o]) + 1
    <3>1. CASE p # o
      BY <1>2, <3>1 DEF IInv, ToldInv
    <3>2. CASE p = o
      <4>1. i \in 1..Len(told'[o]) /\ i # Len(told[o]) + 1
        BY <2>1, <3>2
      <4>2. i \in 1..Len(told[o])
        BY <1>2, <4>1
      <4>3. told'[o][i] = told[o][i]
        BY <1>2, <4>2
      <4> QED
        BY <3>2, <4>2, <4>3 DEF IInv, ToldInv
    <3> QED
      BY <3>1, <3>2
  <2>2. CASE p = o /\ i = Len(told[o]) + 1
    BY <1>2, <2>2 DEF TrueOf
  <2> QED
    BY <2>1, <2>2
<1>4. ToldInv'
  BY <1>2, <1>3 DEF IInv, ToldInv, TrueOf
<1> QED
  BY <1>1, <1>4

\* What updates told after that.
LEMMA ViaAfter ==
  ASSUME IInv, NEW o \in OrderIds, NEW at, NEW via, NEW since, NEW message, Told(o, at, via, since, message)
  PROVE  /\ \A p \in OrderIds : /\ \A i \in Via(p) : told'[p][i].at = told[p][i].at
                                /\ p # o \/ via # "update" => Via(p)' = Via(p)
         /\ via = "update" => /\ Via(o)' = Via(o) \cup {Len(told[o]) + 1}
                              /\ told'[o][Len(told[o]) + 1].at = at
                              /\ \A i \in Via(o) : i < Len(told[o]) + 1
<1>1. /\ \A p \in OrderIds : p # o => told'[p] = told[p]
      /\ Len(told[o]) \in Nat /\ Len(told'[o]) = Len(told[o]) + 1
      /\ \A i \in 1..Len(told[o]) : told'[o][i] = told[o][i]
      /\ LET t == told'[o][Len(told[o]) + 1] IN t.at = at /\ t.via = via
  BY ToldAppends
<1>2. \A p \in OrderIds : p # o => Via(p)' = Via(p) /\ \A i \in Via(p) : told'[p][i].at = told[p][i].at
  BY <1>1 DEF Via
<1>3. \A i \in Via(o) : i \in 1..Len(told[o]) /\ told'[o][i].at = told[o][i].at
  BY <1>1 DEF Via
<1>4. \A i : i \in 1..Len(told'[o]) <=> i \in 1..Len(told[o]) \/ i = Len(told[o]) + 1
  BY <1>1
<1>5. \A i : i \in Via(o)' <=> i \in Via(o) \/ (i = Len(told[o]) + 1 /\ via = "update")
  BY <1>1, <1>4 DEF Via
<1>6. /\ via # "update" => Via(o)' = Via(o)
      /\ via = "update" => Via(o)' = Via(o) \cup {Len(told[o]) + 1}
  BY <1>5
<1>7. \A i \in Via(o) : i < Len(told[o]) + 1
  BY <1>1, <1>3
<1> QED
  BY <1>1, <1>2, <1>3, <1>6, <1>7

\* What is in flight when the oldest update has been taken.
LEMMA TakenFlight ==
  ASSUME IInv, updates # <<>>, updates' = Tail(updates)
  PROVE  /\ 1 \in 1..Len(updates) /\ Head(updates) = updates[1]
         /\ IsSequence(updates')
         /\ \A i \in 1..Len(updates') : i + 1 \in 1..Len(updates) /\ updates'[i] = updates[i + 1]
         /\ \A j \in 1..Len(updates) : j # 1 =>
              j - 1 \in 1..Len(updates') /\ updates'[j - 1] = updates[j]
<1>1. IsSequence(updates)
  BY DEF IInv, UpdatesInv
<1>2. /\ Len(updates) \in Nat \ {0} /\ Head(updates) = updates[1]
      /\ IsSequence(updates') /\ Len(updates') = Len(updates) - 1
      /\ \A i \in 1..Len(updates') : updates'[i] = updates[i + 1]
  BY <1>1, TailSequence
<1>3. \A j \in 1..Len(updates) : j # 1 => j - 1 \in 1..Len(updates') /\ (j - 1) + 1 = j
  BY <1>2
<1> QED
  BY <1>2, <1>3

LEMMA TakenInFlight ==
  ASSUME IInv, updates # <<>>, updates' = Tail(updates), NEW p
  PROVE  /\ \A i \in InFlight(p)' : i \in Nat /\ i + 1 \in InFlight(p)
                                    /\ updates'[i] = updates[i + 1]
         /\ \A j \in InFlight(p) : /\ j \in Nat
                                   /\ j # 1 => j - 1 \in InFlight(p)' /\ updates'[j - 1] = updates[j]
<1>1. /\ \A i \in 1..Len(updates') : i + 1 \in 1..Len(updates) /\ updates'[i] = updates[i + 1]
      /\ \A j \in 1..Len(updates) : j # 1 =>
           j - 1 \in 1..Len(updates') /\ updates'[j - 1] = updates[j]
  BY TakenFlight
<1>2. Len(updates) \in Nat /\ Len(updates') \in Nat
  BY TakenFlight DEF IInv, UpdatesInv, IsSequence
<1> QED
  BY <1>1, <1>2 DEF InFlight

\* A state of an order in flight or told is a number.
LEMMA Numbers ==
  ASSUME IInv
  PROVE  /\ \A o \in OrderIds : \A i \in Via(o) : i \in Nat /\ told[o][i].at \in Nat
         /\ \A o : \A i \in InFlight(o) : i \in Nat /\ updates[i].at \in Nat
<1>1. ASSUME NEW o \in OrderIds, NEW i \in Via(o)
      PROVE  i \in Nat /\ told[o][i].at \in Nat
  <2>1. i \in 1..Len(told[o]) /\ Len(told[o]) \in Nat
    BY DEF IInv, ToldInv, IsSequence, Via
  <2>2. TrueOf(o, told[o][i])
    BY <2>1 DEF IInv, ToldInv
  <2>3. orders[o] \in Seq(OrderState) /\ told[o][i].at \in 1..Len(orders[o])
    BY <2>2 DEF TrueOf, IInv, OrdersInv
  <2> QED
    BY <2>1, <2>3
<1>2. ASSUME NEW o, NEW i \in InFlight(o)
      PROVE  i \in Nat /\ updates[i].at \in Nat
  <2>1. i \in 1..Len(updates) /\ Len(updates) \in Nat
    BY DEF IInv, UpdatesInv, IsSequence, InFlight
  <2>2. updates[i].order \in 1..Len(orders) /\ updates[i].at \in 1..Len(orders[updates[i].order])
    BY <2>1 DEF IInv, UpdatesInv
  <2>3. orders[updates[i].order] \in Seq(OrderState)
    BY <2>2 DEF IInv, OrdersInv
  <2> QED
    BY <2>1, <2>2, <2>3
<1> QED
  BY <1>1, <1>2

LEMMA OrderIsId == ASSUME IInv, NEW o \in 1..Len(orders) PROVE o \in OrderIds
BY CommandsAssumption DEF IInv, OrdersInv, MetaInv, IsSequence, OrderIds

LEMMA DescriptionHonest ==
  ASSUME NEW s \in OrderState
  PROVE  Honest(Description(s).message, s)
BY DEF Honest, Description, OrderState

\* The two outcomes of telling: with the offer the order's news grow, without it they
\* are lost.
LEMMA UpdateStep ==
  ASSUME IInv, NEW ok \in BOOLEAN, private_ws_handler(ok)
  PROVE  /\ updates # <<>> /\ updates' = Tail(updates) /\ Head(updates) = updates[1]
         /\ LET u == updates[1]
            IN /\ u.order \in 1..Len(orders) /\ u.at \in 1..Len(orders[u.order])
               /\ 1 \in InFlight(u.order) /\ u.order \in OrderIds
               /\ \/ /\ Told(u.order, u.at, "update", 0, Description(orders[u.order][u.at]).message)
                     /\ dropped' = dropped
                  \/ told' = told /\ dropped' = dropped \cup {u.order}
         /\ UNCHANGED <<script, inbox, sessions, orders, meta, link, breaks, logged, swept>>
<1> DEFINE u == updates[1]
<1>1. /\ updates # <<>> /\ updates' = Tail(updates)
      /\ UNCHANGED <<script, inbox, sessions, orders, meta, link, breaks, logged, swept>>
  BY DEF private_ws_handler
<1>2. 1 \in 1..Len(updates) /\ Head(updates) = u
  BY <1>1, TakenFlight
<1>3. /\ u.order \in 1..Len(orders) /\ u.at \in 1..Len(orders[u.order]) /\ 1 \in InFlight(u.order)
  BY <1>2 DEF IInv, UpdatesInv, InFlight
<1>4. u.order \in OrderIds
  BY <1>3, OrderIsId
<1>5. /\ order_status_prepare(u.order, u.at, "update", 0, Description(orders[u.order][u.at]), ok)
      /\ dropped' = IF ok THEN dropped ELSE dropped \cup {u.order}
  BY <1>2 DEF private_ws_handler
<1>6. CASE ok = TRUE
  <2>1. /\ Told(u.order, u.at, "update", 0, Description(orders[u.order][u.at]).message)
        /\ dropped' = dropped
    BY <1>5, <1>6, Zenon DEF order_status_prepare, Told
  <2> QED
    BY <1>1, <1>2, <1>3, <1>4, <2>1
<1>7. CASE ok = FALSE
  <2>1. told' = told /\ dropped' = dropped \cup {u.order}
    BY <1>5, <1>7, Zenon DEF order_status_prepare
  <2> QED
    BY <1>1, <1>2, <1>3, <1>4, <2>1
<1> QED
  BY <1>6, <1>7

LEMMA UpdateKeepsReports ==
  ASSUME IInv, NEW ok \in BOOLEAN, private_ws_handler(ok)
  PROVE  ReportsComplete'
<1> DEFINE u == updates[1]
           at == u.at
<1>1. /\ updates # <<>> /\ updates' = Tail(updates) /\ orders' = orders
      /\ u.order \in 1..Len(orders) /\ 1 \in InFlight(u.order) /\ u.order \in OrderIds
      /\ \/ /\ Told(u.order, u.at, "update", 0, Description(orders[u.order][u.at]).message)
            /\ dropped' = dropped
         \/ told' = told /\ dropped' = dropped \cup {u.order}
  BY UpdateStep
<1>2. DOMAIN orders = 1..Len(orders)
  BY SequenceOfElements DEF IInv, OrdersInv
<1>3. ASSUME NEW p \in 1..Len(orders)
      PROVE  /\ InOrder(p)'
             /\ p \notin dropped' =>
                  1..Len(orders[p]) \subseteq {told'[p][i].at : i \in Via(p)'}
                                              \cup {updates'[i].at : i \in InFlight(p)'}
  <2>1. p \in OrderIds
    BY OrderIsId
  <2>2. InOrder(p)
    BY <1>2 DEF IInv, ReportsComplete
  <2>3. p \notin dropped =>
          1..Len(orders[p]) \subseteq {told[p][i].at : i \in Via(p)}
                                      \cup {updates[i].at : i \in InFlight(p)}
    BY <1>2 DEF IInv, ReportsComplete
  <2>4. /\ \A i \in InFlight(p)' : i \in Nat /\ i + 1 \in InFlight(p) /\ updates'[i] = updates[i + 1]
        /\ \A j \in InFlight(p) : /\ j \in Nat
                                  /\ j # 1 => j - 1 \in InFlight(p)' /\ updates'[j - 1] = updates[j]
    BY <1>1, TakenInFlight
  <2>5. /\ \A i \in Via(p) : i \in Nat /\ told[p][i].at \in Nat
        /\ \A i \in InFlight(p) : i \in Nat /\ updates[i].at \in Nat
    BY <2>1, Numbers
  <2>6. \A i, j \in InFlight(p)' : i < j => updates'[i].at < updates'[j].at
    <3> TAKE i, j \in InFlight(p)'
    <3>1. /\ i \in Nat /\ i + 1 \in InFlight(p) /\ updates'[i].at = updates[i + 1].at
          /\ j \in Nat /\ j + 1 \in InFlight(p) /\ updates'[j].at = updates[j + 1].at
      BY <2>4
    <3>2. i < j => i + 1 < j + 1
      BY <3>1
    <3>3. i + 1 < j + 1 => updates[i + 1].at < updates[j + 1].at
      BY <2>2, <3>1 DEF InOrder
    <3> QED
      BY <3>1, <3>2, <3>3
  <2>7. CASE Via(p)' = Via(p) /\ \A i \in Via(p) : told'[p][i].at = told[p][i].at
    <3>1. \A i, j \in Via(p)' : i < j => told'[p][i].at < told'[p][j].at
      BY <2>2, <2>7 DEF InOrder
    <3>2. \A i \in Via(p)', j \in InFlight(p)' : told'[p][i].at < updates'[j].at
      BY <2>2, <2>4, <2>7 DEF InOrder
    <3>3. InOrder(p)'
      BY <2>6, <3>1, <3>2 DEF InOrder
    <3>4. p \notin dropped' => 1 \notin InFlight(p) /\ p \notin dropped
      <4>1. CASE p = u.order
        <5>1. CASE told' = told /\ dropped' = dropped \cup {u.order}
          BY <4>1, <5>1
        <5>2. CASE Told(u.order, u.at, "update", 0, Description(orders[u.order][u.at]).message)
          <6>1. /\ Via(p)' = Via(p) \cup {Len(told[p]) + 1}
                /\ \A i \in Via(p) : i < Len(told[p]) + 1
            BY <1>1, <4>1, <5>2, ViaAfter
          <6>2. Len(told[p]) + 1 \in Via(p) /\ Len(told[p]) + 1 < Len(told[p]) + 1
            BY <2>7, <6>1
          <6>3. Len(told[p]) + 1 \in Nat
            BY <2>5, <6>2
          <6> QED
            BY <6>2, <6>3
        <5> QED
          BY <1>1, <5>1, <5>2
      <4>2. CASE p # u.order
        BY <1>1, <4>2 DEF InFlight
      <4> QED
        BY <4>1, <4>2
    <3>5. ASSUME p \notin dropped', NEW n \in 1..Len(orders[p])
          PROVE  n \in {told'[p][i].at : i \in Via(p)'} \cup {updates'[i].at : i \in InFlight(p)'}
      <4>1. CASE \E i \in Via(p) : told[p][i].at = n
        BY <2>7, <4>1
      <4>2. CASE \E j \in InFlight(p) : updates[j].at = n
        <5>1. PICK j \in InFlight(p) : updates[j].at = n
          BY <4>2
        <5>2. j - 1 \in InFlight(p)' /\ updates'[j - 1] = updates[j]
          BY <2>4, <3>4, <3>5, <5>1
        <5> QED
          BY <5>1, <5>2
      <4>3. p \notin dropped
        BY <3>4, <3>5
      <4> QED
        BY <2>3, <4>1, <4>2, <4>3
    <3> QED
      BY <3>3, <3>5
  <2>8. CASE ~(Via(p)' = Via(p) /\ \A i \in Via(p) : told'[p][i].at = told[p][i].at)
    <3> DEFINE n == Len(told[p]) + 1
    <3>1. /\ Told(u.order, u.at, "update", 0, Description(orders[u.order][u.at]).message)
          /\ dropped' = dropped
      <4>1. told' = told => Via(p)' = Via(p)
        BY DEF Via
      <4> QED
        BY <1>1, <2>8, <4>1
    <3>2. p = u.order
      <4>1. p # u.order => Via(p)' = Via(p) /\ \A i \in Via(p) : told'[p][i].at = told[p][i].at
        BY <1>1, <2>1, <3>1, ViaAfter
      <4> QED
        BY <2>8, <4>1
    <3>3. /\ Via(p)' = Via(p) \cup {n} /\ told'[p][n].at = at
          /\ \A i \in Via(p) : i < n /\ told'[p][i].at = told[p][i].at
      <4>1. Told(p, at, "update", 0, Description(orders[p][at]).message)
        BY <3>1, <3>2
      <4>2. \A i \in Via(p) : told'[p][i].at = told[p][i].at
        BY <2>1, <4>1, ViaAfter
      <4>3. Via(p)' = Via(p) \cup {n} /\ told'[p][n].at = at /\ \A i \in Via(p) : i < n
        BY <2>1, <4>1, ViaAfter
      <4> QED
        BY <4>2, <4>3
    <3>4. n \in Nat
      <4>1. Len(told[p]) \in Nat
        BY <2>1, Zenon DEF IInv, ToldInv, IsSequence
      <4> QED
        BY <4>1
    <3> HIDE DEF n
    <3>5. 1 \in InFlight(p) /\ at = updates[1].at
      BY <1>1, <3>2
    <3> HIDE DEF at, u
    <3>6. \A i \in Via(p) : told[p][i].at < at
      BY <2>2, <3>5 DEF InOrder
    <3>7. \A i, j \in Via(p)' : i < j => told'[p][i].at < told'[p][j].at
      <4> TAKE i, j \in Via(p)'
      <4>1. CASE i \in Via(p) /\ j \in Via(p)
        BY <2>2, <3>3, <4>1 DEF InOrder
      <4>2. CASE i \in Via(p) /\ j = n
        BY <3>3, <3>6, <4>2
      <4>3. CASE i = n
        BY <2>5, <3>3, <3>4, <4>3
      <4> QED
        BY <3>3, <4>1, <4>2, <4>3
    <3>8. \A j \in InFlight(p)' : at < updates'[j].at
      <4> TAKE j \in InFlight(p)'
      <4>1. j \in Nat /\ j + 1 \in InFlight(p) /\ updates'[j].at = updates[j + 1].at
        BY <2>4
      <4>2. j + 1 # 1 /\ j # 0 => 1 < j + 1
        BY <4>1
      <4>3. j # 0
        BY <1>1, TakenFlight DEF InFlight, IsSequence
      <4> QED
        BY <2>2, <3>5, <4>1, <4>2, <4>3 DEF InOrder
    <3>9. \A i \in Via(p)', j \in InFlight(p)' : told'[p][i].at < updates'[j].at
      <4> TAKE i \in Via(p)', j \in InFlight(p)'
      <4>1. CASE i \in Via(p)
        BY <2>2, <2>4, <3>3, <4>1 DEF InOrder
      <4>2. CASE i = n
        BY <3>3, <3>8, <4>2
      <4> QED
        BY <3>3, <4>1, <4>2
    <3>10. InOrder(p)'
      BY <2>6, <3>7, <3>9 DEF InOrder
    <3>11. ASSUME p \notin dropped', NEW m \in 1..Len(orders[p])
           PROVE  m \in {told'[p][i].at : i \in Via(p)'} \cup {updates'[i].at : i \in InFlight(p)'}
      <4>1. p \notin dropped
        BY <3>1, <3>11
      <4>2. CASE \E i \in Via(p) : told[p][i].at = m
        BY <3>3, <4>2
      <4>3. CASE \E j \in InFlight(p) : updates[j].at = m
        <5>1. PICK j \in InFlight(p) : updates[j].at = m
          BY <4>3
        <5>2. CASE j = 1
          BY <3>3, <3>5, <5>1, <5>2
        <5>3. CASE j # 1
          BY <2>4, <5>1, <5>3
        <5> QED
          BY <5>2, <5>3
      <4> QED
        BY <2>3, <4>1, <4>2, <4>3
    <3> QED
      BY <3>10, <3>11
  <2> QED
    BY <2>7, <2>8
<1> QED
  BY <1>1, <1>2, <1>3 DEF ReportsComplete

\* Telling keeps a last thing told.
LEMMA ToldKeepsLast ==
  ASSUME IInv, NEW o \in OrderIds, NEW at, NEW via, NEW since, NEW message, Told(o, at, via, since, message)
  PROVE  LastTold'
<1>1. ASSUME NEW p \in OrderIds, Via(p)' # {}
      PROVE  \E i \in Via(p)' : \A j \in Via(p)' : j <= i
  <2>1. CASE Via(p)' = Via(p)
    <3>1. \E i \in Via(p) : \A j \in Via(p) : j <= i
      BY <1>1, <2>1 DEF IInv, LastTold
    <3> QED
      BY <2>1, <3>1
  <2>2. CASE Via(p)' # Via(p)
    <3>1. p = o /\ via = "update"
      BY <2>2, ViaAfter
    <3> DEFINE n == Len(told[o]) + 1
    <3>2. Via(o)' = Via(o) \cup {n} /\ \A i \in Via(o) : i < n
      BY <3>1, ViaAfter
    <3>3. n \in Nat
      <4>1. Len(told[o]) \in Nat
        BY Zenon DEF IInv, ToldInv, IsSequence
      <4> QED
        BY <4>1
    <3>4. \A i \in Via(o) : i \in Nat
      BY Numbers
    <3> HIDE DEF n
    <3>5. \A j \in Via(o)' : j <= n
      BY <3>2, <3>3, <3>4
    <3>6. n \in Via(o)'
      BY <3>2
    <3> QED
      BY <3>1, <3>5, <3>6
  <2> QED
    BY <2>1, <2>2
<1> QED
  BY <1>1 DEF LastTold

\* Sessions, swept and bounds when only news are told or lost.
LEMMA NewsStep ==
  ASSUME IInv, UNCHANGED <<script, inbox, sessions, orders, meta, logged, swept>>
  PROVE  SessionsInv' /\ MetaInv' /\ SweptInv'
<1>1. SessionsInv'
  BY DEF IInv, SessionsInv
<1>2. MetaInv'
  BY SessionsStay, MetaKeep
<1>3. SweptInv'
  BY DEF IInv, SweptInv, CancelAllSparesOnlyInFlight, Live, Now
<1> QED
  BY <1>1, <1>2, <1>3

LEMMA UpdateKeepsInv ==
  ASSUME IInv, NEW ok \in BOOLEAN, private_ws_handler(ok)
  PROVE  IInv'
<1> DEFINE u == updates[1]
           message == Description(orders[u.order][u.at]).message
<1>1. /\ updates # <<>> /\ updates' = Tail(updates)
      /\ u.order \in 1..Len(orders) /\ u.at \in 1..Len(orders[u.order]) /\ u.order \in OrderIds
      /\ \/ Told(u.order, u.at, "update", 0, message) /\ dropped' = dropped
         \/ told' = told /\ dropped' = dropped \cup {u.order}
      /\ UNCHANGED <<script, inbox, sessions, orders, meta, link, breaks, logged, swept>>
  BY UpdateStep
<1>2. BoundsInv'
  BY <1>1 DEF IInv, BoundsInv
<1>3. SessionsInv' /\ MetaInv' /\ SweptInv'
  BY <1>1, NewsStep
<1>4. ReportsComplete'
  BY UpdateKeepsReports
<1>5. UpdatesInv'
  <2>1. /\ IsSequence(updates')
        /\ \A i \in 1..Len(updates') : i + 1 \in 1..Len(updates) /\ updates'[i] = updates[i + 1]
    BY <1>1, TakenFlight
  <2>2. dropped' \subseteq OrderIds
    BY <1>1 DEF IInv, UpdatesInv
  <2> QED
    BY <1>1, <2>1, <2>2 DEF IInv, UpdatesInv
<1>6. OrdersInv' /\ ToldInv' /\ LastTold'
  <2>1. CASE told' = told
    <3>1. OrdersInv'
      BY <1>1 DEF IInv, OrdersInv
    <3>2. ToldInv'
      BY <1>1, <2>1 DEF IInv, ToldInv, TrueOf
    <3>3. LastTold'
      BY <2>1 DEF IInv, LastTold, Via
    <3> QED
      BY <3>1, <3>2, <3>3
  <2>2. CASE Told(u.order, u.at, "update", 0, message)
    <3>1. orders[u.order][u.at] \in OrderState
      BY <1>1 DEF IInv, OrdersInv
    <3>2. Honest(message, orders[u.order][u.at])
      BY <3>1, DescriptionHonest
    <3> HIDE DEF u, message
    <3>3. OrdersInv' /\ ToldInv'
      BY <1>1, <2>2, <3>2, ToldStaysTrue
    <3>4. LastTold'
      BY <1>1, <2>2, ToldKeepsLast
    <3> QED
      BY <3>3, <3>4
  <2> QED
    BY <1>1, <2>1, <2>2
<1> QED
  BY <1>2, <1>3, <1>4, <1>5, <1>6 DEF IInv

\* A status reply tells the core, or is only logged.
LEMMA StatusStep ==
  ASSUME IInv, NEW i \in DOMAIN sessions, NEW ok \in BOOLEAN, status_order_handler(i, ok)
  PROVE  /\ Ended(i) /\ logged' \subseteq logged \cup {i}
         /\ UNCHANGED <<script, inbox, orders, meta, link, updates, breaks, dropped, swept>>
         /\ \/ told' = told
            \/ /\ sessions[i].order \in 1..Len(orders)
               /\ sessions[i].at \in 1..Len(orders[sessions[i].order])
               /\ sessions[i].order \in OrderIds
               /\ Told(sessions[i].order, sessions[i].at, "reply",
                    sessions[i].since[sessions[i].order], "Order status was received")
<1>1. /\ Ended(i) /\ logged' \subseteq logged \cup {i}
      /\ UNCHANGED <<script, inbox, orders, meta, link, updates, breaks, dropped, swept>>
  BY DEF status_order_handler, Ended
<1>2. ASSUME told' # told
      PROVE  /\ sessions[i].order \in 1..Len(orders)
             /\ sessions[i].at \in 1..Len(orders[sessions[i].order])
             /\ sessions[i].order \in OrderIds
             /\ Told(sessions[i].order, sessions[i].at, "reply",
                    sessions[i].since[sessions[i].order], "Order status was received")
  <2>1. sessions[i].ok /\ sessions[i].stage = "answered"
    BY <1>2 DEF status_order_handler
  <2>2. order_status_prepare(sessions[i].order, sessions[i].at, "reply", sessions[i].since[sessions[i].order],
          [action |-> "order_status", message |-> "Order status was received"], ok)
    BY <2>1 DEF status_order_handler
  <2>3. i \in 1..Len(sessions)
    BY SequenceOfElements DEF IInv, SessionsInv
  <2>4. /\ sessions[i].order \in 1..Len(orders)
        /\ sessions[i].at \in 1..Len(orders[sessions[i].order])
    BY <2>1, <2>3 DEF IInv, SessionsInv
  <2>5. ok = TRUE
    BY <1>2, <2>2, Zenon DEF order_status_prepare
  <2>6. Told(sessions[i].order, sessions[i].at, "reply",
                    sessions[i].since[sessions[i].order], "Order status was received")
    BY <2>2, <2>5 DEF order_status_prepare, Told
  <2> QED
    BY <2>4, <2>6, OrderIsId
<1> QED
  BY <1>1, <1>2

LEMMA StatusKeepsInv ==
  ASSUME IInv, NEW i \in DOMAIN sessions, NEW ok \in BOOLEAN, status_order_handler(i, ok)
  PROVE  IInv'
<1> DEFINE o  == sessions[i].order
           at == sessions[i].at
           since == sessions[i].since[sessions[i].order]
<1>1. /\ Ended(i) /\ logged' \subseteq logged \cup {i}
      /\ UNCHANGED <<script, inbox, orders, meta, link, updates, breaks, dropped, swept>>
      /\ \/ told' = told
         \/ /\ o \in 1..Len(orders) /\ at \in 1..Len(orders[o]) /\ o \in OrderIds
            /\ Told(o, at, "reply", since, "Order status was received")
  BY StatusStep
<1>2. SessionsGoOn /\ SessionsInv'
  BY <1>1, EndKeepsSessions
<1>3. BoundsInv'
  BY <1>1 DEF IInv, BoundsInv
<1>4. CASE told' = told
  BY <1>1, <1>2, <1>3, <1>4, QuietStep
<1>5. CASE /\ o \in 1..Len(orders) /\ at \in 1..Len(orders[o]) /\ o \in OrderIds
           /\ Told(o, at, "reply", since, "Order status was received")
  <2>1. Honest("Order status was received", orders[o][at])
    BY DEF Honest
  <2> HIDE DEF o, at, since
  <2>2. OrdersInv' /\ ToldInv'
    BY <1>1, <1>5, <2>1, ToldStaysTrue
  <2>3. LastTold'
    BY <1>5, ToldKeepsLast
  <2>4. \A p \in OrderIds : Via(p)' = Via(p) /\ \A j \in Via(p) : told'[p][j].at = told[p][j].at
    <3>1. "reply" # "update"
      OBVIOUS
    <3>2. \A p \in OrderIds : /\ \A j \in Via(p) : told'[p][j].at = told[p][j].at
                              /\ p # o \/ "reply" # "update" => Via(p)' = Via(p)
      BY <1>5, ViaAfter, Zenon
    <3> QED
      BY <3>1, <3>2, Zenon
  <2>5. ReportsComplete'
    <3>1. \A p \in 1..Len(orders) : p \in OrderIds
      BY OrderIsId
    <3>2. DOMAIN orders = 1..Len(orders)
      BY SequenceOfElements DEF IInv, OrdersInv
    <3>3. \A p : InFlight(p)' = InFlight(p)
      BY <1>1 DEF InFlight
    <3>4. ASSUME NEW p \in 1..Len(orders)
          PROVE  /\ InOrder(p)'
                 /\ {told'[p][j].at : j \in Via(p)'} = {told[p][j].at : j \in Via(p)}
                 /\ {updates'[j].at : j \in InFlight(p)'} = {updates[j].at : j \in InFlight(p)}
      <4>1. InOrder(p)
        BY <3>2 DEF IInv, ReportsComplete
      <4>2. Via(p)' = Via(p) /\ \A j \in Via(p) : told'[p][j].at = told[p][j].at
        BY <2>4, <3>1
      <4>3. InFlight(p)' = InFlight(p) /\ updates' = updates
        BY <1>1, <3>3
      <4>4. InOrder(p)'
        BY <4>1, <4>2, <4>3 DEF InOrder
      <4> QED
        BY <4>2, <4>3, <4>4
    <3> QED
      BY <1>1, <3>2, <3>4 DEF IInv, ReportsComplete
  <2>6. UpdatesInv'
    BY <1>1 DEF IInv, UpdatesInv
  <2>7. MetaInv'
    BY <1>1, <1>2, MetaKeep
  <2>8. SweptInv'
    <3>1. IsSequence(orders')
      BY <1>1 DEF IInv, OrdersInv
    <3>2. \A j \in (Len(sessions) + 1)..Len(sessions') : j > Len(sessions)
      BY DEF IInv, SessionsInv, IsSequence
    <3>3. \A p \in 1..Len(orders') : Live(p)' => p \in 1..Len(orders) /\ Live(p) /\ meta'[p] = meta[p]
      BY <1>1 DEF Live, Now
    <3> QED
      BY <1>1, <1>2, <3>1, <3>2, <3>3, SweptKeep
  <2> QED
    BY <1>2, <1>3, <2>2, <2>3, <2>5, <2>6, <2>7, <2>8 DEF IInv
<1> QED
  BY <1>1, <1>4, <1>5

LEMMA BreakKeepsInv ==
  ASSUME IInv, NEW k \in 0..Len(updates), Break(k)
  PROVE  IInv'
<1>1. /\ updates' = SubSeq(updates, 1, k)
      /\ dropped' = dropped \cup {updates[i].order : i \in (k + 1)..Len(updates)}
      /\ UNCHANGED <<script, inbox, sessions, orders, meta, told, logged, swept>>
  BY DEF Break
<1>2. BoundsInv'
  BY CommandsAssumption DEF IInv, BoundsInv, Break
<1>3. SessionsInv' /\ MetaInv' /\ SweptInv'
  BY <1>1, NewsStep
<1>4. OrdersInv' /\ ToldInv' /\ LastTold'
  BY <1>1 DEF IInv, OrdersInv, ToldInv, TrueOf, LastTold, Via
<1>5. /\ IsSequence(updates') /\ Len(updates') = k
      /\ \A i \in 1..k : updates'[i] = updates[i]
  BY <1>1, PrefixSequence DEF IInv, UpdatesInv
<1>6. Len(updates) \in Nat /\ IsSequence(updates)
  BY DEF IInv, UpdatesInv, IsSequence
<1>7. \A i \in 1..Len(updates') : i \in 1..Len(updates)
  BY <1>5, <1>6
<1>8. UpdatesInv'
  <2>1. ASSUME NEW i \in (k + 1)..Len(updates)
        PROVE  updates[i].order \in OrderIds
    <3>1. i \in 1..Len(updates)
      BY <1>6
    <3>2. updates[i].order \in 1..Len(orders)
      BY <3>1 DEF IInv, UpdatesInv
    <3> QED
      BY <3>2, OrderIsId
  <2>2. dropped' \subseteq OrderIds
    BY <1>1, <2>1 DEF IInv, UpdatesInv
  <2> QED
    BY <1>1, <1>5, <1>7, <2>2 DEF IInv, UpdatesInv
<1>9. ReportsComplete'
  <2>1. ASSUME NEW p
        PROVE  \A i \in InFlight(p)' : i \in InFlight(p) /\ updates'[i] = updates[i]
    BY <1>5, <1>7 DEF InFlight
  <2>2. ASSUME NEW p, p \notin dropped', NEW i \in InFlight(p)
        PROVE  i \in InFlight(p)'
    <3>1. i \in 1..Len(updates) /\ updates[i].order = p
      BY DEF InFlight
    <3>2. i \notin (k + 1)..Len(updates)
      BY <1>1, <2>2, <3>1
    <3>3. i \in 1..k
      BY <1>6, <3>1, <3>2
    <3> QED
      BY <1>5, <3>1, <3>3 DEF InFlight
  <2>3. ASSUME NEW p, InOrder(p)
        PROVE  InOrder(p)'
    <3>1. Via(p)' = Via(p)
      BY <1>1 DEF Via
    <3> QED
      BY <1>1, <2>1, <2>3, <3>1 DEF InOrder
  <2>4. ASSUME NEW p, p \notin dropped'
        PROVE  /\ {told'[p][i].at : i \in Via(p)'} = {told[p][i].at : i \in Via(p)}
               /\ {updates[i].at : i \in InFlight(p)} \subseteq {updates'[i].at : i \in InFlight(p)'}
               /\ p \notin dropped
    <3>1. Via(p)' = Via(p)
      BY <1>1 DEF Via
    <3>2. \A i \in InFlight(p) : i \in InFlight(p)' /\ updates'[i] = updates[i]
      BY <2>1, <2>2, <2>4
    <3> QED
      BY <1>1, <2>4, <3>1, <3>2
  <2> QED
    BY <1>1, <2>3, <2>4 DEF IInv, ReportsComplete
<1> QED
  BY <1>2, <1>3, <1>4, <1>8, <1>9 DEF IInv

-----------------------------------------------------------------------------
(* The steps that move orders *)

LEMMA MovingStep ==
  ASSUME IInv, NEW changed, OrdersMove(changed), IsFiniteSet(changed),
         TellSocket(orders', changed), told' = told, UNCHANGED <<link, breaks>>,
         script' = script, inbox' \in Seq(Commands), SessionsInv', MetaInv', SweptInv'
  PROVE  IInv' /\ Reported
<1>1. Tells(changed)
  BY TellSocketTells DEF IInv, UpdatesInv
<1>2. OrdersInv' /\ ToldInv' /\ LastTold'
  BY MovesKeepTold
<1>3. UpdatesInv' /\ ReportsComplete'
  BY <1>1, MovesKeepNews
<1>4. BoundsInv'
  BY DEF IInv, BoundsInv
<1>5. changed \in SUBSET OrderIds
  BY BeforeFacts DEF OrdersMove
<1> QED
  BY <1>1, <1>2, <1>3, <1>4, <1>5 DEF IInv, Reported

\* One order moves to state s.
LEMMA MovedMoves ==
  ASSUME IInv, NEW o \in DOMAIN orders, NEW s \in OrderState, orders' = Moved(orders, o, s),
         meta' = meta
  PROVE  /\ o \in 1..Len(orders) /\ OrdersMove({o}) /\ IsFiniteSet({o}) /\ IsSequence(orders')
         /\ Len(orders') = Len(orders) /\ Len(orders'[o]) = Len(orders[o]) + 1
         /\ Len(orders[o]) \in Nat
         /\ \A p \in 1..Len(orders) : p # o => orders'[p] = orders[p]
<1>1. /\ Len(orders) \in Nat /\ DOMAIN orders = 1..Len(orders) /\ Len(meta) \in Nat
      /\ Len(orders) = Len(meta) /\ Len(meta) <= MaxOrders
      /\ \A p \in 1..Len(orders) : orders[p] \in Seq(OrderState)
  BY SequenceOfElements DEF IInv, OrdersInv, MetaInv, IsSequence
<1>2. orders' = [orders EXCEPT ![o] = Append(orders[o], s)]
  BY DEF Moved
<1>3. Append(orders[o], s) \in Seq(OrderState)
  BY <1>1, AppendProperties
<1>4. /\ Len(Append(orders[o], s)) = Len(orders[o]) + 1 /\ Len(orders[o]) \in Nat
      /\ \A n \in 1..Len(orders[o]) : Append(orders[o], s)[n] = orders[o][n]
  BY <1>1, AppendProperties
<1>5. orders'[o] = Append(orders[o], s) /\ \A p \in 1..Len(orders) : p # o => orders'[p] = orders[p]
  BY <1>1, <1>2
<1>6. IsSequence(orders') /\ Len(orders') = Len(orders)
  <2>1. orders' = [p \in 1..Len(orders) |-> orders'[p]]
    BY <1>1, <1>2
  <2>2. Len(orders') = Len(orders)
    BY <1>1, <2>1
  <2> QED
    BY <1>1, <2>1, <2>2 DEF IsSequence
<1>7. OrdersMove({o})
  <2>1. ASSUME NEW p \in 1..Len(orders)
        PROVE  /\ orders'[p] \in Seq(OrderState) /\ ~(p > Len(orders))
               /\ p \in {o} => Len(orders'[p]) = Len(orders[p]) + 1
               /\ p \notin {o} => Len(orders'[p]) = Len(orders[p])
               /\ \A n \in 1..Len(orders[p]) : orders'[p][n] = orders[p][n]
    <3>1. ~(p > Len(orders))
      BY <1>1
    <3>2. CASE p = o
      BY <1>3, <1>4, <1>5, <3>1, <3>2
    <3>3. CASE p # o
      BY <1>1, <1>5, <3>1, <3>3
    <3> QED
      BY <3>2, <3>3
  <2>2. IsSequence(meta)
    BY DEF IInv, MetaInv
  <2> QED
    BY <1>1, <1>6, <2>1, <2>2 DEF OrdersMove
<1> QED
  BY <1>1, <1>4, <1>5, <1>6, <1>7, FS_Singleton

\* The order that is moved lived, so no order lives that did not live before.
LEMMA MovedSwept ==
  ASSUME IInv, NEW o \in DOMAIN orders, NEW s \in OrderState, orders' = Moved(orders, o, s),
         Live(o), meta' = meta, swept' = swept, SessionsGoOn
  PROVE  SweptInv'
<1>1. /\ IsSequence(orders') /\ Len(orders') = Len(orders)
      /\ \A p \in 1..Len(orders) : p # o => orders'[p] = orders[p]
  BY MovedMoves
<1>2. \A p \in 1..Len(orders') : Live(p)' => p \in 1..Len(orders) /\ Live(p) /\ meta'[p] = meta[p]
  BY <1>1 DEF Live, Now
<1>3. \A i \in (Len(sessions) + 1)..Len(sessions') : i > Len(sessions)
  BY DEF IInv, SessionsInv, IsSequence
<1> QED
  BY <1>1, <1>2, <1>3, SweptKeep

\* The state an order has.
LEMMA NowState ==
  ASSUME IInv, NEW o \in DOMAIN orders
  PROVE  Now(o) \in OrderState
<1>1. orders[o] \in Seq(OrderState) /\ orders[o] # <<>>
  BY SequenceOfElements DEF IInv, OrdersInv
<1> QED
  BY <1>1, EmptySeq DEF Now

LEMMA FillsKeepsInv ==
  ASSUME IInv, NEW o \in DOMAIN orders, exchange_fills(o)
  PROVE  IInv' /\ Reported
<1>1. PICK s \in OrderState : orders' = Moved(orders, o, s)
  BY DEF exchange_fills, OrderState
<1>2. /\ Live(o) /\ TellSocket(orders', {o})
      /\ UNCHANGED <<script, inbox, sessions, meta, link, breaks, told, logged, swept>>
  BY DEF exchange_fills
<1>3. SessionsGoOn
  BY <1>2, SessionsStay
<1>4. MetaInv'
  BY <1>2, <1>3, MetaKeep
<1>5. SweptInv'
  BY <1>1, <1>2, <1>3, MovedSwept
<1>6. OrdersMove({o}) /\ IsFiniteSet({o})
  BY <1>1, <1>2, MovedMoves
<1>7. SessionsInv'
  <2>1. \A p \in 1..Len(orders) : p \in 1..Len(orders') /\ 1..Len(orders[p]) \subseteq 1..Len(orders'[p])
    BY <1>6, MoveAt
  <2>2. logged' \subseteq 1..Len(sessions')
    BY <1>2 DEF IInv, SessionsInv
  <2> QED
    BY <1>2, <1>3, <2>1, <2>2, SessionsKeep
<1>8. inbox' \in Seq(Commands)
  BY <1>2 DEF IInv, BoundsInv
<1> QED
  BY <1>2, <1>4, <1>5, <1>6, <1>7, <1>8, MovingStep

LEMMA CancelsKeepsInv ==
  ASSUME IInv, NEW i \in DOMAIN sessions, exchange_cancels(i)
  PROVE  IInv' /\ Reported
<1> DEFINE live == {o \in Target(sessions[i]) : Live(o)}
<1>1. UNCHANGED <<script, inbox, meta, link, breaks, told, logged, swept>>
  BY DEF exchange_cancels
<1>2. inbox' \in Seq(Commands) /\ IsSequence(sessions) /\ logged \subseteq 1..Len(sessions)
  BY <1>1 DEF IInv, BoundsInv, SessionsInv
<1>3. CASE Answered(i, FALSE, 0, 0) /\ UNCHANGED <<orders, updates, dropped>>
  <2>1. /\ SessionsGoOn /\ i \in 1..Len(sessions) /\ Len(sessions') = Len(sessions)
        /\ IsSession(sessions'[i]) /\ sessions'[i].stage = "answered"
        /\ sessions'[i].ok = FALSE
        /\ \A j \in 1..Len(sessions) : j # i => sessions'[j] = sessions[j]
    BY <1>3, SessionAnswered
  <2>2. SessionsInv'
    BY <1>1, <1>2, <1>3, <2>1, SessionsKeep
  <2>3. BoundsInv'
    BY <1>1 DEF IInv, BoundsInv
  <2> QED
    BY <1>1, <1>3, <2>1, <2>2, <2>3, QuietStep
<1>4. CASE \E o \in live :
             /\ orders' = Moved(orders, o, [Now(o) EXCEPT !.status = "closed"])
             /\ TellSocket(orders', {o})
             /\ Answered(i, TRUE, o, Len(orders'[o]))
  <2>1. PICK o \in live :
          /\ orders' = Moved(orders, o, [Now(o) EXCEPT !.status = "closed"])
          /\ TellSocket(orders', {o})
          /\ Answered(i, TRUE, o, Len(orders'[o]))
    BY <1>4
  <2>2. o \in DOMAIN orders /\ Live(o)
    BY DEF Target
  <2>3. PICK s \in OrderState : orders' = Moved(orders, o, s)
    <3>1. [Now(o) EXCEPT !.status = "closed"] \in OrderState
      BY <2>2, NowState DEF OrderState
    <3> QED
      BY <2>1, <3>1
  <2> HIDE DEF live
  <2>4. /\ o \in 1..Len(orders) /\ OrdersMove({o}) /\ IsFiniteSet({o})
        /\ Len(orders') = Len(orders) /\ Len(orders'[o]) = Len(orders[o]) + 1
        /\ Len(orders[o]) \in Nat
    BY <1>1, <2>2, <2>3, MovedMoves
  <2> DEFINE at == Len(orders'[o])
  <2>5. at \in 1..Len(orders'[o]) /\ Answered(i, TRUE, o, at)
    <3>1. at \in 1..Len(orders'[o])
      BY <2>4
    <3> QED
      BY <2>1, <3>1, Zenon
  <2> HIDE DEF at
  <2>6. /\ SessionsGoOn /\ i \in 1..Len(sessions) /\ Len(sessions') = Len(sessions)
        /\ IsSession(sessions'[i]) /\ sessions'[i].stage = "answered"
        /\ sessions'[i].order = o /\ sessions'[i].at = at
        /\ \A j \in 1..Len(sessions) : j # i => sessions'[j] = sessions[j]
    BY <2>5, SessionAnswered
  <2>7. SessionsInv'
    <3>1. \A p \in 1..Len(orders) : p \in 1..Len(orders') /\ 1..Len(orders[p]) \subseteq 1..Len(orders'[p])
      BY <2>4, MoveAt
    <3>2. o \in 1..Len(orders')
      BY <2>4
    <3> QED
      BY <1>1, <1>2, <2>5, <2>6, <3>1, <3>2, SessionsKeep
  <2>8. MetaInv'
    BY <1>1, <2>6, MetaKeep
  <2>9. SweptInv'
    BY <1>1, <2>2, <2>3, <2>6, MovedSwept
  <2> QED
    BY <1>1, <1>2, <2>1, <2>4, <2>7, <2>8, <2>9, MovingStep
<1> QED
  BY <1>3, <1>4 DEF exchange_cancels

\* The order a create request makes, and its session.
LEMMA CreatedOrder ==
  ASSUME IInv, NEW i \in DOMAIN sessions, exchange_creates(i, TRUE)
  PROVE  LET n == Len(meta) + 1
         IN /\ IsSequence(meta') /\ Len(meta') = n /\ n \in 1..MaxOrders
            /\ \A o \in 1..Len(meta) : meta'[o] = meta[o]
            /\ meta'[n].session = i /\ meta'[n].type = sessions[i].args["type"]
            /\ meta'[n].price = sessions[i].args["price"]
            /\ IsSequence(orders') /\ Len(orders') = n
            /\ \A o \in 1..Len(orders) : orders'[o] = orders[o]
            /\ orders'[n] \in Seq(OrderState) /\ Len(orders'[n]) = 1
            /\ TellSocket(orders', {n}) /\ Answered(i, TRUE, n, 1)
<1> DEFINE n == Len(meta) + 1
           first == [status |-> "new", filled |-> "none"]
<1>1. /\ IsSequence(meta) /\ Len(meta) \in Nat /\ MaxOrders \in Nat
      /\ IsSequence(orders) /\ Len(orders) = Len(meta)
  BY CommandsAssumption DEF IInv, MetaInv, OrdersInv, IsSequence
<1>2. PICK m : /\ m = [client_id |-> sessions[i].args["client_id"],
                       market |-> sessions[i].args["symbol"],
                       type |-> sessions[i].args["type"],
                       price |-> sessions[i].args["price"], session |-> i]
               /\ meta' = Append(meta, m)
  BY DEF exchange_creates
<1>3. /\ Len(meta) < MaxOrders /\ orders' = Append(orders, <<first>>)
      /\ TellSocket(orders', {Len(meta')}) /\ Answered(i, TRUE, Len(meta'), 1)
  BY DEF exchange_creates
<1>4. /\ IsSequence(meta') /\ Len(meta') = n /\ meta'[n] = m
      /\ \A o \in 1..Len(meta) : meta'[o] = meta[o]
  BY <1>1, <1>2, AppendSequence
<1>5. /\ IsSequence(orders') /\ Len(orders') = n /\ orders'[n] = <<first>>
      /\ \A o \in 1..Len(orders) : orders'[o] = orders[o]
  BY <1>1, <1>3, AppendSequence
<1>6. <<first>> \in Seq(OrderState) /\ Len(<<first>>) = 1
  BY DEF OrderState
<1>7. n \in 1..MaxOrders
  BY <1>1, <1>3
<1>8. /\ m.session = i /\ m.type = sessions[i].args["type"]
      /\ m.price = sessions[i].args["price"]
  BY <1>2
<1> HIDE DEF n, first
<1>9. TellSocket(orders', {n}) /\ Answered(i, TRUE, n, 1)
  BY <1>3, <1>4
<1> QED
  BY <1>4, <1>5, <1>6, <1>7, <1>8, <1>9 DEF n

LEMMA CreatesKeepsInv ==
  ASSUME IInv, NEW i \in DOMAIN sessions, NEW ok \in BOOLEAN, exchange_creates(i, ok)
  PROVE  IInv' /\ Reported
<1>1. /\ UNCHANGED <<script, inbox, link, breaks, told, logged, swept>>
      /\ sessions[i].kind = "create" /\ sessions[i].stage = "requested"
  BY DEF exchange_creates
<1>2. inbox' \in Seq(Commands) /\ IsSequence(sessions) /\ logged \subseteq 1..Len(sessions)
  BY <1>1 DEF IInv, BoundsInv, SessionsInv
<1>3. CASE ok = FALSE
  <2>1. Answered(i, FALSE, 0, 0) /\ UNCHANGED <<meta, orders, updates, dropped>>
    BY <1>3 DEF exchange_creates
  <2>2. /\ SessionsGoOn /\ i \in 1..Len(sessions) /\ Len(sessions') = Len(sessions)
        /\ IsSession(sessions'[i]) /\ sessions'[i].stage = "answered"
        /\ sessions'[i].ok = FALSE
        /\ \A j \in 1..Len(sessions) : j # i => sessions'[j] = sessions[j]
    BY <2>1, SessionAnswered
  <2>3. SessionsInv'
    BY <1>1, <1>2, <2>1, <2>2, SessionsKeep
  <2>4. BoundsInv'
    BY <1>1 DEF IInv, BoundsInv
  <2> QED
    BY <1>1, <2>1, <2>2, <2>3, <2>4, QuietStep
<1>4. CASE ok = TRUE
  <2> DEFINE n == Len(meta) + 1
  <2>1. /\ IsSequence(meta') /\ Len(meta') = n /\ n \in 1..MaxOrders
        /\ \A o \in 1..Len(meta) : meta'[o] = meta[o]
        /\ meta'[n].session = i /\ meta'[n].type = sessions[i].args["type"]
        /\ meta'[n].price = sessions[i].args["price"]
        /\ IsSequence(orders') /\ Len(orders') = n
        /\ \A o \in 1..Len(orders) : orders'[o] = orders[o]
        /\ orders'[n] \in Seq(OrderState) /\ Len(orders'[n]) = 1
        /\ TellSocket(orders', {n}) /\ Answered(i, TRUE, n, 1)
    BY <1>4, CreatedOrder
  <2>2. /\ Len(meta) \in Nat /\ Len(orders) = Len(meta) /\ MaxOrders \in Nat
        /\ \A o \in 1..Len(orders) : orders[o] \in Seq(OrderState)
    BY CommandsAssumption DEF IInv, MetaInv, OrdersInv, IsSequence
  <2>3. /\ n \in Nat /\ n <= MaxOrders /\ Len(meta) < n
        /\ \A o \in 1..n : o \in 1..Len(meta) \/ o = n
    BY <2>1, <2>2
  <2> HIDE DEF n
  <2>4. /\ SessionsGoOn /\ i \in 1..Len(sessions) /\ Len(sessions') = Len(sessions)
        /\ IsSession(sessions'[i]) /\ sessions'[i].stage = "answered"
        /\ sessions'[i].order = n /\ sessions'[i].at = 1
        /\ \A j \in 1..Len(sessions) : j # i => sessions'[j] = sessions[j]
    <3>1. PICK at : at = 1
      OBVIOUS
    <3>2. Answered(i, TRUE, n, at)
      BY <2>1, <3>1
    <3>3. /\ SessionsGoOn /\ i \in 1..Len(sessions) /\ Len(sessions') = Len(sessions)
          /\ IsSession(sessions'[i]) /\ sessions'[i].stage = "answered"
          /\ sessions'[i].order = n /\ sessions'[i].at = at
          /\ \A j \in 1..Len(sessions) : j # i => sessions'[j] = sessions[j]
      BY <3>2, SessionAnswered
    <3> QED
      BY <3>1, <3>3
  <2>5. OrdersMove({n})
    <3>1. ASSUME NEW o \in 1..n
          PROVE  /\ orders'[o] \in Seq(OrderState)
                 /\ o > Len(orders) => o \in {n} /\ Len(orders'[o]) = 1
                 /\ o <= Len(orders) =>
                      /\ o \in {n} => Len(orders'[o]) = Len(orders[o]) + 1
                      /\ o \notin {n} => Len(orders'[o]) = Len(orders[o])
                      /\ \A k \in 1..Len(orders[o]) : orders'[o][k] = orders[o][k]
                      /\ meta'[o] = meta[o]
      <4>1. CASE o = n
        <5>1. ~(o <= Len(orders))
          BY <2>2, <2>3, <4>1
        <5> QED
          BY <2>1, <4>1, <5>1
      <4>2. CASE o \in 1..Len(meta) /\ o # n
        <5>1. ~(o > Len(orders))
          BY <2>2, <4>2
        <5>2. orders'[o] = orders[o] /\ meta'[o] = meta[o] /\ orders[o] \in Seq(OrderState)
          BY <2>1, <2>2, <4>2
        <5> QED
          BY <4>2, <5>1, <5>2
      <4> QED
        BY <2>3, <4>1, <4>2
    <3>2. {n} \subseteq 1..Len(orders')
      BY <2>1, <2>3
    <3> QED
      BY <2>1, <2>2, <2>3, <3>1, <3>2 DEF OrdersMove
  <2>6. SessionsInv'
    <3>1. \A p \in 1..Len(orders) : p \in 1..Len(orders') /\ 1..Len(orders[p]) \subseteq 1..Len(orders'[p])
      BY <2>5, MoveAt
    <3>2. n \in 1..Len(orders') /\ 1 \in 1..Len(orders'[n])
      BY <2>1, <2>3
    <3> QED
      BY <1>1, <1>2, <2>4, <3>1, <3>2, SessionsKeep
  <2>7. ASSUME NEW o \in 1..Len(meta)
        PROVE  /\ meta'[o] = meta[o] /\ meta[o].session # i
               /\ meta[o].session \in 1..Len(sessions')
               /\ LET s == sessions'[meta[o].session]
                  IN /\ s.kind = "create" /\ s.stage # "requested"
                     /\ meta[o].type = s.args["type"] /\ meta[o].price = s.args["price"]
    <3>1. /\ meta[o].session \in 1..Len(sessions)
          /\ LET s == sessions[meta[o].session]
             IN /\ s.kind = "create" /\ s.stage # "requested"
                /\ meta[o].type = s.args["type"] /\ meta[o].price = s.args["price"]
      BY DEF IInv, MetaInv
    <3>2. meta[o].session # i
      BY <1>1, <3>1
    <3> QED
      BY <2>1, <2>4, <3>1, <3>2
  <2>8. LET s == sessions'[i]
        IN /\ s.kind = "create" /\ s.stage # "requested"
           /\ meta'[n].type = s.args["type"] /\ meta'[n].price = s.args["price"]
    BY <1>1, <2>1, <2>4 DEF SessionsGoOn
  <2>9. MetaInv'
    <3>1. ASSUME NEW o \in 1..n
          PROVE  /\ meta'[o].session \in 1..Len(sessions')
                 /\ LET s == sessions'[meta'[o].session]
                    IN /\ s.kind = "create" /\ s.stage # "requested"
                       /\ meta'[o].type = s.args["type"] /\ meta'[o].price = s.args["price"]
      <4>1. CASE o = n
        BY <2>1, <2>4, <2>8, <4>1
      <4>2. CASE o \in 1..Len(meta)
        BY <2>7, <4>2
      <4> QED
        BY <2>3, <4>1, <4>2
    <3>2. \A o, p \in 1..Len(meta) : o # p => meta[o].session # meta[p].session
      BY DEF IInv, MetaInv
    <3>3. \A o, p \in 1..n : o # p => meta'[o].session # meta'[p].session
      BY <2>1, <2>3, <2>7, <3>2
    <3> QED
      BY <2>1, <2>3, <3>1, <3>3 DEF MetaInv
  <2>10. SweptInv'
    <3>1. ASSUME NEW o \in 1..Len(orders'), Live(o)'
          PROVE  \/ o \in 1..Len(orders) /\ Live(o) /\ meta'[o] = meta[o]
                 \/ /\ meta'[o].session \in 1..Len(sessions)
                    /\ sessions[meta'[o].session].stage = "requested"
      <4>1. CASE o = n
        BY <1>1, <2>1, <2>4, <4>1
      <4>2. CASE o \in 1..Len(meta)
        BY <2>1, <2>2, <3>1, <4>2 DEF Live, Now
      <4> QED
        BY <2>1, <2>3, <4>1, <4>2
    <3>2. \A j \in (Len(sessions) + 1)..Len(sessions') : j > Len(sessions)
      BY <1>2 DEF IsSequence
    <3> QED
      BY <1>1, <2>1, <2>4, <3>1, <3>2, SweptKeep
  <2> QED
    BY <1>1, <1>2, <2>1, <2>5, <2>6, <2>9, <2>10, FS_Singleton, MovingStep
<1> QED
  BY <1>3, <1>4

LEMMA CancelAllKeepsInv ==
  ASSUME IInv, NEW failed \in SUBSET Configured, cancel_all_orders(failed)
  PROVE  IInv' /\ Reported
<1>1. UNCHANGED <<script, sessions, meta, link, breaks, told, logged>>
  BY DEF cancel_all_orders
<1>2. inbox' \in Seq(Commands)
  BY HeadTailProperties DEF IInv, BoundsInv, cancel_all_orders
<1>3. SessionsGoOn
  BY <1>1, SessionsStay
<1>4. CASE UNCHANGED <<orders, updates, dropped, swept>>
  <2>1. BoundsInv'
    BY <1>1, <1>2 DEF IInv, BoundsInv
  <2> QED
    BY <1>1, <1>4, <2>1, QuieterStep
<1>5. CASE ~UNCHANGED <<orders, updates, dropped, swept>>
  <2> DEFINE closed == Cancelled(failed)
             last(o) == [Now(o) EXCEPT !.status = "closed"]
             record == [upto |-> Len(sessions),
                        unseen |-> {i \in DOMAIN sessions : sessions[i].stage = "requested"},
                        failed |-> failed]
  <2>1. /\ orders' = [o \in DOMAIN orders |-> IF o \in closed THEN Append(orders[o], last(o))
                                              ELSE orders[o]]
        /\ TellSocket(orders', closed)
        /\ swept' = swept \cup {record}
    BY <1>5 DEF cancel_all_orders
  <2>2. /\ IsSequence(orders) /\ Len(orders) \in Nat /\ DOMAIN orders = 1..Len(orders)
        /\ Len(orders) = Len(meta) /\ Len(meta) <= MaxOrders /\ IsSequence(meta)
        /\ \A o \in 1..Len(orders) : orders[o] \in Seq(OrderState)
    BY SequenceOfElements DEF IInv, OrdersInv, MetaInv, IsSequence
  <2>3. closed \subseteq 1..Len(orders) /\ IsFiniteSet(closed)
    <3>1. closed \subseteq 1..Len(orders)
      BY <2>2 DEF Cancelled
    <3>2. IsFiniteSet(1..Len(orders))
      BY <2>2, FS_Interval
    <3> QED
      BY <3>1, <3>2, FS_Subset, Zenon
  <2>4. \A o \in 1..Len(orders) : last(o) \in OrderState /\ last(o).status = "closed"
    BY <2>2, NowState DEF OrderState
  <2> HIDE DEF closed, last
  <2>5. \A o \in 1..Len(orders) : /\ o \in closed => orders'[o] = Append(orders[o], last(o))
                                  /\ o \notin closed => orders'[o] = orders[o]
    BY <2>1, <2>2
  <2>6. IsSequence(orders') /\ Len(orders') = Len(orders)
    <3>1. orders' = [o \in 1..Len(orders) |-> orders'[o]]
      BY <2>1, <2>2
    <3>2. Len(orders') = Len(orders)
      BY <2>2, <3>1
    <3> QED
      BY <2>2, <3>1, <3>2 DEF IsSequence
  <2>7. ASSUME NEW o \in 1..Len(orders)
        PROVE  /\ orders'[o] \in Seq(OrderState) /\ ~(o > Len(orders))
               /\ o \in closed => /\ Len(orders'[o]) = Len(orders[o]) + 1
                                  /\ orders'[o][Len(orders'[o])] = last(o)
               /\ o \notin closed => Len(orders'[o]) = Len(orders[o])
               /\ \A k \in 1..Len(orders[o]) : orders'[o][k] = orders[o][k]
    <3>1. ~(o > Len(orders))
      BY <2>2
    <3>2. CASE o \in closed
      <4>1. orders'[o] = Append(orders[o], last(o)) /\ last(o) \in OrderState
        BY <2>4, <2>5, <3>2
      <4>2. orders[o] \in Seq(OrderState)
        BY <2>2
      <4>3. /\ Append(orders[o], last(o)) \in Seq(OrderState)
            /\ Len(Append(orders[o], last(o))) = Len(orders[o]) + 1
            /\ Append(orders[o], last(o))[Len(orders[o]) + 1] = last(o)
            /\ \A k \in 1..Len(orders[o]) : Append(orders[o], last(o))[k] = orders[o][k]
        BY <4>1, <4>2, AppendProperties
      <4> QED
        BY <3>1, <3>2, <4>1, <4>3
    <3>3. CASE o \notin closed
      BY <2>2, <2>5, <3>1, <3>3
    <3> QED
      BY <3>2, <3>3
  <2>8. OrdersMove(closed)
    BY <1>1, <2>2, <2>3, <2>6, <2>7 DEF OrdersMove
  <2>9. SessionsInv'
    <3>1. \A p \in 1..Len(orders) : p \in 1..Len(orders') /\ 1..Len(orders[p]) \subseteq 1..Len(orders'[p])
      BY <2>8, MoveAt
    <3>2. logged' \subseteq 1..Len(sessions')
      BY <1>1 DEF IInv, SessionsInv
    <3> QED
      BY <1>1, <1>3, <3>1, <3>2, SessionsKeep
  <2>10. MetaInv'
    BY <1>1, <1>3, MetaKeep
  <2>11. ASSUME NEW o \in 1..Len(orders), Live(o)'
         PROVE  Live(o) /\ o \notin closed
    <3>1. o \notin closed
      BY <2>4, <2>7, <2>11 DEF Live, Now
    <3>2. orders'[o] = orders[o]
      BY <2>5, <3>1
    <3> QED
      BY <2>11, <3>1, <3>2 DEF Live, Now
  <2>12. ASSUME NEW w \in swept'
         PROVE  /\ w.upto \in 0..Len(sessions)
                /\ \A i \in 1..Len(sessions) :
                     sessions[i].stage = "requested" => i > w.upto \/ i \in w.unseen
                /\ \A o \in 1..Len(orders) : Live(o)' =>
                     \/ meta[o].session > w.upto \/ meta[o].session \in w.unseen
                     \/ meta[o].market \in w.failed \/ meta[o].market \notin Configured
    <3>1. CASE w \in swept
      BY <2>2, <2>11, <3>1 DEF IInv, SweptInv, CancelAllSparesOnlyInFlight
    <3>2. CASE w = record
      <4>1. Len(sessions) \in Nat /\ DOMAIN sessions = 1..Len(sessions)
        BY SequenceOfElements DEF IInv, SessionsInv, IsSequence
      <4>2. /\ w.upto = Len(sessions) /\ w.failed = failed
            /\ w.unseen = {i \in DOMAIN sessions : sessions[i].stage = "requested"}
        BY <3>2
      <4>3. ASSUME NEW o \in 1..Len(orders), Live(o)'
            PROVE  meta[o].market \in failed \/ meta[o].market \notin Configured
        <5>1. Live(o) /\ o \notin Cancelled(failed)
          BY <2>11, <4>3 DEF closed
        <5> QED
          BY <2>2, <5>1 DEF Cancelled
      <4> QED
        BY <4>1, <4>2, <4>3
    <3> QED
      BY <2>1, <3>1, <3>2
  <2>13. SweptInv'
    <3>1. DOMAIN orders' = 1..Len(orders)
      BY <2>6, SequenceOfElements
    <3> QED
      BY <1>1, <2>12, <3>1 DEF SweptInv, CancelAllSparesOnlyInFlight
  <2> QED
    BY <1>1, <1>2, <2>1, <2>3, <2>8, <2>9, <2>10, <2>13, MovingStep
<1> QED
  BY <1>4, <1>5

-----------------------------------------------------------------------------
(* The invariant *)

\* A step that tells the core something, or loses an update.
Informed ==
  \/ \E ok \in BOOLEAN : private_ws_handler(ok)
  \/ \E k \in 0..Len(updates) : Break(k)
  \/ \E i \in DOMAIN sessions, ok \in BOOLEAN : status_order_handler(i, ok)

LEMMA InvStep ==
  ASSUME IInv, [Next]_vars
  PROVE  IInv' /\ (Reported \/ Informed)
<1>1. CASE send_command
  BY <1>1, SendKeepsInv
<1>2. CASE aeron_handler
  <2>1. CASE aeron_handler_array
    BY <2>1, ArrayKeepsInv
  <2>2. CASE aeron_handler_no_array
    BY <2>2, NoArrayKeepsInv
  <2>3. ASSUME NEW failed \in SUBSET Configured, cancel_all_orders(failed)
        PROVE  IInv' /\ Reported
    BY <2>3, CancelAllKeepsInv
  <2> QED
    BY <1>2, <2>1, <2>2, <2>3 DEF aeron_handler
<1>3. CASE Exchange
  <2>1. ASSUME NEW i \in DOMAIN sessions, NEW ok \in BOOLEAN, exchange_creates(i, ok)
        PROVE  IInv' /\ Reported
    BY <2>1, CreatesKeepsInv
  <2>2. ASSUME NEW i \in DOMAIN sessions, exchange_cancels(i)
        PROVE  IInv' /\ Reported
    BY <2>2, CancelsKeepsInv
  <2>3. ASSUME NEW i \in DOMAIN sessions, exchange_reports(i)
        PROVE  IInv' /\ Reported
    BY <2>3, ReportsKeepsInv
  <2>4. ASSUME NEW o \in DOMAIN orders, exchange_fills(o)
        PROVE  IInv' /\ Reported
    BY <2>4, FillsKeepsInv
  <2> QED
    BY <1>3, <2>1, <2>2, <2>3, <2>4 DEF Exchange
<1>4. ASSUME NEW k \in 0..Len(updates), Break(k)
      PROVE  IInv' /\ Informed
  BY <1>4, BreakKeepsInv DEF Informed
<1>5. ASSUME NEW i \in DOMAIN sessions, session_fails(i)
      PROVE  IInv' /\ Reported
  BY <1>5, FailsKeepsInv
<1>6. CASE Replies
  <2>1. ASSUME NEW i \in DOMAIN sessions, NEW ok \in BOOLEAN, place_order_handler(i, ok)
        PROVE  IInv' /\ Reported
    BY <2>1, PlacedKeepsInv
  <2>2. ASSUME NEW i \in DOMAIN sessions, NEW ok \in BOOLEAN, status_order_handler(i, ok)
        PROVE  IInv' /\ Informed
    BY <2>2, StatusKeepsInv DEF Informed
  <2> QED
    BY <1>6, <2>1, <2>2 DEF Replies
<1>7. CASE Updates
  BY <1>7, UpdateKeepsInv DEF Updates, Informed
<1>8. CASE restart_private_ws
  BY <1>8, RestartKeepsInv
<1>9. CASE UNCHANGED vars
  BY <1>9, StutterKeepsInv
<1> QED
  BY <1>1, <1>2, <1>3, <1>4, <1>5, <1>6, <1>7, <1>8, <1>9 DEF Next

\* The inductive invariant holds in every state.
LEMMA Invariant == Spec => []IInv
<1>1. IInv /\ [Next]_vars => IInv'
  BY InvStep
<1> QED
  BY <1>1, InvInit, PTL DEF Spec

-----------------------------------------------------------------------------
(* Theorems *)

\* What an order of the specification was made from: a session that asked to create it.
LEMMA OrderFacts ==
  ASSUME IInv, NEW o \in DOMAIN orders
  PROVE  /\ o \in 1..Len(orders) /\ o \in 1..Len(meta) /\ o \in OrderIds
         /\ meta[o].session \in 1..Len(sessions)
         /\ LET s == sessions[meta[o].session]
            IN /\ s.kind = "create" /\ Faithful(s)
               /\ meta[o].type = s.args["type"] /\ meta[o].price = s.args["price"]
<1>1. o \in 1..Len(orders) /\ o \in 1..Len(meta)
  BY SequenceOfElements DEF IInv, OrdersInv
<1>2. o \in OrderIds
  BY <1>1, OrderIsId
<1> QED
  BY <1>1, <1>2 DEF IInv, MetaInv, SessionsInv

\* Messages, sessions, orders and what is told of them have their types; in particular
\* everything in flight or told names a state that its order has gone through.
THEOREM TypeCorrect == Spec => []TypeOK
<1>1. IInv => TypeOK
  <2> SUFFICES ASSUME IInv
               PROVE  TypeOK
    OBVIOUS
  <2>1. DOMAIN sessions = 1..Len(sessions) /\ DOMAIN orders = 1..Len(orders)
    BY SequenceOfElements DEF IInv, SessionsInv, OrdersInv
  <2>2. \A o \in 1..Len(orders) : DOMAIN orders[o] = 1..Len(orders[o])
    BY DEF IInv, OrdersInv
  <2>3. script \in Seq(Commands) /\ inbox \in Seq(Commands)
    BY DEF IInv, BoundsInv
  <2>4. \A i \in 1..Len(sessions) :
          /\ sessions[i].kind \in Kinds /\ sessions[i].stage \in Stages
          /\ DOMAIN sessions[i].args = Fields
    BY DEF IInv, SessionsInv, IsSession
  <2>5. /\ Len(orders) = Len(meta) /\ Len(meta) <= MaxOrders
        /\ \A o \in 1..Len(orders) : orders[o] \in Seq(OrderState) /\ orders[o] # <<>>
    BY DEF IInv, OrdersInv, MetaInv
  <2>6. \A i \in 1..Len(updates) :
          updates[i].order \in DOMAIN orders /\ updates[i].at \in DOMAIN orders[updates[i].order]
    BY <2>1, <2>2 DEF IInv, UpdatesInv
  <2>7. \A o \in OrderIds : \A i \in 1..Len(told[o]) : told[o][i].at \in DOMAIN orders[o]
    BY <2>2 DEF IInv, ToldInv, TrueOf
  <2>8. /\ link \in {"open", "broken"} /\ breaks \in 0..MaxBreaks
        /\ dropped \subseteq OrderIds /\ logged \subseteq DOMAIN sessions
    BY <2>1 DEF IInv, BoundsInv, UpdatesInv, SessionsInv
  <2> QED
    BY <2>1, <2>3, <2>4, <2>5, <2>6, <2>7, <2>8 DEF TypeOK
<1> QED
  BY <1>1, Invariant, PTL

\* However sessions, replies, updates, breaks and restarts interleave, private_ws_handler
\* tells the core every change of an order once and in order; one is missing only when an
\* update of that order was lost.
THEOREM EveryChangeReported == Spec => []ReportsComplete
<1>1. IInv => ReportsComplete
  BY DEF IInv
<1> QED
  BY <1>1, Invariant, PTL

\* get_order_change_description never calls an order cancelled of which a part was filled.
THEOREM CanceledIsUnfilled == Spec => []CanceledMeansNothingFilled
<1>1. IInv => CanceledMeansNothingFilled
  BY OrderFacts DEF IInv, ToldInv, TrueOf, Honest, CanceledMeansNothingFilled
<1> QED
  BY <1>1, Invariant, PTL

\* Whatever was in flight when cancel_all_orders ran, an older order that lives later was
\* among the requests the exchange had not seen, or its market was not cancelled.
THEOREM CancelAllSweeps == Spec => []CancelAllSparesOnlyInFlight
<1>1. IInv => CancelAllSparesOnlyInFlight
  BY DEF IInv, SweptInv
<1> QED
  BY <1>1, Invariant, PTL

\* No session of place_order makes two orders: failed sessions are not tried again.
THEOREM OneOrderEach == Spec => []OneOrderPerRequest
<1>1. IInv => OneOrderPerRequest
  BY OrderFacts DEF IInv, MetaInv, OneOrderPerRequest
<1> QED
  BY <1>1, Invariant, PTL

\* The locals that aeron_handler shares between the elements of a message never displace
\* what an element gives itself.
THEOREM OwnFieldsCarried == Spec => []OwnFieldsWin
<1>1. IInv => OwnFieldsWin
  BY SequenceOfElements DEF IInv, SessionsInv, Faithful, OwnFieldsWin
<1> QED
  BY <1>1, Invariant, PTL

\* order_status_prepare tells of a limit order the price the core asked for.
THEOREM PriceToldTrue == Spec => []PriceToldIsPriceAsked
<1>1. IInv => PriceToldIsPriceAsked
  <2> SUFFICES ASSUME IInv, NEW o \in DOMAIN orders,
                      sessions[meta[o].session].args["type"] = "limit",
                      "price" \in Readable(sessions[meta[o].session].own),
                      NEW i \in 1..Len(told[o])
               PROVE  told[o][i].price = sessions[meta[o].session].own["price"]
    BY DEF PriceToldIsPriceAsked
  <2>1. /\ o \in OrderIds /\ Faithful(sessions[meta[o].session])
        /\ meta[o].type = sessions[meta[o].session].args["type"]
        /\ meta[o].price = sessions[meta[o].session].args["price"]
    BY OrderFacts
  <2>2. told[o][i].price = meta[o].price
    BY <2>1 DEF IInv, ToldInv, TrueOf
  <2>3. "limit" # "market"
    OBVIOUS
  <2>4. sessions[meta[o].session].args["price"] = sessions[meta[o].session].own["price"]
    BY <2>1, <2>3 DEF Faithful
  <2> QED
    BY <2>1, <2>2, <2>4
<1> QED
  BY <1>1, Invariant, PTL

-----------------------------------------------------------------------------
(* Replies and the questions they answer *)

\* A session was started when no order had gone through more states than now, and its
\* answer is none that was true before.
Asked(s) ==
  /\ \A o \in OrderIds : s.since[o] \in 0..Count(o)
  /\ s.stage = "answered" /\ s.ok => s.since[s.order] \in 0..s.at

QuestionsInv ==
  /\ \A i \in 1..Len(sessions) : Asked(sessions[i])
  /\ \A o \in OrderIds : \A i \in 1..Len(told[o]) : told[o][i].since \in 0..told[o][i].at

LEMMA CountsAre ==
  ASSUME IInv
  PROVE  \A o \in OrderIds :
           /\ Count(o) \in Nat
           /\ o \in 1..Len(orders) => Count(o) = Len(orders[o])
           /\ o \notin 1..Len(orders) => Count(o) = 0
<1>1. DOMAIN orders = 1..Len(orders)
  BY SequenceOfElements DEF IInv, OrdersInv
<1>2. \A o \in 1..Len(orders) : Len(orders[o]) \in Nat
  BY DEF IInv, OrdersInv
<1> QED
  BY <1>1, <1>2 DEF Count

\* No order loses a state.
LEMMA CountsGrow ==
  ASSUME IInv, [Next]_vars
  PROVE  \A o \in OrderIds : Count(o) \in Nat /\ Count(o)' \in Nat /\ Count(o) <= Count(o)'
<1>1. IInv' /\ (Reported \/ Informed)
  BY InvStep
<1>2. CASE orders' = orders
  BY <1>2, CountsAre DEF Count
<1>3. CASE \E changed \in SUBSET OrderIds : OrdersMove(changed)
  <2>1. PICK changed \in SUBSET OrderIds : OrdersMove(changed)
    BY <1>3
  <2>2. DOMAIN orders' = 1..Len(orders')
    BY <1>1, SequenceOfElements DEF IInv, OrdersInv
  <2> SUFFICES ASSUME NEW o \in OrderIds
               PROVE  Count(o) \in Nat /\ Count(o)' \in Nat /\ Count(o) <= Count(o)'
    OBVIOUS
  <2>3. CASE o \in 1..Len(orders)
    <3>1. /\ o \in 1..Len(orders') /\ Len(orders[o]) \in Nat
          /\ \/ Len(orders'[o]) = Len(orders[o]) + 1
             \/ Len(orders'[o]) = Len(orders[o])
      BY <2>1, <2>3, MoveAt
    <3>2. Count(o)' = Len(orders'[o])
      BY <2>2, <3>1 DEF Count
    <3>3. Count(o) = Len(orders[o])
      BY <2>3, CountsAre
    <3> QED
      BY <3>1, <3>2, <3>3
  <2>4. CASE o \notin 1..Len(orders)
    <3>1. Count(o) = 0
      BY <2>4, CountsAre
    <3>2. \A p \in 1..Len(orders') : Len(orders'[p]) \in Nat
      BY <2>1 DEF OrdersMove
    <3>3. Count(o)' \in Nat
      BY <2>2, <3>2 DEF Count
    <3> QED
      BY <3>1, <3>3
  <2> QED
    BY <2>3, <2>4
<1> QED
  BY <1>1, <1>2, <1>3 DEF Reported, Informed, private_ws_handler, Break, status_order_handler

\* What a step may do with sessions: nothing, answer one with a state that is not older
\* than the present, end one, or start one.
LEMMA QuestionsKeep ==
  ASSUME IInv, QuestionsInv, [Next]_vars,
         \A i \in 1..Len(sessions') :
           \/ i \in 1..Len(sessions) /\ sessions'[i] = sessions[i]
           \/ /\ i \in 1..Len(sessions) /\ sessions'[i].since = sessions[i].since
              /\ sessions'[i].stage = "answered" /\ sessions'[i].ok =>
                   /\ sessions'[i].order \in OrderIds /\ sessions'[i].at \in Nat
                   /\ Count(sessions'[i].order) <= sessions'[i].at
           \/ /\ sessions'[i].stage = "requested"
              /\ \A o \in OrderIds : sessions'[i].since[o] \in {0, Count(o)}
  PROVE  \A i \in 1..Len(sessions') : Asked(sessions[i])'
<1> SUFFICES ASSUME NEW i \in 1..Len(sessions')
             PROVE  Asked(sessions[i])'
  OBVIOUS
<1>1. \A o \in OrderIds : Count(o) \in Nat /\ Count(o)' \in Nat /\ Count(o) <= Count(o)'
  BY CountsGrow
<1>2. i \in 1..Len(sessions) =>
        /\ \A o \in OrderIds : sessions[i].since[o] \in 0..Count(o)
        /\ sessions[i].stage = "answered" /\ sessions[i].ok =>
             sessions[i].since[sessions[i].order] \in 0..sessions[i].at
  BY DEF QuestionsInv, Asked
<1>3. ASSUME NEW o \in OrderIds
      PROVE  sessions'[i].since[o] \in 0..Count(o)'
  <2>1. sessions'[i].since[o] \in 0..Count(o)
    BY <1>1, <1>2
  <2> QED
    BY <1>1, <2>1
<1>4. ASSUME sessions'[i].stage = "answered", sessions'[i].ok
      PROVE  sessions'[i].since[sessions'[i].order] \in 0..sessions'[i].at
  <2>1. CASE i \in 1..Len(sessions) /\ sessions'[i] = sessions[i]
    BY <1>2, <1>4, <2>1
  <2>2. CASE ~(i \in 1..Len(sessions) /\ sessions'[i] = sessions[i])
    <3>1. /\ i \in 1..Len(sessions) /\ sessions'[i].since = sessions[i].since
          /\ sessions'[i].order \in OrderIds /\ sessions'[i].at \in Nat
          /\ Count(sessions'[i].order) <= sessions'[i].at
      BY <1>4, <2>2
    <3>2. PICK o, at : o = sessions'[i].order /\ at = sessions'[i].at
      OBVIOUS
    <3>3. sessions'[i].since[o] \in 0..Count(o)
      BY <1>2, <3>1, <3>2
    <3>4. sessions'[i].since[o] \in 0..at
      BY <1>1, <3>1, <3>2, <3>3
    <3> QED
      BY <3>2, <3>4
  <2> QED
    BY <2>1, <2>2
<1> QED
  BY <1>3, <1>4 DEF Asked

\* A question is started with the states the orders have at that time.
LEMMA ArrayAsks ==
  ASSUME IInv, aeron_handler_array
  PROVE  \A i \in 1..Len(sessions') :
           \/ i \in 1..Len(sessions) /\ sessions'[i] = sessions[i]
           \/ /\ sessions'[i].stage = "requested"
              /\ \A o \in OrderIds : sessions'[i].since[o] \in {0, Count(o)}
<1> DEFINE action == Head(inbox).action
           data == Head(inbox).data
           S == Starting(action, data)
<1>1. PICK e \in Ascending(S) :
        sessions' = sessions \o [j \in DOMAIN e |-> Session(action, data, e[j])]
  BY DEF aeron_handler_array
<1> DEFINE t == [j \in DOMAIN e |-> Session(action, data, e[j])]
<1>2. Cardinality(S) \in Nat
  <2>1. Head(inbox) \in Commands
    BY HeadTailProperties DEF IInv, BoundsInv, aeron_handler_array
  <2>2. Len(data) \in Nat
    BY <2>1, CommandsAssumption
  <2>3. IsFiniteSet(1..Len(data)) /\ S \subseteq 1..Len(data)
    BY <2>2, FS_Interval DEF Starting, Reached
  <2> QED
    BY <2>3, FS_Subset, FS_CardinalityType
<1>3. IsSequence(t) /\ Len(t) = Cardinality(S)
  BY <1>2 DEF Ascending, IsSequence
<1>4. ASSUME NEW j \in 1..Len(t)
      PROVE  /\ t[j].stage = "requested"
             /\ \A o \in OrderIds : t[j].since[o] \in {0, Count(o)}
  <2>1. t[j] = Session(action, data, e[j])
    BY <1>2, <1>3 DEF Ascending
  <2>2. /\ t[j].stage = "requested"
        /\ t[j].since = [o \in OrderIds |-> IF KindOf(action) = "status" THEN Count(o) ELSE 0]
    BY <2>1 DEF Session
  <2> QED
    BY <2>2
<1> HIDE DEF S, t
<1>5. IsSequence(sessions) /\ Len(sessions) \in Nat /\ Len(t) \in Nat
  BY <1>2, <1>3 DEF IInv, SessionsInv, IsSequence
<1>6. /\ Len(sessions') = Len(sessions) + Len(t)
      /\ \A i \in 1..Len(sessions) : sessions'[i] = sessions[i]
      /\ \A i \in (Len(sessions) + 1)..(Len(sessions) + Len(t)) :
           sessions'[i] = t[i - Len(sessions)]
  BY <1>1, <1>3, <1>5, ConcatSequence DEF t
<1> TAKE i \in 1..Len(sessions')
<1>7. \/ i \in 1..Len(sessions)
      \/ i \in (Len(sessions) + 1)..(Len(sessions) + Len(t)) /\ i - Len(sessions) \in 1..Len(t)
  BY <1>5, <1>6
<1> QED
  BY <1>4, <1>6, <1>7

\* A step that answers session i, or ends it, or touches none.
LEMMA AnswersAreFresh ==
  ASSUME IInv, NEW i \in DOMAIN sessions,
         \/ exchange_cancels(i) \/ exchange_reports(i)
         \/ \E ok \in BOOLEAN : exchange_creates(i, ok)
  PROVE  \E ok \in BOOLEAN : \E o, at :
           /\ Answered(i, ok, o, at)
           /\ ok => o \in OrderIds /\ at \in Nat /\ Count(o) <= at
<1>1. DOMAIN orders = 1..Len(orders) /\ Len(orders) = Len(meta) /\ Len(orders) \in Nat
  BY SequenceOfElements DEF IInv, OrdersInv, IsSequence
<1>2. \A o \in 1..Len(orders) : /\ o \in OrderIds /\ Len(orders[o]) \in Nat
                                /\ Count(o) = Len(orders[o])
                                /\ orders[o] \in Seq(OrderState)
  BY <1>1, OrderIsId, CountsAre DEF IInv, OrdersInv
<1>3. CASE exchange_cancels(i)
  <2>1. CASE Answered(i, FALSE, 0, 0)
    BY <2>1
  <2>2. ASSUME NEW o \in {p \in Target(sessions[i]) : Live(p)},
               orders' = Moved(orders, o, [Now(o) EXCEPT !.status = "closed"]),
               Answered(i, TRUE, o, Len(orders'[o]))
        PROVE  \E ok \in BOOLEAN : \E p, at :
                 /\ Answered(i, ok, p, at)
                 /\ ok => p \in OrderIds /\ at \in Nat /\ Count(p) <= at
    <3>1. o \in DOMAIN orders
      BY DEF Target
    <3>2. o \in 1..Len(orders)
      BY <1>1, <3>1
    <3>3. orders'[o] = Append(orders[o], [Now(o) EXCEPT !.status = "closed"])
      BY <2>2, <3>1 DEF Moved
    <3>4. IsSequence(orders[o])
      BY <1>2, <3>2 DEF IsSequence
    <3>5. Len(orders'[o]) = Len(orders[o]) + 1
      BY <3>3, <3>4, AppendSequence
    <3>6. PICK at : at = Len(orders'[o])
      OBVIOUS
    <3>7. o \in OrderIds /\ at \in Nat /\ Count(o) <= at
      BY <1>2, <3>2, <3>5, <3>6
    <3> QED
      BY <2>2, <3>6, <3>7
  <2> QED
    BY <1>3, <2>1, <2>2 DEF exchange_cancels
<1>4. CASE exchange_reports(i)
  <2>1. CASE Answered(i, FALSE, 0, 0)
    BY <2>1
  <2>2. ASSUME NEW o \in Target(sessions[i]), Answered(i, TRUE, o, Len(orders[o]))
        PROVE  \E ok \in BOOLEAN : \E p, at :
                 /\ Answered(i, ok, p, at)
                 /\ ok => p \in OrderIds /\ at \in Nat /\ Count(p) <= at
    <3>1. o \in 1..Len(orders)
      BY <1>1 DEF Target
    <3>2. o \in OrderIds /\ Len(orders[o]) \in Nat /\ Count(o) <= Len(orders[o])
      BY <1>2, <3>1
    <3> QED
      BY <2>2, <3>2
  <2> QED
    BY <1>4, <2>1, <2>2 DEF exchange_reports
<1>5. ASSUME NEW ok \in BOOLEAN, exchange_creates(i, ok)
      PROVE  \E k \in BOOLEAN : \E p, at :
               /\ Answered(i, k, p, at)
               /\ k => p \in OrderIds /\ at \in Nat /\ Count(p) <= at
  <2>1. CASE ok = FALSE
    <3>1. Answered(i, FALSE, 0, 0)
      BY <1>5, <2>1 DEF exchange_creates
    <3> QED
      BY <3>1
  <2>2. CASE ok = TRUE
    <3>1. /\ Len(meta) < MaxOrders
          /\ \E m : meta' = Append(meta, m)
          /\ Answered(i, TRUE, Len(meta'), 1)
      BY <1>5, <2>2 DEF exchange_creates
    <3>2. IsSequence(meta) /\ MaxOrders \in Nat
      BY CommandsAssumption DEF IInv, MetaInv
    <3>3. Len(meta') = Len(meta) + 1
      BY <3>1, <3>2, AppendSequence
    <3>4. PICK o : o = Len(meta')
      OBVIOUS
    <3>5. o \in OrderIds /\ o \notin 1..Len(orders)
      BY <1>1, <3>1, <3>2, <3>3, <3>4 DEF OrderIds
    <3>6. Count(o) <= 1
      BY <3>5, CountsAre
    <3> QED
      BY <3>1, <3>4, <3>5, <3>6
  <2> QED
    BY <2>1, <2>2
<1> QED
  BY <1>3, <1>4, <1>5

LEMMA SessionsAsked ==
  ASSUME IInv, QuestionsInv, [Next]_vars
  PROVE  \A i \in 1..Len(sessions') : Asked(sessions[i])'
<1>1. CASE sessions' = sessions
  BY <1>1, QuestionsKeep
<1>2. ASSUME NEW i \in DOMAIN sessions, Ended(i)
      PROVE  \A j \in 1..Len(sessions') : Asked(sessions[j])'
  <2>1. /\ SessionsGoOn /\ i \in 1..Len(sessions) /\ Len(sessions') = Len(sessions)
        /\ sessions'[i].stage = "done"
        /\ \A j \in 1..Len(sessions) : j # i => sessions'[j] = sessions[j]
    BY <1>2, SessionEnds
  <2>2. sessions'[i].since = sessions[i].since
    BY <2>1 DEF SessionsGoOn
  <2> QED
    BY <2>1, <2>2, QuestionsKeep
<1>3. ASSUME NEW i \in DOMAIN sessions, NEW ok \in BOOLEAN, NEW o, NEW at,
             Answered(i, ok, o, at),
             ok => o \in OrderIds /\ at \in Nat /\ Count(o) <= at
      PROVE  \A j \in 1..Len(sessions') : Asked(sessions[j])'
  <2>1. /\ SessionsGoOn /\ i \in 1..Len(sessions) /\ Len(sessions') = Len(sessions)
        /\ sessions'[i].ok = ok /\ sessions'[i].order = o /\ sessions'[i].at = at
        /\ \A j \in 1..Len(sessions) : j # i => sessions'[j] = sessions[j]
    BY <1>3, SessionAnswered
  <2>2. sessions'[i].since = sessions[i].since
    BY <2>1 DEF SessionsGoOn
  <2> QED
    BY <1>3, <2>1, <2>2, QuestionsKeep
<1>4. CASE aeron_handler_array
  BY <1>4, ArrayAsks, QuestionsKeep
<1>5. CASE UNCHANGED vars
  BY <1>1, <1>5 DEF vars
<1>6. CASE send_command \/ aeron_handler_no_array \/ restart_private_ws
  BY <1>1, <1>6 DEF send_command, aeron_handler_no_array, restart_private_ws
<1>7. ASSUME NEW failed, cancel_all_orders(failed)
      PROVE  sessions' = sessions
  BY <1>7 DEF cancel_all_orders
<1>8. ASSUME NEW i \in DOMAIN sessions,
             \/ exchange_cancels(i) \/ exchange_reports(i)
             \/ \E ok \in BOOLEAN : exchange_creates(i, ok)
      PROVE  \A j \in 1..Len(sessions') : Asked(sessions[j])'
  <2>1. PICK ok \in BOOLEAN : \E o, at :
          /\ Answered(i, ok, o, at)
          /\ ok => o \in OrderIds /\ at \in Nat /\ Count(o) <= at
    BY <1>8, AnswersAreFresh, Zenon
  <2>2. PICK o, at : /\ Answered(i, ok, o, at)
                     /\ ok => o \in OrderIds /\ at \in Nat /\ Count(o) <= at
    BY <2>1
  <2> QED
    BY <1>3, <2>2
<1>9. ASSUME NEW i \in DOMAIN sessions,
             \/ session_fails(i)
             \/ \E ok \in BOOLEAN : place_order_handler(i, ok) \/ status_order_handler(i, ok)
      PROVE  Ended(i)
  BY <1>9 DEF session_fails, place_order_handler, status_order_handler, Ended
<1>10. CASE Updates \/ \E k \in 0..Len(updates) : Break(k)
  BY <1>1, <1>10 DEF Updates, private_ws_handler, Break
<1>11. CASE \E o \in DOMAIN orders : exchange_fills(o)
  BY <1>1, <1>11 DEF exchange_fills
<1>12. CASE aeron_handler
  BY <1>1, <1>4, <1>6, <1>7, <1>12 DEF aeron_handler
<1>13. CASE Exchange
  BY <1>8, <1>11, <1>13 DEF Exchange
<1>14. CASE Replies \/ \E i \in DOMAIN sessions : session_fails(i)
  BY <1>2, <1>9, <1>14 DEF Replies
<1> QED
  BY <1>5, <1>6, <1>10, <1>12, <1>13, <1>14 DEF Next

\* One more thing is told of an order, and it is as fresh as its question.
LEMMA ToldFresh ==
  ASSUME IInv, QuestionsInv, NEW o \in OrderIds, NEW at, NEW via, NEW since \in 0..at, NEW message,
         Told(o, at, via, since, message)
  PROVE  \A p \in OrderIds : \A i \in 1..Len(told'[p]) : told'[p][i].since \in 0..told'[p][i].at
<1>1. /\ \A p \in OrderIds : p # o => told'[p] = told[p]
      /\ Len(told[o]) \in Nat /\ Len(told'[o]) = Len(told[o]) + 1
      /\ \A i \in 1..Len(told[o]) : told'[o][i] = told[o][i]
      /\ LET t == told'[o][Len(told[o]) + 1] IN t.at = at /\ t.since = since
  BY ToldAppends
<1> TAKE p \in OrderIds
<1> TAKE i \in 1..Len(told'[p])
<1>2. CASE p # o
  BY <1>1, <1>2 DEF QuestionsInv
<1>3. CASE p = o /\ i = Len(told[o]) + 1
  BY <1>1, <1>3
<1>4. CASE p = o /\ i # Len(told[o]) + 1
  <2>1. i \in 1..Len(told[o])
    BY <1>1, <1>4
  <2> QED
    BY <1>1, <1>4, <2>1 DEF QuestionsInv
<1> QED
  BY <1>2, <1>3, <1>4

LEMMA QuestionsStep ==
  ASSUME IInv, QuestionsInv, [Next]_vars
  PROVE  QuestionsInv'
<1> DEFINE Fresh == \A o \in OrderIds : \A i \in 1..Len(told'[o]) :
                      told'[o][i].since \in 0..told'[o][i].at
<1>1. ASSUME told' = told
      PROVE  Fresh
  BY <1>1 DEF QuestionsInv
<1>2. ASSUME NEW ok \in BOOLEAN, private_ws_handler(ok), told' # told
      PROVE  Fresh
  <2>1. PICK u, text : u = updates[1] /\ text = Description(orders[u.order][u.at]).message
    OBVIOUS
  <2>2. /\ u.order \in OrderIds /\ u.order \in 1..Len(orders)
        /\ u.at \in 1..Len(orders[u.order])
        /\ Told(u.order, u.at, "update", 0, text)
    BY <1>2, <2>1, UpdateStep
  <2>3. Len(orders[u.order]) \in Nat
    BY <2>2 DEF IInv, OrdersInv
  <2>4. 0 \in 0..u.at
    BY <2>2, <2>3
  <2> QED
    BY <2>2, <2>4, ToldFresh
<1>3. ASSUME NEW i \in DOMAIN sessions, NEW ok \in BOOLEAN, status_order_handler(i, ok),
             told' # told
      PROVE  Fresh
  <2>1. PICK o, at, since : /\ o = sessions[i].order /\ at = sessions[i].at
                            /\ since = sessions[i].since[sessions[i].order]
    OBVIOUS
  <2>2. o \in OrderIds /\ Told(o, at, "reply", since, "Order status was received")
    BY <1>3, <2>1, StatusStep
  <2>3. sessions[i].stage = "answered" /\ sessions[i].ok
    BY <1>3 DEF status_order_handler
  <2>4. i \in 1..Len(sessions)
    BY SequenceOfElements DEF IInv, SessionsInv
  <2>5. since \in 0..at
    BY <2>1, <2>3, <2>4 DEF QuestionsInv, Asked
  <2> QED
    BY <2>2, <2>5, ToldFresh
<1>4. Fresh
  <2>1. Reported \/ Informed
    BY InvStep
  <2>2. CASE Reported \/ \E k \in 0..Len(updates) : Break(k)
    BY <1>1, <2>2 DEF Reported, Break, QuestionsInv
  <2> QED
    BY <1>1, <1>2, <1>3, <2>1, <2>2 DEF Informed, QuestionsInv
<1> QED
  BY <1>4, SessionsAsked DEF QuestionsInv

\* What status_order_handler tells the core is never older than the question, though updates
\* on the other connection may have told it newer things before.
THEOREM RepliesAreFresh == Spec => []RepliesFollowQuestions
<1>1. Init => QuestionsInv
  BY DEF Init, QuestionsInv
<1>2. IInv /\ QuestionsInv /\ [Next]_vars => QuestionsInv'
  BY QuestionsStep
<1>3. IInv /\ QuestionsInv => RepliesFollowQuestions
  <2> SUFFICES ASSUME IInv, QuestionsInv, NEW o \in OrderIds, NEW i \in 1..Len(told[o])
               PROVE  told[o][i].at >= told[o][i].since
    BY DEF RepliesFollowQuestions
  <2>1. told[o][i].since \in 0..told[o][i].at
    BY DEF QuestionsInv
  <2>2. /\ o \in 1..Len(orders) /\ told[o][i].at \in 1..Len(orders[o])
    BY DEF IInv, ToldInv, TrueOf
  <2>3. Len(orders[o]) \in Nat
    BY <2>2 DEF IInv, OrdersInv
  <2> QED
    BY <2>1, <2>2, <2>3
<1> QED
  BY <1>1, <1>2, <1>3, Invariant, PTL DEF Spec

-----------------------------------------------------------------------------
(* The promise to the core *)

LEMMA HeardFacts ==
  ASSUME IInv, NEW o \in OrderIds
  PROVE  /\ Heard(o) \in Nat
         /\ Via(o) = {} => Heard(o) = 0
         /\ Via(o) # {} => \E i \in Via(o) : Heard(o) = told[o][i].at /\ \A j \in Via(o) : j <= i
<1>1. CASE Via(o) = {}
  BY <1>1 DEF Heard
<1>2. CASE Via(o) # {}
  <2> DEFINE i == CHOOSE k \in Via(o) : \A j \in Via(o) : j <= k
  <2>1. \E k \in Via(o) : \A j \in Via(o) : j <= k
    BY <1>2 DEF IInv, LastTold
  <2>2. i \in Via(o) /\ \A j \in Via(o) : j <= i
    BY <2>1
  <2>3. Heard(o) = told[o][i].at
    BY <1>2 DEF Heard
  <2> HIDE DEF i
  <2> QED
    BY <1>2, <2>2, <2>3, Numbers
<1> QED
  BY <1>1, <1>2

\* The core hears what it is told last by an update, and nothing else.
LEMMA HeardSame ==
  ASSUME NEW o, Via(o)' = Via(o), \A i \in Via(o) : told'[o][i].at = told[o][i].at, IInv,
         o \in OrderIds
  PROVE  Heard(o)' = Heard(o)
<1>1. CASE Via(o) = {}
  BY <1>1 DEF Heard
<1>2. CASE Via(o) # {}
  <2> DEFINE i == CHOOSE k \in Via(o) : \A j \in Via(o) : j <= k
  <2>1. \E k \in Via(o) : \A j \in Via(o) : j <= k
    BY <1>2 DEF IInv, LastTold
  <2>2. i \in Via(o)
    BY <2>1
  <2>3. Heard(o) = told[o][i].at /\ Heard(o)' = told'[o][i].at
    BY <1>2 DEF Heard
  <2> HIDE DEF i
  <2> QED
    BY <2>2, <2>3
<1> QED
  BY <1>1, <1>2

\* The numbers of states, as the promise sees them.
States == [o \in OrderIds |-> Count(o)]
HeardOf == [o \in OrderIds |-> Heard(o)]

LEMMA NewsReported ==
  ASSUME IInv, IInv', Reported
  PROVE  \/ States' = States /\ HeardOf' = HeardOf /\ dropped' = dropped
         \/ \E moved \in SUBSET OrderIds :
              /\ States' = [o \in OrderIds |-> IF o \in moved THEN States[o] + 1 ELSE States[o]]
              /\ \E lost \in SUBSET moved : dropped' = dropped \cup lost
              /\ HeardOf' = HeardOf
<1>1. told' = told => HeardOf' = HeardOf
  <2> HAVE told' = told
  <2>1. \A o \in OrderIds : Heard(o)' = Heard(o)
    BY HeardSame DEF Via
  <2> QED
    BY <2>1 DEF HeardOf
<1>2. CASE UNCHANGED <<orders, told, dropped>>
  BY <1>1, <1>2 DEF States, Count
<1>3. CASE told' = told /\ \E changed \in SUBSET OrderIds : OrdersMove(changed) /\ Tells(changed)
  <2>1. PICK changed \in SUBSET OrderIds : OrdersMove(changed) /\ Tells(changed)
    BY <1>3
  <2>2. \E lost \in SUBSET changed : dropped' = dropped \cup lost
    <3>1. dropped' = dropped \cup {} \/ dropped' = dropped \cup changed
      BY <2>1 DEF Tells
    <3> QED
      BY <3>1
  <2>3. DOMAIN orders = 1..Len(orders) /\ DOMAIN orders' = 1..Len(orders')
    BY SequenceOfElements DEF IInv, OrdersInv
  <2>4. ASSUME NEW o \in OrderIds
        PROVE  States'[o] = IF o \in changed THEN States[o] + 1 ELSE States[o]
    <3>1. /\ Len(orders) \in Nat /\ Len(orders') \in Nat /\ Len(orders) <= Len(orders')
          /\ changed \subseteq 1..Len(orders')
      BY <2>1 DEF IInv, OrdersInv, OrdersMove, IsSequence
    <3>2. CASE o \in 1..Len(orders')
      <4>1. /\ o \in changed => Len(orders'[o]) = Before(o) + 1
            /\ o \notin changed => Len(orders'[o]) = Before(o)
        BY <2>1, <3>2, BeforeFacts
      <4>2. States'[o] = Len(orders'[o])
        BY <2>3, <3>2 DEF States, Count
      <4>3. States[o] = Before(o)
        BY <2>3, <3>1, <3>2 DEF States, Count, Before
      <4> QED
        BY <4>1, <4>2, <4>3
    <3>3. CASE o \notin 1..Len(orders')
      <4>1. o \notin 1..Len(orders) /\ o \notin changed
        BY <3>1, <3>3
      <4> QED
        BY <2>3, <3>3, <4>1 DEF States, Count
    <3> QED
      BY <3>2, <3>3
  <2>5. States' = [o \in OrderIds |-> IF o \in changed THEN States[o] + 1 ELSE States[o]]
    BY <2>4 DEF States, Count
  <2> QED
    BY <1>1, <1>3, <2>2, <2>5
<1> QED
  BY <1>2, <1>3 DEF Reported

\* An update that is taken: its state comes after all that was heard of its order, and
\* right after it unless an update of the order was lost.
LEMMA NewsTold ==
  ASSUME IInv, IInv', NEW ok \in BOOLEAN, private_ws_handler(ok)
  PROVE  \/ \E o \in OrderIds : \E n \in 1..States[o] :
              /\ HeardOf[o] < n /\ n <= States[o]
              /\ n = HeardOf[o] + 1 \/ o \in dropped
              /\ HeardOf' = [HeardOf EXCEPT ![o] = n]
              /\ States' = States /\ dropped' = dropped
         \/ \E lost \in SUBSET OrderIds :
              /\ dropped' = dropped \cup lost
              /\ States' = States /\ HeardOf' = HeardOf
<1> DEFINE u == updates[1]
           message == Description(orders[u.order][u.at]).message
<1>1. /\ updates # <<>> /\ orders' = orders
      /\ u.order \in 1..Len(orders) /\ u.at \in 1..Len(orders[u.order]) /\ u.order \in OrderIds
      /\ 1 \in InFlight(u.order)
      /\ \/ Told(u.order, u.at, "update", 0, message) /\ dropped' = dropped
         \/ told' = told /\ dropped' = dropped \cup {u.order}
  BY UpdateStep
<1>2. States' = States
  BY <1>1 DEF States, Count
<1>3. CASE told' = told /\ dropped' = dropped \cup {u.order}
  <2>1. \A o \in OrderIds : Heard(o)' = Heard(o)
    BY <1>3, HeardSame DEF Via
  <2>2. HeardOf' = HeardOf
    BY <2>1 DEF HeardOf
  <2> QED
    BY <1>1, <1>2, <1>3, <2>2
<1>4. CASE Told(u.order, u.at, "update", 0, message) /\ dropped' = dropped
  <2>0. PICK o, n, text : o = u.order /\ n = u.at /\ text = message
    OBVIOUS
  <2>1. Told(o, n, "update", 0, text)
    BY <1>4, <2>0
  <2>2. /\ DOMAIN orders = 1..Len(orders) /\ Len(orders[o]) \in Nat /\ n \in Nat
        /\ n \in 1..Len(orders[o]) /\ o \in OrderIds /\ o \in 1..Len(orders)
    BY <1>1, <2>0, SequenceOfElements DEF IInv, OrdersInv
  <2>3. 1 \in InFlight(o) /\ n = updates[1].at
    BY <1>1, <2>0
  <2> HIDE DEF message, u
  <2>4. States[o] = Len(orders[o])
    BY <2>2 DEF States, Count
  <2>5. InOrder(o)
    BY <2>2 DEF IInv, ReportsComplete
  <2>6. /\ Heard(o) \in Nat
        /\ Via(o) = {} => Heard(o) = 0
        /\ Via(o) # {} => \E i \in Via(o) : Heard(o) = told[o][i].at /\ \A j \in Via(o) : j <= i
    BY <2>2, HeardFacts
  <2>7. Heard(o) < n
    <3>1. \A i \in Via(o) : told[o][i].at < n
      BY <2>3, <2>5 DEF InOrder
    <3>2. 0 < n
      BY <2>2
    <3> QED
      BY <2>6, <3>1, <3>2
  <2>8. o \notin dropped => n = Heard(o) + 1
    <3> SUFFICES ASSUME o \notin dropped, Heard(o) + 1 # n
                 PROVE  FALSE
      OBVIOUS
    <3>1. Heard(o) + 1 \in 1..Len(orders[o]) /\ Heard(o) + 1 < n
      BY <2>2, <2>6, <2>7
    <3>2. 1..Len(orders[o]) \subseteq {told[o][i].at : i \in Via(o)}
                                      \cup {updates[i].at : i \in InFlight(o)}
      BY <2>2 DEF IInv, ReportsComplete
    <3>3. CASE \E i \in Via(o) : told[o][i].at = Heard(o) + 1
      <4>1. PICK i \in Via(o) : told[o][i].at = Heard(o) + 1
        BY <3>3
      <4>2. PICK k \in Via(o) : Heard(o) = told[o][k].at /\ \A j \in Via(o) : j <= k
        BY <2>6, <4>1
      <4>3. i \in Nat /\ k \in Nat /\ i <= k
        BY <2>2, <4>1, <4>2, Numbers
      <4>4. CASE i = k
        BY <2>6, <4>1, <4>2, <4>4
      <4>5. CASE i < k
        <5>1. told[o][i].at < told[o][k].at
          BY <2>5, <4>1, <4>2, <4>5 DEF InOrder
        <5> QED
          BY <2>6, <4>1, <4>2, <5>1
      <4> QED
        BY <4>3, <4>4, <4>5
    <3>4. CASE \E i \in InFlight(o) : updates[i].at = Heard(o) + 1
      <4>1. PICK i \in InFlight(o) : updates[i].at = Heard(o) + 1
        BY <3>4
      <4>2. i \in Nat /\ i # 0
        BY <4>1, Numbers DEF InFlight
      <4>3. i # 1
        BY <2>3, <3>1, <4>1
      <4>4. 1 < i
        BY <4>2, <4>3
      <4>5. updates[1].at < updates[i].at
        BY <2>3, <2>5, <4>1, <4>4 DEF InOrder
      <4> QED
        BY <2>2, <2>3, <2>6, <3>1, <4>1, <4>5
    <3> QED
      BY <3>1, <3>2, <3>3, <3>4
  <2>9. Heard(o)' = n
    <3>1. PICK last : last = Len(told[o]) + 1
      OBVIOUS
    <3>2. Via(o)' = Via(o) \cup {last} /\ told'[o][last].at = n /\ \A i \in Via(o) : i < last
      <4>1. o \in OrderIds
        BY <2>2
      <4> QED
        BY <2>1, <3>1, <4>1, ViaAfter
    <3>3. last \in Nat
      <4>1. Len(told[o]) \in Nat
        BY <2>2, Zenon DEF IInv, ToldInv, IsSequence
      <4> QED
        BY <3>1, <4>1
    <3>4. \A i \in Via(o) : i \in Nat
      BY <2>2, Numbers
    <3> DEFINE i == CHOOSE k \in Via(o)' : \A j \in Via(o)' : j <= k
    <3>5. \E k \in Via(o)' : \A j \in Via(o)' : j <= k
      BY <2>2, <3>2 DEF IInv, LastTold
    <3>6. i \in Via(o)' /\ \A j \in Via(o)' : j <= i
      BY <3>5
    <3>7. Heard(o)' = told'[o][i].at
      BY <3>2 DEF Heard
    <3> HIDE DEF i
    <3>8. i = last
      BY <3>2, <3>3, <3>4, <3>6
    <3> QED
      BY <3>2, <3>7, <3>8
  <2>10. \A p \in OrderIds : p # o => Heard(p)' = Heard(p)
    <3> SUFFICES ASSUME NEW p \in OrderIds, p # o
                 PROVE  Heard(p)' = Heard(p)
      OBVIOUS
    <3>1. Via(p)' = Via(p) /\ \A i \in Via(p) : told'[p][i].at = told[p][i].at
      BY <2>1, <2>2, ViaAfter
    <3> QED
      BY <3>1, HeardSame
  <2>11. HeardOf' = [HeardOf EXCEPT ![o] = n]
    <3>1. HeardOf' = [p \in OrderIds |-> IF p = o THEN n ELSE Heard(p)]
      BY <2>9, <2>10 DEF HeardOf
    <3> QED
      BY <2>2, <3>1, Zenon DEF HeardOf
  <2>12. HeardOf[o] = Heard(o)
    BY <2>2 DEF HeardOf
  <2>13. n \in 1..States[o] /\ HeardOf[o] < n /\ n <= States[o]
    BY <2>2, <2>4, <2>7, <2>12
  <2>14. n = HeardOf[o] + 1 \/ o \in dropped
    BY <2>8, <2>12
  <2>15. o \in OrderIds /\ dropped' = dropped
    BY <1>4, <2>2
  <2> QED
    BY <1>2, <2>11, <2>13, <2>14, <2>15, Zenon
<1> QED
  BY <1>1, <1>3, <1>4

LEMMA NewsInformed ==
  ASSUME IInv, IInv', Informed,
         ~ \E ok \in BOOLEAN : private_ws_handler(ok)
  PROVE  \/ States' = States /\ HeardOf' = HeardOf /\ dropped' = dropped
         \/ \E lost \in SUBSET OrderIds :
              /\ dropped' = dropped \cup lost
              /\ States' = States /\ HeardOf' = HeardOf
<1>1. ASSUME NEW k \in 0..Len(updates), Break(k)
      PROVE  \E lost \in SUBSET OrderIds :
               dropped' = dropped \cup lost /\ States' = States /\ HeardOf' = HeardOf
  <2>1. /\ orders' = orders /\ told' = told
        /\ dropped' = dropped \cup {updates[i].order : i \in (k + 1)..Len(updates)}
    BY <1>1 DEF Break
  <2>2. States' = States
    BY <2>1 DEF States, Count
  <2>3. \A o \in OrderIds : Heard(o)' = Heard(o)
    BY <2>1, HeardSame DEF Via
  <2>4. HeardOf' = HeardOf
    BY <2>3 DEF HeardOf
  <2>5. dropped' \subseteq OrderIds
    BY DEF IInv, UpdatesInv
  <2> QED
    BY <2>1, <2>2, <2>4, <2>5
<1>2. ASSUME NEW i \in DOMAIN sessions, NEW ok \in BOOLEAN, status_order_handler(i, ok)
      PROVE  States' = States /\ HeardOf' = HeardOf /\ dropped' = dropped
  <2>1. /\ orders' = orders /\ dropped' = dropped
        /\ \/ told' = told
           \/ /\ sessions[i].order \in OrderIds
              /\ Told(sessions[i].order, sessions[i].at, "reply",
                    sessions[i].since[sessions[i].order], "Order status was received")
    BY <1>2, StatusStep
  <2>2. States' = States
    BY <2>1 DEF States, Count
  <2>3. ASSUME NEW p \in OrderIds
        PROVE  Heard(p)' = Heard(p)
    <3>1. Via(p)' = Via(p) /\ \A j \in Via(p) : told'[p][j].at = told[p][j].at
      <4>1. CASE told' = told
        BY <4>1 DEF Via
      <4>2. CASE /\ sessions[i].order \in OrderIds
                 /\ Told(sessions[i].order, sessions[i].at, "reply",
                    sessions[i].since[sessions[i].order], "Order status was received")
        <5>1. "reply" # "update"
          OBVIOUS
        <5>2. /\ \A j \in Via(p) : told'[p][j].at = told[p][j].at
              /\ p # sessions[i].order \/ "reply" # "update" => Via(p)' = Via(p)
          BY <4>2, ViaAfter, Zenon
        <5> QED
          BY <5>1, <5>2, Zenon
      <4> QED
        BY <2>1, <4>1, <4>2
    <3> QED
      BY <3>1, HeardSame
  <2>4. HeardOf' = HeardOf
    BY <2>3 DEF HeardOf
  <2> QED
    BY <2>1, <2>2, <2>4
<1> QED
  BY <1>1, <1>2 DEF Informed

LEMMA NewsInit == Init => News!Init
BY DEF Init, News!Init, Heard, Via, Count

LEMMA NewsNext ==
  ASSUME IInv, [Next]_vars
  PROVE  [News!Next]_(News!vars)
<1>1. IInv' /\ (Reported \/ Informed)
  BY InvStep
<1> DEFINE Same == States' = States /\ HeardOf' = HeardOf /\ dropped' = dropped
           Moves(moved) ==
             /\ States' = [o \in OrderIds |-> IF o \in moved THEN States[o] + 1 ELSE States[o]]
             /\ \E lost \in SUBSET moved : dropped' = dropped \cup lost
             /\ HeardOf' = HeardOf
           Loses(lost) == dropped' = dropped \cup lost /\ States' = States /\ HeardOf' = HeardOf
           Hears(o, n) ==
             /\ HeardOf[o] < n /\ n <= States[o]
             /\ n = HeardOf[o] + 1 \/ o \in dropped
             /\ HeardOf' = [HeardOf EXCEPT ![o] = n]
             /\ States' = States /\ dropped' = dropped
<1>2. \/ Same
      \/ \E moved \in SUBSET OrderIds : Moves(moved)
      \/ \E lost \in SUBSET OrderIds : Loses(lost)
      \/ \E o \in OrderIds : \E n \in 1..States[o] : Hears(o, n)
  <2>1. CASE \E ok \in BOOLEAN : private_ws_handler(ok)
    BY <1>1, <2>1, NewsTold
  <2>2. CASE Informed /\ ~ \E ok \in BOOLEAN : private_ws_handler(ok)
    BY <1>1, <2>2, NewsInformed
  <2>3. CASE Reported
    BY <1>1, <2>3, NewsReported
  <2> QED
    BY <1>1, <2>1, <2>2, <2>3
<1>3. Same => UNCHANGED News!vars
  BY DEF News!vars, States, Count, HeardOf
<1>4. ASSUME NEW moved \in SUBSET OrderIds, Moves(moved)
      PROVE  News!Next
  <2>1. News!Move(moved)
    BY <1>4 DEF News!Move, States, HeardOf
  <2> QED
    BY <2>1 DEF News!Next
<1>5. ASSUME NEW lost \in SUBSET OrderIds, Loses(lost)
      PROVE  News!Next
  <2>1. News!Lose(lost)
    BY <1>5 DEF News!Lose, States, HeardOf
  <2> QED
    BY <2>1 DEF News!Next
<1>6. ASSUME NEW o \in OrderIds, NEW n \in 1..States[o], Hears(o, n)
      PROVE  News!Next
  <2>1. News!Tell(o, n)
    BY <1>6 DEF News!Tell, States, HeardOf
  <2> QED
    BY <2>1 DEF News!Next, States
<1> QED
  BY <1>2, <1>3, <1>4, <1>5, <1>6

\* The gateway keeps its promise to the core: every step of commands, sessions, replies,
\* updates, losses and restarts is a step of OrderReports or leaves it alone.
THEOREM KeepsPromise == Spec => ImplementsNews
<1>1. IInv /\ [Next]_vars => [News!Next]_(News!vars)
  BY NewsNext
<1> QED
  BY <1>1, NewsInit, Invariant, PTL DEF Spec, ImplementsNews, News!Spec

\* Of an order of which nothing was lost and nothing is on its way, the present state is
\* the one that updates told the core last.
NothingOutstanding ==
  \A o \in DOMAIN orders : o \notin dropped /\ InFlight(o) = {} => Heard(o) = Len(orders[o])

\* Once private_ws_handler has read all updates of an order, and none was lost, the core
\* is up to date: what it was told last is neither an older state nor one that is to come.
THEOREM CoreIsUpToDate == Spec => []NothingOutstanding
<1>1. IInv => NothingOutstanding
  <2> SUFFICES ASSUME IInv, NEW o \in DOMAIN orders, o \notin dropped, InFlight(o) = {}
               PROVE  Heard(o) = Len(orders[o])
    BY DEF NothingOutstanding
  <2>1. o \in OrderIds /\ o \in 1..Len(orders)
    BY OrderFacts
  <2>2. PICK n : n = Len(orders[o])
    OBVIOUS
  <2>3. n \in Nat \ {0}
    <3>1. orders[o] \in Seq(OrderState) /\ orders[o] # <<>>
      BY <2>1 DEF IInv, OrdersInv
    <3> QED
      BY <2>2, <3>1
  <2>4. 1..n \subseteq {told[o][i].at : i \in Via(o)} \cup {updates[i].at : i \in InFlight(o)}
    BY <2>2 DEF IInv, ReportsComplete
  <2>5. PICK i \in Via(o) : told[o][i].at = n
    BY <2>3, <2>4
  <2>6. /\ Heard(o) \in Nat
        /\ Via(o) # {} => \E k \in Via(o) : Heard(o) = told[o][k].at /\ \A j \in Via(o) : j <= k
    BY <2>1, HeardFacts
  <2>7. PICK k \in Via(o) : Heard(o) = told[o][k].at /\ \A j \in Via(o) : j <= k
    BY <2>5, <2>6
  <2>8. i \in Nat /\ k \in Nat /\ i <= k
    BY <2>1, <2>5, <2>7, Numbers
  <2>9. told[o][k].at \in 1..n
    BY <2>1, <2>2, <2>7 DEF Via, IInv, ToldInv, TrueOf
  <2>10. CASE i = k
    BY <2>2, <2>5, <2>7, <2>10
  <2>11. CASE i < k
    <3>1. told[o][i].at < told[o][k].at
      BY <2>5, <2>7, <2>11 DEF IInv, ReportsComplete, InOrder
    <3> QED
      BY <2>3, <2>5, <2>9, <3>1
  <2> QED
    BY <2>8, <2>10, <2>11
<1> QED
  BY <1>1, Invariant, PTL
=============================================================================
