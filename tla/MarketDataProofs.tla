-------------------------- MODULE MarketDataProofs --------------------------
(***************************************************************************)
(* Theorems about MarketData, for every value of its constants.            *)
(*                                                                         *)
(* The safety properties are not inductive: they speak of _markets_map and *)
(* of what the gateway has read so far, and say nothing of the messages in *)
(* flight.  BookInv adds that: each message in flight carries on where its *)
(* predecessor for the same market, or what was read last, left off, and a *)
(* market the exchange has not yet answered for has nothing in flight and  *)
(* nothing read.                                                           *)
(***************************************************************************)
EXTENDS MarketData, TLAPS

\* What a socket that is not open, or a market not yet subscribed, has not got.
QuietInv ==
  /\ subs \subseteq asked
  /\ link # "open" => asked = {}
  /\ link \in {"deaf", "null"} => chan = <<>>
  /\ \A m \in asked \ subs :
       /\ \A i \in 1..Len(chan) : chan[i].market # m
       /\ source[m] = EmptyBook
       /\ touched[m] = {}

\* Message i describes the step from its "before" to its "after"; a snapshot is
\* the first message of its market on this connection.
UpdateOK(i) ==
  chan[i].type = "update" => chan[i].after = ApplyUpdate(chan[i].before, chan[i].levels)

PartialOK(i) ==
  chan[i].type = "partial" =>
    /\ chan[i].levels = LevelsOf(chan[i].after)
    /\ source[chan[i].market] = EmptyBook
    /\ touched[chan[i].market] = {}
    /\ \A j \in 1..(i - 1) : chan[j].market # chan[i].market

MessagesInv == \A i \in 1..Len(chan) : UpdateOK(i) /\ PartialOK(i)

\* The messages of one market form a chain: the first starts at what was read
\* last, the next at the end of the one before it, and the last ends at the
\* exchange's present book.
ChainStarts ==
  \A i \in 1..Len(chan) :
    (/\ chan[i].type = "update"
     /\ \A j \in 1..(i - 1) : chan[j].market # chan[i].market)
      => chan[i].before = source[chan[i].market]

ChainLinks ==
  \A i, j \in 1..Len(chan) :
    (/\ i < j /\ chan[i].market = chan[j].market
     /\ \A k \in (i + 1)..(j - 1) : chan[k].market # chan[i].market)
      => chan[j].before = chan[i].after

ChainEnds ==
  \A i \in 1..Len(chan) :
    (/\ chan[i].market \in subs
     /\ \A j \in (i + 1)..Len(chan) : chan[j].market # chan[i].market)
      => chan[i].after = exBook[chan[i].market]

ChainDone ==
  \A m \in subs :
    (\A i \in 1..Len(chan) : chan[i].market # m) => source[m] = exBook[m]

ChainInv == ChainStarts /\ ChainLinks /\ ChainEnds /\ ChainDone

\* How far _markets_map may be from what was read: only at levels kept from an
\* earlier connection that this one has not updated.
MapInv ==
  \A m \in Markets, l \in Levels :
    \/ markets_map[m][l] = source[m][l]
    \/ restarts > 0 /\ l \notin touched[m] /\ markets_map[m][l] # 0

BookInv == TypeOK /\ QuietInv /\ MessagesInv /\ ChainInv /\ MapInv

-----------------------------------------------------------------------------
(* Lemmas about books *)

LEMMA MergeType ==
  ASSUME NEW old \in Book, NEW ch \in Changes
  PROVE  MergePartial(old, ch) \in Book /\ ApplyUpdate(old, ch) \in Book
<1>1. PICK D \in SUBSET Levels : ch \in [D -> Quantity]
  BY DEF Changes
<1>2. \A l \in Levels : l \in DOMAIN ch => ch[l] \in Quantity
  BY <1>1
<1>3. \A l \in Levels : old[l] \in Quantity
  BY DEF Book
<1>. QED BY <1>2, <1>3 DEF MergePartial, ApplyUpdate, Book

LEMMA EmptyBookType == EmptyBook \in Book
BY DEF EmptyBook, Book, Quantity

\* The levels sent of a book carry the quantities the book has.
LEMMA TopType ==
  ASSUME NEW book \in Book
  PROVE  /\ Top(book) \in Book
         /\ \A l \in Levels : Top(book)[l] \in {0, book[l]}
<1>1. \A l \in Levels : book[l] \in Quantity
  BY DEF Book
<1>2. \A l \in Levels : Top(book)[l] \in {0, book[l]}
  BY DEF Top
<1>3. Top(book) \in Book
  BY <1>1 DEF Top, Book, Quantity
<1>. QED BY <1>2, <1>3

\* What the exchange sends are changes, and the change sent for a new book takes
\* the old one there.
LEMMA PartsOfBooks ==
  ASSUME NEW old \in Book, NEW new \in Book
  PROVE  /\ LevelsOf(new) \in Changes
         /\ Diff(old, new) \in Changes
         /\ ApplyUpdate(old, Diff(old, new)) = new
<1>1. ASSUME NEW D \in SUBSET Levels PROVE [l \in D |-> new[l]] \in Changes
  <2>1. [l \in D |-> new[l]] \in [D -> Quantity]
    BY DEF Book
  <2>. QED BY <2>1 DEF Changes
<1>2. LevelsOf(new) \in Changes /\ Diff(old, new) \in Changes
  <2>1. {k \in Levels : new[k] # 0} \in SUBSET Levels
    OBVIOUS
  <2>2. {k \in Levels : new[k] # old[k]} \in SUBSET Levels
    OBVIOUS
  <2>3. LevelsOf(new) \in Changes
    BY <1>1, <2>1 DEF LevelsOf
  <2>4. Diff(old, new) \in Changes
    BY <1>1, <2>2 DEF Diff
  <2>. QED BY <2>3, <2>4
<1>3. ApplyUpdate(old, Diff(old, new)) = new
  <2>1. \A l \in Levels : ApplyUpdate(old, Diff(old, new))[l] = new[l]
    BY DEF ApplyUpdate, Diff
  <2>2. ApplyUpdate(old, Diff(old, new)) = [l \in Levels |-> ApplyUpdate(old, Diff(old, new))[l]]
    BY DEF ApplyUpdate
  <2>3. new = [l \in Levels |-> new[l]]
    BY DEF Book
  <2>. QED BY <2>1, <2>2, <2>3
<1>. QED BY <1>2, <1>3

-----------------------------------------------------------------------------
(* Type correctness *)

LEMMA TypeInit == Init => TypeOK
BY ConstantsAssumption, EmptyBookType DEF Init, TypeOK, LinkStates, Markets

LEMMA PrepareType ==
  ASSUME TypeOK, chan # <<>>,
         NEW ok \in SUBSET Markets,
         NEW mm \in [Markets -> Book], NEW kn \in SUBSET Markets,
         orderbook_prepare(mm, kn, ok)
  PROVE  /\ core' \in [Markets -> Book]
         /\ lost' \in SUBSET Markets
         /\ link' \in LinkStates
         /\ chan' \in Seq(Message)
         /\ subs' \in SUBSET Markets
         /\ asked' \in SUBSET Markets
<1>1. core' \in [Markets -> Book]
  BY TopType DEF orderbook_prepare, TypeOK
<1>2. Tail(chan) \in Seq(Message)
  BY DEF TypeOK
<1>3. CASE {m \in kn : ~Fits(mm[m])} = {}
  BY <1>1, <1>2, <1>3 DEF orderbook_prepare, TypeOK
<1>4. CASE {m \in kn : ~Fits(mm[m])} # {}
  <2>1. link' = "deaf" /\ chan' = <<>> /\ subs' = {} /\ asked' = {} /\ lost' = kn \ ok
    BY <1>4 DEF orderbook_prepare
  <2>. QED BY <1>1, <2>1 DEF LinkStates
<1>. QED BY <1>3, <1>4

LEMMA TypeStep == TypeOK /\ [Next]_vars => TypeOK'
<1> SUFFICES ASSUME TypeOK, [Next]_vars PROVE TypeOK'
  OBVIOUS
<1>1. ASSUME NEW m \in Markets, NEW after \in Book, Trade(m, after)
      PROVE  TypeOK'
  <2> DEFINE msg == [type |-> "update", market |-> m, levels |-> Diff(exBook[m], after),
                     before |-> exBook[m], after |-> after]
  <2>1. exBook[m] \in Book /\ Diff(exBook[m], after) \in Changes
    BY PartsOfBooks DEF TypeOK
  <2>2. msg \in Message
    BY <2>1 DEF Message
  <2>3. chan' \in Seq(Message)
    <3>1. chan' = IF m \in subs THEN Append(chan, msg) ELSE chan
      BY <1>1 DEF Trade
    <3>. QED BY <3>1, <2>2 DEF TypeOK
  <2>4. exBook' \in [Markets -> Book] /\ trades' \in Nat
    BY <1>1 DEF Trade, TypeOK
  <2>. QED BY <1>1, <2>3, <2>4 DEF Trade, TypeOK
<1>2. ASSUME NEW m \in Markets, Snapshot(m) PROVE TypeOK'
  <2> DEFINE msg == [type |-> "partial", market |-> m, levels |-> LevelsOf(exBook[m]),
                     before |-> exBook[m], after |-> exBook[m]]
  <2>1. exBook[m] \in Book /\ LevelsOf(exBook[m]) \in Changes
    BY PartsOfBooks DEF TypeOK
  <2>2. msg \in Message
    BY <2>1 DEF Message
  <2>3. chan' \in Seq(Message)
    <3>1. chan' = Append(chan, msg)
      BY <1>2 DEF Snapshot
    <3>. QED BY <3>1, <2>2 DEF TypeOK
  <2>. QED BY <1>2, <2>3 DEF Snapshot, TypeOK
<1>3. ASSUME NEW k \in 0..Len(chan), Break(k) PROVE TypeOK'
  <2>1. SubSeq(chan, 1, k) \in Seq(Message)
    BY <1>3, ConstantsAssumption DEF TypeOK
  <2>. QED BY <1>3, <2>1 DEF Break, TypeOK, LinkStates
<1>4. ASSUME NEW ok \in SUBSET Markets, public_ws_handler_partial(ok) PROVE TypeOK'
  <2> DEFINE msg == Head(chan)
  <2>1. chan # <<>> /\ msg \in Message
    BY <1>4 DEF public_ws_handler_partial, TypeOK
  <2>2. msg.market \in Markets /\ msg.levels \in Changes /\ msg.after \in Book
    BY <2>1 DEF Message
  <2>3. MergePartial(markets_map[msg.market], msg.levels) \in Book
    BY <2>2, MergeType DEF TypeOK
  <2>4. markets_map' \in [Markets -> Book] /\ known' \in SUBSET Markets
        /\ source' \in [Markets -> Book]
    BY <1>4, <2>2, <2>3 DEF public_ws_handler_partial, TypeOK
  <2>5. orderbook_prepare(markets_map', known', ok)
    BY <1>4 DEF public_ws_handler_partial
  <2>. QED BY <1>4, <2>1, <2>4, <2>5, PrepareType DEF public_ws_handler_partial, TypeOK
<1>5. ASSUME NEW ok \in SUBSET Markets, public_ws_handler_update(ok) PROVE TypeOK'
  <2> DEFINE msg == Head(chan)
  <2>1. chan # <<>> /\ msg \in Message
    BY <1>5 DEF public_ws_handler_update, TypeOK
  <2>2. msg.market \in Markets /\ msg.levels \in Changes /\ msg.after \in Book
    BY <2>1 DEF Message
  <2>3. ApplyUpdate(markets_map[msg.market], msg.levels) \in Book
    BY <2>2, MergeType DEF TypeOK
  <2>4. markets_map' \in [Markets -> Book] /\ known' \in SUBSET Markets
        /\ source' \in [Markets -> Book]
    BY <1>5, <2>2, <2>3 DEF public_ws_handler_update, TypeOK
  <2>5. touched' \in [Markets -> SUBSET Levels]
    <3>1. DOMAIN msg.levels \in SUBSET Levels
      BY <2>2 DEF Changes
    <3>. QED BY <1>5, <2>2, <3>1 DEF public_ws_handler_update, TypeOK
  <2>6. orderbook_prepare(markets_map', known', ok)
    BY <1>5 DEF public_ws_handler_update
  <2>. QED BY <1>5, <2>1, <2>4, <2>5, <2>6, PrepareType DEF public_ws_handler_update, TypeOK
<1>6. CASE restart_public_ws
  <2>1. \A n \in 0..NumMarkets : 1..n \subseteq Markets
    BY ConstantsAssumption DEF Markets
  <2>. QED BY <1>6, <2>1, EmptyBookType DEF restart_public_ws, TypeOK, LinkStates
<1>7. CASE UNCHANGED vars
  BY <1>7 DEF vars, TypeOK
<1>. QED BY <1>1, <1>2, <1>3, <1>4, <1>5, <1>6, <1>7 DEF Next

\* Every variable keeps its type: in particular no merge, trade or truncation of
\* the socket puts anything but a whole book into _markets_map or into the core.
THEOREM TypeCorrect == Spec => []TypeOK
BY TypeInit, TypeStep, PTL DEF Spec

-----------------------------------------------------------------------------
(* The book invariant *)

LEMMA BookInit == Init => BookInv
<1> SUFFICES ASSUME Init PROVE BookInv
  OBVIOUS
<1>1. QuietInv /\ MessagesInv
  BY DEF Init, QuietInv, MessagesInv
<1>2. ChainInv
  BY DEF Init, ChainInv, ChainStarts, ChainLinks, ChainEnds, ChainDone
<1>3. MapInv
  BY DEF Init, MapInv
<1>. QED BY <1>1, <1>2, <1>3, TypeInit DEF BookInv

\* One more message of market m, which starts where the exchange's book stood.
LEMMA AppendStep ==
  ASSUME BookInv, NEW m \in Markets, NEW msg \in Message, msg.market = m,
         chan' = Append(chan, msg), m \in asked,
         subs' = subs \cup {m},
         UNCHANGED <<asked, link, source, touched>>,
         msg.before = exBook[m],
         exBook' = [exBook EXCEPT ![m] = msg.after],
         msg.type = "update" => /\ m \in subs
                                /\ msg.after = ApplyUpdate(msg.before, msg.levels),
         msg.type = "partial" =>
           /\ m \notin subs
           /\ msg.levels = LevelsOf(msg.after)
  PROVE  QuietInv' /\ MessagesInv' /\ ChainInv'
<1> DEFINE n == Len(chan)
<1>1. n \in Nat /\ Len(chan') = n + 1 /\ chan'[n + 1] = msg
  BY DEF BookInv, TypeOK
<1>2. \A i \in 1..n : chan'[i] = chan[i] /\ chan[i] \in Message
  BY DEF BookInv, TypeOK
<1>3. exBook'[m] = msg.after /\ \A o \in Markets : o # m => exBook'[o] = exBook[o]
  BY DEF BookInv, TypeOK
<1>4. \A i \in 1..(n + 1) : i \in 1..n \/ i = n + 1
  BY <1>1
<1>5. m \notin subs => /\ \A i \in 1..n : chan[i].market # m
                      /\ source[m] = EmptyBook /\ touched[m] = {}
  BY DEF BookInv, QuietInv
<1> HIDE DEF n
<1>6. QuietInv'
  BY <1>1, <1>2, <1>4 DEF BookInv, QuietInv, n
<1>7. MessagesInv'
  <2> SUFFICES ASSUME NEW i \in 1..(n + 1) PROVE UpdateOK(i)' /\ PartialOK(i)'
    BY <1>1 DEF MessagesInv
  <2>1. CASE i \in 1..n
    <3>1. UpdateOK(i) /\ PartialOK(i)
      BY <2>1 DEF BookInv, MessagesInv, n
    <3>2. chan'[i] = chan[i] /\ \A j \in 1..(i - 1) : chan'[j] = chan[j]
      BY <2>1, <1>1, <1>2
    <3>. QED BY <3>1, <3>2 DEF UpdateOK, PartialOK
  <2>2. CASE i = n + 1
    <3>1. chan'[i] = msg /\ \A j \in 1..(i - 1) : chan'[j] = chan[j] /\ j \in 1..n
      BY <2>2, <1>1, <1>2
    <3>2. UpdateOK(i)'
      BY <3>1 DEF UpdateOK
    <3>3. PartialOK(i)'
      BY <3>1, <1>5 DEF PartialOK
    <3>. QED BY <3>2, <3>3
  <2>. QED BY <2>1, <2>2, <1>4
<1>8. ChainStarts'
  <2> SUFFICES ASSUME NEW i \in 1..(n + 1), chan'[i].type = "update",
                      \A j \in 1..(i - 1) : chan'[j].market # chan'[i].market
               PROVE  chan'[i].before = source[chan'[i].market]
    BY <1>1 DEF ChainStarts
  <2>1. CASE i \in 1..n
    <3>1. chan'[i] = chan[i] /\ \A j \in 1..(i - 1) : chan'[j] = chan[j]
      BY <2>1, <1>1, <1>2
    <3>. QED BY <2>1, <3>1 DEF BookInv, ChainInv, ChainStarts, n
  <2>2. CASE i = n + 1
    <3>1. \A j \in 1..n : chan[j].market # m
      BY <2>2, <1>1, <1>2
    <3>2. m \in subs
      BY <2>2, <1>1
    <3>3. source[m] = exBook[m]
      BY <3>1, <3>2 DEF BookInv, ChainInv, ChainDone, n
    <3>. QED BY <2>2, <3>3, <1>1
  <2>. QED BY <2>1, <2>2, <1>4
<1>9. ChainLinks'
  <2> SUFFICES ASSUME NEW i \in 1..(n + 1), NEW j \in 1..(n + 1), i < j,
                      chan'[i].market = chan'[j].market,
                      \A k \in (i + 1)..(j - 1) : chan'[k].market # chan'[i].market
               PROVE  chan'[j].before = chan'[i].after
    BY <1>1 DEF ChainLinks
  <2>1. i \in 1..n /\ chan'[i] = chan[i]
    BY <1>1, <1>2, <1>4
  <2>2. CASE j \in 1..n
    <3>1. chan'[j] = chan[j] /\ \A k \in (i + 1)..(j - 1) : chan'[k] = chan[k]
      BY <2>1, <2>2, <1>1, <1>2
    <3>. QED BY <2>1, <2>2, <3>1 DEF BookInv, ChainInv, ChainLinks, n
  <2>3. CASE j = n + 1
    <3>1. chan[i].market = m /\ chan'[j] = msg
      BY <2>1, <2>3, <1>1
    <3>2. \A k \in (i + 1)..n : chan[k].market # chan[i].market
      BY <2>1, <2>3, <1>1, <1>2
    <3>3. m \in subs
      BY <2>1, <3>1, <1>5
    <3>4. chan[i].after = exBook[m]
      BY <2>1, <3>1, <3>2, <3>3 DEF BookInv, ChainInv, ChainEnds, n
    <3>. QED BY <2>1, <3>1, <3>4
  <2>. QED BY <2>2, <2>3, <1>4
<1>10. ChainEnds'
  <2> SUFFICES ASSUME NEW i \in 1..(n + 1), chan'[i].market \in subs',
                      \A j \in (i + 1)..(n + 1) : chan'[j].market # chan'[i].market
               PROVE  chan'[i].after = exBook'[chan'[i].market]
    BY <1>1 DEF ChainEnds
  <2>1. CASE i \in 1..n
    <3>1. chan'[i] = chan[i] /\ \A j \in (i + 1)..n : chan'[j] = chan[j]
      BY <2>1, <1>1, <1>2
    <3>2. chan[i].market # m /\ chan[i].market \in Markets
      BY <2>1, <3>1, <1>1, <1>2 DEF Message
    <3>3. \A j \in (i + 1)..n : chan[j].market # chan[i].market
      BY <2>1, <3>1, <1>1
    <3>4. chan[i].after = exBook[chan[i].market]
      BY <2>1, <3>1, <3>2, <3>3 DEF BookInv, ChainInv, ChainEnds, n
    <3>. QED BY <3>1, <3>2, <3>4, <1>3
  <2>2. CASE i = n + 1
    BY <2>2, <1>1, <1>3
  <2>. QED BY <2>1, <2>2, <1>4
<1>11. ChainDone'
  <2> SUFFICES ASSUME NEW o \in subs', \A i \in 1..(n + 1) : chan'[i].market # o
               PROVE  source[o] = exBook'[o]
    BY <1>1 DEF ChainDone
  <2>1. o # m /\ o \in subs /\ o \in Markets
    BY <1>1 DEF BookInv, TypeOK
  <2>2. \A i \in 1..n : chan[i].market # o
    BY <1>1, <1>2
  <2>. QED BY <2>1, <2>2, <1>3 DEF BookInv, ChainInv, ChainDone, n
<1>. QED BY <1>6, <1>7, <1>8, <1>9, <1>10, <1>11 DEF ChainInv

\* A socket with nothing in flight and no subscription yet, as after a restart, a
\* failed one, or a throw out of the handler.
LEMMA EmptyStep ==
  ASSUME chan' = <<>>, subs' = {},
         link' # "open" => asked' = {},
         \A m \in asked' : source'[m] = EmptyBook /\ touched'[m] = {}
  PROVE  QuietInv' /\ MessagesInv' /\ ChainInv'
<1>1. Len(chan') = 0
  OBVIOUS
<1>2. QuietInv'
  BY <1>1 DEF QuietInv
<1>3. MessagesInv'
  BY <1>1 DEF MessagesInv
<1>4. ChainInv'
  BY <1>1 DEF ChainInv, ChainStarts, ChainLinks, ChainEnds, ChainDone
<1>. QED BY <1>2, <1>3, <1>4

\* A break keeps a first part of the messages.
LEMMA BreakStep ==
  ASSUME BookInv, NEW k \in 0..Len(chan), Break(k)
  PROVE  QuietInv' /\ MessagesInv' /\ ChainInv'
<1>1. chan' = SubSeq(chan, 1, k) /\ subs' = {} /\ asked' = {} /\ link' = "broken"
  BY DEF Break
<1>2. k \in Nat /\ Len(chan) \in Nat /\ chan \in Seq(Message)
  BY ConstantsAssumption DEF BookInv, TypeOK
<1>3. Len(chan') = k /\ \A i \in 1..k : chan'[i] = chan[i] /\ i \in 1..Len(chan)
  BY <1>1, <1>2
<1>4. source' = source /\ touched' = touched
  BY DEF Break
<1>5. QuietInv'
  BY <1>1 DEF QuietInv
<1>6. MessagesInv'
  <2> SUFFICES ASSUME NEW i \in 1..k PROVE UpdateOK(i)' /\ PartialOK(i)'
    BY <1>3 DEF MessagesInv
  <2>1. UpdateOK(i) /\ PartialOK(i)
    BY <1>3 DEF BookInv, MessagesInv
  <2>2. chan'[i] = chan[i] /\ \A j \in 1..(i - 1) : chan'[j] = chan[j]
    BY <1>2, <1>3
  <2>. QED BY <2>1, <2>2, <1>4 DEF UpdateOK, PartialOK
<1>7. ChainStarts'
  <2> SUFFICES ASSUME NEW i \in 1..k, chan'[i].type = "update",
                      \A j \in 1..(i - 1) : chan'[j].market # chan'[i].market
               PROVE  chan'[i].before = source[chan'[i].market]
    BY <1>3, <1>4 DEF ChainStarts
  <2>1. chan'[i] = chan[i] /\ \A j \in 1..(i - 1) : chan'[j] = chan[j]
    BY <1>2, <1>3
  <2>. QED BY <2>1, <1>3 DEF BookInv, ChainInv, ChainStarts
<1>8. ChainLinks'
  <2> SUFFICES ASSUME NEW i \in 1..k, NEW j \in 1..k, i < j,
                      chan'[i].market = chan'[j].market,
                      \A h \in (i + 1)..(j - 1) : chan'[h].market # chan'[i].market
               PROVE  chan'[j].before = chan'[i].after
    BY <1>3 DEF ChainLinks
  <2>1. /\ chan'[i] = chan[i] /\ chan'[j] = chan[j]
        /\ \A h \in (i + 1)..(j - 1) : chan'[h] = chan[h]
    BY <1>2, <1>3
  <2>. QED BY <2>1, <1>3 DEF BookInv, ChainInv, ChainLinks
<1>9. ChainEnds' /\ ChainDone'
  BY <1>1 DEF ChainEnds, ChainDone
<1>. QED BY <1>5, <1>6, <1>7, <1>8, <1>9 DEF ChainInv

\* The gateway reads the oldest message and keeps the socket.
LEMMA ReadStep ==
  ASSUME BookInv, chan # <<>>, chan' = Tail(chan),
         UNCHANGED <<link, subs, asked, exBook>>,
         source' = [source EXCEPT ![Head(chan).market] = Head(chan).after],
         \A m \in Markets : m # Head(chan).market => touched'[m] = touched[m]
  PROVE  QuietInv' /\ MessagesInv' /\ ChainInv'
<1> DEFINE n == Len(chan)
           m == chan[1].market
<1>1. n \in Nat \ {0} /\ Head(chan) = chan[1] /\ Len(chan') = n - 1
  <2>1. chan \in Seq(Message)
    BY DEF BookInv, TypeOK
  <2>2. n \in Nat /\ n # 0 /\ Head(chan) = chan[1]
    BY <2>1
  <2>3. Len(Tail(chan)) = n - 1
    BY <2>1, <2>2
  <2>. QED BY <2>2, <2>3
<1>2. \A i \in 1..n : chan[i] \in Message /\ chan[i].market \in Markets
  <2>1. chan \in Seq(Message)
    BY DEF BookInv, TypeOK
  <2>2. \A i \in 1..n : chan[i] \in Message
    BY <2>1
  <2>. QED BY <2>2 DEF Message
<1>3. \A i \in 1..(n - 1) : chan'[i] = chan[i + 1] /\ i + 1 \in 1..n
  BY <1>1 DEF BookInv, TypeOK
<1>4. m \in Markets /\ source'[m] = chan[1].after
      /\ \A o \in Markets : o # m => source'[o] = source[o] /\ touched'[o] = touched[o]
  BY <1>1, <1>2 DEF BookInv, TypeOK
<1>5. m \notin asked \ subs
  BY <1>1 DEF BookInv, QuietInv
<1> HIDE DEF n
<1>6. QuietInv'
  <2> SUFFICES ASSUME NEW o \in asked \ subs
               PROVE  /\ \A i \in 1..(n - 1) : chan'[i].market # o
                      /\ source'[o] = EmptyBook /\ touched'[o] = {}
    BY <1>1 DEF BookInv, QuietInv
  <2>1. o # m /\ o \in Markets
    BY <1>5 DEF BookInv, TypeOK
  <2>2. \A i \in 1..n : chan[i].market # o
    BY DEF BookInv, QuietInv, n
  <2>3. source[o] = EmptyBook /\ touched[o] = {}
    BY DEF BookInv, QuietInv
  <2>. QED BY <2>1, <2>2, <2>3, <1>3, <1>4
<1>7. MessagesInv'
  <2> SUFFICES ASSUME NEW i \in 1..(n - 1) PROVE UpdateOK(i)' /\ PartialOK(i)'
    BY <1>1 DEF MessagesInv
  <2>1. UpdateOK(i + 1) /\ PartialOK(i + 1)
    BY <1>3 DEF BookInv, MessagesInv, n
  <2>2. UpdateOK(i)'
    BY <2>1, <1>3 DEF UpdateOK
  <2>3. PartialOK(i)'
    <3> SUFFICES ASSUME chan'[i].type = "partial"
                 PROVE  /\ chan'[i].levels = LevelsOf(chan'[i].after)
                        /\ source'[chan'[i].market] = EmptyBook
                        /\ touched'[chan'[i].market] = {}
                        /\ \A j \in 1..(i - 1) : chan'[j].market # chan'[i].market
      BY DEF PartialOK
    <3>1. /\ chan[i + 1].levels = LevelsOf(chan[i + 1].after)
          /\ source[chan[i + 1].market] = EmptyBook
          /\ touched[chan[i + 1].market] = {}
          /\ \A j \in 1..((i + 1) - 1) : chan[j].market # chan[i + 1].market
      BY <2>1, <1>3 DEF PartialOK
    <3>2. chan[i + 1].market # m /\ chan[i + 1].market \in Markets
      BY <3>1, <1>1, <1>2, <1>3
    <3>3. \A j \in 1..(i - 1) : chan'[j] = chan[j + 1] /\ j + 1 \in 1..((i + 1) - 1)
      BY <1>1, <1>3
    <3>4. chan'[i] = chan[i + 1]
      BY <1>3
    <3>5. \A j \in 1..(i - 1) : chan'[j].market # chan'[i].market
      BY <3>1, <3>3, <3>4
    <3>6. source'[chan'[i].market] = EmptyBook /\ touched'[chan'[i].market] = {}
      BY <3>1, <3>2, <3>4, <1>4
    <3>. QED BY <3>1, <3>4, <3>5, <3>6
  <2>. QED BY <2>2, <2>3
<1>8. ChainStarts'
  <2> SUFFICES ASSUME NEW i \in 1..(n - 1), chan'[i].type = "update",
                      \A j \in 1..(i - 1) : chan'[j].market # chan'[i].market
               PROVE  chan'[i].before = source'[chan'[i].market]
    BY <1>1 DEF ChainStarts
  <2>1. chan'[i] = chan[i + 1] /\ i + 1 \in 2..n
    BY <1>1, <1>3
  <2>2. \A j \in 2..i : chan[j].market # chan[i + 1].market
    <3> SUFFICES ASSUME NEW j \in 2..i PROVE chan[j].market # chan[i + 1].market
      OBVIOUS
    <3>1. j - 1 \in 1..(i - 1) /\ j - 1 \in 1..(n - 1) /\ (j - 1) + 1 = j
      BY <1>1
    <3>2. chan'[j - 1] = chan[j]
      BY <3>1, <1>3
    <3>. QED BY <3>1, <3>2, <2>1
  <2>3. CASE chan[i + 1].market = m
    <3>1. chan[i + 1].before = chan[1].after
      BY <2>1, <2>2, <2>3, <1>1 DEF BookInv, ChainInv, ChainLinks, n
    <3>. QED BY <3>1, <2>1, <2>3, <1>4
  <2>4. CASE chan[i + 1].market # m
    <3>1. \A j \in 1..i : chan[j].market # chan[i + 1].market
      BY <2>2, <2>4, <1>1
    <3>2. chan[i + 1].before = source[chan[i + 1].market]
      BY <3>1, <2>1 DEF BookInv, ChainInv, ChainStarts, n
    <3>3. chan[i + 1].market \in Markets
      BY <2>1, <1>1, <1>2
    <3>. QED BY <3>2, <3>3, <2>1, <2>4, <1>4
  <2>. QED BY <2>3, <2>4
<1>9. ChainLinks'
  <2> SUFFICES ASSUME NEW i \in 1..(n - 1), NEW j \in 1..(n - 1), i < j,
                      chan'[i].market = chan'[j].market,
                      \A k \in (i + 1)..(j - 1) : chan'[k].market # chan'[i].market
               PROVE  chan'[j].before = chan'[i].after
    BY <1>1 DEF ChainLinks
  <2>1. /\ chan'[i] = chan[i + 1] /\ chan'[j] = chan[j + 1]
        /\ i + 1 \in 1..n /\ j + 1 \in 1..n /\ i + 1 < j + 1
    BY <1>1, <1>3
  <2>2. ASSUME NEW k \in (i + 2)..j PROVE chan[k].market # chan[i + 1].market
    <3>1. k - 1 \in (i + 1)..(j - 1) /\ k - 1 \in 1..(n - 1) /\ (k - 1) + 1 = k
      BY <1>1
    <3>2. chan'[k - 1] = chan[k]
      BY <3>1, <1>3
    <3>. QED BY <3>1, <3>2, <2>1
  <2>3. \A k \in ((i + 1) + 1)..((j + 1) - 1) : chan[k].market # chan[i + 1].market
    BY <2>2
  <2>. QED BY <2>1, <2>3 DEF BookInv, ChainInv, ChainLinks, n
<1>10. ChainEnds'
  <2> SUFFICES ASSUME NEW i \in 1..(n - 1), chan'[i].market \in subs,
                      \A j \in (i + 1)..(n - 1) : chan'[j].market # chan'[i].market
               PROVE  chan'[i].after = exBook[chan'[i].market]
    BY <1>1 DEF ChainEnds
  <2>1. chan'[i] = chan[i + 1] /\ i + 1 \in 1..n
    BY <1>3
  <2>2. ASSUME NEW j \in (i + 2)..n PROVE chan[j].market # chan[i + 1].market
    <3>1. j - 1 \in (i + 1)..(n - 1) /\ j - 1 \in 1..(n - 1) /\ (j - 1) + 1 = j
      BY <1>1
    <3>2. chan'[j - 1] = chan[j]
      BY <3>1, <1>3
    <3>. QED BY <3>1, <3>2, <2>1
  <2>3. \A j \in ((i + 1) + 1)..n : chan[j].market # chan[i + 1].market
    BY <2>2
  <2>. QED BY <2>1, <2>3 DEF BookInv, ChainInv, ChainEnds, n
<1>11. ChainDone'
  <2> SUFFICES ASSUME NEW o \in subs, \A i \in 1..(n - 1) : chan'[i].market # o
               PROVE  source'[o] = exBook[o]
    BY <1>1 DEF ChainDone
  <2>1. \A j \in 2..n : chan[j].market # o
    <3> SUFFICES ASSUME NEW j \in 2..n PROVE chan[j].market # o
      OBVIOUS
    <3>1. j - 1 \in 1..(n - 1) /\ (j - 1) + 1 = j
      BY <1>1
    <3>. QED BY <3>1, <1>3
  <2>2. o \in Markets
    BY DEF BookInv, TypeOK
  <2>3. CASE o = m
    <3>1. \A j \in (1 + 1)..n : chan[j].market # chan[1].market
      BY <2>1, <2>3
    <3>2. chan[1].after = exBook[m]
      BY <2>3, <3>1, <1>1 DEF BookInv, ChainInv, ChainEnds, n
    <3>. QED BY <3>2, <2>3, <1>4
  <2>4. CASE o # m
    <3>1. \A j \in 1..n : chan[j].market # o
      BY <2>1, <2>4, <1>1
    <3>2. source[o] = exBook[o]
      BY <3>1 DEF BookInv, ChainInv, ChainDone, n
    <3>. QED BY <3>2, <2>2, <2>4, <1>4
  <2>. QED BY <2>3, <2>4
<1>. QED BY <1>6, <1>7, <1>8, <1>9, <1>10, <1>11 DEF ChainInv

\* What reading the oldest message leaves of the socket, whether or not the
\* publication throws.
LEMMA PrepareStep ==
  ASSUME BookInv, chan # <<>>,
         NEW mm, NEW kn, NEW ok, orderbook_prepare(mm, kn, ok),
         UNCHANGED exBook,
         source' = [source EXCEPT ![Head(chan).market] = Head(chan).after],
         \A m \in Markets : m # Head(chan).market => touched'[m] = touched[m]
  PROVE  QuietInv' /\ MessagesInv' /\ ChainInv'
<1> DEFINE overlong == {m \in kn : ~Fits(mm[m])}
<1>1. CASE overlong = {}
  <2>1. chan' = Tail(chan) /\ UNCHANGED <<link, subs, asked>>
    BY <1>1 DEF orderbook_prepare
  <2>. QED BY <2>1, ReadStep
<1>2. CASE overlong # {}
  <2>1. chan' = <<>> /\ subs' = {} /\ asked' = {}
    BY <1>2 DEF orderbook_prepare
  <2>. QED BY <2>1, EmptyStep
<1>. QED BY <1>1, <1>2

LEMMA BookStep == BookInv /\ [Next]_vars => BookInv'
<1> SUFFICES ASSUME BookInv, [Next]_vars PROVE BookInv'
  OBVIOUS
<1>0. TypeOK /\ TypeOK'
  BY TypeStep DEF BookInv
<1>1. ASSUME NEW m \in Markets, NEW after \in Book, Trade(m, after)
      PROVE  BookInv'
  <2> DEFINE msg == [type |-> "update", market |-> m, levels |-> Diff(exBook[m], after),
                     before |-> exBook[m], after |-> after]
  <2>1. exBook[m] \in Book /\ Diff(exBook[m], after) \in Changes
        /\ ApplyUpdate(exBook[m], Diff(exBook[m], after)) = after
    BY <1>0, PartsOfBooks DEF TypeOK
  <2>2. MapInv'
    BY <1>1 DEF Trade, BookInv, MapInv
  <2>3. CASE m \in subs
    <3>1. msg \in Message
      BY <2>1 DEF Message
    <3>2. chan' = Append(chan, msg) /\ m \in asked /\ subs' = subs \cup {m}
          /\ UNCHANGED <<asked, link, source, touched>>
      BY <1>1, <2>3 DEF Trade, BookInv, QuietInv
    <3>3. exBook' = [exBook EXCEPT ![m] = msg.after]
      BY <1>1 DEF Trade
    <3>4. msg.market = m /\ msg.before = exBook[m] /\ msg.type = "update"
          /\ msg.after = ApplyUpdate(msg.before, msg.levels)
      BY <2>1
    <3> HIDE DEF msg
    <3>5. QuietInv' /\ MessagesInv' /\ ChainInv'
      BY <2>3, <3>1, <3>2, <3>3, <3>4, AppendStep
    <3>. QED BY <1>0, <2>2, <3>5 DEF BookInv
  <2>4. CASE m \notin subs
    <3>1. UNCHANGED <<chan, subs, asked, link, source, touched>>
          /\ \A o \in subs : exBook'[o] = exBook[o]
      BY <1>0, <1>1, <2>4 DEF Trade, TypeOK
    <3>2. QuietInv'
      BY <3>1 DEF BookInv, QuietInv
    <3>3. MessagesInv'
      BY <3>1 DEF BookInv, MessagesInv, UpdateOK, PartialOK
    <3>4. ChainInv'
      BY <3>1 DEF BookInv, ChainInv, ChainStarts, ChainLinks, ChainEnds, ChainDone
    <3>. QED BY <1>0, <2>2, <3>2, <3>3, <3>4 DEF BookInv
  <2>. QED BY <2>3, <2>4
<1>2. ASSUME NEW m \in Markets, Snapshot(m) PROVE BookInv'
  <2> DEFINE msg == [type |-> "partial", market |-> m, levels |-> LevelsOf(exBook[m]),
                     before |-> exBook[m], after |-> exBook[m]]
  <2>1. exBook[m] \in Book /\ LevelsOf(exBook[m]) \in Changes
    BY <1>0, PartsOfBooks DEF TypeOK
  <2>2. msg \in Message
    BY <2>1 DEF Message
  <2>3. chan' = Append(chan, msg) /\ m \in asked /\ m \notin subs /\ subs' = subs \cup {m}
        /\ UNCHANGED <<asked, link, source, touched>>
    BY <1>2 DEF Snapshot
  <2>4. exBook' = [exBook EXCEPT ![m] = msg.after]
    BY <1>0, <1>2 DEF Snapshot, TypeOK
  <2>5. msg.market = m /\ msg.before = exBook[m] /\ msg.type = "partial"
        /\ msg.levels = LevelsOf(msg.after)
    OBVIOUS
  <2> HIDE DEF msg
  <2>6. QuietInv' /\ MessagesInv' /\ ChainInv'
    BY <2>2, <2>3, <2>4, <2>5, AppendStep
  <2>7. MapInv'
    BY <1>2 DEF Snapshot, BookInv, MapInv
  <2>. QED BY <1>0, <2>6, <2>7 DEF BookInv
<1>3. ASSUME NEW k \in 0..Len(chan), Break(k) PROVE BookInv'
  <2>1. MapInv'
    BY <1>3 DEF Break, BookInv, MapInv
  <2>. QED BY <1>0, <1>3, <2>1, BreakStep DEF BookInv
<1>4. ASSUME NEW ok \in SUBSET Markets, public_ws_handler_partial(ok) PROVE BookInv'
  <2> DEFINE msg == Head(chan)
             m   == msg.market
  <2>1. chan # <<>> /\ 1 \in 1..Len(chan) /\ msg = chan[1] /\ msg \in Message
    BY <1>0, <1>4 DEF public_ws_handler_partial, TypeOK
  <2>2. m \in Markets /\ msg.after \in Book
    BY <2>1 DEF Message
  <2>3. /\ msg.type = "partial"
        /\ markets_map' = [markets_map EXCEPT ![m] = MergePartial(@, msg.levels)]
        /\ source' = [source EXCEPT ![m] = msg.after]
        /\ orderbook_prepare(markets_map', known', ok)
        /\ UNCHANGED <<exBook, touched, restarts>>
    BY <1>4 DEF public_ws_handler_partial
  <2>4. msg.levels = LevelsOf(msg.after) /\ source[m] = EmptyBook /\ touched[m] = {}
    BY <2>1, <2>3 DEF BookInv, MessagesInv, PartialOK
  <2>5. MapInv'
    <3> SUFFICES ASSUME NEW o \in Markets, NEW l \in Levels
                 PROVE  \/ markets_map'[o][l] = source'[o][l]
                        \/ restarts > 0 /\ l \notin touched[o] /\ markets_map'[o][l] # 0
      BY <2>3 DEF MapInv
    <3>1. \/ markets_map[o][l] = source[o][l]
          \/ restarts > 0 /\ l \notin touched[o] /\ markets_map[o][l] # 0
      BY DEF BookInv, MapInv
    <3>2. CASE o # m
      <4>1. markets_map'[o] = markets_map[o] /\ source'[o] = source[o]
        BY <1>0, <2>2, <2>3, <3>2 DEF TypeOK
      <4>. QED BY <3>1, <4>1
    <3>3. CASE o = m
      <4>1. source'[m] = msg.after
            /\ markets_map'[m] = MergePartial(markets_map[m], msg.levels)
        BY <1>0, <2>2, <2>3 DEF TypeOK
      <4>2. source[m][l] = 0
        BY <2>4 DEF EmptyBook
      <4>3. MergePartial(markets_map[m], msg.levels)[l] =
              IF markets_map[m][l] # 0 THEN markets_map[m][l] ELSE msg.after[l]
        <5>1. l \in DOMAIN msg.levels <=> msg.after[l] # 0
          BY <2>4 DEF LevelsOf
        <5>2. l \in DOMAIN msg.levels => msg.levels[l] = msg.after[l]
          BY <2>4 DEF LevelsOf
        <5>. QED BY <5>1, <5>2 DEF MergePartial
      <4>. QED BY <2>4, <3>1, <3>3, <4>1, <4>2, <4>3
    <3>. QED BY <3>2, <3>3
  <2>6. QuietInv' /\ MessagesInv' /\ ChainInv'
    BY <2>1, <2>3, PrepareStep
  <2>. QED BY <1>0, <2>5, <2>6 DEF BookInv
<1>5. ASSUME NEW ok \in SUBSET Markets, public_ws_handler_update(ok) PROVE BookInv'
  <2> DEFINE msg == Head(chan)
             m   == msg.market
  <2>1. chan # <<>> /\ 1 \in 1..Len(chan) /\ msg = chan[1] /\ msg \in Message
    BY <1>0, <1>5 DEF public_ws_handler_update, TypeOK
  <2>2. m \in Markets /\ msg.after \in Book
    BY <2>1 DEF Message
  <2>3. /\ msg.type = "update"
        /\ markets_map' = [markets_map EXCEPT ![m] = ApplyUpdate(@, msg.levels)]
        /\ source' = [source EXCEPT ![m] = msg.after]
        /\ touched' = [touched EXCEPT ![m] = @ \cup DOMAIN msg.levels]
        /\ orderbook_prepare(markets_map', known', ok)
        /\ UNCHANGED <<exBook, restarts>>
    BY <1>5 DEF public_ws_handler_update
  <2>4. msg.after = ApplyUpdate(source[m], msg.levels)
    <3>1. msg.after = ApplyUpdate(msg.before, msg.levels)
      BY <2>1, <2>3 DEF BookInv, MessagesInv, UpdateOK
    <3>2. msg.before = source[m]
      BY <2>1, <2>3 DEF BookInv, ChainInv, ChainStarts
    <3>. QED BY <3>1, <3>2
  <2>5. MapInv'
    <3> SUFFICES ASSUME NEW o \in Markets, NEW l \in Levels
                 PROVE  \/ markets_map'[o][l] = source'[o][l]
                        \/ restarts > 0 /\ l \notin touched'[o] /\ markets_map'[o][l] # 0
      BY <2>3 DEF MapInv
    <3>1. \/ markets_map[o][l] = source[o][l]
          \/ restarts > 0 /\ l \notin touched[o] /\ markets_map[o][l] # 0
      BY DEF BookInv, MapInv
    <3>2. CASE o # m
      <4>1. /\ markets_map'[o] = markets_map[o] /\ source'[o] = source[o]
            /\ touched'[o] = touched[o]
        BY <1>0, <2>2, <2>3, <3>2 DEF TypeOK
      <4>. QED BY <3>1, <4>1
    <3>3. CASE o = m
      <4>1. /\ source'[m] = ApplyUpdate(source[m], msg.levels)
            /\ markets_map'[m] = ApplyUpdate(markets_map[m], msg.levels)
            /\ touched'[m] = touched[m] \cup DOMAIN msg.levels
        BY <1>0, <2>2, <2>3, <2>4 DEF TypeOK
      <4>2. CASE l \in DOMAIN msg.levels
        BY <3>3, <4>1, <4>2 DEF ApplyUpdate
      <4>3. CASE l \notin DOMAIN msg.levels
        BY <3>1, <3>3, <4>1, <4>3 DEF ApplyUpdate
      <4>. QED BY <4>2, <4>3
    <3>. QED BY <3>2, <3>3
  <2>6. \A o \in Markets : o # m => touched'[o] = touched[o]
    BY <1>0, <2>3 DEF TypeOK
  <2>7. QuietInv' /\ MessagesInv' /\ ChainInv'
    BY <2>1, <2>3, <2>6, PrepareStep
  <2>. QED BY <1>0, <2>5, <2>7 DEF BookInv
<1>6. CASE restart_public_ws
  <2>1. /\ chan' = <<>> /\ subs' = {}
        /\ link' # "open" => asked' = {}
        /\ source' = [m \in Markets |-> EmptyBook]
        /\ touched' = [m \in Markets |-> {}]
        /\ restarts' = restarts + 1 /\ markets_map' = markets_map
    <3>1. subs = {}
      BY <1>6 DEF restart_public_ws, BookInv, QuietInv
    <3>. QED BY <1>6, <3>1 DEF restart_public_ws
  <2>2. asked' \subseteq Markets
    BY <1>0 DEF TypeOK
  <2>3. QuietInv' /\ MessagesInv' /\ ChainInv'
    BY <2>1, <2>2, EmptyStep
  <2>4. MapInv'
    <3>1. restarts' > 0
      BY <1>0, <2>1 DEF TypeOK
    <3>2. \A m \in Markets, l \in Levels : source'[m][l] = 0 /\ l \notin touched'[m]
      BY <2>1 DEF EmptyBook
    <3>. QED BY <2>1, <3>1, <3>2 DEF MapInv
  <2>. QED BY <1>0, <2>3, <2>4 DEF BookInv
<1>7. CASE UNCHANGED vars
  <2>1. QuietInv' /\ MapInv'
    BY <1>7 DEF vars, BookInv, QuietInv, MapInv
  <2>2. MessagesInv'
    BY <1>7 DEF vars, BookInv, MessagesInv, UpdateOK, PartialOK
  <2>3. ChainInv'
    BY <1>7 DEF vars, BookInv, ChainInv, ChainStarts, ChainLinks, ChainEnds, ChainDone
  <2>. QED BY <1>0, <2>1, <2>2, <2>3 DEF BookInv
<1>. QED BY <1>1, <1>2, <1>3, <1>4, <1>5, <1>6, <1>7 DEF Next

LEMMA BookInvariant == Spec => []BookInv
BY BookInit, BookStep, PTL DEF Spec

-----------------------------------------------------------------------------
(* The theorems *)

LEMMA MirrorFromInv == BookInv => MirrorUntilRestart
<1> SUFFICES ASSUME BookInv, restarts = 0 PROVE markets_map = source
  BY DEF MirrorUntilRestart
<1>1. \A m \in Markets, l \in Levels : markets_map[m][l] = source[m][l]
  BY DEF BookInv, MapInv
<1>2. ASSUME NEW m \in Markets PROVE markets_map[m] = source[m]
  <2>1. markets_map[m] \in [Levels -> Quantity] /\ source[m] \in [Levels -> Quantity]
    BY DEF BookInv, TypeOK, Book
  <2>. QED BY <1>1, <2>1
<1>3. markets_map \in [Markets -> Book] /\ source \in [Markets -> Book]
  BY DEF BookInv, TypeOK
<1>. QED BY <1>2, <1>3

\* Until the first restart _markets_map is, level by level, the exchange's book as
\* of the last message handled.
THEOREM MirrorTheorem == Spec => []MirrorUntilRestart
BY BookInvariant, MirrorFromInv, PTL

LEMMA NeverMissesFromInv == BookInv => NeverMissesLevel
BY DEF BookInv, MapInv, NeverMissesLevel

\* However often the socket restarts, no level of the exchange's book as of the
\* last message handled is missing from _markets_map.
THEOREM NeverMissesTheorem == Spec => []NeverMissesLevel
BY BookInvariant, NeverMissesFromInv, PTL

LEMMA TouchedFromInv == BookInv => TouchedLevelsExact
<1> SUFFICES ASSUME BookInv, NEW m \in Markets, NEW l \in touched[m]
             PROVE  markets_map[m][l] = source[m][l]
  BY DEF TouchedLevelsExact
<1>1. l \in Levels
  BY DEF BookInv, TypeOK
<1>. QED BY <1>1 DEF BookInv, MapInv

\* However often the socket restarts, a level that an update of the present
\* connection named has the size the exchange last gave it.
THEOREM TouchedTheorem == Spec => []TouchedLevelsExact
BY BookInvariant, TouchedFromInv, PTL

-----------------------------------------------------------------------------
(* The core's book is never crossed *)

\* The exchange keeps its books uncrossed, and so is all that is made of them
\* while _markets_map still mirrors what was read.
UncrossedInv ==
  /\ \A m \in Markets : Uncrossed(exBook[m]) /\ Uncrossed(source[m])
  /\ \A i \in 1..Len(chan) : Uncrossed(chan[i].after)
  /\ CoreUncrossed

LEMMA EmptyUncrossed == Uncrossed(EmptyBook)
BY DEF Uncrossed, OnSide, EmptyBook

LEMMA TopUncrossed ==
  ASSUME NEW book \in Book, Uncrossed(book) PROVE Uncrossed(Top(book))
<1>1. \A side \in Sides : OnSide(Top(book), side) \subseteq OnSide(book, side)
  BY TopType DEF OnSide
<1>2. "bids" \in Sides /\ "asks" \in Sides
  BY DEF Sides
<1>. QED BY <1>1, <1>2 DEF Uncrossed

LEMMA UncrossedInit == Init => UncrossedInv
BY EmptyUncrossed DEF Init, UncrossedInv, CoreUncrossed

\* Both handlers: what is sent is the top of the map, which mirrors what was read.
LEMMA UncrossedRead ==
  ASSUME TypeOK, TypeOK', UncrossedInv, MirrorUntilRestart', chan # <<>>,
         NEW ok, NEW kn, orderbook_prepare(markets_map', kn, ok),
         UNCHANGED <<exBook, restarts>>,
         source' = [source EXCEPT ![Head(chan).market] = Head(chan).after]
  PROVE  UncrossedInv'
<1>1. Uncrossed(Head(chan).after) /\ Len(chan) \in Nat /\ chan \in Seq(Message)
  BY DEF UncrossedInv, TypeOK
<1>2. \A m \in Markets : Uncrossed(source'[m])
  <2> SUFFICES ASSUME NEW m \in Markets PROVE Uncrossed(source'[m])
    OBVIOUS
  <2>1. source'[m] = Head(chan).after \/ source'[m] = source[m]
    BY DEF TypeOK
  <2>. QED BY <2>1, <1>1 DEF UncrossedInv
<1>3. \A i \in 1..Len(chan') : Uncrossed(chan'[i].after)
  <2>1. CASE chan' = <<>>
    BY <2>1
  <2>2. CASE chan' = Tail(chan)
    <3> SUFFICES ASSUME NEW i \in 1..Len(chan') PROVE Uncrossed(chan'[i].after)
      OBVIOUS
    <3>1. chan'[i] = chan[i + 1] /\ i + 1 \in 1..Len(chan)
      BY <1>1, <2>2
    <3>. QED BY <3>1 DEF UncrossedInv
  <2>. QED BY <2>1, <2>2 DEF orderbook_prepare
<1>4. CoreUncrossed'
  <2> SUFFICES ASSUME restarts = 0, NEW m \in Markets PROVE Uncrossed(core'[m])
    BY DEF CoreUncrossed
  <2>1. markets_map'[m] \in Book /\ Uncrossed(markets_map'[m])
    BY <1>2 DEF MirrorUntilRestart, TypeOK
  <2>2. core'[m] = Top(markets_map'[m]) \/ core'[m] = core[m]
    BY DEF orderbook_prepare
  <2>. QED BY <2>1, <2>2, TopUncrossed DEF UncrossedInv, CoreUncrossed
<1>5. \A m \in Markets : Uncrossed(exBook'[m])
  BY DEF UncrossedInv
<1>. QED BY <1>2, <1>3, <1>4, <1>5 DEF UncrossedInv

LEMMA UncrossedStep ==
  TypeOK /\ TypeOK' /\ MirrorUntilRestart' /\ UncrossedInv /\ [Next]_vars => UncrossedInv'
<1> SUFFICES ASSUME TypeOK, TypeOK', MirrorUntilRestart', UncrossedInv, [Next]_vars
             PROVE  UncrossedInv'
  OBVIOUS
<1>0. Len(chan) \in Nat /\ chan \in Seq(Message) /\ exBook \in [Markets -> Book]
  BY DEF TypeOK
<1>1. ASSUME NEW m \in Markets, NEW after \in Book, Trade(m, after) PROVE UncrossedInv'
  <2>1. \A o \in Markets : exBook'[o] = exBook[o] \/ exBook'[o] = after
    BY <1>0, <1>1 DEF Trade
  <2>2. Uncrossed(after) /\ UNCHANGED <<source, core, restarts>>
    BY <1>1 DEF Trade
  <2>3. \A i \in 1..Len(chan') : Uncrossed(chan'[i].after)
    <3> SUFFICES ASSUME NEW i \in 1..Len(chan') PROVE Uncrossed(chan'[i].after)
      OBVIOUS
    <3>1. CASE m \notin subs
      BY <1>1, <3>1 DEF Trade, UncrossedInv
    <3>2. CASE m \in subs
      <4> DEFINE msg == [type |-> "update", market |-> m, levels |-> Diff(exBook[m], after),
                         before |-> exBook[m], after |-> after]
      <4>1. chan' = Append(chan, msg) /\ msg.after = after
        BY <1>1, <3>2 DEF Trade
      <4> HIDE DEF msg
      <4>2. (i \in 1..Len(chan) /\ chan'[i] = chan[i]) \/ chan'[i] = msg
        BY <1>0, <4>1
      <4>. QED BY <2>2, <4>1, <4>2 DEF UncrossedInv
    <3>. QED BY <3>1, <3>2
  <2>. QED BY <2>1, <2>2, <2>3 DEF UncrossedInv, CoreUncrossed
<1>2. ASSUME NEW m \in Markets, Snapshot(m) PROVE UncrossedInv'
  <2> DEFINE msg == [type |-> "partial", market |-> m, levels |-> LevelsOf(exBook[m]),
                     before |-> exBook[m], after |-> exBook[m]]
  <2>1. chan' = Append(chan, msg) /\ msg.after = exBook[m]
        /\ UNCHANGED <<exBook, source, core, restarts>>
    BY <1>2 DEF Snapshot
  <2> HIDE DEF msg
  <2>2. \A i \in 1..Len(chan') : (i \in 1..Len(chan) /\ chan'[i] = chan[i]) \/ chan'[i] = msg
    BY <1>0, <2>1
  <2>3. \A i \in 1..Len(chan') : Uncrossed(chan'[i].after)
    BY <2>1, <2>2 DEF UncrossedInv
  <2>. QED BY <2>1, <2>3 DEF UncrossedInv, CoreUncrossed
<1>3. ASSUME NEW k \in 0..Len(chan), Break(k) PROVE UncrossedInv'
  <2>1. chan' = SubSeq(chan, 1, k) /\ UNCHANGED <<exBook, source, core, restarts>>
    BY <1>3 DEF Break
  <2>2. k \in Nat
    BY ConstantsAssumption
  <2>3. \A i \in 1..Len(chan') : i \in 1..Len(chan) /\ chan'[i] = chan[i]
    BY <1>0, <1>3, <2>1, <2>2
  <2>. QED BY <2>1, <2>3 DEF UncrossedInv, CoreUncrossed
<1>4. ASSUME NEW ok \in SUBSET Markets, public_ws_handler_partial(ok) PROVE UncrossedInv'
  BY <1>4, UncrossedRead DEF public_ws_handler_partial
<1>5. ASSUME NEW ok \in SUBSET Markets, public_ws_handler_update(ok) PROVE UncrossedInv'
  BY <1>5, UncrossedRead DEF public_ws_handler_update
<1>6. CASE restart_public_ws
  <2>1. restarts' # 0
    BY <1>6 DEF restart_public_ws, TypeOK
  <2>. QED BY <1>6, <2>1, EmptyUncrossed DEF restart_public_ws, UncrossedInv, CoreUncrossed
<1>7. CASE UNCHANGED vars
  BY <1>7 DEF vars, UncrossedInv, CoreUncrossed
<1>. QED BY <1>1, <1>2, <1>3, <1>4, <1>5, <1>6, <1>7 DEF Next

LEMMA UncrossedInvariant == Spec => []UncrossedInv
<1>1. UncrossedInv /\ [TypeOK /\ TypeOK' /\ MirrorUntilRestart' /\ Next]_vars => UncrossedInv'
  <2>1. CASE UNCHANGED vars
    BY <2>1 DEF vars, UncrossedInv, CoreUncrossed
  <2>. QED BY <2>1, UncrossedStep
<1>. QED BY <1>1, UncrossedInit, TypeCorrect, MirrorTheorem, PTL DEF Spec

\* Up to the first restart the book the core holds is never crossed: no merge,
\* depth limit or lost offer makes it offer to buy at or above a selling price.
THEOREM CoreUncrossedTheorem == Spec => []CoreUncrossed
<1>1. UncrossedInv => CoreUncrossed
  BY DEF UncrossedInv
<1>. QED BY <1>1, UncrossedInvariant, PTL
=============================================================================
