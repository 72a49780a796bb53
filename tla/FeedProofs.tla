----------------------------- MODULE FeedProofs -----------------------------
(***************************************************************************)
(* The market data implement the promise of BookFeed, and the depth of the *)
(* order books bounds what is sent of them, for every value of the         *)
(* constants.                                                              *)
(***************************************************************************)
EXTENDS MarketDataProofs, SequenceFacts, FiniteSetTheorems

-----------------------------------------------------------------------------
(* Messages in flight as the feed sees them *)

Entry(msg) == [market |-> msg.market, book |-> msg.after]
Pending(c) == [i \in 1..Len(c) |-> [market |-> c[i].market, book |-> c[i].after]]

LEMMA PendingIs ==
  ASSUME NEW c, IsSequence(c)
  PROVE  /\ IsSequence(Pending(c)) /\ Len(Pending(c)) = Len(c)
         /\ \A i \in 1..Len(c) : Pending(c)[i] = Entry(c[i])
<1>1. Len(c) \in Nat
  BY DEF IsSequence
<1>2. Len(Pending(c)) = Len(c)
  BY <1>1 DEF Pending
<1>3. Pending(c) = [i \in 1..Len(Pending(c)) |-> Pending(c)[i]]
  BY <1>2 DEF Pending
<1>4. \A i \in 1..Len(c) : Pending(c)[i] = Entry(c[i])
  BY DEF Pending, Entry
<1> QED
  BY <1>1, <1>2, <1>3, <1>4 DEF IsSequence

LEMMA PendingAppend ==
  ASSUME NEW c, IsSequence(c), NEW msg
  PROVE  Pending(Append(c, msg)) = Append(Pending(c), Entry(msg))
<1>1. /\ IsSequence(Append(c, msg)) /\ Len(Append(c, msg)) = Len(c) + 1
      /\ \A i \in 1..Len(c) : Append(c, msg)[i] = c[i]
      /\ Append(c, msg)[Len(c) + 1] = msg
  BY AppendSequence
<1>2. /\ IsSequence(Pending(c)) /\ Len(Pending(c)) = Len(c)
      /\ \A i \in 1..Len(c) : Pending(c)[i] = Entry(c[i])
  BY PendingIs
<1>3. /\ IsSequence(Append(Pending(c), Entry(msg)))
      /\ Len(Append(Pending(c), Entry(msg))) = Len(c) + 1
      /\ \A i \in 1..Len(c) : Append(Pending(c), Entry(msg))[i] = Entry(c[i])
      /\ Append(Pending(c), Entry(msg))[Len(c) + 1] = Entry(msg)
  BY <1>2, AppendSequence
<1>4. /\ IsSequence(Pending(Append(c, msg))) /\ Len(Pending(Append(c, msg))) = Len(c) + 1
      /\ \A i \in 1..(Len(c) + 1) : Pending(Append(c, msg))[i] = Entry(Append(c, msg)[i])
  BY <1>1, PendingIs
<1>5. Len(c) \in Nat
  BY DEF IsSequence
<1>6. ASSUME NEW i \in 1..(Len(c) + 1)
      PROVE  Pending(Append(c, msg))[i] = Append(Pending(c), Entry(msg))[i]
  <2>1. i \in 1..Len(c) \/ i = Len(c) + 1
    BY <1>5
  <2> QED
    BY <1>1, <1>3, <1>4, <2>1
<1> QED
  BY <1>3, <1>4, <1>6, SameSequence

LEMMA PendingTail ==
  ASSUME NEW c, IsSequence(c), c # <<>>
  PROVE  /\ Pending(Tail(c)) = Tail(Pending(c)) /\ Pending(c) # <<>>
         /\ Head(Pending(c)) = Entry(Head(c))
<1>1. /\ Len(c) \in Nat \ {0} /\ Head(c) = c[1]
      /\ IsSequence(Tail(c)) /\ Len(Tail(c)) = Len(c) - 1
      /\ \A i \in 1..Len(Tail(c)) : Tail(c)[i] = c[i + 1]
  BY TailSequence
<1>2. /\ IsSequence(Pending(c)) /\ Len(Pending(c)) = Len(c)
      /\ \A i \in 1..Len(c) : Pending(c)[i] = Entry(c[i])
  BY PendingIs
<1>3. Pending(c) # <<>>
  BY <1>1, <1>2
<1>4. /\ Head(Pending(c)) = Pending(c)[1]
      /\ IsSequence(Tail(Pending(c))) /\ Len(Tail(Pending(c))) = Len(c) - 1
      /\ \A i \in 1..Len(Tail(Pending(c))) : Tail(Pending(c))[i] = Pending(c)[i + 1]
  BY <1>2, <1>3, TailSequence
<1>5. /\ IsSequence(Pending(Tail(c))) /\ Len(Pending(Tail(c))) = Len(c) - 1
      /\ \A i \in 1..(Len(c) - 1) : Pending(Tail(c))[i] = Entry(Tail(c)[i])
  BY <1>1, PendingIs
<1>6. ASSUME NEW i \in 1..(Len(c) - 1)
      PROVE  Pending(Tail(c))[i] = Tail(Pending(c))[i]
  <2>1. i + 1 \in 1..Len(c)
    BY <1>1
  <2> QED
    BY <1>1, <1>2, <1>4, <1>5, <2>1
<1>7. 1 \in 1..Len(c)
  BY <1>1
<1>8. Pending(Tail(c)) = Tail(Pending(c))
  BY <1>4, <1>5, <1>6, SameSequence
<1> QED
  BY <1>1, <1>2, <1>3, <1>4, <1>7, <1>8

LEMMA PendingPrefix ==
  ASSUME NEW c, IsSequence(c), NEW k \in 0..Len(c)
  PROVE  Pending(SubSeq(c, 1, k)) = SubSeq(Pending(c), 1, k)
<1>1. /\ IsSequence(SubSeq(c, 1, k)) /\ Len(SubSeq(c, 1, k)) = k
      /\ \A i \in 1..k : SubSeq(c, 1, k)[i] = c[i]
  BY PrefixSequence
<1>2. /\ IsSequence(Pending(c)) /\ Len(Pending(c)) = Len(c)
      /\ \A i \in 1..Len(c) : Pending(c)[i] = Entry(c[i])
  BY PendingIs
<1>3. /\ IsSequence(SubSeq(Pending(c), 1, k)) /\ Len(SubSeq(Pending(c), 1, k)) = k
      /\ \A i \in 1..k : SubSeq(Pending(c), 1, k)[i] = Pending(c)[i]
  BY <1>2, PrefixSequence
<1>4. /\ IsSequence(Pending(SubSeq(c, 1, k))) /\ Len(Pending(SubSeq(c, 1, k))) = k
      /\ \A i \in 1..k : Pending(SubSeq(c, 1, k))[i] = Entry(SubSeq(c, 1, k)[i])
  BY <1>1, PendingIs
<1>5. \A i \in 1..k : i \in 1..Len(c)
  BY DEF IsSequence
<1>6. \A i \in 1..k : Pending(SubSeq(c, 1, k))[i] = SubSeq(Pending(c), 1, k)[i]
  BY <1>1, <1>2, <1>3, <1>4, <1>5
<1> QED
  BY <1>3, <1>4, <1>6, SameSequence

LEMMA ChanSequence == ASSUME TypeOK PROVE IsSequence(chan)
BY SeqIsSequence DEF TypeOK

-----------------------------------------------------------------------------
(* The feed *)


LEMMA FeedInit == Init => Feed!Init
<1> SUFFICES ASSUME Init
             PROVE  Feed!Init
  OBVIOUS
<1>1. EmptyBook \in Book
  BY EmptyBookType
<1>2. [i \in 1..Len(chan) |-> [market |-> chan[i].market, book |-> chan[i].after]] = <<>>
  BY DEF Init
<1> QED
  BY <1>1, <1>2 DEF Init, Feed!Init

LEMMA FeedTrade ==
  ASSUME TypeOK, NEW m \in Markets, NEW after \in Book, Trade(m, after)
  PROVE  Feed!Next
<1> DEFINE msg == [type |-> "update", market |-> m, levels |-> Diff(exBook[m], after),
                   before |-> exBook[m], after |-> after]
<1>1. msg.market = m /\ msg.after = after
  OBVIOUS
<1>2. chan' = Append(chan, msg) \/ chan' = chan
  BY DEF Trade
<1> HIDE DEF msg
<1>3. Entry(msg) = [market |-> m, book |-> after]
  BY <1>1 DEF Entry
<1>4. Pending(chan)' = Append(Pending(chan), [market |-> m, book |-> after])
      \/ Pending(chan)' = Pending(chan)
  <2>1. CASE chan' = Append(chan, msg)
    <3>1. Pending(Append(chan, msg)) = Append(Pending(chan), Entry(msg))
      BY ChanSequence, PendingAppend
    <3> QED
      BY <1>3, <2>1, <3>1 DEF Pending
  <2>2. CASE chan' = chan
    BY <2>2 DEF Pending
  <2> QED
    BY <1>2, <2>1, <2>2
<1>5. Feed!Change(m, after)
  BY <1>4 DEF Feed!Change, Feed!Published, Pending, Trade
<1> QED
  BY <1>5 DEF Feed!Next

LEMMA FeedSnapshot ==
  ASSUME TypeOK, NEW m \in Markets, Snapshot(m)
  PROVE  Feed!Next
<1> DEFINE msg == [type |-> "partial", market |-> m, levels |-> LevelsOf(exBook[m]),
                   before |-> exBook[m], after |-> exBook[m]]
<1>1. msg.market = m /\ msg.after = exBook[m]
  OBVIOUS
<1>2. chan' = Append(chan, msg)
  BY DEF Snapshot
<1> HIDE DEF msg
<1>3. Entry(msg) = [market |-> m, book |-> exBook[m]]
  BY <1>1 DEF Entry
<1>4. Pending(chan)' = Append(Pending(chan), [market |-> m, book |-> exBook[m]])
  <2>1. Pending(Append(chan, msg)) = Append(Pending(chan), Entry(msg))
    BY ChanSequence, PendingAppend
  <2> QED
    BY <1>2, <1>3, <2>1 DEF Pending
<1>5. Feed!Republish(m)
  BY <1>4 DEF Feed!Republish, Feed!Published, Pending, Snapshot
<1> QED
  BY <1>5 DEF Feed!Next

LEMMA FeedBreak ==
  ASSUME TypeOK, NEW k \in 0..Len(chan), Break(k)
  PROVE  Feed!Next
<1>1. Pending(SubSeq(chan, 1, k)) = SubSeq(Pending(chan), 1, k) /\ Len(Pending(chan)) = Len(chan)
  BY ChanSequence, PendingPrefix, PendingIs
<1>2. chan' = SubSeq(chan, 1, k)
  BY DEF Break
<1>3. Pending(chan)' = SubSeq(Pending(chan), 1, k) /\ k \in 0..Len(Pending(chan))
  BY <1>1, <1>2 DEF Pending
<1>4. Feed!Lose
  BY <1>3 DEF Feed!Lose, Pending, Break
<1> QED
  BY <1>4 DEF Feed!Next

\* A message of either type: what is sent of a market is made of _markets_map, which
\* mirrors what was read as long as the connection lasts.
LEMMA FeedRead ==
  ASSUME TypeOK, TypeOK', MirrorUntilRestart', restarts = 0, chan # <<>>,
         NEW ok \in SUBSET Markets, NEW kn, orderbook_prepare(markets_map', kn, ok),
         UNCHANGED <<exBook, restarts>>,
         source' = [source EXCEPT ![Head(chan).market] = Head(chan).after]
  PROVE  Feed!Next
<1>1. /\ Pending(Tail(chan)) = Tail(Pending(chan)) /\ Pending(chan) # <<>>
      /\ Head(Pending(chan)) = Entry(Head(chan))
  BY ChanSequence, PendingTail
<1>2. Pending(chan)' \in {Tail(Pending(chan)), <<>>}
  <2>1. CASE chan' = Tail(chan)
    BY <1>1, <2>1 DEF Pending
  <2>2. CASE chan' = <<>>
    BY <2>2 DEF Pending
  <2> QED
    BY <2>1, <2>2 DEF orderbook_prepare
<1>3. Head(Pending(chan)).market = Head(chan).market /\ Head(Pending(chan)).book = Head(chan).after
  BY <1>1 DEF Entry
<1>4. markets_map' = source' /\ \A m \in Markets : source'[m] \in Book
  BY DEF MirrorUntilRestart, TypeOK
<1>5. core' = [m \in Markets |-> IF m \in ok THEN [b \in Book |-> Top(b)][source'[m]] ELSE core[m]]
  BY <1>4 DEF orderbook_prepare
<1>6. source' = [source EXCEPT ![Head(Pending(chan)).market] = Head(Pending(chan)).book]
  BY <1>3
<1>7. Feed!Take(ok)
  BY <1>1, <1>2, <1>5, <1>6 DEF Feed!Take, Pending
<1> QED
  BY <1>7 DEF Feed!Next

LEMMA FeedStep ==
  ASSUME BookInv, TypeOK', MirrorUntilRestart', [Next]_vars
  PROVE  [Feed!Next]_(Feed!vars)
<1>1. TypeOK
  BY DEF BookInv
<1>2. ASSUME NEW m \in Markets, NEW after \in Book, Trade(m, after)
      PROVE  Feed!Next
  BY <1>1, <1>2, FeedTrade
<1>3. ASSUME NEW m \in Markets, Snapshot(m)
      PROVE  Feed!Next
  BY <1>1, <1>3, FeedSnapshot
<1>4. ASSUME NEW k \in 0..Len(chan), Break(k)
      PROVE  Feed!Next
  BY <1>1, <1>4, FeedBreak
<1>5. CASE restarts' # 0
  BY <1>5 DEF Feed!Next, Feed!Over
<1>6. ASSUME NEW ok \in SUBSET Markets,
             public_ws_handler_partial(ok) \/ public_ws_handler_update(ok), restarts' = 0
      PROVE  Feed!Next
  BY <1>1, <1>6, FeedRead DEF public_ws_handler_partial, public_ws_handler_update
<1>7. CASE restart_public_ws
  BY <1>1, <1>5, <1>7 DEF restart_public_ws, TypeOK
<1>8. CASE UNCHANGED vars
  BY <1>8 DEF vars, Feed!vars
<1> QED
  BY <1>2, <1>3, <1>4, <1>5, <1>6, <1>7, <1>8 DEF Next

\* While the first connection lasts the core is given whole states of the exchange's
\* books, in the order they were published and each at most once, however snapshots,
\* updates, breaks, failed offers and overlong books interleave.
THEOREM GivesWholeBooks == Spec => ImplementsFeed
<1>1. BookInv /\ TypeOK' /\ MirrorUntilRestart' /\ [Next]_vars => [Feed!Next]_(Feed!vars)
  BY FeedStep
<1> QED
  BY <1>1, FeedInit, BookInvariant, TypeCorrect, MirrorTheorem, PTL DEF Spec, ImplementsFeed, Feed!Spec

-----------------------------------------------------------------------------
(* The levels sent of a book *)

\* Elements of a finite set that are numbered without a repetition by numbers up to its
\* size: as many have a number up to H as there are such numbers.
LEMMA CountNumbered ==
  ASSUME NEW S, IsFiniteSet(S), NEW r \in [S -> 1..Cardinality(S)],
         \A k, l \in S : r[k] = r[l] => k = l,
         NEW H \in 0..Cardinality(S)
  PROVE  Cardinality({l \in S : r[l] <= H}) = H
<1> DEFINE N == Cardinality(S)
<1>1. N \in Nat
  BY FS_CardinalityType
<1>2. r \in Injection(S, 1..N)
  BY DEF Injection, IsInjective
<1>3. IsFiniteSet(1..N) /\ Cardinality(1..N) = N
  BY <1>1, FS_Interval
<1>4. r \in Surjection(S, 1..N)
  BY <1>2, <1>3, FS_Injection
<1> DEFINE T == {l \in S : r[l] <= H}
<1> DEFINE g == [l \in T |-> r[l]]
<1>5. IsFiniteSet(T)
  BY FS_Subset
<1>6. g \in Bijection(T, 1..H)
  <2>1. g \in [T -> 1..H]
    BY <1>1
  <2>2. \A k, l \in T : g[k] = g[l] => k = l
    OBVIOUS
  <2>3. \A n \in 1..H : \E l \in T : g[l] = n
    <3> SUFFICES ASSUME NEW n \in 1..H PROVE \E l \in T : g[l] = n
      OBVIOUS
    <3>1. n \in 1..N /\ n <= H
      BY <1>1
    <3>2. PICK l \in S : r[l] = n
      BY <1>4, <3>1 DEF Surjection
    <3> QED
      BY <3>1, <3>2
  <2> QED
    BY <2>1, <2>2, <2>3 DEF Bijection, Injection, Surjection, IsInjective
<1>7. Cardinality(1..H) = Cardinality(T)
  BY <1>5, <1>6, FS_Bijection DEF ExistsBijection
<1>8. Cardinality(1..H) = H
  BY <1>1, FS_Interval
<1> QED
  BY <1>7, <1>8

\* The levels of a side that are as good as a level or better.
Upto(S, l) == {k \in S : IF l[1] = "asks" THEN k[2] <= l[2] ELSE k[2] >= l[2]}

Better(k, l) == IF l[1] = "asks" THEN k[2] < l[2] ELSE k[2] > l[2]

LEMMA SideFacts ==
  ASSUME NEW book \in Book, NEW side \in Sides
  PROVE  /\ OnSide(book, side) \subseteq Levels /\ IsFiniteSet(OnSide(book, side))
         /\ \A l \in OnSide(book, side) :
              /\ l[1] = side /\ l[2] \in Int /\ l = <<side, l[2]>>
              /\ book[l] # 0
              /\ Rank(book, l) = Cardinality(Upto(OnSide(book, side), l))
<1>1. \A l \in Levels : l[1] \in Sides /\ l[2] \in Int /\ l = <<l[1], l[2]>>
  <2>1. \A l \in Levels : l[1] \in Sides /\ l[2] \in Prices
    BY DEF Levels
  <2>2. \A l \in Levels : l = <<l[1], l[2]>>
    BY DEF Levels
  <2>3. Prices \subseteq Int
    BY ConstantsAssumption
  <2> QED
    BY <2>1, <2>2, <2>3
<1>2. IsFiniteSet(Sides)
  <2>1. IsFiniteSet({"bids"}) /\ IsFiniteSet({"asks"})
    BY FS_Singleton
  <2>2. Sides = {"bids"} \cup {"asks"}
    BY DEF Sides
  <2> QED
    BY <2>1, <2>2, FS_Union
<1>3. IsFiniteSet(Levels)
  BY <1>2, FS_Product, ConstantsAssumption DEF Levels
<1>4. OnSide(book, side) \in SUBSET Levels
  BY DEF OnSide
<1>5. IsFiniteSet(OnSide(book, side))
  BY <1>3, <1>4, FS_Subset
<1>6. \A l \in OnSide(book, side) : l[1] = side /\ l \in Levels /\ book[l] # 0
  BY DEF OnSide
<1>7. \A l \in OnSide(book, side) : Rank(book, l) = Cardinality(Upto(OnSide(book, side), l))
  BY <1>6 DEF Rank, Upto
<1> QED
  BY <1>1, <1>4, <1>5, <1>6, <1>7

\* The places of the levels of a side: 1 to their number, a better level first.
LEMMA RankFacts ==
  ASSUME NEW book \in Book, NEW side \in Sides, NEW S, S = OnSide(book, side)
  PROVE  /\ \A l \in S : Rank(book, l) \in 1..Cardinality(S)
         /\ \A k, l \in S : Better(k, l) => Rank(book, k) < Rank(book, l)
         /\ \A k, l \in S : k = l \/ Better(k, l) \/ Better(l, k)
<1>1. /\ IsFiniteSet(S) /\ Cardinality(S) \in Nat
      /\ \A l \in S : /\ l[1] = side /\ l[2] \in Int /\ l = <<side, l[2]>>
                      /\ Rank(book, l) = Cardinality(Upto(S, l))
  BY SideFacts, FS_CardinalityType
<1>a. side = "asks" => \A l \in S : /\ Upto(S, l) = {k \in S : k[2] <= l[2]}
                                     /\ \A k \in S : Better(k, l) <=> k[2] < l[2]
  BY <1>1, Zenon DEF Upto, Better
<1>b. side # "asks" => \A l \in S : /\ Upto(S, l) = {k \in S : k[2] >= l[2]}
                                     /\ \A k \in S : Better(k, l) <=> k[2] > l[2]
  BY <1>1, Zenon DEF Upto, Better
<1>c. \A l \in S : l[2] \in Int
  BY <1>1
<1>2. \A l \in S : /\ Upto(S, l) \in SUBSET S /\ IsFiniteSet(Upto(S, l)) /\ l \in Upto(S, l)
                   /\ Cardinality(Upto(S, l)) \in Nat /\ Cardinality(Upto(S, l)) <= Cardinality(S)
  <2> SUFFICES ASSUME NEW l \in S
               PROVE  /\ Upto(S, l) \in SUBSET S /\ IsFiniteSet(Upto(S, l)) /\ l \in Upto(S, l)
                      /\ Cardinality(Upto(S, l)) \in Nat
                      /\ Cardinality(Upto(S, l)) <= Cardinality(S)
    OBVIOUS
  <2>1. Upto(S, l) \in SUBSET S /\ l \in Upto(S, l)
    <3>1. CASE side = "asks"
      BY <1>a, <1>c, <3>1
    <3>2. CASE side # "asks"
      BY <1>b, <1>c, <3>2
    <3> QED
      BY <3>1, <3>2
  <2> QED
    BY <1>1, <2>1, FS_Subset, FS_CardinalityType
<1>3. \A l \in S : Rank(book, l) \in 1..Cardinality(S)
  <2> SUFFICES ASSUME NEW l \in S PROVE Rank(book, l) \in 1..Cardinality(S)
    OBVIOUS
  <2>1. Cardinality(Upto(S, l)) # 0
    BY <1>2, FS_EmptySet
  <2> QED
    BY <1>1, <1>2, <2>1
<1>4. \A k, l \in S : Better(k, l) => Rank(book, k) < Rank(book, l)
  <2> SUFFICES ASSUME NEW k \in S, NEW l \in S, Better(k, l)
               PROVE  Rank(book, k) < Rank(book, l)
    OBVIOUS
  <2>1. Upto(S, k) \in SUBSET Upto(S, l) /\ l \notin Upto(S, k)
    <3>1. CASE side = "asks"
      BY <1>a, <1>c, <3>1
    <3>2. CASE side # "asks"
      BY <1>b, <1>c, <3>2
    <3> QED
      BY <3>1, <3>2
  <2>2. /\ Cardinality(Upto(S, k)) <= Cardinality(Upto(S, l))
        /\ Cardinality(Upto(S, k)) # Cardinality(Upto(S, l))
    BY <1>2, <2>1, FS_Subset
  <2> QED
    BY <1>1, <1>2, <2>2
<1>5. \A k, l \in S : k = l \/ Better(k, l) \/ Better(l, k)
  BY <1>1 DEF Better
<1> QED
  BY <1>3, <1>4, <1>5

\* What how_can_much and the two loops of orderbook_prepare leave of a side.
LEMMA TopSide ==
  ASSUME NEW book \in Book, NEW side \in Sides,
         NEW have, have = OnSide(book, side), NEW sent, sent = OnSide(Top(book), side)
  PROVE  /\ sent \subseteq have /\ \A l \in sent : Top(book)[l] = book[l]
         /\ \A l \in sent, k \in have \ sent : Better(l, k)
         /\ IsFiniteSet(sent) /\ Cardinality(sent) \in Nat
         /\ Depth < 0 => sent = have
         /\ Depth >= 0 => \/ sent = have /\ Cardinality(sent) <= Depth
                          \/ Cardinality(sent) = Depth /\ Depth < Cardinality(have)
<1> DEFINE N == Cardinality(have)
<1> DEFINE H == HowMany(N)
<1>1. /\ have \subseteq Levels /\ IsFiniteSet(have) /\ N \in Nat
      /\ \A l \in have : l[1] = side /\ book[l] # 0
  BY SideFacts, FS_CardinalityType
<1>2. /\ \A l \in have : Rank(book, l) \in 1..N
      /\ \A k, l \in have : Better(k, l) => Rank(book, k) < Rank(book, l)
      /\ \A k, l \in have : k = l \/ Better(k, l) \/ Better(l, k)
  BY RankFacts
<1>3. sent = {l \in have : Rank(book, l) <= H}
  <2>1. \A l \in Levels : l[1] = side =>
          Top(book)[l] = IF Rank(book, l) <= H THEN book[l] ELSE 0
    BY DEF Top
  <2> HIDE DEF H
  <2>2. \A l \in Levels : (l[1] = side /\ Top(book)[l] # 0)
                          <=> (l[1] = side /\ book[l] # 0 /\ Rank(book, l) <= H)
    BY <2>1, Zenon
  <2> QED
    BY <2>2 DEF OnSide
<1>4. \A l \in sent : Top(book)[l] = book[l]
  <2>1. \A l \in sent : l \in Levels /\ Top(book)[l] # 0
    BY DEF OnSide
  <2> QED
    BY <2>1, TopType
<1>5. /\ Depth < 0 \/ N < Depth => H = N
      /\ ~(Depth < 0 \/ N < Depth) => H = Depth
      /\ Depth \in Int
  BY ConstantsAssumption DEF HowMany
<1>6. H \in 0..N
  BY <1>1, <1>5
<1>7. H = N => sent = have
  BY <1>1, <1>2, <1>3
<1>8. \A l \in sent, k \in have \ sent : Better(l, k)
  <2> SUFFICES ASSUME NEW l \in sent, NEW k \in have \ sent PROVE Better(l, k)
    OBVIOUS
  <2>1. l \in have /\ Rank(book, l) <= H /\ ~(Rank(book, k) <= H) /\ l # k
    BY <1>3
  <2>2. ~(Rank(book, k) < Rank(book, l))
    BY <1>2, <1>6, <2>1
  <2> QED
    BY <1>2, <2>1, <2>2
<1>9. IsFiniteSet(sent) /\ Cardinality(sent) \in Nat
  BY <1>1, <1>3, FS_Subset, FS_CardinalityType
<1>10. Cardinality(sent) = H
  <2> DEFINE r == [l \in have |-> Rank(book, l)]
  <2>1. r \in [have -> 1..N]
    BY <1>2
  <2>2. \A k, l \in have : r[k] = r[l] => k = l
    <3> SUFFICES ASSUME NEW k \in have, NEW l \in have, r[k] = r[l] PROVE k = l
      OBVIOUS
    <3>1. Rank(book, k) = Rank(book, l) /\ Rank(book, k) \in Int
      BY <1>2
    <3>2. ~(Rank(book, k) < Rank(book, l)) /\ ~(Rank(book, l) < Rank(book, k))
      BY <3>1
    <3> QED
      BY <1>2, <3>2
  <2>3. \A l \in have : r[l] = Rank(book, l)
    OBVIOUS
  <2> HIDE DEF r, H
  <2>4. Cardinality({l \in have : r[l] <= H}) = H
    BY <1>1, <1>6, <2>1, <2>2, CountNumbered
  <2>5. {l \in have : r[l] <= H} = sent
    BY <1>3, <2>3
  <2> QED
    BY <2>4, <2>5
<1>11. Depth < 0 => sent = have
  BY <1>5, <1>7
<1>12. Depth >= 0 => \/ sent = have /\ Cardinality(sent) <= Depth
                     \/ Cardinality(sent) = Depth /\ Depth < N
  BY <1>1, <1>5, <1>7, <1>10
<1>13. sent \subseteq have
  BY <1>3
<1> QED
  BY <1>4, <1>8, <1>9, <1>11, <1>12, <1>13

\* A book whose two sides are sent to a depth that fits into the buffer.
LEMMA BoundedFits ==
  ASSUME NEW book \in Book, Depth >= 0, 2 * Depth <= BufferLevels
  PROVE  Fits(book)
<1> DEFINE S(side) == OnSide(Top(book), side)
<1>1. \A side \in Sides : IsFiniteSet(S(side)) /\ Cardinality(S(side)) \in Nat
                          /\ Cardinality(S(side)) <= Depth
  <2> SUFFICES ASSUME NEW side \in Sides
               PROVE  IsFiniteSet(S(side)) /\ Cardinality(S(side)) \in Nat
                      /\ Cardinality(S(side)) <= Depth
    OBVIOUS
  <2>1. PICK have, sent : have = OnSide(book, side) /\ sent = S(side)
    OBVIOUS
  <2>2. /\ IsFiniteSet(sent) /\ Cardinality(sent) \in Nat
        /\ Depth >= 0 => \/ sent = have /\ Cardinality(sent) <= Depth
                         \/ Cardinality(sent) = Depth /\ Depth < Cardinality(have)
    BY <2>1, TopSide
  <2> QED
    BY <2>1, <2>2, ConstantsAssumption
<1>2. {l \in Levels : Top(book)[l] # 0} = S("bids") \cup S("asks")
  <2>1. \A l \in Levels : l[1] = "bids" \/ l[1] = "asks"
    BY DEF Levels, Sides
  <2> QED
    BY <2>1 DEF OnSide
<1>3. PICK b, a : b = S("bids") /\ a = S("asks")
  OBVIOUS
<1>4. /\ IsFiniteSet(b) /\ Cardinality(b) \in Nat /\ Cardinality(b) <= Depth
      /\ IsFiniteSet(a) /\ Cardinality(a) \in Nat /\ Cardinality(a) <= Depth
  BY <1>1, <1>3 DEF Sides
<1>5. Cardinality(b \cup a) = Cardinality(b) + Cardinality(a) - Cardinality(b \cap a)
  BY <1>4, FS_Union
<1>6. Cardinality(b \cap a) \in Nat
  BY <1>4, FS_Intersection, FS_CardinalityType
<1>7. Cardinality(b \cup a) <= BufferLevels
  BY <1>4, <1>5, <1>6, ConstantsAssumption
<1> QED
  BY <1>2, <1>3, <1>7 DEF Fits

-----------------------------------------------------------------------------
(* What the core holds, and whether the socket goes deaf *)

DepthInv ==
  /\ \A m \in known \ lost : core[m] = Top(markets_map[m])
  /\ BoundedDepthNeverDeaf

LEMMA DepthRead ==
  ASSUME TypeOK, TypeOK', DepthInv, NEW ok \in SUBSET Markets,
         orderbook_prepare(markets_map', known', ok)
  PROVE  DepthInv'
<1>1. \A m \in Markets : markets_map'[m] \in Book
  BY DEF TypeOK
<1>2. known' \subseteq Markets
  BY DEF TypeOK
<1>3. \A m \in known' \ lost' : core'[m] = Top(markets_map'[m])
  BY <1>2 DEF orderbook_prepare
<1>4. BoundedDepthNeverDeaf'
  <2> SUFFICES ASSUME Depth >= 0, 2 * Depth <= BufferLevels PROVE link' # "deaf"
    BY DEF BoundedDepthNeverDeaf
  <2>1. {m \in known' : ~Fits(markets_map'[m])} = {}
    BY <1>1, <1>2, BoundedFits
  <2>2. link' = link
    BY <2>1 DEF orderbook_prepare
  <2> QED
    BY <2>2 DEF DepthInv, BoundedDepthNeverDeaf
<1> QED
  BY <1>3, <1>4 DEF DepthInv

LEMMA DepthStep == TypeOK /\ TypeOK' /\ DepthInv /\ [Next]_vars => DepthInv'
<1> SUFFICES ASSUME TypeOK, TypeOK', DepthInv, [Next]_vars PROVE DepthInv'
  OBVIOUS
<1>1. ASSUME UNCHANGED <<known, lost, core, markets_map>>, link' = link \/ link' # "deaf"
      PROVE  DepthInv'
  BY <1>1 DEF DepthInv, BoundedDepthNeverDeaf
<1>2. ASSUME NEW m \in Markets, NEW after \in Book, Trade(m, after) PROVE DepthInv'
  BY <1>1, <1>2 DEF Trade
<1>3. ASSUME NEW m \in Markets, Snapshot(m) PROVE DepthInv'
  BY <1>1, <1>3 DEF Snapshot
<1>4. ASSUME NEW k \in 0..Len(chan), Break(k) PROVE DepthInv'
  BY <1>1, <1>4 DEF Break
<1>5. ASSUME NEW ok \in SUBSET Markets, public_ws_handler_partial(ok) PROVE DepthInv'
  BY <1>5, DepthRead DEF public_ws_handler_partial
<1>6. ASSUME NEW ok \in SUBSET Markets, public_ws_handler_update(ok) PROVE DepthInv'
  BY <1>6, DepthRead DEF public_ws_handler_update
<1>7. CASE restart_public_ws
  BY <1>1, <1>7 DEF restart_public_ws
<1>8. CASE UNCHANGED vars
  BY <1>1, <1>8 DEF vars
<1> QED
  BY <1>2, <1>3, <1>4, <1>5, <1>6, <1>7, <1>8 DEF Next

LEMMA DepthInvariant == Spec => []DepthInv
<1>1. Init => DepthInv
  BY DEF Init, DepthInv, BoundedDepthNeverDeaf
<1> QED
  BY <1>1, DepthStep, TypeCorrect, PTL DEF Spec

\* What the core holds of a market is the best of _markets_map to the depth configured,
\* as long as the market's last message was not lost (orderbook_prepare).
THEOREM HoldsBest == Spec => []CoreHoldsBest
<1>1. TypeOK /\ DepthInv => CoreHoldsBest
  <2> SUFFICES ASSUME TypeOK, DepthInv, NEW m \in known \ lost, NEW side \in Sides
               PROVE  LET have == OnSide(markets_map[m], side)
                          sent == OnSide(core[m], side)
                      IN /\ sent \subseteq have
                         /\ \A l \in sent : core[m][l] = markets_map[m][l]
                         /\ \A l \in sent, k \in have \ sent :
                              IF side = "asks" THEN l[2] < k[2] ELSE l[2] > k[2]
                         /\ Depth < 0 => sent = have
                         /\ Depth >= 0 => \/ sent = have
                                          \/ Cardinality(sent) = Depth /\ Depth < Cardinality(have)
    BY Zenon DEF CoreHoldsBest
  <2>1. PICK have, sent, book : /\ have = OnSide(markets_map[m], side)
                                /\ sent = OnSide(core[m], side) /\ book = markets_map[m]
    OBVIOUS
  <2>2. book \in Book /\ core[m] = Top(book)
    BY <2>1 DEF TypeOK, DepthInv
  <2>3. /\ sent \subseteq have /\ \A l \in sent : Top(book)[l] = book[l]
        /\ \A l \in sent, k \in have \ sent : Better(l, k)
        /\ Depth < 0 => sent = have
        /\ Depth >= 0 => \/ sent = have /\ Cardinality(sent) <= Depth
                         \/ Cardinality(sent) = Depth /\ Depth < Cardinality(have)
    BY <2>1, <2>2, TopSide
  <2>4. \A k \in have : k[1] = side
    BY <2>1 DEF OnSide
  <2>5. \A l \in sent, k \in have \ sent : IF side = "asks" THEN l[2] < k[2] ELSE l[2] > k[2]
    BY <2>3, <2>4, Zenon DEF Better
  <2> QED
    BY <2>1, <2>2, <2>3, <2>5
<1> QED
  BY <1>1, DepthInvariant, TypeCorrect, PTL

\* Whatever levels _markets_map piles up over restarts, a depth whose two sides fit the
\* buffer of the channel never makes the offer throw out of the handler.
THEOREM NeverDeaf == Spec => []BoundedDepthNeverDeaf
<1>1. DepthInv => BoundedDepthNeverDeaf
  BY DEF DepthInv
<1> QED
  BY <1>1, DepthInvariant, PTL

\* Of a market that is subscribed and has no message in flight, no level of the exchange's
\* present book is missing; and before the first restart the core holds its best levels,
\* unless the market's last message to it was lost.
CaughtUp ==
  \A m \in subs :
    (\A i \in 1..Len(chan) : chan[i].market # m) =>
      /\ \A l \in Levels : exBook[m][l] # 0 => markets_map[m][l] # 0
      /\ restarts = 0 /\ m \in known \ lost => core[m] = Top(exBook[m])

\* Once public_ws_handler has read what was in flight, the core is up to date: no message
\* is left out or merged wrongly whatever came before it, offers that failed included.
THEOREM UpToDate == Spec => []CaughtUp
<1>1. BookInv /\ MirrorUntilRestart /\ NeverMissesLevel /\ DepthInv => CaughtUp
  <2> SUFFICES ASSUME BookInv, MirrorUntilRestart, NeverMissesLevel, DepthInv,
                      NEW m \in subs, \A i \in 1..Len(chan) : chan[i].market # m
               PROVE  /\ \A l \in Levels : exBook[m][l] # 0 => markets_map[m][l] # 0
                      /\ restarts = 0 /\ m \in known \ lost => core[m] = Top(exBook[m])
    BY DEF CaughtUp
  <2>1. source[m] = exBook[m]
    BY DEF BookInv, ChainInv, ChainDone
  <2>2. m \in Markets
    BY DEF BookInv, TypeOK
  <2>3. \A l \in Levels : exBook[m][l] # 0 => markets_map[m][l] # 0
    BY <2>1, <2>2 DEF NeverMissesLevel
  <2>4. restarts = 0 /\ m \in known \ lost => core[m] = Top(exBook[m])
    BY <2>1 DEF MirrorUntilRestart, DepthInv
  <2> QED
    BY <2>3, <2>4
<1> QED
  BY <1>1, BookInvariant, MirrorTheorem, NeverMissesTheorem, DepthInvariant, PTL
=============================================================================
