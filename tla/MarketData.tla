----------------------------- MODULE MarketData -----------------------------
(***************************************************************************)
(* The path of an order book from the exchange to the core:                *)
(*                                                                         *)
(*   exchange --public WebSocket--> public_ws_handler --> _markets_map     *)
(*            --> orderbook_prepare / orderbook_sender --> core            *)
(*                                                                         *)
(* public_ws_handler merges "partial" (snapshot) and "update" messages     *)
(* into _markets_map and publishes every market it knows after each of     *)
(* them.  When the read of the socket fails, main restarts the socket;     *)
(* _markets_map survives the restart.                                      *)
(*                                                                         *)
(* A book maps every level (a side and a price) to the quantity offered    *)
(* there; quantity 0 stands for a key that is not in the C++ map.          *)
(***************************************************************************)
EXTENDS Integers, Sequences, FiniteSets

CONSTANTS NumMarkets,   \* configured markets, numbered in the key order of _markets_map
          Prices,       \* prices a level may have
          Sizes,        \* quantities a level may have, none of them 0
          Depth,        \* _sended_orderbook_depth, an int taken from the config
          BufferLevels, \* levels that fit into the 8192 bytes of _orderbook_channel
          MaxTrades,    \* bound: changes of the exchange's books
          MaxQueue,     \* bound: messages in flight on the socket
          MaxRestarts   \* bound: restarts of the public socket

ASSUME ConstantsAssumption ==
  /\ NumMarkets \in Nat \ {0}
  /\ Prices \subseteq Int /\ IsFiniteSet(Prices)
  /\ Sizes \subseteq Nat \ {0}
  /\ Depth \in Int
  /\ BufferLevels \in Nat
  /\ MaxTrades \in Nat /\ MaxQueue \in Nat /\ MaxRestarts \in Nat

Markets   == 1..NumMarkets
Sides     == {"bids", "asks"}
Levels    == Sides \X Prices
Quantity  == Sizes \cup {0}
Book      == [Levels -> Quantity]
EmptyBook == [l \in Levels |-> 0]
Changes   == UNION {[D -> Quantity] : D \in SUBSET Levels}

\* A message of the orderbook channel.  "before" and "after" are history: the
\* exchange's book of the market before and after the message; no action of the
\* gateway reads them.
Message == [type : {"partial", "update"}, market : Markets, levels : Changes,
            before : Book, after : Book]

VARIABLES exBook,      \* the exchange's books
          subs,        \* markets the exchange publishes on this connection
          asked,       \* markets subscribe_orderbook was written for on it
          link,        \* the public socket, see LinkStates
          chan,        \* messages in flight on it, oldest first
          markets_map, \* _markets_map
          known,       \* the markets that are keys of _markets_map
          core,        \* the book last delivered to the core, for each market
          source,      \* history: exchange's book as of the last handled message
          touched,     \* history: levels an update of this connection named
          lost,        \* history: markets whose last orderbook was not delivered
          trades,      \* bounded counter of exchange changes
          restarts     \* bounded counter of restarts

vars == <<exBook, subs, asked, link, chan, markets_map, known, core,
          source, touched, lost, trades, restarts>>

\* "open"    connected, a read is armed;
\* "broken"  the connection is gone, the bytes already received are still read;
\* "deaf"    connected, but the handler threw before on_read armed the next read;
\* "null"    _ftx_ws_public holds nothing: the last construction threw.
LinkStates == {"open", "broken", "deaf", "null"}

TypeOK ==
  /\ exBook \in [Markets -> Book]
  /\ subs \in SUBSET Markets
  /\ asked \in SUBSET Markets
  /\ link \in LinkStates
  /\ chan \in Seq(Message)
  /\ markets_map \in [Markets -> Book]
  /\ known \in SUBSET Markets
  /\ core \in [Markets -> Book]
  /\ source \in [Markets -> Book]
  /\ touched \in [Markets -> SUBSET Levels]
  /\ lost \in SUBSET Markets
  /\ trades \in Nat
  /\ restarts \in Nat

-----------------------------------------------------------------------------
(* Books *)

\* Slip: a snapshot is taken only into an empty book.
MergePartial_FirstOnly(old, snap) ==
  [l \in Levels |-> IF old # EmptyBook \/ l \notin DOMAIN snap THEN old[l] ELSE snap[l]]

\* std::map::insert of every level of a snapshot: a key that is there is kept.
MergePartial(old, snap) ==
  [l \in Levels |-> IF old[l] # 0 \/ l \notin DOMAIN snap THEN old[l] ELSE snap[l]]

\* Slips in the loop over an update: sizes added up, a size of 0 not erased, a size
\* inserted where it should be assigned.
ApplyUpdate_Adds(old, ch) ==
  [l \in Levels |-> IF l \notin DOMAIN ch THEN old[l]
                    ELSE IF ch[l] = 0 THEN 0 ELSE old[l] + ch[l]]

ApplyUpdate_NoErase(old, ch) ==
  [l \in Levels |-> IF l \in DOMAIN ch /\ ch[l] # 0 THEN ch[l] ELSE old[l]]

ApplyUpdate_Inserts(old, ch) ==
  [l \in Levels |-> IF l \in DOMAIN ch /\ (ch[l] = 0 \/ old[l] = 0) THEN ch[l] ELSE old[l]]

\* The loop over an update: size 0 erases the key, any other size is assigned.
ApplyUpdate(old, ch) ==
  [l \in Levels |-> IF l \in DOMAIN ch THEN ch[l] ELSE old[l]]

\* What a "partial" message carries, and what an "update" message carries.
LevelsOf(book)  == [l \in {k \in Levels : book[k] # 0} |-> book[l]]
Diff(old, new)  == [l \in {k \in Levels : new[k] # old[k]} |-> new[l]]

OnSide(book, side) == {l \in Levels : l[1] = side /\ book[l] # 0}

\* Slips: one level too many, a comparison of signed integers.
HowMany_OffByOne(n) == IF Depth < 0 \/ n < Depth THEN n ELSE Depth + 1
HowMany_Signed(n)   == IF n < Depth THEN n ELSE Depth

\* how_can_much: size() is unsigned, so a negative depth converts to a huge one.
HowMany(n) == IF Depth < 0 \/ n < Depth THEN n ELSE Depth

\* Slip: both sides from the lowest price.
Rank_Ascending(book, l) == Cardinality({k \in OnSide(book, l[1]) : k[2] <= l[2]})

\* The place of a level in its side: asks from the lowest price, bids from the highest.
Rank(book, l) ==
  Cardinality({k \in OnSide(book, l[1]) :
                 IF l[1] = "asks" THEN k[2] <= l[2] ELSE k[2] >= l[2]})

\* The levels of a book that orderbook_prepare sends.
Top(book) ==
  [l \in Levels |->
     IF Rank(book, l) <= HowMany(Cardinality(OnSide(book, l[1]))) THEN book[l] ELSE 0]

\* Publisher::offer copies the message into a fixed buffer; the copy throws when
\* it is too long.
Fits(book) == Cardinality({l \in Levels : Top(book)[l] # 0}) <= BufferLevels

Uncrossed(book) ==
  \A b \in OnSide(book, "bids"), a \in OnSide(book, "asks") : b[2] < a[2]

-----------------------------------------------------------------------------
Init ==
  /\ exBook = [m \in Markets |-> EmptyBook]
  /\ subs = {}
  /\ asked = Markets
  /\ link = "open"
  /\ chan = <<>>
  /\ markets_map = [m \in Markets |-> EmptyBook]
  /\ known = {}
  /\ core = [m \in Markets |-> EmptyBook]
  /\ source = [m \in Markets |-> EmptyBook]
  /\ touched = [m \in Markets |-> {}]
  /\ lost = {}
  /\ trades = 0
  /\ restarts = 0

(* The exchange *)

\* The book of market m becomes "after"; a subscriber is sent the changed levels.
Trade(m, after) ==
  /\ trades < MaxTrades
  /\ after # exBook[m] /\ Uncrossed(after)
  /\ m \in subs => Len(chan) < MaxQueue
  /\ exBook' = [exBook EXCEPT ![m] = after]
  /\ chan' = IF m \in subs
             THEN Append(chan, [type |-> "update", market |-> m,
                                levels |-> Diff(exBook[m], after),
                                before |-> exBook[m], after |-> after])
             ELSE chan
  /\ trades' = trades + 1
  /\ UNCHANGED <<subs, asked, link, markets_map, known, core, source, touched,
                 lost, restarts>>

\* The exchange takes the subscription of m and answers with its whole book.
Snapshot(m) ==
  /\ m \in asked \ subs
  /\ Len(chan) < MaxQueue
  /\ subs' = subs \cup {m}
  /\ chan' = Append(chan, [type |-> "partial", market |-> m,
                           levels |-> LevelsOf(exBook[m]),
                           before |-> exBook[m], after |-> exBook[m]])
  /\ UNCHANGED <<exBook, asked, link, markets_map, known, core, source, touched,
                 lost, trades, restarts>>

\* The connection breaks; only the first k messages in flight have arrived.
Break(k) ==
  /\ link = "open"
  /\ link' = "broken"
  /\ chan' = SubSeq(chan, 1, k)
  /\ subs' = {}
  /\ asked' = {}
  /\ UNCHANGED <<exBook, markets_map, known, core, source, touched, lost, trades,
                 restarts>>

(* The gateway *)

\* orderbook_prepare sends every known market, in key order; ok is the set of
\* those whose offer (or its one retry) succeeds.  A message that does not fit
\* throws out of on_read, which then arms no further read.
orderbook_prepare(mm, kn, ok) ==
  LET overlong == {m \in kn : ~Fits(mm[m])}
  IN /\ ok \subseteq {m \in kn : \A o \in overlong : m < o}
     /\ core' = [m \in Markets |-> IF m \in ok THEN Top(mm[m]) ELSE core[m]]
     /\ lost' = kn \ ok
     /\ IF overlong = {}
        THEN /\ chan' = Tail(chan)
             /\ UNCHANGED <<link, subs, asked>>
        ELSE /\ link' = "deaf"
             /\ chan' = <<>> /\ subs' = {} /\ asked' = {}

\* public_ws_handler on a "partial" message.
public_ws_handler_partial(ok) ==
  /\ link \in {"open", "broken"} /\ chan # <<>>
  /\ LET msg == Head(chan)
         m   == msg.market
     IN /\ msg.type = "partial"
        /\ markets_map' = [markets_map EXCEPT ![m] = MergePartial(@, msg.levels)]
        /\ known' = IF DOMAIN msg.levels = {} THEN known ELSE known \cup {m}
        /\ source' = [source EXCEPT ![m] = msg.after]
        /\ orderbook_prepare(markets_map', known', ok)
        /\ UNCHANGED <<exBook, touched, trades, restarts>>

\* public_ws_handler on an "update" message.
public_ws_handler_update(ok) ==
  /\ link \in {"open", "broken"} /\ chan # <<>>
  /\ LET msg == Head(chan)
         m   == msg.market
     IN /\ msg.type = "update"
        /\ markets_map' = [markets_map EXCEPT ![m] = ApplyUpdate(@, msg.levels)]
        /\ known' = IF DOMAIN msg.levels = {} THEN known ELSE known \cup {m}
        /\ source' = [source EXCEPT ![m] = msg.after]
        /\ touched' = [touched EXCEPT ![m] = @ \cup DOMAIN msg.levels]
        /\ orderbook_prepare(markets_map', known', ok)
        /\ UNCHANGED <<exBook, trades, restarts>>

\* The read fails after the last message received: main restarts the public
\* socket.  create_public_ws subscribes the markets in turn; construction or a
\* subscription may throw, its result is not looked at, and a socket whose
\* subscription threw is kept with its read armed, connected or broken again.
restart_public_ws ==
  /\ link = "broken" /\ chan = <<>>
  /\ restarts < MaxRestarts
  /\ restarts' = restarts + 1
  /\ \/ link' \in {"null", "broken"} /\ asked' = {}
     \/ \E n \in 0..NumMarkets : link' = "open" /\ asked' = 1..n
  /\ source' = [m \in Markets |-> EmptyBook]
  /\ touched' = [m \in Markets |-> {}]
  /\ UNCHANGED <<exBook, subs, chan, markets_map, known, core, lost, trades>>

Next ==
  \/ \E m \in Markets, after \in Book : Trade(m, after)
  \/ \E m \in Markets : Snapshot(m)
  \/ \E k \in 0..Len(chan) : Break(k)
  \/ \E ok \in SUBSET Markets : public_ws_handler_partial(ok)
  \/ \E ok \in SUBSET Markets : public_ws_handler_update(ok)
  \/ restart_public_ws

Spec == Init /\ [][Next]_vars

\* The loop keeps polling the socket, and the exchange answers a subscription;
\* connections need not break, and a broken one need not be restarted.
Fairness ==
  /\ WF_vars(\E ok \in SUBSET Markets :
               public_ws_handler_partial(ok) \/ public_ws_handler_update(ok))
  /\ \A m \in Markets : WF_vars(Snapshot(m))

FairSpec == Spec /\ Fairness

-----------------------------------------------------------------------------
(* Properties *)

\* Until the first restart, _markets_map is the book the exchange had as of the
\* last message handled, level by level: no message is merged wrongly, whatever
\* the interleaving of trades, subscriptions and reads.
MirrorUntilRestart == restarts = 0 => markets_map = source

\* Across restarts the merge never loses a level: a level of the exchange's book
\* as of the last message is in _markets_map, though maybe with an old size.
NeverMissesLevel ==
  \A m \in Markets, l \in Levels : source[m][l] # 0 => markets_map[m][l] # 0

\* A level named by an update of the current connection is exact, even when the
\* snapshot of the connection was merged into the book of an earlier one.
TouchedLevelsExact ==
  \A m \in Markets : \A l \in touched[m] : markets_map[m][l] = source[m][l]

\* The order book the core holds never offers to buy at or above a price it
\* offers to sell at, up to the first restart.
CoreUncrossed == restarts = 0 => \A m \in Markets : Uncrossed(core[m])

\* What was delivered is the best of the book, stated without ranks: the levels
\* sent carry the book's sizes, are as many as the depth allows, and none left
\* out is better than one sent.  A market goes stale in the core only when its own
\* last message was lost, because each message publishes every market again.
CoreHoldsBest ==
  \A m \in known \ lost : \A side \in Sides :
    LET have == OnSide(markets_map[m], side)
        sent == OnSide(core[m], side)
    IN /\ sent \subseteq have
       /\ \A l \in sent : core[m][l] = markets_map[m][l]
       /\ \A l \in sent, k \in have \ sent :
            IF side = "asks" THEN l[2] < k[2] ELSE l[2] > k[2]
       /\ Depth < 0 => sent = have
       /\ Depth >= 0 => \/ sent = have
                        \/ Cardinality(sent) = Depth /\ Depth < Cardinality(have)

\* A depth whose two sides fit into the channel's buffer keeps the socket from
\* going deaf, however many levels _markets_map accumulates over restarts.
BoundedDepthNeverDeaf == (Depth >= 0 /\ 2 * Depth <= BufferLevels) => link # "deaf"

\* On a connection that stays up the core ends up with the exchange's current
\* best levels (unless the last offer was lost): nothing in flight is forgotten.
CoreCatchesUp ==
  \A m \in Markets :
    []<>(\/ link # "open" \/ restarts > 0 \/ m \in lost
         \/ core[m] = Top(exBook[m]))

\* The promise of the market data while the first connection lasts: a message stands
\* for the exchange's book after it.
Feed == INSTANCE BookFeed
          WITH Books   <- Book,
               View    <- [b \in Book |-> Top(b)],
               book    <- exBook,
               pending <- [i \in 1..Len(chan) |->
                             [market |-> chan[i].market, book |-> chan[i].after]],
               taken   <- source,
               live    <- restarts = 0

\* However snapshots, updates, breaks and failed sends interleave, the core is given
\* whole states of the exchange's books, in their order and each at most once.
ImplementsFeed == Feed!Spec

\* What the comment at the head of the "partial" branch says: the book is cleared,
\* so after a snapshot is handled the map holds that snapshot and nothing else.
SnapshotReplaces ==
  [][\A ok \in SUBSET Markets : public_ws_handler_partial(ok) =>
       LET m == Head(chan).market IN markets_map'[m] = Head(chan).after]_vars
=============================================================================
