------------------------------- MODULE Orders -------------------------------
(***************************************************************************)
(* The life of an order between the core and the exchange:                 *)
(*                                                                         *)
(*   core --Aeron--> aeron_handler --async REST session--> exchange        *)
(*   exchange --private WebSocket--> private_ws_handler --Aeron--> core    *)
(*   exchange --REST reply--> place_*_handler, status_order_handler        *)
(*                                                                         *)
(* Every command for an order starts a session of its own; sessions finish *)
(* in any order and may fail at any stage without a word.  What became of  *)
(* an order the core learns from the private socket, or by asking.         *)
(***************************************************************************)
EXTENDS Integers, Sequences, FiniteSets

CONSTANTS Markets,     \* the configured markets, _markets, in their order
          Commands,    \* the messages the core may send
          Scripts,     \* bound: the sequences of them that it sends
          MaxOrders,   \* bound: orders the exchange creates
          MaxBreaks,   \* bound: times the private connection breaks
          Wrong        \* a value of a type that the field should not have

\* Fields of an element of "data" that aeron_handler reads.
Fields == {"symbol", "type", "side", "price", "amount", "id", "client_id"}

Configured == {Markets[n] : n \in 1..Len(Markets)}

\* Identifiers of orders; 0 is no order's identifier.
OrderIds == 1..MaxOrders

\* Fields converted without a look at the result: a value that is no string throws.
\* The other fields are then taken for absent.
Unchecked == {"symbol", "type"}

\* The fields of an element that aeron_handler can read.
Readable(element) == {f \in DOMAIN element : element[f] # Wrong}

\* The locals of aeron_handler before the first element.
Defaults == [f \in Fields |-> IF f = "id" THEN 0 ELSE ""]

\* A message: its action, whether "data" is an array, and its elements, each a
\* function from the fields present to their values.
ASSUME CommandsAssumption ==
  /\ Len(Markets) \in Nat
  /\ \A m, n \in 1..Len(Markets) : m # n => Markets[m] # Markets[n]
  /\ Scripts \subseteq Seq(Commands) /\ MaxOrders \in Nat /\ MaxBreaks \in Nat
  /\ \A c \in Commands : /\ c.array \in BOOLEAN
                         /\ Len(c.data) \in Nat
                         /\ \A n \in 1..Len(c.data) : DOMAIN c.data[n] \subseteq Fields

VARIABLES script,    \* messages the core will still send
          inbox,     \* messages of the core not yet polled
          sessions,  \* all REST sessions, in the order they were started
          orders,    \* the exchange: the states each order has gone through
          meta,      \* the exchange: what each order was created with, and its session
          link,      \* the private socket: "open" or "broken"
          updates,   \* order updates in flight on it: order and index of its state
          breaks,    \* bounded counter of breaks
          told,      \* history: what the core was told of each order
          logged,    \* history: sessions whose error reply went to the log server
          dropped,   \* history: orders of which an update was lost on its way
          swept      \* history: of each cancel_all_orders, the sessions started before
                     \* it, those the exchange had not seen, and the markets it failed for

vars == <<script, inbox, sessions, orders, meta, link, updates, breaks, told, logged,
          dropped, swept>>

Kinds  == {"create", "cancel", "status"}
Stages == {"requested", "answered", "done"}

\* Values an uninitialised price may have.
Garbage == {"0", "garbage"}

\* What an order is at the exchange: remaining is 0 once it is closed.
OrderState == [status : {"new", "open", "closed"}, filled : {"none", "part", "all"}]

TypeOK ==
  /\ script \in Seq(Commands) /\ inbox \in Seq(Commands)
  /\ \A i \in 1..Len(sessions) :
       /\ sessions[i].kind \in Kinds /\ sessions[i].stage \in Stages
       /\ DOMAIN sessions[i].args = Fields
  /\ DOMAIN orders = 1..Len(meta) /\ Len(meta) <= MaxOrders
  /\ \A o \in DOMAIN orders : orders[o] \in Seq(OrderState) /\ orders[o] # <<>>
  /\ link \in {"open", "broken"}
  /\ \A i \in 1..Len(updates) :
       updates[i].order \in DOMAIN orders /\ updates[i].at \in DOMAIN orders[updates[i].order]
  /\ \A o \in OrderIds : \A i \in 1..Len(told[o]) : told[o][i].at \in DOMAIN orders[o]
  /\ dropped \subseteq OrderIds /\ breaks \in 0..MaxBreaks
  /\ logged \subseteq DOMAIN sessions

Init ==
  /\ script \in Scripts /\ inbox = <<>> /\ sessions = <<>>
  /\ orders = <<>> /\ meta = <<>>
  /\ link = "open" /\ updates = <<>> /\ breaks = 0
  /\ told = [o \in OrderIds |-> <<>>]
  /\ logged = {} /\ dropped = {}
  /\ swept = {}

Now(o)  == orders[o][Len(orders[o])]
Live(o) == Now(o).status # "closed"

-----------------------------------------------------------------------------
(* The core *)

send_command ==
  /\ script # <<>>
  /\ script' = Tail(script)
  /\ inbox' = Append(inbox, Head(script))
  /\ UNCHANGED <<sessions, orders, meta, link, updates, breaks, told, logged, dropped, swept>>

-----------------------------------------------------------------------------
(* aeron_handler *)

\* Slip: a local that has a value is not read again.
Giver_First(data, n, f) ==
  {k \in 1..n : f \in Readable(data[k]) /\ \A j \in 1..(k - 1) : f \notin Readable(data[j])}

\* The element that gave field f the value it has when the n-th element is acted upon:
\* a field that can be read overwrites the local, any other field leaves it.
Giver(data, n, f) ==
  {k \in 1..n : f \in Readable(data[k]) /\ \A j \in (k + 1)..n : f \notin Readable(data[j])}

\* The locals at that time: they are declared once for the whole message.
LocalsAt(data, n) ==
  [f \in Fields |-> IF Giver(data, n, f) = {} THEN Defaults[f]
                    ELSE data[CHOOSE k \in Giver(data, n, f) : TRUE][f]]

Throws(element) == ~ (Unchecked \cap DOMAIN element \subseteq Readable(element))

\* The elements that are acted upon: the first one that throws ends the loop.
Reached(data) == {n \in 1..Len(data) : \A k \in 1..n : ~Throws(data[k])}

\* The kind of session an action asks for; create_order wants a side, a symbol and a
\* type.
KindOf(action) == CASE action = "create_order" -> "create"
                    [] action = "cancel_order" -> "cancel"
                    [] action = "order_status" -> "status"
                    [] OTHER -> "none"

Asks(action, args) ==
  /\ KindOf(action) # "none"
  /\ KindOf(action) = "create" =>
       args["side"] \in {"buy", "sell"} /\ args["symbol"] # "" /\ args["type"] # ""

\* The body place_order sends: anything but a limit order is a market order, whose
\* price is 0.
Body(kind, args) ==
  IF kind # "create" \/ args["type"] = "limit" THEN args
  ELSE [args EXCEPT !["type"] = "market", !["price"] = "0"]

\* The elements that start a session.
Starting(action, data) == {n \in Reached(data) : Asks(action, LocalsAt(data, n))}

\* How many states order o has gone through.
Count(o) == IF o \in DOMAIN orders THEN Len(orders[o]) ELSE 0

\* The session the n-th element starts.  Two fields are history: "own", that element, and
\* "since", the states each order had gone through when a question for one was started.
Session(action, data, n) ==
  [kind |-> KindOf(action), args |-> Body(KindOf(action), LocalsAt(data, n)),
   own |-> data[n],
   since |-> [o \in OrderIds |-> IF KindOf(action) = "status" THEN Count(o) ELSE 0],
   stage |-> "requested", ok |-> FALSE, order |-> 0, at |-> 0]

\* The enumeration of a set of positions from the first to the last.
Ascending(S) == {e \in [1..Cardinality(S) -> S] : \A i, j \in DOMAIN e : i < j => e[i] < e[j]}

\* The exchange moves order o to state s, and tells the private socket of it.
Moved(os, o, s) == [os EXCEPT ![o] = Append(@, s)]

TellSocket(os, changed) ==
  IF link = "open"
  THEN /\ \E perm \in [1..Cardinality(changed) -> changed] :
            /\ \A i, j \in DOMAIN perm : i # j => perm[i] # perm[j]
            /\ updates' = updates \o [i \in DOMAIN perm |-> [order |-> perm[i], at |-> Len(os[perm[i]])]]
       /\ UNCHANGED dropped
  ELSE /\ dropped' = dropped \cup changed
       /\ UNCHANGED updates

\* A message for orders whose data is an array; its sessions are started at once.
aeron_handler_array ==
  /\ inbox # <<>>
  /\ Head(inbox).array
  /\ Head(inbox).action # "cancel_all_orders"
  /\ LET action == Head(inbox).action
         data   == Head(inbox).data
     IN \E e \in Ascending(Starting(action, data)) :
          sessions' = sessions \o [j \in DOMAIN e |-> Session(action, data, e[j])]
  /\ inbox' = Tail(inbox)
  /\ UNCHANGED <<script, orders, meta, link, updates, breaks, told, logged, dropped, swept>>

\* Slip: the first error ends the loop over the markets.
Cancelled_Break(failed) ==
  {o \in DOMAIN orders : Live(o) /\ \E n \in 1..Len(Markets) :
     meta[o].market = Markets[n] /\ \A k \in 1..n : Markets[k] \notin failed}

\* The orders that the loop over the markets cancels when it fails for some of them:
\* an error is logged, and the next market is asked.
Cancelled(failed) ==
  {o \in DOMAIN orders : Live(o) /\ meta[o].market \in Configured \ failed}

\* cancel_all_orders: a synchronous request for each configured market in turn.  All
\* of it is done for each element the loop gets to, or once when data is no array; "failed"
\* are the markets whose every request failed.
cancel_all_orders(failed) ==
  /\ inbox # <<>>
  /\ Head(inbox).action = "cancel_all_orders"
  /\ inbox' = Tail(inbox)
  /\ IF Head(inbox).array /\ Reached(Head(inbox).data) = {}
     THEN UNCHANGED <<orders, updates, dropped, swept>>
     ELSE LET closed == Cancelled(failed)
          IN /\ orders' = [o \in DOMAIN orders |->
                             IF o \in closed
                             THEN Append(orders[o], [Now(o) EXCEPT !.status = "closed"])
                             ELSE orders[o]]
             /\ TellSocket(orders', closed)
             /\ swept' = swept \cup {[upto |-> Len(sessions),
                                      unseen |-> {i \in DOMAIN sessions :
                                                    sessions[i].stage = "requested"},
                                      failed |-> failed]}
  /\ UNCHANGED <<script, sessions, meta, link, breaks, told, logged>>

\* Without an array every other order command is only logged.
aeron_handler_no_array ==
  /\ inbox # <<>>
  /\ ~Head(inbox).array
  /\ Head(inbox).action # "cancel_all_orders"
  /\ inbox' = Tail(inbox)
  /\ UNCHANGED <<script, sessions, orders, meta, link, updates, breaks, told, logged, dropped, swept>>

-----------------------------------------------------------------------------
(* The exchange *)

\* The order a cancel or status request means: by client_id when a status request
\* has one, else by id.
Target(s) ==
  IF s.kind = "status" /\ s.args["client_id"] # ""
  THEN {o \in DOMAIN orders : meta[o].client_id = s.args["client_id"]}
  ELSE {o \in DOMAIN orders : o = s.args["id"]}

Answered(i, ok, o, at) ==
  sessions' = [sessions EXCEPT ![i].stage = "answered", ![i].ok = ok,
                               ![i].order = o, ![i].at = at]

\* A create request arrives: an order is made, or the request is refused.
exchange_creates(i, ok) ==
  /\ sessions[i].kind = "create" /\ sessions[i].stage = "requested"
  /\ IF ok
     THEN /\ Len(meta) < MaxOrders
          /\ meta' = Append(meta, [client_id |-> sessions[i].args["client_id"],
                               market |-> sessions[i].args["symbol"],
                               type |-> sessions[i].args["type"],
                               price |-> sessions[i].args["price"], session |-> i])
          /\ orders' = Append(orders, <<[status |-> "new", filled |-> "none"]>>)
          /\ TellSocket(orders', {Len(meta')})
     ELSE UNCHANGED <<meta, orders, updates, dropped>>
  /\ Answered(i, ok, IF ok THEN Len(meta') ELSE 0, IF ok THEN 1 ELSE 0)
  /\ UNCHANGED <<script, inbox, link, breaks, told, logged, swept>>

\* A cancel request arrives: it closes a live order, and is refused otherwise.
exchange_cancels(i) ==
  /\ sessions[i].kind = "cancel" /\ sessions[i].stage = "requested"
  /\ LET live == {o \in Target(sessions[i]) : Live(o)}
     IN \/ /\ live = {}
           /\ Answered(i, FALSE, 0, 0)
           /\ UNCHANGED <<orders, updates, dropped>>
        \/ \E o \in live :
             /\ orders' = Moved(orders, o, [Now(o) EXCEPT !.status = "closed"])
             /\ TellSocket(orders', {o})
             /\ Answered(i, TRUE, o, Len(orders'[o]))
  /\ UNCHANGED <<script, inbox, meta, link, breaks, told, logged, swept>>

\* A status request arrives and is answered with the order's present state.
exchange_reports(i) ==
  /\ sessions[i].kind = "status" /\ sessions[i].stage = "requested"
  /\ \/ Target(sessions[i]) = {} /\ Answered(i, FALSE, 0, 0)
     \/ \E o \in Target(sessions[i]) : Answered(i, TRUE, o, Len(orders[o]))
  /\ UNCHANGED <<script, inbox, orders, meta, link, updates, breaks, told, logged, dropped, swept>>

\* A trade at the exchange fills a part of order o, or all that is left.
exchange_fills(o) ==
  /\ Live(o)
  /\ \E s \in {[status |-> "open", filled |-> "part"], [status |-> "closed", filled |-> "all"]} :
       /\ s # Now(o)
       /\ orders' = Moved(orders, o, s)
  /\ TellSocket(orders', {o})
  /\ UNCHANGED <<script, inbox, sessions, meta, link, breaks, told, logged, swept>>

\* The private connection breaks and the last updates on their way are lost.
Break(k) ==
  /\ link = "open" /\ breaks < MaxBreaks
  /\ link' = "broken"
  /\ breaks' = breaks + 1
  /\ updates' = SubSeq(updates, 1, k)
  /\ dropped' = dropped \cup {updates[i].order : i \in (k + 1)..Len(updates)}
  /\ UNCHANGED <<script, inbox, sessions, orders, meta, told, logged, swept>>

\* Slip: a session that got no answer is started again.
session_fails_retry(i) ==
  /\ sessions[i].stage # "done"
  /\ sessions' = [sessions EXCEPT ![i].stage = "requested"]
  /\ UNCHANGED <<script, inbox, orders, meta, link, updates, breaks, told, logged, dropped, swept>>

\* A session fails at one of its stages: no handler is called, nothing is retried.
session_fails(i) ==
  /\ sessions[i].stage # "done"
  /\ sessions' = [sessions EXCEPT ![i].stage = "done"]
  /\ UNCHANGED <<script, inbox, orders, meta, link, updates, breaks, told, logged, dropped, swept>>

-----------------------------------------------------------------------------
(* The gateway's reports *)

\* Slip: an order that is closed with nothing remaining is taken for cancelled.
Description_RemainingOnly(s) ==
  CASE s.status = "new" -> [action |-> "order_created", message |-> "Order was created"]
    [] s.status = "closed" -> [action |-> "order_cancel", message |-> "Order was canceled"]
    [] OTHER -> [action |-> "", message |-> ""]

\* get_order_change_description: the action and message for the state of an order
\* with a side, where remaining is 0 exactly when it is closed.
Description(s) ==
  CASE s.status = "new" -> [action |-> "order_created", message |-> "Order was created"]
    [] s.status = "closed" /\ s.filled = "none" ->
         [action |-> "order_cancel", message |-> "Order was canceled"]
    [] s.status = "closed" /\ s.filled # "none" ->
         [action |-> "order_cancel", message |-> "Order was filled"]
    [] OTHER -> [action |-> "", message |-> ""]

\* Slip: a price without a fraction is not read.
PriceRead_Whole(o) == Garbage

\* The price in an order's local s_order: the exchange gives null for a market order,
\* and the field then is what the memory held.
PriceRead(o) == IF meta[o].type = "limit" THEN {meta[o].price} ELSE Garbage

\* Slips: the state before the update is told; nothing is told without an action.
order_status_prepare_previous(o, at, via, since, description, ok) ==
  \E price \in PriceRead(o) :
    told' = IF ok THEN [told EXCEPT ![o] = Append(@, [at |-> at - 1, via |-> via, since |-> since,
                                                      price |-> price, message |-> description.message])]
            ELSE told

order_status_prepare_named(o, at, via, since, description, ok) ==
  \E price \in PriceRead(o) :
    told' = IF ok /\ description.action # ""
            THEN [told EXCEPT ![o] = Append(@, [at |-> at, via |-> via, since |-> since,
                                                price |-> price, message |-> description.message])]
            ELSE told

\* order_status_prepare and order_status_sender; ok is whether the offer to the core
\* or its one retry succeeds.  "since" is history, see Session.
order_status_prepare(o, at, via, since, description, ok) ==
  \E price \in PriceRead(o) :
    told' = IF ok THEN [told EXCEPT ![o] = Append(@, [at |-> at, via |-> via, since |-> since,
                                                      price |-> price, message |-> description.message])]
            ELSE told

\* Slips: the newest update is taken first; a fill is left to the channel of fills.
private_ws_handler_newest(ok) ==
  /\ updates # <<>>
  /\ LET u == updates[Len(updates)]
     IN /\ order_status_prepare(u.order, u.at, "update", 0, Description(orders[u.order][u.at]), ok)
        /\ dropped' = IF ok THEN dropped ELSE dropped \cup {u.order}
  /\ updates' = SubSeq(updates, 1, Len(updates) - 1)
  /\ UNCHANGED <<script, inbox, sessions, orders, meta, link, breaks, logged, swept>>

private_ws_handler_no_fills(ok) ==
  /\ updates # <<>>
  /\ LET u == Head(updates)
     IN IF orders[u.order][u.at].filled = "all"
        THEN UNCHANGED <<told, dropped>>
        ELSE /\ order_status_prepare(u.order, u.at, "update", 0,
                                     Description(orders[u.order][u.at]), ok)
             /\ dropped' = IF ok THEN dropped ELSE dropped \cup {u.order}
  /\ updates' = Tail(updates)
  /\ UNCHANGED <<script, inbox, sessions, orders, meta, link, breaks, logged, swept>>

\* An update of an order, told to the core in the order of its arrival.
private_ws_handler(ok) ==
  /\ updates # <<>>
  /\ LET u == Head(updates)
     IN /\ order_status_prepare(u.order, u.at, "update", 0, Description(orders[u.order][u.at]), ok)
        /\ dropped' = IF ok THEN dropped ELSE dropped \cup {u.order}
  /\ updates' = Tail(updates)
  /\ UNCHANGED <<script, inbox, sessions, orders, meta, link, breaks, logged, swept>>

\* The read error after the last update: the socket is made anew and subscribes the
\* order channel; the orders themselves are not asked for.
restart_private_ws ==
  /\ link = "broken" /\ updates = <<>>
  /\ link' = "open"
  /\ UNCHANGED <<script, inbox, sessions, orders, meta, updates, breaks, told, logged, dropped, swept>>

\* place_create_order_handler and place_cancel_order_handler: success is only noted
\* in a file, an error goes to the log server.
place_order_handler(i, ok) ==
  /\ sessions[i].kind \in {"create", "cancel"} /\ sessions[i].stage = "answered"
  /\ sessions' = [sessions EXCEPT ![i].stage = "done"]
  /\ logged' = IF ~sessions[i].ok /\ ok THEN logged \cup {i} ELSE logged
  /\ UNCHANGED <<script, inbox, orders, meta, link, updates, breaks, told, dropped, swept>>

\* Slip: what is told may be the response to an earlier question.
status_order_handler_shared(i, ok) ==
  /\ sessions[i].kind = "status" /\ sessions[i].stage = "answered"
  /\ sessions' = [sessions EXCEPT ![i].stage = "done"]
  /\ IF sessions[i].ok
     THEN /\ \E j \in 1..i :
               /\ sessions[j].kind = "status" /\ sessions[j].ok
               /\ order_status_prepare(sessions[j].order, sessions[j].at, "reply",
                    sessions[i].since[sessions[j].order],
                    [action |-> "order_status", message |-> "Order status was received"], ok)
          /\ UNCHANGED logged
     ELSE /\ logged' = IF ok THEN logged \cup {i} ELSE logged
          /\ UNCHANGED told
  /\ UNCHANGED <<script, inbox, orders, meta, link, updates, breaks, dropped, swept>>

\* A status reply: the order's state is told to the core, an error goes to the log server.
status_order_handler(i, ok) ==
  /\ sessions[i].kind = "status" /\ sessions[i].stage = "answered"
  /\ sessions' = [sessions EXCEPT ![i].stage = "done"]
  /\ IF sessions[i].ok
     THEN /\ order_status_prepare(sessions[i].order, sessions[i].at, "reply",
               sessions[i].since[sessions[i].order],
               [action |-> "order_status", message |-> "Order status was received"], ok)
          /\ UNCHANGED logged
     ELSE /\ logged' = IF ok THEN logged \cup {i} ELSE logged
          /\ UNCHANGED told
  /\ UNCHANGED <<script, inbox, orders, meta, link, updates, breaks, dropped, swept>>

-----------------------------------------------------------------------------
aeron_handler == \/ aeron_handler_array \/ aeron_handler_no_array
                 \/ \E failed \in SUBSET Configured : cancel_all_orders(failed)

Exchange ==
  \/ \E i \in DOMAIN sessions : \/ \E ok \in BOOLEAN : exchange_creates(i, ok)
                                \/ exchange_cancels(i)
                                \/ exchange_reports(i)
  \/ \E o \in DOMAIN orders : exchange_fills(o)

Replies ==
  \E i \in DOMAIN sessions, ok \in BOOLEAN :
    place_order_handler(i, ok) \/ status_order_handler(i, ok)

Updates == \E ok \in BOOLEAN : private_ws_handler(ok)

Next ==
  \/ send_command
  \/ aeron_handler
  \/ Exchange
  \/ \E k \in 0..Len(updates) : Break(k)
  \/ \E i \in DOMAIN sessions : session_fails(i)
  \/ Replies
  \/ Updates
  \/ restart_private_ws

Spec == Init /\ [][Next]_vars

\* The loop polls the core's channel and reads the private socket for ever, and
\* answers of the exchange are handled; the exchange and the core owe nothing.
Fairness == WF_vars(aeron_handler) /\ WF_vars(Replies) /\ WF_vars(Updates)

FairSpec == Spec /\ Fairness

-----------------------------------------------------------------------------
(* Properties *)

\* What updates told the core of order o, and the updates of it in flight.
Via(o)      == {i \in 1..Len(told[o]) : told[o][i].via = "update"}
InFlight(o) == {i \in 1..Len(updates) : updates[i].order = o}

\* What updates tell the core of an order never goes back, nor will what is in flight.
InOrder(o) ==
  LET via == Via(o)
      flying == InFlight(o)
  IN /\ \A i, j \in via : i < j => told[o][i].at < told[o][j].at
     /\ \A i, j \in flying : i < j => updates[i].at < updates[j].at
     /\ \A i \in via, j \in flying : told[o][i].at < updates[j].at

\* Every change of an order is told once, in order, or is still in flight, however
\* sessions, replies and updates interleave; a change is missing only when an update of
\* its order was lost on the way.
ReportsComplete ==
  \A o \in DOMAIN orders :
    /\ InOrder(o)
    /\ o \notin dropped =>
         LET toldOf == {told[o][i].at : i \in Via(o)}
             flying == {updates[i].at : i \in InFlight(o)}
         IN 1..Len(orders[o]) \subseteq toldOf \cup flying

\* The number of the state of order o that updates told the core of last.
Heard(o) ==
  LET via == Via(o)
  IN IF via = {} THEN 0 ELSE told[o][CHOOSE i \in via : \A j \in via : j <= i].at

\* The promise to the core; a state of an order is known by its number.
News == INSTANCE OrderReports
          WITH Orders <- OrderIds,
               states <- [o \in OrderIds |-> Count(o)],
               heard  <- [o \in OrderIds |-> Heard(o)],
               gaps   <- dropped

\* Commands, sessions, replies, losses and restarts only ever move the orders or tell of
\* them as promised: no update is told twice, out of order, or after a gap unless one
\* was lost.
ImplementsNews == News!Spec

\* The core is told that an order was cancelled only when nothing of it was filled.
CanceledMeansNothingFilled ==
  \A o \in DOMAIN orders : \A i \in 1..Len(told[o]) :
    told[o][i].message = "Order was canceled" =>
      orders[o][told[o][i].at] = [status |-> "closed", filled |-> "none"]

\* No session makes two orders, and every order was asked for by the core: a failed
\* session is not tried again.
OneOrderPerRequest ==
  /\ \A o, p \in DOMAIN orders : o # p => meta[o].session # meta[p].session
  /\ \A o \in DOMAIN orders : sessions[meta[o].session].kind = "create"

\* A request carries every readable field of its own element, whatever earlier elements
\* of the message gave (the price of a market order, and the name of its type, excepted).
OwnFieldsWin ==
  \A i \in DOMAIN sessions :
    LET s == sessions[i]
    IN \A f \in Readable(s.own) :
         (s.kind = "create" /\ s.args["type"] = "market" /\ f \in {"type", "price"})
           \/ s.args[f] = s.own[f]

\* A status reply, which travels on another connection than the updates, may be overtaken
\* by newer ones, but what it tells is never older than the question: asking always tells
\* the core of the changes whose updates were lost before.
RepliesFollowQuestions ==
  \A o \in OrderIds : \A i \in 1..Len(told[o]) : told[o][i].at >= told[o][i].since

\* The price the core is told of a limit order, by update or by reply, is the price it
\* asked for, though the same code reads garbage for a market order.
PriceToldIsPriceAsked ==
  \A o \in DOMAIN orders :
    LET s == sessions[meta[o].session]
    IN s.args["type"] = "limit" /\ "price" \in Readable(s.own) =>
         \A i \in 1..Len(told[o]) : told[o][i].price = s.own["price"]

\* After cancel_all_orders the only orders of earlier commands that can still live
\* are those whose request had not reached the exchange by then, and those of markets
\* whose own request failed or that are not configured.
CancelAllSparesOnlyInFlight ==
  \A w \in swept : \A o \in DOMAIN orders :
    Live(o) => \/ meta[o].session > w.upto \/ meta[o].session \in w.unseen
               \/ meta[o].market \in w.failed \/ meta[o].market \notin Configured

\* The core is told in the end that an order is closed, unless an update of it was lost.
FinalStatusTold ==
  \A o \in OrderIds :
    (o \in DOMAIN orders /\ ~Live(o)) ~>
      (o \in dropped \/ \E i \in 1..Len(told[o]) : orders[o][told[o][i].at].status = "closed")

\* decl_header.hpp: the client_id is given by the core when it creates the order, so an
\* order whose element has no client_id has none.
ClientIdGivenByCore ==
  \A i \in DOMAIN sessions :
    sessions[i].kind = "create" /\ sessions[i].args["client_id"] # ""
      => "client_id" \in DOMAIN sessions[i].own
=============================================================================
