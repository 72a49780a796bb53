# Verification of gate-ftx

`gate-ftx` is a gateway between a trading core and the exchange FTX. One thread reads
commands of the core from an Aeron channel, turns them into REST requests, reads two
WebSockets of the exchange, and reports order books, order changes and balances to the
core over Aeron channels. These modules model that thread, what it keeps alive, and
what the core gets to know.

Paths below are relative to the repository. `X.cpp:n` is a line of it.

## 1. Inventory

| Component | State it keeps | Operations | Module |
|---|---|---|---|
| Market data (`gateway.cpp` `public_ws_handler`, `orderbook_prepare`, `orderbook_sender`) | `_markets_map`, `_sended_orderbook_depth`, the public socket's subscriptions | snapshot, update, publish all markets, restart | `MarketData`, abstractly `BookFeed` |
| Event loop (`main.cpp`, `gateway.cpp` `pool`, `restart_*_ws`, `WS.cpp`, `ws_client.cpp`) | two `shared_ptr<WSClient>`, `_ioc`, `_last_ping_time`, `_error` | poll, run handlers, ping, restart, stop | `EventLoop`, with the market data `Gateway` |
| Orders (`aeron_handler`, `create_order`, `cancel_order`, `cancel_all_orders`, `get_order_status*`, `private_ws_handler`, `place_*_handler`, `status_order_handler`, `ASyncHTTP.cpp`, `async_rest_client.cpp`) | one `AsyncHTTPSession` per request; nothing about orders themselves | parse a command, start sessions, report updates and replies | `Orders`, abstractly `OrderReports` |
| Start-up and configuration (`main.cpp`, `config.cpp`, `load_config_from_*`, `config_from_agent_handler`, `preparation_for_launch`, `create_*`) | `_default_config`, `_work_config`, `_config_was_received` | three sources, polling of the agent, making of channels, client and sockets | `Startup` |
| Senders (`*_sender`, `processing_error`, `Publisher.cpp`) | `_prev_*` messages, a fixed buffer per publisher | offer, one retry on -3, error file | `Senders` |
| Balances (`check_balances`, `balance_sender`) and metrics (`metric_sender`) | `_socket_data_counter`, `_last_metric_ping_time` | ask, fill in missing assets, send; count, send | `Reports`, on top of `Senders` |
| Synchronous REST (`rest_client.cpp`, `HTTP.cpp`) | a keep-alive-free HTTPS call | `cancel_all_orders`, `get_balances` | inside `Orders`, `EventLoop`, `Reports` (outcomes only) |
| Aeron wrappers | a buffer, a fragment limit | offer, poll | inside `MarketData`, `Reports`, `Startup` |
| Signing, logging | | | not modelled: text |
| simdjson, json.hpp, toml++, spdlog | | | vendored, not modelled |

### How the parts interact

* `main` calls `pool()` for ever (`main.cpp:95`). `pool()` polls the core's channel, runs
  the `io_context` for 100 microseconds and pings both sockets every 15 seconds
  (`gateway.cpp:602`). Everything runs on this one thread; concurrency is the
  interleaving of handlers in the `io_context` with each other, with the exchange and
  with the core.
* Both sockets and all REST sessions share the `io_context`. An exception out of a
  handler leaves `run_for` and `pool()`; `main` recognises the two read errors by their
  text and restarts that socket, and ignores every other exception (`main.cpp:99`).
* Before that loop `main` reads the default configuration, gets the working one from a
  file, the configurator's api or the agent, and makes channels, REST client and sockets
  in this order, each only when the one before was made (`gateway.cpp:57`). A failed
  part ends the process; a failed login ends it with success (`gateway.cpp:574`).
* `_error` is one object that commands, handlers and restarts share.
* `aeron_handler` starts one asynchronous session per order request
  (`gateway.cpp:959`, `:1003`, `:2000`), except `cancel_all_orders` and `get_balances`,
  which block the thread.
* The core learns the fate of an order from the private socket and from status replies;
  the reply to a creation or cancellation goes to files and, when it is an error, to
  the log server.

### Hard behaviours, and what makes each part correct

* *Market data*: deltas applied in order on top of a snapshot; a connection that breaks
  with messages in flight; `_markets_map` surviving the restart; a depth that is
  negative or larger than the publisher's buffer. Correct when the core's book is the
  top of the exchange's, uncrossed, never silently stale.
* *Event loop*: reads re-armed only by handlers that return; a restart of which any part
  may throw; an `io_context` that stops when it has no work. Correct when a break is
  repaired, no fault of one socket harms the other, and the thread always serves what
  can still be served.
* *Orders*: sessions that finish in any order or fail at any stage without a word,
  updates lost on the private socket, replies overtaking updates, the synchronous
  `cancel_all_orders` overtaking asynchronous creations, locals carried over from one
  element of a message to the next. Correct when each request makes at most one order,
  carries its own fields, and the core is told each change once, in order and truly.

* *Senders, balances, metrics*: a second offer after ADMIN_ACTION between messages of
  other senders on the same log channel; previous messages kept per sender; balances
  asked for by order updates and by the core, that grow past the buffer while the private
  socket's handler sends them. Correct when nothing is sent twice or out of order, no loss
  goes unrecorded, and the core's balances follow its orders.
* *Start-up*: a document that takes several polls, arrives late, is incomplete, or comes
  after one that was refused; a failure of any of eight parts. Correct when the main loop
  is entered only with everything in place, and left aside only for a reason.

The full list of hazards, each with its line and the properties that cover it, is in
`PROJECT.json`.

## 2. Modules

### `MarketData`

A *level* is a side and a price; a *book* maps levels to quantities, 0 meaning that the
key is absent. This is `_markets_map` (`gateway.hpp:75`), whose two inner maps are one
function here. `known` are the markets that are keys of the map. The exchange's books
(`exBook`), its subscriptions and the messages in flight (`chan`) are environment.

| Definition | Code |
|---|---|
| `MergePartial` | the `insert`s of the `partial` branch: a key that is there keeps its size |
| `ApplyUpdate` | the loop of the `update` branch: size 0 erases, other sizes assign |
| `HowMany`, `Rank`, `Top` | `orderbook_prepare`: asks from `begin`, bids from `rbegin`, `how_can_much` with its unsigned comparison |
| `Fits` | `Publisher::offer` copies into a buffer of 8192 bytes; a longer book throws |
| `orderbook_prepare(mm, kn, ok)` | the loop over all markets in key order; `ok` are the markets whose offer or retry succeeds |
| `public_ws_handler_partial/_update` | the whole handler with its `orderbook_prepare` |
| `restart_public_ws` | read error, `restart_public_ws`, `create_public_ws`: any prefix of the subscriptions, or no socket at all |

`source`, `touched` and `lost`, and the fields `before` and `after` of a message, are
history variables: no action of the gateway reads them. A trade changes one market to
any uncrossed book. A message that does not fit throws out of `on_read`, and the link is
*deaf* from then on.

`BookFeed` is the promise behind it: the feed takes published states of the books one by
one in order, the core holds whole views of states taken, forward only, until the
connection ends. `Feed == INSTANCE BookFeed WITH ...` in `MarketData` maps a message in
flight to the exchange's book after it (`chan[i].after`), the state taken last to
`source`, the view to `Top`; `ImplementsFeed == Feed!Spec`.

### `EventLoop`

One program counter walks through `pool()` and `main`: `poll`, `run`, `ping`, a restart,
or one of the ends. A socket is `armed`, `partial` (the same, but a subscription threw
during a restart and those after it were not made, `gateway.cpp:541`), `broken` (its read
will fail), `deaf` (its handler threw, no read is armed), `dead` (no read and the idle timer of 30 seconds, set
in `WS.cpp:42`, has closed it) or `null`. `stopped` is the `io_context` out of work,
`residue` a non-empty `_error`, `rest` the number of sessions pending. Each disjunct of
the code's exceptional exits is an action: `on_read_throws`, `on_read_error`,
`ping_throws`, `ping_null`, `restart_fails`, `login_fails` (`exit(0)`,
`gateway.cpp:574`). A failed restart leaves text in `_error`; the commands and
replies that clear it do so here as well.

### `Orders` (with `MCOrders`)

The core's messages are sequences of elements, each a function from the fields present
to values. `LocalsAt` is the parser's locals, declared once per message
(`gateway.cpp:822`) and overlaid by each element: `Giver` is the element that gave a
local its value. `Starting` are the elements that start a session, `Session` is what each
starts; `sessions` keeps all of them with their stage: requested, answered by the
exchange, done. `script` is what the core will still send: one of the `Scripts`. A session may go to done from any stage (`session_fails`), which stands
for each `if(ec) return;` of `ASyncHTTP.cpp`. The exchange keeps each order's sequence
of states and appends an update to the private socket for each. `told` is what reached
the core: the order, the index of its state, by update or by reply, the message of
`Description` (`get_order_change_description`), and the price. Two fields of a session are
history: `own`, the element that started it, and `since`, the number of states (`Count`)
each order had gone through when a question for its status was started.

A field of an element may have a wrong type (the model value `Wrong`). For `symbol` and
`type` the conversion throws (`gateway.cpp:838`, `:842`), which ends the loop over the
elements (`Reached`); any other field is then passed over (`Readable`). A price the
exchange leaves out is read as whatever the memory held (`PriceRead`), since `s_order`
has no initial values.

`OrderReports` is the promise behind it: states of an order are told one by one, forward
only, and skipped only after an update of that order was lost. `News` in `Orders` maps a
state to its number, `Heard` to the number told last by an update, and `gaps` to the
orders of which an update was dropped; `ImplementsNews == News!Spec`.

### `Startup` (with `MCStartup`)

`pc` is the place in `main` before its loop. A document is what its parts are: whether it
parses, whether it has a `gate_config`, the fields it gives, its two lists, and its
length in fragments. The agent's channel is a stream of fragments: `published` and
`position` are how far the agent and the gateway have come in it, and each document in
`inbox` knows where it ends (`upto`). `load_config` is `load_config_from_file` and
`load_config_from_json`, where anything missing is an error; `config_from_agent_handler`
is the whole handler with its flag, which a `gate_config` sets whatever is missing in it
(`gateway.cpp:783`), its markets, which are added, and its assets, which are replaced.
Its parameter is whether the parser's buffer could be allocated: when it could not, nothing
is read, and the flag is set all the same since nothing described an error (`:791`).
`pool_from_agent` starts a poll; `read_fragment` and `config_from_agent_handler` are its
steps, `FragmentLimit` of them at most (`Subscriber.hpp:44`: 10). The `create_*` actions
choose which of their parts can be made. `accepted`, `refused`, `arrived` are history.

### `Senders` and `Reports`

`Senders` has the one step all senders share, `send(outcome)`: the first offer succeeds,
the second one does, or the message is lost; `Remembers` and `Entry` are the `_prev_*`
member and the line of the error file that names it. `Reports` extends it with the
handlers: each puts the messages it will send, and the question for balances, into
`tasks`, and gives the thread back when they are done, so that a send is a step while a
handler is not. `Overlong` and `throws` are the exception of `Publisher::offer`, which
out of the private handler leaves the socket unread, and out of the poll reaches `main`.


Operators named `..._<something>` right before a definition, under a comment that says
"Slip", are variants of that definition with a plausible mistake. The specification does
not use them; the mutation runs put them in its place to see that each property notices.

### Composition

`Gateway` composes the loop with the market data over one public socket: `Loop` is an
instance of `EventLoop`, `Books` one of `MarketData` whose `link` is the state of the
loop's public socket (`Link`). Each action of `Gateway` is a step of one of them that
leaves the other's variables alone, or a step of both: a message of the exchange is an
`on_read_message` or `on_read_throws` of the loop and a `public_ws_handler_*` of the
books, and whether it throws is decided by the books; a restart succeeds or fails in both.
Every step of `Gateway` is thus a step of each module. `cancel_all_orders` is left out
of the composition: for the loop it differs from `check_balances` only in `report`, which
no book depends on. `Orders` and `Reports` are not composed with the loop: they see it as
the choice of which handler runs next, and as the states of a link.

## 3. Runs

| Run | Bounds | What it shows |
|---|---|---|
| `books_restart` | 1 market, 2 prices, 2 sizes, depth 1, buffer 2, 2 trades, 2 messages in flight, 1 restart | the merge is exact until a restart, loses no level after it, is exact for touched levels and uncrossed; a buffer made for the depth never overflows |
| `books_two_markets` | 2 markets, 2 prices, depth 1, buffer 1, 2 trades, fairness | overlong books; what the core holds is the best levels, and stale only when that market's own send failed; the books implement `BookFeed`; the core catches up |
| `books_snapshot` | 1 price, 2 sizes | **violated**: `SnapshotReplaces` |
| `loop_faults` | at most 2 sessions pending, fairness | safety of the loop, repair of breaks, end of sessions, pings that resume, the end after an interrupt |
| `loop_reconnect`, `loop_cancel` | at most 1 session, fairness | **violated**: see section 5 |
| `gateway` | 1 market, depth -1 (all levels), buffer 1, 1 trade, 1 message in flight, 2 restarts of the public socket, any of the private one, 1 session, fairness | the core goes on being given the exchange's books unless a book was too long, a restart failed or the last offer was lost |
| `orders` | 9 sequences of up to 3 commands for 1 order, 10 messages of up to 3 elements; 2 orders, 2 markets, 1 break, fairness | reports are complete, truthful, and implement `OrderReports`; a reply is not older than its question; what `cancel_all_orders` may spare; a closing is told in the end; each request carries its own element's fields and makes one order at most; the price told is the price asked |
| `orders_client_id` | the messages of several elements, 1 order, no break | **violated**: see section 5 |
| `reports_wallet` | 3 handlers, 2 changes of the wallet, 2 offers that do not succeed at once, 2 coins of which 1 fits | losses are recorded, nothing is sent twice or out of order, the error file names a message that was sent from the same place, balances follow order updates, the private socket is lost only to the configured assets |
| `reports_last_sent` | 3 handlers, 1 coin, 2 offers that do not succeed at once | **violated**: see section 5 |
| `startup` | 6 documents, 3 of them sent, 5 polls of 2 fragments, fairness | the main loop is entered only with every part and the keys, and with the lists of one document; when the agent is given up; the start ends |

Why the bounds are enough: a level's fate depends on its own history only, so two prices
give a best and a worse level on a side and a crossing pair across sides; two trades and
two messages in flight give a snapshot that overtakes or follows an update; one restart
gives a stale book and a second snapshot, and with it levels left out on both sides. Two
pending sessions distinguish "some" from "the last". In `Orders` three commands are a
creation and two of a cancellation, a question and a `cancel_all_orders`, racing for one
order (sessions overtake each other, so their order matters for the last kind only); two
questions are one that overtakes the other; a message of several elements is sent alone,
since what is carried over ends with it. Two markets, the order's own second, show what an
error in an earlier market does; three elements have one before and one after the element
that throws. In `Gateway` two restarts are one that fails and
one after it. In `Reports` three handlers are one that sends, one whose send fails, and
one that is blamed wrongly or overtaken; two coins are one configured and one the core
asks for, or the exchange comes to list. In `Startup` the longest document has three
fragments against a limit of two, so that it takes two polls (ten fragments against the
code's limit would show nothing more), and three documents are one that is refused, one
that is accepted and one that comes too late. Deadlock is not checked: each bound stops
the model, and the process may really end (`exit(0)`, SIGINT, a failed start).

Fairness. `EventLoop`: the thread never blocks for ever (every synchronous call has a
timeout or returns), so polling, pinging and restarting end (WF). The `io_context` picks
ready handlers from its queue in order, but only while `run_for` lasts: a handler that is
ready again and again is run in the end, and so is the end of `run_for`, which other
handlers delay and a restart interrupts (SF). A session ends because each of its
stages has a 30-second limit (`ASyncHTTP.cpp:100`, `:116`). A connection that is tried
again and again succeeds in the end (SF on `restart_succeeds`): the weakest assumption
under which "breaks are repaired" can be asked, and the code tries only once, which is
what `BrokenConnectionRestored` runs into. `MarketData` and `Orders`: the loop keeps
reading the socket and the core's channel (WF); the exchange answers a subscription, and
owes nothing else; the core owes nothing. `Gateway`: as in `EventLoop` (without the
success of restarts), and the exchange answers subscriptions. `Startup`: one thread whose
calls all return or throw (WF on `Main`); the agent owes nothing.

## 4. Proofs

Every safety property the runs check, and both refinements, are theorems; what a run shows
for its bounds they show for all values of the constants. A few more say what no run asks. The proofs are in eight modules:

| Module | About | Constants, and what is assumed of them |
|---|---|---|
| `MarketDataProofs`, `FeedProofs` | `MarketData`, its promise `BookFeed` | `ConstantsAssumption`: a positive number of markets, finitely many integer prices, any positive sizes, any depth, negative ones too, any buffer |
| `EventLoopProofs` | `EventLoop` | `MaxRestAssumption`: a natural number of sessions |
| `GatewayProofs` | `Gateway` | those of its two parts; no theorem uses more |
| `OrdersProofs` | `Orders`, its promise `OrderReports` | `CommandsAssumption`: any messages whose elements have fields of `Fields`, any list of different markets |
| `ReportsProofs` | `Reports`, `Senders` | `ReportsAssumption`: finitely many coins, the configured assets and what is asked for among them, any buffer |
| `StartupProofs` | `Startup` | `StartupAssumption`: any documents of at least one fragment, a positive number of polls and of fragments per poll |
| `SequenceFacts` | what `Append`, `Tail`, `\o` and prefixes do to sequences of anything | none |

The bounds of the models (`MaxTrades`, `MaxCommands`, `MaxRuns` and the like) are any
natural numbers there. Each property is proved from an inductive invariant: `Init => IInv`,
one lemma for each action that it keeps `IInv`, and `IInv => property`; the last step of a
theorem puts these together by temporal logic.

### Market data

* `MirrorTheorem`, `NeverMissesTheorem`, `TouchedTheorem`: none of the three is inductive,
  because they speak of the map and the last message handled while messages are still in
  flight. `BookInv` adds: what every message is (`MessagesInv`: a snapshot carries the
  levels of its `after`, an update the difference of `before` and `after`), how the
  messages of a market chain (`ChainInv`: the first in flight starts where the handled
  ones ended, each next where the one before ended, the last ends at the exchange's book
  when the market is subscribed), what is true of a market without a subscription
  (`QuietInv`), and the three-way relation of map, source and touched levels (`MapInv`).
* `CoreUncrossedTheorem`: the exchange's books are uncrossed, hence every message's
  `after`, hence `source`, hence (mirror) the map, hence any part of it that is sent.
* `GivesWholeBooks` (`ImplementsFeed`): `BookInv` and the mirror make every step of
  `MarketData` a step of `BookFeed` or a stutter, action by action. The one that needs
  them is reading a message: it must take the first pending book and give out the top of
  just that book. A `Break` loses any tail of the queue.
* `HoldsBest` (`CoreHoldsBest`) and `NeverDeaf` (`BoundedDepthNeverDeaf`) rest on what
  ranks are: the rank of a level is the number of levels at least as good, so that ranks
  of different levels of a side differ, and n levels have exactly the ranks 1 to n
  (`CountNumbered`, by a bijection). `TopSide` draws from it that what is sent of a side is
  the whole side or exactly `Depth` levels none of which is worse than one left out;
  `BoundedFits` that both sides together fit. `DepthInv` is then inductive.
* `UpToDate` puts them together: when nothing of a subscribed market is in flight, the last
  link of its chain (`ChainDone`) is the exchange's present book, and the core has the best
  of it. No run checks it by itself; it is what `CoreCatchesUp` needs besides fairness.

### Event loop and composition

* `ServesTheorem`, `ResidueTheorem`, `FaultsTheorem`: each invariant is inductive relative
  to the type. `FaultsHaveACause` needs its parts together: a dead socket comes from a deaf
  one, a crash from a null pointer.
* `RunsTheLoop` and `GivesTheBooks` show that every behaviour of `Gateway` is a behaviour
  of `EventLoop`, and one of `MarketData`, under the two instances it is made of: the
  loop's choice of when a handler runs and whether it throws never asks of the books a
  step they do not have, and the other way round. (`Link` needs that both sockets are
  there, `TwoSockets`.) The theorems about the parts therefore hold of the composition
  with the instances' substitution. That last step is not machine-checked: it would
  instantiate the modules of proofs, which the prover does not do.

### Orders

`IInv` has the types of sessions, orders, updates and of what was told (`SessionsInv`,
`MetaInv`, `OrdersInv`, `UpdatesInv`, `ToldInv`), and what the properties need of each:

* `EveryChangeReported` (`ReportsComplete`): the property itself is part of the invariant,
  since an update told now was in flight before; `OrdersMove` and `Tells` state what all
  the exchange's actions have in common, so that this is proved once for all of them.
  A reply overtaking updates is left aside because only what updates told counts.
* `KeepsPromise` (`ImplementsNews`): with `ReportsComplete`, an update in flight of an
  order none was lost of is the very next state to be told. `LastTold` gives `Heard`, which
  CHOOSEs the update told last, its value.
* `CoreIsUpToDate`: with nothing lost and nothing in flight, completeness leaves the present
  state to what was told, and the order of telling makes it the last. It is what
  `FinalStatusTold` needs besides fairness.
* `OneOrderEach`: a session with an order no longer waits for the exchange (`MetaInv`), and
  none waits again (`SessionsGoOn`).
* `CancelAllSweeps` (`CancelAllSparesOnlyInFlight`): a session that has not been seen now
  had not been seen at any earlier `cancel_all_orders` (`SweptInv`).
* `OwnFieldsCarried`: what a session carries (`Faithful`) is settled when its message is
  parsed, for messages of any length; afterwards no action changes it.
* `RepliesAreFresh` (`RepliesFollowQuestions`): `QuestionsInv` follows each question through
  its stages. What it was asked at (`since`) is not past the present states of the orders
  while it waits, for no order loses a state (`CountsGrow`), and not past the state it was
  answered with from then on (`Asked`).
* `PriceToldTrue`: an order of type limit was asked for by a body that keeps its price, and
  every update and reply of it carries the price of the order (`TrueOf`). `CanceledIsUnfilled`:
  `Honest` of each message told.

### Senders and reports

The messages of a run have larger numbers than those of earlier runs, and a channel gets
the messages of a run in the order of their numbers. `SendInv` says so of what is still to
be sent (`InTurn`), of what has been given (`History`), and of both (`Behind`: whatever has
been given or blamed is behind all that will go to the same channel). `GivenInOrder` is its
second part. `NamesWhatWasSent` (`NamedWasSent`) needs `Recalls`: a `_prev_*` member is a
message of its own sender that its channel was given, at every state and not only when a
loss is recorded. `LossesBlamed` is inductive with the types (`LossInv`); `BalancesFollow`
has for each order update where its balances are (`Underway`: to be asked for, to be sent, or
delivered), and that what an answer adds is not among the coins it lists (`BalanceInv`).
`OnlyOwnAssets`: a task of the private socket's handler wants the configured assets
(`HandlerInv`), and those with the coins held are all that its message lists.

### Start-up

* `WholeTheorem`, `KeysTheorem`, `OneDocumentTheorem`: `IInv` adds what has been made by
  the time `main` gets to each place (`WholeInv`), that the two lists are untouched until a
  document is accepted unless one was refused (`ListsInv`), and how the documents refused,
  waiting and arrived are counted (`InboxInv`).
* `GivenUpTheorem` (`GivesUpOnlyUnanswered`): by `AnswerInv`, as long as a document that
  came has not been read to its end, every poll since has read as many fragments as it may
  (`Awaited`), and once it has been read it was enough (`Taken`); a poll that stops short
  of its limit has left nothing unread (`StreamInv`). When the last poll is over, a
  document that was not read is thus one that ends too far away.

### Only model-checked

The liveness properties (`CoreCatchesUp`, `BreaksAreRepaired`, `SessionsEnd`,
`PingsResume`, `InterruptEnds`, `BooksReachTheCore`, `FinalStatusTold`, `StartEnds`):
liveness under fairness and ENABLED are beyond the prover. The five violations of section 5
are counterexamples that TLC finds. The modules declare no RECURSIVE operator and no
recursive function: what a loop over elements, levels or fragments computes is said in one
step with sets and positions (`Giver`, `Reached`, `Rank`), since induction over data
is beyond the prover as well.

## 5. Findings

| Run | Code | What the repository says |
|---|---|---|
| `books_snapshot` | `gateway.cpp:1298`: the snapshot is merged into the old book | comment at 1297: the book is cleared |
| `loop_reconnect` | `gateway.cpp:2052`: a failed restart leaves a null pointer, dereferenced by the next ping | `README.md:24`: a broken socket is restarted |
| `loop_cancel` | `gateway.cpp:974`: a left-over `_error` turns a successful cancellation into an error | comment at 981: success is reported by the private channel |
| `orders_client_id` | `gateway.cpp:861`: an element without `client_id` inherits the one before | `decl_header.hpp:26`: given by the core at creation |
| `reports_last_sent` | `gateway.cpp:1097`: a message delivered by its second offer is not remembered, so the next loss names an older one as sent last (the other senders do the same) | `gateway.hpp:107`: the member holds the previous successfully sent message; `gateway.cpp:2024` writes it to the error file as such |

Noticed while modelling, without a run of their own:

* The actions told to the core are `order_created`, `order_cancel` and, for an open order,
  the empty string, where `decl_header.hpp:49` lists `create_order`, `cancel_order`,
  `order_status`.
* `cancel_all_orders` ("cancels all orders", `gateway.cpp:967`) spares the creations still
  in flight, which `CancelAllSparesOnlyInFlight` states exactly. When the first element
  of its message cannot be read it cancels nothing, and the core is not told.
* A socket whose handler threw starves both sockets of pings once its idle timer has
  closed it, since the private ping comes first and a throw skips the rest
  (`gateway.cpp:607`); pings resume only with a restart (`PingsResume`).
* A subscription that throws during a restart leaves the later markets unsubscribed on a
  socket that otherwise works, and nobody looks at the result (`gateway.cpp:2052`). The
  properties about a book leave such a market aside: nothing repairs it.
* When the parser of the agent's configuration gets no buffer, the configuration counts as
  received (`gateway.cpp:791`); the start then fails at the channels, which have no names.
* `README.md:16` promises the balance and the open orders at the start; nothing sends them.
* The agent is waited for "5 seconds" (`main.cpp:46`), but the last second has no poll.
* Missing keys, like a failed login, end the process with `exit(0)`: success.
* Markets of a document that is refused for its missing `gate_config` stay in the list, so
  a market may be subscribed twice.

## 6. Not modelled, and the plan

Left out of the modelled parts: JSON text and its parse errors (they change nothing but
log files and `_error`), the contents of log files other than that of send errors, pong
messages, the sizes of HTTP bodies, wall-clock time (15 and 30 seconds, the interval of
metrics and the second between polls are events or choices), quantities of balances (a
balance is the version of the wallet it was read from), and the parts of the configuration
that only name things (`Fields` keeps one representative of each kind).

Not modelled at all: `Encoding.cpp` and `Time.hpp` (text and clock, no state), the set-up
of loggers, and the vendored libraries simdjson, nlohmann json, toml++, spdlog and fmt,
which make up nearly all lines of the repository and are nobody's own logic here:
counted over all of it, little is covered, counted over the gateway's own code, most is.

Done: `MarketData`, `EventLoop`, `Orders`, `Startup`, `Senders`, `Reports`, `Gateway`, the
abstract `BookFeed` and `OrderReports`, and the proofs of every safety property and both
refinements.

What would come next:

1. a composition of `Orders` and `Reports` over one private socket, as `Gateway` is one
   over the public socket, and the two theorems that it implements both;
2. an invariant of `EventLoop` that bounds how long a ping may be put off.
