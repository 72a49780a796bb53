------------------------------- MODULE Reports -------------------------------
(***************************************************************************)
(* What the gateway sends, and when: an order update is reported and then  *)
(* the balances are asked for and sent; the core may ask for balances      *)
(* itself; a public message is followed by the order books and at times by *)
(* a metric; an error reply of the exchange goes to the log server; and    *)
(* every command of the core is copied to the log server.                  *)
(*                                                                         *)
(* Assumed of the exchange: a request for balances is answered with the    *)
(* wallet as of the request.                                               *)
(***************************************************************************)
EXTENDS Senders, FiniteSets

CONSTANTS Coins,     \* coins of the exchange
          Assets,    \* _work_config._assets
          Asks,      \* the sets of assets the core may ask the balances of
          CoinsFit,  \* coins that fit into the buffer of _balance_channel
          MaxWallet, \* bound: changes of the wallet
          MaxRuns,   \* bound: handlers run
          MaxLost    \* bound: offers that do not succeed at once

ASSUME ReportsAssumption ==
  /\ Assets \subseteq Coins /\ Asks \subseteq SUBSET Coins /\ IsFiniteSet(Coins)
  /\ CoinsFit \in Nat /\ MaxWallet \in Nat /\ MaxRuns \in Nat /\ MaxLost \in Nat

\* Commands of the core: a question for balances, or any other; of each it matters
\* whether its copy is too long for the buffer of _log_channel.
Commands == [kind : {"get_balances"}, assets : Asks, long : {FALSE}]
              \cup [kind : {"other"}, assets : {{}}, long : BOOLEAN]

VARIABLES wallet,  \* the exchange: version of the wallet
          held,    \* the exchange: coins it lists in the wallet
          updates, \* order updates in flight: the version of the wallet at each
          link,    \* the private socket: "open", or "deaf" once its handler threw
          alive,   \* the process runs
          handler, \* the handler that has the thread, see Idle
          runs,    \* handlers run so far, each with three numbers for its messages
          balances,\* history: contents of the balance messages made
          queued,  \* history: the messages that were to be sent
          excused, \* history: runs that asked for balances and made no message, or
                   \* threw before they had sent it
          seen,    \* history: order updates handled, each with its run
          unlucky  \* bounded counter of offers that did not succeed at once

vars == <<sendVars, wallet, held, updates, link, alive, handler, runs,
          balances, queued, excused, seen, unlucky>>

\* Numbers of the messages of a run: a report, balances, and what else there is.
ReportOf(run)  == 3 * run + 1
BalanceOf(run) == 3 * run + 2
OtherOf(run)   == 3 * run + 3
RunOf(n)       == (n - 1) \div 3

\* The handler: its kind, the assets it wants balances of, and whether the command it
\* handles is too long to be copied.
Kinds == {"none", "private", "poll", "public", "rest"}
Idle  == [kind |-> "none", assets |-> {}, long |-> FALSE]

TypeOK ==
  /\ \A i \in DOMAIN tasks : tasks[i].slot \in Slots \cup {"ask"}
  /\ \A e \in errors : e.slot \in Slots /\ e.n > e.last
  /\ wallet \in 0..MaxWallet /\ held \subseteq Coins
  /\ link \in {"open", "deaf"} /\ alive \in BOOLEAN
  /\ handler.kind \in Kinds /\ handler.assets \subseteq Coins
  /\ (tasks # <<>>) = (handler.kind # "none")
  /\ runs \in 0..MaxRuns /\ unlucky \in 0..MaxLost
  /\ \A b \in balances : b.listed \subseteq Coins /\ b.zero \subseteq Coins

Init ==
  /\ SendersInit
  /\ wallet = 0 /\ held = {} /\ updates = <<>>
  /\ link = "open" /\ alive = TRUE
  /\ handler = Idle
  /\ runs = 0
  /\ balances = {} /\ queued = {} /\ excused = {} /\ seen = {} /\ unlucky = 0

-----------------------------------------------------------------------------
(* The exchange *)

\* An order fills: the wallet changes, it may list one more coin, and the private
\* socket is told of the order.
fill(coin) ==
  /\ wallet < MaxWallet
  /\ wallet' = wallet + 1
  /\ held' = held \cup {coin}
  /\ updates' = IF link = "open" THEN Append(updates, wallet') ELSE updates
  /\ UNCHANGED <<sendVars, link, alive, handler, runs, balances, queued,
                 excused, seen, unlucky>>

-----------------------------------------------------------------------------
(* The handlers *)

\* A handler gets the thread with its tasks.
Starts(kind, assets, long, todo) ==
  /\ alive /\ handler = Idle /\ runs < MaxRuns
  /\ handler' = [kind |-> kind, assets |-> assets, long |-> long]
  /\ runs' = runs + 1
  /\ tasks' = todo
  /\ queued' = queued \cup {todo[i] : i \in {j \in DOMAIN todo : todo[j].slot # "ask"}}
  /\ UNCHANGED <<got, prev, errors, wallet, held, link, alive, balances, excused, unlucky>>

\* Slip: balances are asked for only while a further update waits.
private_ws_handler_eager ==
  /\ link = "open" /\ updates # <<>>
  /\ updates' = Tail(updates)
  /\ seen' = seen \cup {[run |-> runs, wallet |-> Head(updates)]}
  /\ Starts("private", Assets, FALSE,
            <<Task("report_core", ReportOf(runs)), Task("report_log", ReportOf(runs))>>
              \o (IF updates' # <<>> THEN <<Task("ask", BalanceOf(runs))>> ELSE <<>>))

\* Slip: balances of every coin.
private_ws_handler_all ==
  /\ link = "open" /\ updates # <<>>
  /\ updates' = Tail(updates)
  /\ seen' = seen \cup {[run |-> runs, wallet |-> Head(updates)]}
  /\ Starts("private", Coins, FALSE,
            <<Task("report_core", ReportOf(runs)), Task("report_log", ReportOf(runs)),
              Task("ask", BalanceOf(runs))>>)

\* private_ws_handler on an order update: the report, then the balances of the
\* configured assets.
private_ws_handler ==
  /\ link = "open" /\ updates # <<>>
  /\ updates' = Tail(updates)
  /\ seen' = seen \cup {[run |-> runs, wallet |-> Head(updates)]}
  /\ Starts("private", Assets, FALSE,
            <<Task("report_core", ReportOf(runs)), Task("report_log", ReportOf(runs)),
              Task("ask", BalanceOf(runs))>>)

\* aeron_handler on a command: what it leads to, an error for the log server when a
\* market's orders cannot be cancelled, and last the copy.
aeron_handler(c, failing) ==
  /\ LET first == CASE c.kind = "get_balances" -> <<Task("ask", BalanceOf(runs))>>
                    [] c.kind = "other" /\ failing -> <<Task("error", ReportOf(runs))>>
                    [] OTHER -> <<>>
     IN Starts("poll", c.assets, c.long, Append(first, Task("copy", OtherOf(runs))))
  /\ UNCHANGED <<updates, seen>>

\* public_ws_handler: an order book, and a metric when ping_delay has passed.
public_ws_handler(metric) ==
  /\ Starts("public", {}, FALSE,
            <<Task("book", ReportOf(runs))>>
              \o (IF metric THEN <<Task("metric", OtherOf(runs))>> ELSE <<>>))
  /\ UNCHANGED <<updates, seen>>

\* The handlers of REST replies: an order's status is reported, an error goes to the
\* log server.
status_order_handler(ok) ==
  /\ Starts("rest", {}, FALSE,
            IF ok THEN <<Task("report_core", ReportOf(runs)), Task("report_log", ReportOf(runs))>>
            ELSE <<Task("error", OtherOf(runs))>>)
  /\ UNCHANGED <<updates, seen>>

-----------------------------------------------------------------------------
(* The steps of a handler *)

\* Slip: the thread is given back with a task left.
Continues_Early == handler' = IF Len(tasks') <= 1 THEN Idle ELSE handler

\* After its last task a handler gives the thread back.
Continues == handler' = IF tasks' = <<>> THEN Idle ELSE handler

\* The assets check_balances adds with a balance of 0.
Missing(assets, listed) == assets \ listed

\* check_balances: the exchange is asked, and what it answers is sent.  No answer, or
\* one without coins, leads to no message; only the first is written down.
check_balances(answered) ==
  /\ tasks # <<>> /\ Head(tasks).slot = "ask"
  /\ LET n == Head(tasks).n
     IN IF answered /\ held # {}
        THEN LET todo == <<Task("balance_core", n), Task("balance_log", n)>>
             IN /\ balances' = balances \cup
                     {[n |-> n, wallet |-> wallet, listed |-> held,
                       zero |-> Missing(handler.assets, held)]}
                /\ tasks' = todo \o Tail(tasks)
                /\ queued' = queued \cup {todo[1], todo[2]}
                /\ UNCHANGED excused
        ELSE /\ tasks' = Tail(tasks)
             /\ excused' = excused \cup {RunOf(n)}
             /\ UNCHANGED <<balances, queued>>
  /\ Continues
  /\ UNCHANGED <<got, prev, errors, wallet, held, updates, link, alive, runs, seen,
                 unlucky>>

\* Publisher::offer throws when the message is longer than its buffer.
Overlong(t) ==
  \/ t.slot = "copy" /\ handler.long
  \/ /\ t.slot \in {"balance_core", "balance_log"}
     /\ \E b \in balances : b.n = t.n /\ Cardinality(b.listed \cup b.zero) > CoinsFit

sends(outcome) ==
  /\ send(outcome)
  /\ ~Overlong(Head(tasks))
  /\ unlucky < MaxLost \/ outcome = "first"
  /\ unlucky' = IF outcome = "first" THEN unlucky ELSE unlucky + 1
  /\ Continues
  /\ UNCHANGED <<wallet, held, updates, link, alive, runs, balances, queued,
                 excused, seen>>

\* The exception leaves the handler: the private socket is not read any more; out of
\* poll it reaches main, or the error handler of Aeron, which may end the process.
throws ==
  /\ tasks # <<>> /\ Overlong(Head(tasks))
  /\ tasks' = <<>>
  /\ link' = IF handler.kind = "private" THEN "deaf" ELSE link
  /\ alive' \in IF handler.kind = "poll" THEN BOOLEAN ELSE {TRUE}
  /\ excused' = excused \cup {RunOf(Head(tasks).n)}
  /\ Continues
  /\ UNCHANGED <<got, prev, errors, wallet, held, updates, runs, balances, queued,
                 seen, unlucky>>

-----------------------------------------------------------------------------
Thread ==
  \/ \E answered \in BOOLEAN : check_balances(answered)
  \/ \E outcome \in Outcomes : sends(outcome)
  \/ throws

Next ==
  \/ \E coin \in Coins : fill(coin)
  \/ Thread
  \/ \E c \in Commands, failing \in BOOLEAN : aeron_handler(c, failing)
  \/ private_ws_handler
  \/ \E metric \in BOOLEAN : public_ws_handler(metric)
  \/ \E ok \in BOOLEAN : status_order_handler(ok)

Spec == Init /\ [][Next]_vars

-----------------------------------------------------------------------------
(* Properties *)

\* The message of a task has been given to its channel.
Delivered(t) ==
  LET c == got[ChannelOf(t.slot)]
  IN \E i \in DOMAIN c : c[i].slot = t.slot /\ c[i].n = t.n

Blamed == {Task(e.slot, e.n) : e \in errors}

\* Every message is delivered or its loss is in the error file, once its handler has
\* returned, unless the handler threw before it; the copies of commands alone may be
\* lost without a word.
EveryLossBlamed ==
  \A t \in queued :
    \/ Delivered(t) \/ t \in Blamed \/ \E i \in DOMAIN tasks : tasks[i] = t
    \/ t.slot = "copy" \/ RunOf(t.n) \in excused

\* No channel is given a message twice, or a message made earlier after one made later,
\* whatever offers are repeated.
OnceAndInOrder ==
  \A c \in AeronChannels : \A i, j \in DOMAIN got[c] :
    i < j => got[c][i].n < got[c][j].n

\* The messages sent from the same place before the one that e tells the loss of.
SentBefore(e) ==
  LET c == got[ChannelOf(e.slot)]
  IN {c[i].n : i \in {k \in DOMAIN c : c[k].slot = e.slot /\ c[k].n < e.n}}

\* gateway.hpp: the _prev_ members hold a message that was sent.  What the error file
\* names was sent, from the place that lost the message and before it, though six members
\* are kept by senders that are near copies of each other.
NamedWasSent ==
  \A e \in errors : e.slot \in Remembering => e.last \in SentBefore(e) \cup {0}

\* gateway.hpp and processing_error: that message is the previous one that was sent, so
\* no other was sent from the same place since.
NamedIsLastSent ==
  \A e \in errors : e.slot \in Remembering => \A n \in SentBefore(e) : n <= e.last

\* The core's balances follow each order update it was told of: it is given a wallet at
\* least as new, in which no coin that the exchange lists is told to be 0, unless the
\* exchange did not answer with coins, a balance was too long, or the loss is in the
\* error file.
BalancesFollowUpdates ==
  \A u \in seen :
    \/ RunOf(BalanceOf(u.run)) \in excused
    \/ Task("balance_core", BalanceOf(u.run)) \in Blamed
    \/ \E i \in DOMAIN tasks : RunOf(tasks[i].n) = u.run
    \/ \E b \in balances : /\ Delivered(Task("balance_core", b.n))
                           /\ b.n = BalanceOf(u.run) /\ b.wallet >= u.wallet
                           /\ b.listed \cap b.zero = {}

\* The private socket is lost to a balance only when the wallet and the configured
\* assets do not fit, whatever the core asks for.
OnlyOwnAssetsDeafen ==
  link = "deaf" => Cardinality(held \cup Assets) > CoinsFit
=============================================================================
