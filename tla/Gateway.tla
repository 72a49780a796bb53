------------------------------ MODULE Gateway ------------------------------
(***************************************************************************)
(* The market data inside the main loop: EventLoop and MarketData over one *)
(* public socket.                                                          *)
(*                                                                         *)
(* A message of the exchange is handled only while the loop runs the       *)
(* io_context; an order book that is too long throws out of the loop's     *)
(* iteration and leaves the socket without a read; a break reaches main    *)
(* only after the messages that came before it; the restart that follows   *)
(* subscribes the markets anew.  The private socket, the pings and the     *)
(* REST sessions go on as in EventLoop and can disturb the books only      *)
(* through the loop they share.                                            *)
(***************************************************************************)
EXTENDS Integers, Sequences, FiniteSets

CONSTANTS NumMarkets, Prices, Sizes, Depth, BufferLevels, MaxTrades, MaxQueue, MaxRestarts,
          MaxRest

VARIABLES pc, sock, rest, stopped, due, residue, running, report, failed,
          exBook, subs, asked, chan, markets_map, known, core, source, touched, lost,
          trades, restarts

loopVars == <<pc, sock, rest, stopped, due, residue, running, report, failed>>
bookVars == <<exBook, subs, asked, chan, markets_map, known, core, source, touched, lost,
              trades, restarts>>
vars     == <<loopVars, bookVars>>

Loop == INSTANCE EventLoop

\* The public socket as the market data see it.  The socket whose read error main is
\* about to answer is still the broken one.
Link ==
  CASE sock["public"] \in Loop!Up  -> "open"
    [] sock["public"] = "broken" -> "broken"
    [] sock["public"] = "null"   -> "null"
    [] sock["public"] = "deaf"   -> "deaf"
    [] sock["public"] = "dead"   -> IF pc = "restart_public" THEN "broken" ELSE "deaf"

Books == INSTANCE MarketData WITH link <- Link

Init == Loop!Init /\ Books!Init

-----------------------------------------------------------------------------
(* Steps of the loop that leave the books alone *)

Tick == Loop!Tick /\ UNCHANGED bookVars

sigint_handler == Loop!sigint_handler /\ UNCHANGED bookVars

\* Commands of the core; for the loop cancel_all_orders differs from check_balances only
\* in the report, which no book depends on, and is left out.
Poll ==
  /\ Loop!start_session \/ Loop!check_balances \/ Loop!end_poll
  /\ UNCHANGED bookVars

end_run == Loop!end_run /\ UNCHANGED bookVars

Ping == Loop!Ping /\ UNCHANGED bookVars

session_ends == (\E throws \in BOOLEAN : Loop!session_ends(throws)) /\ UNCHANGED bookVars

idle_timeout(c) == Loop!idle_timeout(c) /\ UNCHANGED bookVars

break_private == Loop!Break("private") /\ UNCHANGED bookVars

private_message ==
  (Loop!on_read_message("private") \/ Loop!on_read_throws("private")) /\ UNCHANGED bookVars

private_error == Loop!on_read_error("private") /\ UNCHANGED bookVars

restart_private ==
  /\ Loop!login_fails \/ Loop!restart_succeeds("private") \/ Loop!restart_fails("private")
  /\ UNCHANGED bookVars

-----------------------------------------------------------------------------
(* Steps of both *)

\* The public connection breaks; the bound on restarts leaves one for it.
break_public ==
  /\ restarts < MaxRestarts
  /\ Loop!Break("public")
  /\ \E k \in 0..Len(chan) : Books!Break(k)

\* A message is handled, or its books throw.
public_message ==
  /\ Loop!on_read_message("public") \/ Loop!on_read_throws("public")
  /\ \E ok \in SUBSET Books!Markets :
       Books!public_ws_handler_partial(ok) \/ Books!public_ws_handler_update(ok)

\* The read fails after the last message that came.
public_error ==
  /\ chan = <<>>
  /\ Loop!on_read_error("public")
  /\ UNCHANGED bookVars

\* The restart: it succeeds when it has subscribed all markets.
restart_public ==
  /\ \/ Loop!restart_succeeds("public")
     \/ Loop!restart_fails("public") /\ (sock'["public"] = "broken" => restarts + 1 < MaxRestarts)
  /\ Books!restart_public_ws
  /\ Link' = "open" => (sock'["public"] = "armed" <=> asked' = Books!Markets)

\* The exchange changes a book, or answers a subscription.
Exchange ==
  /\ UNCHANGED loopVars
  /\ \/ \E m \in Books!Markets, after \in Books!Book : Books!Trade(m, after)
     \/ \E m \in Books!Markets : Books!Snapshot(m)

-----------------------------------------------------------------------------
Next ==
  \/ Tick \/ sigint_handler \/ Poll \/ end_run \/ Ping \/ session_ends
  \/ \E c \in {"public", "private"} : idle_timeout(c)
  \/ break_private \/ private_message \/ private_error \/ restart_private
  \/ break_public \/ public_message \/ public_error \/ restart_public
  \/ Exchange

Spec == Init /\ [][Next]_vars

\* As in EventLoop, and the exchange answers its subscriptions.
Fairness ==
  /\ WF_vars(Loop!end_poll /\ UNCHANGED bookVars) /\ SF_vars(end_run) /\ WF_vars(Ping)
  /\ WF_vars(restart_private) /\ WF_vars(restart_public)
  /\ SF_vars(public_message) /\ SF_vars(public_error)
  /\ \A m \in Books!Markets : WF_vars(UNCHANGED loopVars /\ Books!Snapshot(m))

FairSpec == Spec /\ Fairness

-----------------------------------------------------------------------------
(* Properties *)

\* Whatever becomes of the private socket, the pings and the sessions, the core keeps
\* being given every level the exchange has (when no depth limits them), over the
\* restarts of the public socket too: short of the end of the process only an order book
\* that was too long, a failed attempt to reconnect or the loss of the last offer can
\* leave it without.
BooksReachTheCore ==
  Depth < 0 =>
    \A m \in Books!Markets :
      []<>(\/ pc \in Loop!Terminal \/ "public" \in failed \/ m \in lost
           \/ \A l \in Books!Levels : exBook[m][l] # 0 => core[m][l] # 0)
=============================================================================
