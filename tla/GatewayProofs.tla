--------------------------- MODULE GatewayProofs ---------------------------
(***************************************************************************)
(* The composition implements both of its parts, for every value of the    *)
(* constants: what holds of the loop alone, and of the market data alone,  *)
(* holds of them together.                                                 *)
(***************************************************************************)
EXTENDS Gateway, TLAPS

-----------------------------------------------------------------------------
(* The loop *)

LEMMA LoopStep ==
  ASSUME [Next]_vars
  PROVE  [Loop!Next]_(Loop!vars)
<1> USE DEF Loop!Next, Loop!Environment, Loop!Poll, Loop!Handlers, Loop!Restart
<1> DEFINE Goal == [Loop!Next]_(Loop!vars)
<1>1. ASSUME Tick \/ sigint_handler \/ Poll \/ end_run \/ Ping \/ session_ends
      PROVE  Goal
  BY <1>1 DEF Tick, sigint_handler, Poll, end_run, Ping, session_ends
<1>2. ASSUME NEW c \in {"public", "private"}, idle_timeout(c)
      PROVE  Goal
  BY <1>2 DEF idle_timeout, Loop!Channels
<1>3. ASSUME break_private \/ private_message \/ private_error \/ restart_private
      PROVE  Goal
  BY <1>3 DEF break_private, private_message, private_error, restart_private, Loop!Channels
<1>4. ASSUME break_public \/ public_message \/ public_error \/ restart_public
      PROVE  Goal
  BY <1>4 DEF break_public, public_message, public_error, restart_public, Loop!Channels
<1>5. ASSUME Exchange \/ UNCHANGED vars
      PROVE  Goal
  BY <1>5 DEF Exchange, vars, loopVars, Loop!vars
<1> QED
  BY <1>1, <1>2, <1>3, <1>4, <1>5 DEF Next

\* Every step of the gateway, whatever it does to the books, is a step of the main loop
\* or leaves it alone.
THEOREM RunsTheLoop == Spec => Loop!Spec
<1>1. Init => Loop!Init
  BY DEF Init
<1> QED
  BY <1>1, LoopStep, PTL DEF Spec, Loop!Spec

-----------------------------------------------------------------------------
(* The market data *)

\* Both sockets have a state.
TwoSockets == DOMAIN sock = {"public", "private"}

LEMMA TwoSocketsInit == Init => TwoSockets
BY DEF Init, Loop!Init, Loop!Channels, TwoSockets

LEMMA TwoSocketsStep ==
  ASSUME TwoSockets, [Loop!Next]_(Loop!vars)
  PROVE  TwoSockets'
BY DEF TwoSockets, Loop!Next, Loop!Environment, Loop!Poll, Loop!Handlers, Loop!Ping,
       Loop!Restart, Loop!vars, Loop!Break, Loop!Tick, Loop!sigint_handler, Loop!start_session,
       Loop!cancel_all_orders, Loop!check_balances, Loop!end_poll, Loop!on_read_message,
       Loop!on_read_throws, Loop!on_read_error, Loop!idle_timeout, Loop!session_ends,
       Loop!end_run, Loop!skip_ping, Loop!ping_both, Loop!ping_throws, Loop!ping_null,
       Loop!restart_succeeds, Loop!restart_fails, Loop!restarted, Loop!login_fails

LEMMA BooksStay ==
  ASSUME Link' = Link, UNCHANGED bookVars
  PROVE  UNCHANGED Books!vars
BY DEF bookVars, Books!vars

\* The steps that leave the books alone leave the link alone as well: only a restart
\* ends the state in which the socket counts as broken.
LEMMA LinkStays ==
  ASSUME TwoSockets,
         \/ Tick \/ sigint_handler \/ Poll \/ end_run \/ Ping \/ session_ends
         \/ \E c \in {"public", "private"} : idle_timeout(c)
         \/ break_private \/ private_message \/ private_error \/ restart_private
         \/ public_error
  PROVE  Link' = Link
<1>1. CASE Tick \/ sigint_handler \/ Poll \/ end_run
  BY <1>1 DEF Tick, sigint_handler, Poll, end_run, Loop!Tick, Loop!sigint_handler,
              Loop!start_session, Loop!check_balances, Loop!end_poll, Loop!end_run, Link, Loop!Up
<1>2. CASE Ping
  BY <1>2 DEF Ping, Loop!Ping, Loop!skip_ping, Loop!ping_both, Loop!ping_throws,
              Loop!ping_null, Link, Loop!Up
<1>3. CASE session_ends
  BY <1>3 DEF session_ends, Loop!session_ends, Loop!Runs, Link, Loop!Up
<1>4. ASSUME NEW c \in {"public", "private"}, idle_timeout(c)
      PROVE  Link' = Link
  BY <1>4 DEF idle_timeout, Loop!idle_timeout, Loop!Runs, Link, Loop!Up, TwoSockets
<1>5. CASE break_private \/ private_message
  BY <1>5 DEF break_private, private_message, Loop!Break, Loop!on_read_message,
              Loop!on_read_throws, Loop!Runs, Link, Loop!Up, TwoSockets
<1>6. CASE private_error
  BY <1>6 DEF private_error, Loop!on_read_error, Loop!Restarting, Loop!Runs, Link, Loop!Up, TwoSockets
<1>7. CASE restart_private
  BY <1>7 DEF restart_private, Loop!login_fails, Loop!restart_succeeds, Loop!restart_fails,
              Loop!restarted, Loop!Restarting, Link, Loop!Up, TwoSockets
<1>8. CASE public_error
  BY <1>8 DEF public_error, Loop!on_read_error, Loop!Restarting, Loop!Runs, Link, Loop!Up, TwoSockets
<1> QED
  BY <1>1, <1>2, <1>3, <1>4, <1>5, <1>6, <1>7, <1>8

LEMMA BooksStep ==
  ASSUME TwoSockets, [Next]_vars
  PROVE  [Books!Next]_(Books!vars)
<1>1. CASE \/ Tick \/ sigint_handler \/ Poll \/ end_run \/ Ping \/ session_ends
           \/ \E c \in {"public", "private"} : idle_timeout(c)
           \/ break_private \/ private_message \/ private_error \/ restart_private
           \/ public_error
  <2>1. UNCHANGED bookVars
    BY <1>1 DEF Tick, sigint_handler, Poll, end_run, Ping, session_ends, idle_timeout,
                break_private, private_message, private_error, restart_private, public_error
  <2> QED
    BY <1>1, <2>1, LinkStays, BooksStay
<1>2. CASE break_public
  BY <1>2 DEF break_public, Books!Next
<1>3. CASE public_message
  BY <1>3 DEF public_message, Books!Next
<1>4. CASE restart_public
  BY <1>4 DEF restart_public, Books!Next
<1>5. CASE Exchange
  BY <1>5 DEF Exchange, Books!Next
<1>6. CASE UNCHANGED vars
  BY <1>6, BooksStay DEF vars, loopVars, Link, Loop!Up
<1> QED
  BY <1>1, <1>2, <1>3, <1>4, <1>5, <1>6 DEF Next

\* Whatever the private socket, the pings, the sessions and the signals do, the books
\* go through nothing that MarketData does not allow: the loop that feeds them changes
\* when things happen to them, not what happens.
THEOREM GivesTheBooks == Spec => Books!Spec
<1>1. Init => Books!Init
  BY DEF Init
<1>2. TwoSockets /\ [Next]_vars => [Books!Next]_(Books!vars)
  BY BooksStep
<1>3. TwoSockets /\ [Next]_vars => TwoSockets'
  BY LoopStep, TwoSocketsStep
<1> QED
  BY <1>1, <1>2, <1>3, TwoSocketsInit, PTL DEF Spec, Books!Spec
=============================================================================
