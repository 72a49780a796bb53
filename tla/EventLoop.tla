------------------------------ MODULE EventLoop ------------------------------
(***************************************************************************)
(* The main loop of the gateway and what it keeps alive.                   *)
(*                                                                         *)
(* One thread repeats pool(): poll the core's channel, run the io_context  *)
(* for 100 microseconds, ping both WebSockets when 15 seconds have passed. *)
(* The two WebSockets and every asynchronous REST session share the        *)
(* io_context.  An exception leaves pool() at once; main restarts a socket *)
(* when the exception is the read error of that socket, and goes on with   *)
(* the next iteration otherwise.                                           *)
(***************************************************************************)
EXTENDS Naturals, FiniteSets

CONSTANT MaxRest   \* bound: asynchronous REST sessions pending at once

ASSUME MaxRestAssumption == MaxRest \in Nat

Channels == {"public", "private"}

\* "armed"   connected, a read is armed;
\* "partial" the same, but a subscription threw and the ones after it were not made;
\* "broken"  the connection is gone, the armed read will report it;
\* "deaf"    the handler threw out of on_read, no read is armed; the stream's idle
\*           timer is;
\* "dead"    no read armed and the idle timer has closed the socket: writes throw;
\* "null"    the shared_ptr holds nothing, the last construction threw.
SocketStates == {"armed", "partial", "broken", "deaf", "dead", "null"}

\* The states of a connection that is up, and those with a read armed.
Up    == {"armed", "partial"}
Reads == Up \cup {"broken"}

VARIABLES pc,      \* where the thread is, see Places
          sock,    \* state of each WebSocket
          rest,    \* asynchronous REST sessions that have not finished
          stopped, \* the io_context has run out of work and returns at once
          due,     \* more than 15 seconds since _last_ping_time
          residue, \* _error is not empty
          running, \* cleared by sigint_handler
          report,  \* history: the last cancel_all_orders as logged, see Reports
          failed   \* history: channels whose handler threw or whose restart failed

vars == <<pc, sock, rest, stopped, due, residue, running, report, failed>>

Restarting(c) == IF c = "public" THEN "restart_public" ELSE "restart_private"
Terminal == {"crashed", "exited"}
Places   == {"poll", "run", "ping"} \cup {Restarting(c) : c \in Channels} \cup Terminal
Reports  == {"none", "cancelled", "order_cancel_error"}

TypeOK ==
  /\ pc \in Places
  /\ sock \in [Channels -> SocketStates]
  /\ rest \in 0..MaxRest
  /\ stopped \in BOOLEAN /\ due \in BOOLEAN /\ residue \in BOOLEAN /\ running \in BOOLEAN
  /\ report \in Reports
  /\ failed \in SUBSET Channels

Init ==
  /\ pc = "poll"
  /\ sock = [c \in Channels |-> "armed"]
  /\ rest = 0
  /\ stopped = FALSE /\ due = FALSE /\ residue = FALSE /\ running = TRUE
  /\ report = "none"
  /\ failed = {}

-----------------------------------------------------------------------------
(* The io_context *)

\* What keeps the io_context from stopping: armed reads, idle timers, sessions.
HasWork(s, r) == r > 0 \/ \E c \in Channels : s[c] \in Reads \cup {"deaf"}

\* The io_context stops when a handler leaves it without work.
AfterHandler(s, r) == stopped' = ~HasWork(s, r)

-----------------------------------------------------------------------------
(* The environment *)

\* A connection goes away.
Break(c) ==
  /\ sock[c] \in Up /\ pc \notin Terminal
  /\ sock' = [sock EXCEPT ![c] = "broken"]
  /\ UNCHANGED <<pc, rest, stopped, due, residue, running, report, failed>>

\* The 15 seconds pass.
Tick ==
  /\ ~due /\ pc \notin Terminal
  /\ due' = TRUE
  /\ UNCHANGED <<pc, sock, rest, stopped, residue, running, report, failed>>

sigint_handler ==
  /\ running /\ pc \notin Terminal
  /\ running' = FALSE
  /\ UNCHANGED <<pc, sock, rest, stopped, due, residue, report, failed>>

-----------------------------------------------------------------------------
(* pool(), first part: the core's channel *)

\* A command that starts an asynchronous REST session.
start_session ==
  /\ pc = "poll" /\ running /\ rest < MaxRest
  /\ rest' = rest + 1
  /\ UNCHANGED <<pc, sock, stopped, due, residue, running, report, failed>>

\* cancel_all_orders for one market: a synchronous request, then the decision on
\* _error, which is not cleared before the request.
cancel_all_orders(ok) ==
  /\ pc = "poll" /\ running
  /\ report' = IF ok /\ ~residue THEN "cancelled" ELSE "order_cancel_error"
  /\ residue' = FALSE
  /\ UNCHANGED <<pc, sock, rest, stopped, due, running, failed>>

\* get_balances: check_balances clears _error before its request and after a failure.
check_balances ==
  /\ pc = "poll" /\ running
  /\ residue' = FALSE
  /\ UNCHANGED <<pc, sock, rest, stopped, due, running, report, failed>>

\* Slip: running is looked at only after an iteration without a ping.
end_poll_undue ==
  /\ pc = "poll"
  /\ pc' = IF running \/ due THEN "run" ELSE "exited"
  /\ stopped' = (stopped \/ ~HasWork(sock, rest))
  /\ UNCHANGED <<sock, rest, due, residue, running, report, failed>>

\* poll returns; run_for finds out whether there is anything to run.  The loop's
\* condition is looked at before each iteration.
end_poll ==
  /\ pc = "poll"
  /\ pc' = IF running THEN "run" ELSE "exited"
  /\ stopped' = (stopped \/ ~HasWork(sock, rest))
  /\ UNCHANGED <<sock, rest, due, residue, running, report, failed>>

-----------------------------------------------------------------------------
(* pool(), second part: handlers run by the io_context *)

Runs == pc = "run" /\ ~stopped

\* on_read with a message, which may have come before the connection broke: the handler
\* returns and the next read is armed.  Its error branches, and the balance request
\* after an order update, clear _error.
on_read_message(c) ==
  /\ Runs /\ sock[c] \in Reads
  /\ residue' \in {residue, FALSE}
  /\ UNCHANGED <<pc, sock, rest, stopped, due, running, report, failed>>

\* on_read with a message whose handler throws: no read is armed again, and main
\* does not recognise the exception.
on_read_throws(c) ==
  /\ Runs /\ sock[c] \in Reads
  /\ sock' = [sock EXCEPT ![c] = "deaf"]
  /\ failed' = failed \cup {c}
  /\ pc' = "poll"
  /\ UNCHANGED <<rest, stopped, due, residue, running, report>>

\* Slip: main does not recognise the exception.
on_read_error_unseen(c) ==
  /\ Runs /\ sock[c] = "broken"
  /\ sock' = [sock EXCEPT ![c] = "dead"]
  /\ pc' = "poll"
  /\ AfterHandler(sock', rest)
  /\ UNCHANGED <<rest, due, residue, running, report, failed>>

\* on_read with an error throws "on_read: <channel>", which main answers.
on_read_error(c) ==
  /\ Runs /\ sock[c] = "broken"
  /\ sock' = [sock EXCEPT ![c] = "dead"]
  /\ pc' = Restarting(c)
  /\ AfterHandler(sock', rest)
  /\ UNCHANGED <<rest, due, residue, running, report, failed>>

\* The stream's idle timer closes a socket that has not been read for 30 seconds.
idle_timeout(c) ==
  /\ Runs /\ sock[c] = "deaf"
  /\ sock' = [sock EXCEPT ![c] = "dead"]
  /\ AfterHandler(sock', rest)
  /\ UNCHANGED <<pc, rest, due, residue, running, report, failed>>

\* Slips: a session counted as ended twice; one that fails is started again.
session_ends_twice(throws) ==
  /\ Runs /\ rest > 0
  /\ rest' = rest - 2
  /\ pc' = IF throws THEN "poll" ELSE "run"
  /\ AfterHandler(sock, rest - 2)
  /\ residue' \in {residue, FALSE}
  /\ UNCHANGED <<sock, due, running, report, failed>>

session_ends_retried(throws) ==
  /\ Runs /\ rest > 0
  /\ rest' = IF throws THEN rest ELSE rest - 1
  /\ pc' = IF throws THEN "poll" ELSE "run"
  /\ AfterHandler(sock, rest')
  /\ residue' \in {residue, FALSE}
  /\ UNCHANGED <<sock, due, running, report, failed>>

\* A REST session ends: with its handler called, with a handler that throws, or
\* silently at the first stage that fails.  A handler of an error reply clears _error.
session_ends(throws) ==
  /\ Runs /\ rest > 0
  /\ rest' = rest - 1
  /\ pc' = IF throws THEN "poll" ELSE "run"
  /\ AfterHandler(sock, rest - 1)
  /\ residue' \in {residue, FALSE}
  /\ UNCHANGED <<sock, due, running, report, failed>>

\* run_for returns.
end_run ==
  /\ pc = "run"
  /\ pc' = "ping"
  /\ UNCHANGED <<sock, rest, stopped, due, residue, running, report, failed>>

-----------------------------------------------------------------------------
(* pool(), third part: the pings *)

\* A write may fail on a socket that is broken or deaf, and fails on a dead one.
MayWrite(c) == sock[c] \in Reads \cup {"deaf"}
MayThrow(c) == sock[c] \in {"broken", "deaf", "dead"}

skip_ping ==
  /\ pc = "ping" /\ ~due
  /\ pc' = "poll"
  /\ UNCHANGED <<sock, rest, stopped, due, residue, running, report, failed>>

\* Slip: _last_ping_time is set only when a REST session is pending.
ping_both_busy ==
  /\ pc = "ping" /\ due
  /\ MayWrite("private") /\ MayWrite("public")
  /\ due' = (rest = 0)
  /\ pc' = "poll"
  /\ UNCHANGED <<sock, rest, stopped, residue, running, report, failed>>

\* Both pings are written, and _last_ping_time is set.
ping_both ==
  /\ pc = "ping" /\ due
  /\ MayWrite("private") /\ MayWrite("public")
  /\ due' = FALSE
  /\ pc' = "poll"
  /\ UNCHANGED <<sock, rest, stopped, residue, running, report, failed>>

\* One of them throws; _last_ping_time is not set.
ping_throws ==
  /\ pc = "ping" /\ due
  /\ MayThrow("private") \/ (MayWrite("private") /\ MayThrow("public"))
  /\ pc' = "poll"
  /\ UNCHANGED <<sock, rest, stopped, due, residue, running, report, failed>>

\* A pointer that holds nothing is dereferenced.
ping_null ==
  /\ pc = "ping" /\ due
  /\ sock["private"] = "null" \/ (MayWrite("private") /\ sock["public"] = "null")
  /\ pc' = "crashed"
  /\ UNCHANGED <<sock, rest, stopped, due, residue, running, report, failed>>

-----------------------------------------------------------------------------
(* The restarts *)

\* Slips: the io_context is not reset; _error is not cleared.
restarted_no_reset(c, result) ==
  /\ pc = Restarting(c)
  /\ sock' = [sock EXCEPT ![c] = result]
  /\ residue' = (result # "armed")
  /\ failed' = IF result = "armed" THEN failed ELSE failed \cup {c}
  /\ pc' = "poll"
  /\ UNCHANGED <<stopped, rest, due, running, report>>

restarted_no_clear(c, result) ==
  /\ pc = Restarting(c)
  /\ sock' = [sock EXCEPT ![c] = result]
  /\ stopped' = FALSE
  /\ residue' = (residue \/ result # "armed")
  /\ failed' = IF result = "armed" THEN failed ELSE failed \cup {c}
  /\ pc' = "poll"
  /\ UNCHANGED <<rest, due, running, report>>

\* restart_public_ws and restart_private_ws: _error and the io_context's stop are
\* cleared, and the socket is made anew.
restarted(c, result) ==
  /\ pc = Restarting(c)
  /\ sock' = [sock EXCEPT ![c] = result]
  /\ stopped' = FALSE
  /\ residue' = (result # "armed")
  /\ failed' = IF result = "armed" THEN failed ELSE failed \cup {c}
  /\ pc' = "poll"
  /\ UNCHANGED <<rest, due, running, report>>

\* A new socket with its subscriptions written.
restart_succeeds(c) == restarted(c, "armed")

\* The construction throws, or a subscription's write does, which leaves the new socket
\* with its read armed, the connection broken again or open with some subscriptions
\* missing; nobody looks at the result.
restart_fails(c) == \E result \in {"null", "broken", "partial"} : restarted(c, result)

\* The login's write fails: create_private_ws calls exit.
login_fails ==
  /\ pc = Restarting("private")
  /\ pc' = "exited"
  /\ stopped' = FALSE
  /\ residue' = FALSE
  /\ UNCHANGED <<sock, rest, due, running, report, failed>>

-----------------------------------------------------------------------------
Environment == Tick \/ sigint_handler \/ \E c \in Channels : Break(c)

Poll == start_session \/ check_balances \/ end_poll
        \/ \E ok \in BOOLEAN : cancel_all_orders(ok)

Handlers ==
  \/ \E c \in Channels : \/ on_read_message(c) \/ on_read_throws(c)
                         \/ on_read_error(c) \/ idle_timeout(c)
  \/ \E throws \in BOOLEAN : session_ends(throws)
  \/ end_run

Ping == skip_ping \/ ping_both \/ ping_throws \/ ping_null

Restart == login_fails \/ \E c \in Channels : restart_succeeds(c) \/ restart_fails(c)

Next == Environment \/ Poll \/ Handlers \/ Ping \/ Restart

Spec == Init /\ [][Next]_vars

\* The thread never waits for long: every part of an iteration ends, and not every
\* iteration ends with a handler that throws.  A handler that is ready each time the
\* io_context runs is run in the end, and a connection that is tried for again and
\* again is made in the end.
Fairness ==
  /\ WF_vars(end_poll) /\ SF_vars(end_run) /\ WF_vars(Ping) /\ WF_vars(Restart)
  /\ \A c \in Channels : /\ SF_vars(on_read_error(c))
                         /\ SF_vars(idle_timeout(c))
                         /\ SF_vars(restart_succeeds(c))
  /\ SF_vars(\E throws \in BOOLEAN : session_ends(throws))

FairSpec == Spec /\ Fairness

-----------------------------------------------------------------------------
(* Properties *)

\* While a socket can still be read the io_context runs: a read error always
\* reaches main, and the sessions of the REST commands are not starved.
ServesLiveSockets ==
  stopped => \/ \A c \in Channels : sock[c] \in {"dead", "null"}
             \/ pc \in Terminal

\* _error carries the description of a failed restart over to the next command
\* only while one of the sockets is down or not wholly subscribed.
ResidueMeansSocketDown ==
  residue => \E c \in Channels : sock[c] # "armed"

\* The gateway is lost to a null socket only after a restart that failed, and a socket
\* is without a read or a subscription only after a throw or a failed restart: every
\* other fault is repaired or on its way to main.
FaultsHaveACause ==
  /\ \A c \in Channels : sock[c] \in {"null", "deaf", "partial"} => c \in failed
  /\ \A c \in Channels : sock[c] = "dead" => c \in failed \/ pc = Restarting(c) \/ pc = "exited"
  /\ pc = "crashed" => failed # {}

\* A connection that breaks is made again, as long as no handler has thrown and no
\* attempt to connect has failed.
BreaksAreRepaired ==
  \A c \in Channels :
    sock[c] = "broken" ~> (sock[c] = "armed" \/ failed # {} \/ pc \in Terminal)

\* REST sessions keep coming to an end: the gateway never sits on as many as it may
\* have, unless both sockets are lost or the process ends.
SessionsEnd == []<>(rest < MaxRest \/ stopped \/ pc \in Terminal)

\* README.md on the main loop: "restarts the socket when the connection breaks".
BrokenConnectionRestored ==
  \A c \in Channels :
    sock[c] \in {"broken", "null"} ~> (sock[c] = "armed" \/ pc = "exited")

\* Once both connections stay up pings are written again and again, whatever failed
\* before: no exception and no stopped io_context leaves the pings behind.
PingsResume ==
  <>[](\A c \in Channels : sock[c] \in Up) => []<>(~due \/ pc \in Terminal)

\* An interrupt ends the process, whatever sockets are lost and however often an
\* exception cuts an iteration short.
InterruptEnds == ~running ~> pc \in Terminal

\* The comment in cancel_all_orders: a cancellation that succeeded is reported by the
\* private WebSocket, the log server gets an error only for one that failed.
CancelReportedTruthfully ==
  [][cancel_all_orders(TRUE) => report' = "cancelled"]_vars
=============================================================================
