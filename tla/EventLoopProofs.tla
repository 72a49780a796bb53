--------------------------- MODULE EventLoopProofs ---------------------------
(***************************************************************************)
(* Proofs about EventLoop: its type and its three safety invariants, for   *)
(* any bound on the REST sessions.  Each invariant is inductive once the   *)
(* type is known; the steps are the actions of the module.                 *)
(***************************************************************************)
EXTENDS EventLoop, TLAPS

-----------------------------------------------------------------------------
(* Types *)

LEMMA InitType == Init => TypeOK
<1> SUFFICES ASSUME Init
             PROVE  TypeOK
  OBVIOUS
<1>1. pc \in Places /\ report \in Reports /\ failed \in SUBSET Channels
  BY DEF Init, Places, Reports
<1>2. sock \in [Channels -> SocketStates]
  BY DEF Init, SocketStates, Up, Reads
<1>3. rest \in 0..MaxRest
  BY MaxRestAssumption DEF Init
<1>4. stopped \in BOOLEAN /\ due \in BOOLEAN /\ residue \in BOOLEAN /\ running \in BOOLEAN
  BY Zenon DEF Init
<1> QED
  BY <1>1, <1>2, <1>3, <1>4 DEF TypeOK

LEMMA StepType == TypeOK /\ [Next]_vars => TypeOK'
<1> SUFFICES ASSUME TypeOK, [Next]_vars
             PROVE  TypeOK'
  OBVIOUS
<1>1. ASSUME NEW c \in Channels, Break(c)
      PROVE  TypeOK'
  BY <1>1 DEF Break, TypeOK, Places, Terminal, Restarting, Channels, SocketStates, Up, Reads, Reports
<1>2. CASE Tick
  BY <1>2 DEF Tick, TypeOK, Places, Terminal, Restarting, Channels, SocketStates, Up, Reads, Reports
<1>3. CASE sigint_handler
  BY <1>3 DEF sigint_handler, TypeOK, Places, Terminal, Restarting, Channels, SocketStates, Up, Reads, Reports
<1>4. CASE start_session
  BY <1>4, MaxRestAssumption DEF start_session, TypeOK, Places, Terminal, Restarting, Channels, SocketStates, Up, Reads, Reports
<1>5. CASE check_balances
  BY <1>5 DEF check_balances, TypeOK, Places, Terminal, Restarting, Channels, SocketStates, Up, Reads, Reports
<1>6. CASE end_poll
  BY <1>6 DEF end_poll, HasWork, TypeOK, Places, Terminal, Restarting, Channels, SocketStates, Up, Reads, Reports
<1>7. ASSUME NEW ok \in BOOLEAN, cancel_all_orders(ok)
      PROVE  TypeOK'
  BY <1>7 DEF cancel_all_orders, TypeOK, Places, Terminal, Restarting, Channels, SocketStates, Up, Reads, Reports
<1>8. ASSUME NEW c \in Channels, on_read_message(c)
      PROVE  TypeOK'
  BY <1>8 DEF on_read_message, Runs, TypeOK, Places, Terminal, Restarting, Channels, SocketStates, Up, Reads, Reports
<1>9. ASSUME NEW c \in Channels, on_read_throws(c)
      PROVE  TypeOK'
  BY <1>9 DEF on_read_throws, Runs, TypeOK, Places, Terminal, Restarting, Channels, SocketStates, Up, Reads, Reports
<1>10. ASSUME NEW c \in Channels, on_read_error(c)
      PROVE  TypeOK'
  BY <1>10 DEF on_read_error, Runs, AfterHandler, HasWork, Restarting, TypeOK, Places, Terminal, Channels, SocketStates, Up, Reads, Reports
<1>11. ASSUME NEW c \in Channels, idle_timeout(c)
      PROVE  TypeOK'
  BY <1>11 DEF idle_timeout, Runs, AfterHandler, HasWork, TypeOK, Places, Terminal, Restarting, Channels, SocketStates, Up, Reads, Reports
<1>12. ASSUME NEW throws \in BOOLEAN, session_ends(throws)
      PROVE  TypeOK'
  <2>1. residue' \in BOOLEAN
    BY <1>12, Zenon DEF session_ends, TypeOK
  <2>2. stopped' \in BOOLEAN
    BY <1>12, Zenon DEF session_ends, AfterHandler
  <2>3. rest' \in 0..MaxRest
    BY <1>12, MaxRestAssumption DEF session_ends, TypeOK
  <2>4. pc' \in Places
    BY <1>12 DEF session_ends, Places
  <2> QED
    BY <1>12, <2>1, <2>2, <2>3, <2>4, Zenon DEF session_ends, TypeOK
<1>13. CASE end_run
  BY <1>13 DEF end_run, TypeOK, Places, Terminal, Restarting, Channels, SocketStates, Up, Reads, Reports
<1>14. CASE skip_ping
  BY <1>14 DEF skip_ping, TypeOK, Places, Terminal, Restarting, Channels, SocketStates, Up, Reads, Reports
<1>15. CASE ping_both
  BY <1>15 DEF ping_both, TypeOK, Places, Terminal, Restarting, Channels, SocketStates, Up, Reads, Reports
<1>16. CASE ping_throws
  BY <1>16 DEF ping_throws, TypeOK, Places, Terminal, Restarting, Channels, SocketStates, Up, Reads, Reports
<1>17. CASE ping_null
  BY <1>17 DEF ping_null, MayWrite, TypeOK, Places, Terminal, Restarting, Channels, SocketStates, Up, Reads, Reports
<1>18. CASE login_fails
  BY <1>18 DEF login_fails, Restarting, TypeOK, Places, Terminal, Channels, SocketStates, Up, Reads, Reports
<1>19. ASSUME NEW c \in Channels, NEW result \in {"armed", "null", "broken", "partial"}, restarted(c, result)
      PROVE  TypeOK'
  BY <1>19 DEF restarted, Restarting, TypeOK, Places, Terminal, Channels, SocketStates, Up, Reads, Reports
<1>20. CASE UNCHANGED vars
  BY <1>20 DEF vars, TypeOK, Places, Terminal, Restarting, Channels, SocketStates, Up, Reads, Reports
<1> QED
  BY <1>1, <1>2, <1>3, <1>4, <1>5, <1>6, <1>7, <1>8, <1>9, <1>10, <1>11, <1>12, <1>13, <1>14, <1>15, <1>16, <1>17, <1>18, <1>19, <1>20
     DEF Next, Environment, Poll, Handlers, Ping, Restart, restart_succeeds, restart_fails

\* The type invariant of the event loop holds in every reachable state.
THEOREM TypeCorrect == Spec => []TypeOK
BY InitType, StepType, PTL DEF Spec

-----------------------------------------------------------------------------
(* The io_context *)

LEMMA InitServes == Init => ServesLiveSockets
BY DEF Init, ServesLiveSockets, Channels

LEMMA StepServes == TypeOK /\ ServesLiveSockets /\ [Next]_vars => ServesLiveSockets'
<1> SUFFICES ASSUME TypeOK, ServesLiveSockets, [Next]_vars
             PROVE  ServesLiveSockets'
  OBVIOUS
<1>1. ASSUME NEW c \in Channels, Break(c)
      PROVE  ServesLiveSockets'
  BY <1>1 DEF Break, ServesLiveSockets, Terminal, TypeOK, Channels, SocketStates, Up, Reads
<1>2. CASE Tick
  BY <1>2 DEF Tick, ServesLiveSockets, Terminal, TypeOK, Channels, SocketStates, Up, Reads
<1>3. CASE sigint_handler
  BY <1>3 DEF sigint_handler, ServesLiveSockets, Terminal, TypeOK, Channels, SocketStates, Up, Reads
<1>4. CASE start_session
  BY <1>4 DEF start_session, ServesLiveSockets, Terminal, TypeOK, Channels, SocketStates, Up, Reads
<1>5. CASE check_balances
  BY <1>5 DEF check_balances, ServesLiveSockets, Terminal, TypeOK, Channels, SocketStates, Up, Reads
<1>6. CASE end_poll
  BY <1>6 DEF end_poll, HasWork, ServesLiveSockets, Terminal, TypeOK, Channels, SocketStates, Up, Reads
<1>7. ASSUME NEW ok \in BOOLEAN, cancel_all_orders(ok)
      PROVE  ServesLiveSockets'
  BY <1>7 DEF cancel_all_orders, ServesLiveSockets, Terminal, TypeOK, Channels, SocketStates, Up, Reads
<1>8. ASSUME NEW c \in Channels, on_read_message(c)
      PROVE  ServesLiveSockets'
  BY <1>8 DEF on_read_message, Runs, ServesLiveSockets, Terminal, TypeOK, Channels, SocketStates, Up, Reads
<1>9. ASSUME NEW c \in Channels, on_read_throws(c)
      PROVE  ServesLiveSockets'
  BY <1>9 DEF on_read_throws, Runs, ServesLiveSockets, Terminal, TypeOK, Channels, SocketStates, Up, Reads
<1>10. ASSUME NEW c \in Channels, on_read_error(c)
      PROVE  ServesLiveSockets'
  BY <1>10 DEF on_read_error, Runs, AfterHandler, HasWork, Restarting, ServesLiveSockets, Terminal, TypeOK, Channels, SocketStates, Up, Reads
<1>11. ASSUME NEW c \in Channels, idle_timeout(c)
      PROVE  ServesLiveSockets'
  BY <1>11 DEF idle_timeout, Runs, AfterHandler, HasWork, ServesLiveSockets, Terminal, TypeOK, Channels, SocketStates, Up, Reads
<1>12. ASSUME NEW throws \in BOOLEAN, session_ends(throws)
      PROVE  ServesLiveSockets'
  BY <1>12 DEF session_ends, Runs, AfterHandler, HasWork, ServesLiveSockets, Terminal, TypeOK, Channels, SocketStates, Up, Reads
<1>13. CASE end_run
  BY <1>13 DEF end_run, ServesLiveSockets, Terminal, TypeOK, Channels, SocketStates, Up, Reads
<1>14. CASE skip_ping
  BY <1>14 DEF skip_ping, ServesLiveSockets, Terminal, TypeOK, Channels, SocketStates, Up, Reads
<1>15. CASE ping_both
  BY <1>15 DEF ping_both, ServesLiveSockets, Terminal, TypeOK, Channels, SocketStates, Up, Reads
<1>16. CASE ping_throws
  BY <1>16 DEF ping_throws, ServesLiveSockets, Terminal, TypeOK, Channels, SocketStates, Up, Reads
<1>17. CASE ping_null
  BY <1>17 DEF ping_null, MayWrite, ServesLiveSockets, Terminal, TypeOK, Channels, SocketStates, Up, Reads
<1>18. CASE login_fails
  BY <1>18 DEF login_fails, Restarting, ServesLiveSockets, Terminal, TypeOK, Channels, SocketStates, Up, Reads
<1>19. ASSUME NEW c \in Channels, NEW result \in {"armed", "null", "broken", "partial"}, restarted(c, result)
      PROVE  ServesLiveSockets'
  BY <1>19 DEF restarted, Restarting, ServesLiveSockets, Terminal, TypeOK, Channels, SocketStates, Up, Reads
<1>20. CASE UNCHANGED vars
  BY <1>20 DEF vars, ServesLiveSockets, Terminal, TypeOK, Channels, SocketStates, Up, Reads
<1> QED
  BY <1>1, <1>2, <1>3, <1>4, <1>5, <1>6, <1>7, <1>8, <1>9, <1>10, <1>11, <1>12, <1>13, <1>14, <1>15, <1>16, <1>17, <1>18, <1>19, <1>20
     DEF Next, Environment, Poll, Handlers, Ping, Restart, restart_succeeds, restart_fails

\* Whatever breaks, throws or fails to restart, the io_context runs while a socket can
\* still be read.
THEOREM ServesTheorem == Spec => []ServesLiveSockets
BY TypeCorrect, InitServes, StepServes, PTL DEF Spec

-----------------------------------------------------------------------------
(* The shared error object *)

LEMMA InitResidue == Init => ResidueMeansSocketDown
BY DEF Init, ResidueMeansSocketDown, Channels

LEMMA StepResidue == TypeOK /\ ResidueMeansSocketDown /\ [Next]_vars => ResidueMeansSocketDown'
<1> SUFFICES ASSUME TypeOK, ResidueMeansSocketDown, [Next]_vars
             PROVE  ResidueMeansSocketDown'
  OBVIOUS
<1>1. ASSUME NEW c \in Channels, Break(c)
      PROVE  ResidueMeansSocketDown'
  BY <1>1 DEF Break, ResidueMeansSocketDown, TypeOK, Channels, SocketStates, Up, Reads
<1>2. CASE Tick
  BY <1>2 DEF Tick, ResidueMeansSocketDown, TypeOK, Channels, SocketStates, Up, Reads
<1>3. CASE sigint_handler
  BY <1>3 DEF sigint_handler, ResidueMeansSocketDown, TypeOK, Channels, SocketStates, Up, Reads
<1>4. CASE start_session
  BY <1>4 DEF start_session, ResidueMeansSocketDown, TypeOK, Channels, SocketStates, Up, Reads
<1>5. CASE check_balances
  BY <1>5 DEF check_balances, ResidueMeansSocketDown, TypeOK, Channels, SocketStates, Up, Reads
<1>6. CASE end_poll
  BY <1>6 DEF end_poll, HasWork, ResidueMeansSocketDown, TypeOK, Channels, SocketStates, Up, Reads
<1>7. ASSUME NEW ok \in BOOLEAN, cancel_all_orders(ok)
      PROVE  ResidueMeansSocketDown'
  BY <1>7 DEF cancel_all_orders, ResidueMeansSocketDown, TypeOK, Channels, SocketStates, Up, Reads
<1>8. ASSUME NEW c \in Channels, on_read_message(c)
      PROVE  ResidueMeansSocketDown'
  BY <1>8 DEF on_read_message, Runs, ResidueMeansSocketDown, TypeOK, Channels, SocketStates, Up, Reads
<1>9. ASSUME NEW c \in Channels, on_read_throws(c)
      PROVE  ResidueMeansSocketDown'
  BY <1>9 DEF on_read_throws, Runs, ResidueMeansSocketDown, TypeOK, Channels, SocketStates, Up, Reads
<1>10. ASSUME NEW c \in Channels, on_read_error(c)
      PROVE  ResidueMeansSocketDown'
  BY <1>10 DEF on_read_error, Runs, AfterHandler, HasWork, Restarting, ResidueMeansSocketDown, TypeOK, Channels, SocketStates, Up, Reads
<1>11. ASSUME NEW c \in Channels, idle_timeout(c)
      PROVE  ResidueMeansSocketDown'
  BY <1>11 DEF idle_timeout, Runs, AfterHandler, HasWork, ResidueMeansSocketDown, TypeOK, Channels, SocketStates, Up, Reads
<1>12. ASSUME NEW throws \in BOOLEAN, session_ends(throws)
      PROVE  ResidueMeansSocketDown'
  BY <1>12 DEF session_ends, Runs, AfterHandler, HasWork, ResidueMeansSocketDown, TypeOK, Channels, SocketStates, Up, Reads
<1>13. CASE end_run
  BY <1>13 DEF end_run, ResidueMeansSocketDown, TypeOK, Channels, SocketStates, Up, Reads
<1>14. CASE skip_ping
  BY <1>14 DEF skip_ping, ResidueMeansSocketDown, TypeOK, Channels, SocketStates, Up, Reads
<1>15. CASE ping_both
  BY <1>15 DEF ping_both, ResidueMeansSocketDown, TypeOK, Channels, SocketStates, Up, Reads
<1>16. CASE ping_throws
  BY <1>16 DEF ping_throws, ResidueMeansSocketDown, TypeOK, Channels, SocketStates, Up, Reads
<1>17. CASE ping_null
  BY <1>17 DEF ping_null, MayWrite, ResidueMeansSocketDown, TypeOK, Channels, SocketStates, Up, Reads
<1>18. CASE login_fails
  BY <1>18 DEF login_fails, Restarting, ResidueMeansSocketDown, TypeOK, Channels, SocketStates, Up, Reads
<1>19. ASSUME NEW c \in Channels, NEW result \in {"armed", "null", "broken", "partial"}, restarted(c, result)
      PROVE  ResidueMeansSocketDown'
  BY <1>19 DEF restarted, Restarting, ResidueMeansSocketDown, TypeOK, Channels, SocketStates, Up, Reads
<1>20. CASE UNCHANGED vars
  BY <1>20 DEF vars, ResidueMeansSocketDown, TypeOK, Channels, SocketStates, Up, Reads
<1> QED
  BY <1>1, <1>2, <1>3, <1>4, <1>5, <1>6, <1>7, <1>8, <1>9, <1>10, <1>11, <1>12, <1>13, <1>14, <1>15, <1>16, <1>17, <1>18, <1>19, <1>20
     DEF Next, Environment, Poll, Handlers, Ping, Restart, restart_succeeds, restart_fails

\* A failed restart leaves its error to the next command only while a socket is down.
THEOREM ResidueTheorem == Spec => []ResidueMeansSocketDown
BY TypeCorrect, InitResidue, StepResidue, PTL DEF Spec

-----------------------------------------------------------------------------
(* Faults *)

LEMMA InitFaults == Init => FaultsHaveACause
BY DEF Init, FaultsHaveACause, Channels

LEMMA StepFaults == TypeOK /\ FaultsHaveACause /\ [Next]_vars => FaultsHaveACause'
<1> SUFFICES ASSUME TypeOK, FaultsHaveACause, [Next]_vars
             PROVE  FaultsHaveACause'
  OBVIOUS
<1>1. ASSUME NEW c \in Channels, Break(c)
      PROVE  FaultsHaveACause'
  BY <1>1 DEF Break, FaultsHaveACause, Restarting, Terminal, TypeOK, Channels, SocketStates, Up, Reads
<1>2. CASE Tick
  BY <1>2 DEF Tick, FaultsHaveACause, Restarting, Terminal, TypeOK, Channels, SocketStates, Up, Reads
<1>3. CASE sigint_handler
  BY <1>3 DEF sigint_handler, FaultsHaveACause, Restarting, Terminal, TypeOK, Channels, SocketStates, Up, Reads
<1>4. CASE start_session
  BY <1>4 DEF start_session, FaultsHaveACause, Restarting, Terminal, TypeOK, Channels, SocketStates, Up, Reads
<1>5. CASE check_balances
  BY <1>5 DEF check_balances, FaultsHaveACause, Restarting, Terminal, TypeOK, Channels, SocketStates, Up, Reads
<1>6. CASE end_poll
  BY <1>6 DEF end_poll, HasWork, FaultsHaveACause, Restarting, Terminal, TypeOK, Channels, SocketStates, Up, Reads
<1>7. ASSUME NEW ok \in BOOLEAN, cancel_all_orders(ok)
      PROVE  FaultsHaveACause'
  BY <1>7 DEF cancel_all_orders, FaultsHaveACause, Restarting, Terminal, TypeOK, Channels, SocketStates, Up, Reads
<1>8. ASSUME NEW c \in Channels, on_read_message(c)
      PROVE  FaultsHaveACause'
  BY <1>8 DEF on_read_message, Runs, FaultsHaveACause, Restarting, Terminal, TypeOK, Channels, SocketStates, Up, Reads
<1>9. ASSUME NEW c \in Channels, on_read_throws(c)
      PROVE  FaultsHaveACause'
  BY <1>9 DEF on_read_throws, Runs, FaultsHaveACause, Restarting, Terminal, TypeOK, Channels, SocketStates, Up, Reads
<1>10. ASSUME NEW c \in Channels, on_read_error(c)
      PROVE  FaultsHaveACause'
  BY <1>10 DEF on_read_error, Runs, AfterHandler, HasWork, Restarting, FaultsHaveACause, Terminal, TypeOK, Channels, SocketStates, Up, Reads
<1>11. ASSUME NEW c \in Channels, idle_timeout(c)
      PROVE  FaultsHaveACause'
  BY <1>11 DEF idle_timeout, Runs, AfterHandler, HasWork, FaultsHaveACause, Restarting, Terminal, TypeOK, Channels, SocketStates, Up, Reads
<1>12. ASSUME NEW throws \in BOOLEAN, session_ends(throws)
      PROVE  FaultsHaveACause'
  BY <1>12 DEF session_ends, Runs, AfterHandler, HasWork, FaultsHaveACause, Restarting, Terminal, TypeOK, Channels, SocketStates, Up, Reads
<1>13. CASE end_run
  BY <1>13 DEF end_run, FaultsHaveACause, Restarting, Terminal, TypeOK, Channels, SocketStates, Up, Reads
<1>14. CASE skip_ping
  BY <1>14 DEF skip_ping, FaultsHaveACause, Restarting, Terminal, TypeOK, Channels, SocketStates, Up, Reads
<1>15. CASE ping_both
  BY <1>15 DEF ping_both, FaultsHaveACause, Restarting, Terminal, TypeOK, Channels, SocketStates, Up, Reads
<1>16. CASE ping_throws
  BY <1>16 DEF ping_throws, FaultsHaveACause, Restarting, Terminal, TypeOK, Channels, SocketStates, Up, Reads
<1>17. CASE ping_null
  BY <1>17 DEF ping_null, MayWrite, FaultsHaveACause, Restarting, Terminal, TypeOK, Channels, SocketStates, Up, Reads
<1>18. CASE login_fails
  BY <1>18 DEF login_fails, Restarting, FaultsHaveACause, Terminal, TypeOK, Channels, SocketStates, Up, Reads
<1>19. ASSUME NEW c \in Channels, NEW result \in {"armed", "null", "broken", "partial"}, restarted(c, result)
      PROVE  FaultsHaveACause'
  BY <1>19 DEF restarted, Restarting, FaultsHaveACause, Terminal, TypeOK, Channels, SocketStates, Up, Reads
<1>20. CASE UNCHANGED vars
  BY <1>20 DEF vars, FaultsHaveACause, Restarting, Terminal, TypeOK, Channels, SocketStates, Up, Reads
<1> QED
  BY <1>1, <1>2, <1>3, <1>4, <1>5, <1>6, <1>7, <1>8, <1>9, <1>10, <1>11, <1>12, <1>13, <1>14, <1>15, <1>16, <1>17, <1>18, <1>19, <1>20
     DEF Next, Environment, Poll, Handlers, Ping, Restart, restart_succeeds, restart_fails

\* No socket is lost, and no null pointer dereferenced, without a handler that threw or
\* a restart that failed.
THEOREM FaultsTheorem == Spec => []FaultsHaveACause
BY TypeCorrect, InitFaults, StepFaults, PTL DEF Spec
=============================================================================
