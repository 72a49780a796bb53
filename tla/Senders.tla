------------------------------- MODULE Senders -------------------------------
(***************************************************************************)
(* How the gateway sends: the senders of order reports, balances, order    *)
(* books, metrics and errors, and the copy of a command for the log        *)
(* server.  All but the copy offer a message to an Aeron publication,      *)
(* offer it once more when the answer is ADMIN_ACTION (-3), write to the   *)
(* error file when it is lost, and name there the message they sent last.  *)
(*                                                                         *)
(* The thread runs one handler at a time; what the handler still has to do *)
(* is a sequence of tasks, and each task is one step.  What an offer       *)
(* answers is up to the media driver, and free here.                       *)
(***************************************************************************)
EXTENDS Naturals, Sequences

\* A slot is a place of the code that sends: one kind of message to one channel.
Slots == {"report_core", "report_log", "balance_core", "balance_log", "book",
          "metric", "error", "copy"}

AeronChannels == {"order_status", "balance", "orderbook", "log"}

ChannelOf(slot) ==
  CASE slot = "report_core"  -> "order_status"
    [] slot = "balance_core" -> "balance"
    [] slot = "book"         -> "orderbook"
    [] OTHER                 -> "log"

\* The slots that have a _prev_ member; the others name "none".
Remembering == Slots \ {"error", "copy"}

\* What becomes of a message: the first offer succeeds; the second does, after an
\* ADMIN_ACTION; it is lost.
Outcomes == {"first", "again", "lost", "lost_again"}
Sent     == {"first", "again"}

VARIABLES tasks, \* what the running handler still has to do, in order
          got,   \* what each channel was given, in order
          prev,  \* the _prev_ member of each slot: a message's number, 0 for "none"
          errors \* what processing_error has written

sendVars == <<tasks, got, prev, errors>>

\* A task: a slot and the number of the message that goes there.
Task(slot, n) == [slot |-> slot, n |-> n]

SendersInit ==
  /\ tasks = <<>>
  /\ got = [c \in AeronChannels |-> <<>>]
  /\ prev = [s \in Remembering |-> 0]
  /\ errors = {}

\* Slip: only a first failure is written to the error file.
Blames_First(slot, outcome) == slot # "copy" /\ outcome = "lost"

\* Every loss is written to the error file, but that of a copy.
Blames(slot, outcome) == slot # "copy" /\ outcome \notin Sent

\* A message is remembered when its first offer succeeds, not when its second does.
Remembers(slot, outcome) == slot \in Remembering /\ outcome = "first"

\* Slip: the balances for the log server name the order report before them.
Entry_Mixed(slot, n) ==
  [slot |-> slot, n |-> n,
   last |-> IF slot = "balance_log" THEN prev["report_log"]
            ELSE IF slot \in Remembering THEN prev[slot] ELSE 0]

\* What processing_error writes: the message lost, and the one sent last.
Entry(slot, n) ==
  [slot |-> slot, n |-> n, last |-> IF slot \in Remembering THEN prev[slot] ELSE 0]

\* Slip: after a second offer the message is sent once more.
send_thrice(outcome) ==
  LET t == Head(tasks)
  IN /\ tasks # <<>> /\ t.slot \in Slots
     /\ tasks' = IF outcome = "again" THEN tasks ELSE Tail(tasks)
     /\ got' = IF outcome \in Sent
               THEN [got EXCEPT ![ChannelOf(t.slot)] =
                       Append(@, Task(t.slot, t.n))]
               ELSE got
     /\ prev' = IF Remembers(t.slot, outcome) THEN [prev EXCEPT ![t.slot] = t.n] ELSE prev
     /\ errors' = IF Blames(t.slot, outcome) THEN errors \cup {Entry(t.slot, t.n)} ELSE errors

\* The next task is a message, which is offered once or twice.  A copy is offered once.
send(outcome) ==
  LET t == Head(tasks)
  IN /\ tasks # <<>> /\ t.slot \in Slots
     /\ t.slot = "copy" => outcome \in {"first", "lost"}
     /\ tasks' = Tail(tasks)
     /\ got' = IF outcome \in Sent
               THEN [got EXCEPT ![ChannelOf(t.slot)] =
                       Append(@, Task(t.slot, t.n))]
               ELSE got
     /\ prev' = IF Remembers(t.slot, outcome) THEN [prev EXCEPT ![t.slot] = t.n] ELSE prev
     /\ errors' = IF Blames(t.slot, outcome) THEN errors \cup {Entry(t.slot, t.n)} ELSE errors
=============================================================================
