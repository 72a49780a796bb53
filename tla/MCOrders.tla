------------------------------ MODULE MCOrders ------------------------------
(***************************************************************************)
(* Messages of the core for the model-checking runs of Orders.             *)
(***************************************************************************)
EXTENDS Orders, TLC

Buy      == "symbol" :> "BTC" @@ "type" :> "limit" @@ "side" :> "buy"
            @@ "price" :> "p" @@ "amount" :> "q"
Named(c) == "client_id" :> c
ById(o)  == "id" :> o

Message(action, array, data) == [action |-> action, array |-> array, data |-> data]

TwoMarkets == <<"ETH", "BTC">>

Create    == Message("create_order", TRUE, <<Buy @@ Named("a")>>)
Cancel    == Message("cancel_order", TRUE, <<ById(1)>>)
Ask       == Message("order_status", TRUE, <<ById(1)>>)
CancelAll == Message("cancel_all_orders", TRUE, <<Buy>>)

\* One order and two more commands: sessions may be overtaken, cancel_all_orders not, so the
\* order of the commands matters for that one only.
SingleScripts ==
  {<<Create, c, d>> : c \in {Cancel, CancelAll}, d \in {Cancel, Ask, CancelAll}}
    \cup {<<Create, Ask, c>> : c \in {Ask, CancelAll}} \cup {<<CancelAll, Create, Cancel>>}

\* Messages of two elements whose fields are not all given, a market order, creations
\* without a side, fields of a wrong type, and messages that are not arrays or have no
\* elements.
Batches ==
  {Message("create_order", TRUE, <<"price" :> Wrong @@ Buy @@ Named("a"), "price" :> "r" @@ Buy>>),
   Message("create_order", TRUE,
           <<"type" :> "stop" @@ Buy, "type" :> "limit" @@ "side" :> "sell" @@ Named("b")>>),
   Message("create_order", TRUE, <<"symbol" :> "BTC" @@ Named("c"), Buy>>),
   Message("create_order", TRUE, <<Buy @@ Named("a"), "symbol" :> Wrong @@ Buy, Buy>>),
   Message("cancel_all_orders", TRUE, <<"type" :> Wrong, Buy>>),
   Message("cancel_order", TRUE, <<ById(1), ById(2)>>),
   Message("order_status", TRUE, <<Named("a"), ById(1)>>),
   Message("cancel_all_orders", TRUE, <<>>),
   Message("cancel_all_orders", FALSE, <<>>),
   Message("create_order", FALSE, <<>>)}

BatchScripts == {<<c>> : c \in Batches}

AllScripts  == SingleScripts \cup BatchScripts
AllCommands == {Create, Cancel, Ask, CancelAll} \cup Batches
=============================================================================
