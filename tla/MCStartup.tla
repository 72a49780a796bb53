----------------------------- MODULE MCStartup -----------------------------
(***************************************************************************)
(* Documents for the model-checking run of Startup.                        *)
(***************************************************************************)
EXTENDS Startup

Document(parses, gate, given, markets, assets, size) ==
  [parses |-> parses, gate |-> gate, given |-> given, markets |-> markets,
   assets |-> assets, size |-> size]

Whole     == Document(TRUE, TRUE, Fields, <<"m", "n">>, <<"a">>, 3)
NoAlgo    == Document(TRUE, TRUE, Fields \ {"algo", "depth"}, <<"n">>, <<"b">>, 1)
NoKeys    == Document(TRUE, TRUE, Fields \ {"keys", "markets"}, <<>>, <<"a">>, 2)
NoChannel == Document(TRUE, TRUE, Fields \ {"channels", "assets"}, <<"m">>, <<>>, 1)
NoGate    == Document(TRUE, FALSE, {"markets", "assets"}, <<"m">>, <<"b">>, 2)
Broken    == Document(FALSE, FALSE, {}, <<>>, <<>>, 1)

AllDocuments == {Whole, NoAlgo, NoKeys, NoChannel, NoGate, Broken}
=============================================================================
