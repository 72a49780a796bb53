----------------------------- MODULE MCGateway -----------------------------
(***************************************************************************)
(* Values of the constants of Gateway for TLC that a .cfg cannot spell.    *)
(***************************************************************************)
EXTENDS Gateway

\* orderbook_depth = -1 in the configuration.
AllLevels == -1
=============================================================================
