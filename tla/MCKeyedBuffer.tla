--------------------------- MODULE MCKeyedBuffer ----------------------------
(***************************************************************************)
(* Instance for TLC: a kind that is overwritten and one that is replaced,  *)
(* each for two symbols, so four keys compete for the three places of the  *)
(* buffer, and a priority feed beside them.                                *)
(***************************************************************************)
EXTENDS KeyedBuffer

MCFeedKinds == {"ticker", "trade", "ownTrades"}

=============================================================================
