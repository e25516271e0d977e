----------------------------- MODULE MCBookSync -----------------------------
(***************************************************************************)
(* Instances of the self-healing order book for TLC.                       *)
(***************************************************************************)
EXTENDS BookSync

\* Two bids for one place in the top: a bid that is pushed out of the top may
\* come back when the better one goes.
TwoBids == {1, 2}
OneAsk == {3}

=============================================================================
