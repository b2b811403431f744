----------------------------- MODULE MCTvSystem -----------------------------
(***************************************************************************)
(* Values of TvSystem's constants for TLC.                                 *)
(***************************************************************************)
EXTENDS TvSystem, MCTvCore

\* One signal that is shown and one that is refused: handlers that start and
\* handlers that stop the decoder before they send.
Refused == {Stable, NotSup}

=============================================================================
