----------------------------- MODULE MCEmission -----------------------------
(***************************************************************************)
(* Emission with room for PeriodsLen periods: the array fills, is refused  *)
(* or rotates, launches are scheduled and edited for more, for less and    *)
(* for the same amount, and the wallet runs dry.                           *)
(***************************************************************************)
EXTENDS Emission

MCRates   == {0, 2}
MCLengths == {1, 2, 3}
MCDelays  == {-1, 1, 3}
=============================================================================
