----------------------------- MODULE MCAutoSearch -----------------------------
(* A small instance of AutoSearch for TLC.                                     *)
EXTENDS AutoSearch

\* A race, and the engine before a race, which the search may come to twice: the
\* second pass finds an engine that the first one left behind.
SomePlans == {<<"race">>, <<"engine", "race">>}
=============================================================================
