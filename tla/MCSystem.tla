------------------------------ MODULE MCSystem ------------------------------
(* System on three ports.                                                   *)
EXTENDS System

\* Forecasts that leave a container running although one exits.
Amounts == {2, 3}
=============================================================================
