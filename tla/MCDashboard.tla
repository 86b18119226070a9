---------------------------- MODULE MCDashboard ----------------------------
(* Dashboard with two days; EXTENDS TLC for the model values of the .cfg.    *)
EXTENDS Dashboard, TLC

CONSTANTS today, yesterday
=============================================================================
