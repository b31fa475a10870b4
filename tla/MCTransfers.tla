----------------------------- MODULE MCTransfers -----------------------------
(* Transfers for TLC.                                                      *)
EXTENDS Transfers
MCPackages == <<2, 1>>
MCPlans == {<<"packages", "packages">>, <<"cover">>, <<"covers">>, <<"launch", "scan", "launch">>}
=============================================================================
