------------------------------- MODULE MCFund -------------------------------
(* The Fund with an honest token, an alias of it, a facade that also debits *)
(* the honest token's ledger, and a token that takes a fee, for TLC.        *)
EXTENDS Fund

CONSTANTS honest, alias, facade, taxed, ledger1, ledger2

MCTokens == {honest, alias, facade, taxed}
MCLedgers == {ledger1, ledger2}
MCReports == [t \in MCTokens |-> IF t \in {honest, alias} THEN ledger1 ELSE ledger2]
MCAlsoDebits == [t \in MCTokens |-> IF t = facade THEN {ledger1} ELSE {}]
MCFee == [t \in MCTokens |-> IF t = taxed THEN 1 ELSE 0]
MCSelections ==
  {<<honest>>, <<facade>>, <<honest, alias>>, <<honest, facade>>, <<facade, honest>>,
   <<honest, taxed>>, <<honest, honest>>}
=============================================================================
