-------------------------- MODULE MCFundingCapture --------------------------
EXTENDS FundingCapture

CONSTANT btc

BothStrategies == {A, B}
DefaultPct == [s \in {A, B} |-> IF s = A THEN 25 ELSE 50]
=============================================================================
