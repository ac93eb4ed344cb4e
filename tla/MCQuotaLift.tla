----------------------------- MODULE MCQuotaLift -----------------------------
EXTENDS QuotaLift

MCMultipliers == {<<2, 1>>, <<3, 2>>}
=============================================================================
