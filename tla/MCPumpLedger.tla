---- MODULE MCPumpLedger ----
EXTENDS PumpLedger
MCKinds == <<"create", "complete", "buy", "migrate">>
====
