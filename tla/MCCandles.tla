------------------------------ MODULE MCCandles ------------------------------
EXTENDS Candles

\* Pons V1: one listener ingests every trade.
OneStream == [t \in Trades |-> "swaps"]
=============================================================================
