------------------------------ MODULE MCLogBuf ------------------------------
(* Instances of LogBuf for TLC.                                            *)
EXTENDS LogBuf, TLC

At(ts, level) == [ts |-> ts, level |-> level]

\* No line; two lines stamped by the gateway; a line stamped by its sender, who
\* may be ahead of or behind the gateway's clock.
SomeBatches == {<<>>, <<At(0, "INFO"), At(0, "HIGH")>>, <<At(2, "HIGH")>>}

Ask(kind, since, level) == [kind |-> kind, since |-> since, level |-> level]

\* Errors after a time, on a subscription; everything, by polling.
SomeQueries == {Ask("sse", 1, "error"), Ask("fleet", 0, "")}
=============================================================================
