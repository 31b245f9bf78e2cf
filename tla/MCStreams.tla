----------------------------- MODULE MCStreams -----------------------------
\* Streams as TLC checks it; the constants are in streams.cfg.
EXTENDS Streams
=============================================================================
