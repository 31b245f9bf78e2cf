----------------------------- MODULE MCUpdater -----------------------------
\* Updater as TLC checks it: version 2 is longer than those before and after.
EXTENDS Updater
MCSize == [v \in 1..MaxVersion |-> IF v = 2 THEN 2 ELSE 1]
=============================================================================
