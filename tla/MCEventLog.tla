------------------------------ MODULE MCEventLog ------------------------------
EXTENDS EventLog

CONSTANTS i1, i2, s1

\* A fresh database, and two the old command handlers wrote: a repeated
\* position, and a position zero.
Legacy(id, pos) == [id |-> id, key |-> NoKey, stream |-> s1, pos |-> pos]
MCLegacyLogs == {<<>>, <<Legacy(i1, 1), Legacy(i2, 1)>>, <<Legacy(i1, 0)>>}
===============================================================================
