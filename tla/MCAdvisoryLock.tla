--------------------------- MODULE MCAdvisoryLock ---------------------------
(* Model values for checking AdvisoryLock with TLC.                        *)
EXTENDS AdvisoryLock

CONSTANTS t1, t2

TwoThreads == {t1, t2}
OwnProcess == [t \in Threads |-> IF t = t1 THEN 1 ELSE 2]
Nobody == {}
AllRanges == [t \in Threads |-> (-1..LastByte) \X (-1..LastByte)]
=============================================================================
