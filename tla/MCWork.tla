-------------------------------- MODULE MCWork --------------------------------
EXTENDS Work, TLC

CONSTANTS o, m, r1, r2, w1, w2

MCUsers == {o, m}
MCManagers == {o}
MCSubscribers == {m}
MCFollowed == {<<1, m>>}
MCRequests == {r1, r2}
MCWorkers == {w1, w2}
Interchangeable == Permutations(MCRequests) \cup Permutations(MCWorkers)
=============================================================================
