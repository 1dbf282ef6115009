--------------------------- MODULE MCMemoryOutbox ---------------------------
(***************************************************************************)
(* Small instances of MemoryOutbox for TLC. The code waits                 *)
(* min(300, 5 * 2^(n-1)) seconds after the n-th failure and leases for 60: *)
(* here the first wait is a tick and the cap is two.                       *)
(***************************************************************************)
EXTENDS MemoryOutbox

CONSTANTS w1, w2, m1, m2, m3, s1, s2

NoWorker   == {}
OneWorker  == {w1}
TwoWorkers == {w1, w2}

OneScope  == [m \in Memories |-> s1]
TwoScopes == [m \in Memories |-> IF m = m3 THEN s2 ELSE s1]

DelayBase == 1
DelayCap  == 2
MCBackoff ==
    [n \in 1 .. MaxAttempts |->
        IF DelayBase * 2^(n - 1) > DelayCap THEN DelayCap ELSE DelayBase * 2^(n - 1)]

NoExpiry   == {Forever}
SomeExpiry == {1, Forever}

=============================================================================
