---------------------- MODULE MCReservedResourceAmounts ---------------------
(* A small instance of ReservedResourceAmounts.                            *)
EXTENDS ReservedResourceAmounts

\* Each throttle in a bucket of its own.
MCOwnBuckets == [t \in Throttles |-> IF t = "t1" THEN 1 ELSE 2]

Do(op, nn, pod) == [op |-> op, nn |-> nn, pod |-> pod]

\* Reserve, UnReserve, CheckThrottled on either throttle, and a move from t1 to t2.
MCPrograms ==
    {<<Do("add", "t1", "p1")>>, <<Do("add", "t1", "p2")>>, <<Do("remove", "t1", "p1")>>,
     <<Do("total", "t1", "p1")>>, <<Do("total", "t2", "p1")>>,
     <<Do("remove", "t1", "p2"), Do("add", "t2", "p2")>>}
=============================================================================
