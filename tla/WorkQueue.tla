------------------------------ MODULE WorkQueue -----------------------------
(***************************************************************************)
(* client-go's rate limiting work queue, as ControllerBase uses it         *)
(* (pkg/controllers/controller.go): external code, modelled from that use. *)
(*                                                                         *)
(* A key added while it is being processed stays dirty until Done, so one  *)
(* key is never processed twice at a time.  The order of ready keys is     *)
(* abstracted to any order, the delay of a rate limited key to any time.   *)
(***************************************************************************)

EmptyQueue == [dirty |-> {}, processing |-> {}, waiting |-> {}]

Queues(Keys) == [dirty      : SUBSET Keys,
                 processing : SUBSET Keys,
                 waiting    : SUBSET Keys]

\* workqueue.Add, behind enqueue
Enqueue(q, k) == [q EXCEPT !.dirty = @ \cup {k}]

\* the keys workqueue.Get may return
Ready(q) == q.dirty \ q.processing

\* workqueue.Get
Take(q, k) == [q EXCEPT !.dirty = @ \ {k}, !.processing = @ \cup {k}]

\* workqueue.Done
Done(q, k) == [q EXCEPT !.processing = @ \ {k}]

\* workqueue.AddRateLimited
AddRateLimited(q, k) == [q EXCEPT !.waiting = @ \cup {k}]

\* the delay of a rate limited key is over
Expire(q, k) == [q EXCEPT !.waiting = @ \ {k}, !.dirty = @ \cup {k}]
=============================================================================
