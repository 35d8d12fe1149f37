---------------------------- MODULE Reservations ----------------------------
(***************************************************************************)
(* What the reservation cache promises the goroutines that share it        *)
(* (pkg/controllers/reserved_resource_amounts.go): every operation on the  *)
(* pods reserved for one throttle happens at once, between its call and    *)
(* its return.  A method that goes through several throttles is a sequence *)
(* of such operations, and others may see it half way.                     *)
(***************************************************************************)
EXTENDS Sequences

CONSTANTS
    Callers,    \* goroutines: scheduling and binding cycles, handlers, workers
    Throttles,
    Programs    \* what they may run: sequences of [op : add, remove or total, nn, pod]

VARIABLES
    reserved,   \* the pods reserved on each throttle
    call        \* what each caller has still to do, the stage of the first of it, its result

vars == <<reserved, call>>

Called(program) == [todo |-> program, stage |-> "called", result |-> {}]
Executed(program, result) == [todo |-> program, stage |-> "executed", result |-> result]

Init ==
    /\ reserved = [t \in Throttles |-> {}]
    /\ call = [c \in Callers |-> Called(<<>>)]

\* What an operation answers: the pods added or removed, or all of them.
Result(o, pods) ==
    CASE o.op = "add"    -> {o.pod} \ pods
      [] o.op = "remove" -> {o.pod} \cap pods
      [] o.op = "total"  -> pods

\* What it leaves reserved.
Effect(o, pods) ==
    CASE o.op = "add"    -> pods \cup {o.pod}
      [] o.op = "remove" -> pods \ {o.pod}
      [] o.op = "total"  -> pods

Invoke(c) ==
    /\ call[c].todo = <<>>
    /\ \E program \in Programs : call' = [call EXCEPT ![c] = Called(program)]
    /\ UNCHANGED reserved

Execute(c) ==
    /\ call[c].todo # <<>>
    /\ call[c].stage = "called"
    /\ LET o == Head(call[c].todo) IN
        /\ call' = [call EXCEPT ![c] = Executed(@.todo, Result(o, reserved[o.nn]))]
        /\ reserved' = [reserved EXCEPT ![o.nn] = Effect(o, @)]

Return(c) ==
    /\ call[c].stage = "executed"
    /\ call' = [call EXCEPT ![c] = Called(Tail(call[c].todo))]
    /\ UNCHANGED reserved

Next == \E c \in Callers : Invoke(c) \/ Execute(c) \/ Return(c)

Spec == Init /\ [][Next]_vars
=============================================================================
