----------------------- MODULE ReservedResourceAmounts ----------------------
(***************************************************************************)
(* The reservation cache, with its locks:                                  *)
(*   pkg/controllers/reserved_resource_amounts.go                          *)
(*                                                                         *)
(* A hashed mutex serializes the operations on one throttle, and on those  *)
(* that share its bucket.  A read-write lock guards the outer map, whose   *)
(* entries are made when they are first asked for; it is given up before   *)
(* an entry, a Go map, is read or written.                                 *)
(***************************************************************************)
EXTENDS Naturals, Sequences, FiniteSets

CONSTANTS
    Callers, Throttles, Pods, Programs,
    Buckets,    \* of the key mutex
    Bucket      \* the hash of each throttle's name

Operations == [op : {"add", "remove", "total"}, nn : Throttles, pod : Pods]

ASSUME ReservedAssumption ==
    /\ Programs \subseteq Seq(Operations) \ {<<>>}
    /\ Bucket \in [Throttles -> Buckets]

VARIABLES
    keyMutex,   \* who holds each bucket
    readers,    \* who holds the read lock
    waiting,    \* who has asked for the write lock: later readers wait behind
    writer,     \* who holds it
    cache,      \* the entry of each throttle, a reference; 0 when there is none
    maps,       \* the pods in each Go map that was made
    thread      \* the program of each caller, where it is in the current method, its map, its result

vars == <<keyMutex, readers, waiting, writer, cache, maps, thread>>

NoCall == [pc |-> "idle", todo |-> <<>>, map |-> 0, result |-> {}]

Init ==
    /\ keyMutex = [b \in Buckets |-> {}]
    /\ readers = {} /\ waiting = {} /\ writer = {}
    /\ cache = [t \in Throttles |-> 0]
    /\ maps = <<>>
    /\ thread = [c \in Callers |-> NoCall]

Current(c) == Head(thread[c].todo)
At(c, pc) == thread[c].pc = pc
Goto(c, pc) == thread' = [thread EXCEPT ![c].pc = pc]

-----------------------------------------------------------------------------
\* addPod, removePod, reservedResourceAmount, or moveThrottleAssignmentForPods
Invoke(c) ==
    /\ At(c, "idle")
    /\ \E program \in Programs :
        thread' = [thread EXCEPT ![c] = [NoCall EXCEPT !.pc = "lockKey", !.todo = program]]
    /\ UNCHANGED <<keyMutex, readers, waiting, writer, cache, maps>>

\* A mutant: reading needs no key lock.
LockKey_NotForTotal(c) ==
    LET b == Bucket[Current(c).nn] IN
    /\ At(c, "lockKey")
    /\ IF Current(c).op = "total" THEN UNCHANGED keyMutex
       ELSE keyMutex[b] = {} /\ keyMutex' = [keyMutex EXCEPT ![b] = {c}]
    /\ Goto(c, "rLock")
    /\ UNCHANGED <<readers, waiting, writer, cache, maps>>

LockKey(c) ==
    LET b == Bucket[Current(c).nn] IN
    /\ At(c, "lockKey")
    /\ keyMutex[b] = {}
    /\ keyMutex' = [keyMutex EXCEPT ![b] = {c}]
    /\ Goto(c, "rLock")
    /\ UNCHANGED <<readers, waiting, writer, cache, maps>>

\* A mutant: readers do not wait behind a writer that waits.
RLock_BeforeWriters(c) ==
    /\ At(c, "rLock")
    /\ writer = {}
    /\ readers' = readers \cup {c}
    /\ Goto(c, "lookUp")
    /\ UNCHANGED <<keyMutex, waiting, writer, cache, maps>>

RLock(c) ==
    /\ At(c, "rLock")
    /\ waiting \cup writer = {}
    /\ readers' = readers \cup {c}
    /\ Goto(c, "lookUp")
    /\ UNCHANGED <<keyMutex, waiting, writer, cache, maps>>

(* The entry, and RUnlock.  Without an entry nothing is reserved; add and  *)
(* remove make one.                                                        *)
LookUp(c) ==
    LET entry == cache[Current(c).nn] IN
    /\ At(c, "lookUp")
    /\ readers' = readers \ {c}
    /\ thread' = [thread EXCEPT
                    ![c].map = entry,
                    ![c].pc = IF entry # 0 THEN "body"
                              ELSE IF Current(c).op = "total" THEN "unlockKey" ELSE "lock"]
    /\ UNCHANGED <<keyMutex, waiting, writer, cache, maps>>

\* Lock: one writer at a time waits for the readers that are in.
AskToWrite(c) ==
    /\ At(c, "lock")
    /\ waiting \cup writer = {}
    /\ waiting' = {c}
    /\ Goto(c, "drain")
    /\ UNCHANGED <<keyMutex, readers, writer, cache, maps>>

Lock(c) ==
    /\ At(c, "drain")
    /\ readers = {}
    /\ writer' = {c}
    /\ waiting' = {}
    /\ Goto(c, "create")
    /\ UNCHANGED <<keyMutex, readers, cache, maps>>

\* A mutant: the cache's own map is not initialized.
CreateEntry_NilMap(c) ==
    LET nn == Current(c).nn IN
    /\ At(c, "create")
    /\ cache' = [cache EXCEPT ![nn] = IF @ = 0 THEN Len(maps) + 1 ELSE @]
    /\ writer' = {}
    /\ thread' = [thread EXCEPT ![c].map = cache'[nn], ![c].pc = "unlockKey"]
    /\ UNCHANGED <<maps, keyMutex, readers, waiting>>

\* A mutant: one empty map is shared by all new entries.
CreateEntry_SharedEmpty(c) ==
    LET nn == Current(c).nn IN
    /\ At(c, "create")
    /\ IF cache[nn] = 0
       THEN maps' = (IF maps = <<>> THEN <<{}>> ELSE maps) /\ cache' = [cache EXCEPT ![nn] = 1]
       ELSE UNCHANGED <<cache, maps>>
    /\ writer' = {}
    /\ thread' = [thread EXCEPT ![c].map = cache'[nn], ![c].pc = "body"]
    /\ UNCHANGED <<keyMutex, readers, waiting>>

\* The entry, unless there is one by now, and the deferred Unlock.
CreateEntry(c) ==
    LET nn == Current(c).nn IN
    /\ At(c, "create")
    /\ IF cache[nn] = 0
       THEN maps' = Append(maps, {}) /\ cache' = [cache EXCEPT ![nn] = Len(maps) + 1]
       ELSE UNCHANGED <<cache, maps>>
    /\ writer' = {}
    /\ thread' = [thread EXCEPT ![c].map = cache'[nn], ![c].pc = "body"]
    /\ UNCHANGED <<keyMutex, readers, waiting>>

\* A mutant: add reports whether the pod was there before.
Body_AnswersExisted(c) ==
    LET o    == Current(c)
        pods == maps[thread[c].map]
    IN /\ At(c, "body")
       /\ maps' = [maps EXCEPT ![thread[c].map] =
                    IF o.op = "add" THEN @ \cup {o.pod}
                    ELSE IF o.op = "remove" THEN @ \ {o.pod} ELSE @]
       /\ thread' = [thread EXCEPT
                        ![c].pc = "unlockKey",
                        ![c].result = IF o.op = "total" THEN pods ELSE {o.pod} \cap pods]
       /\ UNCHANGED <<keyMutex, readers, waiting, writer, cache>>

\* add, remove or totalResoruceAmount of the caller's map
Body(c) ==
    LET o    == Current(c)
        pods == maps[thread[c].map]
    IN /\ At(c, "body")
       /\ maps' = [maps EXCEPT ![thread[c].map] =
                    IF o.op = "add" THEN @ \cup {o.pod}
                    ELSE IF o.op = "remove" THEN @ \ {o.pod} ELSE @]
       /\ thread' = [thread EXCEPT
                        ![c].pc = "unlockKey",
                        ![c].result = IF o.op = "add" THEN {o.pod} \ pods
                                      ELSE IF o.op = "remove" THEN {o.pod} \cap pods
                                      ELSE pods]
       /\ UNCHANGED <<keyMutex, readers, waiting, writer, cache>>

\* The deferred UnlockKey, and on to the next throttle.
UnlockKey(c) ==
    LET b == Bucket[Current(c).nn]
        rest == Tail(thread[c].todo)
    IN /\ At(c, "unlockKey")
       /\ keyMutex' = [keyMutex EXCEPT ![b] = @ \ {c}]
       /\ thread' = [thread EXCEPT ![c] = [NoCall EXCEPT !.todo = rest,
                                           !.pc = IF rest = <<>> THEN "idle" ELSE "lockKey"]]
       /\ UNCHANGED <<readers, waiting, writer, cache, maps>>

Acquire(c) == LockKey(c) \/ RLock(c) \/ AskToWrite(c)
Proceed(c) == LookUp(c) \/ Lock(c) \/ CreateEntry(c) \/ Body(c) \/ UnlockKey(c)

Next == \E c \in Callers : Invoke(c) \/ Acquire(c) \/ Proceed(c)

Spec == Init /\ [][Next]_vars

(* Goroutines run, and Go's mutexes let nobody wait for ever: a goroutine  *)
(* that has waited for a millisecond is next.                              *)
FairSpec ==
    /\ Spec
    /\ \A c \in Callers :
        WF_vars(Proceed(c)) /\ SF_vars(LockKey(c)) /\ SF_vars(RLock(c)) /\ SF_vars(AskToWrite(c))

-----------------------------------------------------------------------------
Points == {"idle", "lockKey", "rLock", "lookUp", "lock", "drain", "create", "body", "unlockKey"}
Calls == [pc : Points, todo : Seq(Operations), map : Nat, result : SUBSET Pods]

TypeOK ==
    /\ keyMutex \in [Buckets -> SUBSET Callers]
    /\ readers \subseteq Callers /\ waiting \subseteq Callers /\ writer \subseteq Callers
    /\ maps \in Seq(SUBSET Pods)
    /\ cache \in [Throttles -> 0..Len(maps)]
    /\ thread \in [Callers -> Calls]

(* No two goroutines are in the same unsynchronized Go map at once, and    *)
(* nobody reads the outer map while an entry is put into it: either is a   *)
(* fatal error of the Go runtime.                                          *)
NoConcurrentMapAccess ==
    \A c, d \in Callers : c # d =>
        /\ At(c, "body") /\ At(d, "body") => thread[c].map # thread[d].map
        /\ At(c, "create") => thread[d].pc \notin {"lookUp", "create"}

(* The map a caller was given is the one in the cache, and belongs to no   *)
(* other throttle, though the read lock was given up before the write lock *)
(* was taken, and the write lock before the map is used.                   *)
MapIsCurrent ==
    /\ \A c \in Callers : At(c, "body") => thread[c].map = cache[Current(c).nn]
    /\ \A s, t \in Throttles : s # t /\ cache[s] # 0 => cache[s] # cache[t]

(* Every call returns: nobody waits for ever for a bucket shared with      *)
(* another throttle, for readers that keep coming or for a lost unlock.    *)
CallsReturn == \A c \in Callers : ~At(c, "idle") ~> At(c, "idle")

-----------------------------------------------------------------------------
(* Every operation is atomic, whatever the interleaving of the locks: the  *)
(* methods implement Reservations.                                         *)
Atomic ==
    INSTANCE Reservations WITH
        reserved <- [t \in Throttles |-> IF cache[t] = 0 THEN {} ELSE maps[cache[t]]],
        call     <- [c \in Callers |->
                        [todo   |-> thread[c].todo,
                         stage  |-> IF At(c, "unlockKey") THEN "executed" ELSE "called",
                         result |-> thread[c].result]]

ImplementsReservations == Atomic!Spec
=============================================================================
