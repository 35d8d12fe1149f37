------------------- MODULE ReservedResourceAmounts_proofs -------------------
(***************************************************************************)
(* Proofs about ReservedResourceAmounts, for any goroutines, throttles,    *)
(* pods, programs and any hash: that two goroutines are never in one Go    *)
(* map, and that every operation is atomic.                                *)
(***************************************************************************)
EXTENDS ReservedResourceAmounts, SequenceTheorems, TLAPS

(* Who is past lockKey holds the bucket of its throttle alone, and the     *)
(* read-write lock is held by those whose place says so.                   *)
Holding(c) == thread[c].pc \notin {"idle", "lockKey"}

KeyLock == \A c \in Callers : Holding(c) => keyMutex[Bucket[Current(c).nn]] = {c}

RWLock ==
    /\ readers = {c \in Callers : At(c, "lookUp")}
    /\ waiting = {c \in Callers : At(c, "drain")}
    /\ writer = {c \in Callers : At(c, "create")}
    /\ \A c, d \in waiting \cup writer : c = d
    /\ writer # {} => readers = {}

(* A caller has something to do unless it is idle, and an answer only      *)
(* before it returns.                                                      *)
CallsInv ==
    \A c \in Callers :
        /\ At(c, "idle") <=> thread[c].todo = <<>>
        /\ ~At(c, "unlockKey") => thread[c].result = {}

(* The map that is about to be used is one that was made.                  *)
MapsInv ==
    /\ \A c \in Callers : At(c, "body") => cache[Current(c).nn] # 0
    /\ MapIsCurrent

IInv == TypeOK /\ KeyLock /\ RWLock /\ CallsInv /\ MapsInv

(* Who is not idle has an operation on a throttle, with a bucket.          *)
LEMMA CurrentType ==
    ASSUME TypeOK, CallsInv, NEW c \in Callers, ~At(c, "idle")
    PROVE  /\ thread[c] \in Calls
           /\ Current(c) \in Operations
           /\ Current(c).nn \in Throttles
           /\ Bucket[Current(c).nn] \in Buckets
           /\ Tail(thread[c].todo) \in Seq(Operations)
<1>1. thread[c] \in Calls
  BY DEF TypeOK
<1>2. thread[c].todo \in Seq(Operations) /\ thread[c].todo # <<>>
  BY <1>1 DEF Calls, CallsInv
<1>3. Current(c) \in Operations /\ Tail(thread[c].todo) \in Seq(Operations)
  BY <1>2, HeadTailProperties DEF Current
<1>4. Current(c).nn \in Throttles
  BY <1>3 DEF Operations
<1> QED BY <1>1, <1>3, <1>4, ReservedAssumption

(* A step of one caller leaves the calls of the others alone, and its own  *)
(* operation unless it returns or begins.                                  *)
LEMMA OneCaller ==
    ASSUME TypeOK, NEW c \in Callers, Invoke(c) \/ Acquire(c) \/ Proceed(c)
    PROVE  /\ \A d \in Callers : d # c => thread'[d] = thread[d]
           /\ Invoke(c) \/ UnlockKey(c) \/ thread'[c].todo = thread[c].todo
<1>1. thread \in [Callers -> Calls]
  BY DEF TypeOK
<1> USE <1>1
<1>2. CASE Invoke(c)
  BY <1>2 DEF Invoke
<1>3. CASE LockKey(c)
  BY <1>3 DEF LockKey, Goto, Calls
<1>4. CASE RLock(c)
  BY <1>4 DEF RLock, Goto, Calls
<1>5. CASE AskToWrite(c)
  BY <1>5 DEF AskToWrite, Goto, Calls
<1>6. CASE LookUp(c)
  BY <1>6 DEF LookUp, Calls
<1>7. CASE Lock(c)
  BY <1>7 DEF Lock, Goto, Calls
<1>8. CASE CreateEntry(c)
  BY <1>8 DEF CreateEntry, Calls
<1>9. CASE Body(c)
  BY <1>9 DEF Body, Calls
<1>10. CASE UnlockKey(c)
  BY <1>10 DEF UnlockKey
<1> QED BY <1>2, <1>3, <1>4, <1>5, <1>6, <1>7, <1>8, <1>9, <1>10 DEF Acquire, Proceed

(* ... which moves on to the next place of the method.                      *)
LEMMA NextPlace ==
    ASSUME TypeOK, NEW c \in Callers
    PROVE  /\ LockKey(c) => At(c, "lockKey") /\ At(c, "rLock")'
           /\ RLock(c) => At(c, "rLock") /\ At(c, "lookUp")'
           /\ AskToWrite(c) => At(c, "lock") /\ At(c, "drain")'
           /\ LookUp(c) => At(c, "lookUp") /\ thread'[c].pc \in {"body", "lock", "unlockKey"}
           /\ Lock(c) => At(c, "drain") /\ At(c, "create")'
           /\ CreateEntry(c) => At(c, "create") /\ At(c, "body")'
           /\ Body(c) => At(c, "body") /\ At(c, "unlockKey")'
           /\ UnlockKey(c) => At(c, "unlockKey") /\ thread'[c].pc \in {"idle", "lockKey"}
           /\ Invoke(c) => At(c, "idle") /\ At(c, "lockKey")'
           /\ ~Body(c) /\ (Acquire(c) \/ Proceed(c)) /\ ~UnlockKey(c)
                => thread'[c].result = thread[c].result
<1>0. thread \in [Callers -> Calls] /\ thread[c] \in Calls
  BY DEF TypeOK
<1> USE <1>0
<1>1. LockKey(c) => /\ At(c, "lockKey") /\ At(c, "rLock")'
                    /\ thread'[c].result = thread[c].result
  BY DEF LockKey, Goto, At, Calls
<1>2. RLock(c) => /\ At(c, "rLock") /\ At(c, "lookUp")'
                  /\ thread'[c].result = thread[c].result
  BY DEF RLock, Goto, At, Calls
<1>3. AskToWrite(c) => /\ At(c, "lock") /\ At(c, "drain")'
                       /\ thread'[c].result = thread[c].result
  BY DEF AskToWrite, Goto, At, Calls
<1>4. LookUp(c) => /\ At(c, "lookUp") /\ thread'[c].pc \in {"body", "lock", "unlockKey"}
                   /\ thread'[c].result = thread[c].result
  BY DEF LookUp, At, Calls
<1>5. Lock(c) => /\ At(c, "drain") /\ At(c, "create")'
                 /\ thread'[c].result = thread[c].result
  BY DEF Lock, Goto, At, Calls
<1>6. CreateEntry(c) => /\ At(c, "create") /\ At(c, "body")'
                        /\ thread'[c].result = thread[c].result
  BY DEF CreateEntry, At, Calls
<1>7. Body(c) => At(c, "body") /\ At(c, "unlockKey")'
  BY DEF Body, At, Calls
<1>8. UnlockKey(c) => At(c, "unlockKey") /\ thread'[c].pc \in {"idle", "lockKey"}
  BY DEF UnlockKey, At, NoCall
<1>9. Invoke(c) => At(c, "idle") /\ At(c, "lockKey")'
  BY DEF Invoke, At, NoCall
<1> QED BY <1>1, <1>2, <1>3, <1>4, <1>5, <1>6, <1>7, <1>8, <1>9 DEF Acquire, Proceed

LEMMA NoCallType == NoCall \in Calls
BY EmptySeq DEF NoCall, Calls, Points

-----------------------------------------------------------------------------
(* The inductive invariant holds initially.                                *)
LEMMA InvInit == Init => IInv
<1> SUFFICES ASSUME Init PROVE IInv
  OBVIOUS
<1>1. \A c \in Callers : thread[c] = NoCall /\ At(c, "idle")
  BY DEF Init, At, NoCall
<1>2. TypeOK
  BY NoCallType, EmptySeq DEF Init, TypeOK
<1>3. KeyLock /\ RWLock
  BY <1>1 DEF Init, KeyLock, RWLock, Holding, At
<1>4. CallsInv /\ MapsInv
  BY <1>1 DEF Init, CallsInv, MapsInv, MapIsCurrent, At, NoCall
<1> QED BY <1>2, <1>3, <1>4 DEF IInv

(* Type correctness.  Whoever writes into a map writes into one that was   *)
(* made, so no entry of the cache is ever without its map.                 *)
LEMMA TypeStep == IInv /\ [Next]_vars => TypeOK'
<1> SUFFICES ASSUME IInv, [Next]_vars PROVE TypeOK'
  OBVIOUS
<1>0. TypeOK /\ CallsInv /\ Len(maps) \in Nat
  BY LenProperties DEF IInv, TypeOK
<1> USE <1>0
<1>1. ASSUME NEW c \in Callers, Invoke(c) PROVE TypeOK'
  <2>1. PICK program \in Programs :
          thread' = [thread EXCEPT ![c] = [NoCall EXCEPT !.pc = "lockKey", !.todo = program]]
    BY <1>1 DEF Invoke
  <2>2. program \in Seq(Operations)
    BY ReservedAssumption
  <2>3. [NoCall EXCEPT !.pc = "lockKey", !.todo = program] \in Calls
    BY <2>2, NoCallType DEF Calls, Points
  <2> QED BY <1>1, <2>1, <2>3 DEF Invoke, TypeOK
<1>2. ASSUME NEW c \in Callers, LockKey(c) PROVE TypeOK'
  <2>1. Bucket[Current(c).nn] \in Buckets
    BY <1>2, CurrentType DEF LockKey, At
  <2> QED BY <1>2, <2>1 DEF LockKey, Goto, TypeOK, Calls, Points
<1>3. ASSUME NEW c \in Callers, RLock(c) PROVE TypeOK'
  BY <1>3 DEF RLock, Goto, TypeOK, Calls, Points
<1>4. ASSUME NEW c \in Callers, AskToWrite(c) PROVE TypeOK'
  BY <1>4 DEF AskToWrite, Goto, TypeOK, Calls, Points
<1>5. ASSUME NEW c \in Callers, LookUp(c) PROVE TypeOK'
  <2>1. cache[Current(c).nn] \in Nat
    BY <1>5, CurrentType DEF LookUp, At, TypeOK
  <2>2. PICK pc \in Points :
          thread' = [thread EXCEPT ![c].map = cache[Current(c).nn], ![c].pc = pc]
    BY <1>5 DEF LookUp, Points
  <2>3. thread' \in [Callers -> Calls]
    BY <2>1, <2>2 DEF TypeOK, Calls
  <2> QED BY <1>5, <2>3 DEF LookUp, TypeOK
<1>6. ASSUME NEW c \in Callers, Lock(c) PROVE TypeOK'
  BY <1>6 DEF Lock, Goto, TypeOK, Calls, Points
<1>7. ASSUME NEW c \in Callers, CreateEntry(c) PROVE TypeOK'
  <2>1. Current(c).nn \in Throttles
    BY <1>7, CurrentType DEF CreateEntry, At
  <2>2. maps' \in Seq(SUBSET Pods) /\ cache' \in [Throttles -> 0..Len(maps')]
    <3>1. CASE cache[Current(c).nn] = 0
      <4>1. /\ Append(maps, {}) \in Seq(SUBSET Pods)
            /\ Len(Append(maps, {})) = Len(maps) + 1
        BY AppendProperties DEF TypeOK
      <4>2. maps' = Append(maps, {})
        BY <1>7, <3>1 DEF CreateEntry
      <4>3. cache' = [cache EXCEPT ![Current(c).nn] = Len(maps) + 1]
        BY <1>7, <3>1 DEF CreateEntry
      <4>4. \A t \in Throttles : cache'[t] \in 0..(Len(maps) + 1)
        BY <4>3, <2>1 DEF TypeOK
      <4> QED BY <4>1, <4>2, <4>3, <4>4 DEF TypeOK
    <3>2. CASE cache[Current(c).nn] # 0
      BY <1>7, <3>2 DEF CreateEntry, TypeOK
    <3> QED BY <3>1, <3>2
  <2>3. cache'[Current(c).nn] \in Nat
    BY <2>1, <2>2, LenProperties
  <2>4. thread' \in [Callers -> Calls]
    BY <1>7, <2>3 DEF CreateEntry, TypeOK, Calls, Points
  <2> QED BY <1>7, <2>2, <2>4 DEF CreateEntry, TypeOK
<1>8. ASSUME NEW c \in Callers, Body(c) PROVE TypeOK'
  <2>1. Current(c).nn \in Throttles /\ Current(c).pod \in Pods
    BY <1>8, CurrentType DEF Body, At, Operations
  <2>2. thread[c].map \in 1..Len(maps)
    BY <1>8, <2>1 DEF Body, IInv, MapsInv, MapIsCurrent, TypeOK
  <2>3. maps[thread[c].map] \in SUBSET Pods
    BY <2>2, ElementOfSeq DEF TypeOK
  <2>4. PICK pods \in SUBSET Pods : maps' = [maps EXCEPT ![thread[c].map] = pods]
    BY <1>8, <2>1, <2>3 DEF Body
  <2>5. maps' \in Seq(SUBSET Pods) /\ Len(maps') = Len(maps)
    BY <2>2, <2>4, ExceptSeq DEF TypeOK
  <2>6. PICK result \in SUBSET Pods :
          thread' = [thread EXCEPT ![c].pc = "unlockKey", ![c].result = result]
    BY <1>8, <2>1, <2>3 DEF Body
  <2>7. thread' \in [Callers -> Calls]
    BY <2>6 DEF TypeOK, Calls, Points
  <2> QED BY <1>8, <2>5, <2>7 DEF Body, TypeOK
<1>9. ASSUME NEW c \in Callers, UnlockKey(c) PROVE TypeOK'
  <2>1. Tail(thread[c].todo) \in Seq(Operations) /\ Bucket[Current(c).nn] \in Buckets
    BY <1>9, CurrentType DEF UnlockKey, At
  <2>2. PICK state \in Calls : thread' = [thread EXCEPT ![c] = state]
    BY <1>9, <2>1, NoCallType DEF UnlockKey, Calls, Points
  <2> QED BY <1>9, <2>1, <2>2 DEF UnlockKey, TypeOK
<1>10. CASE UNCHANGED vars
  BY <1>10 DEF vars, TypeOK
<1> QED BY <1>1, <1>2, <1>3, <1>4, <1>5, <1>6, <1>7, <1>8, <1>9, <1>10
        DEF Next, Acquire, Proceed

-----------------------------------------------------------------------------
(* What a caller has to do, and what it has found.                         *)
LEMMA CallsStep == IInv /\ [Next]_vars => CallsInv'
<1> SUFFICES ASSUME IInv, [Next]_vars PROVE CallsInv'
  OBVIOUS
<1>0. TypeOK /\ CallsInv
  BY DEF IInv
<1> USE <1>0
<1>1. ASSUME NEW c \in Callers, Invoke(c) \/ Acquire(c) \/ Proceed(c) PROVE CallsInv'
  <2> SUFFICES /\ At(c, "idle")' <=> thread'[c].todo = <<>>
               /\ ~At(c, "unlockKey")' => thread'[c].result = {}
    BY <1>1, OneCaller DEF CallsInv, At
  <2>0. thread \in [Callers -> Calls] /\ thread[c] \in Calls
    BY DEF TypeOK
  <2>1. CASE Invoke(c)
    <3>1. PICK program \in Programs :
            thread' = [thread EXCEPT ![c] = [NoCall EXCEPT !.pc = "lockKey", !.todo = program]]
      BY <2>1 DEF Invoke
    <3>2. program # <<>>
      BY ReservedAssumption
    <3> QED BY <2>0, <3>1, <3>2 DEF NoCall, At
  <2>2. CASE UnlockKey(c)
    BY <2>0, <2>2 DEF UnlockKey, NoCall, At
  <2>3. CASE Body(c)
    BY <2>3, OneCaller, NextPlace DEF Proceed, CallsInv, Invoke, UnlockKey, At
  <2>4. CASE ~Body(c) /\ ~UnlockKey(c) /\ ~Invoke(c)
    <3>1. ~At(c, "idle") /\ ~At(c, "idle")' /\ ~At(c, "unlockKey")
      BY <1>1, <2>4, NextPlace DEF Acquire, Proceed, At
    <3>2. thread'[c].todo = thread[c].todo /\ thread'[c].result = thread[c].result
      BY <1>1, <2>4, OneCaller, NextPlace
    <3> QED BY <3>1, <3>2 DEF CallsInv, At
  <2> QED BY <2>1, <2>2, <2>3, <2>4
<1>2. CASE UNCHANGED vars
  BY <1>2 DEF vars, CallsInv, At
<1> QED BY <1>1, <1>2 DEF Next

(* A bucket is held until it is given back, and nobody gives back another  *)
(* caller's.                                                               *)
LEMMA KeyLockStep == IInv /\ [Next]_vars => KeyLock'
<1> SUFFICES ASSUME IInv, [Next]_vars PROVE KeyLock'
  OBVIOUS
<1>0. TypeOK /\ CallsInv /\ KeyLock
  BY DEF IInv
<1> USE <1>0
<1>1. ASSUME NEW c \in Callers, LockKey(c) PROVE KeyLock'
  <2>1. Bucket[Current(c).nn] \in Buckets
    BY <1>1, CurrentType DEF LockKey, At
  <2>2. \A d \in Callers : Current(d)' = Current(d)
    BY <1>1, OneCaller DEF Acquire, Current, LockKey, UnlockKey, Invoke, At
  <2>3. \A d \in Callers \ {c} : Holding(d)' = Holding(d)
    BY <1>1, OneCaller DEF Acquire, Holding
  <2>4. ASSUME NEW d \in Callers, d # c, Holding(d)
        PROVE  Bucket[Current(d).nn] # Bucket[Current(c).nn]
    BY <1>1, <2>4 DEF KeyLock, LockKey
  <2> QED BY <1>1, <2>1, <2>2, <2>3, <2>4 DEF LockKey, KeyLock, TypeOK
<1>2. ASSUME NEW c \in Callers, UnlockKey(c) PROVE KeyLock'
  <2>1. \A d \in Callers \ {c} : Holding(d)' = Holding(d) /\ Current(d)' = Current(d)
    BY <1>2, OneCaller DEF Proceed, Holding, Current
  <2>2. ~Holding(c)'
    BY <1>2 DEF UnlockKey, Holding, NoCall, TypeOK
  <2>3. keyMutex[Bucket[Current(c).nn]] = {c} /\ Bucket[Current(c).nn] \in Buckets
    BY <1>2, CurrentType DEF KeyLock, UnlockKey, Holding, At
  <2>4. keyMutex' = [keyMutex EXCEPT ![Bucket[Current(c).nn]] = @ \ {c}]
    BY <1>2 DEF UnlockKey
  <2>5. ASSUME NEW d \in Callers, Holding(d)'
        PROVE  keyMutex'[Bucket[Current(d).nn]] = {d}
    <3>1. d # c /\ Holding(d)
      BY <2>1, <2>2, <2>5
    <3>2. keyMutex[Bucket[Current(d).nn]] = {d}
      BY <3>1 DEF KeyLock
    <3> QED BY <2>3, <2>4, <3>1, <3>2 DEF TypeOK
  <2> QED BY <2>1, <2>2, <2>5 DEF KeyLock
<1>3. ASSUME NEW c \in Callers,
             Invoke(c) \/ RLock(c) \/ AskToWrite(c) \/ LookUp(c) \/ Lock(c)
               \/ CreateEntry(c) \/ Body(c)
      PROVE  KeyLock'
  <2>1. \A d \in Callers \ {c} : Holding(d)' = Holding(d) /\ Current(d)' = Current(d)
    BY <1>3, OneCaller DEF Acquire, Proceed, Holding, Current
  <2>2. UNCHANGED keyMutex
    BY <1>3 DEF Invoke, RLock, AskToWrite, LookUp, Lock, CreateEntry, Body
  <2>3. Holding(c)' => Holding(c) /\ Current(c)' = Current(c)
    <3>1. CASE Invoke(c)
      BY <3>1 DEF Invoke, Holding, NoCall, TypeOK
    <3>2. CASE ~Invoke(c)
      <4>1. ~UnlockKey(c) /\ Holding(c)
        BY <1>3, <3>2 DEF RLock, AskToWrite, LookUp, Lock, CreateEntry, Body, UnlockKey, At, Holding
      <4> QED BY <1>3, <3>2, <4>1, OneCaller DEF Acquire, Proceed, Current
    <3> QED BY <3>1, <3>2
  <2> QED BY <2>1, <2>2, <2>3 DEF KeyLock
<1>4. CASE UNCHANGED vars
  BY <1>4 DEF vars, KeyLock, Holding, Current
<1> QED BY <1>1, <1>2, <1>3, <1>4 DEF Next, Acquire, Proceed

(* The read-write lock has one writer at a time, and no reader beside it.  *)
LEMMA RWLockStep == IInv /\ [Next]_vars => RWLock'
<1> SUFFICES ASSUME IInv, [Next]_vars PROVE RWLock'
  OBVIOUS
<1>0. TypeOK /\ RWLock
  BY DEF IInv
<1> USE <1>0
<1>1. ASSUME NEW c \in Callers, Invoke(c) \/ Acquire(c) \/ Proceed(c) PROVE RWLock'
  <2>1. \A d \in Callers \ {c} : \A pc : At(d, pc)' <=> At(d, pc)
    BY <1>1, OneCaller DEF At
  <2>2. CASE Invoke(c) \/ LockKey(c) \/ Body(c) \/ UnlockKey(c)
    <3>1. UNCHANGED <<readers, waiting, writer>>
      BY <2>2 DEF Invoke, LockKey, Body, UnlockKey
    <3>2. \A pc \in {"lookUp", "drain", "create"} : ~At(c, pc) /\ ~At(c, pc)'
      BY <2>2, NextPlace DEF At
    <3> QED BY <2>1, <3>1, <3>2 DEF RWLock
  <2>3. CASE RLock(c)
    <3>1. /\ waiting \cup writer = {} /\ readers' = readers \cup {c}
          /\ UNCHANGED <<waiting, writer>>
      BY <2>3 DEF RLock
    <3>2. \A pc \in {"lookUp", "drain", "create"} : ~At(c, pc) /\ (At(c, pc)' <=> pc = "lookUp")
      BY <2>3, NextPlace DEF At
    <3> QED BY <2>1, <3>1, <3>2 DEF RWLock
  <2>4. CASE LookUp(c)
    <3>1. readers' = readers \ {c} /\ UNCHANGED <<waiting, writer>>
      BY <2>4 DEF LookUp
    <3>2. \A pc \in {"lookUp", "drain", "create"} : (At(c, pc) <=> pc = "lookUp") /\ ~At(c, pc)'
      BY <2>4, NextPlace DEF At
    <3> QED BY <2>1, <3>1, <3>2 DEF RWLock
  <2>5. CASE AskToWrite(c)
    <3>1. waiting \cup writer = {} /\ waiting' = {c} /\ UNCHANGED <<readers, writer>>
      BY <2>5 DEF AskToWrite
    <3>2. \A pc \in {"lookUp", "drain", "create"} : ~At(c, pc) /\ (At(c, pc)' <=> pc = "drain")
      BY <2>5, NextPlace DEF At
    <3> QED BY <2>1, <3>1, <3>2 DEF RWLock
  <2>6. CASE Lock(c)
    <3>1. readers = {} /\ writer' = {c} /\ waiting' = {} /\ UNCHANGED readers
      BY <2>6 DEF Lock
    <3>2. \A pc \in {"lookUp", "drain", "create"} :
            (At(c, pc) <=> pc = "drain") /\ (At(c, pc)' <=> pc = "create")
      BY <2>6, NextPlace DEF At
    <3>3. waiting = {c} /\ writer = {}
      BY <3>2 DEF RWLock, At
    <3> QED BY <2>1, <3>1, <3>2, <3>3 DEF RWLock
  <2>7. CASE CreateEntry(c)
    <3>1. writer' = {} /\ UNCHANGED <<readers, waiting>>
      BY <2>7 DEF CreateEntry
    <3>2. \A pc \in {"lookUp", "drain", "create"} : (At(c, pc) <=> pc = "create") /\ ~At(c, pc)'
      BY <2>7, NextPlace DEF At
    <3>3. writer = {c} /\ waiting = {}
      BY <3>2 DEF RWLock, At
    <3> QED BY <2>1, <3>1, <3>2, <3>3 DEF RWLock
  <2> QED BY <1>1, <2>2, <2>3, <2>4, <2>5, <2>6, <2>7 DEF Acquire, Proceed
<1>2. CASE UNCHANGED vars
  BY <1>2 DEF vars, RWLock, At
<1> QED BY <1>1, <1>2 DEF Next

(* Nobody makes an entry for a throttle that has one, so the map a caller  *)
(* has found stays the one in the cache.                                   *)
LEMMA MapsStep == IInv /\ [Next]_vars => MapsInv'
<1> SUFFICES ASSUME IInv, [Next]_vars PROVE MapsInv'
  OBVIOUS
<1>0. TypeOK /\ CallsInv /\ MapsInv /\ Len(maps) \in Nat
  BY LenProperties DEF IInv, TypeOK
<1> USE <1>0
<1>1. ASSUME NEW c \in Callers, CreateEntry(c) PROVE MapsInv'
  <2> DEFINE nn == Current(c).nn
  <2>1. nn \in Throttles
    BY <1>1, CurrentType DEF CreateEntry, At
  <2>2. cache' = [cache EXCEPT ![nn] = IF @ = 0 THEN Len(maps) + 1 ELSE @]
    BY <1>1 DEF CreateEntry, TypeOK
  <2>3. thread' = [thread EXCEPT ![c].map = cache'[nn], ![c].pc = "body"]
    BY <1>1 DEF CreateEntry
  <2>4. At(c, "body")' /\ Current(c)' = Current(c) /\ thread'[c].map = cache'[nn]
    BY <2>3 DEF TypeOK, Calls, At, Current
  <2>5. cache'[nn] # 0
    BY <2>1, <2>2 DEF TypeOK
  <2>6. ASSUME NEW d \in Callers, d # c, At(d, "body")'
        PROVE  cache'[Current(d)'.nn] # 0 /\ thread'[d].map = cache'[Current(d)'.nn]
    <3>1. thread'[d] = thread[d] /\ Current(d)' = Current(d) /\ At(d, "body")
      BY <1>1, <2>6, OneCaller DEF Proceed, Current, At
    <3>2. cache[Current(d).nn] # 0 /\ thread[d].map = cache[Current(d).nn]
      BY <3>1 DEF MapsInv, MapIsCurrent
    <3>3. Current(d).nn \in Throttles
      BY <3>1, CurrentType DEF At
    <3>4. cache'[Current(d).nn] = cache[Current(d).nn]
      BY <2>1, <2>2, <3>2, <3>3 DEF TypeOK
    <3> QED BY <3>1, <3>2, <3>4
  <2>7. \A s, t \in Throttles : s # t /\ cache'[s] # 0 => cache'[s] # cache'[t]
    BY <2>1, <2>2 DEF TypeOK, MapsInv, MapIsCurrent
  <2> QED BY <2>4, <2>5, <2>6, <2>7 DEF MapsInv, MapIsCurrent
<1>2. ASSUME NEW c \in Callers, Invoke(c) \/ Acquire(c) \/ Proceed(c), ~CreateEntry(c)
      PROVE  MapsInv'
  <2>1. UNCHANGED cache
    BY <1>2 DEF Acquire, Proceed, Invoke, LockKey, RLock, AskToWrite, LookUp, Lock, Body, UnlockKey
  <2>2. \A d \in Callers \ {c} : thread'[d] = thread[d]
    BY <1>2, OneCaller
  <2>3. At(c, "body")' => /\ cache'[Current(c)'.nn] # 0
                          /\ thread'[c].map = cache'[Current(c)'.nn]
    <3>1. CASE LookUp(c)
      <4>1. thread' = [thread EXCEPT
                         ![c].map = cache[Current(c).nn],
                         ![c].pc = IF cache[Current(c).nn] # 0 THEN "body"
                                   ELSE IF Current(c).op = "total" THEN "unlockKey" ELSE "lock"]
        BY <3>1 DEF LookUp
      <4>2. /\ thread'[c].map = cache[Current(c).nn]
            /\ At(c, "body")' => cache[Current(c).nn] # 0
            /\ Current(c)' = Current(c)
        BY <4>1 DEF TypeOK, Calls, At, Current
      <4> QED BY <2>1, <4>2
    <3>2. CASE ~LookUp(c)
      BY <1>2, <3>2, NextPlace DEF Acquire, Proceed, At
    <3> QED BY <3>1, <3>2
  <2> QED BY <2>1, <2>2, <2>3 DEF MapsInv, MapIsCurrent, At, Current
<1>3. CASE UNCHANGED vars
  BY <1>3 DEF vars, MapsInv, MapIsCurrent, At, Current
<1> QED BY <1>1, <1>2, <1>3 DEF Next

(* The inductive invariant holds in every reachable state.                 *)
THEOREM CacheInvariant == Spec => []IInv
<1>1. IInv /\ [Next]_vars => IInv'
  BY TypeStep, CallsStep, KeyLockStep, RWLockStep, MapsStep DEF IInv
<1> QED BY InvInit, <1>1, PTL DEF Spec

(* The locks, the maps and the calls keep their types.                     *)
THEOREM TypeCorrect == Spec => []TypeOK
<1>1. IInv => TypeOK
  BY DEF IInv
<1> QED BY <1>1, CacheInvariant, PTL

(* No two goroutines are ever in the same Go map, whatever buckets their   *)
(* throttles share: two throttles have two maps, and one throttle one      *)
(* bucket, which its holder has to itself.                                 *)
THEOREM NoTwoInOneMap == Spec => []NoConcurrentMapAccess
<1>1. ASSUME IInv PROVE NoConcurrentMapAccess
  <2>1. ASSUME NEW c \in Callers, NEW d \in Callers, c # d, At(c, "body"), At(d, "body")
        PROVE  thread[c].map # thread[d].map
    <3>1. Current(c).nn \in Throttles /\ Current(d).nn \in Throttles
      BY <1>1, <2>1, CurrentType DEF IInv, At
    <3>2. Current(c).nn # Current(d).nn
      BY <1>1, <2>1 DEF IInv, KeyLock, Holding, At
    <3> QED BY <1>1, <2>1, <3>1, <3>2 DEF IInv, MapsInv, MapIsCurrent
  <2>2. ASSUME NEW c \in Callers, NEW d \in Callers, c # d, At(c, "create")
        PROVE  thread[d].pc \notin {"lookUp", "create"}
    <3>1. c \in writer /\ readers = {}
      BY <1>1, <2>2 DEF IInv, RWLock
    <3>2. d \notin readers /\ d \notin writer
      BY <1>1, <2>2, <3>1 DEF IInv, RWLock
    <3> QED BY <1>1, <3>2 DEF IInv, RWLock, At
  <2> QED BY <2>1, <2>2 DEF NoConcurrentMapAccess
<1> QED BY <1>1, CacheInvariant, PTL

(* A map that was looked up is still the cache's when it is used.          *)
THEOREM MapStaysCurrent == Spec => []MapIsCurrent
<1>1. IInv => MapIsCurrent
  BY DEF IInv, MapsInv
<1> QED BY <1>1, CacheInvariant, PTL

-----------------------------------------------------------------------------
(* The refinement.  An operation happens where the pods of its map are     *)
(* read or written; one that reads and finds no entry happens there.       *)
Reserved == [t \in Throttles |-> IF cache[t] = 0 THEN {} ELSE maps[cache[t]]]
Answer(c) == [todo   |-> thread[c].todo,
              stage  |-> IF At(c, "unlockKey") THEN "executed" ELSE "called",
              result |-> thread[c].result]
Answers == [c \in Callers |-> Answer(c)]

(* The variables of Reservations that a step changes or leaves alone.      *)
LEMMA AnswersStep ==
    ASSUME TypeOK, NEW c \in Callers, Invoke(c) \/ Acquire(c) \/ Proceed(c)
    PROVE  Answers' = [Answers EXCEPT ![c] = Answer(c)']
BY OneCaller DEF Answers, Answer, At

(* A step of the locks, or of an entry that is made, is not seen.          *)
LEMMA Stutters ==
    ASSUME IInv, NEW c \in Callers,
           LockKey(c) \/ RLock(c) \/ AskToWrite(c) \/ Lock(c) \/ CreateEntry(c)
    PROVE  UNCHANGED <<Reserved, Answers>>
<1>0. TypeOK /\ CallsInv /\ Len(maps) \in Nat
  BY LenProperties DEF IInv, TypeOK
<1>1. Answer(c)' = Answer(c)
  <2>1. thread'[c].todo = thread[c].todo /\ thread'[c].result = thread[c].result
    BY <1>0, OneCaller, NextPlace DEF Acquire, Proceed, Body, UnlockKey, Invoke, At
  <2>2. ~At(c, "unlockKey") /\ ~At(c, "unlockKey")'
    BY <1>0, NextPlace DEF At
  <2> QED BY <2>1, <2>2 DEF Answer
<1>2. Answers' = Answers
  BY <1>0, <1>1, AnswersStep DEF Acquire, Proceed, Answers
<1>3. CASE ~CreateEntry(c)
  <2>1. UNCHANGED <<cache, maps>>
    BY <1>3 DEF LockKey, RLock, AskToWrite, Lock
  <2> QED BY <1>2, <2>1 DEF Reserved
<1>4. CASE CreateEntry(c)
  <2>1. CASE cache[Current(c).nn] = 0
    <3>1. /\ Current(c).nn \in Throttles
          /\ maps' = Append(maps, {})
          /\ cache' = [cache EXCEPT ![Current(c).nn] = Len(maps) + 1]
      BY <1>0, <1>4, <2>1, CurrentType DEF CreateEntry, At
    <3>2. /\ \A i \in 1..Len(maps) : maps'[i] = maps[i]
          /\ maps'[Len(maps) + 1] = {}
      BY <1>0, <3>1, AppendProperties DEF TypeOK
    <3>3. ASSUME NEW t \in Throttles PROVE Reserved'[t] = Reserved[t]
      <4>1. CASE t = Current(c).nn
        BY <1>0, <2>1, <3>1, <3>2, <4>1 DEF Reserved, TypeOK
      <4>2. CASE t # Current(c).nn
        BY <1>0, <3>1, <3>2, <4>2 DEF Reserved, TypeOK
      <4> QED BY <4>1, <4>2
    <3> QED BY <1>2, <3>3 DEF Reserved
  <2>2. CASE cache[Current(c).nn] # 0
    BY <1>2, <1>4, <2>2 DEF CreateEntry, Reserved
  <2> QED BY <2>1, <2>2
<1> QED BY <1>3, <1>4

(* What is done to one map happens to the pods reserved on one throttle.   *)
LEMMA BodyExecutes ==
    ASSUME IInv, NEW c \in Callers, Body(c)
    PROVE  Atomic!Execute(c)
<1> DEFINE o == Current(c)
           m == thread[c].map
<1>0. TypeOK /\ CallsInv /\ MapsInv
  BY DEF IInv
<1>1. /\ At(c, "body") /\ At(c, "unlockKey")'
      /\ o \in Operations /\ o.nn \in Throttles /\ thread[c] \in Calls
  BY <1>0, NextPlace, CurrentType DEF At
<1>2. m = cache[o.nn] /\ m \in 1..Len(maps)
  BY <1>0, <1>1 DEF MapsInv, MapIsCurrent, TypeOK
<1>3. Reserved[o.nn] = maps[m]
  BY <1>1, <1>2 DEF Reserved
<1>4. maps' = [maps EXCEPT ![m] = Atomic!Effect(o, @)] /\ UNCHANGED cache
  BY <1>1 DEF Body, Atomic!Effect, Operations
<1>5. Reserved' = [Reserved EXCEPT ![o.nn] = Atomic!Effect(o, @)]
  <2>1. ASSUME NEW t \in Throttles
        PROVE  Reserved'[t] = IF t = o.nn THEN Atomic!Effect(o, Reserved[t]) ELSE Reserved[t]
    <3>1. maps \in [1..Len(maps) -> SUBSET Pods]
      BY <1>0, LenProperties DEF TypeOK
    <3>2. cache[t] # 0 => cache[t] \in 1..Len(maps)
      BY <1>0, LenProperties DEF TypeOK
    <3>3. CASE t = o.nn
      BY <1>2, <1>3, <1>4, <3>1, <3>3 DEF Reserved
    <3>4. CASE t # o.nn
      <4>1. cache[t] # 0 => cache[t] # m
        BY <1>0, <1>1, <1>2, <3>4 DEF MapsInv, MapIsCurrent
      <4> QED BY <1>4, <3>1, <3>2, <3>4, <4>1 DEF Reserved
    <3> QED BY <3>3, <3>4
  <2>2. Reserved \in [Throttles -> {Reserved[t] : t \in Throttles}]
    BY DEF Reserved
  <2> QED BY <2>1, <2>2 DEF Reserved
<1>6. Answer(c)' = Atomic!Executed(thread[c].todo, Atomic!Result(o, Reserved[o.nn]))
  <2>1. thread'[c].todo = thread[c].todo
    BY <1>0, <1>1, OneCaller DEF Proceed, Invoke, UnlockKey, At
  <2>2. thread'[c].result = Atomic!Result(o, maps[m])
    BY <1>0, <1>1 DEF Body, Atomic!Result, Operations, TypeOK, Calls
  <2> QED BY <1>1, <1>3, <2>1, <2>2 DEF Answer, Atomic!Executed
<1>7. Answers' = [Answers EXCEPT ![c] = Atomic!Executed(@.todo, Atomic!Result(o, Reserved[o.nn]))]
  <2>1. Answers[c].todo = thread[c].todo
    BY DEF Answers, Answer
  <2>2. Answers' = [Answers EXCEPT ![c] = Answer(c)']
    BY <1>0, AnswersStep DEF Proceed
  <2> QED BY <1>6, <2>1, <2>2, Zenon
<1>8. Answers[c].todo # <<>> /\ Answers[c].stage = "called" /\ Head(Answers[c].todo) = o
  BY <1>0, <1>1 DEF Answers, Answer, CallsInv, At, Current
<1> QED BY <1>5, <1>7, <1>8 DEF Atomic!Execute, Reserved, Answers, Answer

(* The methods implement Reservations: to the goroutines that share the    *)
(* cache, every operation on a throttle happens at once.                   *)
THEOREM OperationsAreAtomic == Spec => ImplementsReservations
<1>1. Init => Atomic!Init
  BY DEF Init, Atomic!Init, NoCall, Atomic!Called, At
<1>2. ASSUME IInv, [Next]_vars PROVE [Atomic!Next]_Atomic!vars
  <2>0. TypeOK /\ CallsInv
    BY <1>2 DEF IInv
  <2>1. ASSUME NEW c \in Callers, Invoke(c) PROVE Atomic!Invoke(c)
    <3>1. PICK program \in Programs :
            thread' = [thread EXCEPT ![c] = [NoCall EXCEPT !.pc = "lockKey", !.todo = program]]
      BY <2>1 DEF Invoke
    <3>2. ~At(c, "unlockKey")'
      BY <2>0, <2>1, NextPlace DEF At
    <3>3. Answer(c)' = Atomic!Called(program)
      <4>1. thread'[c].todo = program /\ thread'[c].result = {}
        BY <2>0, <3>1 DEF NoCall, TypeOK
      <4> QED BY <3>2, <4>1 DEF Answer, Atomic!Called
    <3>4. Answers' = [Answers EXCEPT ![c] = Atomic!Called(program)]
      BY <2>0, <2>1, <3>3, AnswersStep
    <3>5. Answers[c].todo = <<>> /\ UNCHANGED Reserved
      BY <2>0, <2>1 DEF Invoke, Answers, Answer, CallsInv, Reserved
    <3> QED BY <3>4, <3>5 DEF Atomic!Invoke, Answers, Answer, Reserved
  <2>2. ASSUME NEW c \in Callers, LookUp(c)
        PROVE  Atomic!Execute(c) \/ UNCHANGED <<Reserved, Answers>>
    <3> DEFINE o == Current(c)
    <3>1. /\ At(c, "lookUp") /\ o \in Operations /\ o.nn \in Throttles
          /\ thread'[c].todo = thread[c].todo /\ thread[c].todo # <<>>
          /\ thread'[c].result = thread[c].result /\ thread[c].result = {}
      BY <2>0, <2>2, OneCaller, NextPlace, CurrentType
         DEF Proceed, Body, UnlockKey, Invoke, CallsInv, At, Current
    <3>2. Answers' = [Answers EXCEPT ![c] = Answer(c)'] /\ Answers[c] = Answer(c)
      BY <2>0, <2>2, AnswersStep DEF Proceed, Answers
    <3>3. UNCHANGED <<cache, maps, Reserved>>
      BY <2>2 DEF LookUp, Reserved
    <3>4. CASE At(c, "unlockKey")'
      <4>1. o.op = "total" /\ cache[o.nn] = 0
        BY <2>0, <2>2, <3>4 DEF LookUp, At, TypeOK, Calls
      <4>2. Reserved[o.nn] = {} /\ Atomic!Result(o, {}) = {} /\ Atomic!Effect(o, {}) = {}
        BY <3>1, <4>1 DEF Reserved, Atomic!Result, Atomic!Effect
      <4>3. Answer(c)' = Atomic!Executed(Answer(c).todo, {})
        BY <3>1, <3>4 DEF Answer, Atomic!Executed
      <4>4. Reserved' = [Reserved EXCEPT ![o.nn] = Atomic!Effect(o, @)]
        BY <3>1, <3>3, <4>2 DEF Reserved
      <4>5. Answers' = [Answers EXCEPT ![c] =
                               Atomic!Executed(@.todo, Atomic!Result(o, Reserved[o.nn]))]
        BY <3>2, <4>2, <4>3, Zenon
      <4>6. Answers[c].todo # <<>> /\ Answers[c].stage = "called" /\ Head(Answers[c].todo) = o
        BY <3>1, <3>2 DEF Answer, At, Current
      <4> QED BY <4>4, <4>5, <4>6 DEF Atomic!Execute, Reserved, Answers, Answer
    <3>5. CASE ~At(c, "unlockKey")'
      <4>1. Answer(c)' = Answer(c)
        BY <3>1, <3>5 DEF Answer, At
      <4> QED BY <3>2, <3>3, <4>1 DEF Answers
    <3> QED BY <3>4, <3>5
  <2>3. ASSUME NEW c \in Callers, UnlockKey(c) PROVE Atomic!Return(c)
    <3>1. At(c, "unlockKey") /\ ~At(c, "unlockKey")'
      BY <2>0, <2>3, NextPlace DEF At
    <3>2. thread'[c].todo = Tail(thread[c].todo) /\ thread'[c].result = {}
      BY <2>0, <2>3 DEF UnlockKey, NoCall, TypeOK
    <3>3. Answer(c)' = Atomic!Called(Tail(thread[c].todo))
      BY <3>1, <3>2 DEF Answer, Atomic!Called
    <3>4. Answers' = [Answers EXCEPT ![c] = Answer(c)'] /\ Answers[c] = Answer(c)
      BY <2>0, <2>3, AnswersStep DEF Proceed, Answers
    <3>5. Answer(c).stage = "executed" /\ Answer(c).todo = thread[c].todo /\ UNCHANGED Reserved
      BY <2>3, <3>1 DEF Answer, UnlockKey, Reserved
    <3> QED BY <3>3, <3>4, <3>5 DEF Atomic!Return, Reserved, Answers, Answer
  <2>4. CASE UNCHANGED vars
    BY <2>4 DEF vars, Atomic!vars, At
  <2> QED BY <1>2, <2>1, <2>2, <2>3, <2>4, BodyExecutes, Stutters
          DEF Next, Acquire, Proceed, Atomic!Next, Atomic!vars, Reserved, Answers, Answer
<1> QED BY <1>1, <1>2, CacheInvariant, PTL DEF Spec, ImplementsReservations, Atomic!Spec
=============================================================================
