----------------------------- MODULE Mutex_proofs -----------------------------
(***************************************************************************)
(* Proofs about the keyed mutex, for any sets of calls and keys.           *)
(*                                                                         *)
(* Fifo is not inductive by itself: a call starts when the promise it      *)
(* found is released, so the invariant must say which call made that       *)
(* promise.  Chain says it is the call just before it on the same key, or, *)
(* when it found none, that all calls before it had settled; Tail says the *)
(* same of the promise the map holds for the next call to find.            *)
(***************************************************************************)
EXTENDS Mutex, TLAPS

Arrivals ==
  /\ \A c \in Call : IF status[c] = "idle"
                     THEN keyOf[c] = NoKey /\ arrival[c] = 0
                     ELSE keyOf[c] \in Key /\ arrival[c] \in 1 .. clock
  /\ \A c, d \in Call : status[c] # "idle" /\ arrival[c] = arrival[d] => c = d

Released == \A c \in Call : c \in released => status[c] = "settled"

Chain ==
  \A c \in Call : status[c] # "idle" =>
    IF previous[c] = NoCall
    THEN \A d \in Call : keyOf[d] = keyOf[c] /\ arrival[d] < arrival[c]
                           => status[d] = "settled"
    ELSE /\ keyOf[previous[c]] = keyOf[c]
         /\ \A d \in Call : keyOf[d] = keyOf[c] /\ arrival[d] < arrival[c]
                              => arrival[d] <= arrival[previous[c]]

Tail ==
  \A k \in Key :
    IF queues[k] = NoCall
    THEN \A d \in Call : keyOf[d] = k => status[d] = "settled"
    ELSE /\ keyOf[queues[k]] = k
         /\ Active(queues[k])
         /\ \A d \in Call : keyOf[d] = k => arrival[d] <= arrival[queues[k]]

IInv == TypeOK /\ Arrivals /\ Released /\ Chain /\ Tail /\ Fifo

LEMMA InitIInv == Init => IInv
BY DistinctAssumption DEF Init, IInv, TypeOK, Arrivals, Released, Chain, Tail, Fifo, Active,
   Started

LEMMA CallIInv ==
  ASSUME IInv, NEW c \in Call, NEW k \in Key, synchronizeOn(c, k)
  PROVE  IInv'
<1> USE DistinctAssumption DEF IInv
<1>1. TypeOK'
  BY DEF TypeOK, synchronizeOn, enqueue
<1>2. Arrivals'
  BY DEF TypeOK, Arrivals, synchronizeOn
<1>3. Released'
  BY DEF TypeOK, Released, synchronizeOn
<1>4. Chain'
  <2> SUFFICES ASSUME NEW d \in Call, status'[d] # "idle"
               PROVE  IF previous'[d] = NoCall
                      THEN \A e \in Call :
                             keyOf'[e] = keyOf'[d] /\ arrival'[e] < arrival'[d]
                               => status'[e] = "settled"
                      ELSE /\ keyOf'[previous'[d]] = keyOf'[d]
                           /\ \A e \in Call :
                                keyOf'[e] = keyOf'[d] /\ arrival'[e] < arrival'[d]
                                  => arrival'[e] <= arrival'[previous'[d]]
    BY DEF Chain
  <2>1. CASE d = c
    BY <2>1 DEF TypeOK, Arrivals, Tail, Active, synchronizeOn
  <2>2. CASE d # c
    BY <2>2 DEF TypeOK, Arrivals, Chain, synchronizeOn
  <2> QED BY <2>1, <2>2
<1>5. Tail'
  BY DEF TypeOK, Arrivals, Tail, Active, synchronizeOn, enqueue
<1>6. Fifo'
  BY DEF TypeOK, Arrivals, Fifo, Active, Started, synchronizeOn
<1> QED BY <1>1, <1>2, <1>3, <1>4, <1>5, <1>6

\* The calls before one that may start have settled: the last of them has,
\* and it was started.
LEMMA EarlierSettled ==
  ASSUME IInv, NEW c \in Call, resume(c)
  PROVE  \A d \in Call : keyOf[d] = keyOf[c] /\ arrival[d] < arrival[c]
                            => status[d] = "settled"
<1> USE DistinctAssumption DEF IInv
<1>1. CASE previous[c] = NoCall
  BY <1>1 DEF Chain, resume
<1>2. CASE previous[c] # NoCall
  <2> DEFINE p == previous[c]
  <2>1. p \in Call /\ status[p] = "settled" /\ keyOf[p] = keyOf[c]
    BY <1>2 DEF TypeOK, Chain, Released, resume
  <2> SUFFICES ASSUME NEW d \in Call, keyOf[d] = keyOf[c], arrival[d] < arrival[c],
                      status[d] # "settled"
               PROVE  FALSE
    OBVIOUS
  <2>2. arrival[d] <= arrival[p]
    BY <1>2 DEF Chain, resume
  <2>3. Active(d) /\ Started(p)
    BY <2>1 DEF TypeOK, Arrivals, Active, Started, resume
  <2>4. arrival[p] <= arrival[d]
    BY <2>1, <2>3 DEF Fifo
  <2> QED BY <2>1, <2>2, <2>3, <2>4 DEF TypeOK, Arrivals
<1> QED BY <1>1, <1>2

LEMMA ResumeIInv ==
  ASSUME IInv, NEW c \in Call, resume(c)
  PROVE  IInv'
<1> USE DistinctAssumption DEF IInv
<1>1. TypeOK' /\ Arrivals' /\ Released'
  BY DEF TypeOK, Arrivals, Released, resume
<1>2. Chain' /\ Tail'
  BY DEF TypeOK, Chain, Tail, Active, resume
<1>3. \A d \in Call : keyOf[d] = keyOf[c] /\ arrival[d] < arrival[c]
                        => status[d] = "settled"
  BY EarlierSettled
<1>4. Fifo'
  BY <1>3 DEF TypeOK, Fifo, Active, Started, resume
<1> QED BY <1>1, <1>2, <1>4

LEMMA SettleIInv ==
  ASSUME IInv, NEW c \in Call, NEW outcome \in Outcome, settle(c, outcome)
  PROVE  IInv'
<1> USE DistinctAssumption DEF IInv
<1>1. keyOf[c] \in Key
  BY DEF Arrivals, settle
<1>2. TypeOK' /\ Arrivals' /\ Released'
  BY <1>1 DEF TypeOK, Arrivals, Released, settle, forget
<1>3. Chain'
  BY DEF TypeOK, Chain, settle
<1>4. Fifo'
  BY DEF TypeOK, Fifo, Active, Started, settle
<1>5. Tail'
  <2> SUFFICES ASSUME NEW k \in Key
               PROVE  IF queues'[k] = NoCall
                      THEN \A d \in Call : keyOf[d] = k => status'[d] = "settled"
                      ELSE /\ keyOf[queues'[k]] = k
                           /\ Active(queues[k])'
                           /\ \A d \in Call : keyOf[d] = k
                                => arrival[d] <= arrival[queues'[k]]
    BY DEF Tail, settle, Active
  <2>1. CASE queues[k] = c
    \* c is the last call on k and every call before it has settled.
    <3>1. keyOf[c] = k /\ queues'[k] = NoCall
      BY <2>1 DEF TypeOK, Tail, settle, forget
    <3>2. \A d \in Call : keyOf[d] = k /\ d # c => status[d] = "settled"
      BY <2>1, <3>1 DEF TypeOK, Arrivals, Tail, Fifo, Active, Started, settle
    <3> QED BY <3>1, <3>2 DEF TypeOK, settle
  <2>2. CASE queues[k] # c
    <3>1. queues'[k] = queues[k]
      BY <1>1, <2>2 DEF TypeOK, settle, forget
    <3> QED BY <2>2, <3>1 DEF TypeOK, Tail, Active, settle
  <2> QED BY <2>1, <2>2
<1> QED BY <1>2, <1>3, <1>4, <1>5

LEMMA NextIInv == IInv /\ [Next]_vars => IInv'
<1> SUFFICES ASSUME IInv, [Next]_vars
             PROVE  IInv'
  OBVIOUS
<1>1. CASE Next
  BY <1>1, CallIInv, ResumeIInv, SettleIInv DEF Next
<1>2. CASE UNCHANGED vars
  BY <1>2 DEF vars, IInv, TypeOK, Arrivals, Released, Chain, Tail, Fifo, Active, Started
<1> QED BY <1>1, <1>2

LEMMA IInvariance == Spec => []IInv
BY InitIInv, NextIInv, PTL DEF Spec

(* The mutex serves the calls on a key in the order they were made.         *)
THEOREM FirstInFirstOut == Spec => []Fifo
<1>1. IInv => Fifo
  BY DEF IInv
<1> QED BY IInvariance, <1>1, PTL

(* No two tasks on one key ever run together.                               *)
THEOREM Exclusion == Spec => []MutualExclusion
<1>1. IInv => MutualExclusion
  <2> SUFFICES ASSUME IInv, NEW c \in Call, NEW d \in Call, status[c] = "running",
                      status[d] = "running", keyOf[c] = keyOf[d]
               PROVE  c = d
    BY DEF MutualExclusion
  <2>1. Active(c) /\ Active(d) /\ Started(c) /\ Started(d)
    BY DEF Active, Started
  <2>2. arrival[c] <= arrival[d] /\ arrival[d] <= arrival[c]
    BY <2>1 DEF IInv, Fifo
  <2> QED BY <2>2 DEF IInv, TypeOK, Arrivals
<1> QED BY IInvariance, <1>1, PTL

(* The map of queues has an entry for exactly the busy keys.                *)
THEOREM NoEntryLeaks == Spec => []EntriesAreBusyKeys
<1>1. IInv => EntriesAreBusyKeys
  BY DistinctAssumption DEF IInv, TypeOK, Tail, Active, EntriesAreBusyKeys
<1> QED BY IInvariance, <1>1, PTL

-----------------------------------------------------------------------------
(* The refinement.  A call's predecessors are fixed when it is made: later  *)
(* calls on its key come after it, so Ahead changes only for the new call.  *)

LEMMA CallImplements ==
  ASSUME IInv, NEW c \in Call, NEW k \in Key, synchronizeOn(c, k)
  PROVE  Lock!Arrive(c, k)
<1> USE DistinctAssumption DEF IInv
<1> SUFFICES Ahead' = [Ahead EXCEPT ![c] = {d \in Call : keyOf[d] = k}]
  BY DEF synchronizeOn, Lock!Arrive
<1> DEFINE Before(d) == {e \in Call : /\ status[d] # "idle"
                                      /\ keyOf[e] = keyOf[d]
                                      /\ arrival[e] < arrival[d]}
<1>1. keyOf[c] = NoKey /\ arrival[c] = 0 /\ clock \in Nat
  BY DEF TypeOK, Arrivals, synchronizeOn
<1>2. Before(c)' = {d \in Call : keyOf[d] = k}
  <2>1. \A d \in Call : keyOf[d] = k => d # c /\ arrival[d] \in 1 .. clock
    BY <1>1 DEF TypeOK, Arrivals
  <2>2. /\ status'[c] # "idle" /\ keyOf'[c] = k /\ arrival'[c] = clock + 1
        /\ \A d \in Call \ {c} : keyOf'[d] = keyOf[d] /\ arrival'[d] = arrival[d]
    BY DEF TypeOK, synchronizeOn
  <2> QED BY <1>1, <2>1, <2>2
<1>3. \A d \in Call \ {c} : Before(d)' = Before(d)
  <2> SUFFICES ASSUME NEW d \in Call \ {c}, NEW e \in Call
               PROVE  (e \in Before(d))' <=> e \in Before(d)
    OBVIOUS
  <2>1. CASE e = c
    BY <1>1, <2>1 DEF TypeOK, Arrivals, synchronizeOn
  <2>2. CASE e # c
    BY <2>2 DEF TypeOK, synchronizeOn
  <2> QED BY <2>1, <2>2
<1>4. Ahead = [d \in Call |-> Before(d)] /\ Ahead' = [d \in Call |-> Before(d)']
  BY DEF Ahead
<1> QED BY <1>2, <1>3, <1>4, Zenon

LEMMA SameAhead ==
  ASSUME IInv, UNCHANGED <<keyOf, arrival>>, NEW c \in Call, status[c] # "idle",
         NEW s, s # "idle", status' = [status EXCEPT ![c] = s]
  PROVE  Ahead' = Ahead
<1>1. \A d \in Call : status'[d] # "idle" <=> status[d] # "idle"
  BY DEF IInv, TypeOK
<1> QED BY <1>1 DEF Ahead

LEMMA MutexImplementsStep == IInv /\ [Next]_vars => [Lock!Next]_(Lock!vars)
<1> SUFFICES ASSUME IInv, Next
             PROVE  Lock!Next
  BY DEF vars, Lock!vars, Ahead
<1>1. ASSUME NEW c \in Call, NEW k \in Key, synchronizeOn(c, k)
      PROVE  Lock!Next
  BY <1>1, CallImplements DEF Lock!Next
<1>2. ASSUME NEW c \in Call, resume(c)
      PROVE  Lock!Enter(c)
  <2>1. \A d \in Ahead[c] : status[d] = "settled"
    BY <1>2, EarlierSettled DEF Ahead
  <2>2. Ahead' = Ahead
    BY <1>2, SameAhead DEF resume
  <2> QED BY <1>2, <2>1, <2>2 DEF resume, Lock!Enter
<1>3. ASSUME NEW c \in Call, NEW outcome \in Outcome, settle(c, outcome)
      PROVE  Lock!Leave(c)
  <2>1. Ahead' = Ahead
    BY <1>3, SameAhead DEF settle
  <2> QED BY <1>3, <2>1 DEF settle, Lock!Leave
<1> QED BY <1>1, <1>2, <1>3 DEF Next, Lock!Next

(* The chain of promises implements a first-in first-out lock: a call that  *)
(* starts its task waits for nobody, because every call made before it on   *)
(* its key has settled (Mutex.ts, synchronizeOn).                           *)
THEOREM MutexIsFifoLock == Spec => ImplementsFifoLock
<1>1. Init => Lock!Init
  BY DEF Init, Lock!Init, Ahead
<1> QED BY <1>1, IInvariance, MutexImplementsStep, PTL DEF Spec, ImplementsFifoLock, Lock!Spec
=============================================================================
