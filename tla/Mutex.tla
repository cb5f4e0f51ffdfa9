-------------------------------- MODULE Mutex --------------------------------
(***************************************************************************)
(* packages/iohtee/src/Mutex.ts: tasks of one process, run one at a time   *)
(* per key.  The map "queues" holds, for every busy key, the promise that  *)
(* resolves when the last call on that key has settled; a call waits for   *)
(* the promise it found there.  A promise is named by the call that made   *)
(* it and is resolved once that call has released it.                      *)
(***************************************************************************)
EXTENDS Naturals

CONSTANTS Call, Key, NoCall, NoKey

ASSUME DistinctAssumption == NoCall \notin Call /\ NoKey \notin Key

VARIABLES
  queues,     \* Map<string, Promise<void>>: the tail of each key, or NoCall
  status,     \* "idle", "waiting", "running" or "settled", for each call
  keyOf,      \* argument of each call
  previous,   \* the promise each call awaits, or NoCall for Promise.resolve()
  released,   \* the promises that have been resolved
  arrival,    \* history: position of each call among all calls, or 0
  clock       \* history: number of calls made

vars == <<queues, status, keyOf, previous, released, arrival, clock>>

Init ==
  /\ queues = [k \in Key |-> NoCall]
  /\ status = [c \in Call |-> "idle"]
  /\ keyOf = [c \in Call |-> NoKey]
  /\ previous = [c \in Call |-> NoCall]
  /\ released = {}
  /\ arrival = [c \in Call |-> 0]
  /\ clock = 0

enqueue_IfFree(c, k) ==
  queues' = [queues EXCEPT ![k] = IF queues[k] = NoCall THEN c ELSE @]
enqueue(c, k) == queues' = [queues EXCEPT ![k] = c]

\* synchronizeOn up to its await: no other call runs in between.
synchronizeOn(c, k) ==
  /\ status[c] = "idle"
  /\ previous' = [previous EXCEPT ![c] = queues[k]]
  /\ enqueue(c, k)
  /\ status' = [status EXCEPT ![c] = "waiting"]
  /\ keyOf' = [keyOf EXCEPT ![c] = k]
  /\ arrival' = [arrival EXCEPT ![c] = clock + 1]
  /\ clock' = clock + 1
  /\ UNCHANGED released

\* "await previous" continues and the task starts.
resume(c) ==
  /\ status[c] = "waiting"
  /\ previous[c] \in released \cup {NoCall}
  /\ status' = [status EXCEPT ![c] = "running"]
  /\ UNCHANGED <<queues, keyOf, previous, released, arrival, clock>>

forget_Never(c) == UNCHANGED queues
forget(c) ==
  queues' = [queues EXCEPT ![keyOf[c]] = IF @ = c THEN NoCall ELSE @]

releases_OnReturn(outcome) == outcome = "returned"
releases(outcome) == TRUE

\* The "finally" block, for a task that returned and for one that threw.
settle(c, outcome) ==
  /\ status[c] = "running"
  /\ status' = [status EXCEPT ![c] = "settled"]
  /\ released' = IF releases(outcome) THEN released \cup {c} ELSE released
  /\ forget(c)
  /\ UNCHANGED <<keyOf, previous, arrival, clock>>

Outcome == {"returned", "threw"}

Next == \E c \in Call :
          \/ \E k \in Key : synchronizeOn(c, k)
          \/ resume(c)
          \/ \E outcome \in Outcome : settle(c, outcome)

Spec == Init /\ [][Next]_vars

(* The event loop runs a continuation whose promise is resolved, and every  *)
(* task settles: it awaits RPC, database and HTTP calls that return, fail   *)
(* or time out, and never another call on its own key.                      *)
FairSpec == /\ Spec
            /\ \A c \in Call : /\ WF_vars(resume(c))
                               /\ WF_vars(\E outcome \in Outcome : settle(c, outcome))

-----------------------------------------------------------------------------
(* Properties. *)

(* Every variable has its type. *)
TypeOK ==
  /\ queues \in [Key -> Call \cup {NoCall}]
  /\ status \in [Call -> {"idle", "waiting", "running", "settled"}]
  /\ keyOf \in [Call -> Key \cup {NoKey}]
  /\ previous \in [Call -> Call \cup {NoCall}]
  /\ released \subseteq Call
  /\ arrival \in [Call -> Nat]
  /\ clock \in Nat

Active(c) == status[c] \in {"waiting", "running"}
Started(c) == status[c] \in {"running", "settled"}

(* Tasks on one key never overlap, however many calls arrive while one      *)
(* runs, and however each one settles.                                      *)
MutualExclusion ==
  \A c, d \in Call :
    status[c] = "running" /\ status[d] = "running" /\ keyOf[c] = keyOf[d] => c = d

(* A task starts only when every call made before it on its key has settled *)
(* (Mutex.test.ts, "should process tasks in order by queue name").          *)
Fifo ==
  \A c, d \in Call :
    /\ Active(c)
    /\ Started(d)
    /\ keyOf[c] = keyOf[d]
    => arrival[d] <= arrival[c]

(* The map holds an entry for exactly the keys that are busy: a key that    *)
(* is done with leaves nothing behind, and one that is waited on is not     *)
(* forgotten by the call that settles first.                                *)
EntriesAreBusyKeys ==
  \A k \in Key :
    queues[k] # NoCall <=> \E c \in Call : keyOf[c] = k /\ Active(c)

(* Every call is eventually settled: a task that throws does not block the  *)
(* calls behind it.                                                         *)
EveryCallSettles == \A c \in Call : status[c] = "waiting" ~> status[c] = "settled"

(* The chain of promises implements a first-in first-out lock per key.      *)
Ahead == [c \in Call |-> {d \in Call : /\ status[c] # "idle"
                                       /\ keyOf[d] = keyOf[c]
                                       /\ arrival[d] < arrival[c]}]

Lock == INSTANCE FifoLock WITH ahead <- Ahead

ImplementsFifoLock == Lock!Spec
=============================================================================
