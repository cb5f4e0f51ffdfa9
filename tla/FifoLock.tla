------------------------------- MODULE FifoLock -------------------------------
(***************************************************************************)
(* What a keyed mutex promises: a call on a key runs its task only after   *)
(* every call made on that key before it has settled.                      *)
(***************************************************************************)
CONSTANTS Call, Key, NoKey

VARIABLES
  status,    \* "idle", "waiting", "running" or "settled", for each call
  keyOf,     \* the key each call was made on
  ahead      \* the calls each call has to wait for

vars == <<status, keyOf, ahead>>

Init ==
  /\ status = [c \in Call |-> "idle"]
  /\ keyOf = [c \in Call |-> NoKey]
  /\ ahead = [c \in Call |-> {}]

Arrive(c, k) ==
  /\ status[c] = "idle"
  /\ status' = [status EXCEPT ![c] = "waiting"]
  /\ keyOf' = [keyOf EXCEPT ![c] = k]
  /\ ahead' = [ahead EXCEPT ![c] = {d \in Call : keyOf[d] = k}]

Enter(c) ==
  /\ status[c] = "waiting"
  /\ \A d \in ahead[c] : status[d] = "settled"
  /\ status' = [status EXCEPT ![c] = "running"]
  /\ UNCHANGED <<keyOf, ahead>>

Leave(c) ==
  /\ status[c] = "running"
  /\ status' = [status EXCEPT ![c] = "settled"]
  /\ UNCHANGED <<keyOf, ahead>>

Next == \E c \in Call : \/ \E k \in Key : Arrive(c, k)
                        \/ Enter(c)
                        \/ Leave(c)

Spec == Init /\ [][Next]_vars
=============================================================================
