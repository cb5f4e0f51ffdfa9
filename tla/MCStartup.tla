------------------------------ MODULE MCStartup -------------------------------
(* Startup with two or three calls on an instance that migrates and one on  *)
(* another, which may not.                                                  *)
EXTENDS Startup, MCSettings

CONSTANTS a1, a2, a3, b1, alpha, beta

HomeOf == [c \in Call |-> IF c = b1 THEN beta ELSE alpha]
FunctionOf == [c \in Call |-> CASE c = a1 -> "acceptPayment"
                                [] c = a2 -> "shutdown"
                                [] c = a3 -> "paymentById"
                                [] c = b1 -> "paymentById"]
=============================================================================
