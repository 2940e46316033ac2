---------------------------- MODULE MCDevManager ----------------------------
(* A disk, a second one that gets the same name, and a serial console. *)
EXTENDS DevManager

CONSTANTS d1, d2, t1, sda, ttyS0

MCNameOf == [d \in Device |-> IF d = t1 THEN ttyS0 ELSE sda]

=============================================================================
