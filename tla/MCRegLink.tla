------------------------------ MODULE MCRegLink ------------------------------
(* Two output registers and one block of several words.                    *)
EXTENDS RegLink
MCWords == [r \in Regs |-> IF r = "block" THEN 8 ELSE 1]
=============================================================================
