----------------------------- MODULE MCKeyboard -----------------------------
(* The keys "up" and "delete" of the st terminal, and ESC O A for "up". *)
EXTENDS Keyboard

MCTkeys == [i \in Special |-> IF i = "up" THEN <<"[", "A">> ELSE <<"[", "P">>]
MCRewrite == [b \in {"A"} |-> [i \in {"up"} |-> <<"O", "A">>]]
=============================================================================
