------------------------------ MODULE MCFiles ------------------------------
(* A buffer on a file that is there and may have a second link, a buffer with   *)
(* none, and a name that no file has yet.                                      *)
EXTENDS Files

CONSTANTS f, g

MCBufflist == <<"a", "b">>
MCFname    == {[a |-> f, b |-> NIL]}
MCHad      == {{f}}
MCLinked   == {{}, {f}}
=============================================================================
