----------------------------- MODULE MCWindows -----------------------------
(* Two files, the buffer at the start and the list of buffers; a terminal of   *)
(* two heights, high enough for three windows.                                *)
EXTENDS Windows

MCBuffer == {"Main", "a", "*list*"}
MCRank   == [n \in MCBuffer \cup {"*paw*"} |->
               CASE n = "*list*" -> 1 [] n = "*paw*" -> 2 [] n = "a" -> 3 [] n = "Main" -> 4]
MCArgs   == {<<>>, <<"a">>}
=============================================================================
