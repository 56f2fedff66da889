----------------------------- MODULE MCEditing -----------------------------
(* Short texts over the bytes a mode's commands tell apart; for filling, up to *)
(* three words with a gap behind each.                                         *)
EXTENDS Editing

Strings(S, n) == UNION {[1 .. k -> S] : k \in 0 .. n}

MCAccess == {<<"a", "b">>}

MCJunk == {"a", NL}

MCSteps(m) == CASE m \in {"move", "kill"} -> 3 [] m = "fill" -> 1 [] OTHER -> 2

Pieces == {w \o g : w \in {<<"a">>, <<"a", "b">>, <<"a", "b", "a", "b", "c">>},
                    g \in {<<" ">>, <<NL>>, <<NL, NL>>, <<" ", "\r", NL>>}}

MCTexts(m) ==
  CASE m = "move"   -> Strings({"a", TAB, NL}, 4)
    [] m = "kill"   -> Strings({"a", " ", NL}, 3)
    [] m = "layout" -> Strings({"a", " ", NL}, 4) \cup Strings({"a", TAB}, 3)
    [] m = "fill"   -> {p \o q \o r : p \in Pieces, q \in Pieces, r \in Pieces \cup {<<>>}}
    [] m = "words"  -> Strings({"a", "B", " "}, 4) \cup Strings({"a", NL, "#"}, 3)
    [] m = "c"      -> Strings({"{", "}", NL, TAB}, 4) \cup Strings({"#", NL, " "}, 3)
                         \cup {<<NL, " ", "a", "b">>, <<TAB, "i", "f", "{">>}
=============================================================================
