------------------------------ MODULE MCSearch ------------------------------
(* Short texts of one or two buffers over the bytes the searches tell apart.   *)
EXTENDS Search

Texts(S, n) == UNION {[1 .. k -> S] : k \in 0 .. n}

Pairs == {<<"a", "b", "a">>, <<"b", "a", "b", "a">>, <<"b">>}

MCParts == {"find", "refind", "isearch", "replace", "query", "rereplace"}

MCStarts(p) ==
  CASE p = "find"      -> {<<s>> : s \in Texts({"a", "b"}, 4) \cup Texts({"a", "A"}, 3)}
    [] p = "refind"    -> {<<s>> : s \in Texts({"a", "b", NL}, 4)}
    [] p = "isearch"   -> {<<s>> : s \in Texts({"a", "b"}, 4)}
    [] p = "replace"   -> {<<s>> : s \in Texts({"a", "b"}, 4)} \cup {<<s, t>> : s, t \in Pairs}
    [] p = "query"     -> {<<s>> : s \in Texts({"a", "b"}, 3) \cup {<<"A", "b", "b">>}}
    [] p = "rereplace" -> {<<s>> : s \in Texts({"a", "b", NL}, 2)
                                \cup {<<NL, "a", "b">>, <<"b", NL, "b">>, <<"a", "b", NL>>}}

MCStrings(p) ==
  CASE p = "find"    -> {<<"a">>, <<"a", "b">>, <<"a", "a">>, <<"b", "a", "b">>, <<"a", "a", "b">>}
    [] p = "refind"  -> {<<"a">>, <<"^", "b">>, <<"b", "$">>, <<"a", "*", "b">>, <<"^">>, <<"(">>}
    [] p = "replace" -> {<<"a">>, <<"a", "b">>}
    [] p = "query"   -> {<<"b">>, <<"a", "b">>}
    [] p = "rereplace" -> {<<"a">>, <<"^">>, <<"b", "$">>, <<"b", "*">>, <<"(">>}
    [] OTHER         -> {}

MCNews(p) ==
  CASE p = "replace" -> {<<>>, <<"c">>, <<"a", "a">>, <<"b", "a">>, <<"%d">>}
    [] p = "query"   -> {<<>>, <<"c", "b">>}
    [] OTHER         -> {<<>>, <<"&", "c">>, <<"\\">>}

MCSteps(p) == CASE p = "find" -> 3 [] p \in {"refind", "isearch"} -> 2 [] OTHER -> 1

MCJunk == {"b", "NUL"}
=============================================================================
