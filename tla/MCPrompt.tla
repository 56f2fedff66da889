------------------------------ MODULE MCPrompt ------------------------------
(* Arrays of a few names, a small disk and password file, and expressions of  *)
(* up to five tokens.                                                          *)
EXTENDS Prompt

Seqs(S, n) == UNION {[1 .. k -> S] : k \in 0 .. n}

MCParts == {"plain", "names", "file", "path", "calc"}

MCArrays ==
  {<< <<"a">> >>,
   << <<"a">>, <<"a", "b">>, <<"b">> >>,
   << <<"A", "a", "c">>, <<"a", "b", "a">>, <<"a", "B", "c">>, <<"c">> >>,
   << <<"a", "b">>, <<"A", "b", "c">>, <<"b", "a">> >>}

MCDefaults(p) ==
  CASE p = "plain" -> {<<>>, <<"a", "b">>}
    [] p = "names" -> {<<>>, <<"b">>}
    [] p = "file"  -> {<<>>, <<"/", "a", "/">>}
    [] OTHER       -> {<<>>}

MCKeys(p) ==
  CASE p = "plain" -> {"a", "b"}
    [] p = "names" -> {"a", "b", "c", "B"}
    [] p = "file"  -> {"a", "b", "."}
    [] OTHER       -> {}

MCYanks(p) ==
  CASE p = "names" -> {<<"a", "b">>}
    [] p = "path"  -> Seqs({"/", ".", "a"}, 6) \cup Seqs({"/", ".", "a", "b"}, 5)
                   \cup {<<"~">> \o s : s \in Seqs({"/", ".", "a", "b"}, 3)}
                   \cup {<<"$">> \o s : s \in Seqs({"/", "a", "b"}, 3)}
    [] OTHER       -> {}

MCMaxKeys(p) == CASE p = "plain" -> 4 [] p = "names" -> 4 [] p = "file" -> 5 [] OTHER -> 1

\* /  /a  /a/ab  /a/abb/  /a/b.o  /b/  /b/ba  /ba
MCTree ==
  [f \in {<<>>, << <<"a">> >>, << <<"b">> >>, << <<"a">>, <<"a", "b", "b">> >>} |-> "dir"] @@
  [f \in {<< <<"a">>, <<"a", "b">> >>, << <<"a">>, <<"b", ".", "o">> >>,
          << <<"b">>, <<"b", "a">> >>, << <<"b", "a">> >>} |-> "file"]

MCUsers == << [name |-> <<"a", "b">>, dir |-> <<"/", "a">>],
              [name |-> <<"a">>, dir |-> <<"/">>] >>
MCHome  == <<"/", "b">>
MCEnv   == (<<"a">> :> <<"/", "a", "/">>) @@ (<<"b">> :> <<"/", "b">>)
MCCwds  == {<<"/">>, <<"/", "a">>}

MCExprs ==
  Seqs({"1", "2", "-", "*", "(", ")"}, 5) \cup Seqs({"3", "2", "k", "<", "/"}, 4)
    \cup Seqs({"1.", "2", "/", "-", "&"}, 4) \cup Seqs({"+", "0", "%", "|", "2"}, 4)
    \cup {<<"1", "|", "2", "^", "1", "&", "2", "<", "1", "+", "2", "*", "2">>,
          <<"1", "|", "2", "^", "3", "=", "k">>, <<"3", "^", "2", "&", "1", ">", "1">>,
          <<"3", "m", "+", "2", "k", "=", "k">>, <<"2", "p", "=", "p">>,
          <<"(", "(", "(", "(", "1", ")", ")", ")", ")">>}
=============================================================================
