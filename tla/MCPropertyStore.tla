--------------------------- MODULE MCPropertyStore ---------------------------
EXTENDS PropertyStore
a == <<"persist.", "a">>
ab == <<"persist.", "a", "b">>
MCLegalKeys == {a, ab, <<"ro.", "a">>}
MCKeys == MCLegalKeys \cup {ab \o <<"b">>}
MCChars == {"a", "b", "1"}
MCValues == {<<>>, <<"1", "1">>, <<"1", "1", "1">>}

\* Nothing behind the typed word, a further argument, the end of an old line that
\* ended in a blank.
MCLeftovers == {<<Nul, Nul, Nul>>, <<"1", "1", "1">>, <<" ", Nul, "1">>}
MCFiles == <<"b">> :> Appended(<<>>, ab, <<"1">>)

Line(k, v) == Appended(<<>>, k, v)

\* A file as the service writes it.
Plain == {<<>>, Line(a, <<"1">>), Line(<<"ro.", "a">>, <<"1">>) \o Line(a, <<>>)}

\* Files as people write them: a longer name first, a line that was
\* commented out, one without an end, blanks around the value, an import.
Written == {Line(ab, <<>>) \o Line(a, <<>>),
            <<"#">> \o Line(a, <<>>) \o Line(a, <<>>),
            a \o <<"=", "1">>,
            a \o <<" ", "=", " ", "1", " ", "\n">>,
            <<"import ", "b", "\n">>,
            <<"import ", "b", " ", "persist.", "*", "\n">>}
MCDisks == Plain \cup Written
MCOverrides == {<<>>, Line(a, <<"1", "1">>)}
=============================================================================
