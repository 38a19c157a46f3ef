---------------------------- MODULE MCModuleGraph ----------------------------
EXTENDS ModuleGraph

F(path, ext) == [path |-> path, ext |-> ext]
Rel(path)    == [rel |-> TRUE, path |-> path, ext |-> "js"]

MCPlace ==
    [t  |-> F(<<"t">>, "js"), a |-> F(<<"a">>, "js"), ats |-> F(<<"a">>, "ts"),
     b  |-> F(<<"b">>, "js"), sa |-> F(<<"s", "a">>, "js"),
     sb |-> F(<<"s", "b">>, "js"), up |-> F(<<"..", "b">>, "js")]

\* Siblings, one of them with the other extension, the test itself, a nested
\* module, a climb written openly and one that shows only once it is cleaned,
\* and a package.
Specs ==
    {Rel(<<"a">>), [Rel(<<"a">>) EXCEPT !.ext = "ts"], Rel(<<"b">>), Rel(<<"t">>),
     Rel(<<"s", ".", "a">>), Rel(<<"..", "b">>), Rel(<<"s", "..", "..", "b">>),
     [Rel(<<"p">>) EXCEPT !.rel = FALSE]}

Short == {<<>>} \cup {<<s>> : s \in Specs}
Pairs == Short \cup {<<s, r>> : s, r \in Specs}

There(contents)   == [there : {TRUE}, imports : contents]
Perhaps(contents) == There(contents) \cup [there : {FALSE}, imports : {<<>>}]

\* The test has up to two imports, a.js any one, b.js and s/a.js the ones that
\* close cycles or name a file of both directories.
MCCorpora ==
    [t  : There(Pairs), a : Perhaps(Short), ats : Perhaps({<<Rel(<<"b">>)>>}),
     b  : Perhaps({<<>>, <<Rel(<<"a">>)>>, <<Rel(<<"t">>)>>}),
     sa : Perhaps({<<Rel(<<"b">>)>>, <<Rel(<<"a">>)>>, <<Rel(<<"..", "b">>)>>}),
     sb : Perhaps({<<>>}), up : There({<<>>})]
=============================================================================
