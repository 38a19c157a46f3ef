----------------------------- MODULE MCLowerOnly -----------------------------
EXTENDS LowerOnly

K(flags, includes) ==
    [fixture |-> FALSE, parses |-> TRUE, flags |-> flags, includes |-> includes]

MCKinds ==
    {K({}, <<"ported.js">>), K({"async", "module"}, <<>>),
     K({}, <<"lost.js", "ported.js", "gone.js">>),
     K({"onlyStrict"}, <<"assert.js", "gone.js", "gone.js">>),
     K({"raw"}, <<"lost.js">>), K({"noStrict", "CanBlockIsFalse"}, <<"gone.js">>),
     [K({}, <<>>) EXCEPT !.parses = FALSE],
     [K({}, <<>>) EXCEPT !.fixture = TRUE]}

MCPorted == {"sta.js", "assert.js", "ported.js"}
MCFiles  == 1..3

S(prefixes, grep, limit, deny, request, ram) ==
    [prefixes |-> prefixes, grep |-> grep, limit |-> limit, deny |-> deny,
     request |-> request, ram |-> ram, readable |-> TRUE]

\* The prefixes in and out of path order, twice the same file, each filter, and
\* each edge of the worker cap with memory for one, for two and unknown.
MCSetups ==
    {S(<<{1}, {2, 3}>>, MCFiles, 0, {}, 3, 5),
     S(<<{1, 2}, {2}>>, {2}, 0, {}, 1, 5),
     S(<<{3}, {1, 2}>>, MCFiles, 2, {}, 0, 4),
     S(<<{1}, {3}>>, {1, 3}, -1, {3}, 2, 1),
     S(<<{1}, {2}>>, {1, 2}, 1, {2}, 2, 0),
     S(<<{1}>>, {1}, 0, {}, -1, 8),
     [S(<<{1}>>, {1}, 0, {}, 1, 4) EXCEPT !.readable = FALSE]}
=============================================================================
