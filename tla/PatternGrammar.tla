--------------------------- MODULE PatternGrammar ---------------------------
(***************************************************************************)
(* What may stand before the of or in of a for head that declares nothing: *)
(* a name, a member expression or a destructuring assignment pattern, by   *)
(* the grammar of ECMAScript, as strings of tokens up to MaxLen long.  The *)
(* names that are bound are written "leaf" and all other names "id".       *)
(* This is the reference pkg/tc39/hoist.go is held against in Hoist.       *)
(***************************************************************************)
EXTENDS Naturals, Sequences, SequencesExt, FiniteSets

CONSTANT MaxLen

Join(A, B)       == {a \o b : a \in A, b \in B}
Wrap(open, S, close) == {<<open>> \o s \o <<close>> : s \in S}
Only(c, S)       == IF c THEN S ELSE {}

\* The strings of length n of each kind; g has the shorter ones.  Member
\* expressions and parentheses as targets, and computed keys, only if wide.
Level(g, n, wide) ==
    LET L(k, kind) == IF k < 0 THEN {} ELSE g[k + 1][kind]
        \* a, then sep, then b, of length n together
        Sep(a, sep, b) == UNION {Join(L(k, a), Join({<<sep>>}, L(n - k - 1, b))) :
                                    k \in 1..(n - 1)}
        literal == Wrap("[", L(n - 2, "list"), "]")
                   \cup Only(n = 2, {<<"{", "}">>})
                   \cup Only(n = 3, {<<"{", "id", "}">>})
                   \cup Wrap("{", Join({<<"id", ":">>}, L(n - 4, "expr")), "}")
        member  == Join(L(n - 2, "base"), {<<".", "id">>})
                   \cup UNION {Join(L(k, "base"), Wrap("[", L(n - k - 2, "expr"), "]")) :
                                  k \in 1..(n - 2)}
        calls   == UNION {Join(L(k, "base"), Wrap("(", L(n - k - 2, "list"), ")")) :
                             k \in 1..(n - 2)}
        base    == Only(n = 1, {<<"id">>}) \cup literal \cup member \cup calls
                   \cup Wrap("(", L(n - 2, "expr"), ")")
        expr    == base \cup Join({<<"id", "=">>}, L(n - 2, "expr"))
        list    == Only(n = 0, {<<>>}) \cup expr \cup Sep("expr", ",", "list")
        pattern == Wrap("[", L(n - 2, "elems"), "]") \cup Wrap("{", L(n - 2, "props"), "}")
        target  == Only(n = 1, {<<"leaf">>}) \cup pattern
                   \cup Only(wide, member) \cup Only(wide /\ n = 3, {<<"(", "leaf", ")">>})
        elem    == target \cup Sep("target", "=", "expr")
        elems   == Only(n = 0, {<<>>}) \cup elem
                   \cup Join({<<"...">>}, L(n - 1, "target"))
                   \cup Sep("elem", ",", "elems") \cup Join({<<",">>}, L(n - 1, "elems"))
        prop    == Only(n = 1, {<<"leaf">>})
                   \cup Join({<<"leaf", "=">>}, L(n - 2, "expr"))
                   \cup Join({<<"id", ":">>}, L(n - 2, "elem"))
                   \cup Only(wide, UNION {Join(Wrap("[", L(k, "expr"), "]"),
                                               Join({<<":">>}, L(n - k - 3, "elem"))) :
                                             k \in 1..(n - 4)})
        props   == Only(n = 0, {<<>>}) \cup prop
                   \cup Only(n = 2, {<<"...", "leaf">>})
                   \cup Sep("prop", ",", "props")
    IN  [base |-> base, expr |-> expr, list |-> list, target |-> target,
         elem |-> elem, elems |-> elems, prop |-> prop, props |-> props,
         pattern |-> pattern, member |-> member]

Grammar(wide) ==
    FoldLeft(LAMBDA g, n : Append(g, Level(g, n, wide)), <<>>,
             [n \in 1..(MaxLen + 1) |-> n - 1])

Heads(wide) == LET g == Grammar(wide) IN UNION {g[n + 1].target : n \in 1..MaxLen}

AllHeads    == Heads(TRUE)
SimpleHeads == Heads(FALSE)

\* A head as it is written, and a text with the names in T for its leaves.
Read(s)     == [n \in DOMAIN s |-> IF s[n] = "leaf" THEN "id" ELSE s[n]]
Mark(s, T)  == [n \in DOMAIN s |-> IF n \in T THEN "leaf" ELSE s[n]]

AllTexts    == {Read(s) : s \in AllHeads}
SimpleTexts == {Read(s) : s \in SimpleHeads}
=============================================================================
