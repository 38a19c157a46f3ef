-------------------------------- MODULE Hoist --------------------------------
(***************************************************************************)
(* hoistSloppyForBindings (pkg/tc39/hoist.go): which undeclared names of a *)
(* for head get a var.  The head is read token by token up to its of or    *)
(* in, then walked as a destructuring pattern with a stack of frames, and  *)
(* a name is hoisted if every one of its occurrences is a target.          *)
(*                                                                         *)
(* A name is the set of its occurrences, so the token of a name is "id".   *)
(* Operators and the text maskLiterals blanks are not tokens here; a "."   *)
(* stands for what the walk does not know.                                 *)
(*                                                                         *)
(* The names ending in _Slip are deliberate slips in one definition each;  *)
(* nothing in the specification uses them.                                 *)
(***************************************************************************)
EXTENDS PatternGrammar

VARIABLES
    text,       \* the binding: what has been read of the head
    depth,      \* forBindingEnd's bracket depth
    phase,      \* "head", "none", "walk", "gaveup", "walked", "hoisted"
    i,          \* the token the walk is at
    stack,      \* its frames, the innermost last
    found,      \* the places of the targets so far
    targets,    \* forBindingTargets
    name,       \* the occurrences of a name in the head
    won         \* whether the name gets a var

vars == <<text, depth, phase, i, stack, found, targets, name, won>>

Open   == {"[", "{", "("}
Close  == {"]", "}", ")"}
Tokens == Open \cup Close \cup {"id", ",", ":", "=", "...", "."}

Init ==
    /\ text = <<>> /\ depth = 1 /\ phase = "head" /\ i = 1
    /\ stack = <<>> /\ found = {} /\ targets = {}
    /\ name = {} /\ won = FALSE

-----------------------------------------------------------------------------
\* Bound: MaxLen tokens, and two if the walk returns at the first of them.
Bound(t) == IF Head(Append(text, t)) \in {"[", "{"} THEN MaxLen ELSE 2

\* forBindingEnd, over a token of the head.
ScanToken(t) ==
    /\ phase = "head"
    /\ LET d == IF t \in Open THEN depth + 1 ELSE IF t \in Close THEN depth - 1 ELSE depth
       IN  /\ d > 0 /\ Len(text) + d <= Bound(t)
           /\ depth' = d
    /\ text' = Append(text, t)
    /\ UNCHANGED <<phase, i, stack, found, targets, name, won>>

\* The head closes, or a ; comes, before an of or in: not a binding.
NotABinding ==
    /\ phase = "head"
    /\ depth = 1
    /\ phase' = "none"
    /\ UNCHANGED <<text, depth, i, stack, found, targets, name, won>>

\* The of or in: the binding is a name alone, a pattern, or nothing to walk.
BindingEnds ==
    /\ phase = "head"
    /\ depth = 1
    /\ phase' = IF text # <<>> /\ Head(text) \in {"[", "{"} THEN "walk" ELSE "walked"
    /\ targets' = {n \in {1} : text = <<"id">>}
    /\ UNCHANGED <<text, depth, i, stack, found, name, won>>

-----------------------------------------------------------------------------
At(t) == phase = "walk" /\ i <= Len(text) /\ text[i] = t

Top      == Last(stack)
Nested   == stack # <<>>
Set(f)   == Append(Front(stack), f)
AtKey    == Nested /\ Top.kind = "{" /\ Top.atPropStart
AfterValue == Nested /\ Top.expectSep

GiveUp ==
    /\ phase' = "gaveup"
    /\ UNCHANGED <<text, depth, i, stack, found, targets, name, won>>

Go(j, frames, seen) ==
    /\ i' = j /\ stack' = frames /\ found' = seen
    /\ UNCHANGED <<text, depth, phase, targets, name, won>>

\* Slip: an index after a value opens a pattern.
OpenBracket_Slip(t) ==
    /\ At(t)
    /\ IF AtKey
       THEN GiveUp
       ELSE Go(i + 1, Append(stack, [kind |-> t, atPropStart |-> t = "{", expectSep |-> FALSE]),
               found)

\* A computed key, or an index after a value, is more than the walk knows.
OpenBracket(t) ==
    /\ At(t)
    /\ IF AfterValue \/ AtKey
       THEN GiveUp
       ELSE Go(i + 1, Append(stack, [kind |-> t, atPropStart |-> t = "{", expectSep |-> FALSE]),
               found)

\* The frame it closes was a value of the frame around it.
CloseBracket(t) ==
    /\ At(t)
    /\ LET opener == IF t = "]" THEN "[" ELSE "{"
           outer  == Front(stack)
       IN  IF ~Nested \/ Top.kind # opener
           THEN GiveUp
           ELSE Go(i + 1,
                   IF outer = <<>> THEN <<>>
                   ELSE Append(Front(outer), [Last(outer) EXCEPT !.expectSep = TRUE]),
                   found)

Comma ==
    /\ At(",")
    /\ Go(i + 1,
          IF Nested
          THEN Set([Top EXCEPT !.expectSep = FALSE, !.atPropStart = @ \/ Top.kind = "{"])
          ELSE stack,
          found)

Dots ==
    /\ At("...")
    /\ IF AfterValue THEN GiveUp ELSE Go(i + 1, stack, found)

\* skipDefault: the first separator or closer that is not inside of brackets.
SkipDefault(j) ==
    LET Inside(k) == Cardinality({m \in j..(k - 1) : text[m] \in Open})
                     - Cardinality({m \in j..(k - 1) : text[m] \in Close})
        ends == {k \in j..Len(text) : text[k] \in Close \cup {","} /\ Inside(k) = 0}
    IN  IF ends = {} THEN Len(text) + 1 ELSE CHOOSE k \in ends : \A m \in ends : k <= m

\* A default follows a value.
Default ==
    /\ At("=")
    /\ IF ~AfterValue THEN GiveUp ELSE Go(SkipDefault(i + 1), stack, found)

\* A key, or a target.
Ident ==
    /\ At("id")
    /\ IF ~Nested \/ AfterValue
       THEN GiveUp
       ELSE IF AtKey /\ i < Len(text) /\ text[i + 1] = ":"
       THEN Go(i + 2, Set([Top EXCEPT !.atPropStart = FALSE]), found)
       ELSE Go(i + 1, Set([Top EXCEPT !.expectSep = TRUE, !.atPropStart = FALSE]),
               found \cup {i})

Other ==
    /\ \E t \in {":", ".", "(", ")"} : At(t)
    /\ GiveUp

\* The end of the text: all the targets, if every bracket is closed.
Commit ==
    /\ phase = "walk" /\ i > Len(text)
    /\ phase' = "walked"
    /\ targets' = IF Nested THEN {} ELSE found
    /\ UNCHANGED <<text, depth, i, stack, found, name, won>>

-----------------------------------------------------------------------------
\* scanIdents: a name after a lone dot is a property.
Occurrences == {n \in DOMAIN text : text[n] = "id" /\ ~(n > 1 /\ text[n - 1] = ".")}

\* Slip: one occurrence as a target is enough.
Wins_Slip(occs, elsewhere) == occs \cap targets # {} /\ ~elsewhere

Wins(occs, elsewhere) == /\ occs \cap targets # {}
                         /\ occs \subseteq targets /\ ~elsewhere

\* A name with these occurrences in the head, and perhaps one elsewhere.
HoistName(occs, elsewhere) ==
    /\ phase = "walked" /\ targets # {}
    /\ phase' = "hoisted"
    /\ name' = occs
    /\ won' = Wins(occs, elsewhere)
    /\ UNCHANGED <<text, depth, i, stack, found, targets>>

Over ==
    /\ phase \in {"none", "gaveup", "hoisted"} \/ (phase = "walked" /\ targets = {})
    /\ UNCHANGED vars

Step ==
    \/ \E t \in {"[", "{"} : OpenBracket(t)
    \/ \E t \in {"]", "}"} : CloseBracket(t)
    \/ Comma \/ Dots \/ Default \/ Ident \/ Other \/ Commit

Next ==
    \/ \E t \in Tokens : ScanToken(t)
    \/ NotABinding \/ BindingEnds
    \/ Step
    \/ \E occs \in (SUBSET Occurrences) \ {{}} : \E e \in BOOLEAN : HoistName(occs, e)
    \/ Over

Spec == Init /\ [][Next]_vars

-----------------------------------------------------------------------------
\* An index follows the outermost bracket: [a][b] or {a}[b].
Indexed ==
    \E n \in 2..(Len(text) - 1) :
        /\ text[n + 1] = "["
        /\ Cardinality({m \in 1..n : text[m] \in Open})
              = Cardinality({m \in 1..n : text[m] \in Close})

Settled == phase \in {"gaveup", "walked", "hoisted"}

\* Of every head the language has, the walk takes all the names that are bound
\* or none: never a key, a name in a default, a computed key or an index.  But
\* it takes an index on the outermost bracket for a second pattern.  It takes
\* them all if no target is a member and no key is computed.
AllBoundNamesOrNone ==
    /\ Settled /\ text \in AllTexts /\ ~Indexed =>
          targets = {} \/ Mark(text, targets) \in AllHeads
    /\ Settled /\ text \in SimpleTexts => Mark(text, targets) \in SimpleHeads

\* A name that gets a var is bound at each of its occurrences: one that is read
\* anywhere keeps its error.
HoistedNamesAreNeverRead ==
    won /\ text \in AllTexts /\ ~Indexed =>
        \E bound \in SUBSET DOMAIN text : name \subseteq bound /\ Mark(text, bound) \in AllHeads
=============================================================================
