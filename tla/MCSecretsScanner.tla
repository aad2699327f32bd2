--------------------------- MODULE MCSecretsScanner ---------------------------
(***************************************************************************)
(* A payload with one part that is an object, {a: {b: "x", c: ["y"]}}, and *)
(* one that is a string. Every set of at most three matches in the string, *)
(* and every distribution of a few over all the texts.                     *)
(***************************************************************************)
EXTENDS SecretsScanner

MCNode == {"obj", "a", "x", "c", "y", "direct"}

MCRoot == {"obj", "direct"}

MCChildren == [n \in MCNode |-> IF n = "obj" THEN {"a"} ELSE IF n = "a" THEN {"x", "c"}
                                ELSE IF n = "c" THEN {"y"} ELSE {}]

MCPath == [n \in MCNode |-> IF n \in MCRoot THEN <<>> ELSE IF n = "a" THEN <<"a">>
                            ELSE IF n = "x" THEN <<"a", "b">> ELSE <<"a", "c">>]

\* Pattern 1 is a broad one.
MCSpecificity == [p \in Pattern |-> IF p = 1 THEN 1 ELSE 0]

NoFilter == [allow |-> {}, deny |-> {}]

MCFilter == {NoFilter,
             [allow |-> {<<"a", "c">>}, deny |-> {}],
             [allow |-> {<<"a">>}, deny |-> {<<"a", "c">>}],
             [allow |-> {<<"z">>}, deny |-> {<<"a", "b", "x">>}]}

Settings(enabled, redact, block, min, filter) ==
    [enabled |-> enabled, redact |-> redact, block |-> block, min |-> min,
     allow |-> filter.allow, deny |-> filter.deny]

\* Every filter, and without one every use of the findings.
MCConfig == {Settings(Pattern, TRUE, TRUE, 2, f) : f \in MCFilter}
            \cup {Settings({2}, TRUE, FALSE, 1, NoFilter), Settings(Pattern, TRUE, TRUE, 3, NoFilter),
                  Settings(Pattern, FALSE, TRUE, 0, NoFilter), Settings({1, 2}, FALSE, FALSE, 1, NoFilter)}

Disjoint(t) == \A c, d \in t : c.name = d.name => c = d \/ Span(c) \cap Span(d) = {}

\* Patterns 2 and 3 differ in their names only, so 3 comes beside 2.
DirectTexts ==
    {t \in {{a, b, c} : a, b, c \in Candidate} :
        Disjoint(t) /\ ((\E c \in t : c.name = 3) => \E c \in t : c.name = 2)}

\* No match, one, and two that overlap with a third that touches them.
FieldTexts == {{}, {[name |-> 1, start |-> 1, end |-> 3]},
               {[name |-> 1, start |-> 0, end |-> 2], [name |-> 2, start |-> 1, end |-> 3],
                [name |-> 1, start |-> 3, end |-> 4]}}

MCPayload == [Leaf -> FieldTexts]
             \cup {[n \in Leaf |-> IF n = "direct" THEN t ELSE {}] : t \in DirectTexts}
===============================================================================
