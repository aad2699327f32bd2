--------------------------- MODULE SecretsScanner ---------------------------
(***************************************************************************)
(* The secrets detection plugin: the walk through a payload's JSON values, *)
(* the selection among overlapping matches in a text, the redaction of the *)
(* selected ones and the decision on the payload.                          *)
(*                                                                         *)
(* A text is the set of the matches the regular expressions find in it,    *)
(* and after a scan the set of its positions that were copied. Every node  *)
(* of a payload is a leaf (a string) or a container (an object or an       *)
(* array). Values of other types hold no text and are left out.            *)
(*                                                                         *)
(* Code: plugins/cpex-secrets-detection/src/{lib,scanner,config}.rs.       *)
(***************************************************************************)
EXTENDS Naturals, Sequences, FiniteSets

CONSTANTS
    Node,         \* nodes of the values in a payload
    Root,         \* the values of the parts the stage scans
    Children,     \* Children[n]: the values in container n
    Path,         \* Path[n]: the keys from the root to n; arrays add none
    Length,       \* length of a text
    Pattern,      \* patterns, numbered in the order of their names
    Specificity,  \* Specificity[p]: lower is more specific
    Config,       \* plugin configurations
    Payload,      \* payloads: the matches in each leaf, by all patterns
    NoLeaf        \* no leaf is being scanned

Leaf == {n \in Node : Children[n] = {}}

Position == 0 .. Length - 1

\* A MatchCandidate: where a pattern matched.
Candidate == {c \in [name : Pattern, start : Position, end : 1 .. Length] : c.start < c.end}

Span(c) == c.start .. c.end - 1

path_starts_with(path, prefix) ==
    /\ Len(path) >= Len(prefix)
    /\ \A i \in 1 .. Len(prefix) : path[i] = prefix[i]

\* A JSON value is in one place, and every value is in one of the roots.
IsForest ==
    /\ \A n \in Node : Children[n] \cap Root = {}
    /\ \A m, n \in Node : m # n => Children[m] \cap Children[n] = {}
    /\ \A S \in SUBSET Node : Root \subseteq S /\ (\A n \in S : Children[n] \subseteq S) => S = Node

\* find_iter and captures_iter return disjoint matches of one pattern.
ASSUME ScannerAssumption ==
    /\ Length \in Nat /\ Pattern \subseteq Nat
    /\ Specificity \in [Pattern -> Nat]
    /\ Root \subseteq Node /\ NoLeaf \notin Node
    /\ IsFiniteSet(Node) /\ Children \in [Node -> SUBSET Node] /\ IsForest
    /\ Path \in [Node -> Seq(STRING)]
    /\ \A r \in Root : Path[r] = <<>>
    /\ \A n \in Node : \A c \in Children[n] : path_starts_with(Path[c], Path[n])
    /\ \A c \in Config :
          /\ c.enabled \subseteq Pattern /\ c.min \in Nat
          /\ {c.redact, c.block} \subseteq BOOLEAN
          /\ c.allow \cup c.deny \subseteq Seq(STRING) \ {<<>>}
    /\ \A p \in Payload :
          /\ p \in [Leaf -> SUBSET Candidate]
          /\ \A n \in Leaf : \A c, d \in p[n] :
                c.name = d.name => c = d \/ Span(c) \cap Span(d) = {}

VARIABLES
    config,    \* the plugin's configuration
    pc,        \* what the handler is doing
    text,      \* text[n]: the matches in leaf n of the payload
    frontier,  \* nodes the walk still has to visit
    leaf,      \* the leaf whose text is being scanned
    rest,      \* matches in leaf not yet considered, in the order of Precedes
    selected,  \* matches selected and merged so far
    next,      \* the selected match to redact next
    cursor,    \* where the copy of the text continues
    copied,    \* copied[n]: positions of leaf n's text that are in the result
    count      \* findings

vars == <<config, pc, text, frontier, leaf, rest, selected, next, cursor, copied, count>>

textVars == <<leaf, rest, selected, next, cursor>>

-----------------------------------------------------------------------------
(* Field filters *)

PathIsDenied(path) == \E d \in config.deny : path_starts_with(path, d)

Allowed(path) == config.allow = {} \/ \E a \in config.allow : path_starts_with(path, a)

\* A root that is itself a string, or a resource's text, is always scanned.
ShouldScan(n) ==
    \/ n \in Root
    \/ ~PathIsDenied(Path[n]) /\ Allowed(Path[n])

\* Mutant: parents of an allowed path are not entered.
ShouldTraverse_AllowedOnly(n) ==
    Path[n] = <<>> \/ (~PathIsDenied(Path[n]) /\ Allowed(Path[n]))

ShouldTraverse(n) ==
    \/ Path[n] = <<>>
    \/ /\ ~PathIsDenied(Path[n])
       /\ Allowed(Path[n]) \/ \E a \in config.allow : path_starts_with(a, Path[n])

-----------------------------------------------------------------------------
(* The order of the matches and how an overlapping one is merged *)

Size(c) == c.end - c.start

Rank(c) == Specificity[c.name]

\* Mutant: the most specific matches come first.
Precedes_SpecificFirst(c, d) ==
    \/ Rank(c) < Rank(d)
    \/ Rank(c) = Rank(d) /\ c.start < d.start
    \/ Rank(c) = Rank(d) /\ c.start = d.start /\ Size(c) > Size(d)
    \/ Rank(c) = Rank(d) /\ c.start = d.start /\ Size(c) = Size(d) /\ c.name < d.name

\* sort_by: start, then specificity, then the longer one, then the name.
Precedes(c, d) ==
    \/ c.start < d.start
    \/ /\ c.start = d.start
       /\ \/ Rank(c) < Rank(d)
          \/ Rank(c) = Rank(d) /\ Size(c) > Size(d)
          \/ Rank(c) = Rank(d) /\ Size(c) = Size(d) /\ c.name < d.name

\* Mutant: the name follows the longer match.
Wins_Longer(c, current) == Size(c) > Size(current)

\* The overlapping match names the merged one.
Wins(c, current) ==
    Rank(c) < Rank(current) \/ (Rank(c) = Rank(current) /\ Size(c) > Size(current))

Merge(current, c) ==
    [name |-> IF Wins(c, current) THEN c.name ELSE current.name,
     start |-> current.start,
     end |-> IF c.end > current.end THEN c.end ELSE current.end]

\* Mutant: a match that begins where the last one ends is merged.
Select_MergesTouching(sel, c) ==
    IF sel = <<>> \/ c.start > sel[Len(sel)].end
    THEN Append(sel, c)
    ELSE [sel EXCEPT ![Len(sel)] = Merge(@, c)]

Select(sel, c) ==
    IF sel = <<>> \/ c.start >= sel[Len(sel)].end
    THEN Append(sel, c)
    ELSE [sel EXCEPT ![Len(sel)] = Merge(@, c)]

-----------------------------------------------------------------------------
(* The handler *)

Init ==
    /\ config \in Config
    /\ pc = "idle"
    /\ text = [n \in Leaf |-> {}]
    /\ frontier = {}
    /\ leaf = NoLeaf
    /\ rest = {}
    /\ selected = <<>>
    /\ next = 1
    /\ cursor = 0
    /\ copied = [n \in Leaf |-> Position]
    /\ count = 0

\* handle(): a payload comes in, as it is until something is redacted.
Handle(p) ==
    /\ pc = "idle"
    /\ pc' = "walk"
    /\ text' = p
    /\ frontier' = Root
    /\ copied' = [n \in Leaf |-> Position]
    /\ count' = 0
    /\ UNCHANGED <<config, textVars>>

\* scan_json_value_inner on an array or an object.
Enter(n) ==
    /\ pc = "walk"
    /\ n \in frontier \ Leaf
    /\ frontier' = (frontier \ {n}) \cup (IF ShouldTraverse(n) THEN Children[n] ELSE {})
    /\ UNCHANGED <<config, pc, text, textVars, copied, count>>

\* The matches of the enabled patterns, from find_iter and captures_iter.
Found(n) == {c \in text[n] : c.name \in config.enabled}

\* scan_json_value_inner on a string, and scan_direct_text.
ScanText(n) ==
    /\ pc = "walk"
    /\ n \in frontier \cap Leaf
    /\ frontier' = frontier \ {n}
    /\ \/ /\ ~ShouldScan(n)
          /\ UNCHANGED <<pc, textVars>>
       \/ /\ ShouldScan(n)
          /\ pc' = "select"
          /\ leaf' = n
          /\ rest' = Found(n)
          /\ selected' = <<>>
          /\ UNCHANGED <<next, cursor>>
    /\ UNCHANGED <<config, text, copied, count>>

\* detect_and_redact takes the next match in order.
Consider(c) ==
    /\ pc = "select"
    /\ c \in rest
    /\ \A d \in rest \ {c} : Precedes(c, d)
    /\ rest' = rest \ {c}
    /\ selected' = Select(selected, c)
    /\ UNCHANGED <<config, pc, text, frontier, leaf, next, cursor, copied, count>>

\* Every match is considered: the findings are counted, and if there are any
\* to redact the text is copied anew.
Detected ==
    LET redacts == config.redact /\ selected # <<>> IN
    /\ pc = "select"
    /\ rest = {}
    /\ count' = count + Len(selected)
    /\ pc' = IF redacts THEN "redact" ELSE "walk"
    /\ copied' = IF redacts THEN [copied EXCEPT ![leaf] = {}] ELSE copied
    /\ next' = 1
    /\ cursor' = 0
    /\ UNCHANGED <<config, text, frontier, leaf, rest, selected>>

\* The text up to the next selected match is copied and the match is not. A
\* slice whose end is before its start would panic: there is no such step.
CopyUpToMatch ==
    LET matched == selected[next] IN
    /\ pc = "redact"
    /\ next <= Len(selected)
    /\ cursor <= matched.start
    /\ copied' = [copied EXCEPT ![leaf] = @ \cup (cursor .. matched.start - 1)]
    /\ cursor' = matched.end
    /\ next' = next + 1
    /\ UNCHANGED <<config, pc, text, frontier, leaf, rest, selected, count>>

CopyTail ==
    /\ pc = "redact"
    /\ next > Len(selected)
    /\ copied' = [copied EXCEPT ![leaf] = @ \cup (cursor .. Length - 1)]
    /\ pc' = "walk"
    /\ UNCHANGED <<config, text, frontier, textVars, count>>

\* Mutant: more findings than the threshold are needed.
ShouldBlock_More == config.block /\ count > config.min

ShouldBlock == config.block /\ count >= config.min

\* The end of handle(): deny, replace the payload, or let it pass as it came.
Decide ==
    /\ pc = "walk"
    /\ frontier = {}
    /\ pc' = IF ShouldBlock THEN "denied"
             ELSE IF config.redact /\ count > 0 THEN "modified"
             ELSE "allowed"
    /\ UNCHANGED <<config, text, frontier, textVars, copied, count>>

Decided == pc \in {"denied", "modified", "allowed"}

\* The plugin manager gets the result; the handler keeps nothing of the payload.
Done ==
    /\ Decided
    /\ pc' = "idle"
    /\ text' = [n \in Leaf |-> {}]
    /\ frontier' = {}
    /\ leaf' = NoLeaf
    /\ rest' = {}
    /\ selected' = <<>>
    /\ next' = 1
    /\ cursor' = 0
    /\ copied' = [n \in Leaf |-> Position]
    /\ count' = 0
    /\ UNCHANGED config

Next ==
    \/ \E p \in Payload : Handle(p)
    \/ \E n \in Node : Enter(n) \/ ScanText(n)
    \/ \E c \in rest : Consider(c)
    \/ Detected
    \/ CopyUpToMatch
    \/ CopyTail
    \/ Decide
    \/ Done

Spec == Init /\ [][Next]_vars

-----------------------------------------------------------------------------
(* Properties *)

\* Every variable keeps its type; a selected match has the shape of a match.
TypeOK ==
    /\ config \in Config
    /\ pc \in {"idle", "walk", "select", "redact", "denied", "modified", "allowed"}
    /\ text \in [Leaf -> SUBSET Candidate]
    /\ frontier \subseteq Node
    /\ leaf \in Leaf \cup {NoLeaf}
    /\ rest \subseteq Candidate
    /\ selected \in Seq(Candidate)
    /\ next \in Nat \ {0}
    /\ cursor \in 0 .. Length
    /\ copied \in [Leaf -> SUBSET Position]
    /\ count \in Nat

\* The leaves the filters are about, whatever lies above them.
Eligible == {n \in Leaf : ShouldScan(n)}

Matched(n) == UNION {Span(c) : c \in Found(n)}

\* What the next hook, the backend or the client is given of leaf n.
Passed(n) == IF pc = "modified" THEN copied[n] ELSE Position

\* A payload that is let through by a redacting plugin has every position of
\* every text except exactly those some enabled pattern matched in a field the
\* filters select: overlapping matches leave no remainder, nothing else is
\* lost, and no selected field hides behind a container the walk skipped
\* (detect_and_redact, should_traverse_field_path).
RedactionExact ==
    pc \in {"modified", "allowed"} /\ config.redact =>
        \A n \in Leaf : Passed(n) = IF n \in Eligible THEN Position \ Matched(n) ELSE Position

\* The places where a stretch of overlapping matches begins.
RegionStarts(n) ==
    {c.start : c \in {c \in Found(n) : ~\E d \in Found(n) : d.start < c.start /\ c.start < d.end}}

\* A payload is denied exactly if blocking is on and the separate stretches of
\* matches in the selected fields reach the threshold: patterns that match the
\* same secret count once, adjacent secrets count each, and a threshold of 0
\* denies clean payloads too (detect_and_redact, should_block).
BlocksByRegions ==
    Decided =>
        LET regions == UNION {{<<n, p>> : p \in RegionStarts(n)} : n \in Eligible} IN
        pc = "denied" <=> config.block /\ Cardinality(regions) >= config.min

\* A finding is named after the most specific pattern that matched anywhere in
\* its stretch, in whatever order the matches come (the merge of
\* detect_and_redact).
MostSpecificNamed ==
    pc = "select" =>
        \A i \in 1 .. Len(selected) :
            \A c \in Found(leaf) \ rest :
                Span(c) \cap Span(selected[i]) # {} => Rank(selected[i]) <= Rank(c)

=============================================================================
